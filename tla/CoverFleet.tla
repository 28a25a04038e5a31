----------------------------- MODULE CoverFleet -----------------------------
(***************************************************************************)
(* Cover-domain pool, RU boxes and onward credentials of the controller    *)
(* (specs C and G).  One SQLite database is shared by                      *)
(*   - Shell: operator CLI processes.  A command is a sequence of          *)
(*     statements of which each read runs in autocommit and each helper    *)
(*     commits on its own, so a command is a program counter plus what it  *)
(*     has read so far, and another process may commit between two steps;  *)
(*   - the daemon's sweeps, one thread each: reverify (TTL downgrade),     *)
(*     rotation (flags overdue domains) and auto (TLS probe and self-burn).*)
(* Every action is one committed transaction or one autocommit read.       *)
(***************************************************************************)
EXTENDS Naturals, FiniteSets

CONSTANTS
    Domain,      \* cover domains
    Box,         \* box ids (uuids) the controller can mint
    Shell,       \* operator processes able to run at the same time
    NoDomain, NoBox,
    Freeze,      \* cfg.cover_pool.freeze_threshold
    Armed,       \* the sweeps the daemon runs
    MaxCrashes   \* bound: killed commands plus daemon restarts

Sweeps == {"reverify", "rotation", "auto"}

ASSUME FleetAssumption ==
    /\ NoDomain \notin Domain
    /\ NoBox \notin Box
    /\ Freeze \in Nat
    /\ MaxCrashes \in Nat
    /\ Armed \subseteq Sweeps

VARIABLES
    pool,        \* cover_domain_pool.state, "absent" when there is no row
    assigned,    \* cover_domain_pool.assigned_box_id
    stale,       \* domains whose last_verified_at is past the reverify TTL
    overdue,     \* domains whose entered_in_use_at is past the rotation TTL
    burned,      \* burned_domains
    boxState,    \* ru_boxes.state, "none" before the row exists
    sni,         \* ru_boxes.sni; NoDomain for no row and for 'released:<id>'
    wentLive,    \* boxes whose went_live_at is set
    cred,        \* the box's onward credential
    rotPending,  \* obligation rows cover_pool_rotation_pending::<domain>
    frozen,      \* obligation row cover_pool_rotation_frozen is present
    drift,       \* obligation rows cover_pool_reverify_drift_pending::<domain>
    op,          \* what each operator command has read, and its next step
    ttlTodo,     \* reverify sweep: rows selected and not yet downgraded
    rotPc, rotTodo,
    arPc, arVerified, arInUse, arFailed, arTodo, arBurned,
    crashes

dbvars  == <<pool, assigned, stale, overdue, burned, boxState, sni, wentLive,
             cred, rotPending, frozen, drift>>
poolvars == <<pool, assigned, stale, overdue, burned>>
boxvars == <<boxState, sni, wentLive, cred>>
obvars  == <<rotPending, frozen, drift>>
rotvars == <<rotPc, rotTodo>>
arvars  == <<arPc, arVerified, arInUse, arFailed, arTodo, arBurned>>
sweepvars == <<ttlTodo, rotvars, arvars>>
vars    == <<dbvars, op, sweepvars, crashes>>

PoolState == {"absent", "candidate_unverified", "candidate_verified", "in_use"}
BoxState  == {"none", "provisioning", "live", "terminated"}
CredState == {"none", "active", "revoked"}
OpPc      == {"idle", "provision", "reclaim", "creds", "revoke", "burn",
              "mark", "rotate", "clear"}
ArPc      == {"idle", "inuse", "probe", "burn", "raise"}

Operation(pc, b, d) == [pc |-> pc, box |-> b, dom |-> d]
Idle == Operation("idle", NoBox, NoDomain)

Standing(b) == boxState[b] \in {"provisioning", "live"}
InPool(s)   == {d \in Domain : pool[d] = s}
Seen        == arVerified \cup arInUse

(* Guards and row sets of the statements below, some with the slip a careless *)
(* edit of it would be; the runs must notice every slip.                      *)

\* reclaim_box's refusal of boxes that are not provisioning
ReclaimableStanding(b) == Standing(b)
Reclaimable(b) == boxState[b] = "provisioning"

\* the pool row that the reclaim of b hands back
Returns(d, b) == pool[d] = "in_use" /\ assigned[d] = b

\* UPDATE onward_credentials ... WHERE box_id = b AND revoked_at IS NULL
RevokeActive(b) == [cred EXCEPT ![b] = IF @ = "active" THEN "revoked" ELSE @]

\* the rowcount of provisioning's UPDATE on the pool
PickUnchecked(d) == TRUE
StillVerified(d) == pool[d] = "candidate_verified"

\* the rows the reverify sweep selects, and the row its UPDATE matches
PastTtlInUse == InPool("in_use") \cap stale
PastTtl == InPool("candidate_verified") \cap stale

Downgrades(d) == pool[d] = "candidate_verified"

\* pool_health.rotation_frozen
TightAtFloor == Cardinality(InPool("candidate_verified")) <= Freeze
Tight == Cardinality(InPool("candidate_verified")) < Freeze

Init ==
    /\ pool = [d \in Domain |-> "absent"]
    /\ assigned = [d \in Domain |-> NoBox]
    /\ stale = {} /\ overdue = {} /\ burned = {}
    /\ boxState = [b \in Box |-> "none"]
    /\ sni = [b \in Box |-> NoDomain]
    /\ wentLive = {}
    /\ cred = [b \in Box |-> "none"]
    /\ rotPending = {} /\ frozen = FALSE /\ drift = {}
    /\ op = [s \in Shell |-> Idle]
    /\ ttlTodo = {}
    /\ rotPc = "idle" /\ rotTodo = {}
    /\ arPc = "idle" /\ arVerified = {} /\ arInUse = {} /\ arFailed = {}
    /\ arTodo = {} /\ arBurned = {}
    /\ crashes = 0

-----------------------------------------------------------------------------
(* Helpers on the shared tables *)

\* burned.mark_burned: the pool row becomes a burned_domains row in one
\* transaction; it raises unless the row exists and is not burned yet.  The
\* state of the row is not looked at.
CanBurn(d) == pool[d] # "absent" /\ d \notin burned
MarkBurned(d) ==
    /\ pool' = [pool EXCEPT ![d] = "absent"]
    /\ assigned' = [assigned EXCEPT ![d] = NoBox]
    /\ stale' = stale \ {d}
    /\ overdue' = overdue \ {d}
    /\ burned' = burned \cup {d}

Step(s, next) == op' = [op EXCEPT ![s] = next]
Finish(s)     == Step(s, Idle)

-----------------------------------------------------------------------------
(* Operator commands *)

\* cover-add: the trigger cover_pool_reject_burned refuses a burned domain and
\* the primary key a domain that is already in the pool.
CoverAdd(s, d) ==
    /\ op[s] = Idle
    /\ pool[d] = "absent"
    /\ d \notin burned
    /\ pool' = [pool EXCEPT ![d] = "candidate_unverified"]
    /\ UNCHANGED <<assigned, stale, overdue, burned, boxvars, obvars, op,
                   sweepvars, crashes>>

\* cover-attest-verified from an active vantage.
AttestVerified(s, d) ==
    /\ op[s] = Idle
    /\ pool[d] = "candidate_unverified"
    /\ pool' = [pool EXCEPT ![d] = "candidate_verified"]
    /\ stale' = stale \ {d}
    /\ UNCHANGED <<assigned, overdue, burned, boxvars, obvars, op, sweepvars,
                   crashes>>

\* provision-seed: the candidate is picked in a read before the transaction.
ProvisionPick(s, d) ==
    /\ op[s] = Idle
    /\ pool[d] = "candidate_verified"
    /\ \E b \in Box : boxState[b] = "none"      \* bound: a box id is left
    /\ Step(s, Operation("provision", NoBox, d))
    /\ UNCHANGED <<dbvars, sweepvars, crashes>>

\* The transaction: a terminated box gives up its sni, the new box takes it
\* (UNIQUE), and the pool row must still be candidate_verified.
SniFree(d) == \A b \in Box : sni[b] = d => boxState[b] = "terminated"

ProvisionCommit(s, b) ==
    LET d == op[s].dom IN
    /\ op[s].pc = "provision"
    /\ boxState[b] = "none"
    /\ StillVerified(d)
    /\ SniFree(d)
    /\ boxState' = [boxState EXCEPT ![b] = "provisioning"]
    /\ sni' = [c \in Box |-> IF c = b THEN d
                             ELSE IF sni[c] = d THEN NoDomain ELSE sni[c]]
    /\ cred' = [cred EXCEPT ![b] = "active"]
    /\ pool' = [pool EXCEPT ![d] = "in_use"]
    /\ assigned' = [assigned EXCEPT ![d] = b]
    /\ overdue' = overdue \ {d}
    /\ Finish(s)
    /\ UNCHANGED <<stale, burned, wentLive, obvars, sweepvars, crashes>>

\* ProvisionError or UNIQUE failure: everything is rolled back.
ProvisionAbort(s) ==
    LET d == op[s].dom IN
    /\ op[s].pc = "provision"
    /\ ~StillVerified(d) \/ ~SniFree(d)
    /\ Finish(s)
    /\ UNCHANGED <<dbvars, sweepvars, crashes>>

\* ru-box-mark-live: one guarded UPDATE; the box keeps the shard it was bound to.
MarkLive(s, b) ==
    /\ op[s] = Idle
    /\ boxState[b] = "provisioning"
    /\ boxState' = [boxState EXCEPT ![b] = "live"]
    /\ wentLive' = wentLive \cup {b}
    /\ UNCHANGED <<poolvars, sni, cred, obvars, op, sweepvars, crashes>>

\* ru-box-reclaim: reads the box, refuses anything but provisioning ...
ReclaimRead(s, b) ==
    /\ op[s] = Idle
    /\ Reclaimable(b)
    /\ Step(s, Operation("reclaim", b, sni[b]))
    /\ UNCHANGED <<dbvars, sweepvars, crashes>>

\* ... then runs three guarded UPDATEs of which none has to match a row.
ReclaimCommit(s) ==
    LET b == op[s].box
        d == op[s].dom
        held == Returns(d, b)
    IN
    /\ op[s].pc = "reclaim"
    /\ boxState' = [boxState EXCEPT ![b] =
                        IF @ = "provisioning" THEN "terminated" ELSE @]
    /\ pool' = [pool EXCEPT ![d] = IF held THEN "candidate_verified" ELSE @]
    /\ assigned' = [assigned EXCEPT ![d] = IF held THEN NoBox ELSE @]
    /\ overdue' = IF held THEN overdue \ {d} ELSE overdue
    /\ cred' = RevokeActive(b)
    /\ Finish(s)
    /\ UNCHANGED <<stale, burned, sni, wentLive, obvars, sweepvars, crashes>>

\* ru-box-terminate: reads the box, lists its credentials, revokes them, burns
\* the domain, marks the box.  Each step commits; each may raise, which ends
\* the command where it stands.
TerminateRead(s, b) ==
    /\ op[s] = Idle
    /\ Standing(b)
    /\ Step(s, Operation("creds", b, sni[b]))
    /\ UNCHANGED <<dbvars, sweepvars, crashes>>

TerminateListCreds(s) ==
    /\ op[s].pc = "creds"
    /\ op' = [op EXCEPT ![s].pc =
                  IF cred[op[s].box] = "active" THEN "revoke" ELSE "burn"]
    /\ UNCHANGED <<dbvars, sweepvars, crashes>>

TerminateRevoke(s) ==
    LET b == op[s].box IN
    /\ op[s].pc = "revoke"
    /\ IF cred[b] = "active"
       THEN /\ cred' = [cred EXCEPT ![b] = "revoked"]
            /\ op' = [op EXCEPT ![s].pc = "burn"]
       ELSE Finish(s) /\ UNCHANGED cred
    /\ UNCHANGED <<poolvars, boxState, sni, wentLive, obvars, sweepvars, crashes>>

TerminateBurn(s) ==
    LET d == op[s].dom IN
    /\ op[s].pc = "burn"
    /\ IF CanBurn(d)
       THEN MarkBurned(d) /\ op' = [op EXCEPT ![s].pc = "mark"]
       ELSE Finish(s) /\ UNCHANGED poolvars
    /\ UNCHANGED <<boxvars, obvars, sweepvars, crashes>>

TerminateMark(s) ==
    LET b == op[s].box IN
    /\ op[s].pc = "mark"
    /\ boxState' = [boxState EXCEPT ![b] = IF Standing(b) THEN "terminated" ELSE @]
    /\ Finish(s)
    /\ UNCHANGED <<poolvars, sni, wentLive, cred, obvars, sweepvars, crashes>>

\* cover-rotate: rotate_and_burn checks in_use in a read of its own, burns, and
\* only then is the rotation_pending row deleted.
RotateRead(s, d) ==
    /\ op[s] = Idle
    /\ pool[d] = "in_use"
    /\ Step(s, Operation("rotate", NoBox, d))
    /\ UNCHANGED <<dbvars, sweepvars, crashes>>

RotateBurn(s) ==
    LET d == op[s].dom IN
    /\ op[s].pc = "rotate"
    /\ IF CanBurn(d)
       THEN MarkBurned(d) /\ op' = [op EXCEPT ![s].pc = "clear"]
       ELSE Finish(s) /\ UNCHANGED poolvars
    /\ UNCHANGED <<boxvars, obvars, sweepvars, crashes>>

RotateClear(s) ==
    /\ op[s].pc = "clear"
    /\ rotPending' = rotPending \ {op[s].dom}
    /\ Finish(s)
    /\ UNCHANGED <<poolvars, boxvars, frozen, drift, sweepvars, crashes>>

-----------------------------------------------------------------------------
(* Time: the reverify TTL and the rotation TTL run out *)

VerificationAges(d) ==
    /\ pool[d] \in {"candidate_verified", "in_use"}
    /\ d \notin stale
    /\ stale' = stale \cup {d}
    /\ UNCHANGED <<pool, assigned, overdue, burned, boxvars, obvars, op,
                   sweepvars, crashes>>

RotationFallsDue(d) ==
    /\ pool[d] = "in_use"
    /\ d \notin overdue
    /\ overdue' = overdue \cup {d}
    /\ UNCHANGED <<pool, assigned, stale, burned, boxvars, obvars, op,
                   sweepvars, crashes>>

-----------------------------------------------------------------------------
(* Reverify sweep: one SELECT, then one guarded UPDATE and commit per row *)

TtlSelect ==
    /\ "reverify" \in Armed
    /\ ttlTodo = {}
    /\ PastTtl # {}
    /\ ttlTodo' = PastTtl
    /\ UNCHANGED <<dbvars, op, rotvars, arvars, crashes>>

TtlDowngrade(d) ==
    /\ d \in ttlTodo
    /\ ttlTodo' = ttlTodo \ {d}
    /\ pool' = [pool EXCEPT ![d] = IF Downgrades(d) THEN "candidate_unverified" ELSE @]
    /\ stale' = IF Downgrades(d) THEN stale \ {d} ELSE stale
    /\ UNCHANGED <<assigned, overdue, burned, boxvars, obvars, op, rotvars,
                   arvars, crashes>>

(* Rotation sweep: health gate, due list, one obligation row per due domain *)

RotationHealth ==
    /\ "rotation" \in Armed
    /\ rotPc = "idle"
    /\ frozen' = Tight
    /\ rotPc' = IF Tight THEN "idle" ELSE "due"
    /\ UNCHANGED <<poolvars, boxvars, rotPending, drift, op, ttlTodo, rotTodo,
                   arvars, crashes>>

RotationDue ==
    /\ rotPc = "due"
    /\ rotTodo' = InPool("in_use") \cap overdue
    /\ rotPc' = "flag"
    /\ UNCHANGED <<dbvars, op, ttlTodo, arvars, crashes>>

RotationFlag(d) ==
    /\ rotPc = "flag"
    /\ d \in rotTodo
    /\ rotPending' = rotPending \cup {d}
    /\ rotTodo' = rotTodo \ {d}
    /\ UNCHANGED <<poolvars, boxvars, frozen, drift, op, ttlTodo, rotPc, arvars,
                   crashes>>

RotationDone ==
    /\ rotPc = "flag"
    /\ rotTodo = {}
    /\ rotPc' = "idle"
    /\ UNCHANGED <<dbvars, op, ttlTodo, rotTodo, arvars, crashes>>

(* Auto-reverify sweep: two reads, a TLS probe per domain, then the burns and *)
(* the drift rows, all decided from the snapshot.                             *)

ArReadVerified ==
    /\ "auto" \in Armed
    /\ arPc = "idle"
    /\ arVerified' = InPool("candidate_verified")
    /\ arPc' = "inuse"
    /\ UNCHANGED <<dbvars, op, ttlTodo, rotvars, arInUse, arFailed, arTodo,
                   arBurned, crashes>>

ArReadInUse ==
    /\ arPc = "inuse"
    /\ arInUse' = InPool("in_use")
    /\ arVerified' = arVerified \ InPool("in_use")
    /\ arPc' = "probe"
    /\ UNCHANGED <<dbvars, op, ttlTodo, rotvars, arFailed, arTodo, arBurned,
                   crashes>>

ArProbe(failed) ==
    /\ arPc = "probe"
    /\ failed \subseteq Seen
    /\ arFailed' = failed
    /\ arTodo' = failed \cap arVerified
    /\ arPc' = "burn"
    /\ UNCHANGED <<dbvars, op, ttlTodo, rotvars, arVerified, arInUse, arBurned,
                   crashes>>

\* The count is the snapshot's, less the burns of this run.
HasSlack == Cardinality(arVerified) >= Cardinality(arBurned) + 1 + Freeze

\* A burned domain stays in arTodo until the DELETE of its drift row commits.
ArBurn(d) ==
    /\ arPc = "burn"
    /\ arTodo \cap arBurned = {}
    /\ d \in arTodo
    /\ HasSlack
    /\ CanBurn(d)
    /\ MarkBurned(d)
    /\ arBurned' = arBurned \cup {d}
    /\ UNCHANGED <<boxvars, obvars, op, ttlTodo, rotvars, arPc, arVerified,
                   arInUse, arFailed, arTodo, crashes>>

ArClear(d) ==
    /\ arPc = "burn"
    /\ d \in arTodo \cap arBurned
    /\ drift' = drift \ {d}
    /\ arTodo' = arTodo \ {d}
    /\ UNCHANGED <<poolvars, boxvars, rotPending, frozen, op, ttlTodo, rotvars,
                   arPc, arVerified, arInUse, arFailed, arBurned, crashes>>

\* Pool too tight, or the burn raised and was logged.
ArSkip(d) ==
    /\ arPc = "burn"
    /\ arTodo \cap arBurned = {}
    /\ d \in arTodo
    /\ ~HasSlack \/ ~CanBurn(d)
    /\ arTodo' = arTodo \ {d}
    /\ UNCHANGED <<dbvars, op, ttlTodo, rotvars, arPc, arVerified, arInUse,
                   arFailed, arBurned, crashes>>

ArBurnsDone ==
    /\ arPc = "burn"
    /\ arTodo = {}
    /\ arPc' = "raise"
    /\ arTodo' = arFailed \ arBurned
    /\ UNCHANGED <<dbvars, op, ttlTodo, rotvars, arVerified, arInUse, arFailed,
                   arBurned, crashes>>

ArRaise(d) ==
    /\ arPc = "raise"
    /\ d \in arTodo
    /\ drift' = drift \cup {d}
    /\ arTodo' = arTodo \ {d}
    /\ UNCHANGED <<poolvars, boxvars, rotPending, frozen, op, ttlTodo, rotvars,
                   arPc, arVerified, arInUse, arFailed, arBurned, crashes>>

ArFinish ==
    /\ arPc = "raise"
    /\ arTodo = {}
    /\ drift' = drift \ (Seen \ arFailed)
    /\ arPc' = "idle"
    /\ arVerified' = {} /\ arInUse' = {} /\ arFailed' = {} /\ arBurned' = {}
    /\ UNCHANGED <<poolvars, boxvars, rotPending, frozen, op, ttlTodo, rotvars,
                   arTodo, crashes>>

-----------------------------------------------------------------------------
(* Crashes: what a process has read is lost, what it committed stays *)

ShellDies(s) ==
    /\ crashes < MaxCrashes
    /\ op[s] # Idle
    /\ Finish(s)
    /\ crashes' = crashes + 1
    /\ UNCHANGED <<dbvars, sweepvars>>

DaemonRestarts ==
    /\ crashes < MaxCrashes
    /\ ttlTodo # {} \/ rotPc # "idle" \/ arPc # "idle"
    /\ crashes' = crashes + 1
    /\ ttlTodo' = {}
    /\ rotPc' = "idle" /\ rotTodo' = {}
    /\ arPc' = "idle" /\ arVerified' = {} /\ arInUse' = {} /\ arFailed' = {}
    /\ arTodo' = {} /\ arBurned' = {}
    /\ UNCHANGED <<dbvars, op>>

-----------------------------------------------------------------------------
OperatorStep(s) ==
    \/ \E d \in Domain : \/ CoverAdd(s, d) \/ AttestVerified(s, d)
                         \/ ProvisionPick(s, d) \/ RotateRead(s, d)
    \/ \E b \in Box : \/ ProvisionCommit(s, b) \/ MarkLive(s, b)
                      \/ ReclaimRead(s, b) \/ TerminateRead(s, b)
    \/ ProvisionAbort(s) \/ ReclaimCommit(s)
    \/ TerminateListCreds(s) \/ TerminateRevoke(s) \/ TerminateBurn(s)
    \/ TerminateMark(s) \/ RotateBurn(s) \/ RotateClear(s)

TimeStep == \E d \in Domain : VerificationAges(d) \/ RotationFallsDue(d)

ReverifySweep == TtlSelect \/ \E d \in Domain : TtlDowngrade(d)

RotationSweep ==
    \/ RotationHealth \/ RotationDue \/ RotationDone
    \/ \E d \in Domain : RotationFlag(d)

AutoReverifySweep ==
    \/ ArReadVerified \/ ArReadInUse \/ ArBurnsDone \/ ArFinish
    \/ \E failed \in SUBSET Domain : ArProbe(failed)
    \/ \E d \in Domain : ArBurn(d) \/ ArClear(d) \/ ArSkip(d) \/ ArRaise(d)

Crash == DaemonRestarts \/ \E s \in Shell : ShellDies(s)

Next ==
    \/ \E s \in Shell : OperatorStep(s)
    \/ TimeStep \/ ReverifySweep \/ RotationSweep \/ AutoReverifySweep
    \/ Crash

\* The daemon's scheduler fires every sweep on its interval and lets it run;
\* nothing obliges an operator to run or to finish a command.
Fairness ==
    /\ WF_vars(ReverifySweep)
    /\ WF_vars(RotationSweep)
    /\ WF_vars(AutoReverifySweep)

Spec == Init /\ [][Next]_vars
FairSpec == Spec /\ Fairness
-----------------------------------------------------------------------------
(* The startup checks on the pool and the boxes.  Check 27 (a standing box has *)
(* an active credential) is not among them: a terminate that fails on a domain *)
(* which cover-rotate has burned leaves a standing box without one.            *)

Check6 == \A d \in Domain : pool[d] # "absent" => d \notin burned
Check19 == \A d \in Domain : pool[d] = "in_use" =>
                \E b \in Box : assigned[d] = b /\ boxState[b] # "terminated"
                              /\ boxState[b] # "none"
Check28 == \A b, c \in Box : Standing(b) /\ Standing(c) /\ sni[b] = sni[c] => b = c

-----------------------------------------------------------------------------
(* Properties *)

\* Types of all the tables and of what each process has read.
TypeOK ==
    /\ pool \in [Domain -> PoolState]
    /\ assigned \in [Domain -> Box \cup {NoBox}]
    /\ stale \subseteq Domain /\ overdue \subseteq Domain
    /\ burned \subseteq Domain
    /\ boxState \in [Box -> BoxState]
    /\ sni \in [Box -> Domain \cup {NoDomain}]
    /\ \A b \in Box : Standing(b) => sni[b] \in Domain
    /\ wentLive \subseteq Box
    /\ cred \in [Box -> CredState]
    /\ rotPending \subseteq Domain /\ frozen \in BOOLEAN
    /\ drift \subseteq Domain
    /\ op \in [Shell -> [pc : OpPc, box : Box \cup {NoBox},
                         dom : Domain \cup {NoDomain}]]
    /\ \A s \in Shell :
          /\ op[s].pc \in {"reclaim", "creds", "revoke", "burn", "mark"}
                => op[s].box \in Box
          /\ op[s].pc # "idle" => op[s].dom \in Domain
          /\ op[s].pc = "idle" => op[s] = Idle
    /\ ttlTodo \subseteq Domain
    /\ rotPc \in {"idle", "due", "flag"} /\ rotTodo \subseteq Domain
    /\ arPc \in ArPc
    /\ arVerified \subseteq Domain /\ arInUse \subseteq Domain
    /\ arFailed \subseteq Domain /\ arTodo \subseteq Domain
    /\ arBurned \subseteq Domain
    /\ crashes \in 0..MaxCrashes

\* A cover domain that has been on a live box is never offered to another box:
\* it stays with that box until it is burned (reclaim.py refuses live boxes for
\* this reason, ru-box-terminate burns).  Holds while one operator works at a
\* time; two can break it.
NeverReuseExposed ==
    \A b \in wentLive :
        /\ sni[b] \in Domain
        /\ pool[sni[b]] \in {"absent", "in_use"}
        /\ pool[sni[b]] = "in_use" => assigned[sni[b]] = b

\* A standing box holds its domain: the pool says in_use by this box, or the
\* domain was burned under it.  The pool row and the box row are written by
\* different commands and sweeps.
BoxHoldsDomain ==
    \A b \in Box : Standing(b) =>
        \/ sni[b] \in burned
        \/ sni[b] \in Domain /\ pool[sni[b]] = "in_use" /\ assigned[sni[b]] = b

\* Startup check 19, for every state and not only at startup: an in_use domain
\* is assigned to a standing box that serves it, through terminate's three
\* commits, reclaim and crashes in between.
HolderStands ==
    \A d \in Domain : pool[d] = "in_use" =>
        /\ assigned[d] \in Box
        /\ Standing(assigned[d])
        /\ sni[assigned[d]] = d

\* The daemon can be restarted at any moment as far as pool and boxes go: in no state
\* is a burned domain in the pool, an in_use domain without a standing box, or a domain
\* on two standing boxes, wherever commands and sweeps are or were killed.
FleetChecksPass == Check6 /\ Check19 /\ Check28

\* No terminated box keeps an active onward credential, whatever the command
\* that terminated it and wherever another one was killed.
NoCredentialAfterTermination ==
    \A b \in Box : boxState[b] = "terminated" => cred[b] # "active"

\* Burning is final: a burned domain stays burned, never re-enters the pool, and
\* no box takes it, not even a provisioning that picked it before the burn.
BurnedIsFinal ==
    [][\A d \in burned :
          /\ d \in burned' /\ pool'[d] = "absent"
          /\ \A b \in Box : sni'[b] = d => sni[b] = d]_vars

\* The inductive form of the invariants that hold however many operators work:
\* what each unfinished command still knows to be true of its box and domain.
Holding == {"reclaim", "creds", "revoke", "burn", "mark"}

FleetInductive ==
    /\ \A d \in Domain : pool[d] # "absent" => d \notin burned
    /\ HolderStands
    /\ NoCredentialAfterTermination
    /\ \A s \in Shell : op[s].pc \in Holding =>
          LET b == op[s].box IN
          /\ boxState[b] # "none"
          /\ Standing(b) => sni[b] = op[s].dom
          /\ op[s].pc \in {"burn", "mark"} => cred[b] # "active"
          /\ op[s].pc = "mark" => op[s].dom \in burned

\* What it takes in addition when one operator works at a time.
OneOperatorInductive ==
    /\ BoxHoldsDomain
    /\ \A b \in wentLive :
          \/ boxState[b] = "live"
          \/ boxState[b] = "terminated" /\ sni[b] \in burned
    /\ \A s \in Shell :
          /\ op[s].pc = "reclaim" => boxState[op[s].box] = "provisioning"
          /\ op[s].pc \in Holding => Standing(op[s].box)

\* CoverFleet implements the life of a domain in CoverLifecycle: no interleaving
\* of commands, sweeps and crashes takes a domain along any other transition, and
\* none is assigned or handed back once a live box has shown it.
Status(d) == IF d \in burned THEN "burned" ELSE pool[d]
Exposed   == {sni[b] : b \in wentLive}

Life == INSTANCE CoverLifecycle WITH
    status <- [d \in Domain |-> Status(d)], exposed <- Exposed

ImplementsLifecycle == Life!LifeSpec

\* A stale verification does not stay in the pool for ever.
StaleIsWithdrawn ==
    \A d \in Domain :
        (pool[d] = "candidate_verified" /\ d \in stale)
            ~> ~(pool[d] = "candidate_verified" /\ d \in stale)

\* A domain that stays in use past its rotation TTL while the pool has spare
\* domains is brought to the operator, restarts of the daemon included.
OverdueIsFlagged ==
    \A d \in Domain :
        <>[](/\ pool[d] = "in_use" /\ d \in overdue
             /\ Cardinality(InPool("candidate_verified")) >= Freeze)
            => <>(d \in rotPending)
=============================================================================
