------------------------------ MODULE NodeRoles ------------------------------
(***************************************************************************)
(* The machines of the EU side and the state file each keeps: bootstrap,   *)
(* serve behind its startup checks, standby heartbeats and their poller,   *)
(* authority rotation, restore and promotion.  promote-active and          *)
(* adopt-restored-state move files and commit rows one at a time, and      *)
(* nothing outlives a kill but what each step left on disk.                *)
(***************************************************************************)
EXTENDS Naturals, Sequences, FiniteSets

CONSTANTS
    Machine,     \* hosts, by node_id
    NoDB,        \* no file at db_path
    MaxAuth,     \* bound: rows of credential_authority
    MaxBackups,  \* bound: snapshots in the bucket
    MaxKills,    \* bound: commands killed between two steps
    MaxOps       \* bound: what operators do, spans of days

ASSUME NodesAssumption ==
    /\ MaxAuth \in Nat \ {0} /\ MaxBackups \in Nat /\ MaxKills \in Nat /\ MaxOps \in Nat
    /\ NoDB \notin [role : {"active", "standby"}, auth : Seq({"real", "opaque", "bootstrap", "retired"}),
                    eu : [Machine -> {"absent", "active", "standby", "retired"}],
                    ident : SUBSET Machine, hb : {"none", "never", "fresh", "old"}, stale : SUBSET Machine,
                    rows : BOOLEAN]

VARIABLES
    live,     \* the database at db_path of every machine
    job,      \* the command that is between two of its steps
    run,      \* what serve does: "down", "active" or "standby"
    bucket,   \* snapshots pushed by backups
    beat,     \* the heartbeat object of every machine: "none", "fresh", "old"
    kills, ops

vars == <<live, job, run, bucket, beat, kills, ops>>

(* auth: credential_authority by generation; "opaque" is the placeholder of   *)
(* adopt, "bootstrap" that of early installations.  ident: nodes with         *)
(* cover_sni and reality_pubkey.  hb: does alert_log have rows, and when was  *)
(* the latest delivered heartbeat?  stale: eu_standby_liveness_stale rows.    *)
(* rows: is there a row in the other tables that check 23 wants empty on a    *)
(* standby (signing keys, descriptors, publishing tokens, cover pool, burned  *)
(* domains, exits, provider credentials other than B2)?                       *)
AuthState == {"real", "opaque", "bootstrap", "retired"}
DB == [role : {"active", "standby"}, auth : UNION {[1..k -> AuthState] : k \in 0..MaxAuth},
       eu : [Machine -> {"absent", "active", "standby", "retired"}],
       ident : SUBSET Machine, hb : {"none", "never", "fresh", "old"}, stale : SUBSET Machine,
       rows : BOOLEAN]
Skeleton == [role |-> "standby", auth |-> <<>>, eu |-> [m \in Machine |-> "absent"],
             ident |-> {}, hb |-> "none", stale |-> {}, rows |-> FALSE]

(* snap: the decrypted backup; old: the file renamed away, which a promotion  *)
(* puts back when it fails and nothing reads after that.                      *)
Begun(cmd, at, snap, gen) == [cmd |-> cmd, at |-> at, snap |-> snap, gen |-> gen, old |-> NoDB]
Idle == Begun("idle", "idle", NoDB, 0)
Job  == [cmd : {"idle", "init", "rotate", "promote", "adoptA", "adoptB"},
         at : {"idle", "schema", "retire", "staged", "parted", "swapped", "roled", "rowed",
               "failed", "retired"},
         snap : DB \cup {NoDB}, gen : 0..MaxAuth, old : DB \cup {NoDB}]

TypeOK ==
    /\ live \in [Machine -> DB \cup {NoDB}]
    /\ job \in [Machine -> Job] /\ run \in [Machine -> {"down", "active", "standby"}]
    /\ bucket \subseteq DB /\ beat \in [Machine -> {"none", "fresh", "old"}]
    /\ kills \in 0..MaxKills /\ ops \in 0..MaxOps

Active(d) == {g \in DOMAIN d.auth : d.auth[g] # "retired"}
Current(d) == {g \in Active(d) : \A h \in Active(d) : h <= g}

Up(m) == live[m] # NoDB
Spend == ops < MaxOps /\ ops' = ops + 1
\* one operator at a time on a machine
Operator(m) == job[m] = Idle /\ Spend
\* the active-only commands
RequireNothing(m) == Up(m)
RequireActive(m) == Up(m) /\ live[m].role = "active"
Put(m, d) == live' = [live EXCEPT ![m] = d]
Go(m, at) == job' = [job EXCEPT ![m].at = at]
Done(m) == job' = [job EXCEPT ![m] = Idle]

-----------------------------------------------------------------------------
(* Startup checks; those on tables not modelled here are with their modules. *)

Check22(d) == d.role = "active" => Cardinality(Active(d)) = 1
Check23(d) == d.role = "standby" => d.auth = <<>> /\ ~d.rows
Check26(d) == \A g \in Active(d) : d.auth[g] # "bootstrap"
Check31(d) == \A m \in Machine : d.eu[m] \in {"active", "standby"} => m \in d.ident
Check42(d) == d.role = "active" => d.hb \notin {"never", "old"}

CheckAll(d) == Check22(d) /\ Check23(d) /\ Check26(d) /\ Check31(d) /\ Check42(d)

\* run_startup_checks
StartupCheck(m) == Up(m) /\ CheckAll(live[m])

-----------------------------------------------------------------------------
(* init: apply_schema commits a node_state that says active, then the role.  *)

InitSchema(m) ==
    /\ ~Up(m)
    /\ Put(m, [Skeleton EXCEPT !.role = "active"])
    /\ job' = [job EXCEPT ![m] = Begun("init", "schema", NoDB, 0)]
    /\ Operator(m)
    /\ UNCHANGED <<run, bucket, beat, kills>>

InitRole(m) ==
    /\ job[m].cmd = "init"
    /\ \/ Put(m, [live[m] EXCEPT !.role = "standby"])
       \/ Put(m, [live[m] EXCEPT !.auth = <<"real">>, !.rows = TRUE])
    /\ Done(m)
    /\ UNCHANGED <<run, bucket, beat, kills, ops>>

\* adopt "must only be called when the controller daemon is NOT running"
Adopting(m) == job[m].cmd \in {"adoptA", "adoptB"}
Starts(m, role) == run[m] = "down" /\ ~Adopting(m) /\ StartupCheck(m) /\ live[m].role = role

\* serve, after the startup-check of ExecStartPre; the role is read once
ServeActive(m) ==
    /\ Starts(m, "active")
    /\ run' = [run EXCEPT ![m] = "active"]
    /\ UNCHANGED <<live, job, bucket, beat, kills, ops>>

\* the heartbeat publisher and nothing that writes
ServeStandby(m) ==
    /\ Starts(m, "standby")
    /\ run' = [run EXCEPT ![m] = "standby"]
    /\ UNCHANGED <<live, job, bucket, beat, kills, ops>>

Stop(m) ==
    /\ run[m] # "down"
    /\ run' = [run EXCEPT ![m] = "down"]
    /\ UNCHANGED <<live, job, bucket, beat, kills, ops>>

\* backup-now, or the daemon's pipeline: any database, whatever its role
Backup(m) ==
    /\ Up(m) /\ Cardinality(bucket \cup {live[m]}) <= MaxBackups
    /\ bucket' = bucket \cup {live[m]}
    /\ Spend
    /\ UNCHANGED <<live, job, run, beat, kills>>

\* the monthly-rotated bucket loses its oldest snapshots
Expire ==
    /\ \E d \in bucket : bucket' = bucket \ {d}
    /\ UNCHANGED <<live, job, run, beat, kills, ops>>

-----------------------------------------------------------------------------
(* Inventory of EU nodes, identities, the alert heartbeat.                   *)

CanAdd(d, n, role) ==
    d.eu[n] = "absent" /\ (role = "active" => \A o \in Machine : d.eu[o] # "active")

EuNodeAdd(m, n, role) ==
    /\ RequireActive(m) /\ CanAdd(live[m], n, role)
    /\ Put(m, [live[m] EXCEPT !.eu[n] = role])
    /\ Operator(m)
    /\ UNCHANGED <<job, run, bucket, beat, kills>>

CanRetire(d, n) == d.eu[n] \in {"active", "standby"}

EuNodeRetire(m, n) ==
    /\ RequireActive(m) /\ CanRetire(live[m], n) /\ n # m
    /\ Put(m, [live[m] EXCEPT !.eu[n] = "retired"])
    /\ Operator(m)
    /\ UNCHANGED <<job, run, bucket, beat, kills>>

\* data-exit-reality-keygen
Keygen(m, n) ==
    /\ Up(m) /\ live[m].eu[n] # "absent" /\ n \notin live[m].ident
    /\ Put(m, [live[m] EXCEPT !.ident = @ \cup {n}])
    /\ Operator(m)
    /\ UNCHANGED <<job, run, bucket, beat, kills>>

\* cover-add, eu-add and rotate-provider-credential ask for no role: on a standby they
\* leave the very rows that check 23 refuses.
WriteUnasked(m) ==
    /\ Up(m) /\ ~live[m].rows
    /\ Put(m, [live[m] EXCEPT !.rows = TRUE])
    /\ Operator(m)
    /\ UNCHANGED <<job, run, bucket, beat, kills>>

\* obs-heartbeat-now, or the daemon's publisher; a failure is a row all the same
ObsHeartbeat(m) ==
    /\ Up(m)
    /\ \/ Put(m, [live[m] EXCEPT !.hb = "fresh"])
       \/ live[m].hb = "none" /\ Put(m, [live[m] EXCEPT !.hb = "never"])
    /\ IF run[m] = "active" THEN UNCHANGED ops ELSE Operator(m)
    /\ UNCHANGED <<job, run, bucket, beat, kills>>

\* heartbeat_interval twice over: what was fresh is old, wherever it is kept
Aged(d) == IF d # NoDB /\ d.hb = "fresh" THEN [d EXCEPT !.hb = "old"] ELSE d

DaysPass ==
    /\ live' = [m \in Machine |-> Aged(live[m])]
    /\ bucket' = {Aged(d) : d \in bucket}
    /\ job' = [m \in Machine |-> [job[m] EXCEPT !.snap = Aged(@), !.old = Aged(@)]]
    /\ Spend /\ UNCHANGED <<run, beat, kills>>

-----------------------------------------------------------------------------
(* Standby liveness.                                                         *)

StandbyBeat(m) ==
    /\ run[m] = "standby"
    /\ beat' = [beat EXCEPT ![m] = "fresh"]
    /\ UNCHANGED <<live, job, run, bucket, kills, ops>>

\* standby_heartbeat_interval is below staleness_alert
BeatAges(m) ==
    /\ beat[m] = "fresh" /\ run[m] # "standby"
    /\ beat' = [beat EXCEPT ![m] = "old"]
    /\ UNCHANGED <<live, job, run, bucket, kills, ops>>

Standbys(d) == {n \in Machine : d.eu[n] = "standby"}
SilentAbsent(n) == beat[n] = "none"
Silent(n) == beat[n] # "fresh"

\* one tick of the poller; a bucket that cannot be reached changes nothing
PollStandbys(m) ==
    /\ run[m] = "active" /\ Up(m)
    /\ LET gone == {n \in Standbys(live[m]) : Silent(n)} IN
       Put(m, [live[m] EXCEPT !.stale = (@ \ Standbys(live[m])) \cup gone])
    /\ UNCHANGED <<job, run, bucket, beat, kills, ops>>

-----------------------------------------------------------------------------
(* authority-rotate: the new generation is committed before the old retires. *)

RotateInsert(m) ==
    /\ RequireActive(m)
    /\ \E gen \in Current(live[m]) :
       /\ gen + 1 \notin DOMAIN live[m].auth /\ gen < MaxAuth
       /\ Put(m, [live[m] EXCEPT !.auth = Append(@, "real")])
       /\ job' = [job EXCEPT ![m] = Begun("rotate", "retire", NoDB, gen)]
    /\ Operator(m)
    /\ UNCHANGED <<run, bucket, beat, kills>>

RotateRetireAll(m) ==
    Put(m, [live[m] EXCEPT !.auth = [g \in DOMAIN @ |-> "retired"]])
RotateRetires(m) ==
    Put(m, [live[m] EXCEPT !.auth[job[m].gen] = "retired"])

RotateRetire(m) ==
    /\ job[m].cmd = "rotate" /\ RotateRetires(m) /\ Done(m)
    /\ UNCHANGED <<run, bucket, beat, kills, ops>>

\* authority-migrate-placeholder
MigratePlaceholder(m) ==
    /\ RequireActive(m)
    /\ \E g \in DOMAIN live[m].auth : live[m].auth[g] = "bootstrap"
    /\ Put(m, [live[m] EXCEPT !.auth =
           [g \in DOMAIN @ |-> IF @[g] = "bootstrap" THEN "real" ELSE @[g]]])
    /\ Operator(m)
    /\ UNCHANGED <<job, run, bucket, beat, kills>>

-----------------------------------------------------------------------------
(* promote-active --case A|B, on the standby.                                *)

\* the role is read, the blob decrypted into a temporary file
PromoteStage(m) ==
    /\ Up(m) /\ live[m].role = "standby"
    /\ \E d \in bucket :
       job' = [job EXCEPT ![m] = Begun("promote", "staged", d, 0)]
    /\ Operator(m)
    /\ UNCHANGED <<live, run, bucket, beat, kills>>

At(m, cmd, at) == job[m].cmd = cmd /\ job[m].at = at

PromotePart(m) ==
    /\ At(m, "promote", "staged")
    /\ job' = [job EXCEPT ![m].at = "parted", ![m].old = live[m]] /\ Put(m, NoDB)
    /\ UNCHANGED <<run, bucket, beat, kills, ops>>

PromoteSwap(m) ==
    /\ At(m, "promote", "parted")
    /\ \/ Put(m, job[m].snap) /\ Go(m, "swapped")
       \/ \* the rename fails, and the standby's file is put back
          Put(m, job[m].old) /\ Done(m)
    /\ UNCHANGED <<run, bucket, beat, kills, ops>>

PromoteRole(m) ==
    /\ At(m, "promote", "swapped")
    /\ Put(m, [live[m] EXCEPT !.role = "active"]) /\ Go(m, "roled")
    /\ UNCHANGED <<run, bucket, beat, kills, ops>>

\* the node's own row, if there is one; the former active keeps its role
PromoteRow(m) ==
    /\ At(m, "promote", "roled")
    /\ Put(m, IF live[m].eu[m] = "absent" THEN live[m] ELSE [live[m] EXCEPT !.eu[m] = "active"])
    /\ Go(m, "rowed")
    /\ UNCHANGED <<run, bucket, beat, kills, ops>>

AcceptsEarly(d) == CheckAll([d EXCEPT !.role = "standby", !.auth = <<>>, !.rows = FALSE])
Accepts(d) == CheckAll(d)

PromoteCheck(m) ==
    /\ At(m, "promote", "rowed")
    /\ \/ Accepts(live[m]) /\ Done(m) /\ UNCHANGED live
       \/ ~Accepts(live[m]) /\ Put(m, NoDB) /\ Go(m, "failed")
    /\ UNCHANGED <<run, bucket, beat, kills, ops>>

PromoteRollback(m) ==
    /\ At(m, "promote", "failed")
    /\ Put(m, job[m].old) /\ Done(m)
    /\ UNCHANGED <<run, bucket, beat, kills, ops>>

-----------------------------------------------------------------------------
(* adopt-restored-state, by the operator while the daemon is down.           *)

AdoptPart(m, cmd) ==
    /\ run[m] = "down"
    /\ \E d \in bucket :
       /\ cmd = "adoptB" => Len(d.auth) < MaxAuth
       /\ job' = [job EXCEPT ![m] = Begun(cmd, "parted", d, 0)]
    /\ Put(m, NoDB)
    /\ Operator(m)
    /\ UNCHANGED <<run, bucket, beat, kills>>

AdoptInstall(m) ==
    /\ job[m].cmd \in {"adoptA", "adoptB"} /\ job[m].at = "parted"
    /\ Put(m, job[m].snap)
    /\ IF job[m].cmd = "adoptB" /\ Active(job[m].snap) # {} THEN Go(m, "swapped") ELSE Done(m)
    /\ UNCHANGED <<run, bucket, beat, kills, ops>>

\* case B: the current generation retires, then a fresh token takes its place
AdoptRetire(m) ==
    /\ At(m, "adoptB", "swapped")
    /\ \E gen \in Current(live[m]) :
       /\ Put(m, [live[m] EXCEPT !.auth[gen] = "retired"])
       /\ job' = [job EXCEPT ![m].at = "retired", ![m].gen = gen]
    /\ UNCHANGED <<run, bucket, beat, kills, ops>>

AdoptRekey(m) ==
    /\ At(m, "adoptB", "retired")
    /\ Put(m, [live[m] EXCEPT !.auth = Append(@, "opaque")])
    /\ Done(m)
    /\ UNCHANGED <<run, bucket, beat, kills, ops>>

\* the command is killed, or raises, where it stands
Kill(m) ==
    /\ job[m] # Idle /\ kills < MaxKills
    /\ Done(m) /\ kills' = kills + 1
    /\ UNCHANGED <<live, run, bucket, beat, ops>>

-----------------------------------------------------------------------------
First == CHOOSE m \in Machine : TRUE

\* one active machine, of this release or of the first one, the others bootstrapped as
\* standbys that it knows of, their identity set or not, or does not know of
Installed(m, kind, row, known) ==
    IF m # First THEN Skeleton
    ELSE [Skeleton EXCEPT !.role = "active", !.auth = <<kind>>, !.rows = TRUE, !.ident = known,
                          !.eu = [n \in Machine |-> IF n = m THEN "absent" ELSE row]]

Init ==
    /\ \E kind \in {"real", "bootstrap"}, row \in {"absent", "standby"}, known \in SUBSET Machine :
       /\ row = "absent" => known = {}
       /\ First \notin known
       /\ live = [m \in Machine |-> Installed(m, kind, row, known)]
    /\ job = [m \in Machine |-> Idle]
    /\ run = [m \in Machine |-> "down"] /\ bucket = {}
    /\ beat = [m \in Machine |-> "none"] /\ kills = 0 /\ ops = 0

Daemon(m)  == ServeActive(m) \/ ServeStandby(m) \/ Stop(m) \/ Backup(m) \/ ObsHeartbeat(m) \/ StandbyBeat(m) \/ PollStandbys(m)
Inventory(m) == \/ WriteUnasked(m)
                \/ \E n \in Machine : EuNodeRetire(m, n) \/ Keygen(m, n)
                \/ \E n \in Machine, role \in {"active", "standby"} : EuNodeAdd(m, n, role)
Authority(m) == RotateInsert(m) \/ RotateRetire(m) \/ MigratePlaceholder(m)
Promote(m) == \/ PromoteStage(m) \/ PromotePart(m) \/ PromoteSwap(m) \/ PromoteRole(m)
              \/ PromoteRow(m) \/ PromoteCheck(m) \/ PromoteRollback(m)
Adopt(m)   == \/ \E cmd \in {"adoptA", "adoptB"} : AdoptPart(m, cmd)
              \/ AdoptInstall(m) \/ AdoptRetire(m) \/ AdoptRekey(m)

Next ==
    \/ \E m \in Machine : \/ InitSchema(m) \/ InitRole(m) \/ Daemon(m) \/ Inventory(m)
                          \/ Authority(m) \/ Promote(m) \/ Adopt(m) \/ BeatAges(m) \/ Kill(m)
    \/ DaysPass \/ Expire

Spec == Init /\ [][Next]_vars
Fairness == \A m \in Machine : WF_vars(StandbyBeat(m)) /\ WF_vars(BeatAges(m)) /\ WF_vars(PollStandbys(m))
FairSpec == Spec /\ Fairness

-----------------------------------------------------------------------------
\* What stops a standby from starting is only what the commands that ask for no role have
\* left in it: without those rows it passes every check (23 and 31 among them), for no
\* other command and no daemon writes what a standby must not have.
Emptied(d) == [d EXCEPT !.rows = FALSE]
StandbySound(d) == d # NoDB /\ d.role = "standby" => CheckAll(Emptied(d))

\* A promotion that is not killed ends with a database at db_path that passes every
\* startup check, or with the skeleton it renamed away, as it was (promote_active).
PromotionSettles ==
    [][\A m \in Machine : job[m].cmd = "promote" /\ job'[m] = Idle /\ kills' = kills
            => /\ live'[m] # NoDB
               /\ CheckAll(live'[m]) \/ (live'[m] = job[m].old /\ StandbySound(live'[m]))]_vars

\* Every database of a standby, on its machine, in the bucket or renamed away by a
\* promotion, is sound in this sense.
RolesInductive ==
    /\ TypeOK
    /\ \A d \in bucket : StandbySound(d)
    /\ \A m \in Machine :
        /\ StandbySound(live[m]) /\ StandbySound(job[m].snap) /\ StandbySound(job[m].old)
        /\ job[m].cmd = "init" => /\ Up(m) /\ live[m].auth = <<>>
                                  /\ \A n \in Machine : live[m].eu[n] = "absent"

\* As long as nothing is killed, a daemon that serves as active could be restarted as far
\* as the authority goes: exactly one generation is active and it is a key, whatever
\* rotations, migrations and restores came before (checks 22 and 26).
ServingIsRestartable ==
    \A m \in Machine : run[m] = "active" /\ job[m] = Idle /\ kills = 0
                      => Up(m) /\ Check22(live[m]) /\ Check26(live[m])

\* A standby of the inventory that does not beat is flagged by every daemon that keeps
\* serving, and one that beats is cleared (StandbyHeartbeatPoller).
PollerIsRight ==
    \A m, n \in Machine :
        LET Watched == run[m] = "active" /\ Up(m) /\ live[m].eu[n] = "standby" IN
        /\ <>[](Watched /\ run[n] # "standby") => []<>(Up(m) /\ n \in live[m].stale)
        /\ <>[](Watched /\ run[n] = "standby") => []<>(Up(m) /\ n \notin live[m].stale)
=============================================================================
