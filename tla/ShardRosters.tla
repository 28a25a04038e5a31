---------------------------- MODULE ShardRosters ----------------------------
(***************************************************************************)
(* Users, shards and the reshuffle (spec H).  A user's place is stored     *)
(* twice: in the shard's members_json (the roster) and in the user's       *)
(* current_shard_id (what the distribution reads).  The daemon's reshuffle *)
(* wheel and the operator commands user-add, user-onboard, shard-create,   *)
(* shard-reshuffle and ru-box-terminate all write both, each with its own  *)
(* reads and commits.  Every action is one commit or one autocommit read.  *)
(***************************************************************************)
EXTENDS Naturals, FiniteSets

CONSTANTS
    User, Shard, NoShard,
    DefaultShard, \* cfg.shard_manager.default_shard_id, 'default_shard'
    Shell,        \* operator processes able to run at the same time
    Wheel,        \* the daemon's reshuffle wheel, one more writer
    TargetSize,   \* cfg.shard_manager.target_size
    MaxSize,      \* cfg.shard_manager.max_size
    MaxListed,    \* the most ids an operator lists in one shard-create
    Commands,     \* what the operators do
    Overlap,      \* may a writer start while another is in the middle?
    MaxFaults     \* bound: killed commands, failed wheel steps, restarts

\* "again": user-onboard of a user who has a shard; "strangers": shard-create may list
\* ids that are no users yet.  No command refuses either.
AllCommands == {"add", "onboard", "again", "create", "strangers", "reshuffle", "provision"}

ASSUME RosterAssumption ==
    /\ IsFiniteSet(User)
    /\ NoShard \notin Shard /\ DefaultShard \in Shard
    /\ Wheel \notin Shell
    /\ TargetSize \in Nat \ {0} /\ MaxSize \in Nat /\ TargetSize <= MaxSize
    /\ MaxListed \in Nat
    /\ Commands \subseteq AllCommands
    /\ Overlap \in BOOLEAN
    /\ MaxFaults \in Nat

VARIABLES
    users,       \* rows of users
    current,     \* users.current_shard_id
    phase,       \* "unused", then a row of shards: "active", then "retired"
    roster,      \* shards.members_json
    overdue,     \* active shards past reshuffle_interval_days
    pending,     \* obligation rows shard_overdue_pending::<shard>, and NoShard
                 \* for the single row shard_unassigned_pending
    op,          \* what each writer has read, and its next step
    wheelPc, wheelTodo, wheelFailed,
    faults

tables    == <<users, current, phase, roster, overdue>>
wheelvars == <<wheelPc, wheelTodo, wheelFailed>>
vars      == <<tables, pending, op, wheelvars, faults>>

Writer == Shell \cup {Wheel}

\* assign_user_to_shard refuses to go beyond max_size, shard-create takes any list.
Cap == IF MaxListed > MaxSize THEN MaxListed ELSE MaxSize
Unset  == [u \in User |-> NoShard]

(* shard: the shard regenerated or joined; plan: where each user is to go;   *)
(* todo: planned shards not created yet; moving: the shard just created whose *)
(* users still point elsewhere; who: users still to check, add or move.       *)
Job(pc, s, plan, todo, moving, who) ==
    [pc |-> pc, shard |-> s, plan |-> plan, todo |-> todo, moving |-> moving,
     who |-> who]
Idle == Job("idle", NoShard, Unset, {}, NoShard, {})

JobPc == {"idle", "check", "commit", "leftover", "retire", "exists",
          "make", "read", "assign", "vet", "insert", "place"}

Active    == {s \in Shard : phase[s] = "active"}
Seated(plan) == {u \in User : plan[u] # NoShard}
Chunk(plan, s) == {u \in User : plan[u] = s}
Targets(plan) == {plan[u] : u \in Seated(plan)}

\* The uuids left to draw, and the names an operator may give.
Drawn == UNION {op[w].todo : w \in Writer}
Fresh == {s \in Shard \ {DefaultShard} :
              phase[s] = "unused" /\ s \notin Drawn
              /\ \A w \in Writer : op[w].shard # s}
Names == Shard \ Drawn

Init ==
    /\ users = {} /\ current = Unset
    /\ phase = [s \in Shard |-> "unused"] /\ roster = [s \in Shard |-> {}]
    /\ overdue = {} /\ pending = {}
    /\ op = [w \in Writer |-> Idle]
    /\ wheelPc = "idle" /\ wheelTodo = {} /\ wheelFailed = {}
    /\ faults = 0

Step(w, job) == op' = [op EXCEPT ![w] = job]

\* A command's locals die with it; the wheel's do not reach the next shard.
Finish(w) == Step(w, Idle)

MayStart(w, command) ==
    /\ command \in Commands
    /\ op[w] = Idle
    /\ Overlap \/ (wheelPc = "idle" /\ \A v \in Writer : op[v] = Idle)

(* Guards and statements; some follow the slip a careless edit might be. *)

\* pick_new_rosters: chunks of target_size, at most one of them smaller
LayoutUnchunked(plan) == Cardinality(Targets(plan)) <= 1
Layout(plan) ==
    LET size(s) == Cardinality(Chunk(plan, s)) IN
    \A s \in Targets(plan) :
        /\ size(s) <= TargetSize
        /\ \A t \in Targets(plan) \ {s} :
              size(s) = TargetSize \/ size(t) = TargetSize

Plans(members) ==
    {plan \in [User -> Fresh \cup {NoShard}] : Seated(plan) = members /\ Layout(plan)}

\* the users a reshuffle points at the new shard
Remapped(old, plan, new) == {u \in users : current[u] = old \/ plan[u] = new}

\* the users of a leftover chunk, moved one UPDATE each
Moved(plan, s) == Chunk(plan, s) \cap users

\* assign_user_to_shard's size limit
HasRoomLoose(s) == Cardinality(roster[s]) <= MaxSize
HasRoom(s) == Cardinality(roster[s]) < MaxSize

\* the users a sweep folds in
FoldNobody == {}
Unassigned == {u \in users : current[u] = NoShard}

\* the primary key of shards
IdFree(s) == phase[s] = "unused"

\* the shards of health.overdue_for_reshuffle
OverdueUnflagged == (overdue \cap Active) \ pending
OverdueActive == overdue \cap Active

\* shard-create's refusal of members of an active shard
FreeAlways(u) == TRUE
FreeOfShard(u) == current[u] \notin Active

-----------------------------------------------------------------------------
(* Reshuffle of one shard: by the wheel, shard-reshuffle or ru-box-terminate *)

Point(who, s) == current' = [u \in User |-> IF u \in who THEN s ELSE current[u]]

\* get_shard and the picker: the roster is read and dealt out to fresh shards.
ReshuffleRead(w, s) ==
    /\ MayStart(w, "reshuffle")
    /\ phase[s] = "active"
    /\ roster[s] # {}
    /\ \E plan \in Plans(roster[s]) :
          Step(w, Job("check", s, plan, Targets(plan), NoShard, {}))
    /\ UNCHANGED <<tables, pending, wheelvars, faults>>

\* ru-box-terminate --reason=compromise retires an empty shard.
EmptyShardRead(w, s) ==
    /\ MayStart(w, "reshuffle")
    /\ phase[s] = "active"
    /\ roster[s] = {}
    /\ Step(w, Job("retire", s, Unset, {}, NoShard, {}))
    /\ UNCHANGED <<tables, pending, wheelvars, faults>>

\* LookupError: a command ends, the wheel notes the shard and goes on.
GiveUp(w) ==
    /\ Finish(w)
    /\ wheelFailed' = IF w = Wheel THEN wheelFailed \cup {op[w].shard} ELSE wheelFailed

\* reshuffle()'s own look at retired_at, before its transaction.
ReshuffleCheck(w) ==
    /\ op[w].pc = "check"
    /\ IF phase[op[w].shard] = "retired"
       THEN GiveUp(w)
       ELSE op' = [op EXCEPT ![w].pc = "commit"] /\ UNCHANGED wheelFailed
    /\ UNCHANGED <<tables, pending, wheelPc, wheelTodo, faults>>

\* The transaction: retire, create the primary shard, point users at it.
ReshuffleCommit(w, new) ==
    LET old == op[w].shard
        plan == op[w].plan
    IN
    /\ op[w].pc = "commit"
    /\ new \in op[w].todo
    /\ \/ Cardinality(Chunk(plan, new)) = TargetSize
       \/ op[w].todo = {new}
    /\ phase' = [phase EXCEPT ![old] = "retired", ![new] = "active"]
    /\ roster' = [roster EXCEPT ![new] = Chunk(plan, new)]
    /\ Point(Remapped(old, plan, new), new)
    /\ overdue' = overdue \ {old}
    /\ op' = [op EXCEPT ![w].pc = "leftover", ![w].todo = @ \ {new}]
    /\ UNCHANGED <<users, pending, wheelvars, faults>>

\* create_shard for the next chunk.  In the wheel its commit also carries the
\* pending UPDATE of the previous chunk's users.
CreateLeftover(w, new) ==
    /\ op[w].pc = "leftover"
    /\ new \in op[w].todo
    /\ w = Wheel \/ op[w].moving = NoShard
    /\ phase' = [phase EXCEPT ![new] = "active"]
    /\ roster' = [roster EXCEPT ![new] = Chunk(op[w].plan, new)]
    /\ IF op[w].moving = NoShard
       THEN UNCHANGED current
       ELSE Point(Moved(op[w].plan, op[w].moving), op[w].moving)
    /\ op' = [op EXCEPT ![w].todo = @ \ {new}, ![w].moving = new]
    /\ UNCHANGED <<users, overdue, pending, wheelvars, faults>>

\* The commit of the users' pointers: after each chunk in the commands, after
\* the last one in the wheel.
MoveLeftover(w) ==
    /\ op[w].pc = "leftover"
    /\ op[w].moving # NoShard
    /\ w = Wheel => op[w].todo = {}
    /\ Point(Moved(op[w].plan, op[w].moving), op[w].moving)
    /\ op' = [op EXCEPT ![w].moving = NoShard]
    /\ UNCHANGED <<users, phase, roster, overdue, pending, wheelvars, faults>>

\* Only the wheel clears the obligation row of the shard it regenerated.
ReshuffleDone(w) ==
    /\ op[w].pc = "leftover"
    /\ op[w].todo = {} /\ op[w].moving = NoShard
    /\ pending' = IF w = Wheel THEN pending \ {op[w].shard} ELSE pending
    /\ Finish(w)
    /\ UNCHANGED <<tables, wheelvars, faults>>

RetireEmpty(w) ==
    LET s == op[w].shard IN
    /\ op[w].pc = "retire"
    /\ IF phase[s] = "active"
       THEN /\ phase' = [phase EXCEPT ![s] = "retired"]
            /\ overdue' = overdue \ {s}
            /\ Finish(w)
            /\ UNCHANGED wheelFailed
       ELSE GiveUp(w) /\ UNCHANGED <<phase, overdue>>
    /\ UNCHANGED <<users, current, roster, pending, wheelPc, wheelTodo, faults>>

-----------------------------------------------------------------------------
(* The other operator commands *)

UserAdd(w, u) ==
    /\ MayStart(w, "add")
    /\ u \notin users
    /\ users' = users \cup {u}
    /\ UNCHANGED <<current, phase, roster, overdue, pending, op, wheelvars, faults>>

\* user-onboard: adds the user if need be, creates the shard if there is none,
\* then assign_user_to_shard reads the roster and writes it back.
Onboard(w, u, s) ==
    /\ MayStart(w, "onboard")
    /\ current[u] = NoShard \/ "again" \in Commands
    /\ s \in Names
    /\ users' = users \cup {u}
    /\ Step(w, Job("exists", s, Unset, {}, NoShard, {u}))
    /\ UNCHANGED <<current, phase, roster, overdue, pending, wheelvars, faults>>

OnboardEnsure(w) ==
    /\ op[w].pc = "exists"
    /\ op' = [op EXCEPT ![w].pc =
                  IF phase[op[w].shard] = "unused" THEN "make" ELSE "read"]
    /\ UNCHANGED <<tables, pending, wheelvars, faults>>

OnboardMake(w) ==
    LET s == op[w].shard IN
    /\ op[w].pc = "make"
    /\ IF phase[s] = "unused"
       THEN /\ phase' = [phase EXCEPT ![s] = "active"]
            /\ op' = [op EXCEPT ![w].pc = "read"]
       ELSE Finish(w) /\ UNCHANGED phase
    /\ UNCHANGED <<users, current, roster, overdue, pending, wheelvars, faults>>

AssignRead(w) ==
    LET s == op[w].shard IN
    /\ op[w].pc = "read"
    /\ IF phase[s] = "active" /\ op[w].who \cap roster[s] = {} /\ HasRoom(s)
       THEN op' = [op EXCEPT ![w].pc = "assign", ![w].plan =
                       [u \in User |-> IF u \in roster[s] \cup op[w].who
                                       THEN s ELSE NoShard]]
       ELSE Finish(w)
    /\ UNCHANGED <<tables, pending, wheelvars, faults>>

AssignCommit(w) ==
    LET s == op[w].shard IN
    /\ op[w].pc = "assign"
    /\ roster' = [roster EXCEPT ![s] = Seated(op[w].plan)]
    /\ Point(op[w].who, s)
    /\ Finish(w)
    /\ UNCHANGED <<users, phase, overdue, pending, wheelvars, faults>>

\* What the operator lists; the command tests neither its length nor that the ids are users.
Listed(members) ==
    /\ members # {} /\ Cardinality(members) <= MaxListed
    /\ "strangers" \in Commands \/ members \subseteq users

\* shard-create: one read per member, the row, one commit per member.
ShardCreate(w, s, members) ==
    /\ MayStart(w, "create")
    /\ s \in Names
    /\ Listed(members)
    /\ Step(w, Job("vet", s, [u \in User |-> IF u \in members THEN s ELSE NoShard],
                   {}, NoShard, members))
    /\ UNCHANGED <<tables, pending, wheelvars, faults>>

VetMember(w, u) ==
    /\ op[w].pc = "vet"
    /\ u \in op[w].who
    /\ IF ~FreeOfShard(u) THEN Finish(w)
       ELSE op' = [op EXCEPT ![w].who = @ \ {u},
                             ![w].pc = IF op[w].who = {u} THEN "insert" ELSE @]
    /\ UNCHANGED <<tables, pending, wheelvars, faults>>

InsertShard(w) ==
    LET s == op[w].shard IN
    /\ op[w].pc = "insert"
    /\ IF IdFree(s)
       THEN /\ phase' = [phase EXCEPT ![s] = "active"]
            /\ roster' = [roster EXCEPT ![s] = Seated(op[w].plan)]
            /\ op' = [op EXCEPT ![w].pc = "place", ![w].who = Seated(op[w].plan)]
       ELSE Finish(w) /\ UNCHANGED <<phase, roster>>
    /\ UNCHANGED <<users, current, overdue, pending, wheelvars, faults>>

PlaceMember(w, u) ==
    /\ op[w].pc = "place"
    /\ u \in op[w].who
    /\ Point({u} \cap users, op[w].shard)
    /\ IF op[w].who = {u} THEN Finish(w)
       ELSE op' = [op EXCEPT ![w].who = @ \ {u}]
    /\ UNCHANGED <<users, phase, roster, overdue, pending, wheelvars, faults>>

\* provision-seed without --shard creates the default shard, empty, on demand.
ProvisionDefault(w) ==
    /\ MayStart(w, "provision")
    /\ phase[DefaultShard] = "unused"
    /\ phase' = [phase EXCEPT ![DefaultShard] = "active"]
    /\ UNCHANGED <<users, current, roster, overdue, pending, op, wheelvars, faults>>

-----------------------------------------------------------------------------
(* The wheel's sweep: overdue shards, fold-in of unassigned users, rows *)

WheelStart ==
    /\ wheelPc = "idle"
    /\ Overlap \/ \A w \in Writer : op[w] = Idle
    /\ wheelTodo' = OverdueActive
    /\ wheelPc' = "shards"
    /\ UNCHANGED <<tables, pending, op, wheelFailed, faults>>

\* The next overdue shard is read as it is now, retired or not.
WheelTake(s) ==
    /\ wheelPc = "shards"
    /\ op[Wheel] = Idle
    /\ s \in wheelTodo
    /\ wheelTodo' = wheelTodo \ {s}
    /\ IF roster[s] = {}
       THEN Step(Wheel, Job("retire", s, Unset, {}, NoShard, {}))
       ELSE \E plan \in Plans(roster[s]) :
              Step(Wheel, Job("check", s, plan, Targets(plan), NoShard, {}))
    /\ UNCHANGED <<tables, pending, wheelPc, wheelFailed, faults>>

\* reshuffle_unassigned: a fold-in is a reshuffle of no shard.
WheelFold ==
    /\ wheelPc = "shards"
    /\ op[Wheel] = Idle
    /\ wheelTodo = {}
    /\ IF Unassigned = {}
       THEN UNCHANGED op
       ELSE \E plan \in Plans(Unassigned) :
              Step(Wheel, Job("leftover", NoShard, plan, Targets(plan), NoShard, {}))
    /\ wheelPc' = "recheck"
    /\ UNCHANGED <<tables, pending, wheelTodo, wheelFailed, faults>>

WheelRecheck ==
    /\ wheelPc = "recheck"
    /\ op[Wheel] = Idle
    /\ wheelTodo' = OverdueActive \cup wheelFailed
    /\ wheelPc' = "flag"
    /\ UNCHANGED <<tables, pending, op, wheelFailed, faults>>

WheelFlag(s) ==
    /\ wheelPc = "flag"
    /\ s \in wheelTodo
    /\ pending' = pending \cup {s}
    /\ wheelTodo' = wheelTodo \ {s}
    /\ UNCHANGED <<tables, op, wheelPc, wheelFailed, faults>>

WheelDone ==
    /\ wheelPc = "flag"
    /\ wheelTodo = {}
    /\ pending' = pending \ ({NoShard} \ wheelFailed)
    /\ wheelPc' = "idle" /\ wheelFailed' = {}
    /\ UNCHANGED <<tables, op, wheelTodo, faults>>

-----------------------------------------------------------------------------
(* Time and faults *)

FallsOverdue(s) ==
    /\ s \in Active \ overdue
    /\ overdue' = overdue \cup {s}
    /\ UNCHANGED <<users, current, phase, roster, pending, op, wheelvars, faults>>

Fault == faults < MaxFaults /\ faults' = faults + 1

ShellDies(w) ==
    /\ Fault
    /\ op[w] # Idle
    /\ Finish(w)
    /\ UNCHANGED <<tables, pending, wheelvars>>

\* A statement of the wheel raises (the database is locked): rollback, next shard.
WheelStepFails ==
    /\ Fault
    /\ op[Wheel] # Idle
    /\ GiveUp(Wheel)
    /\ UNCHANGED <<tables, pending, wheelPc, wheelTodo>>

DaemonRestarts ==
    /\ Fault
    /\ wheelPc # "idle"
    /\ Finish(Wheel)
    /\ wheelPc' = "idle" /\ wheelTodo' = {} /\ wheelFailed' = {}
    /\ UNCHANGED <<tables, pending>>

-----------------------------------------------------------------------------
RewriteStep(w) ==
    \/ ReshuffleCheck(w) \/ MoveLeftover(w) \/ ReshuffleDone(w) \/ RetireEmpty(w)
    \/ \E s \in Shard : ReshuffleCommit(w, s) \/ CreateLeftover(w, s)

ShellStep(w) ==
    \/ RewriteStep(w)
    \/ \E s \in Shard : ReshuffleRead(w, s) \/ EmptyShardRead(w, s)
    \/ \E u \in User : \/ UserAdd(w, u) \/ VetMember(w, u) \/ PlaceMember(w, u)
                       \/ \E s \in Shard : Onboard(w, u, s)
    \/ \E s \in Shard, members \in SUBSET User : ShardCreate(w, s, members)
    \/ OnboardEnsure(w) \/ OnboardMake(w) \/ AssignRead(w) \/ AssignCommit(w)
    \/ InsertShard(w) \/ ProvisionDefault(w)

WheelStep ==
    \/ WheelStart \/ WheelFold \/ WheelRecheck \/ WheelDone
    \/ RewriteStep(Wheel)
    \/ \E s \in Shard : WheelTake(s)
    \/ \E s \in Shard \cup {NoShard} : WheelFlag(s)

Next ==
    \/ \E w \in Shell : ShellStep(w) \/ ShellDies(w)
    \/ WheelStep \/ WheelStepFails \/ DaemonRestarts
    \/ \E s \in Shard : FallsOverdue(s)

\* APScheduler fires the sweep every interval and lets it run to its end; no
\* operator is obliged to do anything.
Spec     == Init /\ [][Next]_vars
FairSpec == Spec /\ WF_vars(WheelStep)
-----------------------------------------------------------------------------
(* The startup checks on users and shards *)

Check34 == \A u \in users, s \in Shard : current[u] = s => phase[s] # "retired"
Check35 == \A s, t \in Active : s # t => roster[s] \cap roster[t] = {}

\* default_shard is exempt: the landing zone may be empty.
Check36 == \A s \in Active \ {DefaultShard} : roster[s] # {}

-----------------------------------------------------------------------------
(* Properties *)

JobType == [pc : JobPc, shard : Shard \cup {NoShard},
            plan : [User -> Shard \cup {NoShard}], todo : SUBSET Shard,
            moving : Shard \cup {NoShard}, who : SUBSET User]

JobOK(job) == /\ job.pc \notin {"idle", "leftover"} => job.shard \in Shard
              /\ job.pc = "idle" => job = Idle

JobsOK == op \in [Writer -> JobType] /\ \A w \in Writer : JobOK(op[w])

TablesOK ==
    /\ users \subseteq User
    /\ current \in [User -> Shard \cup {NoShard}]
    /\ phase \in [Shard -> {"unused", "active", "retired"}]
    /\ roster \in [Shard -> SUBSET User]
    /\ overdue \subseteq Shard
    /\ pending \subseteq Shard \cup {NoShard}
    /\ wheelPc \in {"idle", "shards", "recheck", "flag"}
    /\ wheelTodo \subseteq Shard \cup {NoShard}
    /\ wheelFailed \subseteq Shard \cup {NoShard}
    /\ faults \in 0..MaxFaults

\* Types of the tables and of what each writer has read.
TypeOK == TablesOK /\ JobsOK

Quiet == \A w \in Writer : op[w] = Idle

\* Startup check 35 in every state: no user is on the rosters of two active
\* shards.  Needs every command to finish and none to overlap.
NoCrossShardUser ==
    \A s, t \in Active : s # t => roster[s] \cap roster[t] = {}

\* Between commands the two records of a user's shard say the same, so the boxes
\* a user is shown are those of the roster the user is on (and check 34 holds).
RecordsAgree ==
    Quiet => \A u \in User, s \in Shard :
                current[u] = s <=> (s \in Active /\ u \in roster[s])

\* Between commands that took turns the daemon can be started again: checks 34 to 36
\* pass, so no sequence of commands and sweeps leaves an empty active shard or points
\* a user at a retired one.  Needs that shard-create lists users of the table only: an
\* id that is added later is seated by a fold-in too, and check 35 refuses the start.
RosterChecksPass == Quiet => Check34 /\ Check35 /\ Check36

\* Never do more users than max_size (H-D1), or than an operator has listed at once, see
\* the boxes of one shard, not even between the commits of a reshuffle, which points
\* all users of the old shard at the primary one until the other chunks are moved.
BlastRadius == \A s \in Shard : Cardinality({u \in User : current[u] = s}) <= Cap

\* A retired shard id is never active again, whatever overlaps or dies (H-D6).
RetiredForGood == [][\A s \in Shard : phase[s] = "retired" => phase'[s] = "retired"]_vars

\* The reshuffle of one shard is atomic and each user is on one roster: the
\* tables implement ShardPartition, a reshuffle at its first commit.
Regenerating(w) == op[w].pc = "leftover" /\ op[w].shard # NoShard
Reserved == UNION {op[w].todo : w \in {v \in Writer : Regenerating(v)}}
Member(s) == IF phase[s] = "active" THEN roster[s]
             ELSE {u \in User : \E w \in Writer : Regenerating(w) /\ s \in op[w].todo
                                                  /\ op[w].plan[u] = s}

Opened  == Active \cup Reserved
Closed  == {s \in Shard : phase[s] = "retired"}
Members == [s \in Shard |-> Member(s)]

Partition == INSTANCE ShardPartition WITH
    open <- Opened, closed <- Closed, member <- Members

ImplementsPartition == Partition!PartitionSpec

\* bound: of the uuids not used up, the wheel can draw or has drawn one for each of who
\* and for each user it has to fold in.  A failed attempt gives its uuids back.
IdsLeft(who) ==
    Cardinality(Fresh \cup op[Wheel].todo) >= Cardinality(who \cup Unassigned)

\* An unassigned user is seated by a later sweep, although operators and the
\* wheel overlap and processes die (H-D9, "no ghost user").
UnassignedIsSeated ==
    \A u \in User : (u \in users /\ current[u] = NoShard)
                        ~> (current[u] # NoShard \/ ~IdsLeft({u}))

\* No roster outgrows max_size or what an operator listed at once, although writers write
\* rosters they computed from rows read before somebody else's commits.
RosterCapped == \A s \in Shard : Cardinality(roster[s]) <= Cap

\* A shard past its TTL is regenerated: an attempt that fails is retried by a later
\* sweep, other overdue shards and the fold-in do not starve it, and an operator may be
\* in the middle of a reshuffle of it.
OverdueIsReshuffled ==
    \A s \in Shard : (s \in overdue)
                        ~> (phase[s] = "retired" \/ ~IdsLeft(roster[s]))

-----------------------------------------------------------------------------
(* Inductive invariants *)

\* What each writer holds is as small as what it may write, and never nobody.
JobFits(job) ==
    /\ job.pc \in {"check", "commit", "leftover"} =>
          /\ \A s \in Shard : Cardinality(Chunk(job.plan, s)) <= TargetSize
          /\ job.todo \subseteq Targets(job.plan)
    /\ job.pc \in {"vet", "insert"} =>
          Seated(job.plan) # {} /\ Cardinality(Seated(job.plan)) <= MaxListed
    /\ job.pc = "assign" => Cardinality(Seated(job.plan)) <= MaxSize
    /\ job.pc \in {"exists", "make", "read", "assign"} => \E u \in User : job.who = {u}

JobsFit == \A w \in Writer : JobFits(op[w])

\* A uuid drawn by one writer is nobody else's and not in the table.
UuidsFresh ==
    \A w \in Writer : \A s \in op[w].todo :
        /\ phase[s] = "unused" /\ s # DefaultShard
        /\ \A v \in Writer : op[v].shard # s /\ (v # w => s \notin op[v].todo)

\* The sweep deals only with shards that have a row.
TodoSeen ==
    wheelPc = "shards" => \A s \in wheelTodo : s \in Shard /\ phase[s] # "unused"

\* Strengthens RosterCapped and RetiredForGood; survives overlap and faults.
OverlapInductive ==
    TypeOK /\ RosterCapped /\ JobsFit /\ UuidsFresh /\ TodoSeen

Agree(u) == \A s \in Shard : current[u] = s <=> (s \in Active /\ u \in roster[s])
OnNoRoster(u) == \A s \in Active : u \notin roster[s]

\* Users a writer has still to point at their shard.
InFlight(job) ==
    {u \in User : \/ /\ job.pc = "leftover"
                     /\ job.plan[u] # NoShard
                     /\ job.plan[u] \in job.todo \cup {job.moving}
                  \/ job.pc = "place" /\ u \in job.who}

OneWriter ==
    /\ \A w, v \in Writer : op[w] # Idle /\ op[v] # Idle => w = v
    /\ \A w \in Shell : op[w] # Idle => wheelPc = "idle"
    /\ op[Wheel] # Idle => wheelPc \in {"shards", "recheck"}
    /\ wheelPc = "shards" => wheelTodo \subseteq Active \ {op[Wheel].shard}

\* What a writer has read is still so, and what it has begun is half done.
RewriteHolds(job) ==
    /\ job.pc \in {"check", "commit"} =>
          /\ job.shard \in Active
          /\ Seated(job.plan) = roster[job.shard]
          /\ job.todo = Targets(job.plan) /\ job.moving = NoShard
    /\ \A t \in job.todo : phase[t] = "unused"
    /\ job.pc \notin {"check", "commit", "leftover"} => job.todo = {}
    /\ job.pc = "leftover" =>
          /\ \A u \in User : job.plan[u] \in job.todo => OnNoRoster(u)
          /\ job.moving # NoShard =>
                /\ job.moving \in Active
                /\ roster[job.moving] = Chunk(job.plan, job.moving)
    /\ job.pc = "retire" => job.shard \in Active /\ roster[job.shard] = {}

OnboardHolds(job) ==
    /\ job.pc \in {"exists", "make", "read", "assign"} =>
          \A u \in job.who : u \in users /\ current[u] = NoShard
    /\ job.pc = "assign" =>
          job.shard \in Active /\ Seated(job.plan) = roster[job.shard] \cup job.who

CreateHolds(job) ==
    /\ job.pc = "vet" => \A u \in Seated(job.plan) \ job.who : current[u] \notin Active
    /\ job.pc = "insert" => \A u \in Seated(job.plan) : current[u] \notin Active
    /\ job.pc = "place" =>
          /\ job.shard \in Active /\ roster[job.shard] = Seated(job.plan)
          /\ job.who \subseteq Seated(job.plan)

JobHolds(job) ==
    /\ Seated(job.plan) \subseteq users
    /\ RewriteHolds(job) /\ OnboardHolds(job) /\ CreateHolds(job)

RostersKnown == \A s \in Shard : /\ roster[s] \subseteq users
                                 /\ phase[s] = "unused" => roster[s] = {}

\* Strengthens NoCrossShardUser and RecordsAgree while writers take turns.
PartitionInductive ==
    /\ OneWriter
    /\ NoCrossShardUser
    /\ RostersKnown
    /\ \A u \in User : (\A w \in Writer : u \notin InFlight(op[w])) => Agree(u)
    /\ \A w \in Writer : JobHolds(op[w])

\* While a plan is carried out: the shards created for it hold their chunks, and
\* the users not moved yet point nowhere or at the shard of the first commit.
PointersHold(job) ==
    /\ job.pc = "leftover" =>
          \A s \in Targets(job.plan) \ job.todo :
              s \in Active /\ roster[s] = Chunk(job.plan, s)
    /\ job.pc = "leftover" /\ job.shard # NoShard =>
          /\ Cardinality(Seated(job.plan)) <= Cap
          /\ \E primary \in Targets(job.plan) \ (job.todo \cup {job.moving}) :
                \A u \in InFlight(job) : current[u] = primary
    /\ job.pc = "place" \/ (job.pc = "leftover" /\ job.shard = NoShard) =>
          \A u \in InFlight(job) : current[u] = NoShard

\* An empty active shard is the default one or about to get its first user.
RostersFilled ==
    \A s \in Active \ {DefaultShard} :
        roster[s] = {} => \E w \in Writer : op[w].pc \in {"read", "assign"} /\ op[w].shard = s

\* Strengthens RosterChecksPass and BlastRadius, on top of the two above.
PointersInductive == RostersFilled /\ \A w \in Writer : PointersHold(op[w])
=============================================================================
