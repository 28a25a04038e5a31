------------------------- MODULE ShardRosterProofs -------------------------
(* Theorems about ShardRosters for every number of users, shards and shells. *)
EXTENDS ShardRosters, FiniteSetTheorems, TLAPS

-----------------------------------------------------------------------------
(* Jobs: what a writer holds between two statements *)

\* A job built from typed parts is typed.
LEMMA JobTyped ==
    ASSUME NEW pc \in JobPc \ {"idle"}, NEW s \in Shard \cup {NoShard},
           NEW plan \in [User -> Shard \cup {NoShard}], NEW todo \in SUBSET Shard,
           NEW who \in SUBSET User, pc # "leftover" => s \in Shard
    PROVE  /\ Job(pc, s, plan, todo, NoShard, who) \in JobType
           /\ JobOK(Job(pc, s, plan, todo, NoShard, who))
  BY SMT DEF Job, JobType, JobOK

\* So is the job of a writer that does nothing.
LEMMA IdleTyped == Idle \in JobType /\ JobOK(Idle) /\ Unset \in [User -> Shard \cup {NoShard}]
  BY SMT DEF Idle, Job, JobType, JobOK, Unset, JobPc

\* Exchanging one job for a typed one keeps every writer's job typed.
LEMMA StepTyped ==
    ASSUME JobsOK, NEW w \in Writer, NEW job \in JobType, JobOK(job), Step(w, job)
    PROVE  JobsOK'
  BY SMT DEF JobsOK, Step

\* A job keeps its type under a new plan.
LEMMA PlannedTyped ==
    ASSUME NEW job \in JobType, NEW pc \in JobPc, NEW plan \in [User -> Shard \cup {NoShard}]
    PROVE  [job EXCEPT !.pc = pc, !.plan = plan] \in JobType
  BY DEF JobType

\* Ending a command does, too.
LEMMA FinishTyped == ASSUME JobsOK, NEW w \in Writer, Finish(w) PROVE JobsOK'
  BY IdleTyped, StepTyped DEF Finish

\* And so does moving on to the next statement.
LEMMA PcTyped ==
    ASSUME JobsOK, NEW w \in Writer, NEW pc \in JobPc \ {"idle"},
           op' = [op EXCEPT ![w].pc = pc],
           pc # "leftover" => op[w].shard \in Shard
    PROVE  JobsOK'
<1> DEFINE job == [op[w] EXCEPT !.pc = pc]
<1>1. op[w] \in JobType /\ Step(w, job)
  BY DEF JobsOK, Step
<1>2. job \in JobType /\ JobOK(job)
  BY <1>1 DEF JobType, JobOK
<1> HIDE DEF job
<1>3. QED
  BY <1>1, <1>2, StepTyped


-----------------------------------------------------------------------------
\* The tables and what each writer has read keep their types.
THEOREM TypeCorrect == Spec => []TypeOK
<1> USE RosterAssumption
<1>1. Init => TypeOK
  BY IdleTyped, SMT DEF Init, TypeOK, TablesOK, JobsOK, Unset
<1>2. TypeOK /\ [Next]_vars => TypeOK'
  <2> SUFFICES ASSUME TypeOK, [Next]_vars PROVE TypeOK'
    OBVIOUS
  <2> USE DEF TypeOK, Writer, tables, wheelvars
  <2>1. ASSUME NEW w \in Writer, ReshuffleCheck(w) PROVE TypeOK'
    <3>1. JobsOK'
      <4>1. CASE phase[op[w].shard] = "retired"
        BY <2>1, <4>1, FinishTyped DEF ReshuffleCheck, GiveUp
      <4>2. CASE phase[op[w].shard] # "retired"
        BY <2>1, <4>2, PcTyped DEF ReshuffleCheck, JobsOK, JobOK, JobPc
      <4>3. QED
        BY <4>1, <4>2
    <3>2. op[w] \in JobType
      BY DEF JobsOK
    <3>3. QED
      BY <2>1, <3>1, <3>2 DEF ReshuffleCheck, TablesOK, GiveUp, JobType
  <2>2. ASSUME NEW w \in Writer, MoveLeftover(w) PROVE TypeOK'
    <3>1. JobsOK'
      BY <2>2, SMT DEF MoveLeftover, JobsOK, JobType, JobOK
    <3>2. op[w] \in JobType
      BY DEF JobsOK
    <3>3. QED
      BY <2>2, <3>1, <3>2 DEF MoveLeftover, TablesOK, Point, JobType
  <2>3. ASSUME NEW w \in Writer, ReshuffleDone(w) PROVE TypeOK'
    <3>1. JobsOK'
      BY <2>3, FinishTyped DEF ReshuffleDone
    <3>2. QED
      BY <2>3, <3>1 DEF ReshuffleDone, TablesOK
  <2>4. ASSUME NEW w \in Writer, RetireEmpty(w) PROVE TypeOK'
    <3>1. JobsOK'
      BY <2>4, FinishTyped DEF RetireEmpty, GiveUp
    <3>2. op[w] \in JobType /\ op[w].shard \in Shard
      BY <2>4 DEF RetireEmpty, JobsOK, JobOK
    <3>3. QED
      BY <2>4, <3>1, <3>2 DEF RetireEmpty, TablesOK, GiveUp, JobType
  <2>5. ASSUME NEW w \in Writer, NEW t \in Shard, ReshuffleCommit(w, t) PROVE TypeOK'
    <3>1. JobsOK'
      BY <2>5, SMT DEF ReshuffleCommit, JobsOK, JobType, JobOK, JobPc
    <3>2. op[w] \in JobType /\ op[w].shard \in Shard
      BY <2>5 DEF ReshuffleCommit, JobsOK, JobOK
    <3>3. QED
      BY <2>5, <3>1, <3>2 DEF ReshuffleCommit, TablesOK, Point, Chunk, JobType
  <2>6. ASSUME NEW w \in Writer, NEW t \in Shard, CreateLeftover(w, t) PROVE TypeOK'
    <3>1. JobsOK'
      BY <2>6, SMT DEF CreateLeftover, JobsOK, JobType, JobOK
    <3>2. op[w] \in JobType
      BY DEF JobsOK
    <3>3. QED
      BY <2>6, <3>1, <3>2 DEF CreateLeftover, TablesOK, Point, Chunk, JobType
  <2>7. ASSUME NEW w \in Shell, NEW t \in Shard, ReshuffleRead(w, t) PROVE TypeOK'
    <3>1. JobsOK'
      <4>1. PICK plan \in Plans(roster[t]) :
                   Step(w, Job("check", t, plan, Targets(plan), NoShard, {}))
        BY <2>7 DEF ReshuffleRead
      <4>2. plan \in [User -> Shard \cup {NoShard}] /\ Targets(plan) \in SUBSET Shard
        BY DEF Plans, Fresh, Targets, Seated
      <4>3. QED
        BY <4>1, <4>2, JobTyped, StepTyped DEF JobPc
    <3>2. QED
      BY <2>7, <3>1 DEF ReshuffleRead, TablesOK
  <2>8. ASSUME NEW w \in Shell, NEW t \in Shard, EmptyShardRead(w, t) PROVE TypeOK'
    <3>1. JobsOK'
      BY <2>8, JobTyped, IdleTyped, StepTyped DEF EmptyShardRead, JobPc
    <3>2. QED
      BY <2>8, <3>1 DEF EmptyShardRead, TablesOK
  <2>9. ASSUME NEW w \in Shell, NEW u \in User, UserAdd(w, u) PROVE TypeOK'
    BY <2>9 DEF UserAdd, JobsOK, TablesOK
  <2>10. ASSUME NEW w \in Shell, NEW u \in User, NEW t \in Shard, Onboard(w, u, t) PROVE TypeOK'
    <3>1. JobsOK'
      BY <2>10, JobTyped, IdleTyped, StepTyped DEF Onboard, JobPc
    <3>2. QED
      BY <2>10, <3>1 DEF Onboard, TablesOK
  <2>11. ASSUME NEW w \in Shell, OnboardEnsure(w) PROVE TypeOK'
    <3>1. JobsOK'
      BY <2>11, PcTyped DEF OnboardEnsure, JobsOK, JobOK, JobPc
    <3>2. QED
      BY <2>11, <3>1 DEF OnboardEnsure, TablesOK
  <2>12. ASSUME NEW w \in Shell, OnboardMake(w) PROVE TypeOK'
    <3>1. JobsOK'
      BY <2>12, PcTyped, FinishTyped DEF OnboardMake, JobsOK, JobOK, JobPc
    <3>2. QED
      BY <2>12, <3>1 DEF OnboardMake, TablesOK, JobsOK, JobOK
  <2>13. ASSUME NEW w \in Shell, AssignRead(w) PROVE TypeOK'
    <3>1. JobsOK'
      <4>1. CASE Finish(w)
        BY <4>1, FinishTyped
      <4>2. CASE ~Finish(w)
        <5> DEFINE plan == [u \in User |-> IF u \in roster[op[w].shard] \cup op[w].who
                                           THEN op[w].shard ELSE NoShard]
        <5>1. op' = [op EXCEPT ![w].pc = "assign", ![w].plan = plan]
          BY <2>13, <4>2 DEF AssignRead
        <5>2. op[w].shard \in Shard
          BY <2>13 DEF AssignRead, JobsOK, JobOK
        <5>3. plan \in [User -> Shard \cup {NoShard}]
          BY <5>2
        <5>4. op[w] \in JobType
          BY DEF JobsOK
        <5> HIDE DEF plan
        <5> DEFINE job == [op[w] EXCEPT !.pc = "assign", !.plan = plan]
        <5>5. job \in JobType
          BY <5>3, <5>4, PlannedTyped DEF JobPc
        <5>6. JobOK(job)
          BY <5>2, <5>4, SMT DEF JobType, JobOK
        <5>7. Step(w, job)
          BY <5>1, <5>4 DEF Step, JobsOK, JobType
        <5>8. QED
          BY <5>5, <5>6, <5>7, StepTyped
      <4>3. QED
        BY <4>1, <4>2
    <3>2. QED
      BY <2>13, <3>1 DEF AssignRead, TablesOK
  <2>14. ASSUME NEW w \in Shell, AssignCommit(w) PROVE TypeOK'
    <3>1. JobsOK'
      BY <2>14, FinishTyped DEF AssignCommit
    <3>2. op[w] \in JobType /\ op[w].shard \in Shard
      BY <2>14 DEF AssignCommit, JobsOK, JobOK
    <3>3. roster' \in [Shard -> SUBSET User]
      BY <2>14, <3>2 DEF AssignCommit, TablesOK, Seated
    <3>4. current' \in [User -> Shard \cup {NoShard}]
      BY <2>14, <3>2 DEF AssignCommit, TablesOK, Point
    <3>5. QED
      BY <2>14, <3>1, <3>2, <3>3, <3>4 DEF AssignCommit, TablesOK
  <2>15. ASSUME NEW w \in Shell, NEW t \in Shard, NEW members \in SUBSET User, ShardCreate(w,
                t, members) PROVE TypeOK'
    <3>1. JobsOK'
      <4> DEFINE plan == [v \in User |-> IF v \in members THEN t ELSE NoShard]
      <4>1. plan \in [User -> Shard \cup {NoShard}] /\ members \in SUBSET User
        BY DEF TablesOK
      <4>2. Step(w, Job("vet", t, plan, {}, NoShard, members))
        BY <2>15 DEF ShardCreate
      <4> HIDE DEF plan
      <4>3. QED
        BY <4>1, <4>2, JobTyped, StepTyped DEF JobPc
    <3>2. QED
      BY <2>15, <3>1 DEF ShardCreate, TablesOK
  <2>16. ASSUME NEW w \in Shell, NEW u \in User, VetMember(w, u) PROVE TypeOK'
    <3>1. JobsOK'
      <4>1. CASE Finish(w)
        BY <4>1, FinishTyped
      <4>2. CASE ~Finish(w)
        BY <2>16, <4>2, SMT DEF VetMember, JobsOK, JobType, JobOK, JobPc
      <4>3. QED
        BY <4>1, <4>2
    <3>2. QED
      BY <2>16, <3>1 DEF VetMember, TablesOK
  <2>17. ASSUME NEW w \in Shell, InsertShard(w) PROVE TypeOK'
    <3>1. JobsOK'
      <4>1. CASE Finish(w)
        BY <4>1, FinishTyped
      <4>2. CASE ~Finish(w)
        BY <2>17, <4>2, SMT DEF InsertShard, JobsOK, JobType, JobOK, JobPc, Seated
      <4>3. QED
        BY <4>1, <4>2
    <3>2. op[w] \in JobType /\ op[w].shard \in Shard
      BY <2>17 DEF InsertShard, JobsOK, JobOK
    <3>3. QED
      BY <2>17, <3>1, <3>2 DEF InsertShard, TablesOK, Seated, JobType
  <2>18. ASSUME NEW w \in Shell, NEW u \in User, PlaceMember(w, u) PROVE TypeOK'
    <3>1. JobsOK'
      <4>1. CASE Finish(w)
        BY <4>1, FinishTyped
      <4>2. CASE ~Finish(w)
        BY <2>18, <4>2, SMT DEF PlaceMember, JobsOK, JobType, JobOK
      <4>3. QED
        BY <4>1, <4>2
    <3>2. op[w] \in JobType
      BY DEF JobsOK
    <3>3. QED
      BY <2>18, <3>1, <3>2 DEF PlaceMember, TablesOK, Point, JobType
  <2>19. ASSUME NEW w \in Shell, ProvisionDefault(w) PROVE TypeOK'
    BY <2>19 DEF ProvisionDefault, JobsOK, TablesOK
  <2>20. ASSUME WheelStart PROVE TypeOK'
    BY <2>20 DEF WheelStart, JobsOK, TablesOK, OverdueActive, Active
  <2>21. ASSUME NEW t \in Shard, WheelTake(t) PROVE TypeOK'
    <3>1. JobsOK'
      <4>1. CASE roster[t] = {}
        BY <2>21, <4>1, JobTyped, IdleTyped, StepTyped DEF WheelTake, JobPc
      <4>2. CASE roster[t] # {}
        <5>1. PICK plan \in Plans(roster[t]) :
                     Step(Wheel, Job("check", t, plan, Targets(plan), NoShard, {}))
          BY <2>21, <4>2 DEF WheelTake
        <5>2. plan \in [User -> Shard \cup {NoShard}] /\ Targets(plan) \in SUBSET Shard
          BY DEF Plans, Fresh, Targets, Seated
        <5>3. QED
          BY <5>1, <5>2, JobTyped, StepTyped DEF JobPc
      <4>3. QED
        BY <4>1, <4>2
    <3>2. QED
      BY <2>21, <3>1 DEF WheelTake, TablesOK
  <2>22. ASSUME WheelFold PROVE TypeOK'
    <3>1. JobsOK'
      <4>1. CASE Unassigned = {}
        BY <2>22, <4>1 DEF WheelFold, JobsOK
      <4>2. CASE Unassigned # {}
        <5>1. PICK plan \in Plans(Unassigned) :
                     Step(Wheel, Job("leftover", NoShard, plan, Targets(plan), NoShard, {}))
          BY <2>22, <4>2 DEF WheelFold
        <5>2. plan \in [User -> Shard \cup {NoShard}] /\ Targets(plan) \in SUBSET Shard
          BY DEF Plans, Fresh, Targets, Seated
        <5>3. QED
          BY <5>1, <5>2, JobTyped, StepTyped DEF JobPc
      <4>3. QED
        BY <4>1, <4>2
    <3>2. QED
      BY <2>22, <3>1 DEF WheelFold, TablesOK
  <2>23. ASSUME WheelRecheck PROVE TypeOK'
    BY <2>23 DEF WheelRecheck, JobsOK, TablesOK, OverdueActive, Active
  <2>24. ASSUME NEW t \in Shard \cup {NoShard}, WheelFlag(t) PROVE TypeOK'
    BY <2>24 DEF WheelFlag, JobsOK, TablesOK
  <2>25. ASSUME WheelDone PROVE TypeOK'
    BY <2>25 DEF WheelDone, JobsOK, TablesOK
  <2>26. ASSUME NEW w \in Shell, ShellDies(w) PROVE TypeOK'
    <3>1. JobsOK'
      BY <2>26, FinishTyped DEF ShellDies
    <3>2. QED
      BY <2>26, <3>1 DEF ShellDies, TablesOK, Fault
  <2>27. ASSUME WheelStepFails PROVE TypeOK'
    <3>1. JobsOK'
      BY <2>27, FinishTyped DEF WheelStepFails, GiveUp
    <3>2. op[Wheel] \in JobType
      BY DEF JobsOK
    <3>3. QED
      BY <2>27, <3>1, <3>2 DEF WheelStepFails, TablesOK, Fault, GiveUp, JobType
  <2>28. ASSUME DaemonRestarts PROVE TypeOK'
    <3>1. JobsOK'
      BY <2>28, FinishTyped DEF DaemonRestarts
    <3>2. QED
      BY <2>28, <3>1 DEF DaemonRestarts, TablesOK, Fault
  <2>29. ASSUME NEW t \in Shard, FallsOverdue(t) PROVE TypeOK'
    BY <2>29 DEF FallsOverdue, JobsOK, TablesOK, Active
  <2>30. CASE UNCHANGED vars
    BY <2>30 DEF vars, JobsOK, TablesOK
  <2>31. QED
    BY <2>1, <2>2, <2>3, <2>4, <2>5, <2>6, <2>7, <2>8, <2>9, <2>10, <2>11, <2>12, <2>13, <2>14,
       <2>15, <2>16, <2>17, <2>18, <2>19, <2>20, <2>21, <2>22, <2>23, <2>24, <2>25, <2>26,
       <2>27, <2>28, <2>29, <2>30, Zenon DEF Next, ShellStep, RewriteStep, WheelStep, Writer
<1>3. QED
  BY <1>1, <1>2, PTL DEF Spec

-----------------------------------------------------------------------------
(* Any interleaving: rosters keep to max_size, retired ids stay retired *)

\* The users of a chunk are counted.
LEMMA ChunkCounted ==
    ASSUME NEW plan, NEW s
    PROVE  IsFiniteSet(Chunk(plan, s)) /\ Cardinality(Chunk(plan, s)) \in Nat
<1>1. IsFiniteSet(Chunk(plan, s))
  BY RosterAssumption, FS_Subset DEF Chunk
<1>2. QED
  BY <1>1, FS_CardinalityType

\* A roster the picker deals is no larger than target_size.
LEMMA PlanFits ==
    ASSUME NEW members, NEW plan \in Plans(members), NEW s \in Shard
    PROVE  /\ plan \in [User -> Shard \cup {NoShard}]
           /\ Targets(plan) \subseteq Fresh
           /\ Cardinality(Chunk(plan, s)) <= TargetSize
<1> USE RosterAssumption
<1>1. plan \in [User -> Fresh \cup {NoShard}] /\ Layout(plan)
  BY DEF Plans
<1>2. CASE s \in Targets(plan)
  BY <1>1, <1>2 DEF Layout, Targets, Seated, Fresh
<1>3. CASE s \notin Targets(plan)
  <2>1. Chunk(plan, s) = {}
    BY <1>1, <1>3 DEF Chunk, Targets, Seated, Fresh
  <2>2. Cardinality(Chunk(plan, s)) = 0
    BY <2>1, FS_EmptySet
  <2>3. QED
    BY <1>1, <2>2, SMT DEF Targets, Seated, Fresh
<1>4. QED
  BY <1>2, <1>3

\* No step takes a row of shards back, or its retirement.
PhaseForward == \A s \in Shard : /\ phase[s] = "retired" => phase'[s] = "retired"
                                 /\ phase[s] # "unused" => phase'[s] # "unused"

\* Rows of shards only move forward, in every step.
LEMMA PhaseStep ==
    ASSUME TypeOK, UuidsFresh, [Next]_vars
    PROVE  PhaseForward
<1> USE DEF PhaseForward, TypeOK, TablesOK, Writer, tables, wheelvars
  <1>1. ASSUME NEW w \in Writer, ReshuffleCheck(w) PROVE PhaseForward
    BY <1>1 DEF ReshuffleCheck
  <1>2. ASSUME NEW w \in Writer, MoveLeftover(w) PROVE PhaseForward
    BY <1>2 DEF MoveLeftover
  <1>3. ASSUME NEW w \in Writer, ReshuffleDone(w) PROVE PhaseForward
    BY <1>3 DEF ReshuffleDone
  <1>4. ASSUME NEW w \in Writer, RetireEmpty(w) PROVE PhaseForward
    BY <1>4 DEF RetireEmpty, GiveUp, IdFree, JobsOK, JobOK, UuidsFresh
  <1>5. ASSUME NEW w \in Writer, NEW t \in Shard, ReshuffleCommit(w, t) PROVE PhaseForward
    BY <1>5 DEF ReshuffleCommit, GiveUp, IdFree, JobsOK, JobOK, UuidsFresh
  <1>6. ASSUME NEW w \in Writer, NEW t \in Shard, CreateLeftover(w, t) PROVE PhaseForward
    BY <1>6 DEF CreateLeftover, GiveUp, IdFree, JobsOK, JobOK, UuidsFresh
  <1>7. ASSUME NEW w \in Shell, NEW t \in Shard, ReshuffleRead(w, t) PROVE PhaseForward
    BY <1>7 DEF ReshuffleRead
  <1>8. ASSUME NEW w \in Shell, NEW t \in Shard, EmptyShardRead(w, t) PROVE PhaseForward
    BY <1>8 DEF EmptyShardRead
  <1>9. ASSUME NEW w \in Shell, NEW u \in User, UserAdd(w, u) PROVE PhaseForward
    BY <1>9 DEF UserAdd
  <1>10. ASSUME NEW w \in Shell, NEW u \in User, NEW t \in Shard, Onboard(w, u, t)
                PROVE PhaseForward
    BY <1>10 DEF Onboard
  <1>11. ASSUME NEW w \in Shell, OnboardEnsure(w) PROVE PhaseForward
    BY <1>11 DEF OnboardEnsure
  <1>12. ASSUME NEW w \in Shell, OnboardMake(w) PROVE PhaseForward
    BY <1>12 DEF OnboardMake, GiveUp, IdFree, JobsOK, JobOK, UuidsFresh
  <1>13. ASSUME NEW w \in Shell, AssignRead(w) PROVE PhaseForward
    BY <1>13 DEF AssignRead
  <1>14. ASSUME NEW w \in Shell, AssignCommit(w) PROVE PhaseForward
    BY <1>14 DEF AssignCommit
  <1>15. ASSUME NEW w \in Shell, NEW t \in Shard, NEW members \in SUBSET User, ShardCreate(w,
                t, members) PROVE PhaseForward
    BY <1>15 DEF ShardCreate
  <1>16. ASSUME NEW w \in Shell, NEW u \in User, VetMember(w, u) PROVE PhaseForward
    BY <1>16 DEF VetMember
  <1>17. ASSUME NEW w \in Shell, InsertShard(w) PROVE PhaseForward
    BY <1>17 DEF InsertShard, GiveUp, IdFree, JobsOK, JobOK, UuidsFresh
  <1>18. ASSUME NEW w \in Shell, NEW u \in User, PlaceMember(w, u) PROVE PhaseForward
    BY <1>18 DEF PlaceMember
  <1>19. ASSUME NEW w \in Shell, ProvisionDefault(w) PROVE PhaseForward
    BY <1>19 DEF ProvisionDefault, GiveUp, IdFree, JobsOK, JobOK, UuidsFresh
  <1>20. ASSUME WheelStart PROVE PhaseForward
    BY <1>20 DEF WheelStart
  <1>21. ASSUME NEW t \in Shard, WheelTake(t) PROVE PhaseForward
    BY <1>21 DEF WheelTake
  <1>22. ASSUME WheelFold PROVE PhaseForward
    BY <1>22 DEF WheelFold
  <1>23. ASSUME WheelRecheck PROVE PhaseForward
    BY <1>23 DEF WheelRecheck
  <1>24. ASSUME NEW t \in Shard \cup {NoShard}, WheelFlag(t) PROVE PhaseForward
    BY <1>24 DEF WheelFlag
  <1>25. ASSUME WheelDone PROVE PhaseForward
    BY <1>25 DEF WheelDone
  <1>26. ASSUME NEW w \in Shell, ShellDies(w) PROVE PhaseForward
    BY <1>26 DEF ShellDies
  <1>27. ASSUME WheelStepFails PROVE PhaseForward
    BY <1>27 DEF WheelStepFails
  <1>28. ASSUME DaemonRestarts PROVE PhaseForward
    BY <1>28 DEF DaemonRestarts
  <1>29. ASSUME NEW t \in Shard, FallsOverdue(t) PROVE PhaseForward
    BY <1>29 DEF FallsOverdue
  <1>30. CASE UNCHANGED vars
    BY <1>30 DEF vars
  <1>31. QED
    BY <1>1, <1>2, <1>3, <1>4, <1>5, <1>6, <1>7, <1>8, <1>9, <1>10, <1>11, <1>12, <1>13, <1>14,
       <1>15, <1>16, <1>17, <1>18, <1>19, <1>20, <1>21, <1>22, <1>23, <1>24, <1>25, <1>26,
       <1>27, <1>28, <1>29, <1>30, Zenon DEF Next, ShellStep, RewriteStep, WheelStep, Writer

\* The wheel's list of shards keeps to rows that exist.
LEMMA TodoStep ==
    ASSUME TypeOK, TodoSeen, PhaseForward, [Next]_vars
    PROVE  TodoSeen'
<1> USE RosterAssumption DEF TodoSeen, PhaseForward, TypeOK, TablesOK, Writer, tables, wheelvars
  <1>1. ASSUME NEW w \in Writer, ReshuffleCheck(w) PROVE TodoSeen'
    BY <1>1 DEF ReshuffleCheck, GiveUp, OverdueActive, Active
  <1>2. ASSUME NEW w \in Writer, MoveLeftover(w) PROVE TodoSeen'
    BY <1>2 DEF MoveLeftover, GiveUp, OverdueActive, Active
  <1>3. ASSUME NEW w \in Writer, ReshuffleDone(w) PROVE TodoSeen'
    BY <1>3 DEF ReshuffleDone, GiveUp, OverdueActive, Active
  <1>4. ASSUME NEW w \in Writer, RetireEmpty(w) PROVE TodoSeen'
    BY <1>4 DEF RetireEmpty, GiveUp, OverdueActive, Active
  <1>5. ASSUME NEW w \in Writer, NEW t \in Shard, ReshuffleCommit(w, t) PROVE TodoSeen'
    BY <1>5 DEF ReshuffleCommit, GiveUp, OverdueActive, Active
  <1>6. ASSUME NEW w \in Writer, NEW t \in Shard, CreateLeftover(w, t) PROVE TodoSeen'
    BY <1>6 DEF CreateLeftover, GiveUp, OverdueActive, Active
  <1>7. ASSUME NEW w \in Shell, NEW t \in Shard, ReshuffleRead(w, t) PROVE TodoSeen'
    BY <1>7 DEF ReshuffleRead, GiveUp, OverdueActive, Active
  <1>8. ASSUME NEW w \in Shell, NEW t \in Shard, EmptyShardRead(w, t) PROVE TodoSeen'
    BY <1>8 DEF EmptyShardRead, GiveUp, OverdueActive, Active
  <1>9. ASSUME NEW w \in Shell, NEW u \in User, UserAdd(w, u) PROVE TodoSeen'
    BY <1>9 DEF UserAdd, GiveUp, OverdueActive, Active
  <1>10. ASSUME NEW w \in Shell, NEW u \in User, NEW t \in Shard, Onboard(w, u, t)
                PROVE TodoSeen'
    BY <1>10 DEF Onboard, GiveUp, OverdueActive, Active
  <1>11. ASSUME NEW w \in Shell, OnboardEnsure(w) PROVE TodoSeen'
    BY <1>11 DEF OnboardEnsure, GiveUp, OverdueActive, Active
  <1>12. ASSUME NEW w \in Shell, OnboardMake(w) PROVE TodoSeen'
    BY <1>12 DEF OnboardMake, GiveUp, OverdueActive, Active
  <1>13. ASSUME NEW w \in Shell, AssignRead(w) PROVE TodoSeen'
    BY <1>13 DEF AssignRead, GiveUp, OverdueActive, Active
  <1>14. ASSUME NEW w \in Shell, AssignCommit(w) PROVE TodoSeen'
    BY <1>14 DEF AssignCommit, GiveUp, OverdueActive, Active
  <1>15. ASSUME NEW w \in Shell, NEW t \in Shard, NEW members \in SUBSET User, ShardCreate(w,
                t, members) PROVE TodoSeen'
    BY <1>15 DEF ShardCreate, GiveUp, OverdueActive, Active
  <1>16. ASSUME NEW w \in Shell, NEW u \in User, VetMember(w, u) PROVE TodoSeen'
    BY <1>16 DEF VetMember, GiveUp, OverdueActive, Active
  <1>17. ASSUME NEW w \in Shell, InsertShard(w) PROVE TodoSeen'
    BY <1>17 DEF InsertShard, GiveUp, OverdueActive, Active
  <1>18. ASSUME NEW w \in Shell, NEW u \in User, PlaceMember(w, u) PROVE TodoSeen'
    BY <1>18 DEF PlaceMember, GiveUp, OverdueActive, Active
  <1>19. ASSUME NEW w \in Shell, ProvisionDefault(w) PROVE TodoSeen'
    BY <1>19 DEF ProvisionDefault, GiveUp, OverdueActive, Active
  <1>20. ASSUME WheelStart PROVE TodoSeen'
    BY <1>20 DEF WheelStart, GiveUp, OverdueActive, Active
  <1>21. ASSUME NEW t \in Shard, WheelTake(t) PROVE TodoSeen'
    BY <1>21 DEF WheelTake, GiveUp, OverdueActive, Active
  <1>22. ASSUME WheelFold PROVE TodoSeen'
    BY <1>22 DEF WheelFold, GiveUp, OverdueActive, Active
  <1>23. ASSUME WheelRecheck PROVE TodoSeen'
    BY <1>23 DEF WheelRecheck, GiveUp, OverdueActive, Active
  <1>24. ASSUME NEW t \in Shard \cup {NoShard}, WheelFlag(t) PROVE TodoSeen'
    BY <1>24 DEF WheelFlag, GiveUp, OverdueActive, Active
  <1>25. ASSUME WheelDone PROVE TodoSeen'
    BY <1>25 DEF WheelDone, GiveUp, OverdueActive, Active
  <1>26. ASSUME NEW w \in Shell, ShellDies(w) PROVE TodoSeen'
    BY <1>26 DEF ShellDies, GiveUp, OverdueActive, Active
  <1>27. ASSUME WheelStepFails PROVE TodoSeen'
    BY <1>27 DEF WheelStepFails, GiveUp, OverdueActive, Active
  <1>28. ASSUME DaemonRestarts PROVE TodoSeen'
    BY <1>28 DEF DaemonRestarts, GiveUp, OverdueActive, Active
  <1>29. ASSUME NEW t \in Shard, FallsOverdue(t) PROVE TodoSeen'
    BY <1>29 DEF FallsOverdue, GiveUp, OverdueActive, Active
  <1>30. CASE UNCHANGED vars
    BY <1>30 DEF vars
  <1>31. QED
    BY <1>1, <1>2, <1>3, <1>4, <1>5, <1>6, <1>7, <1>8, <1>9, <1>10, <1>11, <1>12, <1>13, <1>14,
       <1>15, <1>16, <1>17, <1>18, <1>19, <1>20, <1>21, <1>22, <1>23, <1>24, <1>25, <1>26,
       <1>27, <1>28, <1>29, <1>30, Zenon DEF Next, ShellStep, RewriteStep, WheelStep, Writer

\* What a step of one writer leaves of the jobs.
Shrinks == \A w \in Writer : /\ op'[w].todo \subseteq op[w].todo
                             /\ op'[w].shard \in {op[w].shard, NoShard}

\* A finished command reserves nothing.
LEMMA FinishShrinks ==
    ASSUME JobsOK, NEW w \in Writer, Finish(w)
    PROVE  Shrinks
<1>1. op' = [op EXCEPT ![w] = Idle] /\ op \in [Writer -> JobType]
  BY DEF Finish, Step, JobsOK
<1>2. Idle.todo = {} /\ Idle.shard = NoShard
  BY DEF Idle, Job
<1> HIDE DEF Idle
<1>3. QED
  BY <1>1, <1>2 DEF Shrinks

\* Moving on reserves nothing new.
LEMMA PcShrinks ==
    ASSUME JobsOK, NEW w \in Writer, NEW pc, op' = [op EXCEPT ![w].pc = pc]
    PROVE  Shrinks
  BY DEF Shrinks, JobsOK, JobType

\* Uuids stay fresh while no job reserves more and theirs stay unused.
LEMMA UuidsKept ==
    ASSUME TypeOK, UuidsFresh, Shrinks,
           \A w \in Writer : \A s \in op'[w].todo : phase'[s] = phase[s]
    PROVE  UuidsFresh'
<1> SUFFICES ASSUME NEW w \in Writer, NEW s \in op'[w].todo
    PROVE  /\ phase'[s] = "unused" /\ s # DefaultShard
           /\ \A v \in Writer : op'[v].shard # s /\ (v # w => s \notin op'[v].todo)
  BY DEF UuidsFresh
<1>1. s \in op[w].todo /\ s \in Shard /\ s # NoShard
  BY RosterAssumption DEF Shrinks, TypeOK, JobsOK, JobType
<1>2. QED
  BY <1>1 DEF Shrinks, UuidsFresh

\* A new job draws uuids of its own.
LEMMA UuidsDrawn ==
    ASSUME TypeOK, UuidsFresh, NEW w \in Writer, op[w] = Idle,
           NEW pc, NEW t \in Shard \cup {NoShard}, NEW plan, NEW who,
           NEW todo \in SUBSET Fresh, t \notin todo, t \notin Drawn,
           Step(w, Job(pc, t, plan, todo, NoShard, who)), phase' = phase
    PROVE  UuidsFresh'
<1> DEFINE job == Job(pc, t, plan, todo, NoShard, who)
<1>1. job.todo = todo /\ job.shard = t
  BY DEF Job
<1>2. op' = [op EXCEPT ![w] = job] /\ op \in [Writer -> JobType]
  BY DEF Step, TypeOK, JobsOK
<1> HIDE DEF job
<1>3. op'[w].todo = todo /\ op'[w].shard = t /\ \A v \in Writer \ {w} : op'[v] = op[v]
  BY <1>1, <1>2
<1>4. SUFFICES ASSUME NEW x \in Writer, NEW s \in op'[x].todo
      PROVE  /\ phase[s] = "unused" /\ s # DefaultShard
             /\ \A v \in Writer : op'[v].shard # s /\ (v # x => s \notin op'[v].todo)
  BY DEF UuidsFresh
<1>5. CASE x = w
  BY <1>3, <1>4, <1>5 DEF Fresh, Drawn
<1>6. CASE x # w
  <2>1. s \in op[x].todo /\ s \in Drawn
    BY <1>3, <1>4, <1>6 DEF Drawn
  <2>2. QED
    BY <1>3, <1>6, <2>1 DEF UuidsFresh, Fresh
<1>7. QED
  BY <1>5, <1>6

\* Uuids stay fresh in every step.
LEMMA UuidStep ==
    ASSUME TypeOK, UuidsFresh, TodoSeen, [Next]_vars
    PROVE  UuidsFresh'
<1> USE RosterAssumption DEF TypeOK, Writer, tables, wheelvars
  <1>1. ASSUME NEW w \in Writer, ReshuffleCheck(w) PROVE UuidsFresh'
    <2>1. CASE Finish(w)
      BY <1>1, <2>1, FinishShrinks, UuidsKept DEF ReshuffleCheck
    <2>2. CASE ~Finish(w)
      BY <1>1, <2>2, PcShrinks, UuidsKept DEF ReshuffleCheck, GiveUp
    <2>3. QED
      BY <2>1, <2>2
  <1>2. ASSUME NEW w \in Writer, MoveLeftover(w) PROVE UuidsFresh'
    <2>1. Shrinks
      BY <1>2 DEF MoveLeftover, Shrinks, JobsOK, JobType
    <2>2. QED
      BY <1>2, <2>1, UuidsKept DEF MoveLeftover
  <1>3. ASSUME NEW w \in Writer, ReshuffleDone(w) PROVE UuidsFresh'
    BY <1>3, FinishShrinks, UuidsKept DEF ReshuffleDone, GiveUp
  <1>4. ASSUME NEW w \in Writer, RetireEmpty(w) PROVE UuidsFresh'
    <2>1. Shrinks
      BY <1>4, FinishShrinks DEF RetireEmpty, GiveUp
    <2>2. \A v \in Writer : \A s \in op'[v].todo : phase'[s] = phase[s]
      BY <1>4, <2>1 DEF RetireEmpty, Shrinks, UuidsFresh, TablesOK, GiveUp, JobsOK, JobType
    <2>3. QED
      BY <2>1, <2>2, UuidsKept
  <1>5. ASSUME NEW w \in Writer, NEW t \in Shard, ReshuffleCommit(w, t) PROVE UuidsFresh'
    <2>1. Shrinks
      BY <1>5 DEF ReshuffleCommit, Shrinks, JobsOK, JobType
    <2>2. t \notin op'[w].todo /\ \A v \in Writer \ {w} : op'[v] = op[v]
      BY <1>5 DEF ReshuffleCommit, JobsOK, JobType
    <2>3. \A v \in Writer : \A s \in op'[v].todo : phase'[s] = phase[s]
      BY <1>5, <2>1, <2>2 DEF ReshuffleCommit, Shrinks, UuidsFresh, TablesOK, JobsOK, JobType
    <2>4. QED
      BY <2>1, <2>3, UuidsKept
  <1>6. ASSUME NEW w \in Writer, NEW t \in Shard, CreateLeftover(w, t) PROVE UuidsFresh'
    <2>1. Shrinks
      BY <1>6 DEF CreateLeftover, Shrinks, JobsOK, JobType
    <2>2. t \notin op'[w].todo /\ \A v \in Writer \ {w} : op'[v] = op[v]
      BY <1>6 DEF CreateLeftover, JobsOK, JobType
    <2>3. \A v \in Writer : \A s \in op'[v].todo : phase'[s] = phase[s]
      BY <1>6, <2>1, <2>2 DEF CreateLeftover, Shrinks, UuidsFresh, TablesOK, JobsOK, JobType
    <2>4. QED
      BY <2>1, <2>3, UuidsKept
  <1>7. ASSUME NEW w \in Shell, NEW t \in Shard, ReshuffleRead(w, t) PROVE UuidsFresh'
    <2>1. PICK plan \in Plans(roster[t]) :
                 Step(w, Job("check", t, plan, Targets(plan), NoShard, {}))
      BY <1>7 DEF ReshuffleRead
    <2>2. Targets(plan) \in SUBSET Fresh
      BY PlanFits, RosterAssumption
    <2>3. t \notin Drawn /\ t \notin Fresh
      BY <1>7 DEF ReshuffleRead, Drawn, Fresh, UuidsFresh, TodoSeen, JobsOK, JobType
    <2>4. QED
      BY <1>7, <2>1, <2>2, <2>3, UuidsDrawn DEF ReshuffleRead, MayStart
  <1>8. ASSUME NEW w \in Shell, NEW t \in Shard, EmptyShardRead(w, t) PROVE UuidsFresh'
    <2>1. t \notin Drawn
      BY <1>8 DEF EmptyShardRead, Drawn, UuidsFresh, Names
    <2>2. QED
      BY <1>8, <2>1, UuidsDrawn DEF EmptyShardRead, MayStart
  <1>9. ASSUME NEW w \in Shell, NEW u \in User, UserAdd(w, u) PROVE UuidsFresh'
    BY <1>9 DEF UserAdd, UuidsFresh
  <1>10. ASSUME NEW w \in Shell, NEW u \in User, NEW t \in Shard, Onboard(w, u, t)
                PROVE UuidsFresh'
    <2>1. t \notin Drawn
      BY <1>10 DEF Onboard, Drawn, UuidsFresh, Names
    <2>2. QED
      BY <1>10, <2>1, UuidsDrawn DEF Onboard, MayStart
  <1>11. ASSUME NEW w \in Shell, OnboardEnsure(w) PROVE UuidsFresh'
    <2>1. PICK pc : op' = [op EXCEPT ![w].pc = pc]
      BY <1>11 DEF OnboardEnsure
    <2>2. QED
      BY <1>11, <2>1, PcShrinks, UuidsKept DEF OnboardEnsure
  <1>12. ASSUME NEW w \in Shell, OnboardMake(w) PROVE UuidsFresh'
    <2>1. Shrinks
      <3>1. CASE Finish(w)
        BY <3>1, FinishShrinks
      <3>2. CASE ~Finish(w)
        BY <1>12, <3>2, PcShrinks DEF OnboardMake
      <3>3. QED
        BY <3>1, <3>2
    <2>2. \A v \in Writer : \A s \in op'[v].todo : phase'[s] = phase[s]
      BY <1>12, <2>1 DEF OnboardMake, Shrinks, UuidsFresh, TablesOK, GiveUp, JobsOK, JobType
    <2>3. QED
      BY <2>1, <2>2, UuidsKept
  <1>13. ASSUME NEW w \in Shell, AssignRead(w) PROVE UuidsFresh'
    <2>1. CASE Finish(w)
      BY <1>13, <2>1, FinishShrinks, UuidsKept DEF AssignRead
    <2>2. CASE ~Finish(w)
      <3>1. Shrinks
        BY <1>13, <2>2 DEF AssignRead, Shrinks, JobsOK, JobType
      <3>2. QED
        BY <1>13, <3>1, UuidsKept DEF AssignRead
    <2>3. QED
      BY <2>1, <2>2
  <1>14. ASSUME NEW w \in Shell, AssignCommit(w) PROVE UuidsFresh'
    BY <1>14, FinishShrinks, UuidsKept DEF AssignCommit, GiveUp
  <1>15. ASSUME NEW w \in Shell, NEW t \in Shard, NEW members \in SUBSET User, ShardCreate(w,
                t, members) PROVE UuidsFresh'
    <2>1. t \notin Drawn
      BY <1>15 DEF ShardCreate, Drawn, UuidsFresh, Names
    <2>2. QED
      BY <1>15, <2>1, UuidsDrawn DEF ShardCreate, MayStart
  <1>16. ASSUME NEW w \in Shell, NEW u \in User, VetMember(w, u) PROVE UuidsFresh'
    <2>1. CASE Finish(w)
      BY <1>16, <2>1, FinishShrinks, UuidsKept DEF VetMember
    <2>2. CASE ~Finish(w)
      <3>1. Shrinks
        BY <1>16, <2>2 DEF VetMember, Shrinks, JobsOK, JobType
      <3>2. QED
        BY <1>16, <3>1, UuidsKept DEF VetMember
    <2>3. QED
      BY <2>1, <2>2
  <1>17. ASSUME NEW w \in Shell, InsertShard(w) PROVE UuidsFresh'
    <2>1. Shrinks
      <3>1. CASE Finish(w)
        BY <3>1, FinishShrinks
      <3>2. CASE ~Finish(w)
        BY <1>17, <3>2 DEF InsertShard, Shrinks, JobsOK, JobType
      <3>3. QED
        BY <3>1, <3>2
    <2>2. \A v \in Writer : \A s \in op'[v].todo : phase'[s] = phase[s]
      BY <1>17, <2>1 DEF InsertShard, Shrinks, UuidsFresh, TablesOK, GiveUp, JobsOK, JobType
    <2>3. QED
      BY <2>1, <2>2, UuidsKept
  <1>18. ASSUME NEW w \in Shell, NEW u \in User, PlaceMember(w, u) PROVE UuidsFresh'
    <2>1. CASE Finish(w)
      BY <1>18, <2>1, FinishShrinks, UuidsKept DEF PlaceMember
    <2>2. CASE ~Finish(w)
      <3>1. Shrinks
        BY <1>18, <2>2 DEF PlaceMember, Shrinks, JobsOK, JobType
      <3>2. QED
        BY <1>18, <3>1, UuidsKept DEF PlaceMember
    <2>3. QED
      BY <2>1, <2>2
  <1>19. ASSUME NEW w \in Shell, ProvisionDefault(w) PROVE UuidsFresh'
    BY <1>19 DEF ProvisionDefault, UuidsFresh, TablesOK, JobsOK, JobType
  <1>20. ASSUME WheelStart PROVE UuidsFresh'
    BY <1>20 DEF WheelStart, UuidsFresh
  <1>21. ASSUME NEW t \in Shard, WheelTake(t) PROVE UuidsFresh'
    <2>1. CASE roster[t] = {}
      <3>1. t \notin Drawn
        BY <1>21 DEF WheelTake, Drawn, UuidsFresh, TodoSeen
      <3>2. QED
        BY <1>21, <2>1, <3>1, UuidsDrawn DEF WheelTake
    <2>2. CASE roster[t] # {}
      <3>1. PICK plan \in Plans(roster[t]) :
                   Step(Wheel, Job("check", t, plan, Targets(plan), NoShard, {}))
        BY <1>21, <2>2 DEF WheelTake
      <3>2. Targets(plan) \in SUBSET Fresh
        BY PlanFits, RosterAssumption
      <3>3. t \notin Drawn /\ t \notin Fresh
        BY <1>21, <2>2 DEF WheelTake, Drawn, Fresh, UuidsFresh, TodoSeen, JobsOK, JobType
      <3>4. QED
        BY <1>21, <2>2, <3>1, <3>2, <3>3, UuidsDrawn DEF WheelTake, MayStart
    <2>3. QED
      BY <2>1, <2>2
  <1>22. ASSUME WheelFold PROVE UuidsFresh'
    <2>1. CASE Unassigned = {}
      BY <1>22, <2>1 DEF WheelFold, UuidsFresh
    <2>2. CASE Unassigned # {}
      <3>1. PICK plan \in Plans(Unassigned) :
                   Step(Wheel, Job("leftover", NoShard, plan, Targets(plan), NoShard, {}))
        BY <1>22, <2>2 DEF WheelFold
      <3>2. Targets(plan) \in SUBSET Fresh
        BY PlanFits, RosterAssumption
      <3>3. NoShard \notin Drawn /\ NoShard \notin Fresh
        BY <1>22, <2>2 DEF WheelFold, Drawn, Fresh, UuidsFresh, TodoSeen, JobsOK, JobType
      <3>4. QED
        BY <1>22, <2>2, <3>1, <3>2, <3>3, UuidsDrawn DEF WheelFold, MayStart
    <2>3. QED
      BY <2>1, <2>2
  <1>23. ASSUME WheelRecheck PROVE UuidsFresh'
    BY <1>23 DEF WheelRecheck, UuidsFresh
  <1>24. ASSUME NEW t \in Shard \cup {NoShard}, WheelFlag(t) PROVE UuidsFresh'
    BY <1>24 DEF WheelFlag, UuidsFresh
  <1>25. ASSUME WheelDone PROVE UuidsFresh'
    BY <1>25 DEF WheelDone, UuidsFresh
  <1>26. ASSUME NEW w \in Shell, ShellDies(w) PROVE UuidsFresh'
    BY <1>26, FinishShrinks, UuidsKept DEF ShellDies, GiveUp
  <1>27. ASSUME WheelStepFails PROVE UuidsFresh'
    BY <1>27, FinishShrinks, UuidsKept DEF WheelStepFails, GiveUp
  <1>28. ASSUME DaemonRestarts PROVE UuidsFresh'
    BY <1>28, FinishShrinks, UuidsKept DEF DaemonRestarts, GiveUp
  <1>29. ASSUME NEW t \in Shard, FallsOverdue(t) PROVE UuidsFresh'
    BY <1>29 DEF FallsOverdue, UuidsFresh
  <1>30. CASE UNCHANGED vars
    BY <1>30 DEF vars, UuidsFresh
  <1>31. QED
    BY <1>1, <1>2, <1>3, <1>4, <1>5, <1>6, <1>7, <1>8, <1>9, <1>10, <1>11, <1>12, <1>13, <1>14,
       <1>15, <1>16, <1>17, <1>18, <1>19, <1>20, <1>21, <1>22, <1>23, <1>24, <1>25, <1>26,
       <1>27, <1>28, <1>29, <1>30, Zenon DEF Next, ShellStep, RewriteStep, WheelStep, Writer

\* A new job, or none, leaves the other writers' jobs as they are.
LEMMA FitStep ==
    ASSUME JobsOK, JobsFit, NEW w \in Writer, NEW job, JobFits(job), Step(w, job)
    PROVE  JobsFit'
<1>1. op \in [Writer -> JobType] /\ op' = [op EXCEPT ![w] = job]
  BY DEF JobsOK, Step
<1> SUFFICES ASSUME NEW v \in Writer PROVE JobFits(op'[v])
  BY DEF JobsFit, JobFits, Chunk, Seated
<1>2. CASE v = w
  BY <1>1, <1>2
<1>3. CASE v # w
  BY <1>1, <1>3 DEF JobsFit
<1>4. QED
  BY <1>2, <1>3

\* A finished command holds nothing that could be too large.
LEMMA FinishFits ==
    ASSUME JobsOK, JobsFit, NEW w \in Writer, Finish(w)
    PROVE  JobsFit'
<1>1. Idle.pc = "idle"
  BY DEF Idle, Job
<1>2. JobFits(Idle)
  BY <1>1 DEF JobFits
<1>3. QED
  BY <1>2, FitStep DEF Finish

\* The next statement of a command works on what the command holds.
LEMMA AdvanceFits ==
    ASSUME JobsOK, JobsFit, NEW w \in Writer,
           \A v \in Writer \ {w} : op'[v] = op[v],
           op'[w].plan = op[w].plan,
           op'[w].pc \in {"check", "commit", "leftover"} =>
              /\ op[w].pc \in {"check", "commit", "leftover"}
              /\ op'[w].todo \subseteq op[w].todo,
           op'[w].pc # "assign",
           op'[w].pc \in {"vet", "insert"} => op[w].pc \in {"vet", "insert"},
           op'[w].pc \in {"exists", "make", "read"} =>
              op[w].pc \in {"exists", "make", "read"} /\ op'[w].who = op[w].who
    PROVE  JobsFit'
<1>1. ASSUME NEW v \in Writer PROVE JobFits(op'[v])
  <2>1. CASE v = w
    BY <2>1 DEF JobsFit, JobFits, Targets
  <2>2. CASE v # w
    BY <2>2 DEF JobsFit
  <2>3. QED
    BY <2>1, <2>2
<1>2. QED
  BY <1>1 DEF JobsFit, JobFits, Chunk, Seated, Targets

\* Steps that leave the jobs alone.
LEMMA JobsLeft == ASSUME JobsFit, op' = op PROVE JobsFit'
  BY DEF JobsFit, JobFits, Chunk, Seated, Targets

\* What the writers hold fits in every step.
LEMMA JobFitsStep ==
    ASSUME OverlapInductive, [Next]_vars
    PROVE  JobsFit'
<1> USE RosterAssumption DEF OverlapInductive, TypeOK, Writer, tables, wheelvars
  <1>1. ASSUME NEW w \in Writer, ReshuffleCheck(w) PROVE JobsFit'
    <2>1. CASE Finish(w)
      BY <2>1, FinishFits
    <2>2. CASE ~Finish(w)
      <3>1. op[w] \in JobType /\ op \in [Writer -> JobType]
        BY DEF JobsOK
      <3>2. /\ op[w].pc = "check" /\ op'[w].pc \in {"commit"}
           /\ op'[w].plan = op[w].plan /\ op'[w].todo \subseteq op[w].todo
           /\ \A v \in Writer \ {w} : op'[v] = op[v]
        BY <1>1, <2>2, <3>1 DEF ReshuffleCheck, GiveUp, JobType
      <3>3. QED
        BY <3>2, AdvanceFits
    <2>3. QED
      BY <2>1, <2>2
  <1>2. ASSUME NEW w \in Writer, MoveLeftover(w) PROVE JobsFit'
    <2>1. op[w] \in JobType /\ op \in [Writer -> JobType]
      BY DEF JobsOK
    <2>2. /\ op[w].pc = "leftover" /\ op'[w].pc \in {"leftover"}
         /\ op'[w].plan = op[w].plan /\ op'[w].todo \subseteq op[w].todo
         /\ \A v \in Writer \ {w} : op'[v] = op[v]
      BY <1>2, <2>1 DEF MoveLeftover, JobType
    <2>3. QED
      BY <2>2, AdvanceFits
  <1>3. ASSUME NEW w \in Writer, ReshuffleDone(w) PROVE JobsFit'
    BY <1>3, FinishFits DEF ReshuffleDone, GiveUp
  <1>4. ASSUME NEW w \in Writer, RetireEmpty(w) PROVE JobsFit'
    BY <1>4, FinishFits DEF RetireEmpty, GiveUp
  <1>5. ASSUME NEW w \in Writer, NEW t \in Shard, ReshuffleCommit(w, t) PROVE JobsFit'
    <2>1. op[w] \in JobType /\ op \in [Writer -> JobType]
      BY DEF JobsOK
    <2>2. /\ op[w].pc = "commit" /\ op'[w].pc \in {"leftover"}
         /\ op'[w].plan = op[w].plan /\ op'[w].todo \subseteq op[w].todo
         /\ \A v \in Writer \ {w} : op'[v] = op[v]
      BY <1>5, <2>1 DEF ReshuffleCommit, JobType
    <2>3. QED
      BY <2>2, AdvanceFits
  <1>6. ASSUME NEW w \in Writer, NEW t \in Shard, CreateLeftover(w, t) PROVE JobsFit'
    <2>1. op[w] \in JobType /\ op \in [Writer -> JobType]
      BY DEF JobsOK
    <2>2. /\ op[w].pc = "leftover" /\ op'[w].pc \in {"leftover"}
         /\ op'[w].plan = op[w].plan /\ op'[w].todo \subseteq op[w].todo
         /\ \A v \in Writer \ {w} : op'[v] = op[v]
      BY <1>6, <2>1 DEF CreateLeftover, JobType
    <2>3. QED
      BY <2>2, AdvanceFits
  <1>7. ASSUME NEW w \in Shell, NEW t \in Shard, ReshuffleRead(w, t) PROVE JobsFit'
    <2>1. PICK plan \in Plans(roster[t]) :
                 Step(w, Job("check", t, plan, Targets(plan), NoShard, {}))
      BY <1>7 DEF ReshuffleRead
    <2>2. JobFits(Job("check", t, plan, Targets(plan), NoShard, {}))
      BY PlanFits, SMT DEF JobFits, Job
    <2>3. QED
      BY <2>1, <2>2, FitStep
  <1>8. ASSUME NEW w \in Shell, NEW t \in Shard, EmptyShardRead(w, t) PROVE JobsFit'
    <2>1. JobFits(Job("retire", t, Unset, {}, NoShard, {}))
      BY SMT DEF JobFits, Job
    <2>2. QED
      BY <1>8, <2>1, FitStep DEF EmptyShardRead
  <1>9. ASSUME NEW w \in Shell, NEW u \in User, UserAdd(w, u) PROVE JobsFit'
    BY <1>9, JobsLeft DEF UserAdd
  <1>10. ASSUME NEW w \in Shell, NEW u \in User, NEW t \in Shard, Onboard(w, u, t)
                PROVE JobsFit'
    <2>1. JobFits(Job("exists", t, Unset, {}, NoShard, {u}))
      BY SMT DEF JobFits, Job
    <2>2. QED
      BY <1>10, <2>1, FitStep DEF Onboard
  <1>11. ASSUME NEW w \in Shell, OnboardEnsure(w) PROVE JobsFit'
    <2>1. op[w] \in JobType /\ op \in [Writer -> JobType]
      BY DEF JobsOK
    <2>2. /\ op[w].pc = "exists" /\ op'[w].pc \in {"make", "read"}
         /\ op'[w].plan = op[w].plan
         /\ op'[w].who = op[w].who
         /\ \A v \in Writer \ {w} : op'[v] = op[v]
      BY <1>11, <2>1 DEF OnboardEnsure, JobType
    <2>3. QED
      BY <2>2, AdvanceFits
  <1>12. ASSUME NEW w \in Shell, OnboardMake(w) PROVE JobsFit'
    <2>1. CASE Finish(w)
      BY <2>1, FinishFits
    <2>2. CASE ~Finish(w)
      <3>1. op[w] \in JobType /\ op \in [Writer -> JobType]
        BY DEF JobsOK
      <3>2. /\ op[w].pc = "make" /\ op'[w].pc \in {"read"}
           /\ op'[w].plan = op[w].plan
           /\ op'[w].who = op[w].who
           /\ \A v \in Writer \ {w} : op'[v] = op[v]
        BY <1>12, <2>2, <3>1 DEF OnboardMake, JobType
      <3>3. QED
        BY <3>2, AdvanceFits
    <2>3. QED
      BY <2>1, <2>2
  <1>13. ASSUME NEW w \in Shell, AssignRead(w) PROVE JobsFit'
    <2>1. CASE Finish(w)
      BY <2>1, FinishFits
    <2>2. CASE ~Finish(w)
      <3> DEFINE s == op[w].shard
                 plan == [v \in User |-> IF v \in roster[s] \cup op[w].who THEN s ELSE NoShard]
      <3>1. /\ op[w].pc = "read" /\ s \in Shard
            /\ op[w].who \cap roster[s] = {} /\ HasRoom(s)
            /\ op' = [op EXCEPT ![w].pc = "assign", ![w].plan = plan]
        BY <1>13, <2>2 DEF AssignRead, JobsOK, JobOK
      <3>2. PICK u \in User : op[w].who = {u}
        BY <3>1 DEF JobsFit, JobFits
      <3>3. Seated(plan) = roster[s] \cup {u}
        BY <3>1, <3>2 DEF Seated, TablesOK
      <3>4. IsFiniteSet(roster[s]) /\ u \notin roster[s]
        BY <3>1, <3>2, FS_Subset DEF TablesOK
      <3>5. Cardinality(roster[s]) \in Nat /\ Cardinality(roster[s] \cup {u}) = Cardinality(roster[s]) + 1
        BY <3>4, FS_CardinalityType, FS_AddElement
      <3>6. Cardinality(roster[s]) < MaxSize
        BY <3>1 DEF HasRoom
      <3> HIDE DEF plan, s
      <3>7. Cardinality(Seated(plan)) <= MaxSize
        BY <3>3, <3>5, <3>6, SMT
      <3>8. /\ op'[w].pc = "assign" /\ op'[w].plan = plan /\ op'[w].who = op[w].who
            /\ \A v \in Writer \ {w} : op'[v] = op[v]
        BY <3>1 DEF JobsOK, JobType
      <3>9. JobFits(op'[w])
        BY <3>1, <3>2, <3>7, <3>8 DEF JobFits
      <3>10. \A v \in Writer : JobFits(op'[v])
        BY <3>8, <3>9 DEF JobsFit
      <3>11. QED
        BY <3>10 DEF JobsFit, JobFits, Chunk, Seated, Targets
    <2>3. QED
      BY <2>1, <2>2
  <1>14. ASSUME NEW w \in Shell, AssignCommit(w) PROVE JobsFit'
    BY <1>14, FinishFits DEF AssignCommit, GiveUp
  <1>15. ASSUME NEW w \in Shell, NEW t \in Shard, NEW members \in SUBSET User, ShardCreate(w,
                t, members) PROVE JobsFit'
    <2> DEFINE plan == [v \in User |-> IF v \in members THEN t ELSE NoShard]
    <2>1. Seated(plan) = members
      BY DEF Seated, TablesOK
    <2>2. /\ Step(w, Job("vet", t, plan, {}, NoShard, members))
          /\ Cardinality(members) <= MaxListed /\ members # {}
      BY <1>15 DEF ShardCreate, Listed
    <2> HIDE DEF plan
    <2>3. JobFits(Job("vet", t, plan, {}, NoShard, members))
      BY <2>1, <2>2, SMT DEF JobFits, Job
    <2>4. QED
      BY <2>2, <2>3, FitStep
  <1>16. ASSUME NEW w \in Shell, NEW u \in User, VetMember(w, u) PROVE JobsFit'
    <2>1. CASE Finish(w)
      BY <2>1, FinishFits
    <2>2. CASE ~Finish(w)
      <3>1. op[w] \in JobType /\ op \in [Writer -> JobType]
        BY DEF JobsOK
      <3>2. /\ op[w].pc = "vet" /\ op'[w].pc \in {"vet", "insert"}
           /\ op'[w].plan = op[w].plan /\ op'[w].todo \subseteq op[w].todo
           /\ \A v \in Writer \ {w} : op'[v] = op[v]
        BY <1>16, <2>2, <3>1 DEF VetMember, JobType
      <3>3. QED
        BY <3>2, AdvanceFits
    <2>3. QED
      BY <2>1, <2>2
  <1>17. ASSUME NEW w \in Shell, InsertShard(w) PROVE JobsFit'
    <2>1. CASE Finish(w)
      BY <2>1, FinishFits
    <2>2. CASE ~Finish(w)
      <3>1. op[w] \in JobType /\ op \in [Writer -> JobType]
        BY DEF JobsOK
      <3>2. /\ op[w].pc = "insert" /\ op'[w].pc \in {"place"}
           /\ op'[w].plan = op[w].plan /\ op'[w].todo \subseteq op[w].todo
           /\ \A v \in Writer \ {w} : op'[v] = op[v]
        BY <1>17, <2>2, <3>1 DEF InsertShard, JobType
      <3>3. QED
        BY <3>2, AdvanceFits
    <2>3. QED
      BY <2>1, <2>2
  <1>18. ASSUME NEW w \in Shell, NEW u \in User, PlaceMember(w, u) PROVE JobsFit'
    <2>1. CASE Finish(w)
      BY <2>1, FinishFits
    <2>2. CASE ~Finish(w)
      <3>1. op[w] \in JobType /\ op \in [Writer -> JobType]
        BY DEF JobsOK
      <3>2. /\ op[w].pc = "place" /\ op'[w].pc \in {"place"}
           /\ op'[w].plan = op[w].plan /\ op'[w].todo \subseteq op[w].todo
           /\ \A v \in Writer \ {w} : op'[v] = op[v]
        BY <1>18, <2>2, <3>1 DEF PlaceMember, JobType
      <3>3. QED
        BY <3>2, AdvanceFits
    <2>3. QED
      BY <2>1, <2>2
  <1>19. ASSUME NEW w \in Shell, ProvisionDefault(w) PROVE JobsFit'
    BY <1>19, JobsLeft DEF ProvisionDefault
  <1>20. ASSUME WheelStart PROVE JobsFit'
    BY <1>20, JobsLeft DEF WheelStart
  <1>21. ASSUME NEW t \in Shard, WheelTake(t) PROVE JobsFit'
    <2>1. CASE roster[t] = {}
      <3>1. JobFits(Job("retire", t, Unset, {}, NoShard, {}))
        BY SMT DEF JobFits, Job
      <3>2. QED
        BY <1>21, <2>1, <3>1, FitStep DEF WheelTake
    <2>2. CASE roster[t] # {}
      <3>1. PICK plan \in Plans(roster[t]) :
                   Step(Wheel, Job("check", t, plan, Targets(plan), NoShard, {}))
        BY <1>21, <2>2 DEF WheelTake
      <3>2. JobFits(Job("check", t, plan, Targets(plan), NoShard, {}))
        BY PlanFits, SMT DEF JobFits, Job
      <3>3. QED
        BY <3>1, <3>2, FitStep
    <2>3. QED
      BY <2>1, <2>2
  <1>22. ASSUME WheelFold PROVE JobsFit'
    <2>1. CASE Unassigned = {}
      BY <1>22, <2>1, JobsLeft DEF WheelFold
    <2>2. CASE Unassigned # {}
      <3>1. PICK plan \in Plans(Unassigned) :
                   Step(Wheel, Job("leftover", NoShard, plan, Targets(plan), NoShard, {}))
        BY <1>22, <2>2 DEF WheelFold
      <3>2. JobFits(Job("leftover", NoShard, plan, Targets(plan), NoShard, {}))
        BY PlanFits, SMT DEF JobFits, Job
      <3>3. QED
        BY <3>1, <3>2, FitStep
    <2>3. QED
      BY <2>1, <2>2
  <1>23. ASSUME WheelRecheck PROVE JobsFit'
    BY <1>23, JobsLeft DEF WheelRecheck
  <1>24. ASSUME NEW t \in Shard \cup {NoShard}, WheelFlag(t) PROVE JobsFit'
    BY <1>24, JobsLeft DEF WheelFlag
  <1>25. ASSUME WheelDone PROVE JobsFit'
    BY <1>25, JobsLeft DEF WheelDone
  <1>26. ASSUME NEW w \in Shell, ShellDies(w) PROVE JobsFit'
    BY <1>26, FinishFits DEF ShellDies, GiveUp
  <1>27. ASSUME WheelStepFails PROVE JobsFit'
    BY <1>27, FinishFits DEF WheelStepFails, GiveUp
  <1>28. ASSUME DaemonRestarts PROVE JobsFit'
    BY <1>28, FinishFits DEF DaemonRestarts, GiveUp
  <1>29. ASSUME NEW t \in Shard, FallsOverdue(t) PROVE JobsFit'
    BY <1>29, JobsLeft DEF FallsOverdue
  <1>30. CASE UNCHANGED vars
    BY <1>30, JobsLeft DEF vars
  <1>31. QED
    BY <1>1, <1>2, <1>3, <1>4, <1>5, <1>6, <1>7, <1>8, <1>9, <1>10, <1>11, <1>12, <1>13, <1>14,
       <1>15, <1>16, <1>17, <1>18, <1>19, <1>20, <1>21, <1>22, <1>23, <1>24, <1>25, <1>26,
       <1>27, <1>28, <1>29, <1>30, Zenon DEF Next, ShellStep, RewriteStep, WheelStep, Writer

\* Every limit a roster is held to is at most Cap.
LEMMA CapBounds ==
    Cap \in Nat /\ MaxSize <= Cap /\ MaxListed <= Cap /\ TargetSize <= Cap
  BY RosterAssumption, SMT DEF Cap

\* So a set of users that keeps to any of them keeps to Cap.
LEMMA CapFits ==
    ASSUME NEW group \in SUBSET User,
           \E limit \in {TargetSize, MaxSize, MaxListed} : Cardinality(group) <= limit
    PROVE  Cardinality(group) <= Cap
<1>1. Cardinality(group) \in Nat
  BY RosterAssumption, FS_Subset, FS_CardinalityType
<1>2. QED
  BY <1>1, CapBounds, RosterAssumption, SMT

\* Writing one roster that keeps to the cap.
LEMMA CappedWrite ==
    ASSUME RosterCapped, roster \in [Shard -> SUBSET User], NEW s \in Shard,
           NEW group \in SUBSET User, Cardinality(group) <= Cap,
           roster' = [roster EXCEPT ![s] = group]
    PROVE  RosterCapped'
<1>1. ASSUME NEW t \in Shard PROVE Cardinality(roster'[t]) <= Cap
  BY DEF RosterCapped
<1>2. QED
  BY <1>1, SMT DEF RosterCapped, Cap

\* No step makes a roster larger than max_size or what an operator listed at once.
LEMMA CappedStep ==
    ASSUME OverlapInductive, [Next]_vars
    PROVE  RosterCapped'
<1> USE RosterAssumption DEF OverlapInductive, TypeOK, TablesOK, Writer, tables,
        wheelvars
  <1>1. ASSUME NEW w \in Writer, ReshuffleCheck(w) PROVE RosterCapped'
    BY <1>1 DEF RosterCapped, ReshuffleCheck
  <1>2. ASSUME NEW w \in Writer, MoveLeftover(w) PROVE RosterCapped'
    BY <1>2 DEF RosterCapped, MoveLeftover
  <1>3. ASSUME NEW w \in Writer, ReshuffleDone(w) PROVE RosterCapped'
    BY <1>3 DEF RosterCapped, ReshuffleDone
  <1>4. ASSUME NEW w \in Writer, RetireEmpty(w) PROVE RosterCapped'
    BY <1>4 DEF RosterCapped, RetireEmpty
  <1>5. ASSUME NEW w \in Writer, NEW t \in Shard, ReshuffleCommit(w, t) PROVE RosterCapped'
    <2>1. /\ Chunk(op[w].plan, t) \in SUBSET User
          /\ Cardinality(Chunk(op[w].plan, t)) <= TargetSize
      BY <1>5 DEF ReshuffleCommit, JobsFit, JobFits, Chunk
    <2>2. /\ RosterCapped /\ roster \in [Shard -> SUBSET User]
          /\ roster' = [roster EXCEPT ![t] = Chunk(op[w].plan, t)]
      BY <1>5 DEF ReshuffleCommit
    <2>3. Cardinality(Chunk(op[w].plan, t)) <= Cap
      BY <2>1, CapFits
    <2>4. QED
      BY <2>1, <2>2, <2>3, CappedWrite
  <1>6. ASSUME NEW w \in Writer, NEW t \in Shard, CreateLeftover(w, t) PROVE RosterCapped'
    <2>1. /\ Chunk(op[w].plan, t) \in SUBSET User
          /\ Cardinality(Chunk(op[w].plan, t)) <= TargetSize
      BY <1>6 DEF CreateLeftover, JobsFit, JobFits, Chunk
    <2>2. /\ RosterCapped /\ roster \in [Shard -> SUBSET User]
          /\ roster' = [roster EXCEPT ![t] = Chunk(op[w].plan, t)]
      BY <1>6 DEF CreateLeftover
    <2>3. Cardinality(Chunk(op[w].plan, t)) <= Cap
      BY <2>1, CapFits
    <2>4. QED
      BY <2>1, <2>2, <2>3, CappedWrite
  <1>7. ASSUME NEW w \in Shell, NEW t \in Shard, ReshuffleRead(w, t) PROVE RosterCapped'
    BY <1>7 DEF RosterCapped, ReshuffleRead
  <1>8. ASSUME NEW w \in Shell, NEW t \in Shard, EmptyShardRead(w, t) PROVE RosterCapped'
    BY <1>8 DEF RosterCapped, EmptyShardRead
  <1>9. ASSUME NEW w \in Shell, NEW u \in User, UserAdd(w, u) PROVE RosterCapped'
    BY <1>9 DEF RosterCapped, UserAdd
  <1>10. ASSUME NEW w \in Shell, NEW u \in User, NEW t \in Shard, Onboard(w, u, t)
                PROVE RosterCapped'
    BY <1>10 DEF RosterCapped, Onboard
  <1>11. ASSUME NEW w \in Shell, OnboardEnsure(w) PROVE RosterCapped'
    BY <1>11 DEF RosterCapped, OnboardEnsure
  <1>12. ASSUME NEW w \in Shell, OnboardMake(w) PROVE RosterCapped'
    BY <1>12 DEF RosterCapped, OnboardMake
  <1>13. ASSUME NEW w \in Shell, AssignRead(w) PROVE RosterCapped'
    BY <1>13 DEF RosterCapped, AssignRead
  <1>14. ASSUME NEW w \in Shell, AssignCommit(w) PROVE RosterCapped'
    <2>1. /\ Seated(op[w].plan) \in SUBSET User
          /\ Cardinality(Seated(op[w].plan)) <= MaxSize
      BY <1>14 DEF AssignCommit, JobsFit, JobFits, Seated
    <2>2. op[w].shard \in Shard
      BY <1>14 DEF AssignCommit, JobsOK, JobOK
    <2>3. RosterCapped /\ roster \in [Shard -> SUBSET User]
      OBVIOUS
    <2>4. CASE roster' = [roster EXCEPT ![op[w].shard] = Seated(op[w].plan)]
      <3>1. Cardinality(Seated(op[w].plan)) <= Cap
        BY <2>1, CapFits
      <3>2. QED
        BY <2>1, <2>2, <2>3, <2>4, <3>1, CappedWrite
    <2>5. CASE roster' = roster
      BY <2>3, <2>5 DEF RosterCapped
    <2>6. QED
      BY <1>14, <2>4, <2>5 DEF AssignCommit
  <1>15. ASSUME NEW w \in Shell, NEW t \in Shard, NEW members \in SUBSET User, ShardCreate(w,
                t, members) PROVE RosterCapped'
    BY <1>15 DEF RosterCapped, ShardCreate
  <1>16. ASSUME NEW w \in Shell, NEW u \in User, VetMember(w, u) PROVE RosterCapped'
    BY <1>16 DEF RosterCapped, VetMember
  <1>17. ASSUME NEW w \in Shell, InsertShard(w) PROVE RosterCapped'
    <2>1. /\ Seated(op[w].plan) \in SUBSET User
          /\ Cardinality(Seated(op[w].plan)) <= MaxListed
      BY <1>17 DEF InsertShard, JobsFit, JobFits, Seated
    <2>2. op[w].shard \in Shard
      BY <1>17 DEF InsertShard, JobsOK, JobOK
    <2>3. RosterCapped /\ roster \in [Shard -> SUBSET User]
      OBVIOUS
    <2>4. CASE roster' = [roster EXCEPT ![op[w].shard] = Seated(op[w].plan)]
      <3>1. Cardinality(Seated(op[w].plan)) <= Cap
        BY <2>1, CapFits
      <3>2. QED
        BY <2>1, <2>2, <2>3, <2>4, <3>1, CappedWrite
    <2>5. CASE roster' = roster
      BY <2>3, <2>5 DEF RosterCapped
    <2>6. QED
      BY <1>17, <2>4, <2>5 DEF InsertShard
  <1>18. ASSUME NEW w \in Shell, NEW u \in User, PlaceMember(w, u) PROVE RosterCapped'
    BY <1>18 DEF RosterCapped, PlaceMember
  <1>19. ASSUME NEW w \in Shell, ProvisionDefault(w) PROVE RosterCapped'
    BY <1>19 DEF RosterCapped, ProvisionDefault
  <1>20. ASSUME WheelStart PROVE RosterCapped'
    BY <1>20 DEF RosterCapped, WheelStart
  <1>21. ASSUME NEW t \in Shard, WheelTake(t) PROVE RosterCapped'
    BY <1>21 DEF RosterCapped, WheelTake
  <1>22. ASSUME WheelFold PROVE RosterCapped'
    BY <1>22 DEF RosterCapped, WheelFold
  <1>23. ASSUME WheelRecheck PROVE RosterCapped'
    BY <1>23 DEF RosterCapped, WheelRecheck
  <1>24. ASSUME NEW t \in Shard \cup {NoShard}, WheelFlag(t) PROVE RosterCapped'
    BY <1>24 DEF RosterCapped, WheelFlag
  <1>25. ASSUME WheelDone PROVE RosterCapped'
    BY <1>25 DEF RosterCapped, WheelDone
  <1>26. ASSUME NEW w \in Shell, ShellDies(w) PROVE RosterCapped'
    BY <1>26 DEF RosterCapped, ShellDies
  <1>27. ASSUME WheelStepFails PROVE RosterCapped'
    BY <1>27 DEF RosterCapped, WheelStepFails
  <1>28. ASSUME DaemonRestarts PROVE RosterCapped'
    BY <1>28 DEF RosterCapped, DaemonRestarts
  <1>29. ASSUME NEW t \in Shard, FallsOverdue(t) PROVE RosterCapped'
    BY <1>29 DEF RosterCapped, FallsOverdue
  <1>30. CASE UNCHANGED vars
    BY <1>30 DEF RosterCapped, vars
  <1>31. QED
    BY <1>1, <1>2, <1>3, <1>4, <1>5, <1>6, <1>7, <1>8, <1>9, <1>10, <1>11, <1>12, <1>13, <1>14,
       <1>15, <1>16, <1>17, <1>18, <1>19, <1>20, <1>21, <1>22, <1>23, <1>24, <1>25, <1>26,
       <1>27, <1>28, <1>29, <1>30, Zenon DEF Next, ShellStep, RewriteStep, WheelStep, Writer

\* The invariant that survives every interleaving, kill and restart.
THEOREM OverlapSafe == Spec => []OverlapInductive
<1>1. Init => OverlapInductive
  <2> SUFFICES ASSUME Init PROVE OverlapInductive
    OBVIOUS
  <2>1. \A w \in Writer : op[w].pc = "idle" /\ op[w].todo = {} /\ op[w] = Idle
    BY DEF Init, Idle, Job
  <2>2. JobsOK
    BY IdleTyped DEF Init, JobsOK
  <2>3. TablesOK
    BY RosterAssumption, SMT DEF Init, TablesOK, Unset
  <2>4. JobsFit /\ UuidsFresh /\ TodoSeen
    BY <2>1 DEF JobsFit, JobFits, UuidsFresh, TodoSeen, Init
  <2>5. RosterCapped
    BY CapBounds, FS_EmptySet, SMT DEF RosterCapped, Init
  <2>6. QED
    BY <2>2, <2>3, <2>4, <2>5 DEF OverlapInductive, TypeOK
<1>2. TypeOK /\ TypeOK' /\ OverlapInductive /\ [Next]_vars => OverlapInductive'
  <2> SUFFICES ASSUME TypeOK', OverlapInductive, [Next]_vars PROVE OverlapInductive'
    OBVIOUS
  <2>1. PhaseForward
    BY PhaseStep DEF OverlapInductive
  <2>2. UuidsFresh' /\ TodoSeen'
    BY <2>1, UuidStep, TodoStep DEF OverlapInductive
  <2>3. QED
    BY <2>2, JobFitsStep, CappedStep DEF OverlapInductive
<1>3. QED
  BY <1>1, <1>2, TypeCorrect, PTL DEF Spec

\* No roster outgrows max_size, whatever overlaps or dies.
THEOREM RosterCappedAlways == Spec => []RosterCapped
  BY OverlapSafe, PTL DEF OverlapInductive

\* A retired shard id never comes back (H-D6), whatever overlaps or dies.
THEOREM RetirementIsFinal == Spec => RetiredForGood
<1>1. OverlapInductive /\ [Next]_vars
      => [\A s \in Shard : phase[s] = "retired" => phase'[s] = "retired"]_vars
  BY PhaseStep DEF OverlapInductive, PhaseForward
<1>2. QED
  BY <1>1, OverlapSafe, PTL DEF Spec, RetiredForGood

-----------------------------------------------------------------------------
(* Writers that take turns: one roster per user, one record per roster *)

Alone(w) == \A v \in Writer \ {w} : op[v] = Idle
Settled(w) == \A u \in User : u \notin InFlight(op[w]) => Agree(u)

\* A writer that does nothing holds nothing.
LEMMA IdleHolds == InFlight(Idle) = {} /\ JobHolds(Idle)
<1>1. /\ Idle.pc = "idle" /\ Idle.todo = {} /\ Seated(Idle.plan) = {}
  BY DEF Idle, Job, Unset, Seated
<1>2. QED
  BY <1>1 DEF InFlight, JobHolds, RewriteHolds, OnboardHolds, CreateHolds

\* The same in the next state.
LEMMA IdleHoldsNext == InFlight(Idle)' = {} /\ JobHolds(Idle)'
<1>1. /\ Idle.pc = "idle" /\ Idle.todo = {} /\ Seated(Idle.plan) = {}
  BY DEF Idle, Job, Unset, Seated
<1>2. QED
  BY <1>1 DEF InFlight, JobHolds, RewriteHolds, OnboardHolds, CreateHolds, Seated, Idle, Job

\* The writer that moves is the only one that holds anything.
LEMMA Before ==
    ASSUME PartitionInductive, TypeOK, NEW w \in Writer,
           op[w] # Idle \/ \A v \in Writer : op[v] = Idle
    PROVE  Alone(w) /\ Settled(w) /\ JobHolds(op[w])
<1>1. Alone(w)
  BY DEF Alone, PartitionInductive, OneWriter
<1>2. Settled(w)
  BY <1>1, IdleHolds DEF Settled, Alone, PartitionInductive
<1>3. QED
  BY <1>1, <1>2 DEF PartitionInductive

\* What is true of the writer that moved, the others being idle, is the invariant.
LEMMA After ==
    ASSUME NEW w \in Writer, Alone(w)', OneWriter', NoCrossShardUser', RostersKnown',
           Settled(w)', JobHolds(op[w])'
    PROVE  PartitionInductive'
<1>1. ASSUME NEW v \in Writer PROVE JobHolds(op[v])'
  <2>1. CASE v = w
    BY <2>1
  <2>2. CASE v # w
    <3>1. op'[v] = Idle
      BY <2>2 DEF Alone
    <3>2. JobHolds(op[v])' = JobHolds(Idle)'
      BY <3>1 DEF JobHolds, RewriteHolds, OnboardHolds, CreateHolds, Seated, Chunk
    <3>3. QED
      BY <3>2, IdleHoldsNext
  <2>3. QED
    BY <2>1, <2>2
<1>2. ASSUME NEW u \in User, \A v \in Writer : u \notin InFlight(op[v])' PROVE Agree(u)'
  BY <1>2 DEF Settled
<1>3. QED
  BY <1>1, <1>2 DEF PartitionInductive

\* No command overlaps another, is killed, or onboards a user a second time.
TakeTurns ==
    Overlap = FALSE /\ MaxFaults = 0 /\ "again" \notin Commands /\ "strangers" \notin Commands

\* The fields of a new job.
LEMMA NewJob ==
    ASSUME JobsOK, NEW w \in Writer, NEW pc, NEW s, NEW plan, NEW todo, NEW who,
           Step(w, Job(pc, s, plan, todo, NoShard, who))
    PROVE  /\ op'[w].pc = pc /\ op'[w].shard = s /\ op'[w].plan = plan
           /\ op'[w].todo = todo /\ op'[w].moving = NoShard /\ op'[w].who = who
           /\ \A v \in Writer \ {w} : op'[v] = op[v]
<1>1. op \in [Writer -> JobType]
  BY DEF JobsOK
<1>2. op'[w] = Job(pc, s, plan, todo, NoShard, who) /\ \A v \in Writer \ {w} : op'[v] = op[v]
  BY <1>1 DEF Step
<1>3. QED
  BY <1>2 DEF Job

\* The job after the end of a command.
LEMMA Finished ==
    ASSUME JobsOK, NEW w \in Writer, Finish(w)
    PROVE  op'[w] = Idle /\ \A v \in Writer \ {w} : op'[v] = op[v]
  BY DEF Finish, Step, JobsOK

\* The fields of the idle job.
LEMMA IdleFields == /\ Idle.pc = "idle" /\ Idle.shard = NoShard /\ Idle.todo = {}
                    /\ Seated(Idle.plan) = {} /\ Idle.moving = NoShard /\ Idle.who = {}
  BY DEF Idle, Job, Unset, Seated

\* UserAdd keeps the invariant of writers that take turns.
LEMMA UserAddTurns ==
    ASSUME TakeTurns, TypeOK, PartitionInductive, NEW w \in Shell, NEW u \in User, UserAdd(w, u)
    PROVE  PartitionInductive'
<1> USE RosterAssumption DEF Writer
<1>1. /\ op \in [Writer -> JobType] /\ current \in [User -> Shard \cup {NoShard}]
      /\ phase \in [Shard -> {"unused", "active", "retired"}]
      /\ roster \in [Shard -> SUBSET User] /\ users \subseteq User /\ JobsOK
  BY DEF TypeOK, TablesOK, JobsOK
<1>2. \A v \in Writer : op[v] = Idle /\ wheelPc = "idle"
  BY IdleFields DEF UserAdd, MayStart, TakeTurns, PartitionInductive, OneWriter
<1>3. /\ Alone(w) /\ Settled(w) /\ JobHolds(op[w])
      /\ NoCrossShardUser /\ RostersKnown
  BY <1>2, Before DEF PartitionInductive
<1>4. op' = op
  BY <1>1, <1>2, NewJob, Finished DEF UserAdd, JobType
<1>5. Alone(w)'
  BY <1>3, <1>4 DEF Alone
<1>6. OneWriter'
  BY <1>1, <1>2, <1>3, <1>4, <1>5, IdleFields DEF UserAdd, Alone, OneWriter, PartitionInductive,
     Active, RewriteHolds, JobHolds, tables, wheelvars
<1>7. NoCrossShardUser' /\ RostersKnown'
  BY <1>1, <1>2, <1>3, <1>4 DEF UserAdd, Active, NoCrossShardUser, RostersKnown, tables
<1>8. Settled(w)'
  BY <1>1, <1>2, <1>3, <1>4, IdleHoldsNext DEF UserAdd, Agree, Active, OnNoRoster, JobHolds,
     RewriteHolds, OnboardHolds, CreateHolds, Seated, Chunk, InFlight, Settled,
     NoCrossShardUser, RostersKnown, tables
<1>9. JobHolds(op[w])'
  BY <1>1, <1>2, <1>3, <1>4, IdleHoldsNext DEF UserAdd, Agree, Active, OnNoRoster, JobHolds,
     RewriteHolds, OnboardHolds, CreateHolds, Seated, Chunk, InFlight, Settled,
     NoCrossShardUser, RostersKnown, tables
<1>10. QED
  BY <1>5, <1>6, <1>7, <1>8, <1>9, After

\* Onboard keeps the invariant of writers that take turns.
LEMMA OnboardTurns ==
    ASSUME TakeTurns, TypeOK, PartitionInductive, NEW w \in Shell, NEW u \in User,
           NEW t \in Shard, Onboard(w, u, t)
    PROVE  PartitionInductive'
<1> USE RosterAssumption DEF Writer
<1>1. /\ op \in [Writer -> JobType] /\ current \in [User -> Shard \cup {NoShard}]
      /\ phase \in [Shard -> {"unused", "active", "retired"}]
      /\ roster \in [Shard -> SUBSET User] /\ users \subseteq User /\ JobsOK
  BY DEF TypeOK, TablesOK, JobsOK
<1>2. \A v \in Writer : op[v] = Idle /\ wheelPc = "idle"
  BY IdleFields DEF Onboard, MayStart, TakeTurns, PartitionInductive, OneWriter
<1>3. /\ Alone(w) /\ Settled(w) /\ JobHolds(op[w])
      /\ NoCrossShardUser /\ RostersKnown
  BY <1>2, Before DEF PartitionInductive
<1>4. /\ op'[w].pc = "exists" /\ op'[w].shard = t /\ op'[w].plan = Unset /\ op'[w].todo = {} /\ op'[w].who = {u}
      /\ \A v \in Writer \ {w} : op'[v] = op[v]
  BY <1>1, <1>2, NewJob, Finished DEF Onboard, JobType
<1>5. Alone(w)'
  BY <1>3, <1>4 DEF Alone
<1>6. OneWriter'
  BY <1>1, <1>2, <1>3, <1>4, <1>5, IdleFields DEF Onboard, Unset, TakeTurns, Alone, OneWriter,
     PartitionInductive, Active, RewriteHolds, JobHolds, tables, wheelvars
<1>7. NoCrossShardUser' /\ RostersKnown'
  BY <1>1, <1>2, <1>3, <1>4 DEF Onboard, Unset, TakeTurns, Active, NoCrossShardUser,
     RostersKnown, tables
<1>8. Settled(w)'
  BY <1>1, <1>2, <1>3, <1>4, IdleHoldsNext DEF Onboard, Unset, TakeTurns, Agree, Active,
     OnNoRoster, JobHolds, RewriteHolds, OnboardHolds, CreateHolds, Seated, Chunk, InFlight,
     Settled, NoCrossShardUser, RostersKnown, tables
<1>9. JobHolds(op[w])'
  BY <1>1, <1>2, <1>3, <1>4, IdleHoldsNext DEF Onboard, Unset, TakeTurns, Agree, Active,
     OnNoRoster, JobHolds, RewriteHolds, OnboardHolds, CreateHolds, Seated, Chunk, InFlight,
     Settled, NoCrossShardUser, RostersKnown, tables
<1>10. QED
  BY <1>5, <1>6, <1>7, <1>8, <1>9, After

\* OnboardEnsure keeps the invariant of writers that take turns.
LEMMA OnboardEnsureTurns ==
    ASSUME TakeTurns, TypeOK, PartitionInductive, NEW w \in Shell, OnboardEnsure(w)
    PROVE  PartitionInductive'
<1> USE RosterAssumption DEF Writer
<1>1. /\ op \in [Writer -> JobType] /\ current \in [User -> Shard \cup {NoShard}]
      /\ phase \in [Shard -> {"unused", "active", "retired"}]
      /\ roster \in [Shard -> SUBSET User] /\ users \subseteq User /\ JobsOK
  BY DEF TypeOK, TablesOK, JobsOK
<1>2. op[w] # Idle
  BY IdleFields DEF OnboardEnsure
<1>3. /\ Alone(w) /\ Settled(w) /\ JobHolds(op[w])
      /\ NoCrossShardUser /\ RostersKnown
  BY <1>2, Before DEF PartitionInductive
<1>4. /\ op[w].pc = "exists" /\ op'[w].pc \in {"make", "read"} /\ op'[w].shard = op[w].shard
      /\ op'[w].plan = op[w].plan /\ op'[w].todo = op[w].todo /\ op'[w].who = op[w].who
      /\ \A v \in Writer \ {w} : op'[v] = op[v]
  BY <1>1, <1>2, NewJob, Finished DEF OnboardEnsure, JobType
<1>5. Alone(w)'
  BY <1>3, <1>4 DEF Alone
<1>6. OneWriter'
  BY <1>1, <1>2, <1>3, <1>4, <1>5, IdleFields DEF OnboardEnsure, Alone, OneWriter,
     PartitionInductive, Active, RewriteHolds, JobHolds, tables, wheelvars
<1>7. NoCrossShardUser' /\ RostersKnown'
  BY <1>1, <1>2, <1>3, <1>4 DEF OnboardEnsure, Active, NoCrossShardUser, RostersKnown, tables
<1>8. Settled(w)'
  BY <1>1, <1>2, <1>3, <1>4, IdleHoldsNext DEF OnboardEnsure, Agree, Active, OnNoRoster,
     JobHolds, RewriteHolds, OnboardHolds, CreateHolds, Seated, Chunk, InFlight, Settled,
     NoCrossShardUser, RostersKnown, tables
<1>9. JobHolds(op[w])'
  BY <1>1, <1>2, <1>3, <1>4, IdleHoldsNext DEF OnboardEnsure, Agree, Active, OnNoRoster,
     JobHolds, RewriteHolds, OnboardHolds, CreateHolds, Seated, Chunk, InFlight, Settled,
     NoCrossShardUser, RostersKnown, tables
<1>10. QED
  BY <1>5, <1>6, <1>7, <1>8, <1>9, After

\* OnboardMake keeps the invariant of writers that take turns.
LEMMA OnboardMakeTurns ==
    ASSUME TakeTurns, TypeOK, PartitionInductive, NEW w \in Shell, OnboardMake(w)
    PROVE  PartitionInductive'
<1> USE RosterAssumption DEF Writer
<1>1. /\ op \in [Writer -> JobType] /\ current \in [User -> Shard \cup {NoShard}]
      /\ phase \in [Shard -> {"unused", "active", "retired"}]
      /\ roster \in [Shard -> SUBSET User] /\ users \subseteq User /\ JobsOK
  BY DEF TypeOK, TablesOK, JobsOK
<1>2. op[w] # Idle
  BY IdleFields DEF OnboardMake
<1>3. /\ Alone(w) /\ Settled(w) /\ JobHolds(op[w])
      /\ NoCrossShardUser /\ RostersKnown
  BY <1>2, Before DEF PartitionInductive
<1>4. /\ op[w].pc = "make"
      /\ \/ op'[w] = Idle /\ phase' = phase
         \/ /\ op'[w].pc = "read" /\ op'[w].shard = op[w].shard /\ op'[w].plan = op[w].plan
            /\ op'[w].todo = op[w].todo /\ op'[w].who = op[w].who
      /\ \A v \in Writer \ {w} : op'[v] = op[v]
  BY <1>1, <1>2, NewJob, Finished DEF OnboardMake, JobType
<1>5. op[w].shard \in Shard
  BY <1>4, <1>1 DEF JobsOK, JobOK
<1>6. Alone(w)'
  BY <1>3, <1>4 DEF Alone
<1>7. OneWriter'
  BY <1>1, <1>2, <1>3, <1>4, <1>5, <1>6, IdleFields DEF OnboardMake, Alone, OneWriter,
     PartitionInductive, Active, RewriteHolds, JobHolds, tables, wheelvars
<1>8. NoCrossShardUser' /\ RostersKnown'
  BY <1>1, <1>2, <1>3, <1>4, <1>5 DEF OnboardMake, Active, NoCrossShardUser, RostersKnown,
     tables
<1>9. Settled(w)'
  BY <1>1, <1>2, <1>3, <1>4, <1>5, IdleHoldsNext DEF OnboardMake, Agree, Active, OnNoRoster,
     JobHolds, RewriteHolds, OnboardHolds, CreateHolds, Seated, Chunk, InFlight, Settled,
     NoCrossShardUser, RostersKnown, tables
<1>10. JobHolds(op[w])'
  BY <1>1, <1>2, <1>3, <1>4, <1>5, IdleHoldsNext DEF OnboardMake, Agree, Active, OnNoRoster,
     JobHolds, RewriteHolds, OnboardHolds, CreateHolds, Seated, Chunk, InFlight, Settled,
     NoCrossShardUser, RostersKnown, tables
<1>11. QED
  BY <1>6, <1>7, <1>8, <1>9, <1>10, After

\* AssignRead keeps the invariant of writers that take turns.
LEMMA AssignReadTurns ==
    ASSUME TakeTurns, TypeOK, PartitionInductive, NEW w \in Shell, AssignRead(w)
    PROVE  PartitionInductive'
<1> USE RosterAssumption DEF Writer
<1>1. /\ op \in [Writer -> JobType] /\ current \in [User -> Shard \cup {NoShard}]
      /\ phase \in [Shard -> {"unused", "active", "retired"}]
      /\ roster \in [Shard -> SUBSET User] /\ users \subseteq User /\ JobsOK
  BY DEF TypeOK, TablesOK, JobsOK
<1>2. op[w] # Idle
  BY IdleFields DEF AssignRead
<1>3. /\ Alone(w) /\ Settled(w) /\ JobHolds(op[w])
      /\ NoCrossShardUser /\ RostersKnown
  BY <1>2, Before DEF PartitionInductive
<1>4. /\ op[w].pc = "read"
      /\ \/ op'[w] = Idle
         \/ /\ op'[w].pc = "assign" /\ op'[w].shard = op[w].shard /\ op[w].shard \in Active
            /\ op'[w].plan = [u \in User |-> IF u \in roster[op[w].shard] \cup op[w].who
                                          THEN op[w].shard ELSE NoShard]
            /\ op'[w].todo = op[w].todo /\ op'[w].who = op[w].who
      /\ \A v \in Writer \ {w} : op'[v] = op[v]
  BY <1>1, <1>2, NewJob, Finished DEF AssignRead, JobType, Active, JobsOK, JobOK
<1>5. op[w].shard \in Shard /\ op[w].who \in SUBSET User
  BY <1>4, <1>1 DEF JobsOK, JobOK, JobType
<1>6. Alone(w)'
  BY <1>3, <1>4 DEF Alone
<1>7. OneWriter'
  BY <1>1, <1>2, <1>3, <1>4, <1>5, <1>6, IdleFields DEF AssignRead, Alone, OneWriter,
     PartitionInductive, Active, RewriteHolds, JobHolds, tables, wheelvars
<1>8. NoCrossShardUser' /\ RostersKnown'
  BY <1>1, <1>2, <1>3, <1>4, <1>5 DEF AssignRead, Active, NoCrossShardUser, RostersKnown, tables
<1>9. Settled(w)'
  BY <1>1, <1>2, <1>3, <1>4, <1>5, IdleHoldsNext DEF AssignRead, Agree, Active, OnNoRoster,
     JobHolds, RewriteHolds, OnboardHolds, CreateHolds, Seated, Chunk, InFlight, Settled,
     NoCrossShardUser, RostersKnown, tables
<1>10. JobHolds(op[w])'
  BY <1>1, <1>2, <1>3, <1>4, <1>5, IdleHoldsNext DEF AssignRead, Agree, Active, OnNoRoster,
     JobHolds, RewriteHolds, OnboardHolds, CreateHolds, Seated, Chunk, InFlight, Settled,
     NoCrossShardUser, RostersKnown, tables
<1>11. QED
  BY <1>6, <1>7, <1>8, <1>9, <1>10, After

\* AssignCommit keeps the invariant of writers that take turns.
LEMMA AssignCommitTurns ==
    ASSUME TakeTurns, TypeOK, PartitionInductive, NEW w \in Shell, AssignCommit(w)
    PROVE  PartitionInductive'
<1> USE RosterAssumption DEF Writer
<1>1. /\ op \in [Writer -> JobType] /\ current \in [User -> Shard \cup {NoShard}]
      /\ phase \in [Shard -> {"unused", "active", "retired"}]
      /\ roster \in [Shard -> SUBSET User] /\ users \subseteq User /\ JobsOK
  BY DEF TypeOK, TablesOK, JobsOK
<1>2. op[w] # Idle
  BY IdleFields DEF AssignCommit
<1>3. /\ Alone(w) /\ Settled(w) /\ JobHolds(op[w])
      /\ NoCrossShardUser /\ RostersKnown
  BY <1>2, Before DEF PartitionInductive
<1>4. /\ op[w].pc = "assign" /\ op'[w] = Idle
      /\ \A v \in Writer \ {w} : op'[v] = op[v]
  BY <1>1, <1>2, NewJob, Finished DEF AssignCommit, JobType
<1>5. op[w].shard \in Active /\ op[w].who \in SUBSET User
  BY <1>4, <1>1, <1>3 DEF JobHolds, OnboardHolds, JobType
<1>6. Alone(w)'
  BY <1>3, <1>4 DEF Alone
<1>7. OneWriter'
  BY <1>1, <1>2, <1>3, <1>4, <1>5, <1>6, IdleFields DEF AssignCommit, Point, Alone, OneWriter,
     PartitionInductive, Active, RewriteHolds, JobHolds, tables, wheelvars
<1>8. NoCrossShardUser' /\ RostersKnown'
  BY <1>1, <1>2, <1>3, <1>4, <1>5 DEF AssignCommit, Point, Active, Agree, Active, OnNoRoster,
     JobHolds, RewriteHolds, OnboardHolds, CreateHolds, Seated, Chunk, InFlight, Settled,
     NoCrossShardUser, RostersKnown, tables
<1>9. Settled(w)'
  BY <1>1, <1>2, <1>3, <1>4, <1>5, IdleHoldsNext DEF AssignCommit, Point, Agree, Active,
     OnNoRoster, JobHolds, RewriteHolds, OnboardHolds, CreateHolds, Seated, Chunk, InFlight,
     Settled, NoCrossShardUser, RostersKnown, tables
<1>10. JobHolds(op[w])'
  BY <1>1, <1>2, <1>3, <1>4, <1>5, IdleHoldsNext DEF AssignCommit, Point, Agree, Active,
     OnNoRoster, JobHolds, RewriteHolds, OnboardHolds, CreateHolds, Seated, Chunk, InFlight,
     Settled, NoCrossShardUser, RostersKnown, tables
<1>11. QED
  BY <1>6, <1>7, <1>8, <1>9, <1>10, After

\* ShardCreate keeps the invariant of writers that take turns.
LEMMA ShardCreateTurns ==
    ASSUME TakeTurns, TypeOK, PartitionInductive, NEW w \in Shell, NEW t \in Shard,
           NEW members \in SUBSET User, ShardCreate(w, t, members)
    PROVE  PartitionInductive'
<1> USE RosterAssumption DEF Writer
<1>1. /\ op \in [Writer -> JobType] /\ current \in [User -> Shard \cup {NoShard}]
      /\ phase \in [Shard -> {"unused", "active", "retired"}]
      /\ roster \in [Shard -> SUBSET User] /\ users \subseteq User /\ JobsOK
  BY DEF TypeOK, TablesOK, JobsOK
<1>2. \A v \in Writer : op[v] = Idle /\ wheelPc = "idle"
  BY IdleFields DEF ShardCreate, MayStart, TakeTurns, PartitionInductive, OneWriter
<1>3. /\ Alone(w) /\ Settled(w) /\ JobHolds(op[w])
      /\ NoCrossShardUser /\ RostersKnown
  BY <1>2, Before DEF PartitionInductive
<1>4. /\ op'[w].pc = "vet" /\ op'[w].shard = t /\ op'[w].todo = {} /\ op'[w].who = members
      /\ op'[w].plan = [u \in User |-> IF u \in members THEN t ELSE NoShard]
      /\ \A v \in Writer \ {w} : op'[v] = op[v]
  BY <1>1, <1>2, NewJob, Finished DEF ShardCreate, JobType
<1>5. Alone(w)' /\ members \subseteq users
  BY <1>3, <1>4 DEF Alone, ShardCreate, Listed, TakeTurns
<1>6. OneWriter'
  BY <1>1, <1>2, <1>3, <1>4, <1>5, IdleFields DEF ShardCreate, Alone, OneWriter,
     PartitionInductive, Active, RewriteHolds, JobHolds, tables, wheelvars
<1>7. NoCrossShardUser' /\ RostersKnown'
  BY <1>1, <1>2, <1>3, <1>4 DEF ShardCreate, Active, NoCrossShardUser, RostersKnown, tables
<1>8. Settled(w)'
  BY <1>1, <1>2, <1>3, <1>4, <1>5, IdleHoldsNext DEF ShardCreate, Agree, Active, OnNoRoster, JobHolds,
     RewriteHolds, OnboardHolds, CreateHolds, Seated, Chunk, InFlight, Settled,
     NoCrossShardUser, RostersKnown, tables
<1>9. JobHolds(op[w])'
  BY <1>1, <1>2, <1>3, <1>4, <1>5, IdleHoldsNext DEF ShardCreate, Agree, Active, OnNoRoster, JobHolds,
     RewriteHolds, OnboardHolds, CreateHolds, Seated, Chunk, InFlight, Settled,
     NoCrossShardUser, RostersKnown, tables
<1>10. QED
  BY <1>5, <1>6, <1>7, <1>8, <1>9, After

\* VetMember keeps the invariant of writers that take turns.
LEMMA VetMemberTurns ==
    ASSUME TakeTurns, TypeOK, PartitionInductive, NEW w \in Shell, NEW u \in User, VetMember(w,
           u)
    PROVE  PartitionInductive'
<1> USE RosterAssumption DEF Writer
<1>1. /\ op \in [Writer -> JobType] /\ current \in [User -> Shard \cup {NoShard}]
      /\ phase \in [Shard -> {"unused", "active", "retired"}]
      /\ roster \in [Shard -> SUBSET User] /\ users \subseteq User /\ JobsOK
  BY DEF TypeOK, TablesOK, JobsOK
<1>2. op[w] # Idle
  BY IdleFields DEF VetMember
<1>3. /\ Alone(w) /\ Settled(w) /\ JobHolds(op[w])
      /\ NoCrossShardUser /\ RostersKnown
  BY <1>2, Before DEF PartitionInductive
<1>4. /\ op[w].pc = "vet" /\ u \in op[w].who
      /\ \/ op'[w] = Idle
         \/ /\ current[u] \notin Active /\ op'[w].shard = op[w].shard /\ op'[w].plan = op[w].plan
            /\ op'[w].todo = op[w].todo /\ op'[w].who = op[w].who \ {u}
            /\ op'[w].pc = IF op[w].who = {u} THEN "insert" ELSE "vet"
      /\ \A v \in Writer \ {w} : op'[v] = op[v]
  BY <1>1, <1>2, NewJob, Finished DEF VetMember, JobType, FreeOfShard
<1>5. Alone(w)'
  BY <1>3, <1>4 DEF Alone
<1>6. OneWriter'
  BY <1>1, <1>2, <1>3, <1>4, <1>5, IdleFields DEF VetMember, Alone, OneWriter,
     PartitionInductive, Active, RewriteHolds, JobHolds, tables, wheelvars
<1>7. NoCrossShardUser' /\ RostersKnown'
  BY <1>1, <1>2, <1>3, <1>4 DEF VetMember, Active, NoCrossShardUser, RostersKnown, tables
<1>8. Settled(w)'
  BY <1>1, <1>2, <1>3, <1>4, IdleHoldsNext DEF VetMember, Agree, Active, OnNoRoster, JobHolds,
     RewriteHolds, OnboardHolds, CreateHolds, Seated, Chunk, InFlight, Settled,
     NoCrossShardUser, RostersKnown, tables
<1>9. JobHolds(op[w])'
  BY <1>1, <1>2, <1>3, <1>4, IdleHoldsNext DEF VetMember, Agree, Active, OnNoRoster, JobHolds,
     RewriteHolds, OnboardHolds, CreateHolds, Seated, Chunk, InFlight, Settled,
     NoCrossShardUser, RostersKnown, tables
<1>10. QED
  BY <1>5, <1>6, <1>7, <1>8, <1>9, After

\* InsertShard keeps the invariant of writers that take turns.
LEMMA InsertShardTurns ==
    ASSUME TakeTurns, TypeOK, PartitionInductive, NEW w \in Shell, InsertShard(w)
    PROVE  PartitionInductive'
<1> USE RosterAssumption DEF Writer
<1>1. /\ op \in [Writer -> JobType] /\ current \in [User -> Shard \cup {NoShard}]
      /\ phase \in [Shard -> {"unused", "active", "retired"}]
      /\ roster \in [Shard -> SUBSET User] /\ users \subseteq User /\ JobsOK
  BY DEF TypeOK, TablesOK, JobsOK
<1>2. op[w] # Idle
  BY IdleFields DEF InsertShard
<1>3. /\ Alone(w) /\ Settled(w) /\ JobHolds(op[w])
      /\ NoCrossShardUser /\ RostersKnown
  BY <1>2, Before DEF PartitionInductive
<1>4. /\ op[w].pc = "insert"
      /\ \/ op'[w] = Idle /\ phase' = phase /\ roster' = roster
         \/ /\ op'[w].pc = "place" /\ op'[w].shard = op[w].shard /\ op'[w].plan = op[w].plan
            /\ op'[w].todo = op[w].todo /\ op'[w].who = Seated(op[w].plan)
            /\ phase[op[w].shard] = "unused"
      /\ \A v \in Writer \ {w} : op'[v] = op[v]
  BY <1>1, <1>2, NewJob, Finished DEF InsertShard, JobType, IdFree
<1>5. op[w].shard \in Shard /\ Seated(op[w].plan) \in SUBSET User
  BY <1>4, <1>1 DEF JobsOK, JobOK, Seated
<1>6. Alone(w)'
  BY <1>3, <1>4 DEF Alone
<1>7. OneWriter'
  BY <1>1, <1>2, <1>3, <1>4, <1>5, <1>6, IdleFields DEF InsertShard, IdFree, Alone, OneWriter,
     PartitionInductive, Active, RewriteHolds, JobHolds, tables, wheelvars
<1>8. NoCrossShardUser' /\ RostersKnown'
  BY <1>1, <1>2, <1>3, <1>4, <1>5 DEF InsertShard, IdFree, Active, Agree, Active, OnNoRoster,
     JobHolds, RewriteHolds, OnboardHolds, CreateHolds, Seated, Chunk, InFlight, Settled,
     NoCrossShardUser, RostersKnown, tables
<1>9. Settled(w)'
  BY <1>1, <1>2, <1>3, <1>4, <1>5, IdleHoldsNext DEF InsertShard, IdFree, Agree, Active,
     OnNoRoster, JobHolds, RewriteHolds, OnboardHolds, CreateHolds, Seated, Chunk, InFlight,
     Settled, NoCrossShardUser, RostersKnown, tables
<1>10. JobHolds(op[w])'
  BY <1>1, <1>2, <1>3, <1>4, <1>5, IdleHoldsNext DEF InsertShard, IdFree, Agree, Active,
     OnNoRoster, JobHolds, RewriteHolds, OnboardHolds, CreateHolds, Seated, Chunk, InFlight,
     Settled, NoCrossShardUser, RostersKnown, tables
<1>11. QED
  BY <1>6, <1>7, <1>8, <1>9, <1>10, After

\* PlaceMember keeps the invariant of writers that take turns.
LEMMA PlaceMemberTurns ==
    ASSUME TakeTurns, TypeOK, PartitionInductive, NEW w \in Shell, NEW u \in User,
           PlaceMember(w, u)
    PROVE  PartitionInductive'
<1> USE RosterAssumption DEF Writer
<1>1. /\ op \in [Writer -> JobType] /\ current \in [User -> Shard \cup {NoShard}]
      /\ phase \in [Shard -> {"unused", "active", "retired"}]
      /\ roster \in [Shard -> SUBSET User] /\ users \subseteq User /\ JobsOK
  BY DEF TypeOK, TablesOK, JobsOK
<1>2. op[w] # Idle
  BY IdleFields DEF PlaceMember
<1>3. /\ Alone(w) /\ Settled(w) /\ JobHolds(op[w])
      /\ NoCrossShardUser /\ RostersKnown
  BY <1>2, Before DEF PartitionInductive
<1>4. /\ op[w].pc = "place" /\ u \in op[w].who
      /\ \/ op'[w] = Idle /\ op[w].who = {u}
         \/ /\ op'[w].pc = "place" /\ op'[w].shard = op[w].shard /\ op'[w].plan = op[w].plan
            /\ op'[w].todo = op[w].todo /\ op'[w].who = op[w].who \ {u}
      /\ \A v \in Writer \ {w} : op'[v] = op[v]
  BY <1>1, <1>2, NewJob, Finished DEF PlaceMember, JobType
<1>5. op[w].shard \in Active /\ u \in users /\ u \in roster[op[w].shard]
  BY <1>4, <1>1, <1>3 DEF JobHolds, CreateHolds
<1>6. Alone(w)'
  BY <1>3, <1>4 DEF Alone
<1>7. OneWriter'
  BY <1>1, <1>2, <1>3, <1>4, <1>5, <1>6, IdleFields DEF PlaceMember, Point, Alone, OneWriter,
     PartitionInductive, Active, RewriteHolds, JobHolds, tables, wheelvars
<1>8. NoCrossShardUser' /\ RostersKnown'
  BY <1>1, <1>2, <1>3, <1>4, <1>5 DEF PlaceMember, Point, Active, NoCrossShardUser,
     RostersKnown, tables
<1>9. Settled(w)'
  BY <1>1, <1>2, <1>3, <1>4, <1>5, IdleHoldsNext DEF PlaceMember, Point, Agree, Active,
     OnNoRoster, JobHolds, RewriteHolds, OnboardHolds, CreateHolds, Seated, Chunk, InFlight,
     Settled, NoCrossShardUser, RostersKnown, tables
<1>10. JobHolds(op[w])'
  <2>1. CASE op'[w] = Idle
    BY <2>1, IdleHoldsNext DEF JobHolds, RewriteHolds, OnboardHolds, CreateHolds, Seated
  <2>2. CASE op'[w] # Idle
    <3>1. /\ Seated(op[w].plan) \subseteq users /\ op[w].todo = {}
          /\ roster[op[w].shard] = Seated(op[w].plan) /\ op[w].who \subseteq Seated(op[w].plan)
      BY <1>3, <1>4 DEF JobHolds, RewriteHolds, CreateHolds
    <3>2. users' = users /\ roster' = roster /\ Active' = Active
      BY DEF PlaceMember, Active
    <3>3. QED
      BY <1>4, <1>5, <2>2, <3>1, <3>2
         DEF JobHolds, RewriteHolds, OnboardHolds, CreateHolds, Seated
  <2>3. QED
    BY <2>1, <2>2
<1>11. QED
  BY <1>6, <1>7, <1>8, <1>9, <1>10, After

\* ProvisionDefault keeps the invariant of writers that take turns.
LEMMA ProvisionDefaultTurns ==
    ASSUME TakeTurns, TypeOK, PartitionInductive, NEW w \in Shell, ProvisionDefault(w)
    PROVE  PartitionInductive'
<1> USE RosterAssumption DEF Writer
<1>1. /\ op \in [Writer -> JobType] /\ current \in [User -> Shard \cup {NoShard}]
      /\ phase \in [Shard -> {"unused", "active", "retired"}]
      /\ roster \in [Shard -> SUBSET User] /\ users \subseteq User /\ JobsOK
  BY DEF TypeOK, TablesOK, JobsOK
<1>2. \A v \in Writer : op[v] = Idle /\ wheelPc = "idle"
  BY IdleFields DEF ProvisionDefault, MayStart, TakeTurns, PartitionInductive, OneWriter
<1>3. /\ Alone(w) /\ Settled(w) /\ JobHolds(op[w])
      /\ NoCrossShardUser /\ RostersKnown
  BY <1>2, Before DEF PartitionInductive
<1>4. op' = op
  BY <1>1, <1>2, NewJob, Finished DEF ProvisionDefault, JobType
<1>5. Alone(w)'
  BY <1>3, <1>4 DEF Alone
<1>6. OneWriter'
  BY <1>1, <1>2, <1>3, <1>4, <1>5, IdleFields DEF ProvisionDefault, Alone, OneWriter,
     PartitionInductive, Active, RewriteHolds, JobHolds, tables, wheelvars
<1>7. NoCrossShardUser' /\ RostersKnown'
  BY <1>1, <1>2, <1>3, <1>4 DEF ProvisionDefault, Active, Settled, Agree, InFlight,
     NoCrossShardUser, RostersKnown, tables
<1>8. Settled(w)'
  BY <1>1, <1>2, <1>3, <1>4, IdleHoldsNext DEF ProvisionDefault, Agree, Active, OnNoRoster,
     JobHolds, RewriteHolds, OnboardHolds, CreateHolds, Seated, Chunk, InFlight, Settled,
     NoCrossShardUser, RostersKnown, tables
<1>9. JobHolds(op[w])'
  BY <1>1, <1>2, <1>3, <1>4, IdleHoldsNext DEF ProvisionDefault, Agree, Active, OnNoRoster,
     JobHolds, RewriteHolds, OnboardHolds, CreateHolds, Seated, Chunk, InFlight, Settled,
     NoCrossShardUser, RostersKnown, tables
<1>10. QED
  BY <1>5, <1>6, <1>7, <1>8, <1>9, After

\* ReshuffleRead keeps the invariant of writers that take turns.
LEMMA ReshuffleReadTurns ==
    ASSUME TakeTurns, TypeOK, PartitionInductive, NEW w \in Shell, NEW t \in Shard,
           ReshuffleRead(w, t)
    PROVE  PartitionInductive'
<1> USE RosterAssumption DEF Writer
<1>1. /\ op \in [Writer -> JobType] /\ current \in [User -> Shard \cup {NoShard}]
      /\ phase \in [Shard -> {"unused", "active", "retired"}]
      /\ roster \in [Shard -> SUBSET User] /\ users \subseteq User /\ JobsOK
  BY DEF TypeOK, TablesOK, JobsOK
<1>2. \A v \in Writer : op[v] = Idle /\ wheelPc = "idle"
  BY IdleFields DEF ReshuffleRead, MayStart, TakeTurns, PartitionInductive, OneWriter
<1>3. /\ Alone(w) /\ Settled(w) /\ JobHolds(op[w])
      /\ NoCrossShardUser /\ RostersKnown
  BY <1>2, Before DEF PartitionInductive
<1>4. /\ op'[w].pc = "check" /\ op'[w].shard = t /\ op'[w].todo = Targets(op'[w].plan)
      /\ Seated(op'[w].plan) = roster[t] /\ Targets(op'[w].plan) \subseteq Fresh
      /\ op'[w].moving = NoShard /\ op'[w].who = {}
      /\ \A v \in Writer \ {w} : op'[v] = op[v]
  <2>1. PICK plan \in Plans(roster[t]) :
               Step(w, Job("check", t, plan, Targets(plan), NoShard, {}))
    BY SMT DEF ReshuffleRead
  <2>2. Seated(plan) = roster[t] /\ Targets(plan) \subseteq Fresh
    BY PlanFits DEF Plans
  <2>3. QED
    BY <1>1, <2>1, <2>2, NewJob
<1>5. Alone(w)'
  BY <1>3, <1>4 DEF Alone
<1>6. OneWriter'
  BY <1>1, <1>2, <1>3, <1>4, <1>5, IdleFields DEF ReshuffleRead, Fresh, Alone, OneWriter,
     PartitionInductive, Active, RewriteHolds, JobHolds, tables, wheelvars
<1>7. NoCrossShardUser' /\ RostersKnown'
  BY <1>1, <1>2, <1>3, <1>4 DEF ReshuffleRead, Fresh, Active, NoCrossShardUser, RostersKnown,
     tables
<1>8. Settled(w)'
  BY <1>1, <1>2, <1>3, <1>4, IdleHoldsNext DEF ReshuffleRead, Fresh, Agree, Active, OnNoRoster,
     JobHolds, RewriteHolds, OnboardHolds, CreateHolds, Seated, Chunk, InFlight, Settled,
     NoCrossShardUser, RostersKnown, tables
<1>9. JobHolds(op[w])'
  BY <1>1, <1>2, <1>3, <1>4, IdleHoldsNext DEF ReshuffleRead, Fresh, Agree, Active, OnNoRoster,
     JobHolds, RewriteHolds, OnboardHolds, CreateHolds, Seated, Chunk, InFlight, Settled,
     NoCrossShardUser, RostersKnown, tables
<1>10. QED
  BY <1>5, <1>6, <1>7, <1>8, <1>9, After

\* EmptyShardRead keeps the invariant of writers that take turns.
LEMMA EmptyShardReadTurns ==
    ASSUME TakeTurns, TypeOK, PartitionInductive, NEW w \in Shell, NEW t \in Shard,
           EmptyShardRead(w, t)
    PROVE  PartitionInductive'
<1> USE RosterAssumption DEF Writer
<1>1. /\ op \in [Writer -> JobType] /\ current \in [User -> Shard \cup {NoShard}]
      /\ phase \in [Shard -> {"unused", "active", "retired"}]
      /\ roster \in [Shard -> SUBSET User] /\ users \subseteq User /\ JobsOK
  BY DEF TypeOK, TablesOK, JobsOK
<1>2. \A v \in Writer : op[v] = Idle /\ wheelPc = "idle"
  BY IdleFields DEF EmptyShardRead, MayStart, TakeTurns, PartitionInductive, OneWriter
<1>3. /\ Alone(w) /\ Settled(w) /\ JobHolds(op[w])
      /\ NoCrossShardUser /\ RostersKnown
  BY <1>2, Before DEF PartitionInductive
<1>4. /\ op'[w].pc = "retire" /\ op'[w].shard = t /\ op'[w].todo = {} /\ op'[w].who = {}
      /\ op'[w].plan = Unset
      /\ \A v \in Writer \ {w} : op'[v] = op[v]
  BY <1>1, <1>2, NewJob, Finished DEF EmptyShardRead, JobType
<1>5. Alone(w)'
  BY <1>3, <1>4 DEF Alone
<1>6. OneWriter'
  BY <1>1, <1>2, <1>3, <1>4, <1>5, IdleFields DEF EmptyShardRead, Unset, Alone, OneWriter,
     PartitionInductive, Active, RewriteHolds, JobHolds, tables, wheelvars
<1>7. NoCrossShardUser' /\ RostersKnown'
  BY <1>1, <1>2, <1>3, <1>4 DEF EmptyShardRead, Unset, Active, NoCrossShardUser, RostersKnown,
     tables
<1>8. Settled(w)'
  BY <1>1, <1>2, <1>3, <1>4, IdleHoldsNext DEF EmptyShardRead, Unset, Agree, Active, OnNoRoster,
     JobHolds, RewriteHolds, OnboardHolds, CreateHolds, Seated, Chunk, InFlight, Settled,
     NoCrossShardUser, RostersKnown, tables
<1>9. JobHolds(op[w])'
  BY <1>1, <1>2, <1>3, <1>4, IdleHoldsNext DEF EmptyShardRead, Unset, Agree, Active, OnNoRoster,
     JobHolds, RewriteHolds, OnboardHolds, CreateHolds, Seated, Chunk, InFlight, Settled,
     NoCrossShardUser, RostersKnown, tables
<1>10. QED
  BY <1>5, <1>6, <1>7, <1>8, <1>9, After

\* ReshuffleCheck keeps the invariant of writers that take turns.
LEMMA ReshuffleCheckTurns ==
    ASSUME TakeTurns, TypeOK, PartitionInductive, NEW w \in Writer, ReshuffleCheck(w)
    PROVE  PartitionInductive'
<1> USE RosterAssumption DEF Writer
<1>1. /\ op \in [Writer -> JobType] /\ current \in [User -> Shard \cup {NoShard}]
      /\ phase \in [Shard -> {"unused", "active", "retired"}]
      /\ roster \in [Shard -> SUBSET User] /\ users \subseteq User /\ JobsOK
  BY DEF TypeOK, TablesOK, JobsOK
<1>2. op[w] # Idle
  BY IdleFields DEF ReshuffleCheck
<1>3. /\ Alone(w) /\ Settled(w) /\ JobHolds(op[w])
      /\ NoCrossShardUser /\ RostersKnown
  BY <1>2, Before DEF PartitionInductive
<1>4. /\ op[w].pc = "check"
      /\ \/ op'[w] = Idle
         \/ /\ op'[w].pc = "commit" /\ op'[w].shard = op[w].shard /\ op'[w].plan = op[w].plan
            /\ op'[w].todo = op[w].todo /\ op'[w].who = op[w].who
            /\ op'[w].moving = op[w].moving
      /\ \A v \in Writer \ {w} : op'[v] = op[v]
  BY <1>1, <1>2, NewJob, Finished DEF ReshuffleCheck, JobType, GiveUp
<1>5. Alone(w)'
  BY <1>3, <1>4 DEF Alone
<1>6. OneWriter'
  BY <1>1, <1>2, <1>3, <1>4, <1>5, IdleFields DEF ReshuffleCheck, Alone, OneWriter,
     PartitionInductive, Active, RewriteHolds, JobHolds, tables, wheelvars
<1>7. NoCrossShardUser' /\ RostersKnown'
  BY <1>1, <1>2, <1>3, <1>4 DEF ReshuffleCheck, Active, NoCrossShardUser, RostersKnown, tables
<1>8. Settled(w)'
  BY <1>1, <1>2, <1>3, <1>4, IdleHoldsNext DEF ReshuffleCheck, Agree, Active, OnNoRoster,
     JobHolds, RewriteHolds, OnboardHolds, CreateHolds, Seated, Chunk, InFlight, Settled,
     NoCrossShardUser, RostersKnown, tables
<1>9. JobHolds(op[w])'
  BY <1>1, <1>2, <1>3, <1>4, IdleHoldsNext DEF ReshuffleCheck, Agree, Active, OnNoRoster,
     JobHolds, RewriteHolds, OnboardHolds, CreateHolds, Seated, Chunk, InFlight, Settled,
     NoCrossShardUser, RostersKnown, tables
<1>10. QED
  BY <1>5, <1>6, <1>7, <1>8, <1>9, After

\* What the transaction of a reshuffle does when nobody overlaps it.
LEMMA CommitEffect ==
    ASSUME TypeOK, PartitionInductive, NEW w \in Writer, NEW t \in Shard, ReshuffleCommit(w, t)
    PROVE  /\ Alone(w) /\ Alone(w)' /\ JobHolds(op[w])
           /\ op[w].pc = "commit" /\ t \in op[w].todo
           /\ op'[w].pc = "leftover" /\ op'[w].shard = op[w].shard /\ op'[w].plan = op[w].plan
           /\ op'[w].todo = op[w].todo \ {t} /\ op'[w].moving = NoShard
           /\ \A v \in Writer \ {w} : op'[v] = op[v]
           /\ op[w].shard \in Active /\ phase[t] = "unused" /\ op[w].moving = NoShard
           /\ Seated(op[w].plan) = roster[op[w].shard] /\ op[w].todo = Targets(op[w].plan)
           /\ op[w].plan \in [User -> Shard \cup {NoShard}]
           /\ \A u \in User : Agree(u)
           /\ phase' = [phase EXCEPT ![op[w].shard] = "retired", ![t] = "active"]
           /\ roster' = [roster EXCEPT ![t] = Chunk(op[w].plan, t)] /\ users' = users
           /\ current' = [u \in User |-> IF u \in roster[op[w].shard] THEN t ELSE current[u]]
<1> USE RosterAssumption DEF Writer
<1>1. /\ op \in [Writer -> JobType] /\ current \in [User -> Shard \cup {NoShard}]
      /\ phase \in [Shard -> {"unused", "active", "retired"}]
      /\ roster \in [Shard -> SUBSET User] /\ users \subseteq User /\ JobsOK
  BY DEF TypeOK, TablesOK, JobsOK
<1>2. op[w] # Idle
  BY IdleFields DEF ReshuffleCommit
<1>3. /\ Alone(w) /\ Settled(w) /\ JobHolds(op[w])
      /\ NoCrossShardUser /\ RostersKnown
  BY <1>2, Before DEF PartitionInductive
<1>4. /\ op[w].pc = "commit" /\ t \in op[w].todo
      /\ op'[w].pc = "leftover" /\ op'[w].shard = op[w].shard /\ op'[w].plan = op[w].plan
      /\ op'[w].todo = op[w].todo \ {t} /\ op'[w].moving = op[w].moving
      /\ \A v \in Writer \ {w} : op'[v] = op[v]
  BY <1>1, <1>2, NewJob, Finished DEF ReshuffleCommit, JobType
<1>5. /\ op[w].shard \in Active /\ phase[t] = "unused" /\ op[w].moving = NoShard
      /\ Seated(op[w].plan) = roster[op[w].shard] /\ op[w].todo = Targets(op[w].plan)
      /\ op[w].plan \in [User -> Shard \cup {NoShard}]
  BY <1>4, <1>1, <1>3 DEF JobHolds, RewriteHolds, JobType
<1>6. \A u \in User : Agree(u)
  BY <1>4, <1>3 DEF Settled, InFlight
<1>7. Remapped(op[w].shard, op[w].plan, t) = roster[op[w].shard]
  BY <1>1, <1>3, <1>5, <1>6 DEF Remapped, Agree, RostersKnown, Seated, Active
<1>8. /\ phase' = [phase EXCEPT ![op[w].shard] = "retired", ![t] = "active"]
      /\ roster' = [roster EXCEPT ![t] = Chunk(op[w].plan, t)] /\ users' = users
      /\ current' = [u \in User |-> IF u \in roster[op[w].shard] THEN t ELSE current[u]]
  BY <1>5, <1>6, <1>7 DEF ReshuffleCommit, Point
<1>9. Alone(w)'
  BY <1>3, <1>4 DEF Alone
<1>10. QED
  BY <1>3, <1>4, <1>5, <1>6, <1>8, <1>9

\* ReshuffleCommit keeps the invariant of writers that take turns.
LEMMA ReshuffleCommitTurns ==
    ASSUME TakeTurns, TypeOK, PartitionInductive, NEW w \in Writer, NEW t \in Shard,
           ReshuffleCommit(w, t)
    PROVE  PartitionInductive'
<1> USE RosterAssumption DEF Writer
<1>1. /\ op \in [Writer -> JobType] /\ current \in [User -> Shard \cup {NoShard}]
      /\ phase \in [Shard -> {"unused", "active", "retired"}]
      /\ roster \in [Shard -> SUBSET User] /\ users \subseteq User /\ JobsOK
  BY DEF TypeOK, TablesOK, JobsOK
<1>2. op[w] # Idle
  BY IdleFields DEF ReshuffleCommit
<1>3. /\ Alone(w) /\ JobHolds(op[w])
      /\ NoCrossShardUser /\ RostersKnown
  BY CommitEffect DEF PartitionInductive
<1>4. /\ op[w].pc = "commit" /\ t \in op[w].todo
      /\ op'[w].pc = "leftover" /\ op'[w].shard = op[w].shard /\ op'[w].plan = op[w].plan
      /\ op'[w].todo = op[w].todo \ {t} /\ op'[w].moving = op[w].moving
      /\ \A v \in Writer \ {w} : op'[v] = op[v]
  BY CommitEffect
<1>5. /\ op[w].shard \in Active /\ phase[t] = "unused" /\ op[w].moving = NoShard
      /\ Seated(op[w].plan) = roster[op[w].shard] /\ op[w].todo = Targets(op[w].plan)
      /\ op[w].plan \in [User -> Shard \cup {NoShard}]
  BY CommitEffect
<1>6. \A u \in User : Agree(u)
  BY CommitEffect
<1>7. /\ phase' = [phase EXCEPT ![op[w].shard] = "retired", ![t] = "active"]
      /\ roster' = [roster EXCEPT ![t] = Chunk(op[w].plan, t)] /\ users' = users
      /\ current' = [u \in User |-> IF u \in roster[op[w].shard] THEN t ELSE current[u]]
  BY CommitEffect
<1>9. \A u \in User : op'[w].plan[u] \in op'[w].todo => OnNoRoster(u)'
  <2> SUFFICES ASSUME NEW u \in User, op'[w].plan[u] \in op'[w].todo, NEW s \in Active'
               PROVE  u \notin roster'[s]
    BY DEF OnNoRoster
  <2>1. op[w].plan[u] # t /\ op[w].plan[u] # NoShard
    BY <1>1, <1>4 DEF JobType
  <2>2. u \in roster[op[w].shard] /\ u \notin Chunk(op[w].plan, t)
    BY <1>5, <1>6, <1>7, <2>1 DEF Chunk, Seated
  <2>3. CASE s = t
    BY <1>1, <1>5, <1>6, <1>7, <2>2, <2>3
  <2>4. CASE s # t
    <3>1. s \in Active \ {op[w].shard} /\ roster'[s] = roster[s]
      BY <1>1, <1>5, <1>6, <1>7, <2>4 DEF Active
    <3>2. QED
      BY <1>3, <1>5, <1>6, <1>7, <2>2, <3>1 DEF NoCrossShardUser
  <2>5. QED
    BY <2>3, <2>4
<1>10. Alone(w)'
  BY CommitEffect
<1>11. OneWriter'
  <2>1. OneWriter /\ wheelPc' = wheelPc /\ wheelTodo' = wheelTodo
    BY DEF PartitionInductive, ReshuffleCommit, wheelvars
  <2>2. op'[Wheel].shard = op[Wheel].shard /\ \A v \in Writer : op'[v] # Idle => op[v] # Idle
    BY <1>2, <1>4
  <2>3. Active \ {op[w].shard} \subseteq Active'
    BY <1>1, <1>5, <1>7 DEF Active
  <2>4. wheelPc = "shards" => wheelTodo \subseteq Active' \ {op[Wheel].shard}
    BY <1>2, <2>1, <2>3 DEF OneWriter
  <2>5. QED
    BY <2>1, <2>2, <2>4 DEF OneWriter
<1>12. NoCrossShardUser' /\ RostersKnown'
  <2>1. ASSUME NEW s \in Active', s # t
        PROVE  /\ s \in Active \ {op[w].shard} /\ roster'[s] = roster[s]
               /\ roster[s] \cap roster[op[w].shard] = {}
    <3>1. s \in Active \ {op[w].shard} /\ roster'[s] = roster[s]
      BY <1>1, <1>5, <1>7, <2>1 DEF Active
    <3>2. QED
      BY <1>3, <1>5, <3>1 DEF NoCrossShardUser
  <2>2. roster'[t] = Chunk(op[w].plan, t) /\ roster'[t] \subseteq roster[op[w].shard]
    BY <1>1, <1>5, <1>7 DEF Chunk, Seated
  <2>3. NoCrossShardUser'
    BY <1>3, <2>1, <2>2 DEF NoCrossShardUser
  <2>4. RostersKnown'
    BY <1>1, <1>3, <1>5, <1>7, <2>2 DEF RostersKnown, Active
  <2>5. QED
    BY <2>3, <2>4
<1>13. Settled(w)'
  <2> SUFFICES ASSUME NEW u \in User, u \notin InFlight(op[w])' PROVE Agree(u)'
    BY DEF Settled
  <2>1. op[w].plan[u] \in {t, NoShard}
    BY <1>4, <1>5 DEF InFlight, Targets, Seated
  <2>2. CASE op[w].plan[u] = t
    <3>1. u \in roster[op[w].shard] /\ u \in roster'[t] /\ t \in Active'
      BY <1>1, <1>5, <1>7, <2>2 DEF Seated, Chunk, Active
    <3>2. current'[u] = t /\ \A s \in Active' : s # t => u \notin roster'[s]
      BY <1>7, <1>12, <3>1 DEF NoCrossShardUser
    <3>3. QED
      BY <3>1, <3>2 DEF Agree
  <2>3. CASE op[w].plan[u] = NoShard
    <3>1. u \notin roster[op[w].shard] /\ u \notin roster'[t] /\ current'[u] = current[u]
      BY <1>1, <1>5, <1>7, <2>3 DEF Seated, Chunk
    <3>2. ASSUME NEW s \in Shard, s # t, s # op[w].shard
          PROVE  (s \in Active' <=> s \in Active) /\ roster'[s] = roster[s]
      BY <1>1, <1>7, <3>2 DEF Active
    <3>3. op[w].shard \notin Active' /\ t \notin Active
      BY <1>1, <1>5, <1>7 DEF Active
    <3>4. QED
      BY <1>5, <1>6, <3>1, <3>2, <3>3 DEF Agree
  <2>4. QED
    BY <2>1, <2>2, <2>3
<1>14. JobHolds(op[w])'
  <2>1. \A s \in op'[w].todo : phase'[s] = "unused"
    <3>1. \A s \in op[w].todo : s \in Shard /\ phase[s] = "unused"
      BY <1>1, <1>3 DEF JobHolds, RewriteHolds, JobType
    <3>2. QED
      BY <1>1, <1>4, <1>5, <1>7, <3>1 DEF Active
  <2>2. Seated(op'[w].plan) \subseteq users'
    BY <1>3, <1>4, <1>5, <1>7 DEF RostersKnown, Seated, Active
  <2>3. QED
    BY <1>4, <1>5, <1>9, <2>1, <2>2 DEF JobHolds, RewriteHolds, OnboardHolds, CreateHolds,
       Seated
<1>15. QED
  BY <1>10, <1>11, <1>12, <1>13, <1>14, After

\* What the commit of a further chunk does when nobody overlaps it.
LEMMA CreateEffect ==
    ASSUME TypeOK, PartitionInductive, NEW w \in Writer, NEW t \in Shard, CreateLeftover(w, t)
    PROVE  /\ Alone(w) /\ Alone(w)' /\ Settled(w) /\ JobHolds(op[w])
           /\ op[w].pc = "leftover" /\ t \in op[w].todo
           /\ op'[w].pc = "leftover" /\ op'[w].shard = op[w].shard /\ op'[w].plan = op[w].plan
           /\ op'[w].todo = op[w].todo \ {t} /\ op'[w].moving = t
           /\ \A v \in Writer \ {w} : op'[v] = op[v]
           /\ phase[t] = "unused" /\ op[w].plan \in [User -> Shard \cup {NoShard}]
           /\ phase' = [phase EXCEPT ![t] = "active"] /\ users' = users
           /\ roster' = [roster EXCEPT ![t] = Chunk(op[w].plan, t)]
           /\ \A u \in User : current'[u] =
                 IF u \in Moved(op[w].plan, op[w].moving) /\ op[w].moving # NoShard
                 THEN op[w].moving ELSE current[u]
           /\ wheelPc' = wheelPc /\ wheelTodo' = wheelTodo
           /\ t \in Active' /\ t \notin Active /\ roster'[t] = Chunk(op[w].plan, t)
           /\ \A s \in Shard \ {t} :
                 (s \in Active' <=> s \in Active) /\ roster'[s] = roster[s]
           /\ Seated(op[w].plan) \subseteq users
           /\ \A s \in op[w].todo : s \in Shard /\ phase[s] = "unused"
           /\ \A u \in User : op[w].plan[u] \in op[w].todo => OnNoRoster(u)
           /\ op[w].moving # NoShard =>
                 /\ op[w].moving \in Active
                 /\ roster[op[w].moving] = Chunk(op[w].plan, op[w].moving)
<1> USE RosterAssumption DEF Writer
<1>1. /\ op \in [Writer -> JobType] /\ current \in [User -> Shard \cup {NoShard}]
      /\ phase \in [Shard -> {"unused", "active", "retired"}]
      /\ roster \in [Shard -> SUBSET User] /\ users \subseteq User /\ JobsOK
  BY DEF TypeOK, TablesOK, JobsOK
<1>2. op[w] # Idle
  BY IdleFields DEF CreateLeftover
<1>3. /\ Alone(w) /\ Settled(w) /\ JobHolds(op[w])
      /\ NoCrossShardUser /\ RostersKnown
  BY <1>2, Before DEF PartitionInductive
<1>4. /\ op[w].pc = "leftover" /\ t \in op[w].todo
      /\ op'[w].pc = "leftover" /\ op'[w].shard = op[w].shard /\ op'[w].plan = op[w].plan
      /\ op'[w].todo = op[w].todo \ {t} /\ op'[w].moving = t
      /\ \A v \in Writer \ {w} : op'[v] = op[v]
  BY <1>1, <1>2, NewJob, Finished DEF CreateLeftover, JobType
<1>5. /\ phase[t] = "unused" /\ op[w].plan \in [User -> Shard \cup {NoShard}]
  BY <1>4, <1>1, <1>3 DEF JobHolds, RewriteHolds, JobType
<1>6. Alone(w)'
  BY <1>3, <1>4 DEF Alone
<1>7. /\ phase' = [phase EXCEPT ![t] = "active"] /\ users' = users
      /\ roster' = [roster EXCEPT ![t] = Chunk(op[w].plan, t)]
      /\ \A u \in User : current'[u] =
            IF u \in Moved(op[w].plan, op[w].moving) /\ op[w].moving # NoShard
            THEN op[w].moving ELSE current[u]
      /\ wheelPc' = wheelPc /\ wheelTodo' = wheelTodo
  BY <1>1, SMT DEF CreateLeftover, Point, wheelvars
<1>8. /\ t \in Active' /\ t \notin Active /\ roster'[t] = Chunk(op[w].plan, t)
      /\ \A s \in Shard \ {t} : (s \in Active' <=> s \in Active) /\ roster'[s] = roster[s]
  BY <1>1, <1>5, <1>7 DEF Active
<1>9. /\ Seated(op[w].plan) \subseteq users
      /\ \A s \in op[w].todo : s \in Shard /\ phase[s] = "unused"
      /\ \A u \in User : op[w].plan[u] \in op[w].todo => OnNoRoster(u)
      /\ op[w].moving # NoShard =>
            op[w].moving \in Active /\ roster[op[w].moving] = Chunk(op[w].plan, op[w].moving)
  BY <1>1, <1>3, <1>4 DEF JobHolds, RewriteHolds, JobType
<1>10. QED
  BY <1>3, <1>4, <1>5, <1>6, <1>7, <1>8, <1>9

\* CreateLeftover keeps the invariant of writers that take turns.
LEMMA CreateLeftoverTurns ==
    ASSUME TakeTurns, TypeOK, PartitionInductive, NEW w \in Writer, NEW t \in Shard,
           CreateLeftover(w, t)
    PROVE  PartitionInductive'
<1> USE RosterAssumption DEF Writer
<1>1. /\ op \in [Writer -> JobType] /\ current \in [User -> Shard \cup {NoShard}]
      /\ phase \in [Shard -> {"unused", "active", "retired"}]
      /\ roster \in [Shard -> SUBSET User] /\ users \subseteq User /\ JobsOK
  BY DEF TypeOK, TablesOK, JobsOK
<1>2. op[w] # Idle
  BY IdleFields DEF CreateLeftover
<1>3. /\ Alone(w) /\ Settled(w) /\ JobHolds(op[w])
      /\ NoCrossShardUser /\ RostersKnown
  BY CreateEffect DEF PartitionInductive
<1>4. /\ op[w].pc = "leftover" /\ t \in op[w].todo
      /\ op'[w].pc = "leftover" /\ op'[w].shard = op[w].shard /\ op'[w].plan = op[w].plan
      /\ op'[w].todo = op[w].todo \ {t} /\ op'[w].moving = t
      /\ \A v \in Writer \ {w} : op'[v] = op[v]
  BY CreateEffect
<1>5. /\ phase[t] = "unused" /\ op[w].plan \in [User -> Shard \cup {NoShard}]
  BY CreateEffect
<1>6. Alone(w)'
  BY CreateEffect
<1>7. /\ phase' = [phase EXCEPT ![t] = "active"] /\ users' = users
      /\ roster' = [roster EXCEPT ![t] = Chunk(op[w].plan, t)]
      /\ \A u \in User : current'[u] =
            IF u \in Moved(op[w].plan, op[w].moving) /\ op[w].moving # NoShard
            THEN op[w].moving ELSE current[u]
      /\ wheelPc' = wheelPc /\ wheelTodo' = wheelTodo
  BY CreateEffect
<1>8. /\ t \in Active' /\ t \notin Active /\ roster'[t] = Chunk(op[w].plan, t)
      /\ \A s \in Shard \ {t} : (s \in Active' <=> s \in Active) /\ roster'[s] = roster[s]
  BY CreateEffect
<1>9. OneWriter'
  <2>1. OneWriter
    BY DEF PartitionInductive
  <2>2. op'[Wheel].shard = op[Wheel].shard /\ \A v \in Writer : op'[v] # Idle => op[v] # Idle
    BY <1>2, <1>4
  <2>3. Active \subseteq Active'
    BY <1>8 DEF Active
  <2>4. QED
    BY <1>7, <2>1, <2>2, <2>3 DEF OneWriter
<1>10. /\ Seated(op[w].plan) \subseteq users
       /\ \A s \in op[w].todo : s \in Shard /\ phase[s] = "unused"
       /\ \A u \in User : op[w].plan[u] \in op[w].todo => OnNoRoster(u)
       /\ op[w].moving # NoShard =>
             op[w].moving \in Active /\ roster[op[w].moving] = Chunk(op[w].plan, op[w].moving)
  BY CreateEffect
<1>11. NoCrossShardUser' /\ RostersKnown'
  <2>1. \A u \in Chunk(op[w].plan, t), s \in Active : u \notin roster[s]
    BY <1>4, <1>10 DEF Chunk, OnNoRoster
  <2>2. NoCrossShardUser'
    <3> SUFFICES ASSUME NEW a \in Active', NEW b \in Active', a # b
                 PROVE  roster'[a] \cap roster'[b] = {}
      BY DEF NoCrossShardUser
    <3>1. a \in Shard /\ b \in Shard
      BY DEF Active
    <3>2. CASE a = t
      BY <1>8, <2>1, <3>1, <3>2
    <3>3. CASE b = t
      BY <1>8, <2>1, <3>1, <3>3
    <3>4. CASE a # t /\ b # t
      BY <1>3, <1>8, <3>1, <3>4 DEF NoCrossShardUser
    <3>5. QED
      BY <3>2, <3>3, <3>4
  <2>3. Chunk(op[w].plan, t) \subseteq users
    BY <1>10, RosterAssumption DEF Chunk, Seated
  <2>4. RostersKnown'
    BY <1>1, <1>3, <1>7, <1>8, <2>3 DEF RostersKnown
  <2>5. QED
    BY <2>2, <2>4
<1>12. Settled(w)'
  <2> SUFFICES ASSUME NEW u \in User, u \notin InFlight(op[w])' PROVE Agree(u)'
    BY DEF Settled
  <2>1. op[w].plan[u] # t /\ op[w].plan[u] \notin op[w].todo
    BY <1>4, <1>5, <1>10 DEF InFlight
  <2>2. u \notin roster'[t]
    BY <1>8, <2>1 DEF Chunk
  <2>3. CASE op[w].moving # NoShard /\ op[w].plan[u] = op[w].moving
    <3>1. /\ op[w].moving \in Active /\ u \in roster[op[w].moving]
          /\ u \in Moved(op[w].plan, op[w].moving)
      BY <1>5, <1>10, <2>3 DEF Chunk, Moved, Seated
    <3>2. op[w].moving \in Shard \ {t}
      BY <1>8, <3>1 DEF Active
    <3>3. op[w].moving \in Active' /\ u \in roster'[op[w].moving]
      BY <1>8, <3>1, <3>2
    <3>4. current'[u] = op[w].moving
      BY <1>7, <2>3, <3>1
    <3>5. \A s \in Shard : s \in Active' /\ u \in roster'[s] => s = op[w].moving
      BY <1>11, <3>3 DEF NoCrossShardUser
    <3>6. QED
      BY <3>3, <3>4, <3>5, Zenon DEF Agree
  <2>4. CASE op[w].moving = NoShard \/ op[w].plan[u] # op[w].moving
    <3>1. current'[u] = current[u]
      BY <1>7, <2>4 DEF Moved, Chunk
    <3>2. u \notin InFlight(op[w])
      BY <1>4, <2>1, <2>4 DEF InFlight
    <3>3. Agree(u)
      BY <1>3, <3>2 DEF Settled
    <3>4. QED
      BY <1>8, <2>2, <3>1, <3>3 DEF Agree
  <2>5. QED
    BY <2>3, <2>4
<1>13. JobHolds(op[w])'
  <2>1. \A s \in op'[w].todo : phase'[s] = "unused"
    BY <1>1, <1>4, <1>7, <1>10
  <2>2. ASSUME NEW u \in User, op'[w].plan[u] \in op'[w].todo PROVE OnNoRoster(u)'
    <3>1. OnNoRoster(u) /\ u \notin roster'[t]
      BY <1>4, <1>8, <1>10, <2>2 DEF Chunk
    <3>2. QED
      BY <1>8, <3>1 DEF OnNoRoster, Active
  <2>3. t \in Active' /\ roster'[t] = Chunk(op'[w].plan, t)
    BY <1>4, <1>8
  <2>4. Seated(op'[w].plan) \subseteq users'
    BY <1>4, <1>7, <1>10 DEF Seated
  <2>5. QED
    BY <1>4, <2>1, <2>2, <2>3, <2>4
       DEF JobHolds, RewriteHolds, OnboardHolds, CreateHolds, Seated, Chunk
<1>14. QED
  BY <1>6, <1>9, <1>11, <1>12, <1>13, After

\* MoveLeftover keeps the invariant of writers that take turns.
LEMMA MoveLeftoverTurns ==
    ASSUME TakeTurns, TypeOK, PartitionInductive, NEW w \in Writer, MoveLeftover(w)
    PROVE  PartitionInductive'
<1> USE RosterAssumption DEF Writer
<1>1. /\ op \in [Writer -> JobType] /\ current \in [User -> Shard \cup {NoShard}]
      /\ phase \in [Shard -> {"unused", "active", "retired"}]
      /\ roster \in [Shard -> SUBSET User] /\ users \subseteq User /\ JobsOK
  BY DEF TypeOK, TablesOK, JobsOK
<1>2. op[w] # Idle
  BY IdleFields DEF MoveLeftover
<1>3. /\ Alone(w) /\ Settled(w) /\ JobHolds(op[w])
      /\ NoCrossShardUser /\ RostersKnown
  BY <1>2, Before DEF PartitionInductive
<1>4. /\ op[w].pc = "leftover" /\ op[w].moving # NoShard
      /\ op'[w].pc = "leftover" /\ op'[w].shard = op[w].shard /\ op'[w].plan = op[w].plan
      /\ op'[w].todo = op[w].todo /\ op'[w].moving = NoShard
      /\ \A v \in Writer \ {w} : op'[v] = op[v]
  BY <1>1, <1>2, NewJob, Finished DEF MoveLeftover, JobType
<1>5. op[w].plan \in [User -> Shard \cup {NoShard}]
  BY <1>1 DEF JobType
<1>6. Alone(w)'
  BY <1>3, <1>4 DEF Alone
<1>7. OneWriter'
  BY <1>1, <1>2, <1>3, <1>4, <1>5, <1>6, IdleFields DEF MoveLeftover, Point, Moved, Alone,
     OneWriter, PartitionInductive, Active, RewriteHolds, JobHolds, tables, wheelvars
<1>8. NoCrossShardUser' /\ RostersKnown'
  BY <1>1, <1>2, <1>3, <1>4, <1>5 DEF MoveLeftover, Point, Moved, Active, Agree, Active,
     OnNoRoster, JobHolds, RewriteHolds, OnboardHolds, CreateHolds, Seated, Chunk, InFlight,
     Settled, NoCrossShardUser, RostersKnown, tables
<1>9. Settled(w)'
  BY <1>1, <1>2, <1>3, <1>4, <1>5, IdleHoldsNext DEF MoveLeftover, Point, Moved, Agree, Active,
     OnNoRoster, JobHolds, RewriteHolds, OnboardHolds, CreateHolds, Seated, Chunk, InFlight,
     Settled, NoCrossShardUser, RostersKnown, tables
<1>10. JobHolds(op[w])'
  <2>1. users' = users /\ phase' = phase /\ roster' = roster
    BY DEF MoveLeftover
  <2>2. /\ Seated(op[w].plan) \subseteq users /\ \A s \in op[w].todo : phase[s] = "unused"
        /\ \A u \in User : op[w].plan[u] \in op[w].todo => OnNoRoster(u)
    BY <1>3, <1>4 DEF JobHolds, RewriteHolds
  <2>3. \A u \in User : OnNoRoster(u) => OnNoRoster(u)'
    BY <2>1 DEF OnNoRoster, Active
  <2>4. QED
    BY <1>4, <2>1, <2>2, <2>3 DEF JobHolds, RewriteHolds, OnboardHolds, CreateHolds, Seated
<1>11. QED
  BY <1>6, <1>7, <1>8, <1>9, <1>10, After

\* ReshuffleDone keeps the invariant of writers that take turns.
LEMMA ReshuffleDoneTurns ==
    ASSUME TakeTurns, TypeOK, PartitionInductive, NEW w \in Writer, ReshuffleDone(w)
    PROVE  PartitionInductive'
<1> USE RosterAssumption DEF Writer
<1>1. /\ op \in [Writer -> JobType] /\ current \in [User -> Shard \cup {NoShard}]
      /\ phase \in [Shard -> {"unused", "active", "retired"}]
      /\ roster \in [Shard -> SUBSET User] /\ users \subseteq User /\ JobsOK
  BY DEF TypeOK, TablesOK, JobsOK
<1>2. op[w] # Idle
  BY IdleFields DEF ReshuffleDone
<1>3. /\ Alone(w) /\ Settled(w) /\ JobHolds(op[w])
      /\ NoCrossShardUser /\ RostersKnown
  BY <1>2, Before DEF PartitionInductive
<1>4. /\ op[w].pc = "leftover" /\ op[w].todo = {} /\ op[w].moving = NoShard
      /\ op'[w] = Idle
      /\ \A v \in Writer \ {w} : op'[v] = op[v]
  BY <1>1, <1>2, NewJob, Finished DEF ReshuffleDone, JobType
<1>5. Alone(w)'
  BY <1>3, <1>4 DEF Alone
<1>6. OneWriter'
  BY <1>1, <1>2, <1>3, <1>4, <1>5, IdleFields DEF ReshuffleDone, Alone, OneWriter,
     PartitionInductive, Active, RewriteHolds, JobHolds, tables, wheelvars
<1>7. NoCrossShardUser' /\ RostersKnown'
  BY <1>1, <1>2, <1>3, <1>4 DEF ReshuffleDone, Active, NoCrossShardUser, RostersKnown, tables
<1>8. Settled(w)'
  BY <1>1, <1>2, <1>3, <1>4, IdleHoldsNext DEF ReshuffleDone, Agree, Active, OnNoRoster,
     JobHolds, RewriteHolds, OnboardHolds, CreateHolds, Seated, Chunk, InFlight, Settled,
     NoCrossShardUser, RostersKnown, tables
<1>9. JobHolds(op[w])'
  BY <1>1, <1>2, <1>3, <1>4, IdleHoldsNext DEF ReshuffleDone, Agree, Active, OnNoRoster,
     JobHolds, RewriteHolds, OnboardHolds, CreateHolds, Seated, Chunk, InFlight, Settled,
     NoCrossShardUser, RostersKnown, tables
<1>10. QED
  BY <1>5, <1>6, <1>7, <1>8, <1>9, After

\* RetireEmpty keeps the invariant of writers that take turns.
LEMMA RetireEmptyTurns ==
    ASSUME TakeTurns, TypeOK, PartitionInductive, NEW w \in Writer, RetireEmpty(w)
    PROVE  PartitionInductive'
<1> USE RosterAssumption DEF Writer
<1>1. /\ op \in [Writer -> JobType] /\ current \in [User -> Shard \cup {NoShard}]
      /\ phase \in [Shard -> {"unused", "active", "retired"}]
      /\ roster \in [Shard -> SUBSET User] /\ users \subseteq User /\ JobsOK
  BY DEF TypeOK, TablesOK, JobsOK
<1>2. op[w] # Idle
  BY IdleFields DEF RetireEmpty
<1>3. /\ Alone(w) /\ Settled(w) /\ JobHolds(op[w])
      /\ NoCrossShardUser /\ RostersKnown
  BY <1>2, Before DEF PartitionInductive
<1>4. /\ op[w].pc = "retire" /\ op'[w] = Idle
      /\ \A v \in Writer \ {w} : op'[v] = op[v]
  BY <1>1, <1>2, NewJob, Finished DEF RetireEmpty, JobType, GiveUp
<1>5. op[w].shard \in Active /\ roster[op[w].shard] = {}
  BY <1>4, <1>1, <1>3 DEF JobHolds, RewriteHolds
<1>6. Alone(w)'
  BY <1>3, <1>4 DEF Alone
<1>7. OneWriter'
  BY <1>1, <1>2, <1>3, <1>4, <1>5, <1>6, IdleFields DEF RetireEmpty, GiveUp, Alone, OneWriter,
     PartitionInductive, Active, RewriteHolds, JobHolds, tables, wheelvars
<1>8. NoCrossShardUser' /\ RostersKnown'
  BY <1>1, <1>2, <1>3, <1>4, <1>5 DEF RetireEmpty, GiveUp, Active, Agree, Active, OnNoRoster,
     JobHolds, RewriteHolds, OnboardHolds, CreateHolds, Seated, Chunk, InFlight, Settled,
     NoCrossShardUser, RostersKnown, tables
<1>9. Settled(w)'
  BY <1>1, <1>2, <1>3, <1>4, <1>5, IdleHoldsNext DEF RetireEmpty, GiveUp, Agree, Active,
     OnNoRoster, JobHolds, RewriteHolds, OnboardHolds, CreateHolds, Seated, Chunk, InFlight,
     Settled, NoCrossShardUser, RostersKnown, tables
<1>10. JobHolds(op[w])'
  BY <1>1, <1>2, <1>3, <1>4, <1>5, IdleHoldsNext DEF RetireEmpty, GiveUp, Agree, Active,
     OnNoRoster, JobHolds, RewriteHolds, OnboardHolds, CreateHolds, Seated, Chunk, InFlight,
     Settled, NoCrossShardUser, RostersKnown, tables
<1>11. QED
  BY <1>6, <1>7, <1>8, <1>9, <1>10, After

\* WheelTake keeps the invariant of writers that take turns.
LEMMA WheelTakeTurns ==
    ASSUME TakeTurns, TypeOK, PartitionInductive, NEW t \in Shard, WheelTake(t)
    PROVE  PartitionInductive'
<1> USE RosterAssumption DEF Writer
<1>1. /\ op \in [Writer -> JobType] /\ current \in [User -> Shard \cup {NoShard}]
      /\ phase \in [Shard -> {"unused", "active", "retired"}]
      /\ roster \in [Shard -> SUBSET User] /\ users \subseteq User /\ JobsOK
  BY DEF TypeOK, TablesOK, JobsOK
<1>2. \A v \in Writer : op[v] = Idle
  BY IdleFields DEF WheelTake, PartitionInductive, OneWriter
<1>3. /\ Alone(Wheel) /\ Settled(Wheel) /\ JobHolds(op[Wheel])
      /\ NoCrossShardUser /\ RostersKnown
  BY <1>2, Before DEF PartitionInductive
<1>4. /\ op'[Wheel].shard = t
      /\ \/ /\ op'[Wheel].pc = "retire" /\ op'[Wheel].plan = Unset /\ op'[Wheel].todo = {}
            /\ roster[t] = {}
         \/ /\ op'[Wheel].pc = "check" /\ Seated(op'[Wheel].plan) = roster[t]
            /\ op'[Wheel].todo = Targets(op'[Wheel].plan) /\ op'[Wheel].todo \subseteq Fresh
      /\ op'[Wheel].moving = NoShard /\ op'[Wheel].who = {}
      /\ \A v \in Writer \ {Wheel} : op'[v] = op[v]
  <2>1. CASE roster[t] = {}
    BY <1>1, <2>1, NewJob DEF WheelTake
  <2>2. CASE roster[t] # {}
    <3>1. PICK plan \in Plans(roster[t]) :
                 Step(Wheel, Job("check", t, plan, Targets(plan), NoShard, {}))
      BY <2>2, SMT DEF WheelTake
    <3>2. Seated(plan) = roster[t] /\ Targets(plan) \subseteq Fresh
      BY PlanFits DEF Plans
    <3>3. QED
      BY <1>1, <2>2, <3>1, <3>2, NewJob
  <2>3. QED
    BY <2>1, <2>2
<1>5. t \in Active
  BY DEF WheelTake, PartitionInductive, OneWriter
<1>6. Alone(Wheel)'
  BY <1>3, <1>4 DEF Alone
<1>7. OneWriter'
  BY <1>1, <1>2, <1>3, <1>4, <1>5, <1>6, IdleFields DEF WheelTake, Fresh, Unset, Alone,
     OneWriter, PartitionInductive, Active, RewriteHolds, JobHolds, tables, wheelvars
<1>8. NoCrossShardUser' /\ RostersKnown'
  BY <1>1, <1>2, <1>3, <1>4, <1>5 DEF WheelTake, Fresh, Unset, Active, NoCrossShardUser,
     RostersKnown, tables
<1>9. /\ users' = users /\ current' = current /\ phase' = phase /\ roster' = roster
  BY DEF WheelTake, tables
<1>10. Settled(Wheel)'
  <2>1. \A u \in User : Agree(u)
    BY <1>2, <1>3, IdleHolds DEF Settled
  <2>2. QED
    BY <1>9, <2>1 DEF Settled, Agree, Active
<1>11. JobHolds(op[Wheel])'
  <2>1. \A s \in op'[Wheel].todo : phase'[s] = "unused"
    BY <1>4, <1>9 DEF Fresh
  <2>2. Seated(op'[Wheel].plan) \subseteq users' /\ op'[Wheel].shard \in Active'
    BY <1>1, <1>3, <1>4, <1>5, <1>9 DEF RostersKnown, Unset, Seated, Active
  <2>3. QED
    BY <1>4, <1>9, <2>1, <2>2
       DEF JobHolds, RewriteHolds, OnboardHolds, CreateHolds, Seated, Targets
<1>12. QED
  BY <1>6, <1>7, <1>8, <1>10, <1>11, After

\* WheelFold keeps the invariant of writers that take turns.
LEMMA WheelFoldTurns ==
    ASSUME TakeTurns, TypeOK, PartitionInductive, WheelFold
    PROVE  PartitionInductive'
<1> USE RosterAssumption DEF Writer
<1>1. /\ op \in [Writer -> JobType] /\ current \in [User -> Shard \cup {NoShard}]
      /\ phase \in [Shard -> {"unused", "active", "retired"}]
      /\ roster \in [Shard -> SUBSET User] /\ users \subseteq User /\ JobsOK
  BY DEF TypeOK, TablesOK, JobsOK
<1>2. \A v \in Writer : op[v] = Idle
  BY IdleFields DEF WheelFold, PartitionInductive, OneWriter
<1>3. /\ Alone(Wheel) /\ Settled(Wheel) /\ JobHolds(op[Wheel])
      /\ NoCrossShardUser /\ RostersKnown
  BY <1>2, Before DEF PartitionInductive
<1>4. /\ \/ op' = op
         \/ /\ op'[Wheel].pc = "leftover" /\ op'[Wheel].shard = NoShard
            /\ Seated(op'[Wheel].plan) = Unassigned /\ op'[Wheel].todo = Targets(op'[Wheel].plan)
            /\ op'[Wheel].todo \subseteq Fresh
            /\ op'[Wheel].moving = NoShard /\ op'[Wheel].who = {}
      /\ \A v \in Writer \ {Wheel} : op'[v] = op[v]
  <2>1. CASE Unassigned = {}
    BY <1>1, <2>1 DEF WheelFold
  <2>2. CASE Unassigned # {}
    <3>1. PICK plan \in Plans(Unassigned) :
                 Step(Wheel, Job("leftover", NoShard, plan, Targets(plan), NoShard, {}))
      BY <2>2, SMT DEF WheelFold
    <3>2. Seated(plan) = Unassigned /\ Targets(plan) \subseteq Fresh
      BY PlanFits DEF Plans
    <3>3. QED
      BY <1>1, <2>2, <3>1, <3>2, NewJob
  <2>3. QED
    BY <2>1, <2>2
<1>5. Alone(Wheel)'
  BY <1>3, <1>4 DEF Alone
<1>6. OneWriter'
  BY <1>1, <1>2, <1>3, <1>4, <1>5, IdleFields DEF WheelFold, Fresh, Unassigned, Targets, Alone,
     OneWriter, PartitionInductive, Active, RewriteHolds, JobHolds, tables, wheelvars
<1>7. NoCrossShardUser' /\ RostersKnown'
  BY <1>1, <1>2, <1>3, <1>4 DEF WheelFold, Fresh, Unassigned, Targets, Active, NoCrossShardUser,
     RostersKnown, tables
<1>8. /\ users' = users /\ current' = current /\ phase' = phase /\ roster' = roster
  BY DEF WheelFold, tables
<1>9. \A u \in User : Agree(u)
  BY <1>2, <1>3, IdleHolds DEF Settled
<1>10. Settled(Wheel)'
  BY <1>8, <1>9 DEF Settled, Agree, Active
<1>11. JobHolds(op[Wheel])'
  <2>1. CASE op' = op
    <3>1. op'[Wheel] = Idle
      BY <1>2, <2>1
    <3>2. QED
      BY <3>1, IdleHoldsNext DEF JobHolds, RewriteHolds, OnboardHolds, CreateHolds, Seated
  <2>2. CASE op' # op
    <3>1. \A s \in op'[Wheel].todo : phase'[s] = "unused"
      BY <1>4, <1>8, <2>2 DEF Fresh
    <3>2. \A u \in Seated(op'[Wheel].plan) : u \in users /\ current[u] = NoShard
      BY <1>4, <2>2 DEF Unassigned
    <3>3. \A u \in User : current[u] = NoShard => OnNoRoster(u)'
      BY <1>8, <1>9, RosterAssumption DEF Agree, OnNoRoster, Active
    <3>4. ASSUME NEW u \in User, op'[Wheel].plan[u] \in op'[Wheel].todo PROVE OnNoRoster(u)'
      <4>1. op'[Wheel].plan[u] # NoShard
        BY <1>4, <2>2, <3>4 DEF Fresh
      <4>2. QED
        BY <3>2, <3>3, <4>1 DEF Seated
    <3>5. QED
      BY <1>4, <1>8, <2>2, <3>1, <3>2, <3>4
         DEF JobHolds, RewriteHolds, OnboardHolds, CreateHolds, Seated
  <2>3. QED
    BY <2>1, <2>2
<1>12. QED
  BY <1>5, <1>6, <1>7, <1>10, <1>11, After

\* Steps that leave tables and jobs alone keep the invariant.
LEMMA TablesKept ==
    ASSUME PartitionInductive, OneWriter',
           UNCHANGED <<users, current, phase, roster, op>>
    PROVE  PartitionInductive'
<1>1. NoCrossShardUser' /\ RostersKnown'
  BY DEF PartitionInductive, NoCrossShardUser, RostersKnown, Active
<1>2. ASSUME NEW u \in User, \A w \in Writer : u \notin InFlight(op[w])' PROVE Agree(u)'
  BY <1>2 DEF PartitionInductive, Agree, Active, InFlight
<1>3. ASSUME NEW w \in Writer PROVE JobHolds(op[w])'
  <2>1. JobHolds(op[w])
    BY DEF PartitionInductive
  <2>2. QED
    BY <2>1 DEF JobHolds, RewriteHolds, OnboardHolds, CreateHolds, Seated, Chunk, Active,
                OnNoRoster, Targets
<1>4. QED
  BY <1>1, <1>2, <1>3 DEF PartitionInductive

\* Every step of writers that take turns keeps the invariant.
LEMMA TurnStep ==
    ASSUME TakeTurns, TypeOK, PartitionInductive, [Next]_vars
    PROVE  PartitionInductive'
<1> USE RosterAssumption DEF Writer
  <1>1. ASSUME NEW w \in Writer, ReshuffleCheck(w) PROVE PartitionInductive'
    BY <1>1, ReshuffleCheckTurns
  <1>2. ASSUME NEW w \in Writer, MoveLeftover(w) PROVE PartitionInductive'
    BY <1>2, MoveLeftoverTurns
  <1>3. ASSUME NEW w \in Writer, ReshuffleDone(w) PROVE PartitionInductive'
    BY <1>3, ReshuffleDoneTurns
  <1>4. ASSUME NEW w \in Writer, RetireEmpty(w) PROVE PartitionInductive'
    BY <1>4, RetireEmptyTurns
  <1>5. ASSUME NEW w \in Writer, NEW t \in Shard, ReshuffleCommit(w, t)
               PROVE PartitionInductive'
    BY <1>5, ReshuffleCommitTurns
  <1>6. ASSUME NEW w \in Writer, NEW t \in Shard, CreateLeftover(w, t) PROVE PartitionInductive'
    BY <1>6, CreateLeftoverTurns
  <1>7. ASSUME NEW w \in Shell, NEW t \in Shard, ReshuffleRead(w, t) PROVE PartitionInductive'
    BY <1>7, ReshuffleReadTurns
  <1>8. ASSUME NEW w \in Shell, NEW t \in Shard, EmptyShardRead(w, t) PROVE PartitionInductive'
    BY <1>8, EmptyShardReadTurns
  <1>9. ASSUME NEW w \in Shell, NEW u \in User, UserAdd(w, u) PROVE PartitionInductive'
    BY <1>9, UserAddTurns
  <1>10. ASSUME NEW w \in Shell, NEW u \in User, NEW t \in Shard, Onboard(w, u, t)
                PROVE PartitionInductive'
    BY <1>10, OnboardTurns
  <1>11. ASSUME NEW w \in Shell, OnboardEnsure(w) PROVE PartitionInductive'
    BY <1>11, OnboardEnsureTurns
  <1>12. ASSUME NEW w \in Shell, OnboardMake(w) PROVE PartitionInductive'
    BY <1>12, OnboardMakeTurns
  <1>13. ASSUME NEW w \in Shell, AssignRead(w) PROVE PartitionInductive'
    BY <1>13, AssignReadTurns
  <1>14. ASSUME NEW w \in Shell, AssignCommit(w) PROVE PartitionInductive'
    BY <1>14, AssignCommitTurns
  <1>15. ASSUME NEW w \in Shell, NEW t \in Shard, NEW members \in SUBSET User, ShardCreate(w,
                t, members) PROVE PartitionInductive'
    BY <1>15, ShardCreateTurns
  <1>16. ASSUME NEW w \in Shell, NEW u \in User, VetMember(w, u) PROVE PartitionInductive'
    BY <1>16, VetMemberTurns
  <1>17. ASSUME NEW w \in Shell, InsertShard(w) PROVE PartitionInductive'
    BY <1>17, InsertShardTurns
  <1>18. ASSUME NEW w \in Shell, NEW u \in User, PlaceMember(w, u) PROVE PartitionInductive'
    BY <1>18, PlaceMemberTurns
  <1>19. ASSUME NEW w \in Shell, ProvisionDefault(w) PROVE PartitionInductive'
    BY <1>19, ProvisionDefaultTurns
  <1>20. ASSUME WheelStart PROVE PartitionInductive'
    <2>1. OneWriter'
      BY <1>20, IdleFields DEF WheelStart, tables, wheelvars, OverdueActive, TakeTurns,
         PartitionInductive, OneWriter, Active
    <2>2. QED
      BY <1>20, <2>1, TablesKept DEF WheelStart, tables, wheelvars, OverdueActive, TakeTurns
  <1>21. ASSUME NEW t \in Shard, WheelTake(t) PROVE PartitionInductive'
    BY <1>21, WheelTakeTurns
  <1>22. ASSUME WheelFold PROVE PartitionInductive'
    BY <1>22, WheelFoldTurns
  <1>23. ASSUME WheelRecheck PROVE PartitionInductive'
    <2>1. OneWriter'
      BY <1>23, IdleFields DEF WheelRecheck, tables, wheelvars, OverdueActive, TakeTurns,
         PartitionInductive, OneWriter, Active
    <2>2. QED
      BY <1>23, <2>1, TablesKept DEF WheelRecheck, tables, wheelvars, OverdueActive, TakeTurns
  <1>24. ASSUME NEW t \in Shard \cup {NoShard}, WheelFlag(t) PROVE PartitionInductive'
    <2>1. OneWriter'
      BY <1>24, IdleFields DEF WheelFlag, tables, wheelvars, OverdueActive, TakeTurns,
         PartitionInductive, OneWriter, Active
    <2>2. QED
      BY <1>24, <2>1, TablesKept DEF WheelFlag, tables, wheelvars, OverdueActive, TakeTurns
  <1>25. ASSUME WheelDone PROVE PartitionInductive'
    <2>1. OneWriter'
      BY <1>25, IdleFields DEF WheelDone, tables, wheelvars, OverdueActive, TakeTurns,
         PartitionInductive, OneWriter, Active
    <2>2. QED
      BY <1>25, <2>1, TablesKept DEF WheelDone, tables, wheelvars, OverdueActive, TakeTurns
  <1>26. ASSUME NEW w \in Shell, ShellDies(w) PROVE PartitionInductive'
    BY <1>26, SMT DEF ShellDies, Fault, TakeTurns, TypeOK, TablesOK
  <1>27. ASSUME WheelStepFails PROVE PartitionInductive'
    BY <1>27, SMT DEF WheelStepFails, Fault, TakeTurns, TypeOK, TablesOK
  <1>28. ASSUME DaemonRestarts PROVE PartitionInductive'
    BY <1>28, SMT DEF DaemonRestarts, Fault, TakeTurns, TypeOK, TablesOK
  <1>29. ASSUME NEW t \in Shard, FallsOverdue(t) PROVE PartitionInductive'
    <2>1. OneWriter'
      BY <1>29, IdleFields DEF FallsOverdue, tables, wheelvars, OverdueActive, TakeTurns,
         PartitionInductive, OneWriter, Active
    <2>2. QED
      BY <1>29, <2>1, TablesKept DEF FallsOverdue, tables, wheelvars, OverdueActive, TakeTurns
  <1>30. CASE UNCHANGED vars
    <2>1. OneWriter'
      BY <1>30, IdleFields DEF vars, tables, wheelvars, PartitionInductive, OneWriter, Active
    <2>2. QED
      BY <1>30, <2>1, TablesKept DEF vars, tables, wheelvars
  <1>31. QED
    BY <1>1, <1>2, <1>3, <1>4, <1>5, <1>6, <1>7, <1>8, <1>9, <1>10, <1>11, <1>12, <1>13, <1>14,
       <1>15, <1>16, <1>17, <1>18, <1>19, <1>20, <1>21, <1>22, <1>23, <1>24, <1>25, <1>26,
       <1>27, <1>28, <1>29, <1>30, Zenon DEF Next, ShellStep, RewriteStep, WheelStep, Writer

\* While writers take turns and finish, nobody is on two rosters and every
\* settled user's two records agree.
THEOREM TurnsSafe == ASSUME TakeTurns PROVE Spec => []PartitionInductive
<1>1. Init => PartitionInductive
  <2> SUFFICES ASSUME Init PROVE PartitionInductive
    OBVIOUS
  <2>1. \A w \in Writer : op[w] = Idle
    BY DEF Init
  <2>2. OneWriter
    BY <2>1 DEF OneWriter, Init, Writer
  <2>3. NoCrossShardUser /\ RostersKnown
    BY RosterAssumption DEF Init, NoCrossShardUser, RostersKnown, Active
  <2>4. \A u \in User : Agree(u)
    BY RosterAssumption DEF Init, Agree, Active, Unset
  <2>5. QED
    BY <2>1, <2>2, <2>3, <2>4, IdleHolds DEF PartitionInductive
<1>2. TypeOK /\ PartitionInductive /\ [Next]_vars => PartitionInductive'
  BY TurnStep
<1>3. QED
  BY <1>1, <1>2, TypeCorrect, PTL DEF Spec

\* Startup check 35 holds in every state.
THEOREM NoCrossShardUserAlways == ASSUME TakeTurns PROVE Spec => []NoCrossShardUser
<1>1. PartitionInductive => NoCrossShardUser
  BY DEF PartitionInductive
<1>2. QED
  BY <1>1, TurnsSafe, PTL

\* Between commands the roster and users.current_shard_id say the same.
THEOREM RecordsAgreeAlways == ASSUME TakeTurns PROVE Spec => []RecordsAgree
<1>1. PartitionInductive => RecordsAgree
  <2> SUFFICES ASSUME PartitionInductive, Quiet, NEW u \in User, NEW s \in Shard
               PROVE  current[u] = s <=> (s \in Active /\ u \in roster[s])
    BY DEF RecordsAgree
  <2>1. Agree(u)
    BY IdleHolds DEF PartitionInductive, Quiet
  <2>2. QED
    BY <2>1 DEF Agree
<1>2. QED
  BY <1>1, TurnsSafe, PTL

-----------------------------------------------------------------------------
(* Writers that take turns: pointers within a roster, no empty active shard *)

\* The writer that moved is the only one whose pointers are on the way.
LEMMA PointersAfter ==
    ASSUME NEW w \in Writer, Alone(w)', RostersFilled', PointersHold(op[w])'
    PROVE  PointersInductive'
<1>1. ASSUME NEW v \in Writer PROVE PointersHold(op[v])'
  <2>1. CASE v = w
    BY <2>1
  <2>2. CASE v # w
    <3>1. op'[v] = Idle
      BY <2>2 DEF Alone
    <3>2. op'[v].pc = "idle"
      BY <3>1, IdleFields
    <3>3. QED
      BY <3>2 DEF PointersHold
  <2>3. QED
    BY <2>1, <2>2
<1>2. QED
  BY <1>1 DEF PointersInductive

\* A step after which no pointer is on the way and no roster has become empty.
LEMMA PointersIdle ==
    ASSUME PointersInductive, NEW w \in Writer, Alone(w), Alone(w)',
           op'[w].pc \notin {"leftover", "place"},
           \A s \in Active' \ {DefaultShard} :
              roster'[s] = {} =>
                 \/ s \in Active /\ roster[s] = {} /\ op[w].pc \notin {"read", "assign"}
                 \/ op'[w].pc \in {"read", "assign"} /\ op'[w].shard = s
    PROVE  PointersInductive'
<1>1. ASSUME NEW s \in Active' \ {DefaultShard}, roster'[s] = {}
      PROVE  op'[w].pc \in {"read", "assign"} /\ op'[w].shard = s
  <2>1. CASE s \in Active /\ roster[s] = {} /\ op[w].pc \notin {"read", "assign"}
    <3>1. PICK v \in Writer : op[v].pc \in {"read", "assign"} /\ op[v].shard = s
      BY <2>1 DEF PointersInductive, RostersFilled
    <3>2. v = w
      BY <3>1, IdleFields DEF Alone
    <3>3. QED
      BY <2>1, <3>1, <3>2
  <2>2. QED
    BY <1>1, <2>1
<1>2. RostersFilled'
  BY <1>1 DEF RostersFilled
<1>3. PointersHold(op[w])'
  BY DEF PointersHold
<1>4. QED
  BY <1>2, <1>3, PointersAfter

\* The writer of a shard whose roster is still empty.
LEMMA Filling ==
    ASSUME PointersInductive, NEW w \in Writer, Alone(w),
           NEW s \in Active \ {DefaultShard}, roster[s] = {}
    PROVE  op[w].pc \in {"read", "assign"} /\ op[w].shard = s
<1>1. PICK v \in Writer : op[v].pc \in {"read", "assign"} /\ op[v].shard = s
  BY DEF PointersInductive, RostersFilled
<1>2. v = w
  BY <1>1, IdleFields DEF Alone
<1>3. QED
  BY <1>1, <1>2

\* A step that leaves shards, pointers and jobs alone.
LEMMA PointersKept ==
    ASSUME PointersInductive, UNCHANGED <<current, phase, roster, op>>
    PROVE  PointersInductive'
<1>1. RostersFilled'
  BY DEF PointersInductive, RostersFilled, Active
<1>2. ASSUME NEW w \in Writer PROVE PointersHold(op[w])'
  <2>1. PointersHold(op[w])
    BY DEF PointersInductive
  <2>2. QED
    BY <2>1 DEF PointersHold, Active, InFlight, Targets, Seated, Chunk
<1>3. QED
  BY <1>1, <1>2 DEF PointersInductive

\* The commit of a reshuffle: everybody on the old roster points at the primary.
LEMMA CommitPointers ==
    ASSUME OverlapInductive, PartitionInductive, PointersInductive,
           NEW w \in Writer, NEW t \in Shard, ReshuffleCommit(w, t)
    PROVE  PointersInductive'
<1> USE RosterAssumption
<1> DEFINE old == op[w].shard
           plan == op[w].plan
<1>1. TypeOK /\ RosterCapped /\ JobFits(op[w])
  BY DEF OverlapInductive, JobsFit
<1>2. /\ roster \in [Shard -> SUBSET User] /\ phase \in [Shard -> {"unused", "active", "retired"}]
      /\ current \in [User -> Shard \cup {NoShard}]
  BY <1>1 DEF TypeOK, TablesOK
<1>3. /\ Alone(w) /\ Alone(w)' /\ op[w].pc = "commit"
      /\ t \in op[w].todo /\ op[w].todo = Targets(plan)
      /\ op'[w].pc = "leftover" /\ op'[w].shard = old /\ op'[w].plan = plan
      /\ op'[w].todo = Targets(plan) \ {t} /\ op'[w].moving = NoShard
      /\ old \in Active /\ phase[t] = "unused" /\ Seated(plan) = roster[old]
      /\ plan \in [User -> Shard \cup {NoShard}]
      /\ phase' = [phase EXCEPT ![old] = "retired", ![t] = "active"]
      /\ roster' = [roster EXCEPT ![t] = Chunk(plan, t)]
      /\ current' = [u \in User |-> IF u \in roster[old] THEN t ELSE current[u]]
  BY <1>1, CommitEffect
<1> HIDE DEF old, plan
<1>4. t \in Active' /\ roster'[t] = Chunk(plan, t) /\ Chunk(plan, t) # {}
  BY <1>2, <1>3 DEF Active, Targets, Seated, Chunk
<1>5. RostersFilled'
  <2> SUFFICES ASSUME NEW s \in Active' \ {DefaultShard} PROVE roster'[s] # {}
    BY DEF RostersFilled
  <2>1. CASE s = t
    BY <1>4, <2>1
  <2>2. CASE s # t
    <3>1. s \in Active /\ roster'[s] = roster[s]
      BY <1>2, <1>3, <2>2 DEF Active
    <3>2. QED
      BY <1>3, <3>1, Filling
  <2>3. QED
    BY <2>1, <2>2
<1>6. Cardinality(Seated(plan)) <= Cap
  BY <1>1, <1>3 DEF RosterCapped, Active
<1>7. \A u \in InFlight(op[w])' : current'[u] = t
  BY <1>3 DEF InFlight, Seated
<1>8. \A s \in Targets(plan) \ op'[w].todo : s \in Active' /\ roster'[s] = Chunk(plan, s)
  BY <1>3, <1>4
<1>9. t \in Targets(plan) \ (op'[w].todo \cup {op'[w].moving})
  BY <1>3
<1>10. old # NoShard
  BY <1>3 DEF Active
<1>11. PointersHold(op[w])'
  <2>1. Seated(op[w].plan)' = Seated(plan) /\ Targets(op[w].plan)' = Targets(plan)
    BY <1>3 DEF Seated, Targets
  <2>2. \A s \in Shard : Chunk(op'[w].plan, s) = Chunk(plan, s)
    BY <1>3
  <2>3. Cardinality(Seated(op[w].plan)') <= Cap
    BY <1>6, <2>1
  <2>4. \A s \in Targets(op[w].plan)' \ op'[w].todo :
            s \in Active' /\ roster'[s] = Chunk(op'[w].plan, s)
    BY <1>8, <2>1, <2>2, <1>3 DEF Targets, Seated
  <2>5. \E primary \in Targets(op[w].plan)' \ (op'[w].todo \cup {op'[w].moving}) :
            \A u \in InFlight(op[w])' : current'[u] = primary
    BY <1>7, <1>9, <2>1
  <2>6. op'[w].pc = "leftover" /\ op'[w].shard # NoShard
    BY <1>3, <1>10
  <2>7. QED
    BY <2>3, <2>4, <2>5, <2>6 DEF PointersHold, Chunk
<1>12. QED
  BY <1>3, <1>5, <1>11, PointersAfter

\* A further chunk is created: it holds its users, who still point where they did.
LEMMA CreatePointers ==
    ASSUME OverlapInductive, PartitionInductive, PointersInductive,
           NEW w \in Writer, NEW t \in Shard, CreateLeftover(w, t)
    PROVE  PointersInductive'
<1> USE RosterAssumption
<1> DEFINE plan == op[w].plan
           moving == op[w].moving
<1>1. TypeOK /\ JobFits(op[w]) /\ PointersHold(op[w])
  BY DEF OverlapInductive, JobsFit, PointersInductive
<1>2. /\ Alone(w) /\ Alone(w)' /\ op[w].pc = "leftover" /\ t \in op[w].todo
      /\ op'[w].pc = "leftover" /\ op'[w].shard = op[w].shard /\ op'[w].plan = plan
      /\ op'[w].todo = op[w].todo \ {t} /\ op'[w].moving = t
      /\ plan \in [User -> Shard \cup {NoShard}]
      /\ \A u \in User : current'[u] =
            IF u \in Moved(plan, moving) /\ moving # NoShard THEN moving ELSE current[u]
      /\ t \in Active' /\ t \notin Active /\ roster'[t] = Chunk(plan, t)
      /\ \A s \in Shard \ {t} : (s \in Active' <=> s \in Active) /\ roster'[s] = roster[s]
      /\ \A s \in op[w].todo : s \in Shard /\ phase[s] = "unused"
      /\ moving # NoShard => moving \in Active
  BY <1>1, CreateEffect
<1>3. op[w].todo \subseteq Targets(plan)
  BY <1>1, <1>2 DEF JobFits
<1> HIDE DEF plan, moving
<1>4. Chunk(plan, t) # {}
  BY <1>2, <1>3 DEF Targets, Seated, Chunk
<1>5. RostersFilled'
  <2> SUFFICES ASSUME NEW s \in Active' \ {DefaultShard} PROVE roster'[s] # {}
    BY DEF RostersFilled
  <2>1. CASE s = t
    BY <1>2, <1>4, <2>1
  <2>2. CASE s # t
    <3>1. s \in Active /\ roster'[s] = roster[s]
      BY <1>2, <2>2 DEF Active
    <3>2. QED
      BY <1>2, <3>1, Filling
  <2>3. QED
    BY <2>1, <2>2
<1>6. Targets(plan) \subseteq Shard
  BY <1>2 DEF Targets, Seated
<1>7. ASSUME NEW s \in Targets(plan) \ op'[w].todo
      PROVE  s \in Active' /\ roster'[s] = Chunk(plan, s)
  <2>1. CASE s = t
    BY <1>2, <2>1
  <2>2. CASE s # t
    <3>1. s \in Active /\ roster[s] = Chunk(plan, s)
      BY <1>1, <1>2, <1>7, <2>2 DEF PointersHold, plan
    <3>2. QED
      BY <1>2, <1>6, <1>7, <2>2, <3>1
  <2>3. QED
    BY <2>1, <2>2
<1>8. ASSUME NEW u \in InFlight(op[w])' PROVE u \in InFlight(op[w]) /\ current'[u] = current[u]
  <2>1. u \in User /\ plan[u] # NoShard /\ plan[u] \in op[w].todo
    BY <1>2, <1>8 DEF InFlight
  <2>2. plan[u] # moving
    BY <1>2, <2>1 DEF Active
  <2>3. QED
    BY <1>2, <2>1, <2>2 DEF InFlight, Moved, Chunk, plan
<1>9. Seated(op[w].plan)' = Seated(plan) /\ Targets(op[w].plan)' = Targets(plan)
  BY <1>2 DEF Seated, Targets
<1>10. CASE op[w].shard # NoShard
  <2>1. Cardinality(Seated(plan)) <= Cap
    BY <1>1, <1>2, <1>10 DEF PointersHold, plan
  <2>2. PICK primary \in Targets(plan) \ (op[w].todo \cup {moving}) :
               \A u \in InFlight(op[w]) : current[u] = primary
    BY <1>1, <1>2, <1>10 DEF PointersHold, plan, moving
  <2>3. primary \in Targets(plan) \ (op'[w].todo \cup {op'[w].moving})
    BY <1>2, <2>2
  <2>4. \A u \in InFlight(op[w])' : current'[u] = primary
    BY <1>8, <2>2
  <2>5. PointersHold(op[w])'
    BY <1>2, <1>7, <1>9, <1>10, <2>1, <2>3, <2>4 DEF PointersHold, Targets, Seated, Chunk
  <2>6. QED
    BY <1>2, <1>5, <2>5, PointersAfter
<1>11. CASE op[w].shard = NoShard
  <2>1. \A u \in InFlight(op[w])' : current'[u] = NoShard
    BY <1>1, <1>2, <1>8, <1>11 DEF PointersHold
  <2>2. PointersHold(op[w])'
    BY <1>2, <1>7, <1>9, <1>11, <2>1 DEF PointersHold, Targets, Seated, Chunk
  <2>3. QED
    BY <1>2, <1>5, <2>2, PointersAfter
<1>12. QED
  BY <1>10, <1>11

\* What the commit of a chunk's pointers does when nobody overlaps it.
LEMMA MoveEffect ==
    ASSUME TypeOK, PartitionInductive, NEW w \in Writer, MoveLeftover(w)
    PROVE  /\ Alone(w) /\ Alone(w)' /\ op[w].pc = "leftover" /\ op[w].moving # NoShard
           /\ op'[w].pc = "leftover" /\ op'[w].shard = op[w].shard /\ op'[w].plan = op[w].plan
           /\ op'[w].todo = op[w].todo /\ op'[w].moving = NoShard
           /\ op[w].plan \in [User -> Shard \cup {NoShard}] /\ op[w].moving \notin op[w].todo
           /\ \A u \in User : current'[u] =
                 IF u \in Moved(op[w].plan, op[w].moving) THEN op[w].moving ELSE current[u]
           /\ phase' = phase /\ roster' = roster
<1>1. op \in [Writer -> JobType] /\ op[w] \in JobType
  BY DEF TypeOK, JobsOK
<1>2. op[w] # Idle /\ op[w].pc = "leftover" /\ op[w].moving # NoShard
  BY IdleFields DEF MoveLeftover
<1>3. Alone(w) /\ JobHolds(op[w])
  BY <1>2, Before
<1>4. /\ op'[w].pc = "leftover" /\ op'[w].shard = op[w].shard /\ op'[w].plan = op[w].plan
      /\ op'[w].todo = op[w].todo /\ op'[w].moving = NoShard
      /\ \A v \in Writer \ {w} : op'[v] = op[v]
  BY <1>1, <1>2 DEF MoveLeftover, JobType
<1>5. op[w].moving \notin op[w].todo
  BY <1>2, <1>3 DEF JobHolds, RewriteHolds, Active
<1>6. Alone(w)'
  BY <1>3, <1>4 DEF Alone
<1>7. QED
  BY <1>1, <1>2, <1>3, <1>4, <1>5, <1>6 DEF MoveLeftover, Point, JobType

\* A chunk's users are pointed at it, the others point where they did.
LEMMA MovePointers ==
    ASSUME OverlapInductive, PartitionInductive, PointersInductive,
           NEW w \in Writer, MoveLeftover(w)
    PROVE  PointersInductive'
<1> USE RosterAssumption
<1>1. TypeOK /\ PointersHold(op[w])
  BY DEF OverlapInductive, PointersInductive
<1>2. /\ Alone(w) /\ Alone(w)' /\ op[w].pc = "leftover" /\ op[w].moving # NoShard
      /\ op'[w].pc = "leftover" /\ op'[w].shard = op[w].shard /\ op'[w].plan = op[w].plan
      /\ op'[w].todo = op[w].todo /\ op'[w].moving = NoShard
      /\ op[w].plan \in [User -> Shard \cup {NoShard}] /\ op[w].moving \notin op[w].todo
      /\ \A u \in User : current'[u] =
            IF u \in Moved(op[w].plan, op[w].moving) THEN op[w].moving ELSE current[u]
      /\ phase' = phase /\ roster' = roster
  BY <1>1, MoveEffect
<1>3. RostersFilled'
  <2> SUFFICES ASSUME NEW s \in Active' \ {DefaultShard} PROVE roster'[s] # {}
    BY DEF RostersFilled
  <2>1. QED
    BY <1>2, Filling DEF Active
<1>4. ASSUME NEW u \in InFlight(op[w])' PROVE u \in InFlight(op[w]) /\ current'[u] = current[u]
  BY <1>2, <1>4 DEF InFlight, Moved, Chunk
<1>5. Active' = Active /\ Targets(op[w].plan) \subseteq Shard
  BY <1>2 DEF Active, Targets, Seated
<1>6. CASE op[w].shard # NoShard
  <2>1. PICK primary \in Targets(op[w].plan) \ (op[w].todo \cup {op[w].moving}) :
               \A u \in InFlight(op[w]) : current[u] = primary
    BY <1>1, <1>2, <1>6 DEF PointersHold
  <2>2. /\ primary \in Targets(op'[w].plan) \ (op'[w].todo \cup {op'[w].moving})
        /\ \A u \in InFlight(op[w])' : current'[u] = primary
    BY <1>2, <1>4, <1>5, <2>1
  <2>3. PointersHold(op[w])'
    BY <1>1, <1>2, <1>5, <1>6, <2>2 DEF PointersHold, Targets, Seated, Chunk
  <2>4. QED
    BY <1>2, <1>3, <2>3, PointersAfter
<1>7. CASE op[w].shard = NoShard
  <2>1. \A u \in InFlight(op[w])' : current'[u] = NoShard
    BY <1>1, <1>2, <1>4, <1>7 DEF PointersHold
  <2>2. PointersHold(op[w])'
    BY <1>1, <1>2, <1>5, <1>7, <2>1 DEF PointersHold, Targets, Seated, Chunk
  <2>3. QED
    BY <1>2, <1>3, <2>2, PointersAfter
<1>8. QED
  BY <1>6, <1>7

\* shard-create's new shard is filled, and its members point nowhere yet.
LEMMA InsertPointers ==
    ASSUME OverlapInductive, PartitionInductive, PointersInductive,
           NEW w \in Shell, InsertShard(w)
    PROVE  PointersInductive'
<1> USE RosterAssumption DEF Writer
<1>1. TypeOK /\ JobFits(op[w]) /\ JobsOK
  BY DEF OverlapInductive, JobsFit, TypeOK
<1>2. /\ op \in [Writer -> JobType] /\ roster \in [Shard -> SUBSET User]
      /\ phase \in [Shard -> {"unused", "active", "retired"}]
      /\ current \in [User -> Shard \cup {NoShard}]
  BY <1>1 DEF TypeOK, TablesOK, JobsOK
<1>3. op[w] # Idle /\ op[w].pc = "insert" /\ op[w].shard \in Shard
  BY <1>1, IdleFields DEF InsertShard, JobsOK, JobOK
<1>4. Alone(w) /\ Settled(w) /\ JobHolds(op[w])
  BY <1>1, <1>3, Before
<1>5. CASE Finish(w)
  <2>1. op'[w] = Idle /\ \A v \in Writer \ {w} : op'[v] = op[v]
    BY <1>1, <1>5, Finished
  <2>2. phase' = phase /\ roster' = roster
    BY <1>2, <1>3, <2>1, IdleFields DEF InsertShard, JobType
  <2>3. Alone(w)'
    BY <1>4, <2>1 DEF Alone
  <2>4. QED
    BY <1>3, <1>4, <2>1, <2>2, <2>3, IdleFields, PointersIdle DEF Active
<1>6. CASE ~Finish(w)
  <2>1. /\ op'[w].pc = "place" /\ op'[w].shard = op[w].shard /\ op'[w].plan = op[w].plan
        /\ op'[w].who = Seated(op[w].plan) /\ \A v \in Writer \ {w} : op'[v] = op[v]
        /\ phase' = [phase EXCEPT ![op[w].shard] = "active"]
        /\ roster' = [roster EXCEPT ![op[w].shard] = Seated(op[w].plan)]
        /\ current' = current
    BY <1>2, <1>3, <1>6 DEF InsertShard, JobType
  <2>2. Alone(w)'
    BY <1>4, <2>1 DEF Alone
  <2>3. Seated(op[w].plan) # {}
    BY <1>1, <1>3 DEF JobFits
  <2>4. RostersFilled'
    <3> SUFFICES ASSUME NEW s \in Active' \ {DefaultShard} PROVE roster'[s] # {}
      BY DEF RostersFilled
    <3>1. CASE s = op[w].shard
      BY <1>2, <2>1, <2>3, <3>1 DEF Active
    <3>2. CASE s # op[w].shard
      <4>1. s \in Active /\ roster'[s] = roster[s]
        BY <1>2, <1>3, <2>1, <3>2 DEF Active
      <4>2. QED
        BY <1>3, <1>4, <4>1, Filling
    <3>3. QED
      BY <3>1, <3>2
  <2>5. \A u \in User : u \in Seated(op[w].plan) => current[u] = NoShard
    <3>1. \A u \in User : Agree(u)
      BY <1>3, <1>4 DEF Settled, InFlight
    <3>2. \A u \in Seated(op[w].plan) : current[u] \notin Active
      BY <1>3, <1>4 DEF JobHolds, CreateHolds
    <3>3. QED
      BY <1>2, <3>1, <3>2 DEF Agree
  <2>6. PointersHold(op[w])'
    BY <2>1, <2>5 DEF PointersHold, InFlight
  <2>7. QED
    BY <2>2, <2>4, <2>6, PointersAfter
<1>7. QED
  BY <1>5, <1>6

\* Placing one member leaves the pointers of the others.
LEMMA PlacePointers ==
    ASSUME OverlapInductive, PartitionInductive, PointersInductive,
           NEW w \in Shell, NEW u \in User, PlaceMember(w, u)
    PROVE  PointersInductive'
<1> USE RosterAssumption DEF Writer
<1>1. TypeOK /\ PointersHold(op[w]) /\ JobsOK
  BY DEF OverlapInductive, PointersInductive, TypeOK
<1>2. op \in [Writer -> JobType] /\ op[w] # Idle /\ op[w].pc = "place"
  BY <1>1, IdleFields DEF PlaceMember, JobsOK
<1>3. Alone(w)
  BY <1>1, <1>2, Before
<1>4. /\ \A v \in Writer \ {w} : op'[v] = op[v]
      /\ \/ op'[w] = Idle
         \/ op'[w].pc = "place" /\ op'[w].who = op[w].who \ {u}
  BY <1>1, <1>2, Finished DEF PlaceMember, JobType
<1>5. /\ phase' = phase /\ roster' = roster /\ Active' = Active
      /\ \A x \in User \ {u} : current'[x] = current[x]
  BY DEF PlaceMember, Point, Active
<1>6. Alone(w)'
  BY <1>3, <1>4 DEF Alone
<1>7. RostersFilled'
  <2> SUFFICES ASSUME NEW s \in Active \ {DefaultShard} PROVE roster[s] # {}
    BY <1>5 DEF RostersFilled
  <2>1. QED
    BY <1>2, <1>3, Filling
<1>8. PointersHold(op[w])'
  <2>1. CASE op'[w] = Idle
    BY <2>1, IdleFields DEF PointersHold
  <2>2. CASE op'[w] # Idle
    <3>1. \A x \in InFlight(op[w])' : x \in User \ {u} /\ x \in InFlight(op[w])
      BY <1>2, <1>4, <2>2 DEF InFlight
    <3>2. QED
      BY <1>1, <1>2, <1>4, <1>5, <2>2, <3>1 DEF PointersHold
  <2>3. QED
    BY <2>1, <2>2
<1>9. QED
  BY <1>6, <1>7, <1>8, PointersAfter

\* The users of a fold-in point nowhere.
LEMMA FoldPointers ==
    ASSUME OverlapInductive, PartitionInductive, PointersInductive, WheelFold
    PROVE  PointersInductive'
<1> USE RosterAssumption DEF Writer
<1>1. TypeOK /\ JobsOK
  BY DEF OverlapInductive, TypeOK
<1>2. \A v \in Writer : op[v] = Idle
  BY IdleFields DEF WheelFold, PartitionInductive, OneWriter
<1>3. current' = current /\ phase' = phase /\ roster' = roster /\ Active' = Active
  BY DEF WheelFold, tables, Active
<1>4. CASE Unassigned = {}
  BY <1>3, <1>4, PointersKept DEF WheelFold
<1>5. CASE Unassigned # {}
  <2>1. PICK plan \in Plans(Unassigned) :
               Step(Wheel, Job("leftover", NoShard, plan, Targets(plan), NoShard, {}))
    BY <1>5 DEF WheelFold
  <2>2. /\ op'[Wheel].pc = "leftover" /\ op'[Wheel].shard = NoShard /\ op'[Wheel].plan = plan
        /\ op'[Wheel].todo = Targets(plan)
        /\ \A v \in Writer \ {Wheel} : op'[v] = op[v]
    BY <1>1, <2>1, NewJob
  <2>3. Alone(Wheel)'
    BY <1>2, <2>2 DEF Alone
  <2>4. Seated(plan) = Unassigned
    BY DEF Plans
  <2>5. \A u \in InFlight(op[Wheel])' : current'[u] = NoShard
    BY <1>3, <2>2, <2>4 DEF InFlight, Seated, Unassigned
  <2>6. PointersHold(op[Wheel])'
    BY <2>2, <2>5 DEF PointersHold, Targets, Seated
  <2>7. RostersFilled'
    <3> SUFFICES ASSUME NEW s \in Active \ {DefaultShard} PROVE roster[s] # {}
      BY <1>3 DEF RostersFilled
    <3>1. Alone(Wheel) /\ op[Wheel].pc = "idle"
      BY <1>2, IdleFields DEF Alone
    <3>2. QED
      BY <3>1, Filling
  <2>8. QED
    BY <2>3, <2>6, <2>7, PointersAfter
<1>6. QED
  BY <1>4, <1>5

\* AssignRead goes on unless the roster has somebody on it: an empty one has room.
LEMMA AssignReadPointers ==
    ASSUME OverlapInductive, PartitionInductive, PointersInductive,
           NEW w \in Shell, AssignRead(w)
    PROVE  PointersInductive'
<1> USE RosterAssumption DEF Writer
<1>1. TypeOK /\ JobsOK
  BY DEF OverlapInductive, TypeOK
<1>2. op \in [Writer -> JobType] /\ op[w] # Idle /\ op[w].pc = "read"
  BY <1>1, IdleFields DEF AssignRead, JobsOK
<1>3. Alone(w)
  BY <1>1, <1>2, Before
<1>4. current' = current /\ phase' = phase /\ roster' = roster /\ Active' = Active
  BY DEF AssignRead, tables, Active
<1>5. CASE Finish(w)
  <2>1. op'[w] = Idle /\ \A v \in Writer \ {w} : op'[v] = op[v]
    BY <1>1, <1>5, Finished
  <2>2. Alone(w)'
    BY <1>3, <2>1 DEF Alone
  <2>3. ASSUME NEW s \in Active \ {DefaultShard} PROVE roster[s] # {}
    <3>1. SUFFICES ASSUME roster[s] = {} PROVE FALSE
      OBVIOUS
    <3>2. op[w].shard = s /\ phase[s] = "active" /\ s \in Shard
      BY <1>3, <3>1, Filling DEF Active
    <3>3. HasRoom(s)
      BY <3>1, FS_EmptySet, SMT DEF HasRoom
    <3>4. op'[w].pc = "assign"
      BY <1>2, <3>1, <3>2, <3>3 DEF AssignRead, JobType
    <3>5. QED
      BY <2>1, <3>4, IdleFields
  <2>4. QED
    BY <1>3, <1>4, <2>1, <2>2, <2>3, IdleFields, PointersIdle
<1>6. CASE ~Finish(w)
  <2>1. /\ op'[w].pc = "assign" /\ op'[w].shard = op[w].shard
        /\ \A v \in Writer \ {w} : op'[v] = op[v]
    BY <1>2, <1>6 DEF AssignRead, JobType
  <2>2. Alone(w)'
    BY <1>3, <2>1 DEF Alone
  <2>3. \A s \in Active \ {DefaultShard} : roster[s] = {} => op[w].shard = s
    BY <1>3, Filling
  <2>4. QED
    BY <1>3, <1>4, <2>1, <2>2, <2>3, PointersIdle
<1>7. QED
  BY <1>5, <1>6

\* Every step of writers that take turns keeps the pointers within the rosters.
LEMMA PointersStep ==
    ASSUME TakeTurns, OverlapInductive, PartitionInductive, PointersInductive, [Next]_vars
    PROVE  PointersInductive'
<1> USE RosterAssumption DEF Writer
<1>0. TypeOK /\ JobsOK /\ op \in [Writer -> JobType] /\ roster \in [Shard -> SUBSET User]
      /\ phase \in [Shard -> {"unused", "active", "retired"}]
      /\ ~Overlap /\ MaxFaults = 0 /\ faults = 0
  BY SMT DEF OverlapInductive, TypeOK, JobsOK, TablesOK, TakeTurns
<1>busy. ASSUME NEW w \in Writer, op[w].pc # "idle" PROVE Alone(w)
  BY <1>0, <1>busy, Before, IdleFields
<1>start. ASSUME NEW w \in Writer, NEW c, MayStart(w, c)
          PROVE  Alone(w) /\ op[w].pc = "idle"
  BY <1>0, <1>start, IdleFields DEF MayStart, Alone
\* A job that ends, and writes nothing.
<1>end. ASSUME NEW w \in Writer, Alone(w), Finish(w), op[w].pc \notin {"read", "assign"},
               UNCHANGED <<phase, roster>>
        PROVE  PointersInductive'
  <2>1. op'[w] = Idle /\ \A v \in Writer \ {w} : op'[v] = op[v]
    BY <1>0, <1>end, Finished
  <2>2. Alone(w)'
    BY <1>end, <2>1 DEF Alone
  <2>3. QED
    BY <1>end, <2>1, <2>2, IdleFields, PointersIdle DEF Active
\* A job that goes on with its next statement, and writes nothing.
<1>on. ASSUME NEW w \in Writer, Alone(w), \A v \in Writer \ {w} : op'[v] = op[v],
              op'[w].pc \notin {"leftover", "place"}, op[w].pc \notin {"read", "assign"},
              UNCHANGED <<phase, roster>>
       PROVE  PointersInductive'
  <2>1. Alone(w)'
    BY <1>on DEF Alone
  <2>2. QED
    BY <1>on, <2>1, PointersIdle DEF Active
<1>1. ASSUME NEW w \in Writer, ReshuffleCheck(w) PROVE PointersInductive'
  <2>1. op[w].pc = "check" /\ UNCHANGED <<phase, roster>>
    BY <1>1 DEF ReshuffleCheck, tables
  <2>2. CASE Finish(w)
    BY <1>busy, <1>end, <2>1, <2>2
  <2>3. CASE ~Finish(w)
    <3>1. op'[w].pc = "commit" /\ \A v \in Writer \ {w} : op'[v] = op[v]
      BY <1>0, <1>1, <2>3 DEF ReshuffleCheck, GiveUp, JobType
    <3>2. QED
      BY <1>busy, <1>on, <2>1, <3>1
  <2>4. QED
    BY <2>2, <2>3
<1>2. ASSUME NEW w \in Writer, MoveLeftover(w) PROVE PointersInductive'
  BY <1>2, MovePointers
<1>3. ASSUME NEW w \in Writer, ReshuffleDone(w) PROVE PointersInductive'
  BY <1>3, <1>busy, <1>end DEF ReshuffleDone, tables
<1>4. ASSUME NEW w \in Writer, RetireEmpty(w) PROVE PointersInductive'
  <2>1. Alone(w) /\ op[w].pc = "retire" /\ Finish(w)
    BY <1>4, <1>busy DEF RetireEmpty, GiveUp
  <2>2. op'[w] = Idle /\ \A v \in Writer \ {w} : op'[v] = op[v]
    BY <1>0, <2>1, Finished
  <2>3. Alone(w)' /\ Active' \subseteq Active /\ roster' = roster
    BY <1>0, <1>4, <2>1, <2>2 DEF Alone, RetireEmpty, Active
  <2>4. QED
    BY <2>1, <2>2, <2>3, IdleFields, PointersIdle
<1>5. ASSUME NEW w \in Writer, NEW t \in Shard, ReshuffleCommit(w, t) PROVE PointersInductive'
  BY <1>5, CommitPointers
<1>6. ASSUME NEW w \in Writer, NEW t \in Shard, CreateLeftover(w, t) PROVE PointersInductive'
  BY <1>6, CreatePointers
<1>7. ASSUME NEW w \in Shell, NEW t \in Shard, ReshuffleRead(w, t) PROVE PointersInductive'
  <2>1. PICK plan \in Plans(roster[t]) :
               Step(w, Job("check", t, plan, Targets(plan), NoShard, {}))
    BY <1>7 DEF ReshuffleRead
  <2>2. op'[w].pc = "check" /\ \A v \in Writer \ {w} : op'[v] = op[v]
    BY <1>0, <2>1, NewJob
  <2>3. QED
    BY <1>7, <1>start, <1>on, <2>2 DEF ReshuffleRead, tables
<1>8. ASSUME NEW w \in Shell, NEW t \in Shard, EmptyShardRead(w, t) PROVE PointersInductive'
  <2>1. op'[w].pc = "retire" /\ \A v \in Writer \ {w} : op'[v] = op[v]
    BY <1>0, <1>8, NewJob DEF EmptyShardRead
  <2>2. QED
    BY <1>8, <1>start, <1>on, <2>1 DEF EmptyShardRead, tables
<1>9. ASSUME NEW w \in Shell, NEW u \in User, UserAdd(w, u) PROVE PointersInductive'
  BY <1>9, PointersKept DEF UserAdd
<1>10. ASSUME NEW w \in Shell, NEW u \in User, NEW t \in Shard, Onboard(w, u, t)
       PROVE  PointersInductive'
  <2>1. op'[w].pc = "exists" /\ \A v \in Writer \ {w} : op'[v] = op[v]
    BY <1>0, <1>10, NewJob DEF Onboard
  <2>2. QED
    BY <1>10, <1>start, <1>on, <2>1 DEF Onboard
<1>11. ASSUME NEW w \in Shell, OnboardEnsure(w) PROVE PointersInductive'
  <2>1. op[w].pc = "exists" /\ op'[w].pc \in {"make", "read"}
        /\ \A v \in Writer \ {w} : op'[v] = op[v]
    BY <1>0, <1>11 DEF OnboardEnsure, JobType
  <2>2. QED
    BY <1>11, <1>busy, <1>on, <2>1 DEF OnboardEnsure, tables
<1>12. ASSUME NEW w \in Shell, OnboardMake(w) PROVE PointersInductive'
  <2>1. Alone(w) /\ op[w].pc = "make" /\ roster' = roster /\ op[w].shard \in Shard
    BY <1>0, <1>12, <1>busy DEF OnboardMake, JobsOK, JobOK
  <2>2. CASE phase[op[w].shard] # "unused"
    BY <1>12, <1>end, <2>1, <2>2 DEF OnboardMake
  <2>3. CASE phase[op[w].shard] = "unused"
    <3>1. /\ op'[w].pc = "read" /\ op'[w].shard = op[w].shard
          /\ \A v \in Writer \ {w} : op'[v] = op[v]
          /\ phase' = [phase EXCEPT ![op[w].shard] = "active"]
      BY <1>0, <1>12, <2>3 DEF OnboardMake, JobType
    <3>2. Alone(w)' /\ Active' \subseteq Active \cup {op[w].shard}
      BY <1>0, <2>1, <3>1 DEF Alone, Active
    <3>3. QED
      BY <2>1, <3>1, <3>2, PointersIdle
  <2>4. QED
    BY <2>2, <2>3
<1>13. ASSUME NEW w \in Shell, AssignRead(w) PROVE PointersInductive'
  BY <1>13, AssignReadPointers
<1>14. ASSUME NEW w \in Shell, AssignCommit(w) PROVE PointersInductive'
  <2>1. /\ Alone(w) /\ op[w].pc = "assign" /\ op[w].shard \in Shard /\ Finish(w)
        /\ phase' = phase /\ roster' = [roster EXCEPT ![op[w].shard] = Seated(op[w].plan)]
    BY <1>0, <1>14, <1>busy DEF AssignCommit, JobsOK, JobOK
  <2>2. op'[w] = Idle /\ \A v \in Writer \ {w} : op'[v] = op[v]
    BY <1>0, <2>1, Finished
  <2>3. Seated(op[w].plan) # {}
    BY <2>1 DEF OverlapInductive, JobsFit, JobFits, PartitionInductive, JobHolds, OnboardHolds
  <2>4. Alone(w)' /\ Active' = Active
    BY <2>1, <2>2 DEF Alone, Active
  <2>5. \A s \in Active \ {DefaultShard} : roster'[s] # {}
    BY <1>0, <2>1, <2>3, Filling DEF Active
  <2>6. QED
    BY <2>1, <2>2, <2>4, <2>5, IdleFields, PointersIdle
<1>15. ASSUME NEW w \in Shell, NEW t \in Shard, NEW members \in SUBSET User,
              ShardCreate(w, t, members)
       PROVE  PointersInductive'
  <2>1. op'[w].pc = "vet" /\ \A v \in Writer \ {w} : op'[v] = op[v]
    BY <1>0, <1>15, NewJob DEF ShardCreate
  <2>2. QED
    BY <1>15, <1>start, <1>on, <2>1 DEF ShardCreate, tables
<1>16. ASSUME NEW w \in Shell, NEW u \in User, VetMember(w, u) PROVE PointersInductive'
  <2>1. op[w].pc = "vet" /\ UNCHANGED <<phase, roster>>
    BY <1>16 DEF VetMember, tables
  <2>2. CASE Finish(w)
    BY <1>busy, <1>end, <2>1, <2>2
  <2>3. CASE ~Finish(w)
    <3>1. op'[w].pc \in {"vet", "insert"} /\ \A v \in Writer \ {w} : op'[v] = op[v]
      BY <1>0, <1>16, <2>3 DEF VetMember, JobType
    <3>2. QED
      BY <1>busy, <1>on, <2>1, <3>1
  <2>4. QED
    BY <2>2, <2>3
<1>17. ASSUME NEW w \in Shell, InsertShard(w) PROVE PointersInductive'
  BY <1>17, InsertPointers
<1>18. ASSUME NEW w \in Shell, NEW u \in User, PlaceMember(w, u) PROVE PointersInductive'
  BY <1>18, PlacePointers
<1>19. ASSUME NEW w \in Shell, ProvisionDefault(w) PROVE PointersInductive'
  <2>1. Alone(w) /\ op[w].pc = "idle" /\ op' = op /\ roster' = roster
    BY <1>19, <1>start DEF ProvisionDefault
  <2>2. Alone(w)' /\ Active' \subseteq Active \cup {DefaultShard}
    BY <1>0, <1>19, <2>1 DEF Alone, ProvisionDefault, Active
  <2>3. QED
    BY <2>1, <2>2, PointersIdle
<1>20. ASSUME NEW t \in Shard, WheelTake(t) PROVE PointersInductive'
  <2>1. Alone(Wheel) /\ op[Wheel].pc = "idle"
    BY <1>20, <1>0, Before, IdleFields DEF WheelTake, PartitionInductive, OneWriter
  <2>2. op'[Wheel].pc \in {"retire", "check"} /\ \A v \in Writer \ {Wheel} : op'[v] = op[v]
    <3>1. CASE roster[t] = {}
      BY <1>0, <1>20, <3>1, NewJob DEF WheelTake
    <3>2. CASE roster[t] # {}
      <4>1. PICK plan \in Plans(roster[t]) :
                   Step(Wheel, Job("check", t, plan, Targets(plan), NoShard, {}))
        BY <1>20, <3>2 DEF WheelTake
      <4>2. QED
        BY <1>0, <4>1, NewJob
    <3>3. QED
      BY <3>1, <3>2
  <2>3. QED
    BY <1>20, <1>on, <2>1, <2>2 DEF WheelTake, tables
<1>21. ASSUME WheelFold PROVE PointersInductive'
  BY <1>21, FoldPointers
<1>22. ASSUME \/ WheelStart \/ WheelRecheck \/ WheelDone
              \/ \E t \in Shard \cup {NoShard} : WheelFlag(t)
              \/ \E t \in Shard : FallsOverdue(t)
              \/ UNCHANGED vars
       PROVE  PointersInductive'
  BY <1>22, PointersKept
     DEF WheelStart, WheelRecheck, WheelDone, WheelFlag, FallsOverdue, tables, vars
<1>23. ~WheelStepFails /\ ~DaemonRestarts /\ \A w \in Shell : ~ShellDies(w)
  BY <1>0, SMT DEF WheelStepFails, DaemonRestarts, ShellDies, Fault
<1>24. QED
  BY <1>1, <1>2, <1>3, <1>4, <1>5, <1>6, <1>7, <1>8, <1>9, <1>10, <1>11, <1>12, <1>13, <1>14,
     <1>15, <1>16, <1>17, <1>18, <1>19, <1>20, <1>21, <1>22, <1>23, Zenon
     DEF Next, ShellStep, RewriteStep, WheelStep, Writer

\* While writers take turns: empty shards, half-moved users and their pointers.
THEOREM PointersSafe ==
    ASSUME TakeTurns
    PROVE  Spec => [](OverlapInductive /\ PartitionInductive /\ PointersInductive)
<1>1. Init => PointersInductive
  <2>1. Init => \A w \in Writer : op[w].pc = "idle"
    BY IdleFields DEF Init
  <2>2. Init => RostersFilled
    BY RosterAssumption DEF Init, RostersFilled, Active
  <2>3. QED
    BY <2>1, <2>2 DEF PointersInductive, PointersHold
<1>2. OverlapInductive /\ PartitionInductive /\ PointersInductive /\ [Next]_vars
      => PointersInductive'
  BY PointersStep
<1>3. QED
  BY <1>1, <1>2, OverlapSafe, TurnsSafe, PTL DEF Spec

\* The daemon can be started again after any commands and sweeps that took turns:
\* checks 34 to 36 of the startup invariants pass.
THEOREM RosterChecksPassAlways == ASSUME TakeTurns PROVE Spec => []RosterChecksPass
<1>1. OverlapInductive /\ PartitionInductive /\ PointersInductive => RosterChecksPass
  <2> SUFFICES ASSUME OverlapInductive, PartitionInductive, PointersInductive, Quiet
               PROVE  Check34 /\ Check35 /\ Check36
    BY DEF RosterChecksPass
  <2>1. \A u \in User : Agree(u)
    BY IdleHolds DEF PartitionInductive, Quiet
  <2>2. Check34
    BY <2>1 DEF Check34, Agree, Active, OverlapInductive, TypeOK, TablesOK
  <2>3. Check35
    BY DEF Check35, PartitionInductive, NoCrossShardUser
  <2>4. Check36
    BY IdleFields DEF Check36, PointersInductive, RostersFilled, Quiet
  <2>5. QED
    BY <2>2, <2>3, <2>4
<1>2. QED
  BY <1>1, PointersSafe, PTL

\* Never do more users than max_size read the boxes of one shard (H-D1), not even
\* between the commits of a reshuffle.
THEOREM BlastRadiusAlways == ASSUME TakeTurns PROVE Spec => []BlastRadius
<1> USE RosterAssumption
<1>1. ASSUME OverlapInductive, PartitionInductive, PointersInductive PROVE BlastRadius
  <2> SUFFICES ASSUME NEW s \in Shard
               PROVE  Cardinality({u \in User : current[u] = s}) <= Cap
    BY DEF BlastRadius
  <2> DEFINE pointing == {u \in User : current[u] = s}
  <2>1. TypeOK /\ roster \in [Shard -> SUBSET User]
    BY <1>1 DEF OverlapInductive, TypeOK, TablesOK
  <2>2. PICK w \in Writer : op[w] # Idle \/ \A v \in Writer : op[v] = Idle
    BY DEF Writer
  <2>3. Alone(w) /\ Settled(w) /\ PointersHold(op[w])
    BY <1>1, <2>1, <2>2, Before DEF PointersInductive
  \* A set of users no larger than one that keeps to the limit keeps to it.
  <2>4. ASSUME NEW group \in SUBSET User, pointing \subseteq group, Cardinality(group) <= Cap
        PROVE  Cardinality(pointing) <= Cap
    <3>1. IsFiniteSet(group)
      BY FS_Subset
    <3>2. Cardinality(pointing) <= Cardinality(group) /\ IsFiniteSet(pointing)
      BY <2>4, <3>1, FS_Subset
    <3>3. Cardinality(pointing) \in Nat /\ Cardinality(group) \in Nat
      BY <3>1, <3>2, FS_CardinalityType
    <3>4. QED
      BY <2>4, <3>2, <3>3, CapBounds, SMT
  <2>5. CASE \A u \in pointing : u \notin InFlight(op[w])
    <3>1. pointing \subseteq roster[s]
      BY <2>3, <2>5 DEF Settled, Agree
    <3>2. Cardinality(roster[s]) <= Cap
      BY <1>1 DEF OverlapInductive, RosterCapped
    <3>3. QED
      BY <2>1, <2>4, <3>1, <3>2
  <2>6. CASE \E u \in pointing : u \in InFlight(op[w])
    <3> DEFINE plan == op[w].plan
    <3>1. op[w].pc = "leftover" /\ op[w].shard # NoShard
      BY <2>3, <2>6 DEF PointersHold, InFlight
    <3>2. PICK primary \in Targets(plan) \ (op[w].todo \cup {op[w].moving}) :
                 \A u \in InFlight(op[w]) : current[u] = primary
      BY <2>3, <3>1 DEF PointersHold
    <3>3. s = primary
      BY <2>6, <3>2
    <3>4. roster[s] = Chunk(plan, s) /\ Cardinality(Seated(plan)) <= Cap
      BY <2>3, <3>1, <3>2, <3>3 DEF PointersHold
    <3>5. ASSUME NEW u \in pointing PROVE u \in Seated(plan)
      <4>1. CASE u \in InFlight(op[w])
        BY <3>1, <4>1 DEF InFlight, Seated
      <4>2. CASE u \notin InFlight(op[w])
        <5>1. u \in roster[s]
          BY <2>3, <4>2 DEF Settled, Agree
        <5>2. QED
          BY <3>4, <5>1 DEF Chunk, Seated
      <4>3. QED
        BY <4>1, <4>2
    <3>6. Seated(plan) \in SUBSET User
      BY DEF Seated
    <3>7. pointing \subseteq Seated(plan)
      BY <3>5
    <3> HIDE DEF plan
    <3>8. QED
      BY <2>4, <3>4, <3>6, <3>7
  <2>7. QED
    BY <2>5, <2>6
<1>2. OverlapInductive /\ PartitionInductive /\ PointersInductive => BlastRadius
  BY <1>1
<1>3. QED
  BY <1>2, PointersSafe, PTL

-----------------------------------------------------------------------------
(* Writers that take turns: the tables implement ShardPartition *)

\* What the mapped shards hold when one writer is at work.
LEMMA View ==
    ASSUME NEW w \in Writer, Alone(w), phase \in [Shard -> {"unused", "active", "retired"}]
    PROVE  /\ Regenerating(w) => Opened = Active \cup op[w].todo
           /\ ~Regenerating(w) => Opened = Active
           /\ \A s \in Active : Members[s] = roster[s]
           /\ \A s \in Shard \ Active :
                 Members[s] = IF Regenerating(w) /\ s \in op[w].todo
                              THEN Chunk(op[w].plan, s) ELSE {}
<1>1. \A v \in Writer : Regenerating(v) => v = w
  BY IdleFields DEF Regenerating, Alone
<1>2. Reserved = IF Regenerating(w) THEN op[w].todo ELSE {}
  BY <1>1 DEF Reserved
<1>3. \A s \in Shard \ Active : Member(s) = IF Regenerating(w) /\ s \in op[w].todo
                                            THEN Chunk(op[w].plan, s) ELSE {}
  BY <1>1 DEF Member, Chunk, Active
<1>4. QED
  BY <1>2, <1>3 DEF Opened, Members, Member, Active

\* The same in the next state.
LEMMA ViewNext ==
    ASSUME NEW w \in Writer, Alone(w)', phase' \in [Shard -> {"unused", "active", "retired"}]
    PROVE  /\ Regenerating(w)' => Opened' = Active' \cup op'[w].todo
           /\ ~Regenerating(w)' => Opened' = Active'
           /\ \A s \in Active' : Members'[s] = roster'[s]
           /\ \A s \in Shard \ Active' :
                 Members'[s] = IF Regenerating(w)' /\ s \in op'[w].todo
                               THEN Chunk(op'[w].plan, s) ELSE {}
<1>1. \A v \in Writer : Regenerating(v)' => v = w
  BY IdleFields DEF Regenerating, Alone
<1>2. Reserved' = IF Regenerating(w)' THEN op'[w].todo ELSE {}
  BY <1>1 DEF Reserved
<1>3. \A s \in Shard \ Active' : Member(s)' = IF Regenerating(w)' /\ s \in op'[w].todo
                                              THEN Chunk(op'[w].plan, s) ELSE {}
  BY <1>1 DEF Member, Chunk, Active
<1>4. QED
  BY <1>2, <1>3 DEF Opened, Members, Member, Active

\* Members is a function whatever its values.
LEMMA MembersFunction ==
    /\ DOMAIN Members = Shard /\ Members = [s \in Shard |-> Members[s]]
    /\ DOMAIN Members' = Shard /\ Members' = [s \in Shard |-> Members'[s]]
  BY DEF Members

\* The instance counts as this module does.
LEMMA SameCount == ASSUME NEW S PROVE Partition!Cardinality(S) = Cardinality(S)
  BY DEF Partition!Cardinality, Cardinality

\* What is mapped to the variables of ShardPartition.
Mapped == <<Opened, Closed, Members>>

\* A step that changes neither rows nor reservations is a stuttering step.
LEMMA Stutter ==
    ASSUME NEW w \in Writer, Alone(w), Alone(w)',
           phase \in [Shard -> {"unused", "active", "retired"}],
           UNCHANGED <<phase, roster>>,
           ~Regenerating(w) \/ op[w].todo = {}, ~Regenerating(w)' \/ op'[w].todo = {}
    PROVE  UNCHANGED Mapped
<1>1. Active' = Active /\ Closed' = Closed
  BY DEF Active, Closed
<1>2. Opened' = Active /\ Opened = Active
  BY <1>1, View, ViewNext
<1>3. \A s \in Shard : Members'[s] = Members[s]
  BY <1>1, View, ViewNext
<1>4. Members' = Members
  BY <1>3, MembersFunction
<1>5. QED
  BY <1>1, <1>2, <1>4 DEF Mapped

\* So is one that leaves rows and jobs alone.
LEMMA StutterKept == ASSUME UNCHANGED <<phase, roster, op>> PROVE UNCHANGED Mapped
  BY DEF Mapped, Opened, Closed, Members, Member, Active, Reserved, Regenerating

\* Only the row of one unused shard appears: it opens with users that had none.
LEMMA Opens ==
    ASSUME NEW w \in Writer, Alone(w), Alone(w)', ~Regenerating(w), ~Regenerating(w)',
           phase \in [Shard -> {"unused", "active", "retired"}],
           roster \in [Shard -> SUBSET User],
           NEW s \in Shard, NEW group \in SUBSET User,
           phase[s] = "unused", phase' = [phase EXCEPT ![s] = "active"],
           roster' = [roster EXCEPT ![s] = group],
           \A t \in Active : roster[t] \cap group = {},
           Cardinality(group) <= MaxListed \/ Cardinality(group) <= TargetSize
    PROVE  Partition!PartitionNext
<1>1. /\ phase' \in [Shard -> {"unused", "active", "retired"}]
      /\ Active' = Active \cup {s} /\ s \notin Active /\ Closed' = Closed /\ s \notin Closed
  BY DEF Active, Closed
<1>2. Opened = Active /\ Opened' = Opened \cup {s}
  BY <1>1, View, ViewNext
<1>3. \A t \in Shard : Members[t] \cap group = {}
  BY View
<1>4. \A t \in Shard : Members'[t] = IF t = s THEN group ELSE Members[t]
  <2>1. Members'[s] = group
    <3>1. s \in Active' /\ roster'[s] = group
      BY <1>1
    <3>2. \A t \in Active' : Members'[t] = roster'[t]
      BY <1>1, ViewNext
    <3>3. QED
      BY <3>1, <3>2
  <2>2. ASSUME NEW t \in Active, t # s PROVE Members'[t] = Members[t]
    <3>1. t \in Active' /\ roster'[t] = roster[t] /\ t \in Shard
      BY <1>1, <2>2 DEF Active
    <3>2. QED
      BY <1>1, <2>2, <3>1, View, ViewNext
  <2>3. ASSUME NEW t \in Shard \ Active, t # s PROVE Members'[t] = Members[t]
    BY <1>1, <2>3, View, ViewNext
  <2>4. QED
    BY <2>1, <2>2, <2>3
<1>5. Members' = [Members EXCEPT ![s] = group]
  BY <1>4, MembersFunction
<1>6. Cardinality(group) <= IF MaxListed > TargetSize THEN MaxListed ELSE TargetSize
  <2>1. Cardinality(group) \in Nat
    BY RosterAssumption, FS_Subset, FS_CardinalityType
  <2>2. QED
    BY <2>1, RosterAssumption, SMT
<1>7. Partition!Open(s, group)
  BY <1>1, <1>2, <1>3, <1>5, <1>6, SameCount
     DEF Partition!Open, Partition!Unused, Partition!Unseated
<1>8. QED
  BY <1>7 DEF Partition!PartitionNext

\* A user joins the roster of an active shard: AssignCommit.
LEMMA Joins ==
    ASSUME OverlapInductive, PartitionInductive, NEW w \in Shell, AssignCommit(w)
    PROVE  Partition!PartitionNext
<1> USE RosterAssumption DEF Writer
<1> DEFINE s == op[w].shard
<1>1. /\ TypeOK /\ JobsOK /\ JobFits(op[w]) /\ roster \in [Shard -> SUBSET User]
      /\ phase \in [Shard -> {"unused", "active", "retired"}]
  BY DEF OverlapInductive, TypeOK, TablesOK, JobsFit
<1>2. op[w] # Idle /\ op[w].pc = "assign"
  BY IdleFields DEF AssignCommit
<1>3. Alone(w) /\ Settled(w) /\ JobHolds(op[w])
  BY <1>1, <1>2, Before
<1>4. PICK u \in User : op[w].who = {u}
  BY <1>1, <1>2 DEF JobFits
<1>5. s \in Active /\ Seated(op[w].plan) = roster[s] \cup {u} /\ current[u] = NoShard
  BY <1>2, <1>3, <1>4 DEF JobHolds, OnboardHolds
<1>6. \A t \in Active : u \notin roster[t]
  BY <1>2, <1>3, <1>5 DEF Settled, InFlight, Agree, Active
<1>7. op'[w] = Idle /\ \A v \in Writer \ {w} : op'[v] = op[v]
  BY <1>1, Finished DEF AssignCommit
<1>8. /\ Alone(w)' /\ ~Regenerating(w) /\ ~Regenerating(w)'
      /\ phase' = phase /\ roster' = [roster EXCEPT ![s] = roster[s] \cup {u}]
  BY <1>2, <1>3, <1>5, <1>7, IdleFields DEF Alone, Regenerating, AssignCommit
<1> HIDE DEF s
<1>9. /\ Active' = Active /\ Closed' = Closed /\ s \in Shard
      /\ phase' \in [Shard -> {"unused", "active", "retired"}]
  BY <1>1, <1>5, <1>8 DEF Active, Closed
<1>10. Opened = Active /\ Opened' = Active
  BY <1>1, <1>3, <1>8, <1>9, View, ViewNext
<1>11. \A t \in Shard : Members[t] = IF t \in Active THEN roster[t] ELSE {}
  BY <1>1, <1>3, <1>8, View DEF Active
<1>12. \A t \in Shard : Members'[t] = IF t \in Active THEN roster'[t] ELSE {}
  BY <1>3, <1>8, <1>9, ViewNext DEF Active
<1>13. Members' = [Members EXCEPT ![s] = @ \cup {u}]
  <2>1. \A t \in Shard : Members'[t] = IF t = s THEN Members[s] \cup {u} ELSE Members[t]
    BY <1>1, <1>5, <1>8, <1>9, <1>11, <1>12
  <2>2. QED
    BY <2>1, MembersFunction
<1>14. Cardinality(Members[s]) < MaxSize
  <2>1. Cardinality(roster[s] \cup {u}) <= MaxSize
    BY <1>1, <1>2, <1>5 DEF JobFits
  <2>2. IsFiniteSet(roster[s]) /\ u \notin roster[s]
    BY <1>1, <1>5, <1>6, <1>9, FS_Subset
  <2>3. /\ Cardinality(roster[s]) \in Nat
        /\ Cardinality(roster[s] \cup {u}) = Cardinality(roster[s]) + 1
    BY <2>2, FS_CardinalityType, FS_AddElement
  <2>4. Cardinality(roster[s]) < MaxSize
    BY <2>1, <2>3, SMT
  <2>5. QED
    BY <1>5, <1>9, <1>11, <2>4
<1>15. Partition!Join(u, s)
  <2>1. \A t \in Shard : Members[t] \cap {u} = {}
    BY <1>6, <1>11
  <2>2. QED
    BY <1>5, <1>9, <1>10, <1>13, <1>14, <2>1, SameCount DEF Partition!Join, Partition!Unseated
<1>16. QED
  BY <1>9, <1>15 DEF Partition!PartitionNext

\* An empty shard is retired: RetireEmpty.
LEMMA Closes ==
    ASSUME OverlapInductive, PartitionInductive, NEW w \in Writer, RetireEmpty(w)
    PROVE  Partition!PartitionNext
<1> USE RosterAssumption
<1> DEFINE s == op[w].shard
<1>1. /\ TypeOK /\ JobsOK /\ roster \in [Shard -> SUBSET User]
      /\ phase \in [Shard -> {"unused", "active", "retired"}]
  BY DEF OverlapInductive, TypeOK, TablesOK
<1>2. op[w] # Idle /\ op[w].pc = "retire" /\ Finish(w)
  BY IdleFields DEF RetireEmpty, GiveUp
<1>3. Alone(w) /\ JobHolds(op[w])
  BY <1>1, <1>2, Before
<1>4. s \in Active /\ roster[s] = {}
  BY <1>2, <1>3 DEF JobHolds, RewriteHolds
<1>5. op'[w] = Idle /\ \A v \in Writer \ {w} : op'[v] = op[v]
  BY <1>1, <1>2, Finished
<1>6. /\ Alone(w)' /\ ~Regenerating(w) /\ ~Regenerating(w)' /\ s \in Shard
      /\ phase' = [phase EXCEPT ![s] = "retired"] /\ roster' = roster
  BY <1>2, <1>3, <1>4, <1>5, IdleFields DEF Alone, Regenerating, RetireEmpty, Active
<1> HIDE DEF s
<1>7. /\ Active' = Active \ {s} /\ Closed' = Closed \cup {s}
      /\ phase' \in [Shard -> {"unused", "active", "retired"}]
  BY <1>1, <1>6 DEF Active, Closed
<1>8. Opened = Active /\ Opened' = Active \ {s}
  BY <1>1, <1>3, <1>6, <1>7, View, ViewNext
<1>9. \A t \in Shard : Members[t] = IF t \in Active THEN roster[t] ELSE {}
  BY <1>1, <1>3, <1>6, View DEF Active
<1>10. \A t \in Shard : Members'[t] = IF t \in Active' THEN roster[t] ELSE {}
  BY <1>6, <1>7, ViewNext DEF Active
<1>11. \A t \in Shard : Members'[t] = Members[t]
  BY <1>4, <1>7, <1>9, <1>10
<1>12. Members' = Members
  BY <1>11, MembersFunction
<1>13. Partition!Close(s)
  BY <1>4, <1>6, <1>7, <1>8, <1>9, <1>12 DEF Partition!Close
<1>14. QED
  BY <1>6, <1>13 DEF Partition!PartitionNext

\* The first commit of a reshuffle is the whole of it: the chunks still to be created
\* are reserved for their users.
LEMMA Regenerates ==
    ASSUME OverlapInductive, PartitionInductive, NEW w \in Writer, NEW t \in Shard,
           ReshuffleCommit(w, t)
    PROVE  Partition!PartitionNext
<1> USE RosterAssumption
<1> DEFINE old == op[w].shard
           plan == op[w].plan
           new == Targets(plan)
<1>1. /\ TypeOK /\ JobFits(op[w]) /\ roster \in [Shard -> SUBSET User]
      /\ phase \in [Shard -> {"unused", "active", "retired"}]
  BY DEF OverlapInductive, TypeOK, TablesOK, JobsFit
<1>2. /\ Alone(w) /\ Alone(w)' /\ JobHolds(op[w]) /\ op[w].pc = "commit"
      /\ t \in new /\ op[w].todo = new
      /\ op'[w].pc = "leftover" /\ op'[w].shard = old /\ op'[w].plan = plan
      /\ op'[w].todo = new \ {t}
      /\ old \in Active /\ phase[t] = "unused" /\ Seated(plan) = roster[old]
      /\ plan \in [User -> Shard \cup {NoShard}]
      /\ phase' = [phase EXCEPT ![old] = "retired", ![t] = "active"]
      /\ roster' = [roster EXCEPT ![t] = Chunk(plan, t)]
  BY <1>1, CommitEffect
<1>3. \A s \in new : phase[s] = "unused"
  BY <1>2 DEF JobHolds, RewriteHolds
<1>4. \A s \in Shard : Cardinality(Chunk(plan, s)) <= TargetSize
  BY <1>1, <1>2 DEF JobFits
<1> HIDE DEF old, plan, new
<1>5. /\ new \subseteq Shard /\ \A s \in new : Chunk(plan, s) # {}
      /\ UNION {Chunk(plan, s) : s \in new} = Seated(plan)
  <2>1. new \subseteq Shard /\ \A s \in new : Chunk(plan, s) # {}
    BY <1>2 DEF new, Targets, Seated, Chunk
  <2>2. \A s \in new : Chunk(plan, s) \subseteq Seated(plan)
    BY <2>1 DEF Seated, Chunk
  <2>3. \A u \in Seated(plan) : plan[u] \in new /\ u \in Chunk(plan, plan[u])
    BY DEF new, Targets, Seated, Chunk
  <2>4. QED
    BY <2>1, <2>2, <2>3
<1>6. /\ Active' = (Active \ {old}) \cup {t} /\ Closed' = Closed \cup {old} /\ old \in Shard
      /\ phase' \in [Shard -> {"unused", "active", "retired"}]
      /\ \A s \in new : s \notin Active /\ s \notin Closed
      /\ old \notin new
  BY <1>1, <1>2, <1>3 DEF Active, Closed
<1>7. ~Regenerating(w) /\ Regenerating(w)'
  BY <1>2, <1>6 DEF Regenerating
<1>8. Opened = Active /\ Opened' = (Active \ {old}) \cup new
  BY <1>1, <1>2, <1>5, <1>6, <1>7, View, ViewNext
<1>9. \A s \in Shard : Members[s] = IF s \in Active THEN roster[s] ELSE {}
  BY <1>1, <1>2, <1>7, View
<1>10. ASSUME NEW s \in new PROVE Members'[s] = Chunk(plan, s)
  <2>1. CASE s = t
    <3>1. t \in Active' /\ roster'[t] = Chunk(plan, t)
      BY <1>1, <1>2, <1>6
    <3>2. QED
      BY <1>2, <1>6, <2>1, <3>1, ViewNext
  <2>2. CASE s # t
    <3>1. s \in Shard \ Active' /\ s \in op'[w].todo
      BY <1>2, <1>5, <1>6, <2>2
    <3>2. Members'[s] = Chunk(op'[w].plan, s)
      BY <1>2, <1>6, <1>7, <3>1, ViewNext
    <3>3. QED
      BY <1>2, <3>2
  <2>3. QED
    BY <2>1, <2>2
<1>11. ASSUME NEW s \in Shard \ (new \cup {old}) PROVE Members'[s] = Members[s]
  <2>1. CASE s \in Active
    <3>1. s \in Active' /\ roster'[s] = roster[s]
      BY <1>1, <1>2, <1>6, <1>11, <2>1
    <3>2. QED
      BY <1>2, <1>6, <1>9, <2>1, <3>1, ViewNext
  <2>2. CASE s \notin Active
    <3>1. s \in Shard \ Active' /\ s \notin op'[w].todo
      BY <1>2, <1>6, <1>11, <2>2
    <3>2. QED
      BY <1>2, <1>6, <1>9, <2>2, <3>1, ViewNext
  <2>3. QED
    BY <2>1, <2>2
<1>12. Members'[old] = {}
  <2>1. old \in Shard \ Active' /\ old \notin op'[w].todo
    BY <1>2, <1>6
  <2>2. QED
    BY <1>2, <1>6, <2>1, ViewNext
<1>13. UNION {Members'[s] : s \in new} = Members[old]
  <2>1. {Members'[s] : s \in new} = {Chunk(plan, s) : s \in new}
    BY <1>10
  <2>2. QED
    BY <1>2, <1>5, <1>6, <1>9, <2>1
<1>14. /\ \A s \in new : Members'[s] # {} /\ Cardinality(Members'[s]) <= TargetSize
       /\ \A s, r \in new : s # r => Members'[s] \cap Members'[r] = {}
  <2>1. \A s \in new : Members'[s] # {} /\ Cardinality(Members'[s]) <= TargetSize
    BY <1>4, <1>5, <1>10
  <2>2. \A s, r \in new : s # r => Chunk(plan, s) \cap Chunk(plan, r) = {}
    BY DEF Chunk
  <2>3. QED
    BY <1>10, <2>1, <2>2
<1>15. Partition!Regenerate(old, new)
  BY <1>2, <1>6, <1>8, <1>11, <1>12, <1>13, <1>14, SameCount
     DEF Partition!Regenerate, Partition!Unused
<1>16. QED
  BY <1>5, <1>6, <1>15 DEF Partition!PartitionNext

\* A leftover chunk of a reshuffle is there already; one of a fold-in opens.
LEMMA CreateRefines ==
    ASSUME OverlapInductive, PartitionInductive, NEW w \in Writer, NEW t \in Shard,
           CreateLeftover(w, t)
    PROVE  [Partition!PartitionNext]_Mapped
<1> USE RosterAssumption
<1> DEFINE plan == op[w].plan
<1>1. /\ TypeOK /\ JobFits(op[w]) /\ roster \in [Shard -> SUBSET User]
      /\ phase \in [Shard -> {"unused", "active", "retired"}]
  BY DEF OverlapInductive, TypeOK, TablesOK, JobsFit
<1>2. /\ Alone(w) /\ Alone(w)' /\ op[w].pc = "leftover" /\ t \in op[w].todo
      /\ op'[w].pc = "leftover" /\ op'[w].shard = op[w].shard /\ op'[w].plan = plan
      /\ op'[w].todo = op[w].todo \ {t} /\ phase[t] = "unused"
      /\ phase' = [phase EXCEPT ![t] = "active"]
      /\ roster' = [roster EXCEPT ![t] = Chunk(plan, t)]
      /\ t \in Active' /\ t \notin Active /\ roster'[t] = Chunk(plan, t)
      /\ \A s \in Shard \ {t} : (s \in Active' <=> s \in Active) /\ roster'[s] = roster[s]
      /\ \A u \in User : plan[u] \in op[w].todo => OnNoRoster(u)
  BY <1>1, CreateEffect
<1>3. Cardinality(Chunk(plan, t)) <= TargetSize /\ Chunk(plan, t) \in SUBSET User
  BY <1>1, <1>2 DEF JobFits, Chunk
<1> HIDE DEF plan
<1>4. phase' \in [Shard -> {"unused", "active", "retired"}] /\ Closed' = Closed
  BY <1>1, <1>2 DEF Closed
<1>5. CASE op[w].shard = NoShard
  <2>1. ~Regenerating(w) /\ ~Regenerating(w)'
    BY <1>2, <1>5 DEF Regenerating
  <2>2. \A s \in Active : roster[s] \cap Chunk(plan, t) = {}
    BY <1>2 DEF Chunk, OnNoRoster
  <2>3. Cardinality(Chunk(plan, t)) <= TargetSize
    BY <1>3, ChunkCounted, SMT
  <2>4. QED
    BY <1>1, <1>2, <1>3, <2>1, <2>2, <2>3, Opens
<1>6. CASE op[w].shard # NoShard
  <2>1. Regenerating(w) /\ Regenerating(w)'
    BY <1>2, <1>6 DEF Regenerating
  <2>2. Active' = Active \cup {t}
    BY <1>2 DEF Active
  <2>3. Opened' = Opened
    <3>1. Opened = Active \cup op[w].todo
      BY <1>1, <1>2, <2>1, View
    <3>2. Opened' = Active' \cup op'[w].todo
      BY <1>2, <1>4, <2>1, ViewNext
    <3>3. QED
      BY <1>2, <2>2, <3>1, <3>2
  <2>4. ASSUME NEW s \in Shard PROVE Members'[s] = Members[s]
    <3>1. CASE s = t
      <4>1. Members[s] = Chunk(plan, t)
        BY <1>1, <1>2, <2>1, <3>1, View DEF plan
      <4>2. Members'[s] = Chunk(plan, t)
        BY <1>2, <1>4, <3>1, ViewNext
      <4>3. QED
        BY <4>1, <4>2
    <3>2. CASE s # t /\ s \in Active
      BY <1>1, <1>2, <1>4, <3>2, View, ViewNext
    <3>3. CASE s # t /\ s \notin Active
      <4>1. Members[s] = IF s \in op[w].todo THEN Chunk(plan, s) ELSE {}
        BY <1>1, <1>2, <2>1, <3>3, View DEF plan
      <4>2. s \notin Active' /\ (s \in op'[w].todo <=> s \in op[w].todo)
        BY <1>2, <3>3
      <4>3. Members'[s] = IF s \in op'[w].todo THEN Chunk(op'[w].plan, s) ELSE {}
        BY <1>2, <1>4, <2>1, <4>2, ViewNext
      <4>4. QED
        BY <1>2, <4>1, <4>2, <4>3
    <3>4. QED
      BY <3>1, <3>2, <3>3
  <2>5. Members' = Members
    BY <2>4, MembersFunction
  <2>6. QED
    BY <1>4, <2>3, <2>5 DEF Mapped
<1>7. QED
  BY <1>5, <1>6

\* Every step of writers that take turns is one of ShardPartition or a stutter.
LEMMA RefineStep ==
    ASSUME TakeTurns, OverlapInductive, PartitionInductive, [Next]_vars
    PROVE  [Partition!PartitionNext]_Mapped
<1> USE RosterAssumption DEF Writer
<1>0. TypeOK /\ JobsOK /\ op \in [Writer -> JobType] /\ roster \in [Shard -> SUBSET User]
      /\ phase \in [Shard -> {"unused", "active", "retired"}]
      /\ ~Overlap /\ MaxFaults = 0 /\ faults = 0
  BY SMT DEF OverlapInductive, TypeOK, JobsOK, TablesOK, TakeTurns
<1>busy. ASSUME NEW w \in Writer, op[w].pc # "idle" PROVE Alone(w)
  BY <1>0, <1>busy, Before, IdleFields
<1>start. ASSUME NEW w \in Writer, NEW c, MayStart(w, c)
          PROVE  Alone(w) /\ op[w].pc = "idle"
  BY <1>0, <1>start, IdleFields DEF MayStart, Alone
\* A statement before the first write, or the end of a job, touches no shard.
<1>on. ASSUME NEW w \in Writer, Alone(w), \A v \in Writer \ {w} : op'[v] = op[v],
              op[w].pc = "leftover" => op[w].todo = {}, op'[w].pc # "leftover",
              UNCHANGED <<phase, roster>>
       PROVE  UNCHANGED Mapped
  <2>1. Alone(w)'
    BY <1>on DEF Alone
  <2>2. ~Regenerating(w) \/ op[w].todo = {}
    BY <1>on DEF Regenerating
  <2>3. ~Regenerating(w)'
    BY <1>on DEF Regenerating
  <2>4. QED
    BY <1>0, <1>on, <2>1, <2>2, <2>3, Stutter
<1>end. ASSUME NEW w \in Writer, op[w].pc # "idle", Finish(w), UNCHANGED <<phase, roster>>,
               op[w].pc = "leftover" => op[w].todo = {}
        PROVE  UNCHANGED Mapped
  <2>1. op'[w].pc = "idle" /\ \A v \in Writer \ {w} : op'[v] = op[v]
    BY <1>0, <1>end, Finished, IdleFields
  <2>2. QED
    BY <1>busy, <1>on, <1>end, <2>1
<1>1. ASSUME NEW w \in Writer, ReshuffleCheck(w) PROVE UNCHANGED Mapped
  <2>1. op[w].pc = "check" /\ UNCHANGED <<phase, roster>>
    BY <1>1 DEF ReshuffleCheck, tables
  <2>2. CASE Finish(w)
    BY <1>end, <2>1, <2>2
  <2>3. CASE ~Finish(w)
    <3>1. op'[w].pc = "commit" /\ \A v \in Writer \ {w} : op'[v] = op[v]
      BY <1>0, <1>1, <2>3 DEF ReshuffleCheck, GiveUp, JobType
    <3>2. QED
      BY <1>busy, <1>on, <2>1, <3>1
  <2>4. QED
    BY <2>2, <2>3
<1>2. ASSUME NEW w \in Writer, MoveLeftover(w) PROVE UNCHANGED Mapped
  <2>1. /\ op'[w].pc = op[w].pc /\ op'[w].shard = op[w].shard /\ op'[w].plan = op[w].plan
        /\ op'[w].todo = op[w].todo /\ \A v \in Writer \ {w} : op'[v] = op[v]
        /\ phase' = phase /\ roster' = roster
    BY <1>0, <1>2 DEF MoveLeftover, JobType
  <2>2. \A v \in Writer : /\ Regenerating(v)' <=> Regenerating(v)
                          /\ op'[v].todo = op[v].todo /\ op'[v].plan = op[v].plan
    BY <2>1 DEF Regenerating
  <2>3. Reserved' = Reserved /\ \A s \in Shard : Member(s)' = Member(s)
    <3>1. Reserved' = Reserved
      BY <2>2 DEF Reserved
    <3>2. ASSUME NEW s \in Shard PROVE Member(s)' = Member(s)
      BY <2>1, <2>2 DEF Member
    <3>3. QED
      BY <3>1, <3>2
  <2>4. Active' = Active /\ Closed' = Closed
    BY <2>1 DEF Active, Closed
  <2>5. Members' = Members
    BY <2>3, MembersFunction DEF Members
  <2>6. QED
    BY <2>3, <2>4, <2>5 DEF Mapped, Opened
<1>3. ASSUME NEW w \in Writer, ReshuffleDone(w) PROVE UNCHANGED Mapped
  BY <1>3, <1>end DEF ReshuffleDone, tables
<1>4. ASSUME NEW w \in Shell, NEW t \in Shard, ReshuffleRead(w, t) PROVE UNCHANGED Mapped
  <2>1. PICK plan \in Plans(roster[t]) :
               Step(w, Job("check", t, plan, Targets(plan), NoShard, {}))
    BY <1>4 DEF ReshuffleRead
  <2>2. op'[w].pc = "check" /\ \A v \in Writer \ {w} : op'[v] = op[v]
    BY <1>0, <2>1, NewJob
  <2>3. QED
    BY <1>4, <1>start, <1>on, <2>2 DEF ReshuffleRead, tables
<1>5. ASSUME NEW w \in Shell, NEW t \in Shard, EmptyShardRead(w, t) PROVE UNCHANGED Mapped
  <2>1. op'[w].pc = "retire" /\ \A v \in Writer \ {w} : op'[v] = op[v]
    BY <1>0, <1>5, NewJob DEF EmptyShardRead
  <2>2. QED
    BY <1>5, <1>start, <1>on, <2>1 DEF EmptyShardRead, tables
<1>6. ASSUME NEW w \in Shell, NEW u \in User, NEW t \in Shard, Onboard(w, u, t)
      PROVE  UNCHANGED Mapped
  <2>1. op'[w].pc = "exists" /\ \A v \in Writer \ {w} : op'[v] = op[v]
    BY <1>0, <1>6, NewJob DEF Onboard
  <2>2. QED
    BY <1>6, <1>start, <1>on, <2>1 DEF Onboard
<1>7. ASSUME NEW w \in Shell, OnboardEnsure(w) PROVE UNCHANGED Mapped
  <2>1. op[w].pc = "exists" /\ op'[w].pc \in {"make", "read"}
        /\ \A v \in Writer \ {w} : op'[v] = op[v]
    BY <1>0, <1>7 DEF OnboardEnsure, JobType
  <2>2. QED
    BY <1>7, <1>busy, <1>on, <2>1 DEF OnboardEnsure, tables
\* user-onboard creates the shard it was given, empty.
<1>8. ASSUME NEW w \in Shell, OnboardMake(w) PROVE [Partition!PartitionNext]_Mapped
  <2>1. Alone(w) /\ op[w].pc = "make" /\ roster' = roster /\ op[w].shard \in Shard
    BY <1>0, <1>8, <1>busy DEF OnboardMake, JobsOK, JobOK
  <2>2. CASE phase[op[w].shard] # "unused"
    BY <1>8, <1>end, <2>1, <2>2 DEF OnboardMake
  <2>3. CASE phase[op[w].shard] = "unused"
    <3>1. /\ op'[w].pc = "read" /\ \A v \in Writer \ {w} : op'[v] = op[v]
          /\ phase' = [phase EXCEPT ![op[w].shard] = "active"]
      BY <1>0, <1>8, <2>3 DEF OnboardMake, JobType
    <3>2. Alone(w)' /\ ~Regenerating(w) /\ ~Regenerating(w)'
      BY <2>1, <3>1 DEF Alone, Regenerating
    <3>3. roster[op[w].shard] = {}
      BY <2>1, <2>3 DEF PartitionInductive, RostersKnown
    <3>4. roster' = [roster EXCEPT ![op[w].shard] = {}] /\ Cardinality({}) <= TargetSize
      BY <1>0, <2>1, <3>3, FS_EmptySet
    <3>5. {} \in SUBSET User /\ \A s \in Active : roster[s] \cap {} = {}
      OBVIOUS
    <3>6. QED
      BY <1>0, <2>1, <2>3, <3>1, <3>2, <3>4, <3>5, Opens
  <2>4. QED
    BY <2>2, <2>3
<1>9. ASSUME NEW w \in Shell, AssignRead(w) PROVE UNCHANGED Mapped
  <2>1. op[w].pc = "read" /\ UNCHANGED <<phase, roster>>
    BY <1>9 DEF AssignRead, tables
  <2>2. CASE Finish(w)
    BY <1>end, <2>1, <2>2
  <2>3. CASE ~Finish(w)
    <3>1. op'[w].pc = "assign" /\ \A v \in Writer \ {w} : op'[v] = op[v]
      BY <1>0, <1>9, <2>3 DEF AssignRead, JobType
    <3>2. QED
      BY <1>busy, <1>on, <2>1, <3>1
  <2>4. QED
    BY <2>2, <2>3
<1>10. ASSUME NEW w \in Shell, NEW t \in Shard, NEW members \in SUBSET User,
              ShardCreate(w, t, members)
       PROVE  UNCHANGED Mapped
  <2>1. op'[w].pc = "vet" /\ \A v \in Writer \ {w} : op'[v] = op[v]
    BY <1>0, <1>10, NewJob DEF ShardCreate
  <2>2. QED
    BY <1>10, <1>start, <1>on, <2>1 DEF ShardCreate, tables
<1>11. ASSUME NEW w \in Shell, NEW u \in User, VetMember(w, u) PROVE UNCHANGED Mapped
  <2>1. op[w].pc = "vet" /\ UNCHANGED <<phase, roster>>
    BY <1>11 DEF VetMember, tables
  <2>2. CASE Finish(w)
    BY <1>end, <2>1, <2>2
  <2>3. CASE ~Finish(w)
    <3>1. op'[w].pc \in {"vet", "insert"} /\ \A v \in Writer \ {w} : op'[v] = op[v]
      BY <1>0, <1>11, <2>3 DEF VetMember, JobType
    <3>2. QED
      BY <1>busy, <1>on, <2>1, <3>1
  <2>4. QED
    BY <2>2, <2>3
\* shard-create opens a shard with members that are on no active one.
<1>12. ASSUME NEW w \in Shell, InsertShard(w) PROVE [Partition!PartitionNext]_Mapped
  <2> DEFINE group == Seated(op[w].plan)
  <2>1. Alone(w) /\ op[w].pc = "insert" /\ op[w].shard \in Shard
    BY <1>0, <1>12, <1>busy DEF InsertShard, JobsOK, JobOK
  <2>2. CASE phase[op[w].shard] # "unused"
    BY <1>12, <1>end, <2>1, <2>2 DEF InsertShard, IdFree
  <2>3. CASE phase[op[w].shard] = "unused"
    <3>1. /\ op'[w].pc = "place" /\ \A v \in Writer \ {w} : op'[v] = op[v]
          /\ phase' = [phase EXCEPT ![op[w].shard] = "active"]
          /\ roster' = [roster EXCEPT ![op[w].shard] = group]
      BY <1>0, <1>12, <2>3 DEF InsertShard, IdFree, JobType
    <3>2. Alone(w)' /\ ~Regenerating(w) /\ ~Regenerating(w)'
      BY <2>1, <3>1 DEF Alone, Regenerating
    <3>3. group \in SUBSET User /\ Cardinality(group) <= MaxListed
      BY <2>1 DEF OverlapInductive, JobsFit, JobFits, Seated
    <3>4. \A s \in Active : roster[s] \cap group = {}
      <4>1. Settled(w) /\ JobHolds(op[w])
        BY <1>0, <2>1, IdleFields, Before
      <4>2. \A u \in User : Agree(u)
        BY <2>1, <4>1 DEF Settled, InFlight
      <4>3. \A u \in group : current[u] \notin Active
        BY <2>1, <4>1 DEF JobHolds, CreateHolds
      <4>4. QED
        BY <3>3, <4>2, <4>3 DEF Agree, Active
    <3> HIDE DEF group
    <3>5. QED
      BY <1>0, <2>1, <2>3, <3>1, <3>2, <3>3, <3>4, Opens
  <2>4. QED
    BY <2>2, <2>3
<1>13. ASSUME NEW w \in Shell, NEW u \in User, PlaceMember(w, u) PROVE UNCHANGED Mapped
  <2>1. op[w].pc = "place" /\ UNCHANGED <<phase, roster>>
    BY <1>13 DEF PlaceMember
  <2>2. CASE Finish(w)
    BY <1>end, <2>1, <2>2
  <2>3. CASE ~Finish(w)
    <3>1. op'[w].pc = "place" /\ \A v \in Writer \ {w} : op'[v] = op[v]
      BY <1>0, <1>13, <2>1, <2>3 DEF PlaceMember, JobType
    <3>2. QED
      BY <1>busy, <1>on, <2>1, <3>1
  <2>4. QED
    BY <2>2, <2>3
<1>14. ASSUME NEW w \in Shell, ProvisionDefault(w) PROVE [Partition!PartitionNext]_Mapped
  <2>1. Alone(w) /\ op[w].pc = "idle" /\ op' = op /\ roster' = roster
        /\ phase[DefaultShard] = "unused" /\ phase' = [phase EXCEPT ![DefaultShard] = "active"]
    BY <1>14, <1>start DEF ProvisionDefault
  <2>2. Alone(w)' /\ ~Regenerating(w) /\ ~Regenerating(w)'
    BY <2>1 DEF Alone, Regenerating
  <2>3. roster[DefaultShard] = {}
    BY <2>1 DEF PartitionInductive, RostersKnown
  <2>4. roster' = [roster EXCEPT ![DefaultShard] = {}] /\ Cardinality({}) <= TargetSize
    BY <1>0, <2>1, <2>3, FS_EmptySet
  <2>5. {} \in SUBSET User /\ \A s \in Active : roster[s] \cap {} = {}
    OBVIOUS
  <2>6. QED
    BY <1>0, <2>1, <2>2, <2>4, <2>5, Opens
<1>15. ASSUME NEW t \in Shard, WheelTake(t) PROVE UNCHANGED Mapped
  <2>1. Alone(Wheel) /\ op[Wheel].pc = "idle"
    BY <1>15, <1>0, Before, IdleFields DEF WheelTake, PartitionInductive, OneWriter
  <2>2. op'[Wheel].pc \in {"retire", "check"} /\ \A v \in Writer \ {Wheel} : op'[v] = op[v]
    <3>1. CASE roster[t] = {}
      BY <1>0, <1>15, <3>1, NewJob DEF WheelTake
    <3>2. CASE roster[t] # {}
      <4>1. PICK plan \in Plans(roster[t]) :
                   Step(Wheel, Job("check", t, plan, Targets(plan), NoShard, {}))
        BY <1>15, <3>2 DEF WheelTake
      <4>2. QED
        BY <1>0, <4>1, NewJob
    <3>3. QED
      BY <3>1, <3>2
  <2>3. QED
    BY <1>15, <1>on, <2>1, <2>2 DEF WheelTake, tables
<1>16. ASSUME WheelFold PROVE UNCHANGED Mapped
  <2>1. Alone(Wheel) /\ op[Wheel].pc = "idle" /\ UNCHANGED <<phase, roster>>
    BY <1>16, <1>0, Before, IdleFields DEF WheelFold, PartitionInductive, OneWriter, tables
  <2>2. CASE Unassigned = {}
    BY <1>16, <2>1, <2>2, StutterKept DEF WheelFold
  <2>3. CASE Unassigned # {}
    <3>1. PICK plan \in Plans(Unassigned) :
                 Step(Wheel, Job("leftover", NoShard, plan, Targets(plan), NoShard, {}))
      BY <1>16, <2>3 DEF WheelFold
    <3>2. op'[Wheel].shard = NoShard /\ \A v \in Writer \ {Wheel} : op'[v] = op[v]
      BY <1>0, <3>1, NewJob
    <3>3. Alone(Wheel)' /\ ~Regenerating(Wheel) /\ ~Regenerating(Wheel)'
      BY <2>1, <3>2 DEF Alone, Regenerating
    <3>4. QED
      BY <1>0, <2>1, <3>3, Stutter
  <2>4. QED
    BY <2>2, <2>3
<1>17. ASSUME \/ WheelStart \/ WheelRecheck \/ WheelDone
              \/ \E t \in Shard \cup {NoShard} : WheelFlag(t)
              \/ \E t \in Shard : FallsOverdue(t)
              \/ \E w \in Shell, u \in User : UserAdd(w, u)
              \/ UNCHANGED vars
       PROVE  UNCHANGED Mapped
  BY <1>17, StutterKept
     DEF WheelStart, WheelRecheck, WheelDone, WheelFlag, FallsOverdue, UserAdd, tables, vars
<1>18. ~WheelStepFails /\ ~DaemonRestarts /\ \A w \in Shell : ~ShellDies(w)
  BY <1>0, SMT DEF WheelStepFails, DaemonRestarts, ShellDies, Fault
<1>19. ASSUME NEW w \in Writer, RewriteStep(w) PROVE [Partition!PartitionNext]_Mapped
  BY <1>19, <1>1, <1>2, <1>3, Regenerates, CreateRefines, Closes DEF RewriteStep
<1>20. ASSUME NEW w \in Shell, ShellStep(w) PROVE [Partition!PartitionNext]_Mapped
  BY <1>20, <1>4, <1>5, <1>6, <1>7, <1>8, <1>9, <1>10, <1>11, <1>12, <1>13, <1>14, <1>17, <1>19,
     Joins, Zenon DEF ShellStep
<1>21. ASSUME WheelStep PROVE [Partition!PartitionNext]_Mapped
  BY <1>21, <1>15, <1>16, <1>17, <1>19, Zenon DEF WheelStep
<1>22. QED
  BY <1>17, <1>18, <1>20, <1>21, Zenon DEF Next

\* The two writes of a user's place, chunk by chunk, are the atomic regenerations,
\* openings and joins of spec H, as long as writers take turns.
THEOREM PartitionImplemented == ASSUME TakeTurns PROVE Spec => ImplementsPartition
<1>1. Init => Partition!PartitionInit
  <2> SUFFICES ASSUME Init PROVE Partition!PartitionInit
    OBVIOUS
  <2>1. \A w \in Writer : ~Regenerating(w)
    BY IdleFields DEF Init, Regenerating
  <2>2. Active = {} /\ Closed = {} /\ Reserved = {}
    BY <2>1 DEF Init, Active, Closed, Reserved
  <2>3. Members = [s \in Shard |-> {}]
    BY <2>1 DEF Init, Members, Member
  <2>4. QED
    BY <2>2, <2>3 DEF Partition!PartitionInit, Opened
<1>2. OverlapInductive /\ PartitionInductive /\ [Next]_vars
      => [Partition!PartitionNext]_<<Opened, Closed, Members>>
  BY RefineStep DEF Mapped
<1>3. QED
  BY <1>1, <1>2, OverlapSafe, TurnsSafe, PTL
     DEF Spec, ImplementsPartition, Partition!PartitionSpec
=============================================================================
