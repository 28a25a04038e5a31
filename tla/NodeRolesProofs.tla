-------------------------- MODULE NodeRolesProofs --------------------------
(***************************************************************************)
(* Roles, restore and promotion for any number of machines, snapshots,     *)
(* generations and kills: no standby that cannot start, but for the rows   *)
(* no role was asked for, and no promotion that ends with anything but a   *)
(* database that can or the standby's own.                                 *)
(***************************************************************************)
EXTENDS NodeRoles, TLAPS, SequenceTheorems, FiniteSetTheorems

AuthSeq == UNION {[1..k -> AuthState] : k \in 0..MaxAuth}

LEMMA AuthShape ==
    /\ \A s \in AuthSeq : s \in Seq(AuthState) /\ Len(s) \in 0..MaxAuth /\ DOMAIN s = 1..Len(s)
    /\ \A s \in Seq(AuthState) : Len(s) <= MaxAuth => s \in AuthSeq
<1>1. ASSUME NEW s \in AuthSeq
      PROVE  s \in Seq(AuthState) /\ Len(s) \in 0..MaxAuth /\ DOMAIN s = 1..Len(s)
    <2>1. PICK k \in 0..MaxAuth : s \in [1..k -> AuthState] BY DEF AuthSeq
    <2>2. s \in Seq(AuthState) BY <2>1, SeqDef, NodesAssumption
    <2>3. DOMAIN s = 1..Len(s) /\ Len(s) \in Nat BY <2>2, LenProperties
    <2>4. DOMAIN s = 1..k BY <2>1
    <2>5. Len(s) = k BY <2>1, <2>3, <2>4, NodesAssumption
    <2>6. QED BY <2>1, <2>2, <2>3, <2>5
<1>2. ASSUME NEW s \in Seq(AuthState), Len(s) <= MaxAuth PROVE s \in AuthSeq
    <2>1. s \in [1..Len(s) -> AuthState] /\ Len(s) \in 0..MaxAuth
        BY <1>2, LenProperties, ElementOfSeq, NodesAssumption
    <2>2. QED BY <2>1 DEF AuthSeq
<1>3. QED BY <1>1, <1>2

LEMMA DBType ==
    /\ DB = [role : {"active", "standby"}, auth : AuthSeq,
             eu : [Machine -> {"absent", "active", "standby", "retired"}],
             ident : SUBSET Machine, hb : {"none", "never", "fresh", "old"}, stale : SUBSET Machine,
             rows : BOOLEAN]
    /\ NoDB \notin DB
<1>1. DB = [role : {"active", "standby"}, auth : AuthSeq,
             eu : [Machine -> {"absent", "active", "standby", "retired"}],
             ident : SUBSET Machine, hb : {"none", "never", "fresh", "old"}, stale : SUBSET Machine,
             rows : BOOLEAN]
    BY DEF DB, AuthSeq
<1>2. AuthSeq \subseteq Seq(AuthState) BY AuthShape
<1>3. QED BY <1>1, <1>2, NodesAssumption DEF AuthState

LEMMA EmptiedType ==
    ASSUME NEW d \in DB
    PROVE  /\ Emptied(d) \in DB /\ Emptied(d).role = d.role /\ Emptied(d).auth = d.auth
           /\ Emptied(d).eu = d.eu /\ Emptied(d).ident = d.ident /\ ~Emptied(d).rows
BY DBType DEF Emptied

(* What a standby may hold is what lets it start, once it is rid of the other rows. *)
LEMMA StandbyChecks ==
    ASSUME NEW d \in DB, d.role = "standby"
    PROVE  CheckAll(Emptied(d)) <=> d.auth = <<>> /\ Check31(d)
<1> DEFINE e == Emptied(d)
<1>1. e.role = "standby" /\ e.auth = d.auth /\ e.eu = d.eu /\ e.ident = d.ident /\ ~e.rows
    BY EmptiedType
<1> HIDE DEF e
<1>2. CheckAll(e) <=> e.auth = <<>> /\ Check26(e) /\ Check31(e)
    BY <1>1 DEF CheckAll, Check22, Check23, Check42
<1>3. e.auth = <<>> => Active(e) = {} BY DEF Active
<1>4. Check31(e) <=> Check31(d) BY <1>1 DEF Check31
<1>5. QED BY <1>1, <1>2, <1>3, <1>4 DEF Check26, e

GoodDB == {d \in DB : StandbySound(d)}

LEMMA GoodShape ==
    ASSUME NEW d \in DB
    PROVE  d \in GoodDB <=> (d.role = "standby" => d.auth = <<>> /\ Check31(d))
BY StandbyChecks, DBType DEF GoodDB, StandbySound

LEMMA GoodNoDB == NoDB \notin GoodDB /\ NoDB \notin DB /\ StandbySound(NoDB) /\ GoodDB \subseteq DB
BY DBType DEF GoodDB, StandbySound

GoodJob == {j \in Job : j.snap \in GoodDB \cup {NoDB} /\ j.old \in GoodDB \cup {NoDB}}

(* What a command between two of its steps knows of the database it works on. *)
JobFits(j, d) ==
    /\ j.cmd = "init" => d # NoDB /\ d.role = "active" /\ d.auth = <<>> /\ \A n \in Machine : d.eu[n] = "absent"
    /\ j.cmd = "rotate" => d # NoDB /\ d.role = "active"
    /\ j.cmd = "promote" =>
        /\ j.at = "staged" => d # NoDB /\ d.role = "standby"
        /\ j.at \in {"staged", "parted"} => j.snap # NoDB
        /\ j.at \in {"swapped", "roled", "rowed"} => d # NoDB
        /\ j.at \in {"roled", "rowed"} => d.role = "active"
        /\ j.at \in {"parted", "swapped", "roled", "rowed", "failed"} =>
               j.old # NoDB /\ j.old.role = "standby"
    /\ j.cmd \in {"adoptA", "adoptB"} /\ j.at = "parted" => j.snap # NoDB
    /\ j.cmd = "adoptB" =>
        /\ j.at = "parted" => Len(j.snap.auth) < MaxAuth
        /\ j.at \in {"swapped", "retired"} =>
               d # NoDB /\ d.role = "active" /\ Len(d.auth) < MaxAuth

IInv ==
    /\ live \in [Machine -> GoodDB \cup {NoDB}]
    /\ job \in [Machine -> GoodJob]
    /\ bucket \subseteq GoodDB
    /\ \A m \in Machine : JobFits(job[m], live[m])
    /\ run \in [Machine -> {"down", "active", "standby"}]
    /\ beat \in [Machine -> {"none", "fresh", "old"}]
    /\ kills \in 0..MaxKills /\ ops \in 0..MaxOps

LEMMA IInvImplies == IInv => RolesInductive
<1> SUFFICES ASSUME IInv PROVE RolesInductive
    OBVIOUS
<1>1. TypeOK BY GoodNoDB DEF IInv, TypeOK, GoodDB, GoodJob
<1>2. \A d \in bucket : StandbySound(d) BY DEF IInv, GoodDB
<1>3. ASSUME NEW m \in Machine
      PROVE  /\ StandbySound(live[m]) /\ StandbySound(job[m].snap) /\ StandbySound(job[m].old)
             /\ job[m].cmd = "init" => /\ Up(m) /\ live[m].auth = <<>>
                                       /\ \A n \in Machine : live[m].eu[n] = "absent"
    <2>1. live[m] \in GoodDB \cup {NoDB} /\ job[m] \in GoodJob /\ JobFits(job[m], live[m])
        BY DEF IInv
    <2>2. \A d \in GoodDB \cup {NoDB} : StandbySound(d) BY GoodNoDB DEF GoodDB
    <2>3. QED BY <2>1, <2>2 DEF GoodJob, JobFits, Up
<1>4. QED BY <1>1, <1>2, <1>3 DEF RolesInductive

(* A step of one machine, which ends with database d and command j. *)
LEMMA MachineSound ==
    ASSUME IInv, NEW m \in Machine, NEW d \in GoodDB \cup {NoDB}, NEW j \in GoodJob, JobFits(j, d),
           live' = [live EXCEPT ![m] = d] \/ (live' = live /\ d = live[m]),
           job' = [job EXCEPT ![m] = j] \/ (job' = job /\ j = job[m]),
           bucket' \subseteq GoodDB, run' \in [Machine -> {"down", "active", "standby"}],
           beat' \in [Machine -> {"none", "fresh", "old"}],
           kills' \in 0..MaxKills, ops' \in 0..MaxOps
    PROVE  IInv'
<1>1. live' \in [Machine -> GoodDB \cup {NoDB}] /\ live'[m] = d
      /\ \A n \in Machine : n # m => live'[n] = live[n]
    BY DEF IInv
<1>2. job' \in [Machine -> GoodJob] /\ job'[m] = j /\ \A n \in Machine : n # m => job'[n] = job[n]
    BY DEF IInv
<1>3. ASSUME NEW n \in Machine PROVE JobFits(job'[n], live'[n])
    BY <1>1, <1>2 DEF IInv
<1>4. QED BY <1>1, <1>2, <1>3 DEF IInv

LEMMA SpendType == ASSUME ops \in 0..MaxOps, Spend PROVE ops' \in 0..MaxOps
BY NodesAssumption DEF Spend

LEMMA IdleType ==
    /\ Idle \in GoodJob /\ Idle.cmd = "idle"
    /\ \A d : JobFits(Idle, d)
<1>1. Idle \in Job /\ Idle.cmd = "idle" /\ Idle.snap = NoDB /\ Idle.old = NoDB
    BY NodesAssumption DEF Idle, Begun, Job
<1>2. QED BY <1>1 DEF GoodJob, JobFits

LEMMA Facts ==
    ASSUME IInv, NEW m \in Machine
    PROVE  /\ live[m] \in GoodDB \cup {NoDB} /\ job[m] \in GoodJob /\ job[m] \in Job
           /\ JobFits(job[m], live[m]) /\ bucket \subseteq GoodDB
           /\ run \in [Machine -> {"down", "active", "standby"}]
           /\ beat \in [Machine -> {"none", "fresh", "old"}]
           /\ kills \in 0..MaxKills /\ ops \in 0..MaxOps
           /\ Up(m) => live[m] \in GoodDB /\ live[m] \in DB
BY GoodNoDB DEF IInv, GoodJob, Up

LEMMA JobGood ==
    ASSUME NEW j \in Job, j.snap \in GoodDB \cup {NoDB}, j.old \in GoodDB \cup {NoDB}
    PROVE  j \in GoodJob
BY DEF GoodJob

(* An edit of a database that no command waits on: the same role, authority and inventory. *)
LEMMA EditFits ==
    ASSUME NEW j, NEW d \in DB, NEW e \in DB, JobFits(j, d),
           e.role = d.role, e.auth = d.auth, e.eu = d.eu
    PROVE  JobFits(j, e)
BY DBType DEF JobFits

LEMMA EditGood ==
    ASSUME NEW d \in GoodDB, NEW e \in DB, e.role = d.role, e.auth = d.auth, e.eu = d.eu,
           d.ident \subseteq e.ident
    PROVE  e \in GoodDB
BY GoodShape, GoodNoDB DEF Check31

LEMMA ActiveGood == ASSUME NEW d \in DB, d.role = "active" PROVE d \in GoodDB
BY GoodShape

(* A step of a machine that leaves its database and its command alone. *)
LEMMA QuietSound ==
    ASSUME IInv, UNCHANGED <<live, job>>, bucket' \subseteq GoodDB,
           run' \in [Machine -> {"down", "active", "standby"}],
           beat' \in [Machine -> {"none", "fresh", "old"}],
           kills' \in 0..MaxKills, ops' \in 0..MaxOps
    PROVE  IInv'
BY DEF IInv

(* A step of a machine at rest that writes its database and leaves it at rest. *)
LEMMA WriteSound ==
    ASSUME IInv, NEW m \in Machine, NEW d \in GoodDB \cup {NoDB}, live' = [live EXCEPT ![m] = d],
           job[m] = Idle, UNCHANGED <<job, run, bucket, beat, kills>>, ops' \in 0..MaxOps
    PROVE  IInv'
<1>1. job[m] \in GoodJob /\ JobFits(job[m], d) BY IdleType
<1>2. QED BY <1>1, Facts, MachineSound

LEMMA SkeletonType ==
    /\ Skeleton \in DB /\ Skeleton.role = "standby" /\ Skeleton.auth = <<>>
    /\ \A n \in Machine : Skeleton.eu[n] = "absent"
<1>1. <<>> \in Seq(AuthState) /\ Len(<<>>) <= MaxAuth BY NodesAssumption
<1>2. <<>> \in AuthSeq BY <1>1, AuthShape
<1>3. QED BY <1>2, DBType DEF Skeleton

(* The machines as they are installed. *)
THEOREM NodesInit == Init => IInv
<1> SUFFICES ASSUME Init PROVE IInv
    OBVIOUS
<1>1. PICK kind \in {"real", "bootstrap"}, row \in {"absent", "standby"}, known \in SUBSET Machine :
        live = [m \in Machine |-> Installed(m, kind, row, known)]
    BY DEF Init
<1>2. <<>> \in AuthSeq /\ <<kind>> \in AuthSeq
    <2>1. <<>> \in Seq(AuthState) /\ Len(<<>>) <= MaxAuth BY NodesAssumption
    <2>2. <<kind>> \in Seq(AuthState) /\ Len(<<kind>>) <= MaxAuth BY NodesAssumption DEF AuthState
    <2>3. QED BY <2>1, <2>2, AuthShape
<1>3. Skeleton \in GoodDB BY SkeletonType, GoodShape DEF Check31
<1>4. ASSUME NEW m \in Machine PROVE Installed(m, kind, row, known) \in GoodDB
    <2>1. CASE m # First BY <1>3, <2>1 DEF Installed
    <2>2. CASE m = First
        <3> DEFINE inventory == [n \in Machine |-> IF n = m THEN "absent" ELSE row]
                   d == [Skeleton EXCEPT !.role = "active", !.auth = <<kind>>, !.rows = TRUE,
                                         !.ident = known, !.eu = inventory]
        <3>1. inventory \in [Machine -> {"absent", "active", "standby", "retired"}] OBVIOUS
        <3> HIDE DEF inventory
        <3>2. d \in DB /\ d.role = "active" BY <1>2, <3>1, SkeletonType, DBType
        <3>3. Installed(m, kind, row, known) = d BY <2>2 DEF Installed, inventory
        <3>4. QED BY <3>2, <3>3, ActiveGood
    <2>3. QED BY <2>1, <2>2
<1>5. \A m \in Machine : live[m] \in GoodDB BY <1>1, <1>4
<1>6. live \in [Machine -> GoodDB \cup {NoDB}] BY <1>1, <1>5
<1>7. job \in [Machine -> GoodJob] /\ \A m \in Machine : JobFits(job[m], live[m])
    BY IdleType DEF Init
<1>8. QED BY <1>6, <1>7, NodesAssumption DEF Init, IInv

-----------------------------------------------------------------------------
(* init, serve, backups *)

LEMMA BegunType ==
    ASSUME NEW cmd \in {"init", "rotate", "promote", "adoptA", "adoptB"},
           NEW at \in {"schema", "retire", "staged", "parted"},
           NEW d \in GoodDB \cup {NoDB}, NEW gen \in 0..MaxAuth
    PROVE  /\ Begun(cmd, at, d, gen) \in GoodJob
           /\ Begun(cmd, at, d, gen).cmd = cmd /\ Begun(cmd, at, d, gen).at = at
           /\ Begun(cmd, at, d, gen).snap = d
<1> DEFINE j == Begun(cmd, at, d, gen)
<1>1. j.cmd = cmd /\ j.at = at /\ j.snap = d /\ j.old = NoDB BY DEF Begun
<1>2. j \in Job BY GoodNoDB DEF Begun, Job
<1> HIDE DEF j
<1>3. j \in GoodJob BY <1>1, <1>2, JobGood
<1>4. QED BY <1>1, <1>3 DEF j

LEMMA InitSchemaStep == ASSUME IInv, NEW m \in Machine, InitSchema(m) PROVE IInv'
<1> DEFINE d == [Skeleton EXCEPT !.role = "active"]
           j == Begun("init", "schema", NoDB, 0)
<1>1. d \in DB /\ d.role = "active" /\ d.auth = <<>> /\ \A n \in Machine : d.eu[n] = "absent"
    BY SkeletonType, DBType
<1>2. d \in GoodDB BY <1>1, ActiveGood
<1>3. j \in GoodJob /\ j.cmd = "init" BY BegunType, NodesAssumption
<1>4. ops' \in 0..MaxOps BY Facts, SpendType DEF InitSchema, Operator
<1>5. live' = [live EXCEPT ![m] = d] /\ job' = [job EXCEPT ![m] = j]
      /\ UNCHANGED <<run, bucket, beat, kills>>
    BY DEF InitSchema, Put
<1> HIDE DEF d, j
<1>6. JobFits(j, d) BY <1>1, <1>2, <1>3, GoodNoDB DEF JobFits
<1>7. QED BY <1>2, <1>3, <1>4, <1>5, <1>6, Facts, MachineSound

LEMMA InitRoleStep == ASSUME IInv, NEW m \in Machine, InitRole(m) PROVE IInv'
<1>1. live[m] # NoDB /\ live[m].auth = <<>> /\ \A n \in Machine : live[m].eu[n] = "absent"
    BY Facts DEF InitRole, JobFits
<1>2. live[m] \in DB BY <1>1, Facts DEF Up
<1> DEFINE e == [live[m] EXCEPT !.role = "standby"]
           f == [live[m] EXCEPT !.auth = <<"real">>, !.rows = TRUE]
<1>3. e \in GoodDB
    <2>1. e \in DB /\ e.auth = <<>> /\ \A n \in Machine : e.eu[n] = "absent"
        BY <1>1, <1>2, DBType
    <2>2. QED BY <2>1, GoodShape DEF Check31
<1>4. PICK d \in {e, f} : live' = [live EXCEPT ![m] = d]
    BY DEF InitRole, Put
<1>5. f \in GoodDB
    <2>1. <<"real">> \in Seq(AuthState) /\ Len(<<"real">>) <= MaxAuth BY NodesAssumption DEF AuthState
    <2>2. <<"real">> \in AuthSeq BY <2>1, AuthShape
    <2>3. live[m].role = "active" BY Facts DEF InitRole, JobFits
    <2>4. f \in DB /\ f.role = "active" BY <1>2, <2>2, <2>3, DBType
    <2>5. QED BY <2>4, ActiveGood
<1> HIDE DEF e, f
<1>6. d \in GoodDB BY <1>3, <1>4, <1>5
<1>7. job' = [job EXCEPT ![m] = Idle] /\ UNCHANGED <<run, bucket, beat, kills, ops>>
    BY DEF InitRole, Done
<1>8. QED BY <1>4, <1>6, <1>7, Facts, IdleType, MachineSound

LEMMA DaemonStep ==
    ASSUME IInv, NEW m \in Machine,
           ServeActive(m) \/ ServeStandby(m) \/ Stop(m) \/ Backup(m) \/ StandbyBeat(m) \/ BeatAges(m)
    PROVE  IInv'
<1>1. UNCHANGED <<live, job, kills>>
    BY DEF ServeActive, ServeStandby, Starts, Stop, Backup, StandbyBeat, BeatAges
<1>2. bucket' \subseteq GoodDB
    BY Facts DEF ServeActive, ServeStandby, Starts, Stop, Backup, StandbyBeat, BeatAges
<1>3. run' \in [Machine -> {"down", "active", "standby"}]
    BY Facts DEF ServeActive, ServeStandby, Starts, Stop, Backup, StandbyBeat, BeatAges
<1>4. beat' \in [Machine -> {"none", "fresh", "old"}]
    BY Facts DEF ServeActive, ServeStandby, Starts, Stop, Backup, StandbyBeat, BeatAges
<1>5. ops' \in 0..MaxOps
    BY Facts, SpendType DEF ServeActive, ServeStandby, Starts, Stop, Backup, StandbyBeat, BeatAges
<1>6. QED BY <1>1, <1>2, <1>3, <1>4, <1>5, Facts, QuietSound

LEMMA ExpireStep == ASSUME IInv, Expire PROVE IInv'
BY QuietSound DEF Expire, IInv

-----------------------------------------------------------------------------
(* Inventory, heartbeats, authority *)

(* The operator edits the database of an active node. *)
LEMMA ActiveWrite ==
    ASSUME IInv, NEW m \in Machine, NEW d \in DB, d.role = "active", Put(m, d), Operator(m),
           UNCHANGED <<job, run, bucket, beat, kills>>
    PROVE  IInv'
<1>1. d \in GoodDB BY ActiveGood
<1>2. ops' \in 0..MaxOps /\ job[m] = Idle BY Facts, SpendType DEF Operator
<1>3. QED BY <1>1, <1>2, WriteSound DEF Put

LEMMA InventoryStep ==
    ASSUME IInv, NEW m \in Machine, NEW n \in Machine, NEW role \in {"active", "standby"},
           EuNodeAdd(m, n, role) \/ EuNodeRetire(m, n)
    PROVE  IInv'
<1>1. live[m] \in DB /\ live[m].role = "active"
    BY Facts DEF EuNodeAdd, EuNodeRetire, RequireActive
<1>2. CASE EuNodeAdd(m, n, role)
    <2> DEFINE d == [live[m] EXCEPT !.eu[n] = role]
    <2>1. d \in DB /\ d.role = "active" BY <1>1, DBType
    <2>2. QED BY <1>2, <2>1, ActiveWrite DEF EuNodeAdd
<1>3. CASE EuNodeRetire(m, n)
    <2> DEFINE d == [live[m] EXCEPT !.eu[n] = "retired"]
    <2>1. d \in DB /\ d.role = "active" BY <1>1, DBType
    <2>2. QED BY <1>3, <2>1, ActiveWrite DEF EuNodeRetire
<1>4. QED BY <1>2, <1>3

(* The commands that ask for no role. *)
LEMMA UnaskedStep == ASSUME IInv, NEW m \in Machine, WriteUnasked(m) PROVE IInv'
<1> DEFINE d == [live[m] EXCEPT !.rows = TRUE]
<1>1. live[m] \in GoodDB /\ live[m] \in DB BY Facts DEF WriteUnasked
<1>2. d \in DB /\ d.role = live[m].role /\ d.auth = live[m].auth /\ d.eu = live[m].eu
      /\ live[m].ident \subseteq d.ident
    BY <1>1, DBType
<1> HIDE DEF d
<1>3. d \in GoodDB BY <1>1, <1>2, EditGood
<1>4. ops' \in 0..MaxOps /\ job[m] = Idle BY Facts, SpendType DEF WriteUnasked, Operator
<1>5. live' = [live EXCEPT ![m] = d] /\ UNCHANGED <<job, run, bucket, beat, kills>>
    BY DEF WriteUnasked, Put, d
<1>6. QED BY <1>3, <1>4, <1>5, WriteSound

LEMMA KeygenStep ==
    ASSUME IInv, NEW m \in Machine, NEW n \in Machine, Keygen(m, n) PROVE IInv'
<1> DEFINE d == [live[m] EXCEPT !.ident = @ \cup {n}]
<1>1. live[m] \in GoodDB /\ live[m] \in DB BY Facts DEF Keygen
<1>2. d \in DB /\ d.role = live[m].role /\ d.auth = live[m].auth /\ d.eu = live[m].eu
      /\ live[m].ident \subseteq d.ident
    BY <1>1, DBType
<1> HIDE DEF d
<1>3. d \in GoodDB BY <1>1, <1>2, EditGood
<1>4. ops' \in 0..MaxOps /\ job[m] = Idle BY Facts, SpendType DEF Keygen, Operator
<1>5. live' = [live EXCEPT ![m] = d] /\ UNCHANGED <<job, run, bucket, beat, kills>>
    BY DEF Keygen, Put, d
<1>6. QED BY <1>3, <1>4, <1>5, WriteSound

(* A row of the alert log or of the poller: a command that runs beside it does not notice. *)
LEMMA NoticeSound ==
    ASSUME IInv, NEW m \in Machine, Up(m), NEW e \in DB, e.role = live[m].role,
           e.auth = live[m].auth, e.eu = live[m].eu, e.ident = live[m].ident,
           Put(m, e), UNCHANGED <<job, run, bucket, beat, kills>>, ops' \in 0..MaxOps
    PROVE  IInv'
<1>1. live[m] \in GoodDB /\ live[m] \in DB /\ JobFits(job[m], live[m]) /\ job[m] \in GoodJob BY Facts
<1>2. e \in GoodDB BY <1>1, EditGood
<1>3. JobFits(job[m], e) BY <1>1, EditFits
<1>4. QED BY <1>1, <1>2, <1>3, Facts, MachineSound DEF Put

LEMMA HeartbeatStep ==
    ASSUME IInv, NEW m \in Machine, ObsHeartbeat(m) \/ PollStandbys(m) PROVE IInv'
<1>1. Up(m) /\ live[m] \in DB BY Facts DEF ObsHeartbeat, PollStandbys
<1>2. CASE ObsHeartbeat(m)
    <2>1. PICK h \in {"fresh", "never"} : Put(m, [live[m] EXCEPT !.hb = h])
        BY <1>2 DEF ObsHeartbeat
    <2> DEFINE e == [live[m] EXCEPT !.hb = h]
    <2>2. e \in DB /\ e.role = live[m].role /\ e.auth = live[m].auth /\ e.eu = live[m].eu
          /\ e.ident = live[m].ident
        BY <1>1, DBType
    <2>3. ops' \in 0..MaxOps BY <1>2, Facts, SpendType DEF ObsHeartbeat, Operator
    <2>4. UNCHANGED <<job, run, bucket, beat, kills>> BY <1>2 DEF ObsHeartbeat
    <2> HIDE DEF e
    <2>5. Put(m, e) BY <2>1 DEF e
    <2>6. QED BY <1>1, <2>2, <2>3, <2>4, <2>5, NoticeSound
<1>3. CASE PollStandbys(m)
    <2> DEFINE gone == {n \in Standbys(live[m]) : Silent(n)}
               e == [live[m] EXCEPT !.stale = (live[m].stale \ Standbys(live[m])) \cup gone]
    <2>1. gone \subseteq Machine BY DEF Standbys
    <2>2. Put(m, e) BY <1>3 DEF PollStandbys
    <2>3. UNCHANGED <<job, run, bucket, beat, kills>> /\ ops' \in 0..MaxOps
        BY <1>3, Facts DEF PollStandbys
    <2> HIDE DEF gone
    <2>4. e \in DB /\ e.role = live[m].role /\ e.auth = live[m].auth /\ e.eu = live[m].eu
          /\ e.ident = live[m].ident
        BY <1>1, <2>1, DBType
    <2> HIDE DEF e
    <2>5. QED BY <1>1, <2>2, <2>3, <2>4, NoticeSound
<1>4. QED BY <1>2, <1>3

LEMMA CurrentType ==
    ASSUME NEW d \in DB, NEW g \in Current(d)
    PROVE  g \in 1..Len(d.auth) /\ g \in 0..MaxAuth /\ Len(d.auth) \in 0..MaxAuth
           /\ d.auth \in Seq(AuthState) /\ d.auth \in AuthSeq
<1>1. d.auth \in AuthSeq BY DBType
<1>2. d.auth \in Seq(AuthState) /\ Len(d.auth) \in 0..MaxAuth /\ DOMAIN d.auth = 1..Len(d.auth)
    BY <1>1, AuthShape
<1>3. g \in DOMAIN d.auth BY DEF Current, Active
<1>4. QED BY <1>1, <1>2, <1>3, NodesAssumption

LEMMA AppendType ==
    ASSUME NEW s \in AuthSeq, Len(s) < MaxAuth, NEW a \in AuthState
    PROVE  Append(s, a) \in AuthSeq
<1>1. s \in Seq(AuthState) BY AuthShape
<1>2. Append(s, a) \in Seq(AuthState) /\ Len(Append(s, a)) = Len(s) + 1 BY <1>1, AppendProperties
<1>3. Len(s) \in Nat /\ MaxAuth \in Nat BY <1>1, LenProperties, NodesAssumption
<1>4. Len(Append(s, a)) <= MaxAuth BY <1>2, <1>3
<1>5. QED BY <1>2, <1>4, AuthShape

LEMMA RetiredType ==
    ASSUME NEW s \in AuthSeq, NEW g
    PROVE  /\ [s EXCEPT ![g] = "retired"] \in AuthSeq
           /\ Len([s EXCEPT ![g] = "retired"]) = Len(s)
<1> DEFINE t == [s EXCEPT ![g] = "retired"]
<1>1. s \in Seq(AuthState) /\ Len(s) \in 0..MaxAuth /\ s \in [1..Len(s) -> AuthState]
    BY AuthShape, LenProperties, ElementOfSeq
<1>2. t \in [1..Len(s) -> AuthState] /\ DOMAIN t = 1..Len(s) BY <1>1 DEF AuthState
<1>3. t \in AuthSeq BY <1>1, <1>2 DEF AuthSeq
<1>4. DOMAIN t = 1..Len(t) /\ Len(t) \in Nat BY <1>3, AuthShape
<1>5. QED BY <1>1, <1>2, <1>3, <1>4

LEMMA RotateInsertStep == ASSUME IInv, NEW m \in Machine, RotateInsert(m) PROVE IInv'
<1> DEFINE d == [live[m] EXCEPT !.auth = Append(@, "real")]
<1>1. live[m] \in DB /\ live[m].role = "active" BY Facts DEF RotateInsert, RequireActive
<1>2. PICK gen \in Current(live[m]) :
        /\ gen + 1 \notin DOMAIN live[m].auth /\ gen < MaxAuth
        /\ Put(m, d) /\ job' = [job EXCEPT ![m] = Begun("rotate", "retire", NoDB, gen)]
    BY DEF RotateInsert
<1> DEFINE j == Begun("rotate", "retire", NoDB, gen)
<1>3. gen \in 0..MaxAuth /\ Len(live[m].auth) < MaxAuth /\ live[m].auth \in AuthSeq
    <2>1. gen \in 1..Len(live[m].auth) /\ gen \in 0..MaxAuth /\ live[m].auth \in AuthSeq
          /\ Len(live[m].auth) \in 0..MaxAuth
        BY <1>1, CurrentType
    <2>2. DOMAIN live[m].auth = 1..Len(live[m].auth) BY <2>1, AuthShape
    <2>3. QED BY <1>2, <2>1, <2>2, NodesAssumption
<1>4. d \in DB /\ d.role = "active"
    <2>1. Append(live[m].auth, "real") \in AuthSeq BY <1>3, AppendType DEF AuthState
    <2>2. QED BY <1>1, <2>1, DBType
<1>5. j \in GoodJob /\ j.cmd = "rotate" BY <1>3, BegunType
<1> HIDE DEF d, j
<1>6. JobFits(j, d) BY <1>4, <1>5, DBType DEF JobFits
<1>7. ops' \in 0..MaxOps BY Facts, SpendType DEF RotateInsert, Operator
<1>8. live' = [live EXCEPT ![m] = d] /\ job' = [job EXCEPT ![m] = j] BY <1>2 DEF Put, j
<1>9. UNCHANGED <<run, bucket, beat, kills>> BY DEF RotateInsert
<1>10. d \in GoodDB BY <1>4, ActiveGood
<1>11. QED BY <1>5, <1>6, <1>7, <1>8, <1>9, <1>10, Facts, MachineSound

(* The last step of a command. *)
LEMMA EndSound ==
    ASSUME IInv, NEW m \in Machine, NEW d \in GoodDB \cup {NoDB},
           live' = [live EXCEPT ![m] = d] \/ (live' = live /\ d = live[m]), Done(m),
           UNCHANGED <<run, bucket, beat>>, kills' \in 0..MaxKills, ops' \in 0..MaxOps
    PROVE  IInv'
<1>1. Idle \in GoodJob /\ JobFits(Idle, d) BY IdleType
<1>2. QED BY <1>1, Facts, MachineSound DEF Done

LEMMA RotateRetireStep == ASSUME IInv, NEW m \in Machine, RotateRetire(m) PROVE IInv'
<1> DEFINE t == [live[m].auth EXCEPT ![job[m].gen] = "retired"]
           d == [live[m] EXCEPT !.auth = t]
<1>1. live[m] # NoDB /\ live[m].role = "active" BY Facts DEF RotateRetire, JobFits
<1>2. live[m] \in DB BY <1>1, Facts DEF Up
<1>3. t \in AuthSeq BY <1>2, DBType, RetiredType
<1> HIDE DEF t
<1>4. d \in DB /\ d.role = "active" BY <1>1, <1>2, <1>3, DBType
<1>5. d \in GoodDB BY <1>4, ActiveGood
<1>6. live' = [live EXCEPT ![m] = d] BY <1>2, DBType DEF RotateRetire, RotateRetires, Put, t
<1>7. Done(m) /\ UNCHANGED <<run, bucket, beat, kills, ops>> BY DEF RotateRetire
<1>8. QED BY <1>5, <1>6, <1>7, Facts, EndSound

LEMMA MigrateStep == ASSUME IInv, NEW m \in Machine, MigratePlaceholder(m) PROVE IInv'
<1> DEFINE s == live[m].auth
           t == [g \in DOMAIN s |-> IF s[g] = "bootstrap" THEN "real" ELSE s[g]]
           d == [live[m] EXCEPT !.auth = t]
<1>1. live[m] \in DB /\ live[m].role = "active" BY Facts DEF MigratePlaceholder, RequireActive
<1>2. s \in AuthSeq /\ s \in Seq(AuthState) /\ Len(s) \in 0..MaxAuth
    BY <1>1, DBType, AuthShape
<1>3. s \in [1..Len(s) -> AuthState] /\ DOMAIN s = 1..Len(s)
    BY <1>2, ElementOfSeq, LenProperties
<1>4. t \in [1..Len(s) -> AuthState] BY <1>3 DEF AuthState
<1>5. t \in AuthSeq BY <1>2, <1>4 DEF AuthSeq
<1> HIDE DEF t
<1>6. d \in DB /\ d.role = "active" BY <1>1, <1>5, DBType
<1>7. Put(m, d) BY DEF MigratePlaceholder, t
<1>8. QED BY <1>6, <1>7, ActiveWrite DEF MigratePlaceholder

(* Time makes a heartbeat old, in every copy of the database, and nothing else. *)
LEMMA AgedType ==
    ASSUME NEW d \in GoodDB \cup {NoDB}
    PROVE  /\ Aged(d) \in GoodDB \cup {NoDB}
           /\ d = NoDB => Aged(d) = NoDB
           /\ d # NoDB => /\ Aged(d) \in GoodDB /\ Aged(d) # NoDB /\ Aged(d).role = d.role
                          /\ Aged(d).auth = d.auth /\ Aged(d).eu = d.eu
<1>1. CASE d = NoDB BY <1>1 DEF Aged
<1>2. CASE d # NoDB
    <2>1. d \in GoodDB /\ d \in DB BY <1>2, GoodNoDB
    <2>2. CASE d.hb # "fresh" BY <2>1, <2>2, GoodNoDB DEF Aged
    <2>3. CASE d.hb = "fresh"
        <3> DEFINE e == [d EXCEPT !.hb = "old"]
        <3>1. e \in DB /\ e.role = d.role /\ e.auth = d.auth /\ e.eu = d.eu /\ e.ident = d.ident
            BY <2>1, DBType
        <3>2. Aged(d) = e BY <1>2, <2>3 DEF Aged
        <3> HIDE DEF e
        <3>3. e \in GoodDB BY <2>1, <3>1, EditGood
        <3>4. QED BY <1>2, <3>1, <3>2, <3>3, GoodNoDB
    <2>4. QED BY <2>2, <2>3
<1>3. QED BY <1>1, <1>2

LEMMA DaysStep == ASSUME IInv, DaysPass PROVE IInv'
<1>1. live' = [m \in Machine |-> Aged(live[m])] /\ bucket' = {Aged(d) : d \in bucket}
      /\ UNCHANGED <<run, beat, kills>>
    BY DEF DaysPass
<1>2. live' \in [Machine -> GoodDB \cup {NoDB}] BY <1>1, Facts, AgedType
<1>3. bucket' \subseteq GoodDB
    <2>1. \A d \in bucket : Aged(d) \in GoodDB
        BY Facts, AgedType, GoodNoDB DEF IInv
    <2>2. QED BY <1>1, <2>1
<1> DEFINE Later(m) == [job[m] EXCEPT !.snap = Aged(job[m].snap), !.old = Aged(job[m].old)]
<1>4. ASSUME NEW m \in Machine
      PROVE  Later(m) \in GoodJob /\ JobFits(Later(m), Aged(live[m]))
    <2> DEFINE j == Later(m)
    <2>1. job[m] \in Job /\ job[m].snap \in GoodDB \cup {NoDB} /\ job[m].old \in GoodDB \cup {NoDB}
        BY Facts DEF GoodJob
    <2>2. Aged(job[m].snap) \in GoodDB \cup {NoDB} /\ Aged(job[m].old) \in GoodDB \cup {NoDB}
        BY <2>1, AgedType
    <2>3. /\ j \in Job /\ j.snap = Aged(job[m].snap) /\ j.old = Aged(job[m].old)
          /\ j.cmd = job[m].cmd /\ j.at = job[m].at
        BY <2>1, <2>2, GoodNoDB DEF Job
    <2> HIDE DEF Later
    <2>4. j \in GoodJob BY <2>2, <2>3, JobGood
    <2>5. JobFits(j, Aged(live[m]))
        BY <2>1, <2>3, Facts, AgedType DEF JobFits
    <2>6. QED BY <2>4, <2>5
<1>5. job' = [m \in Machine |-> Later(m)] BY DEF DaysPass
<1>6. ops' \in 0..MaxOps BY SpendType DEF DaysPass, IInv
<1> HIDE DEF Later
<1>7. job' \in [Machine -> GoodJob] /\ \A m \in Machine : JobFits(job'[m], live'[m])
    BY <1>1, <1>4, <1>5
<1>8. QED BY <1>1, <1>2, <1>3, <1>6, <1>7 DEF IInv

-----------------------------------------------------------------------------
(* promote-active *)

LEMMA StandbyGood ==
    ASSUME NEW d \in GoodDB, d.role = "standby"
    PROVE  d # NoDB /\ StandbySound(d) /\ Check22(d) /\ Check26(d)
<1>1. d # NoDB /\ d \in DB /\ StandbySound(d) BY GoodNoDB DEF GoodDB
<1>2. d.auth = <<>> BY <1>1, GoodShape
<1>3. Active(d) = {} BY <1>2 DEF Active
<1>4. QED BY <1>1, <1>3 DEF Check22, Check26

LEMMA PromoteStageStep == ASSUME IInv, NEW m \in Machine, PromoteStage(m) PROVE IInv'
<1>1. PICK d \in bucket : job' = [job EXCEPT ![m] = Begun("promote", "staged", d, 0)]
    BY DEF PromoteStage
<1> DEFINE j == Begun("promote", "staged", d, 0)
<1>2. d \in GoodDB /\ d # NoDB BY Facts, GoodNoDB
<1>3. j \in GoodJob /\ j.cmd = "promote" /\ j.at = "staged" /\ j.snap = d
    BY <1>2, BegunType, NodesAssumption
<1> HIDE DEF j
<1>4. live[m] # NoDB /\ live[m].role = "standby" BY DEF PromoteStage, Up
<1>5. JobFits(j, live[m]) BY <1>2, <1>3, <1>4 DEF JobFits
<1>6. ops' \in 0..MaxOps BY Facts, SpendType DEF PromoteStage, Operator
<1>7. job' = [job EXCEPT ![m] = j] BY <1>1 DEF j
<1>8. UNCHANGED <<live, run, bucket, beat, kills>> BY DEF PromoteStage
<1>9. QED BY <1>3, <1>5, <1>6, <1>7, <1>8, Facts, MachineSound

(* A step of the promotion that is not its last. *)
LEMMA GoesSound ==
    ASSUME IInv, NEW m \in Machine, NEW at \in {"parted", "swapped", "roled", "rowed", "failed"},
           job[m].cmd = "promote", NEW old \in GoodDB, old.role = "standby",
           job' = [job EXCEPT ![m].at = at, ![m].old = old],
           NEW d \in GoodDB \cup {NoDB}, live' = [live EXCEPT ![m] = d],
           at = "parted" => job[m].snap # NoDB,
           at \in {"swapped", "roled", "rowed"} => d # NoDB,
           at \in {"roled", "rowed"} => d.role = "active",
           UNCHANGED <<run, bucket, beat, kills, ops>>
    PROVE  IInv'
<1> DEFINE j == [job[m] EXCEPT !.at = at, !.old = old]
<1>1. job[m] \in Job /\ job[m].snap \in GoodDB \cup {NoDB} BY Facts DEF GoodJob
<1>2. /\ j \in Job /\ j.cmd = "promote" /\ j.at = at /\ j.old = old /\ j.snap = job[m].snap
    BY <1>1, GoodNoDB DEF Job
<1>3. job' = [job EXCEPT ![m] = j] BY DEF IInv
<1> HIDE DEF j
<1>4. j \in GoodJob BY <1>1, <1>2, JobGood
<1>5. JobFits(j, d) BY <1>2, GoodNoDB DEF JobFits
<1>6. QED BY <1>3, <1>4, <1>5, Facts, MachineSound

LEMMA PromotePartStep == ASSUME IInv, NEW m \in Machine, PromotePart(m) PROVE IInv'
<1>1. live[m] # NoDB /\ live[m].role = "standby" /\ job[m].snap # NoDB /\ job[m].cmd = "promote"
    BY Facts DEF PromotePart, At, JobFits
<1>2. live[m] \in GoodDB BY <1>1, Facts
<1>3. QED BY <1>1, <1>2, GoesSound DEF PromotePart, Put

(* The staged copy and the standby's own file, for the steps between the renames and the end. *)
LEMMA Parted ==
    ASSUME IInv, NEW m \in Machine, job[m].cmd = "promote",
           job[m].at \in {"parted", "swapped", "roled", "rowed", "failed"}
    PROVE  job[m].old \in GoodDB /\ job[m].old.role = "standby" /\ job[m].old # NoDB
<1>1. job[m].old # NoDB /\ job[m].old.role = "standby" BY Facts DEF JobFits
<1>2. QED BY <1>1, Facts DEF GoodJob

LEMMA GoIs ==
    ASSUME IInv, NEW m \in Machine, NEW at, Go(m, at)
    PROVE  job' = [job EXCEPT ![m].at = at, ![m].old = job[m].old]
<1>1. job[m] \in Job BY Facts
<1>2. [job[m] EXCEPT !.at = at] = [job[m] EXCEPT !.at = at, !.old = job[m].old] BY <1>1 DEF Job
<1>3. job' = [job EXCEPT ![m] = [job[m] EXCEPT !.at = at]] BY DEF Go, IInv
<1>4. QED BY <1>2, <1>3 DEF IInv

LEMMA PromoteSwapStep == ASSUME IInv, NEW m \in Machine, PromoteSwap(m) PROVE IInv'
<1>1. job[m].cmd = "promote" /\ job[m].at = "parted" BY DEF PromoteSwap, At
<1>2. job[m].snap # NoDB /\ job[m].snap \in GoodDB BY <1>1, Facts DEF JobFits, GoodJob
<1>3. job[m].old \in GoodDB /\ job[m].old.role = "standby" BY <1>1, Parted
<1>4. CASE Put(m, job[m].snap) /\ Go(m, "swapped")
    BY <1>1, <1>2, <1>3, <1>4, GoIs, GoesSound DEF PromoteSwap, Put
<1>5. CASE Put(m, job[m].old) /\ Done(m)
    BY <1>3, <1>5, Facts, EndSound DEF PromoteSwap, Put
<1>6. QED BY <1>4, <1>5 DEF PromoteSwap

LEMMA PromoteRoleStep == ASSUME IInv, NEW m \in Machine, PromoteRole(m) PROVE IInv'
<1> DEFINE d == [live[m] EXCEPT !.role = "active"]
<1>1. job[m].cmd = "promote" /\ job[m].at = "swapped" BY DEF PromoteRole, At
<1>2. live[m] \in DB BY <1>1, Facts DEF JobFits, Up
<1>3. job[m].old \in GoodDB /\ job[m].old.role = "standby" BY <1>1, Parted
<1>4. d \in DB /\ d.role = "active" BY <1>2, DBType
<1>5. live' = [live EXCEPT ![m] = d] BY DEF PromoteRole, Put
<1> HIDE DEF d
<1>6. d \in GoodDB /\ d # NoDB BY <1>4, ActiveGood, GoodNoDB
<1>7. QED BY <1>1, <1>3, <1>4, <1>5, <1>6, GoIs, GoesSound DEF PromoteRole

LEMMA PromoteRowStep == ASSUME IInv, NEW m \in Machine, PromoteRow(m) PROVE IInv'
<1> DEFINE d == IF live[m].eu[m] = "absent" THEN live[m] ELSE [live[m] EXCEPT !.eu[m] = "active"]
<1>1. job[m].cmd = "promote" /\ job[m].at = "roled" BY DEF PromoteRow, At
<1>2. live[m] \in DB /\ live[m].role = "active" BY <1>1, Facts DEF JobFits, Up
<1>3. job[m].old \in GoodDB /\ job[m].old.role = "standby" BY <1>1, Parted
<1>4. d \in DB /\ d.role = "active" BY <1>2, DBType
<1>5. live' = [live EXCEPT ![m] = d] BY DEF PromoteRow, Put
<1> HIDE DEF d
<1>6. d \in GoodDB /\ d # NoDB BY <1>4, ActiveGood, GoodNoDB
<1>7. QED BY <1>1, <1>3, <1>4, <1>5, <1>6, GoIs, GoesSound DEF PromoteRow

LEMMA PromoteEndStep ==
    ASSUME IInv, NEW m \in Machine, PromoteCheck(m) \/ PromoteRollback(m) PROVE IInv'
<1>1. job[m].cmd = "promote" /\ job[m].at \in {"rowed", "failed"}
    BY DEF PromoteCheck, PromoteRollback, At
<1>2. job[m].old \in GoodDB /\ job[m].old.role = "standby" BY <1>1, Parted
<1>3. CASE PromoteRollback(m) BY <1>2, <1>3, Facts, EndSound DEF PromoteRollback, Put
<1>4. CASE PromoteCheck(m)
    <2>1. CASE Done(m) /\ UNCHANGED live BY <1>4, <2>1, Facts, EndSound DEF PromoteCheck
    <2>2. CASE Put(m, NoDB) /\ Go(m, "failed")
        BY <1>1, <1>2, <1>4, <2>2, GoIs, GoesSound DEF PromoteCheck, Put
    <2>3. QED BY <1>4, <2>1, <2>2 DEF PromoteCheck
<1>5. QED BY <1>3, <1>4

-----------------------------------------------------------------------------
(* adopt-restored-state *)

LEMMA AdoptPartStep ==
    ASSUME IInv, NEW m \in Machine, NEW cmd \in {"adoptA", "adoptB"}, AdoptPart(m, cmd) PROVE IInv'
<1>1. PICK d \in bucket : /\ cmd = "adoptB" => Len(d.auth) < MaxAuth
                          /\ job' = [job EXCEPT ![m] = Begun(cmd, "parted", d, 0)]
    BY DEF AdoptPart
<1> DEFINE j == Begun(cmd, "parted", d, 0)
<1>2. d \in GoodDB /\ d # NoDB BY Facts, GoodNoDB
<1>3. j \in GoodJob /\ j.cmd = cmd /\ j.at = "parted" /\ j.snap = d
    BY <1>2, BegunType, NodesAssumption
<1> HIDE DEF j
<1>4. JobFits(j, NoDB) BY <1>1, <1>2, <1>3 DEF JobFits
<1>5. ops' \in 0..MaxOps BY Facts, SpendType DEF AdoptPart, Operator
<1>6. job' = [job EXCEPT ![m] = j] BY <1>1 DEF j
<1>7. live' = [live EXCEPT ![m] = NoDB] /\ UNCHANGED <<run, bucket, beat, kills>>
    BY DEF AdoptPart, Put
<1>8. QED BY <1>3, <1>4, <1>5, <1>6, <1>7, Facts, MachineSound

(* A step of an adoption that is not its last. *)
LEMMA AdoptGoes ==
    ASSUME IInv, NEW m \in Machine, job[m].cmd = "adoptB", NEW at \in {"swapped", "retired"},
           NEW gen \in 0..MaxAuth, job' = [job EXCEPT ![m].at = at, ![m].gen = gen],
           NEW d \in DB, d.role = "active", Len(d.auth) < MaxAuth, live' = [live EXCEPT ![m] = d],
           UNCHANGED <<run, bucket, beat, kills, ops>>
    PROVE  IInv'
<1> DEFINE j == [job[m] EXCEPT !.at = at, !.gen = gen]
<1>1. /\ job[m] \in Job /\ job[m].snap \in GoodDB \cup {NoDB}
      /\ job[m].old \in GoodDB \cup {NoDB}
    BY Facts DEF GoodJob
<1>2. /\ j \in Job /\ j.cmd = "adoptB" /\ j.at = at /\ j.old = job[m].old /\ j.snap = job[m].snap
    BY <1>1 DEF Job
<1>3. job' = [job EXCEPT ![m] = j] BY DEF IInv
<1> HIDE DEF j
<1>4. j \in GoodJob BY <1>1, <1>2, JobGood
<1>5. JobFits(j, d) BY <1>2, GoodNoDB DEF JobFits
<1>6. d \in GoodDB BY ActiveGood
<1>7. QED BY <1>3, <1>4, <1>5, <1>6, Facts, MachineSound

LEMMA AdoptInstallStep == ASSUME IInv, NEW m \in Machine, AdoptInstall(m) PROVE IInv'
<1> DEFINE d == job[m].snap
<1>1. d # NoDB /\ d \in GoodDB /\ d \in DB /\ live' = [live EXCEPT ![m] = d]
      /\ UNCHANGED <<run, bucket, beat, kills, ops>>
    BY Facts, GoodNoDB DEF AdoptInstall, JobFits, GoodJob, Put
<1>2. CASE job[m].cmd = "adoptB" /\ Active(d) # {}
    <2>1. d.auth # <<>> BY <1>2 DEF Active
    <2>2. d.role = "active" BY <1>1, <2>1, GoodShape, DBType
    <2>3. Len(d.auth) < MaxAuth BY <1>2, Facts DEF AdoptInstall, JobFits
    <2>4. job' = [job EXCEPT ![m].at = "swapped", ![m].gen = job[m].gen]
        <3>1. job[m] \in Job BY Facts
        <3>2. [job[m] EXCEPT !.at = "swapped"] = [job[m] EXCEPT !.at = "swapped", !.gen = job[m].gen]
            BY <3>1 DEF Job
        <3>3. job' = [job EXCEPT ![m] = [job[m] EXCEPT !.at = "swapped"]]
            BY <1>2 DEF AdoptInstall, Go, IInv
        <3>4. QED BY <3>2, <3>3 DEF IInv
    <2>5. job[m].gen \in 0..MaxAuth BY Facts DEF Job
    <2>6. QED BY <1>1, <1>2, <2>2, <2>3, <2>4, <2>5, AdoptGoes
<1>3. CASE ~(job[m].cmd = "adoptB" /\ Active(d) # {})
    BY <1>1, <1>3, Facts, EndSound DEF AdoptInstall
<1>4. QED BY <1>2, <1>3

LEMMA AdoptRetireStep == ASSUME IInv, NEW m \in Machine, AdoptRetire(m) PROVE IInv'
<1>1. /\ live[m] # NoDB /\ live[m].role = "active" /\ Len(live[m].auth) < MaxAuth
      /\ job[m].cmd = "adoptB"
    BY Facts DEF AdoptRetire, At, JobFits
<1>2. live[m] \in DB /\ live[m].auth \in AuthSeq BY <1>1, Facts, DBType DEF Up
<1>3. PICK gen \in Current(live[m]) :
        /\ Put(m, [live[m] EXCEPT !.auth[gen] = "retired"])
        /\ job' = [job EXCEPT ![m].at = "retired", ![m].gen = gen]
    BY DEF AdoptRetire
<1> DEFINE t == [live[m].auth EXCEPT ![gen] = "retired"]
           d == [live[m] EXCEPT !.auth = t]
<1>4. t \in AuthSeq /\ Len(t) = Len(live[m].auth) BY <1>2, RetiredType
<1>5. live' = [live EXCEPT ![m] = d] BY <1>2, <1>3, DBType DEF Put
<1> HIDE DEF t
<1>6. d \in DB /\ d.role = "active" /\ d.auth = t BY <1>1, <1>2, <1>4, DBType
<1>7. gen \in 0..MaxAuth BY <1>2, CurrentType
<1>8. UNCHANGED <<run, bucket, beat, kills, ops>> BY DEF AdoptRetire
<1> HIDE DEF d
<1>9. QED BY <1>1, <1>3, <1>4, <1>5, <1>6, <1>7, <1>8, AdoptGoes

LEMMA AdoptRekeyStep == ASSUME IInv, NEW m \in Machine, AdoptRekey(m) PROVE IInv'
<1> DEFINE t == Append(live[m].auth, "opaque")
           d == [live[m] EXCEPT !.auth = t]
<1>1. live[m] # NoDB /\ live[m].role = "active" /\ Len(live[m].auth) < MaxAuth
    BY Facts DEF AdoptRekey, At, JobFits
<1>2. live[m] \in DB /\ live[m].auth \in AuthSeq BY <1>1, Facts, DBType DEF Up
<1>3. t \in AuthSeq BY <1>1, <1>2, AppendType DEF AuthState
<1>4. live' = [live EXCEPT ![m] = d] /\ Done(m) /\ UNCHANGED <<run, bucket, beat, kills, ops>>
    BY DEF AdoptRekey, Put
<1> HIDE DEF t
<1>5. d \in DB /\ d.role = "active" BY <1>1, <1>2, <1>3, DBType
<1>6. d \in GoodDB BY <1>5, ActiveGood
<1>7. QED BY <1>4, <1>6, Facts, EndSound

LEMMA KillStep == ASSUME IInv, NEW m \in Machine, Kill(m) PROVE IInv'
<1>1. kills' \in 0..MaxKills /\ ops' \in 0..MaxOps BY Facts, NodesAssumption DEF Kill
<1>2. QED BY <1>1, Facts, EndSound DEF Kill

-----------------------------------------------------------------------------
LEMMA NodesStep == IInv /\ [Next]_vars => IInv'
<1> SUFFICES ASSUME IInv, [Next]_vars PROVE IInv'
    OBVIOUS
<1>1. ASSUME NEW m \in Machine, InitSchema(m) \/ InitRole(m) \/ BeatAges(m) \/ Kill(m) PROVE IInv'
    BY <1>1, InitSchemaStep, InitRoleStep, DaemonStep, KillStep
<1>2. ASSUME NEW m \in Machine, Daemon(m) PROVE IInv'
    BY <1>2, DaemonStep, HeartbeatStep DEF Daemon
<1>3. ASSUME NEW m \in Machine, Inventory(m) PROVE IInv'
    BY <1>3, InventoryStep, KeygenStep, UnaskedStep DEF Inventory
<1>4. ASSUME NEW m \in Machine, Authority(m) PROVE IInv'
    BY <1>4, RotateInsertStep, RotateRetireStep, MigrateStep DEF Authority
<1>5. ASSUME NEW m \in Machine, Promote(m) PROVE IInv'
    BY <1>5, PromoteStageStep, PromotePartStep, PromoteSwapStep, PromoteRoleStep, PromoteRowStep,
       PromoteEndStep DEF Promote
<1>6. ASSUME NEW m \in Machine, Adopt(m) PROVE IInv'
    BY <1>6, AdoptPartStep, AdoptInstallStep, AdoptRetireStep, AdoptRekeyStep DEF Adopt
<1>7. CASE UNCHANGED vars
    <2>1. bucket' \subseteq GoodDB BY <1>7 DEF vars, IInv
    <2>2. QED BY <1>7, <2>1, QuietSound DEF vars, IInv
<1>8. QED BY <1>1, <1>2, <1>3, <1>4, <1>5, <1>6, <1>7, DaysStep, ExpireStep DEF Next

(* Nothing that is written, restored, promoted or killed leaves a standby, or a snapshot of one,
   that its startup checks refuse for anything but the rows that no role was asked for. *)
THEOREM RolesAlways == Spec => []RolesInductive
<1>1. QED BY IInvImplies, NodesInit, NodesStep, PTL DEF Spec

LEMMA GoKeeps ==
    ASSUME IInv, NEW m \in Machine, NEW at, Go(m, at) PROVE job'[m].cmd = job[m].cmd
<1>1. job[m] \in Job /\ job'[m] = [job[m] EXCEPT !.at = at] BY Facts DEF Go, IInv
<1>2. QED BY <1>1 DEF Job

(* Which steps end a promotion that nothing kills. *)
LEMMA OnlyPromoteSettles ==
    ASSUME IInv, Next, NEW m \in Machine, job[m].cmd = "promote", job'[m].cmd = "idle", kills' = kills
    PROVE  PromoteSwap(m) \/ PromoteCheck(m) \/ PromoteRollback(m)
<1>1. job[m] # Idle /\ job'[m] # job[m] /\ job' # job BY IdleType
<1>2. ASSUME DaysPass PROVE FALSE
    <2>1. job'[m] = [job[m] EXCEPT !.snap = Aged(@), !.old = Aged(@)] BY <1>2 DEF DaysPass
    <2>2. job[m] \in Job BY Facts
    <2>3. job'[m].cmd = "promote" BY <2>1, <2>2 DEF Job
    <2>4. QED BY <2>3
<1>3. PICK n \in Machine : \/ InitSchema(n) \/ InitRole(n) \/ Daemon(n) \/ Inventory(n)
                           \/ Authority(n) \/ Promote(n) \/ Adopt(n) \/ BeatAges(n) \/ Kill(n)
    BY <1>1, <1>2 DEF Next, Expire
<1>4. ~BeatAges(n) /\ ~Daemon(n) /\ ~Inventory(n)
    BY <1>1 DEF BeatAges, Daemon, ServeActive, ServeStandby, Stop, Backup, ObsHeartbeat, StandbyBeat,
                PollStandbys, Inventory, WriteUnasked, EuNodeRetire, Keygen, EuNodeAdd
<1>5. ~Kill(n)
    BY Facts DEF Kill
<1>6. n = m
    <2>1. ASSUME NEW row, job' = [job EXCEPT ![n] = row] PROVE n = m
        BY <1>1, <2>1 DEF IInv
    <2>2. ASSUME NEW at, job' = [job EXCEPT ![n].at = at] PROVE n = m
        BY <1>1, <2>2 DEF IInv
    <2>3. ASSUME NEW at, NEW old, job' = [job EXCEPT ![n].at = at, ![n].old = old] PROVE n = m
        BY <1>1, <2>3 DEF IInv
    <2>4. ASSUME NEW at, NEW gen, job' = [job EXCEPT ![n].at = at, ![n].gen = gen] PROVE n = m
        BY <1>1, <2>4 DEF IInv
    <2>5. CASE InitSchema(n) \/ InitRole(n) BY <2>1, <2>5 DEF InitSchema, InitRole, Done
    <2>6. CASE Authority(n)
        BY <1>1, <2>1, <2>6 DEF Authority, RotateInsert, RotateRetire, MigratePlaceholder, Done
    <2>7. CASE Promote(n)
        BY <2>1, <2>2, <2>3, <2>7 DEF Promote, PromoteStage, PromotePart, PromoteSwap, PromoteRole, PromoteRow,
                                      PromoteCheck, PromoteRollback, Go, Done
    <2>8. CASE Adopt(n)
        BY <2>1, <2>2, <2>4, <2>8 DEF Adopt, AdoptPart, AdoptInstall, AdoptRetire, AdoptRekey, Go, Done
    <2>9. QED BY <1>3, <1>4, <1>5, <2>5, <2>6, <2>7, <2>8
<1>7. Promote(m)
    BY <1>1, <1>3, <1>4, <1>5, <1>6
       DEF InitSchema, InitRole, Authority, RotateInsert, RotateRetire, MigratePlaceholder,
           Adopt, AdoptPart, AdoptInstall, AdoptRetire, AdoptRekey, Operator, At
<1>8. ~PromoteStage(m) BY <1>1 DEF PromoteStage, Operator
<1>9. ~PromotePart(m)
    <2>1. SUFFICES ASSUME PromotePart(m) PROVE FALSE OBVIOUS
    <2>2. job[m] \in Job /\ job'[m] = [job[m] EXCEPT !.at = "parted", !.old = live[m]]
        BY <2>1, Facts DEF PromotePart, IInv
    <2>3. job'[m].cmd = job[m].cmd BY <2>2 DEF Job
    <2>4. QED BY <2>3
<1>10. ~PromoteRole(m) /\ ~PromoteRow(m) BY GoKeeps DEF PromoteRole, PromoteRow
<1>11. QED BY <1>7, <1>8, <1>9, <1>10 DEF Promote

LEMMA PromotionEnds ==
    ASSUME IInv, Next, NEW m \in Machine, job[m].cmd = "promote", job'[m] = Idle, kills' = kills
    PROVE  /\ live'[m] # NoDB /\ Check22(live'[m]) /\ Check26(live'[m])
           /\ CheckAll(live'[m]) \/ (live'[m] = job[m].old /\ StandbySound(live'[m]))
<1>1. job[m] # Idle /\ job'[m].cmd = "idle" BY IdleType
<1>2. PromoteSwap(m) \/ PromoteCheck(m) \/ PromoteRollback(m) BY <1>1, OnlyPromoteSettles
<1>3. CASE PromoteSwap(m)
    <2>1. job[m].cmd = "promote" /\ job[m].at = "parted" BY <1>3 DEF PromoteSwap, At
    <2>2. job[m].old \in GoodDB /\ job[m].old.role = "standby" BY <2>1, Parted
    <2>3. ~Go(m, "swapped") BY <1>1, GoKeeps
    <2>4. live' = [live EXCEPT ![m] = job[m].old] BY <1>3, <2>3 DEF PromoteSwap, Put
    <2>5. live'[m] = job[m].old BY <2>4 DEF IInv
    <2>6. QED BY <2>2, <2>5, StandbyGood
<1>4. CASE PromoteCheck(m)
    <2>1. job[m].cmd = "promote" /\ job[m].at = "rowed" BY <1>4 DEF PromoteCheck, At
    <2>2. live[m] # NoDB BY <2>1, Facts DEF JobFits
    <2>3. ~Go(m, "failed") BY <1>1, GoKeeps
    <2>4. CheckAll(live[m]) /\ live' = live BY <1>4, <2>3 DEF PromoteCheck, Accepts
    <2>5. QED BY <2>2, <2>4 DEF CheckAll
<1>5. CASE PromoteRollback(m)
    <2>1. job[m].cmd = "promote" /\ job[m].at = "failed" BY <1>5 DEF PromoteRollback, At
    <2>2. job[m].old \in GoodDB /\ job[m].old.role = "standby" BY <2>1, Parted
    <2>3. live'[m] = job[m].old BY <1>5 DEF PromoteRollback, Put, IInv
    <2>4. QED BY <2>2, <2>3, StandbyGood
<1>6. QED BY <1>2, <1>3, <1>4, <1>5

(* A promotion that is not killed ends with a database that the startup checks accept, or with
   the standby's own file, which they refuse at most for rows that no role was asked for. *)
THEOREM PromotionsSettle == Spec => PromotionSettles
<1> DEFINE Settles == \A m \in Machine : job[m].cmd = "promote" /\ job'[m] = Idle /\ kills' = kills
                        => /\ live'[m] # NoDB
                           /\ CheckAll(live'[m]) \/ (live'[m] = job[m].old /\ StandbySound(live'[m]))
<1>1. IInv /\ [Next]_vars => [Settles]_vars
    BY PromotionEnds
<1>2. QED BY <1>1, NodesInit, NodesStep, PTL DEF Spec, PromotionSettles

-----------------------------------------------------------------------------
(* What serves, serves with one authority: the steps of an unkilled command, and the daemon.  *)
(* A rotation is between its two generations, an adoption has the daemon down, and promotion  *)
(* ends in a database that was checked.                                                       *)

RotateFits(gen, d, r) ==
    \E g \in Active(d) : /\ g # gen /\ gen \in Active(d)
                         /\ r = "active" => Active(d) = {g, gen} /\ d.auth[g] = "real"

ServeFits(j, d, r) ==
    /\ j.cmd # "init"
    /\ j.cmd = "idle" => d # NoDB /\ (r = "active" => Check22(d) /\ Check26(d))
    /\ j.cmd = "rotate" => RotateFits(j.gen, d, r)
    /\ j.cmd \in {"adoptA", "adoptB"} => r = "down"

Serves == kills = 0 => \A m \in Machine : ServeFits(job[m], live[m], run[m])

(* A step of one machine. *)
LEMMA AloneServes ==
    ASSUME Serves, NEW m \in Machine,
           \A n \in Machine \ {m} : live'[n] = live[n] /\ job'[n] = job[n] /\ run'[n] = run[n],
           kills' = kills, kills = 0 => ServeFits(job'[m], live'[m], run'[m])
    PROVE  Serves'
BY DEF Serves

LEMMA MachineServes ==
    ASSUME IInv, Serves, NEW m \in Machine, NEW d, NEW j, NEW r,
           live' = [live EXCEPT ![m] = d] \/ (live' = live /\ d = live[m]),
           job' = [job EXCEPT ![m] = j] \/ (job' = job /\ j = job[m]),
           run' = [run EXCEPT ![m] = r] \/ (run' = run /\ r = run[m]),
           kills' = kills, kills = 0 => ServeFits(j, d, r)
    PROVE  Serves'
<1>1. live'[m] = d /\ \A n \in Machine : n # m => live'[n] = live[n] BY DEF IInv
<1>2. job'[m] = j /\ \A n \in Machine : n # m => job'[n] = job[n] BY DEF IInv
<1>3. run'[m] = r /\ \A n \in Machine : n # m => run'[n] = run[n] BY DEF IInv
<1>4. QED BY <1>1, <1>2, <1>3, AloneServes

(* An edit that leaves the role and the authority alone. *)
LEMMA KeptServes ==
    ASSUME NEW j, NEW r, NEW d, NEW e, e # NoDB, e.role = d.role, e.auth = d.auth, ServeFits(j, d, r)
    PROVE  ServeFits(j, e, r)
<1>1. Active(e) = Active(d) BY DEF Active
<1>2. QED BY <1>1 DEF ServeFits, RotateFits, Check22, Check26

LEMMA OneIsSingle ==
    ASSUME NEW d \in DB
    PROVE  Cardinality(Active(d)) = 1 <=> \E g : Active(d) = {g}
<1>1. d.auth \in AuthSeq BY DBType
<1>2. Active(d) \subseteq 1..Len(d.auth) /\ Len(d.auth) \in Nat BY <1>1, AuthShape, LenProperties DEF Active
<1>3. IsFiniteSet(1..Len(d.auth)) BY <1>2, FS_Interval
<1>4. IsFiniteSet(Active(d)) BY <1>2, <1>3, FS_Subset
<1>5. QED BY <1>4, FS_Singleton

(* Between its commits a rotation has two active generations, which no start accepts. *)
LEMMA RotatingRefused ==
    ASSUME NEW d \in DB, NEW gen, NEW r, RotateFits(gen, d, r), d.role = "active" PROVE ~CheckAll(d)
<1>1. PICK g \in Active(d) : g # gen /\ gen \in Active(d) BY DEF RotateFits
<1>2. Cardinality(Active(d)) # 1 BY <1>1, OneIsSingle
<1>3. QED BY <1>2 DEF CheckAll, Check22

LEMMA AtRest ==
    ASSUME IInv, Serves, kills = 0, NEW m \in Machine, job[m] = Idle
    PROVE  live[m] # NoDB /\ (run[m] = "active" => Check22(live[m]) /\ Check26(live[m]))
BY IdleType DEF Serves, ServeFits

LEMMA FitsNow ==
    ASSUME Serves, kills = 0, NEW m \in Machine PROVE ServeFits(job[m], live[m], run[m])
BY DEF Serves

LEMMA ServesDaemon ==
    ASSUME IInv, Serves, NEW m \in Machine,
           ServeActive(m) \/ ServeStandby(m) \/ Stop(m) \/ Backup(m) \/ StandbyBeat(m) \/ BeatAges(m)
    PROVE  Serves'
<1>1. UNCHANGED <<live, job, kills>>
    BY DEF ServeActive, ServeStandby, Starts, Stop, Backup, StandbyBeat, BeatAges
<1>2. PICK r : \/ run' = run /\ r = run[m]
               \/ run' = [run EXCEPT ![m] = r] /\ r \in {"standby", "down"} /\ (r = "standby" => ~Adopting(m))
               \/ run' = [run EXCEPT ![m] = r] /\ Starts(m, "active")
    BY DEF ServeActive, ServeStandby, Starts, Stop, Backup, StandbyBeat, BeatAges
<1>3. ASSUME kills = 0 PROVE ServeFits(job[m], live[m], r)
    <2>1. ServeFits(job[m], live[m], run[m]) BY <1>3, FitsNow
    <2>2. CASE run' = run /\ r = run[m] BY <2>1, <2>2
    <2>3. CASE r \in {"standby", "down"} /\ (r = "standby" => ~Adopting(m))
        BY <2>1, <2>3 DEF ServeFits, RotateFits, Adopting
    <2>4. CASE Starts(m, "active")
        <3>1. CheckAll(live[m]) /\ ~Adopting(m) /\ live[m].role = "active" /\ live[m] \in DB
            BY <2>4, Facts DEF Starts, StartupCheck
        <3>2. job[m].cmd # "rotate" BY <2>1, <3>1, RotatingRefused DEF ServeFits
        <3>3. QED BY <2>1, <3>1, <3>2 DEF ServeFits, Adopting, CheckAll
    <2>5. QED BY <1>2, <2>2, <2>3, <2>4
<1>4. QED BY <1>1, <1>2, <1>3, MachineServes

(* An edit of the database that leaves the role and the authority alone. *)
LEMMA ServesEdit ==
    ASSUME IInv, Serves, NEW m \in Machine, NEW e, e # NoDB, e.role = live[m].role,
           e.auth = live[m].auth, Put(m, e), UNCHANGED <<job, run, kills>>
    PROVE  Serves'
<1>1. kills = 0 => ServeFits(job[m], e, run[m]) BY FitsNow, KeptServes
<1>2. QED BY <1>1, MachineServes DEF Put

LEMMA ServesInventory ==
    ASSUME IInv, Serves, NEW m \in Machine, Inventory(m) \/ ObsHeartbeat(m) \/ PollStandbys(m)
    PROVE  Serves'
<1>1. live[m] \in DB /\ UNCHANGED <<job, run, kills>>
    BY Facts DEF Inventory, WriteUnasked, EuNodeAdd, EuNodeRetire, Keygen, ObsHeartbeat, PollStandbys, RequireActive, Up
<1>2. PICK e \in DB : Put(m, e) /\ e.role = live[m].role /\ e.auth = live[m].auth
    <2>1. CASE \E n \in Machine, role \in {"active", "standby"} : EuNodeAdd(m, n, role)
        <3>1. PICK n \in Machine, role \in {"active", "standby"} : EuNodeAdd(m, n, role) BY <2>1
        <3> DEFINE e == [live[m] EXCEPT !.eu[n] = role]
        <3>2. e \in DB /\ e.role = live[m].role /\ e.auth = live[m].auth BY <1>1, DBType
        <3>3. QED BY <3>1, <3>2 DEF EuNodeAdd
    <2>2. CASE \E n \in Machine : EuNodeRetire(m, n)
        <3>1. PICK n \in Machine : EuNodeRetire(m, n) BY <2>2
        <3> DEFINE e == [live[m] EXCEPT !.eu[n] = "retired"]
        <3>2. e \in DB /\ e.role = live[m].role /\ e.auth = live[m].auth BY <1>1, DBType
        <3>3. QED BY <3>1, <3>2 DEF EuNodeRetire
    <2>3. CASE \E n \in Machine : Keygen(m, n)
        <3>1. PICK n \in Machine : Keygen(m, n) BY <2>3
        <3> DEFINE e == [live[m] EXCEPT !.ident = @ \cup {n}]
        <3>2. e \in DB /\ e.role = live[m].role /\ e.auth = live[m].auth BY <1>1, DBType
        <3>3. QED BY <3>1, <3>2 DEF Keygen
    <2>4. CASE ObsHeartbeat(m)
        <3>1. PICK h \in {"fresh", "never"} : Put(m, [live[m] EXCEPT !.hb = h]) BY <2>4 DEF ObsHeartbeat
        <3>2. /\ [live[m] EXCEPT !.hb = h] \in DB /\ [live[m] EXCEPT !.hb = h].role = live[m].role
              /\ [live[m] EXCEPT !.hb = h].auth = live[m].auth
            BY <1>1, DBType
        <3>3. QED BY <3>1, <3>2
    <2>5. CASE PollStandbys(m)
        <3> DEFINE gone == {n \in Standbys(live[m]) : Silent(n)}
                   flagged == (live[m].stale \ Standbys(live[m])) \cup gone
                   e == [live[m] EXCEPT !.stale = flagged]
        <3>1. flagged \subseteq Machine BY <1>1, DBType DEF Standbys
        <3>2. Put(m, e) BY <2>5 DEF PollStandbys
        <3> HIDE DEF flagged
        <3>3. e \in DB /\ e.role = live[m].role /\ e.auth = live[m].auth BY <1>1, <3>1, DBType
        <3>4. QED BY <3>2, <3>3
    <2>6. CASE WriteUnasked(m)
        <3> DEFINE e == [live[m] EXCEPT !.rows = TRUE]
        <3>1. e \in DB /\ e.role = live[m].role /\ e.auth = live[m].auth BY <1>1, DBType
        <3>2. QED BY <2>6, <3>1 DEF WriteUnasked
    <2>7. QED BY <2>1, <2>2, <2>3, <2>4, <2>5, <2>6 DEF Inventory
<1>3. e # NoDB BY DBType
<1>4. QED BY <1>1, <1>2, <1>3, ServesEdit

LEMMA ServesInit ==
    ASSUME IInv, Serves, NEW m \in Machine, InitSchema(m) \/ InitRole(m) PROVE Serves'
<1>1. kills' = kills BY DEF InitSchema, InitRole
<1>2. kills # 0
    <2>1. ASSUME kills = 0, InitSchema(m) PROVE FALSE BY <2>1, AtRest DEF InitSchema, Operator, Up
    <2>2. ASSUME kills = 0, InitRole(m) PROVE FALSE BY <2>2, FitsNow DEF InitRole, ServeFits
    <2>3. QED BY <2>1, <2>2
<1>3. QED BY <1>1, <1>2 DEF Serves

(* authority-rotate appends one generation to what was a single one, if the daemon serves. *)
LEMMA ServesRotateInsert ==
    ASSUME IInv, Serves, NEW m \in Machine, RotateInsert(m) PROVE Serves'
<1> DEFINE s == live[m].auth
           t == Append(s, "real")
           d == [live[m] EXCEPT !.auth = t]
           new == Len(s) + 1
<1>1. live[m] \in DB /\ live[m].role = "active" /\ job[m] = Idle
    BY Facts DEF RotateInsert, RequireActive, Operator
<1>2. PICK gen \in Current(live[m]) :
        Put(m, d) /\ job' = [job EXCEPT ![m] = Begun("rotate", "retire", NoDB, gen)]
    BY DEF RotateInsert
<1>3. s \in Seq(AuthState) /\ Len(s) \in Nat /\ DOMAIN s = 1..Len(s) BY <1>1, DBType, AuthShape
<1>4. gen \in 1..Len(s) /\ gen \in Active(live[m]) BY <1>1, CurrentType DEF Current
<1>5. DOMAIN t = 1..new /\ t[new] = "real" /\ \A i \in 1..Len(s) : t[i] = s[i]
    <2>1. "real" \in AuthState BY DEF AuthState
    <2>2. t \in Seq(AuthState) /\ Len(t) = new /\ t[new] = "real" /\ \A i \in 1..Len(s) : t[i] = s[i]
        BY <1>3, <2>1, AppendProperties
    <2>3. QED BY <2>2, LenProperties
<1>6. d.auth = t BY <1>1, DBType
<1>7. UNCHANGED <<run, kills>> BY DEF RotateInsert
<1> DEFINE j == Begun("rotate", "retire", NoDB, gen)
<1>8. j.cmd = "rotate" /\ j.gen = gen BY DEF Begun
<1>9. live' = [live EXCEPT ![m] = d] /\ job' = [job EXCEPT ![m] = j] BY <1>2 DEF Put
<1> HIDE DEF t, d, j
<1>10. Active(d) = Active(live[m]) \cup {new} /\ new # gen
    BY <1>3, <1>4, <1>5, <1>6 DEF Active
<1>11. ASSUME kills = 0, run[m] = "active" PROVE Active(d) = {new, gen}
    <2>1. Cardinality(Active(live[m])) = 1 BY <1>1, <1>11, AtRest DEF Check22
    <2>2. Active(live[m]) = {gen} BY <1>1, <1>4, <2>1, OneIsSingle
    <2>3. QED BY <1>10, <2>2
<1>12. kills = 0 => RotateFits(gen, d, run[m]) BY <1>4, <1>5, <1>6, <1>10, <1>11 DEF RotateFits
<1>13. kills = 0 => ServeFits(j, d, run[m]) BY <1>8, <1>12 DEF ServeFits
<1>14. QED BY <1>7, <1>9, <1>13, MachineServes

LEMMA ServesRotateRetire ==
    ASSUME IInv, Serves, NEW m \in Machine, RotateRetire(m) PROVE Serves'
<1> DEFINE gen == job[m].gen
           t == [live[m].auth EXCEPT ![gen] = "retired"]
           d == [live[m] EXCEPT !.auth = t]
<1>1. live[m] \in DB BY Facts DEF RotateRetire, JobFits, Up
<1>2. t \in AuthSeq /\ live[m].auth \in AuthSeq BY <1>1, DBType, RetiredType
<1>3. d \in DB /\ d.auth = t BY <1>1, <1>2, DBType
<1>4. live' = [live EXCEPT ![m] = d] BY <1>1, DBType DEF RotateRetire, RotateRetires, Put
<1>5. job' = [job EXCEPT ![m] = Idle] /\ UNCHANGED <<run, kills>> BY DEF RotateRetire, Done
<1>6. Active(d) = Active(live[m]) \ {gen} /\ \A g \in Active(d) : d.auth[g] = live[m].auth[g]
    <2>1. DOMAIN t = DOMAIN live[m].auth OBVIOUS
    <2>2. \A g \in DOMAIN t : t[g] = IF g = gen THEN "retired" ELSE live[m].auth[g] OBVIOUS
    <2> HIDE DEF t, d
    <2>3. QED BY <1>3, <2>1, <2>2 DEF Active
<1> HIDE DEF t, d
<1>7. ASSUME kills = 0, run[m] = "active" PROVE Check22(d) /\ Check26(d)
    <2>1. RotateFits(gen, live[m], run[m]) BY <1>7, FitsNow DEF ServeFits, RotateRetire
    <2>2. PICK g \in Active(live[m]) : /\ g # gen /\ Active(live[m]) = {g, gen}
                                       /\ live[m].auth[g] = "real"
        BY <1>7, <2>1 DEF RotateFits
    <2>3. Active(d) = {g} BY <1>6, <2>2
    <2>4. Cardinality(Active(d)) = 1 BY <1>3, <2>3, OneIsSingle
    <2>5. QED BY <1>6, <2>2, <2>3, <2>4 DEF Check22, Check26
<1>8. kills = 0 => ServeFits(Idle, d, run[m]) BY <1>3, <1>7, DBType, IdleType DEF ServeFits
<1>9. QED BY <1>4, <1>5, <1>8, MachineServes

LEMMA ServesMigrate ==
    ASSUME IInv, Serves, NEW m \in Machine, MigratePlaceholder(m) PROVE Serves'
<1> DEFINE s == live[m].auth
           t == [g \in DOMAIN s |-> IF s[g] = "bootstrap" THEN "real" ELSE s[g]]
           d == [live[m] EXCEPT !.auth = t]
<1>1. live[m] \in DB /\ live[m].role = "active" /\ job[m] = Idle
    BY Facts DEF MigratePlaceholder, RequireActive, Operator
<1>2. d.auth = t /\ d.role = live[m].role BY <1>1, DBType
<1>3. live' = [live EXCEPT ![m] = d] /\ UNCHANGED <<job, run, kills>> BY DEF MigratePlaceholder, Put
<1>4. Active(d) = Active(live[m]) /\ \A g \in DOMAIN t : t[g] # "bootstrap"
    <2>1. /\ DOMAIN t = DOMAIN s
          /\ \A g \in DOMAIN t : t[g] = IF s[g] = "bootstrap" THEN "real" ELSE s[g]
        OBVIOUS
    <2> HIDE DEF t, d
    <2>2. QED BY <1>2, <2>1 DEF Active
<1>5. d # NoDB
    <2>1. s \in AuthSeq /\ s \in Seq(AuthState) /\ Len(s) \in 0..MaxAuth
        BY <1>1, DBType, AuthShape
    <2>2. s \in [1..Len(s) -> AuthState] /\ DOMAIN s = 1..Len(s)
        BY <2>1, ElementOfSeq, LenProperties
    <2>3. t \in [1..Len(s) -> AuthState] BY <2>2 DEF AuthState
    <2>4. t \in AuthSeq BY <2>1, <2>3 DEF AuthSeq
    <2> HIDE DEF t
    <2>5. d \in DB BY <1>1, <2>4, DBType
    <2>6. QED BY <2>5, DBType
<1> HIDE DEF t, d
<1>6. ASSUME kills = 0 PROVE ServeFits(job[m], d, run[m])
    <2>1. run[m] = "active" => Check22(live[m]) BY <1>1, <1>6, AtRest
    <2>2. run[m] = "active" => Check22(d) /\ Check26(d)
        BY <1>2, <1>4, <2>1 DEF Check22, Check26, Active
    <2>3. QED BY <1>1, <1>5, <2>2, IdleType DEF ServeFits
<1>7. QED BY <1>3, <1>6, MachineServes

-----------------------------------------------------------------------------
(* Promotion and adoption write one machine, and not what its daemon does. *)
LEMMA PromotesAlone ==
    ASSUME IInv, NEW m \in Machine, Promote(m)
    PROVE  /\ \A n \in Machine \ {m} : live'[n] = live[n] /\ job'[n] = job[n] /\ run'[n] = run[n]
           /\ run'[m] = run[m] /\ kills' = kills
<1>1. UNCHANGED <<run, kills>>
    BY DEF Promote, PromoteStage, PromotePart, PromoteSwap, PromoteRole, PromoteRow, PromoteCheck,
           PromoteRollback
<1>2. \A n \in Machine \ {m} : live'[n] = live[n]
    BY DEF Promote, PromoteStage, PromotePart, PromoteSwap, PromoteRole, PromoteRow, PromoteCheck,
           PromoteRollback, Put, IInv
<1>3. \A n \in Machine \ {m} : job'[n] = job[n]
    BY DEF Promote, PromoteStage, PromotePart, PromoteSwap, PromoteRole, PromoteRow, PromoteCheck,
           PromoteRollback, Go, Done, IInv
<1>4. QED BY <1>1, <1>2, <1>3

LEMMA PromoteGoesOn ==
    ASSUME IInv, NEW m \in Machine, Promote(m)
    PROVE  job'[m].cmd = "promote" \/ (job'[m] = Idle /\ job[m].cmd = "promote")
<1>1. job[m] \in Job /\ job \in [Machine -> GoodJob] BY Facts DEF IInv
<1>2. ASSUME PromoteStage(m) PROVE job'[m].cmd = "promote"
    <2>1. PICK d \in bucket : job' = [job EXCEPT ![m] = Begun("promote", "staged", d, 0)]
        BY <1>2 DEF PromoteStage
    <2>2. job'[m] = Begun("promote", "staged", d, 0) BY <1>1, <2>1
    <2>3. QED BY <2>2 DEF Begun
<1>3. ASSUME PromotePart(m) PROVE job'[m].cmd = "promote"
    <2>1. job'[m] = [job[m] EXCEPT !.at = "parted", !.old = live[m]] /\ job[m].cmd = "promote"
        BY <1>1, <1>3 DEF PromotePart, At
    <2>2. QED BY <1>1, <2>1 DEF Job
<1>4. ASSUME NEW at, Go(m, at), job[m].cmd = "promote" PROVE job'[m].cmd = "promote"
    BY <1>4, GoKeeps
<1>5. Done(m) => job'[m] = Idle BY <1>1 DEF Done
<1>6. QED
    BY <1>2, <1>3, <1>4, <1>5
       DEF Promote, PromoteSwap, PromoteRole, PromoteRow, PromoteCheck, PromoteRollback, At

LEMMA ServesPromote ==
    ASSUME IInv, Serves, Next, NEW m \in Machine, Promote(m) PROVE Serves'
<1>1. CASE job'[m].cmd = "promote"
    <2>1. ServeFits(job'[m], live'[m], run'[m]) BY <1>1 DEF ServeFits
    <2>2. QED BY <2>1, PromotesAlone, AloneServes
<1>2. CASE job'[m] = Idle /\ job[m].cmd = "promote"
    <2>1. live'[m] # NoDB /\ Check22(live'[m]) /\ Check26(live'[m])
        BY <1>2, PromotesAlone, PromotionEnds
    <2>2. ServeFits(job'[m], live'[m], run'[m]) BY <1>2, <2>1, IdleType DEF ServeFits
    <2>3. QED BY <2>2, PromotesAlone, AloneServes
<1>3. QED BY <1>1, <1>2, PromoteGoesOn

LEMMA ServesAdopt ==
    ASSUME IInv, Serves, NEW m \in Machine, Adopt(m) PROVE Serves'
<1>1. job[m] \in Job /\ job \in [Machine -> GoodJob] /\ live \in [Machine -> GoodDB \cup {NoDB}]
    BY Facts DEF IInv
<1>2. UNCHANGED <<run, kills>> BY DEF Adopt, AdoptPart, AdoptInstall, AdoptRetire, AdoptRekey
<1>3. \A n \in Machine \ {m} : live'[n] = live[n]
    BY <1>1 DEF Adopt, AdoptPart, AdoptInstall, AdoptRetire, AdoptRekey, Put
<1>4. \A n \in Machine \ {m} : job'[n] = job[n]
    BY <1>1 DEF Adopt, AdoptPart, AdoptInstall, AdoptRetire, AdoptRekey, Go, Done
<1>5. ASSUME kills = 0, job[m].cmd \in {"adoptA", "adoptB"} PROVE run[m] = "down"
    BY <1>5, FitsNow DEF ServeFits
<1>6. ASSUME kills = 0 PROVE ServeFits(job'[m], live'[m], run'[m])
    <2>1. ASSUME NEW cmd \in {"adoptA", "adoptB"}, AdoptPart(m, cmd)
          PROVE  job'[m].cmd = cmd /\ run[m] = "down"
        <3>1. PICK d \in bucket : job' = [job EXCEPT ![m] = Begun(cmd, "parted", d, 0)]
            BY <2>1 DEF AdoptPart
        <3>2. job'[m] = Begun(cmd, "parted", d, 0) BY <1>1, <3>1
        <3>3. QED BY <2>1, <3>2 DEF Begun, AdoptPart
    <2>2. ASSUME AdoptInstall(m)
          PROVE  run[m] = "down" /\ live'[m] # NoDB
                 /\ (job'[m] = Idle \/ job'[m].cmd \in {"adoptA", "adoptB"})
        <3>1. job[m].snap # NoDB /\ live'[m] = job[m].snap
            BY <1>1, <2>2, Facts DEF AdoptInstall, JobFits, Put
        <3>2. Go(m, "swapped") => job'[m].cmd = job[m].cmd BY GoKeeps
        <3>3. Done(m) => job'[m] = Idle BY <1>1 DEF Done
        <3>4. QED BY <1>5, <1>6, <2>2, <3>1, <3>2, <3>3 DEF AdoptInstall
    <2>3. ASSUME AdoptRetire(m) PROVE run[m] = "down" /\ job'[m].cmd = "adoptB"
        <3>1. PICK gen : job' = [job EXCEPT ![m].at = "retired", ![m].gen = gen]
            BY <2>3 DEF AdoptRetire
        <3>2. job'[m] = [job[m] EXCEPT !.at = "retired", !.gen = gen] BY <1>1, <3>1
        <3>3. job[m].cmd = "adoptB" BY <2>3 DEF AdoptRetire, At
        <3>4. job'[m].cmd = "adoptB" BY <1>1, <3>2, <3>3 DEF Job
        <3>5. QED BY <1>5, <1>6, <3>3, <3>4
    <2>4. ASSUME AdoptRekey(m) PROVE run[m] = "down" /\ job'[m] = Idle /\ live'[m] # NoDB
        <3> DEFINE t == Append(live[m].auth, "opaque")
                   d == [live[m] EXCEPT !.auth = t]
        <3>1. live[m] # NoDB /\ Len(live[m].auth) < MaxAuth /\ job[m].cmd = "adoptB"
            BY <2>4, Facts DEF AdoptRekey, At, JobFits
        <3>2. live[m] \in DB /\ live[m].auth \in AuthSeq BY <3>1, Facts, DBType DEF Up
        <3>3. t \in AuthSeq BY <3>1, <3>2, AppendType DEF AuthState
        <3>4. live'[m] = d BY <1>1, <2>4 DEF AdoptRekey, Put
        <3> HIDE DEF t
        <3>5. d \in DB BY <3>2, <3>3, DBType
        <3>6. job'[m] = Idle BY <1>1, <2>4 DEF AdoptRekey, Done
        <3>7. QED BY <1>5, <1>6, <3>1, <3>4, <3>5, <3>6, DBType
    <2>5. run'[m] = run[m] BY <1>2
    <2>6. QED BY <2>1, <2>2, <2>3, <2>4, <2>5, IdleType DEF Adopt, ServeFits
<1>7. QED BY <1>2, <1>3, <1>4, <1>6, AloneServes

LEMMA ServesDays == ASSUME IInv, Serves, DaysPass PROVE Serves'
<1>1. kills' = kills /\ run' = run BY DEF DaysPass
<1>2. ASSUME kills = 0, NEW m \in Machine PROVE ServeFits(job'[m], live'[m], run'[m])
    <2>1. ServeFits(job[m], live[m], run[m]) BY <1>2, FitsNow
    <2>2. live'[m] = Aged(live[m]) /\ job'[m] = [job[m] EXCEPT !.snap = Aged(@), !.old = Aged(@)]
        BY DEF DaysPass
    <2>3. job'[m].cmd = job[m].cmd /\ job'[m].gen = job[m].gen
        <3>1. job[m] \in Job BY Facts
        <3>2. QED BY <2>2, <3>1 DEF Job
    <2>4. ServeFits(job[m], live'[m], run[m])
        <3>1. CASE live[m] = NoDB BY <2>1, <2>2, <3>1 DEF Aged
        <3>2. CASE live[m] # NoDB BY <2>1, <2>2, <3>2, Facts, AgedType, KeptServes
        <3>3. QED BY <3>1, <3>2
    <2>5. QED BY <1>1, <2>3, <2>4 DEF ServeFits
<1>3. QED BY <1>1, <1>2 DEF Serves

LEMMA ServesStep == IInv /\ Serves /\ [Next]_vars => Serves'
<1> SUFFICES ASSUME IInv, Serves, [Next]_vars PROVE Serves'
    OBVIOUS
<1>1. ASSUME NEW m \in Machine, Kill(m) PROVE Serves'
    <2>1. kills' # 0 BY <1>1, Facts, NodesAssumption DEF Kill
    <2>2. QED BY <2>1 DEF Serves
<1>2. ASSUME NEW m \in Machine, Daemon(m) \/ BeatAges(m) PROVE Serves'
    BY <1>2, ServesDaemon, ServesInventory DEF Daemon
<1>3. ASSUME NEW m \in Machine, Authority(m) PROVE Serves'
    BY <1>3, ServesRotateInsert, ServesRotateRetire, ServesMigrate DEF Authority
<1>4. ASSUME NEW m \in Machine, Promote(m), Next PROVE Serves' BY <1>4, ServesPromote
<1>5. CASE Expire BY <1>5 DEF Expire, Serves
<1>6. CASE UNCHANGED vars BY <1>6 DEF vars, Serves
<1>7. QED BY <1>1, <1>2, <1>3, <1>4, <1>5, <1>6, ServesInit, ServesInventory, ServesAdopt, ServesDays
      DEF Next

LEMMA ServesAtFirst == Init => Serves
<1> SUFFICES ASSUME Init PROVE Serves
    OBVIOUS
<1>1. ASSUME NEW m \in Machine PROVE job[m] = Idle /\ run[m] = "down" BY DEF Init
<1>2. ASSUME NEW m \in Machine PROVE live[m] # NoDB
    <2>1. PICK kind \in {"real", "bootstrap"}, row \in {"absent", "standby"}, known \in SUBSET Machine :
            live = [n \in Machine |-> Installed(n, kind, row, known)]
        BY DEF Init
    <2>2. <<kind>> \in AuthSeq
        <3>1. <<kind>> \in Seq(AuthState) /\ Len(<<kind>>) <= MaxAuth BY NodesAssumption DEF AuthState
        <3>2. QED BY <3>1, AuthShape
    <2>3. CASE m # First BY <2>1, <2>3, SkeletonType, DBType DEF Installed
    <2>4. CASE m = First
        <3> DEFINE inventory == [n \in Machine |-> IF n = m THEN "absent" ELSE row]
                   d == [Skeleton EXCEPT !.role = "active", !.auth = <<kind>>, !.rows = TRUE,
                                         !.ident = known, !.eu = inventory]
        <3>1. inventory \in [Machine -> {"absent", "active", "standby", "retired"}] OBVIOUS
        <3> HIDE DEF inventory
        <3>2. d \in DB BY <2>2, <3>1, SkeletonType, DBType
        <3>3. live[m] = d BY <2>1, <2>4 DEF Installed, inventory
        <3>4. QED BY <3>2, <3>3, DBType
    <2>5. QED BY <2>3, <2>4
<1>3. QED BY <1>1, <1>2, IdleType DEF Serves, ServeFits

(* As long as no command is killed, a daemon that serves as active could be restarted as far as
   its authority goes, for any number of machines, rotations, snapshots and restores. *)
THEOREM ServingAlways == Spec => []ServingIsRestartable
<1>1. IInv /\ Serves => ServingIsRestartable
    <2> SUFFICES ASSUME IInv, Serves, NEW m \in Machine, run[m] = "active", job[m] = Idle, kills = 0
                 PROVE  Up(m) /\ Check22(live[m]) /\ Check26(live[m])
        BY DEF ServingIsRestartable
    <2>1. QED BY AtRest DEF Up
<1>2. IInv /\ Serves /\ [Next]_vars => (IInv /\ Serves)' BY NodesStep, ServesStep
<1>3. Init => IInv /\ Serves BY NodesInit, ServesAtFirst
<1>4. QED BY <1>1, <1>2, <1>3, PTL DEF Spec
=============================================================================
