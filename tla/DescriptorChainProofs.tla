----------------------- MODULE DescriptorChainProofs -----------------------
(***************************************************************************)
(* Proofs about DescriptorChain and DescriptorRefresh, for any exits,       *)
(* operators, boxes and bounds: one signing key is active however signers   *)
(* interleave and are killed, the hash chain is unbroken for as long as     *)
(* they take turns, and a box that trusts every row is never powered down   *)
(* but by outages.                                                          *)
(***************************************************************************)
EXTENDS DescriptorRefresh, FiniteSetTheorems, TLAPS

USE ChainAssumption DEF Signer, Key, Latest

-----------------------------------------------------------------------------
(* What a signer has read stays well typed.  The four ways op changes. *)

LEMMA IdleType == Idle \in JobType
BY DEF Idle, JobType, SignPc

LEMMA JobFields ==
    ASSUME NEW j \in JobType
    PROVE  /\ j.pc \in SignPc /\ j.key \in Key /\ j.prev \in 0..MaxGen
           /\ j.exits \in SUBSET Exit /\ j.gen \in 0..MaxGen
BY DEF JobType

LEMMA JobUpdates ==
    ASSUME NEW j \in JobType, NEW pc \in SignPc
    PROVE  /\ [j EXCEPT !.pc = pc] \in JobType
           /\ \A k \in Key : [j EXCEPT !.pc = pc, !.key = k] \in JobType
           /\ \A n \in 0..MaxGen : [j EXCEPT !.pc = pc, !.prev = n] \in JobType
           /\ \A s \in SUBSET Exit : [j EXCEPT !.pc = pc, !.exits = s] \in JobType
           /\ \A n \in 0..MaxGen : [j EXCEPT !.pc = pc, !.gen = n] \in JobType
BY DEF JobType

-----------------------------------------------------------------------------
(* Every action but DataExit gives one signer p a new job and nobody else. *)

NewJob(p, pc, key, prev, gen) ==
    /\ op' \in [Signer -> JobType]
    /\ op'[p].pc = pc /\ op'[p].key = key /\ op'[p].prev = prev /\ op'[p].gen = gen
    /\ \A q \in Signer \ {p} : op'[q] = op[q]

LEMMA OpUpdate ==
    ASSUME TypeOK, NEW p \in Signer, NEW c \in JobType, op' = [op EXCEPT ![p] = c]
    PROVE  NewJob(p, c.pc, c.key, c.prev, c.gen)
BY DEF TypeOK, NewJob

LEMMA NewKeyJob ==
    ASSUME TypeOK, NEW p \in Signer, NEW k \in Key, NEW pc \in SignPc,
           op' = [op EXCEPT ![p].pc = pc, ![p].key = k]
    PROVE  NewJob(p, pc, k, op[p].prev, op[p].gen)
<1> DEFINE j == [op[p] EXCEPT !.pc = pc, !.key = k]
<1>1. op[p] \in JobType
  BY DEF TypeOK
<1>2. j \in JobType
  BY <1>1, JobUpdates
<1>3. j.pc = pc /\ j.key = k /\ j.prev = op[p].prev /\ j.gen = op[p].gen
  BY <1>1 DEF JobType
<1>4. op' = [op EXCEPT ![p] = j]
  BY <1>1 DEF TypeOK, JobType
<1> HIDE DEF j
<1>5. PICK c \in JobType : c = j
  BY <1>2
<1> QED
  BY <1>3, <1>4, <1>5, OpUpdate

LEMMA SignJob ==
    ASSUME TypeOK, NEW p \in Signer, SignNow(p) \/ ReadKey(p)
    PROVE  \E k \in Key : keys[k] = "active"
               /\ NewJob(p, "latest", k, op[p].prev, op[p].gen)
<1>1. PICK k \in Key : IsCurrentKey(k) /\ op' = [op EXCEPT ![p].pc = "latest", ![p].key = k]
  BY DEF SignNow, ReadKey
<1>2. NewJob(p, "latest", k, op[p].prev, op[p].gen)
  BY <1>1, NewKeyJob DEF SignPc
<1> QED
  BY <1>1, <1>2 DEF IsCurrentKey, ActiveKeys

LEMMA RotateJob ==
    ASSUME TypeOK, NEW p \in Signer, RotateRead(p)
    PROVE  \E k \in Key : keys[k] = "active"
               /\ NewJob(p, "rotate", k, op[p].prev, op[p].gen)
<1>1. PICK k \in Key : IsCurrentKey(k) /\ op' = [op EXCEPT ![p].pc = "rotate", ![p].key = k]
  BY DEF RotateRead
<1>2. NewJob(p, "rotate", k, op[p].prev, op[p].gen)
  BY <1>1, NewKeyJob DEF SignPc
<1> QED
  BY <1>1, <1>2 DEF IsCurrentKey, ActiveKeys

LEMMA LatestJob ==
    ASSUME TypeOK, NEW p \in Signer, ReadLatest(p)
    PROVE  NewJob(p, "exits", op[p].key, Latest, op[p].gen)
<1> DEFINE j == [op[p] EXCEPT !.pc = "exits", !.prev = Latest]
<1>1. op[p] \in JobType /\ Latest \in 0..MaxGen
  BY DEF TypeOK
<1>2. j \in JobType
  BY <1>1, JobUpdates DEF SignPc
<1>3. j.pc = "exits" /\ j.key = op[p].key /\ j.prev = Latest /\ j.gen = op[p].gen
  BY <1>1 DEF JobType
<1>4. op' = [op EXCEPT ![p] = j]
  BY <1>1 DEF ReadLatest, PrevGeneration, TypeOK, JobType
<1> HIDE DEF j
<1>5. PICK c \in JobType : c = j
  BY <1>2
<1> QED
  BY <1>3, <1>4, <1>5, OpUpdate

LEMMA ExitsJob ==
    ASSUME TypeOK, NEW p \in Signer, ReadExits(p)
    PROVE  NewJob(p, "gen", op[p].key, op[p].prev, op[p].gen)
<1> DEFINE j == [op[p] EXCEPT !.pc = "gen", !.exits = ActiveExits]
<1>1. op[p] \in JobType /\ ActiveExits \in SUBSET Exit
  BY DEF TypeOK, ActiveExits
<1>2. j \in JobType
  BY <1>1, JobUpdates DEF SignPc
<1>3. j.pc = "gen" /\ j.key = op[p].key /\ j.prev = op[p].prev /\ j.gen = op[p].gen
  BY <1>1 DEF JobType
<1>4. op' = [op EXCEPT ![p] = j]
  BY <1>1 DEF ReadExits, TypeOK, JobType
<1> HIDE DEF j
<1>5. PICK c \in JobType : c = j
  BY <1>2
<1> QED
  BY <1>3, <1>4, <1>5, OpUpdate

LEMMA GenerationJob ==
    ASSUME TypeOK, NEW p \in Signer, ReadGeneration(p)
    PROVE  NewJob(p, "insert", op[p].key, op[p].prev, Latest + 1)
<1> DEFINE j == [op[p] EXCEPT !.pc = "insert", !.gen = Latest + 1]
<1>1. op[p] \in JobType /\ Latest + 1 \in 0..MaxGen
  BY DEF TypeOK, ReadGeneration, NextGeneration
<1>2. j \in JobType
  BY <1>1, JobUpdates DEF SignPc
<1>3. j.pc = "insert" /\ j.key = op[p].key /\ j.prev = op[p].prev /\ j.gen = Latest + 1
  BY <1>1 DEF JobType
<1>4. op' = [op EXCEPT ![p] = j]
  BY <1>1 DEF ReadGeneration, NextGeneration, TypeOK, JobType
<1> HIDE DEF j
<1>5. PICK c \in JobType : c = j
  BY <1>2
<1> QED
  BY <1>3, <1>4, <1>5, OpUpdate

LEMMA KeyJob ==
    ASSUME TypeOK, NEW p \in Signer, GoTo(p, "key")
    PROVE  NewJob(p, "key", op[p].key, op[p].prev, op[p].gen)
<1> DEFINE j == [op[p] EXCEPT !.pc = "key"]
<1>1. op[p] \in JobType
  BY DEF TypeOK
<1>2. j \in JobType
  BY <1>1, JobUpdates DEF SignPc
<1>3. j.pc = "key" /\ j.key = op[p].key /\ j.prev = op[p].prev /\ j.gen = op[p].gen
  BY <1>1 DEF JobType
<1>4. op' = [op EXCEPT ![p] = j]
  BY <1>1 DEF GoTo, TypeOK, JobType
<1> HIDE DEF j
<1>5. PICK c \in JobType : c = j
  BY <1>2
<1> QED
  BY <1>3, <1>4, <1>5, OpUpdate

LEMMA IdleJob ==
    ASSUME TypeOK, NEW p \in Signer, op' = [op EXCEPT ![p] = Idle]
    PROVE  NewJob(p, "idle", 1, 0, 0)
<1>1. Idle.pc = "idle" /\ Idle.key = 1 /\ Idle.prev = 0 /\ Idle.gen = 0
  BY DEF Idle
<1> QED
  BY <1>1, IdleType, OpUpdate

-----------------------------------------------------------------------------
(* The two commits that matter: the new key and the new descriptor. *)

NewestKey(ks, k) == \A j \in Key : /\ ks[j] = "active" <=> j = k
                                   /\ ks[j] = "none" <=> j > k

\* Of two rotations that read the same key one moves on to the next, the other
\* finds its generation taken.
LEMMA RotateKeys ==
    ASSUME TypeOK, OneActiveKey, JobsBehind, NEW p \in Signer, RotateCommit(p)
    PROVE  \/ keys' = keys /\ NewJob(p, "idle", 1, 0, 0)
           \/ /\ NewJob(p, "key", op[p].key, op[p].prev, op[p].gen)
              /\ keys' \in [Key -> {"none", "active", "retired"}]
              /\ \E k \in Key : k + 1 \in Key /\ NewestKey(keys, k) /\ NewestKey(keys', k + 1)
<1>1. PICK k \in Key : NewestKey(keys, k)
  BY DEF OneActiveKey, NewestKey
<1>2. op[p] \in JobType
  BY DEF TypeOK
<1>3. PICK o \in Key : o = op[p].key
  BY <1>2, JobFields
<1>4. keys[o] # "none" /\ o + 1 \in Key
  BY <1>3 DEF RotateCommit, JobsBehind, JobBehind
<1>5. CASE keys[o + 1] = "none"
  <2>1. o = k
    BY <1>1, <1>3, <1>4, <1>5 DEF NewestKey
  <2>2. keys' = [keys EXCEPT ![k] = Outgoing(k), ![k + 1] = "active"] /\ GoTo(p, "key")
    BY <1>3, <1>5, <2>1 DEF RotateCommit
  <2>3. Outgoing(k) = "retired"
    BY <1>1 DEF Outgoing, NewestKey
  <2>4. keys' \in [Key -> {"none", "active", "retired"}]
    BY <2>2, <2>3 DEF TypeOK
  <2>5. NewestKey(keys', k + 1)
    BY <1>1, <1>4, <2>1, <2>2, <2>3 DEF TypeOK, NewestKey
  <2> QED
    BY <1>1, <1>4, <2>1, <2>2, <2>4, <2>5, KeyJob
<1>6. CASE keys[o + 1] # "none"
  <2>1. op' = [op EXCEPT ![p] = Idle] /\ keys' = keys
    BY <1>3, <1>6 DEF RotateCommit
  <2> QED
    BY <2>1, IdleJob
<1> QED
  BY <1>5, <1>6

LEMMA InsertRow ==
    ASSUME TypeOK, JobsBehind, NEW p \in Signer, InsertDescriptor(p)
    PROVE  \/ history' = history
           \/ /\ op[p].gen = Latest + 1
              /\ history' \in Seq(Descriptor) /\ Len(history') = Latest + 1
              /\ Latest + 1 <= MaxGen
              /\ \A g \in DOMAIN history : history'[g] = history[g]
              /\ history'[Latest + 1].prev = op[p].prev
              /\ history'[Latest + 1].key = op[p].key
<1> DEFINE row == [key |-> op[p].key, prev |-> op[p].prev, exits |-> op[p].exits]
<1>1. op[p] \in JobType
  BY DEF TypeOK
<1>a. row \in Descriptor
  BY <1>1 DEF Descriptor, JobType
<1>b. row.prev = op[p].prev /\ row.key = op[p].key
  OBVIOUS
<1> HIDE DEF row
<1>2. PICK r \in Descriptor : r = row /\ r.prev = op[p].prev /\ r.key = op[p].key
  BY <1>a, <1>b
<1>3. CASE op[p].gen \in DOMAIN history
  BY <1>3 DEF InsertDescriptor
<1>4. CASE op[p].gen \notin DOMAIN history
  <2>1. /\ op[p].gen \in 0..MaxGen /\ op[p].gen <= Latest + 1
        /\ op[p].prev \in 0..MaxGen /\ op[p].prev < op[p].gen
    BY <1>1, JobFields DEF JobsBehind, JobBehind, InsertDescriptor
  <2>2. op[p].gen = Latest + 1 /\ Latest + 1 <= MaxGen
    BY <1>4, <2>1 DEF TypeOK
  <2>3. history' = Append(history, r)
    BY <1>2, <1>4 DEF InsertDescriptor, row
  <2> QED
    BY <1>2, <2>2, <2>3 DEF TypeOK
<1> QED
  BY <1>3, <1>4

-----------------------------------------------------------------------------
(* AlwaysInductive *)

LEMMA ChainInit == Init => AlwaysInductive /\ TurnsInductive
<1> SUFFICES ASSUME Init PROVE AlwaysInductive /\ TurnsInductive
  OBVIOUS
<1>1. op \in [Signer -> JobType] /\ \A p \in Signer : op[p] = Idle
  BY IdleType DEF Init
<1>2. overlapped \in BOOLEAN /\ ~overlapped
  BY DEF Init
<1>3. TypeOK
  BY <1>1, <1>2 DEF Init, TypeOK
<1>4. OneActiveKey
  <2>1. \A j \in Key : (keys[j] = "active" <=> j = 1) /\ (keys[j] = "none" <=> j > 1)
    BY DEF Init
  <2> QED
    BY <2>1 DEF OneActiveKey
<1>5. LinkedBackwards /\ \A g \in DOMAIN history : history[g].prev = g - 1
  BY DEF Init, LinkedBackwards
<1>6. Idle.pc = "idle" /\ Idle.prev = 0 /\ Idle.gen = 0
  BY DEF Idle
<1>7. JobsBehind
  BY <1>1, <1>6 DEF JobsBehind, JobBehind, Init
<1>8. OneSigner /\ \A p \in Signer : TurnHolds(op[p])
  BY <1>1, <1>6 DEF OneSigner, Busy, TurnHolds
<1> QED
  BY <1>3, <1>4, <1>5, <1>7, <1>8 DEF AlwaysInductive, TurnsInductive

LEMMA JobsOvertaken ==
    ASSUME TypeOK, JobsBehind, TypeOK', Latest' >= Latest,
           \A k \in Key : keys[k] # "none" => keys'[k] # "none",
           NEW p \in Signer, \A q \in Signer \ {p} : op'[q] = op[q],
           /\ op'[p].prev <= Latest'
           /\ op'[p].gen <= Latest' + 1
           /\ op'[p].pc = "insert" => op'[p].prev < op'[p].gen
           /\ op'[p].pc \in {"rotate", "latest", "exits", "gen", "insert"}
                 => keys'[op'[p].key] # "none"
    PROVE  JobsBehind'
<1>1. ASSUME NEW q \in Signer \ {p} PROVE JobBehind(op[q])'
  <2>1. op[q] \in JobType /\ op'[q] = op[q] /\ JobBehind(op[q])
    BY <1>1 DEF TypeOK, JobsBehind, JobBehind
  <2>2. op[q].key \in Key /\ op[q].prev \in Nat /\ op[q].gen \in Nat
    BY <2>1, JobFields
  <2>3. Latest \in Nat /\ Latest' \in Nat
    BY DEF TypeOK
  <2> QED
    BY <2>1, <2>2, <2>3 DEF JobBehind
<1>2. JobBehind(op[p])'
  BY DEF JobBehind
<1> QED
  BY <1>1, <1>2 DEF JobsBehind, JobBehind

LEMMA AlwaysStep ==
    ASSUME AlwaysInductive, [ChainNext]_chainvars
    PROVE  AlwaysInductive'
<1> USE DEF AlwaysInductive
<1>1. ASSUME NEW p \in Signer, SignNow(p) \/ ReadKey(p) \/ RotateRead(p)
      PROVE  AlwaysInductive'
  <2>1. PICK k \in Key, pc \in {"latest", "rotate"} :
            keys[k] = "active" /\ NewJob(p, pc, k, op[p].prev, op[p].gen)
    BY <1>1, SignJob, RotateJob
  <2>2. keys' = keys /\ history' = history /\ exits' = exits /\ kills' = kills
    BY <1>1 DEF SignNow, ReadKey, RotateRead
  <2>3. overlapped' \in BOOLEAN
    BY <1>1 DEF SignNow, ReadKey, RotateRead, Starts, TypeOK
  <2>4. TypeOK'
    BY <2>1, <2>2, <2>3 DEF TypeOK, NewJob
  <2>5. op[p].prev <= Latest /\ op[p].gen <= Latest + 1
    BY DEF JobsBehind, JobBehind
  <2>6. JobsBehind'
    BY <2>1, <2>2, <2>4, <2>5, JobsOvertaken DEF NewJob, TypeOK
  <2> QED
    BY <2>2, <2>4, <2>6 DEF OneActiveKey, LinkedBackwards
<1>2. ASSUME NEW p \in Signer, ReadLatest(p)
      PROVE  AlwaysInductive'
  <2>1. NewJob(p, "exits", op[p].key, Latest, op[p].gen)
    BY <1>2, LatestJob
  <2>2. UNCHANGED <<keys, history, exits, overlapped, kills>> /\ op[p].pc = "latest"
    BY <1>2 DEF ReadLatest
  <2>3. TypeOK'
    BY <2>1, <2>2 DEF TypeOK, NewJob
  <2>4. op[p].gen <= Latest + 1 /\ keys[op[p].key] # "none"
    BY <2>2 DEF JobsBehind, JobBehind
  <2>5. JobsBehind'
    BY <2>1, <2>2, <2>3, <2>4, JobsOvertaken DEF NewJob, TypeOK
  <2> QED
    BY <2>2, <2>3, <2>5 DEF OneActiveKey, LinkedBackwards
<1>3. ASSUME NEW p \in Signer, ReadExits(p)
      PROVE  AlwaysInductive'
  <2>1. NewJob(p, "gen", op[p].key, op[p].prev, op[p].gen)
    BY <1>3, ExitsJob
  <2>2. UNCHANGED <<keys, history, exits, overlapped, kills>> /\ op[p].pc = "exits"
    BY <1>3 DEF ReadExits
  <2>3. TypeOK'
    BY <2>1, <2>2 DEF TypeOK, NewJob
  <2>4. op[p].gen <= Latest + 1 /\ op[p].prev <= Latest /\ keys[op[p].key] # "none"
    BY <2>2 DEF JobsBehind, JobBehind
  <2>5. JobsBehind'
    BY <2>1, <2>2, <2>3, <2>4, JobsOvertaken DEF NewJob, TypeOK
  <2> QED
    BY <2>2, <2>3, <2>5 DEF OneActiveKey, LinkedBackwards
<1>4. ASSUME NEW p \in Signer, ReadGeneration(p)
      PROVE  AlwaysInductive'
  <2>1. NewJob(p, "insert", op[p].key, op[p].prev, Latest + 1)
    BY <1>4, GenerationJob
  <2>2. UNCHANGED <<keys, history, exits, overlapped, kills>> /\ op[p].pc = "gen"
    BY <1>4 DEF ReadGeneration
  <2>3. TypeOK'
    BY <2>1, <2>2 DEF TypeOK, NewJob
  <2>4. op[p].prev <= Latest /\ keys[op[p].key] # "none" /\ op[p].prev \in Nat
    BY <2>2, JobFields DEF JobsBehind, JobBehind, TypeOK
  <2>5. JobsBehind'
    BY <2>1, <2>2, <2>3, <2>4, JobsOvertaken DEF NewJob, TypeOK
  <2> QED
    BY <2>2, <2>3, <2>5 DEF OneActiveKey, LinkedBackwards
<1>5. ASSUME NEW p \in Signer, InsertDescriptor(p)
      PROVE  AlwaysInductive'
  <2>1. NewJob(p, "idle", 1, 0, 0)
    BY <1>5, IdleJob DEF InsertDescriptor
  <2>2. UNCHANGED <<keys, exits, overlapped, kills>> /\ op[p].pc = "insert"
    BY <1>5 DEF InsertDescriptor
  <2>3. op[p].prev < op[p].gen
    BY <2>2 DEF JobsBehind, JobBehind
  <2>4. history' \in Seq(Descriptor) /\ Latest' <= MaxGen /\ Latest' >= Latest /\ LinkedBackwards'
    BY <1>5, <2>3, InsertRow DEF TypeOK, LinkedBackwards
  <2>5. TypeOK'
    BY <2>1, <2>2, <2>4 DEF TypeOK, NewJob
  <2>6. Latest \in Nat /\ Latest' \in Nat
    BY <2>4 DEF TypeOK
  <2>7. /\ op'[p].prev <= Latest' /\ op'[p].gen <= Latest' + 1 /\ op'[p].pc = "idle"
        /\ \A q \in Signer \ {p} : op'[q] = op[q]
    BY <2>1, <2>6 DEF NewJob
  <2>8. JobsBehind'
    BY <2>2, <2>4, <2>5, <2>7, JobsOvertaken
  <2> QED
    BY <2>2, <2>4, <2>5, <2>8 DEF OneActiveKey
<1>6. ASSUME NEW p \in Signer, RotateCommit(p)
      PROVE  AlwaysInductive'
  <2>1. UNCHANGED <<history, exits, overlapped, kills>> /\ op[p].pc = "rotate"
    BY <1>6 DEF RotateCommit
  <2>2. CASE keys' = keys /\ NewJob(p, "idle", 1, 0, 0)
    <3>1. TypeOK'
      BY <2>1, <2>2 DEF TypeOK, NewJob
    <3>2. JobsBehind'
      BY <2>1, <2>2, <3>1, JobsOvertaken DEF NewJob, TypeOK
    <3> QED
      BY <2>1, <2>2, <3>1, <3>2 DEF OneActiveKey, LinkedBackwards
  <2>3. CASE /\ NewJob(p, "key", op[p].key, op[p].prev, op[p].gen)
             /\ keys' \in [Key -> {"none", "active", "retired"}]
             /\ \E k \in Key : k + 1 \in Key /\ NewestKey(keys, k) /\ NewestKey(keys', k + 1)
    <3>1. PICK k \in Key : k + 1 \in Key /\ NewestKey(keys, k) /\ NewestKey(keys', k + 1)
      BY <2>3
    <3>2. \A j \in Key : keys[j] # "none" => keys'[j] # "none"
      BY <3>1 DEF NewestKey
    <3>3. TypeOK'
      BY <2>1, <2>3 DEF TypeOK, NewJob
    <3>4. op[p].prev <= Latest /\ op[p].gen <= Latest + 1
      BY DEF JobsBehind, JobBehind
    <3>a. /\ op'[p].prev <= Latest' /\ op'[p].gen <= Latest' + 1 /\ op'[p].pc = "key"
          /\ \A q \in Signer \ {p} : op'[q] = op[q]
      BY <2>1, <2>3, <3>4 DEF NewJob
    <3>b. Latest' >= Latest
      BY <2>1 DEF TypeOK
    <3>5. JobsBehind'
      BY <3>2, <3>3, <3>a, <3>b, JobsOvertaken
    <3>6. OneActiveKey'
      BY <3>1 DEF OneActiveKey, NewestKey
    <3> QED
      BY <2>1, <3>3, <3>5, <3>6 DEF LinkedBackwards
  <2> QED
    BY <1>6, <2>2, <2>3, RotateKeys
<1>7. ASSUME NEW p \in Signer, NEW e \in Exit, EuAdd(p, e) \/ EuRetire(p, e)
      PROVE  AlwaysInductive'
  <2>1. NewJob(p, "key", op[p].key, op[p].prev, op[p].gen)
    BY <1>7, KeyJob DEF EuAdd, EuRetire
  <2>2. UNCHANGED <<keys, history, kills>>
    BY <1>7 DEF EuAdd, EuRetire
  <2>3. overlapped' \in BOOLEAN
    BY <1>7 DEF EuAdd, EuRetire, Starts, TypeOK
  <2>4. exits' \in [Exit -> {"none", "active", "retired"}]
    BY <1>7 DEF EuAdd, EuRetire, TypeOK
  <2>5. TypeOK'
    BY <2>1, <2>2, <2>3, <2>4 DEF TypeOK, NewJob
  <2>6. op[p].prev <= Latest /\ op[p].gen <= Latest + 1
    BY DEF JobsBehind, JobBehind
  <2>7. JobsBehind'
    BY <2>1, <2>2, <2>5, <2>6, JobsOvertaken DEF NewJob, TypeOK
  <2> QED
    BY <2>2, <2>5, <2>7 DEF OneActiveKey, LinkedBackwards
<1>8. ASSUME NEW e \in Exit, DataExit(e)
      PROVE  AlwaysInductive'
  <2>1. exits' \in [Exit -> {"none", "active", "retired"}]
    BY <1>8 DEF DataExit, TypeOK
  <2>2. UNCHANGED <<keys, history, op, overlapped, kills>>
    BY <1>8 DEF DataExit
  <2> QED
    BY <2>1, <2>2 DEF TypeOK, OneActiveKey, LinkedBackwards, JobsBehind, JobBehind
<1>9. ASSUME NEW p \in Signer, Killed(p)
      PROVE  AlwaysInductive'
  <2>1. NewJob(p, "idle", 1, 0, 0)
    BY <1>9, IdleJob DEF Killed
  <2>2. UNCHANGED <<keys, history, exits, overlapped>> /\ kills' \in 0..MaxKills
    BY <1>9 DEF Killed, TypeOK
  <2>3. TypeOK'
    BY <2>1, <2>2 DEF TypeOK, NewJob
  <2>4. JobsBehind'
    BY <2>1, <2>2, <2>3, JobsOvertaken DEF NewJob, TypeOK
  <2> QED
    BY <2>2, <2>3, <2>4 DEF OneActiveKey, LinkedBackwards
<1>10. CASE UNCHANGED chainvars
  BY <1>10 DEF chainvars, TypeOK, OneActiveKey, LinkedBackwards, JobsBehind, JobBehind
<1> QED
  BY <1>1, <1>2, <1>3, <1>4, <1>5, <1>6, <1>7, <1>8, <1>9, <1>10
  DEF ChainNext, SignStep, OperatorStep

-----------------------------------------------------------------------------
(* TurnsInductive *)

Linked == \A g \in DOMAIN history : history[g].prev = g - 1

\* The signer at work, or about to be, is the only one.
LEMMA Alone ==
    ASSUME TurnsInductive, NEW p \in Signer, ~overlapped', overlapped' = overlapped,
           Busy(p)
    PROVE  /\ \A q \in Signer \ {p} : op[q].pc = "idle"
           /\ TurnHolds(op[p]) /\ Linked
BY DEF TurnsInductive, OneSigner, Busy, Linked

LEMMA AloneAtStart ==
    ASSUME TurnsInductive, NEW p \in Signer, Starts(p), ~overlapped'
    PROVE  /\ \A q \in Signer \ {p} : op[q].pc = "idle"
           /\ Linked
BY DEF TurnsInductive, Starts, Busy, Linked

LEMMA StillAlone ==
    ASSUME NEW p \in Signer, \A q \in Signer \ {p} : op'[q] = op[q] /\ op[q].pc = "idle",
           TurnHolds(op[p])', Linked'
    PROVE  TurnsInductive'
<1>1. OneSigner'
  BY DEF OneSigner, Busy
<1>2. ASSUME NEW q \in Signer \ {p} PROVE TurnHolds(op[q])'
  BY DEF TurnHolds
<1> QED
  BY <1>1, <1>2 DEF TurnsInductive, Linked

LEMMA TurnsStep ==
    ASSUME AlwaysInductive, TurnsInductive, [ChainNext]_chainvars
    PROVE  TurnsInductive'
<1> SUFFICES ASSUME ~overlapped' PROVE TurnsInductive'
  BY DEF TurnsInductive
<1> USE DEF AlwaysInductive
<1>1. ASSUME NEW p \in Signer, SignNow(p) \/ ReadKey(p) \/ RotateRead(p)
      PROVE  TurnsInductive'
  <2>1. PICK k \in Key, pc \in {"latest", "rotate"} :
            keys[k] = "active" /\ NewJob(p, pc, k, op[p].prev, op[p].gen)
    BY <1>1, SignJob, RotateJob
  <2>2. keys' = keys /\ history' = history
    BY <1>1 DEF SignNow, ReadKey, RotateRead
  <2>3. (\A q \in Signer \ {p} : op[q].pc = "idle") /\ Linked
    <3>1. CASE SignNow(p) \/ RotateRead(p)
      BY <3>1, AloneAtStart DEF SignNow, RotateRead
    <3>2. CASE ReadKey(p)
      BY <3>2, Alone DEF ReadKey, Busy
    <3> QED
      BY <1>1, <3>1, <3>2
  <2>4. TurnHolds(op[p])' /\ Linked'
    BY <2>1, <2>2, <2>3 DEF NewJob, TurnHolds, Linked
  <2> QED
    BY <2>1, <2>3, <2>4, StillAlone DEF NewJob
<1>2. ASSUME NEW p \in Signer, ReadLatest(p)
      PROVE  TurnsInductive'
  <2>1. NewJob(p, "exits", op[p].key, Latest, op[p].gen)
    BY <1>2, LatestJob
  <2>2. UNCHANGED <<keys, history, overlapped>> /\ op[p].pc = "latest"
    BY <1>2 DEF ReadLatest
  <2>3. (\A q \in Signer \ {p} : op[q].pc = "idle") /\ TurnHolds(op[p]) /\ Linked
    BY <2>2, Alone DEF Busy
  <2>4. TurnHolds(op[p])' /\ Linked'
    BY <2>1, <2>2, <2>3 DEF NewJob, TurnHolds, Linked
  <2> QED
    BY <2>1, <2>3, <2>4, StillAlone DEF NewJob
<1>3. ASSUME NEW p \in Signer, ReadExits(p)
      PROVE  TurnsInductive'
  <2>1. NewJob(p, "gen", op[p].key, op[p].prev, op[p].gen)
    BY <1>3, ExitsJob
  <2>2. UNCHANGED <<keys, history, overlapped>> /\ op[p].pc = "exits"
    BY <1>3 DEF ReadExits
  <2>3. (\A q \in Signer \ {p} : op[q].pc = "idle") /\ TurnHolds(op[p]) /\ Linked
    BY <2>2, Alone DEF Busy
  <2>4. TurnHolds(op[p])' /\ Linked'
    BY <2>1, <2>2, <2>3 DEF NewJob, TurnHolds, Linked
  <2> QED
    BY <2>1, <2>3, <2>4, StillAlone DEF NewJob
<1>4. ASSUME NEW p \in Signer, ReadGeneration(p)
      PROVE  TurnsInductive'
  <2>1. NewJob(p, "insert", op[p].key, op[p].prev, Latest + 1)
    BY <1>4, GenerationJob
  <2>2. UNCHANGED <<keys, history, overlapped>> /\ op[p].pc = "gen"
    BY <1>4 DEF ReadGeneration
  <2>3. (\A q \in Signer \ {p} : op[q].pc = "idle") /\ TurnHolds(op[p]) /\ Linked
    BY <2>2, Alone DEF Busy
  <2>4. TurnHolds(op[p])' /\ Linked'
    BY <2>1, <2>2, <2>3 DEF NewJob, TurnHolds, Linked
  <2> QED
    BY <2>1, <2>3, <2>4, StillAlone DEF NewJob
<1>5. ASSUME NEW p \in Signer, InsertDescriptor(p)
      PROVE  TurnsInductive'
  <2>1. NewJob(p, "idle", 1, 0, 0)
    BY <1>5, IdleJob DEF InsertDescriptor
  <2>2. UNCHANGED <<keys, overlapped>> /\ op[p].pc = "insert"
    BY <1>5 DEF InsertDescriptor
  <2>3. (\A q \in Signer \ {p} : op[q].pc = "idle") /\ TurnHolds(op[p]) /\ Linked
    BY <2>2, Alone DEF Busy
  <2>4. op[p].prev = Latest
    BY <2>2, <2>3 DEF TurnHolds
  <2>5. Linked'
    <3>1. CASE history' = history
      BY <2>3, <3>1 DEF Linked
    <3>2. CASE history' # history
      <4>1. /\ history' \in Seq(Descriptor) /\ Len(history') = Latest + 1
            /\ \A g \in DOMAIN history : history'[g] = history[g]
            /\ history'[Latest + 1].prev = op[p].prev
        BY <1>5, <3>2, InsertRow DEF AlwaysInductive
      <4>2. DOMAIN history' = 1..(Latest + 1) /\ DOMAIN history = 1..Latest /\ Latest \in Nat
        BY <4>1 DEF TypeOK, AlwaysInductive
      <4>3. ASSUME NEW g \in DOMAIN history' PROVE history'[g].prev = g - 1
        <5>1. CASE g \in DOMAIN history
          BY <2>3, <4>1, <5>1 DEF Linked
        <5>2. CASE g = Latest + 1
          BY <2>4, <4>1, <4>2, <5>2
        <5>3. QED
          BY <4>2, <4>3, <5>1, <5>2
      <4>4. QED
        BY <4>3 DEF Linked
    <3>3. QED
      BY <3>1, <3>2
  <2>6. TurnHolds(op[p])'
    BY <2>1 DEF NewJob, TurnHolds
  <2> QED
    BY <2>1, <2>3, <2>5, <2>6, StillAlone DEF NewJob
<1>6. ASSUME NEW p \in Signer, RotateCommit(p)
      PROVE  TurnsInductive'
  <2>1. PICK pc \in {"idle", "key"} : NewJob(p, pc, op'[p].key, op'[p].prev, op'[p].gen)
    BY <1>6, RotateKeys DEF NewJob
  <2>2. UNCHANGED <<history, overlapped>> /\ op[p].pc = "rotate"
    BY <1>6 DEF RotateCommit
  <2>3. (\A q \in Signer \ {p} : op[q].pc = "idle") /\ Linked
    BY <2>2, Alone DEF Busy
  <2>4. TurnHolds(op[p])' /\ Linked'
    BY <2>1, <2>2, <2>3 DEF NewJob, TurnHolds, Linked
  <2> QED
    BY <2>1, <2>3, <2>4, StillAlone DEF NewJob
<1>7. ASSUME NEW p \in Signer, NEW e \in Exit, EuAdd(p, e) \/ EuRetire(p, e)
      PROVE  TurnsInductive'
  <2>1. NewJob(p, "key", op[p].key, op[p].prev, op[p].gen)
    BY <1>7, KeyJob DEF EuAdd, EuRetire
  <2>2. (\A q \in Signer \ {p} : op[q].pc = "idle") /\ Linked
    BY <1>7, AloneAtStart DEF EuAdd, EuRetire
  <2>3. history' = history
    BY <1>7 DEF EuAdd, EuRetire
  <2>4. TurnHolds(op[p])' /\ Linked'
    BY <2>1, <2>2, <2>3 DEF NewJob, TurnHolds, Linked
  <2> QED
    BY <2>1, <2>2, <2>4, StillAlone DEF NewJob
<1>8. ASSUME NEW e \in Exit, DataExit(e)
      PROVE  TurnsInductive'
  <2>1. UNCHANGED <<keys, history, op, overlapped, kills>>
    BY <1>8 DEF DataExit
  <2> QED
    BY <2>1 DEF TurnsInductive, OneSigner, Busy, TurnHolds
<1>9. ASSUME NEW p \in Signer, Killed(p)
      PROVE  TurnsInductive'
  <2>1. NewJob(p, "idle", 1, 0, 0)
    BY <1>9, IdleJob DEF Killed
  <2>2. UNCHANGED <<keys, history, overlapped>> /\ Busy(p)
    BY <1>9 DEF Killed
  <2>3. (\A q \in Signer \ {p} : op[q].pc = "idle") /\ Linked
    BY <2>2, Alone
  <2>4. TurnHolds(op[p])' /\ Linked'
    BY <2>1, <2>2, <2>3 DEF NewJob, TurnHolds, Linked
  <2> QED
    BY <2>1, <2>3, <2>4, StillAlone DEF NewJob
<1>10. CASE UNCHANGED chainvars
  BY <1>10 DEF chainvars, TurnsInductive, OneSigner, Busy, TurnHolds
<1> QED
  BY <1>1, <1>2, <1>3, <1>4, <1>5, <1>6, <1>7, <1>8, <1>9, <1>10
  DEF ChainNext, SignStep, OperatorStep

-----------------------------------------------------------------------------
(* LatestFollowed: a rotation always ends in a descriptor by the new key *)

LEMMA FollowedStep ==
    ASSUME AlwaysInductive, TurnsInductive, LatestFollowed, [ChainNext]_chainvars
    PROVE  LatestFollowed'
<1> SUFFICES ASSUME ~overlapped', kills' = 0 PROVE LatestFollowed'
  BY DEF LatestFollowed
<1> USE DEF AlwaysInductive
<1>1. kills = 0
  <2>1. ASSUME NEW p \in Signer, SignStep(p) \/ OperatorStep(p) PROVE kills' = kills
    BY <2>1 DEF SignStep, OperatorStep, SignNow, ReadKey, ReadLatest, ReadExits,
                ReadGeneration, InsertDescriptor, RotateRead, RotateCommit, EuAdd, EuRetire
  <2>2. ASSUME NEW p \in Signer, Killed(p) PROVE FALSE
    BY <2>2 DEF Killed, TypeOK
  <2>3. SignNow(Rotator) => kills' = kills
    BY DEF SignNow
  <2>4. \A e \in Exit : DataExit(e) => kills' = kills
    BY DEF DataExit
  <2> QED
    BY <2>1, <2>2, <2>3, <2>4 DEF ChainNext, chainvars
<1>2. ASSUME NEW p \in Signer, UNCHANGED <<keys, history>>, ~overlapped,
             WillSign(p)' \/ (~WillSign(p) /\ \A q \in Signer \ {p} : op'[q] = op[q])
      PROVE  LatestFollowed'
  BY <1>1, <1>2 DEF LatestFollowed, WillSign
<1>3. ASSUME NEW p \in Signer, SignNow(p) \/ ReadKey(p)
      PROVE  LatestFollowed'
  <2>1. WillSign(p)'
    BY <1>3, SignJob DEF NewJob, WillSign
  <2> QED
    BY <1>2, <1>3, <2>1 DEF SignNow, ReadKey, Starts, TypeOK
<1>4. ASSUME NEW p \in Signer, ReadLatest(p) \/ ReadExits(p) \/ ReadGeneration(p)
      PROVE  LatestFollowed'
  <2>1. WillSign(p)'
    BY <1>4, LatestJob, ExitsJob, GenerationJob DEF NewJob, WillSign
  <2> QED
    BY <1>2, <1>4, <2>1 DEF ReadLatest, ReadExits, ReadGeneration
<1>5. ASSUME NEW p \in Signer, InsertDescriptor(p)
      PROVE  LatestFollowed'
  <2>1. UNCHANGED <<keys, overlapped>> /\ op[p].pc = "insert"
    BY <1>5 DEF InsertDescriptor
  <2>2. op[p].gen = Latest + 1 /\ keys[op[p].key] = "active"
    BY <2>1, Alone DEF Busy, TurnHolds
  <2>3. Latest + 1 \notin DOMAIN history
    BY DEF TypeOK
  <2>4. history' # history
    BY <1>5, <2>2, <2>3 DEF InsertDescriptor, TypeOK
  <2>5. history'[Latest'].key = op[p].key
    BY <1>5, <2>4, InsertRow
  <2> QED
    BY <2>1, <2>2, <2>5 DEF LatestFollowed
<1>6. ASSUME NEW p \in Signer, RotateRead(p)
      PROVE  LatestFollowed'
  <2>1. ~WillSign(p) /\ UNCHANGED <<keys, history>> /\ ~overlapped
    BY <1>6 DEF RotateRead, Busy, WillSign, Starts, TypeOK
  <2>2. \A q \in Signer \ {p} : op'[q] = op[q]
    BY <1>6, RotateJob DEF NewJob
  <2> QED
    BY <1>2, <2>1, <2>2
<1>7. ASSUME NEW p \in Signer, RotateCommit(p)
      PROVE  LatestFollowed'
  <2>1. UNCHANGED <<history, overlapped>> /\ ~WillSign(p)
    BY <1>7 DEF RotateCommit, WillSign
  <2>2. CASE keys' = keys /\ NewJob(p, "idle", 1, 0, 0)
    BY <1>2, <2>1, <2>2 DEF NewJob
  <2>3. CASE NewJob(p, "key", op[p].key, op[p].prev, op[p].gen)
    BY <2>3 DEF LatestFollowed, WillSign, NewJob
  <2> QED
    BY <1>7, <2>2, <2>3, RotateKeys
<1>8. ASSUME NEW p \in Signer, NEW e \in Exit, EuAdd(p, e) \/ EuRetire(p, e)
      PROVE  LatestFollowed'
  <2>1. WillSign(p)'
    BY <1>8, KeyJob DEF EuAdd, EuRetire, NewJob, WillSign
  <2> QED
    BY <1>2, <1>8, <2>1 DEF EuAdd, EuRetire, Starts, TypeOK
<1>9. ASSUME NEW e \in Exit, DataExit(e)
      PROVE  LatestFollowed'
  BY <1>1, <1>9 DEF DataExit, LatestFollowed, WillSign
<1>10. ASSUME NEW p \in Signer, Killed(p)
       PROVE  LatestFollowed'
  BY <1>10 DEF Killed, TypeOK
<1>11. CASE UNCHANGED chainvars
  BY <1>1, <1>11 DEF chainvars, LatestFollowed, WillSign
<1> QED
  BY <1>3, <1>4, <1>5, <1>6, <1>7, <1>8, <1>9, <1>10, <1>11
  DEF ChainNext, SignStep, OperatorStep

\* Every descriptor is signed by a key that has a row (startup check 14): the key
\* was active when it was read, and rows of keys are never deleted.
LEMMA KnownStep ==
    ASSUME AlwaysInductive, Check14, [ChainNext]_chainvars
    PROVE  Check14'
<1> USE DEF AlwaysInductive
<1>1. \A k \in Key : keys[k] # "none" => keys'[k] # "none"
  <2>1. ASSUME NEW p \in Signer, RotateCommit(p)
        PROVE  \A k \in Key : keys[k] # "none" => keys'[k] # "none"
    BY <2>1, RotateKeys DEF NewestKey
  <2>2. CASE keys' = keys
    BY <2>2
  <2> QED
    BY <2>1, <2>2 DEF ChainNext, SignStep, OperatorStep, chainvars, SignNow, ReadKey,
                      ReadLatest, ReadExits, ReadGeneration, InsertDescriptor, RotateRead,
                      EuAdd, EuRetire, DataExit, Killed
<1>2. ASSUME NEW p \in Signer, InsertDescriptor(p)
      PROVE  Check14'
  <2>1. keys' = keys
    BY <1>2 DEF InsertDescriptor
  <2>2. op[p].key \in Key /\ keys[op[p].key] # "none"
    BY <1>2, JobFields DEF InsertDescriptor, JobsBehind, JobBehind, TypeOK
  <2>3. CASE history' = history
    BY <2>1, <2>3 DEF Check14, KnownKeys
  <2>4. CASE /\ history' \in Seq(Descriptor) /\ Len(history') = Latest + 1
             /\ \A g \in DOMAIN history : history'[g] = history[g]
             /\ history'[Latest + 1].key = op[p].key
    <3>1. history \in Seq(Descriptor)
      BY DEF TypeOK
    <3>2. \A g \in DOMAIN history' : g \in DOMAIN history \/ g = Latest + 1
      BY <2>4, <3>1
    <3> QED
      BY <2>1, <2>2, <2>4, <3>2 DEF Check14, KnownKeys
  <2> QED
    BY <1>2, <2>3, <2>4, InsertRow
<1>3. CASE history' = history
  BY <1>1, <1>3 DEF Check14, KnownKeys
<1> QED
  BY <1>2, <1>3 DEF ChainNext, SignStep, OperatorStep, chainvars, SignNow, ReadKey,
                    ReadLatest, ReadExits, ReadGeneration, RotateCommit, RotateRead,
                    EuAdd, EuRetire, DataExit, Killed

-----------------------------------------------------------------------------
(* Theorems *)

\* Whatever signers interleave and are killed: the tables keep their types, one
\* signing key is active and is the newest, hashes point backwards.
THEOREM ChainAlways == Spec => []AlwaysInductive
<1>1. Init => AlwaysInductive
  BY ChainInit
<1>2. AlwaysInductive /\ [ChainNext]_chainvars => AlwaysInductive'
  BY AlwaysStep
<1> QED
  BY <1>1, <1>2, PTL DEF Spec

\* signing-key-rotate leaves exactly one active key, the newest, however many of
\* them overlap (startup check 9).
THEOREM ChainOneKey == Spec => []OneActiveKey
<1>1. AlwaysInductive => OneActiveKey
  BY DEF AlwaysInductive
<1> QED
  BY <1>1, ChainAlways, PTL

\* While signers take turns, the one at work has read what is still so.
THEOREM ChainTurns == Spec => []TurnsInductive
<1>1. Init => AlwaysInductive /\ TurnsInductive
  BY ChainInit
<1>2. AlwaysInductive /\ TurnsInductive /\ [ChainNext]_chainvars => (AlwaysInductive /\ TurnsInductive)'
  BY AlwaysStep, TurnsStep
<1> QED
  BY <1>1, <1>2, PTL DEF Spec

\* Startup check 15: the hash chain is unbroken as long as no signer ever started
\* during another.
THEOREM ChainIsLinked == Spec => []ChainLinked
<1>1. TurnsInductive => ChainLinked
  BY DEF TurnsInductive, ChainLinked
<1> QED
  BY <1>1, ChainTurns, PTL

\* The history passes the startup checks 13, 14 and 22 whatever overlaps, and check
\* 15 and the verifier of the whole chain as long as signers take turns.
THEOREM ChainHistorySound == Spec => []HistoryIsSound
<1>1. Init => AlwaysInductive /\ Check14
  BY ChainInit DEF Init, Check14
<1>2. AlwaysInductive /\ Check14 /\ [ChainNext]_chainvars => (AlwaysInductive /\ Check14)'
  BY AlwaysStep, KnownStep
<1>3. AlwaysInductive /\ Check14 /\ TurnsInductive => HistoryIsSound
  <2> SUFFICES ASSUME AlwaysInductive, Check14, TurnsInductive
               PROVE  HistoryIsSound
    OBVIOUS
  <2>1. PICK k \in Key : \A j \in Key : keys[j] = "active" <=> j = k
    BY DEF AlwaysInductive, OneActiveKey
  <2>2. ActiveKeys = {k}
    BY <2>1 DEF ActiveKeys
  <2>3. Cardinality(ActiveKeys) = 1
    BY <2>2, FS_Singleton
  <2>4. Check22 /\ Check13
    BY <2>2, <2>3 DEF Check22, Check13
  <2>5. ~overlapped => Check15
    BY DEF TurnsInductive, Check15
  <2>6. \A g \in DOMAIN history : g \in Nat \ {0}
    BY DEF AlwaysInductive, TypeOK
  <2>7. ~overlapped => VerifyChain(KnownKeys)
    BY <2>5, <2>6 DEF VerifyChain, VerifyDescriptor, Check14, Check15
  <2> QED
    BY <2>4, <2>5, <2>7 DEF HistoryIsSound
<1> QED
  BY <1>1, <1>2, <1>3, ChainTurns, PTL DEF Spec

\* Between commands that took turns and were not killed, the newest descriptor is
\* signed by the key a box seeded now is told to trust.
THEOREM ChainLatestTrusted == Spec => []LatestByActiveKey
<1>1. Init => AlwaysInductive /\ TurnsInductive /\ LatestFollowed
  BY ChainInit DEF Init, LatestFollowed
<1>2. AlwaysInductive /\ TurnsInductive /\ LatestFollowed /\ [ChainNext]_chainvars
          => (AlwaysInductive /\ TurnsInductive /\ LatestFollowed)'
  BY AlwaysStep, TurnsStep, FollowedStep
<1>3. LatestFollowed => LatestByActiveKey
  BY DEF LatestFollowed, LatestByActiveKey, Quiet, Busy, WillSign
<1> QED
  BY <1>1, <1>2, <1>3, PTL DEF Spec
-----------------------------------------------------------------------------
(* DescriptorRefresh: publishers and boxes beside the chain *)

LEMMA HistoryGrows ==
    ASSUME AlwaysInductive, [ChainNext]_chainvars
    PROVE  /\ Latest \in 0..MaxGen /\ Latest' \in Nat /\ Latest' >= Latest
           /\ \A g \in DOMAIN history : g \in DOMAIN history' /\ history'[g] = history[g]
<1> USE DEF AlwaysInductive
<1>1. history \in Seq(Descriptor) /\ Latest \in 0..MaxGen
  BY DEF TypeOK
<1>2. CASE history' = history
  BY <1>1, <1>2
<1>3. ASSUME NEW p \in Signer, InsertDescriptor(p)
      PROVE  /\ Latest' \in Nat /\ Latest' >= Latest
             /\ \A g \in DOMAIN history : g \in DOMAIN history' /\ history'[g] = history[g]
  <2>1. CASE /\ history' \in Seq(Descriptor) /\ Len(history') = Latest + 1
             /\ \A g \in DOMAIN history : history'[g] = history[g]
    BY <1>1, <2>1
  <2> QED
    BY <1>2, <1>3, <2>1, InsertRow
<1> QED
  BY <1>1, <1>2, <1>3 DEF ChainNext, SignStep, OperatorStep, chainvars, SignNow, ReadKey,
                    ReadLatest, ReadExits, ReadGeneration, RotateCommit, RotateRead,
                    EuAdd, EuRetire, DataExit, Killed

LEMMA ChainPart == [Next]_vars => [ChainNext]_chainvars
BY DEF Next, vars, PublisherStep, PublishRead, PublishPut, SeedRead, SeedAnchors, Tick,
       TickUnchanged, TickRefused, TickNew, TickOutage

LEMMA RefreshInitially == RefreshInit => RefreshInductive /\ ObjectBehindReads
<1> SUFFICES ASSUME RefreshInit PROVE RefreshInductive /\ ObjectBehindReads
  OBVIOUS
<1>1. AlwaysInductive /\ Latest = 0
  BY ChainInit DEF RefreshInit, Init
<1>2. PubIdle \in PubJob /\ PubIdle.pc = "idle" /\ PubIdle.gen = 0
  BY DEF PubIdle, PubJob
<1>3. RefreshTypeOK
  BY <1>2, RefreshAssumption DEF RefreshInit, RefreshTypeOK
<1>4. PublishersBehind /\ BoxesFollow /\ ObjectBehindReads
  BY <1>1, <1>2, RefreshAssumption
  DEF RefreshInit, PublishersBehind, BoxesFollow, ObjectBehindReads
<1> QED
  BY <1>1, <1>3, <1>4 DEF RefreshInductive

\* The chain moves and nothing else: a box that trusts every row after the step
\* trusted every row before it.
LEMMA ChainBesideBoxes ==
    ASSUME RefreshInductive, [ChainNext]_chainvars, UNCHANGED <<object, pub, boxvars, fetched>>
    PROVE  RefreshTypeOK' /\ PublishersBehind' /\ BoxesFollow'
<1> USE DEF RefreshInductive
<1>1. /\ object' = object /\ pub' = pub /\ phase' = phase /\ anchors' = anchors
      /\ held' = held /\ refreshing' = refreshing /\ failures' = failures
      /\ outages' = outages /\ inRow' = inRow
  BY DEF boxvars, fetched
<1>2. Latest \in Nat /\ Latest' \in Nat /\ Latest' >= Latest
  BY HistoryGrows
<1>3. RefreshTypeOK'
  BY <1>1 DEF RefreshTypeOK
<1>4. PublishersBehind'
  <2>1. ASSUME NEW p \in Publisher PROVE pub[p].gen \in Nat
    BY DEF RefreshTypeOK, PubJob
  <2> QED
    BY <1>1, <1>2, <2>1 DEF PublishersBehind, RefreshTypeOK
<1>5. ASSUME NEW b \in Box, TrustsAll(b)' PROVE TrustsAll(b)
  BY <1>1, <1>5, HistoryGrows DEF TrustsAll
<1>6. BoxesFollow'
  BY <1>1, <1>5 DEF BoxesFollow
<1> QED
  BY <1>3, <1>4, <1>6

LEMMA PublisherSteps ==
    ASSUME RefreshInductive, NEW p \in Publisher,
           PublishRead(p) \/ PublishPut(p) \/ SeedRead(p)
    PROVE  RefreshTypeOK' /\ PublishersBehind' /\ BoxesFollow'
<1> USE DEF RefreshInductive
<1>1. /\ history' = history /\ phase' = phase /\ anchors' = anchors /\ held' = held
      /\ refreshing' = refreshing /\ failures' = failures /\ outages' = outages
      /\ inRow' = inRow
  BY DEF PublishRead, PublishPut, SeedRead, chainvars, boxvars, fetched
<1>2. Latest \in 0..MaxGen
  BY DEF AlwaysInductive, TypeOK
<1>3. pub[p] \in PubJob /\ pub[p].gen \in 0..MaxGen /\ pub[p].gen <= Latest
  BY DEF RefreshTypeOK, PubJob, PublishersBehind
<1> DEFINE Read == /\ pub' \in [Publisher -> PubJob]
                   /\ \A q \in Publisher \ {p} : pub'[q] = pub[q]
                   /\ pub'[p].gen <= Latest
                   /\ pub'[p].pc # "idle" => pub'[p].gen # 0
                   /\ pub'[p].pc = "seed" => object # 0
<1>4. Read
  <2>1. CASE PublishPut(p)
    <3>1. PubIdle \in PubJob /\ PubIdle.pc = "idle" /\ PubIdle.gen = 0
      BY DEF PubIdle, PubJob
    <3>2. pub' = [pub EXCEPT ![p] = PubIdle]
      BY <2>1 DEF PublishPut
    <3>3. pub' \in [Publisher -> PubJob] /\ pub'[p] = PubIdle
      BY <3>1, <3>2 DEF RefreshTypeOK
    <3> QED
      BY <1>2, <3>1, <3>2, <3>3 DEF RefreshTypeOK
  <2>2. ASSUME NEW g \in 1..MaxGen, NEW pc \in {"put", "seed"}, LatestDescriptor(g),
               pub' = [pub EXCEPT ![p] = [pc |-> pc, gen |-> g]],
               pc = "seed" => object # 0
        PROVE  Read
    <3> DEFINE j == [pc |-> pc, gen |-> g]
    <3>1. j \in PubJob /\ j.gen = g /\ j.pc = pc /\ g <= Latest /\ g # 0
      BY <1>2, <2>2 DEF PubJob, LatestDescriptor
    <3>2. pub' = [pub EXCEPT ![p] = j]
      BY <2>2
    <3> HIDE DEF j
    <3>3. pub' \in [Publisher -> PubJob] /\ pub'[p] = j
      BY <3>1, <3>2 DEF RefreshTypeOK
    <3> QED
      BY <2>2, <3>1, <3>2, <3>3 DEF RefreshTypeOK
  <2> QED
    BY <2>1, <2>2 DEF PublishRead, SeedRead
<1>5. object' = object \/ (object' = pub[p].gen /\ pub[p].gen # 0)
  BY DEF PublishRead, PublishPut, SeedRead, PublishersBehind
<1>6. /\ object' \in 0..MaxGen /\ object' <= Latest
      /\ object # 0 => object' # 0
  BY <1>3, <1>5 DEF RefreshTypeOK, PublishersBehind
<1>7. RefreshTypeOK'
  BY <1>1, <1>4, <1>6 DEF RefreshTypeOK
<1>8. PublishersBehind'
  BY <1>1, <1>4, <1>6 DEF PublishersBehind, RefreshTypeOK
<1>9. BoxesFollow'
  BY <1>1, <1>6 DEF BoxesFollow, TrustsAll
<1> QED
  BY <1>7, <1>8, <1>9

LEMMA SeedStep ==
    ASSUME RefreshInductive, NEW p \in Publisher, NEW b \in Box, SeedAnchors(p, b)
    PROVE  RefreshTypeOK' /\ PublishersBehind' /\ BoxesFollow'
<1> USE DEF RefreshInductive
<1>1. /\ history' = history /\ object' = object /\ outages' = outages
      /\ failures' = failures /\ pub' = [pub EXCEPT ![p] = PubIdle]
      /\ phase[b] = "none" /\ object # 0 /\ inRow' = inRow /\ inRow[b] \in Nat
  BY DEF SeedAnchors, chainvars, boxvars, fetched, PublishersBehind, RefreshTypeOK
<1>2. PubIdle \in PubJob /\ PubIdle.pc = "idle" /\ PubIdle.gen = 0
  BY DEF PubIdle, PubJob
<1>3. pub[p] \in PubJob /\ pub[p].gen \in 0..MaxGen
  BY DEF RefreshTypeOK, PubJob
<1>4. PublishersBehind'
  <2>1. Latest \in Nat
    BY DEF AlwaysInductive, TypeOK
  <2> QED
    BY <1>1, <1>2, <2>1 DEF PublishersBehind, RefreshTypeOK
<1>5. CASE Renders(pub[p].gen)
  <2>1. /\ phase' = [phase EXCEPT ![b] = "up"]
        /\ anchors' = [anchors EXCEPT ![b] = ActiveKeys]
        /\ held' = [held EXCEPT ![b] = pub[p].gen]
        /\ refreshing' = refreshing \cup {b}
    BY <1>5 DEF SeedAnchors
  <2>2. ActiveKeys \in SUBSET Key
    BY DEF ActiveKeys
  <2>3. RefreshTypeOK'
    BY <1>1, <1>2, <1>3, <2>1, <2>2 DEF RefreshTypeOK
  <2>4. ASSUME NEW c \in Box
        PROVE  /\ phase'[c] = "none" => held'[c] = 0 /\ failures'[c] = 0
               /\ phase'[c] # "none" => object' # 0
               /\ TrustsAll(c)' => /\ failures'[c] <= inRow'[c]
                                   /\ phase'[c] = "off" => inRow'[c] >= MaxFailures
    <3>1. CASE c = b
      <4>1. phase'[b] = "up" /\ failures[b] = 0
        BY <1>1, <2>1 DEF RefreshTypeOK, BoxesFollow
      <4> QED
        BY <1>1, <3>1, <4>1 DEF RefreshTypeOK
    <3>2. CASE c # b
      <4>1. phase'[c] = phase[c] /\ held'[c] = held[c] /\ anchors'[c] = anchors[c]
        BY <2>1, <3>2 DEF RefreshTypeOK
      <4> QED
        BY <1>1, <4>1 DEF BoxesFollow, TrustsAll
    <3> QED
      BY <3>1, <3>2
  <2> QED
    BY <1>4, <2>3, <2>4 DEF BoxesFollow
<1>6. CASE ~Renders(pub[p].gen)
  <2>1. phase' = phase /\ anchors' = anchors /\ held' = held /\ refreshing' = refreshing
    BY <1>6 DEF SeedAnchors, boxvars
  <2>2. RefreshTypeOK'
    BY <1>1, <1>2, <2>1 DEF RefreshTypeOK
  <2>3. BoxesFollow'
    BY <1>1, <2>1 DEF BoxesFollow, TrustsAll
  <2> QED
    BY <1>4, <2>2, <2>3
<1> QED
  BY <1>5, <1>6
\* A failure of a box that trusts every row is an outage: the object is one of the
\* rows, so its signature is accepted.
LEMMA FailingTick ==
    ASSUME RefreshInductive, NEW b \in Box, TickOutage(b) \/ TickRefused(b)
    PROVE  RefreshTypeOK' /\ PublishersBehind' /\ BoxesFollow'
<1> USE DEF RefreshInductive
<1>1. /\ history' = history /\ object' = object /\ pub' = pub
      /\ anchors' = anchors /\ held' = held /\ refreshing' = refreshing
      /\ failures' = [failures EXCEPT ![b] = failures[b] + 1]
      /\ phase' = [phase EXCEPT ![b] = IF failures[b] + 1 >= MaxFailures THEN "off" ELSE @]
      /\ phase[b] = "up"
  BY DEF TickOutage, TickRefused, Fails, Ticks, chainvars
<1>2. failures[b] \in Nat /\ outages \in Nat /\ inRow[b] \in Nat /\ object \in Nat /\ Latest \in Nat
  BY DEF RefreshTypeOK, AlwaysInductive, TypeOK
<1>3. /\ outages' \in 0..MaxOutages /\ inRow' \in [Box -> Nat]
      /\ \A c \in Box \ {b} : inRow'[c] = inRow[c] /\ inRow[c] \in Nat
      /\ TickOutage(b) => inRow'[b] = inRow[b] + 1
  <2>1. CASE TickOutage(b)
    <3>1. outages' = outages + 1 /\ outages < MaxOutages
          /\ inRow' = [inRow EXCEPT ![b] = inRow[b] + 1]
      BY <2>1 DEF TickOutage
    <3>2. QED
      BY <1>2, <3>1, RefreshAssumption DEF RefreshTypeOK
  <2>2. CASE TickRefused(b) /\ ~TickOutage(b)
    <3>1. outages' = outages /\ inRow' = [inRow EXCEPT ![b] = 0]
      BY <2>2 DEF TickRefused, Answered
    <3>2. QED
      BY <2>2, <3>1 DEF RefreshTypeOK
  <2>3. QED
    BY <2>1, <2>2
<1>4. failures'[b] = failures[b] + 1
  BY <1>1 DEF RefreshTypeOK
<1>5. phase'[b] \in {"up", "off"} /\ (phase'[b] = "off" => failures'[b] >= MaxFailures)
  BY <1>1, <1>4 DEF RefreshTypeOK
<1>6. RefreshTypeOK'
  <2>1. failures' \in [Box -> Nat]
    BY <1>1, <1>2 DEF RefreshTypeOK
  <2>2. phase' \in [Box -> {"none", "up", "off"}]
    BY <1>1 DEF RefreshTypeOK
  <2> QED
    BY <1>1, <1>3, <2>1, <2>2 DEF RefreshTypeOK
<1>7. PublishersBehind'
  BY <1>1 DEF PublishersBehind
<1>8. TrustsAll(b) => failures[b] + 1 <= inRow'[b]
  <2>1. object \in DOMAIN history
    <3>1. object # 0 /\ object <= Latest
      BY <1>1 DEF BoxesFollow, PublishersBehind
    <3>2. DOMAIN history = 1..Latest
      BY DEF AlwaysInductive, TypeOK
    <3> QED
      BY <1>2, <3>1, <3>2
  <2>2. TrustsAll(b) => TickOutage(b)
    BY <2>1 DEF TrustsAll, TickRefused, Trusts
  <2> QED
    BY <1>2, <1>3, <2>2 DEF BoxesFollow
<1>9. ASSUME NEW c \in Box
      PROVE  /\ phase'[c] = "none" => held'[c] = 0 /\ failures'[c] = 0
             /\ phase'[c] # "none" => object' # 0
             /\ TrustsAll(c)' => /\ failures'[c] <= inRow'[c]
                                 /\ phase'[c] = "off" => inRow'[c] >= MaxFailures
  <2>1. CASE c = b
    <3>1. TrustsAll(c)' => TrustsAll(b)
      BY <1>1, <2>1 DEF TrustsAll
    <3>2. object' # 0
      BY <1>1 DEF BoxesFollow
    <3> QED
      BY <1>2, <1>3, <1>4, <1>5, <1>8, <2>1, <3>1, <3>2, RefreshAssumption
  <2>2. CASE c # b
    <3>1. phase'[c] = phase[c] /\ failures'[c] = failures[c] /\ failures[c] \in Nat
      BY <1>1, <2>2 DEF RefreshTypeOK
    <3>2. TrustsAll(c)' => TrustsAll(c)
      BY <1>1 DEF TrustsAll
    <3>3. /\ phase[c] = "none" => held[c] = 0 /\ failures[c] = 0
          /\ phase[c] # "none" => object # 0
          /\ TrustsAll(c) => /\ failures[c] <= inRow[c]
                             /\ phase[c] = "off" => inRow[c] >= MaxFailures
      BY DEF BoxesFollow
    <3>4. inRow'[c] = inRow[c] /\ held'[c] = held[c] /\ object' = object
      BY <1>1, <1>3, <2>2
    <3> QED
      BY <3>1, <3>2, <3>3, <3>4
  <2> QED
    BY <2>1, <2>2
<1> QED
  BY <1>6, <1>7, <1>9 DEF BoxesFollow

LEMMA ReachingTick ==
    ASSUME RefreshInductive, NEW b \in Box, TickUnchanged(b) \/ TickNew(b)
    PROVE  RefreshTypeOK' /\ PublishersBehind' /\ BoxesFollow'
<1> USE DEF RefreshInductive
<1>1. /\ history' = history /\ object' = object /\ pub' = pub /\ phase' = phase
      /\ anchors' = anchors /\ outages' = outages /\ phase[b] = "up"
      /\ failures' = [failures EXCEPT ![b] = 0] /\ inRow' = [inRow EXCEPT ![b] = 0]
  BY DEF TickUnchanged, TickNew, Ticks, Reset, Answered, chainvars
<1>2. held' = held \/ held' = [held EXCEPT ![b] = object]
  BY DEF TickUnchanged, TickNew
<1>3. refreshing' = refreshing \/ refreshing' = refreshing \ {b}
  BY DEF TickUnchanged, TickNew
<1>4. RefreshTypeOK'
  <2>1. held' \in [Box -> 0..MaxGen]
    BY <1>2 DEF RefreshTypeOK
  <2>2. failures' \in [Box -> Nat]
    BY <1>1 DEF RefreshTypeOK
  <2>3. refreshing' \subseteq Box
    BY <1>3 DEF RefreshTypeOK
  <2> QED
    BY <1>1, <2>1, <2>2, <2>3 DEF RefreshTypeOK
<1>5. PublishersBehind'
  BY <1>1 DEF PublishersBehind
<1>6. ASSUME NEW c \in Box
      PROVE  /\ phase'[c] = "none" => held'[c] = 0 /\ failures'[c] = 0
             /\ phase'[c] # "none" => object' # 0
             /\ TrustsAll(c)' => /\ failures'[c] <= inRow'[c]
                                 /\ phase'[c] = "off" => inRow'[c] >= MaxFailures
  <2>1. CASE c = b
    <3>1. failures'[b] = 0 /\ inRow'[b] = 0
      BY <1>1 DEF RefreshTypeOK
    <3> QED
      BY <1>1, <2>1, <3>1 DEF BoxesFollow
  <2>2. CASE c # b
    <3>1. failures'[c] = failures[c] /\ held'[c] = held[c] /\ inRow'[c] = inRow[c]
      BY <1>1, <1>2, <2>2 DEF RefreshTypeOK
    <3> QED
      BY <1>1, <3>1 DEF BoxesFollow, TrustsAll
  <2> QED
    BY <2>1, <2>2
<1> QED
  BY <1>4, <1>5, <1>6 DEF BoxesFollow

LEMMA RefreshStep == RefreshInductive /\ [Next]_vars => RefreshInductive'
<1> SUFFICES ASSUME RefreshInductive, [Next]_vars PROVE RefreshInductive'
  OBVIOUS
<1>1. AlwaysInductive'
  BY AlwaysStep, ChainPart DEF RefreshInductive
<1>2. RefreshTypeOK' /\ PublishersBehind' /\ BoxesFollow'
  <2>1. CASE [ChainNext]_chainvars /\ UNCHANGED <<object, pub, boxvars, fetched>>
    BY <2>1, ChainBesideBoxes
  <2>2. ASSUME NEW p \in Publisher, PublisherStep(p)
        PROVE  RefreshTypeOK' /\ PublishersBehind' /\ BoxesFollow'
    BY <2>2, PublisherSteps, SeedStep DEF PublisherStep
  <2>3. ASSUME NEW b \in Box, Tick(b) \/ TickOutage(b)
        PROVE  RefreshTypeOK' /\ PublishersBehind' /\ BoxesFollow'
    BY <2>3, FailingTick, ReachingTick DEF Tick
  <2> QED
    BY <2>1, <2>2, <2>3 DEF Next, vars
<1> QED
  BY <1>1, <1>2 DEF RefreshInductive
-----------------------------------------------------------------------------
(* BoxNeverRollsBack, for one publisher at a time *)

\* What waits to be put is no older than the object, and stays so.
LEMMA ObjectFollows ==
    ASSUME RefreshInductive, ObjectBehindReads, PublishInTurns, [Next]_vars
    PROVE  ObjectBehindReads' /\ object' \in Nat /\ object' >= object
<1> USE DEF RefreshInductive
<1>1. object \in Nat /\ Latest \in Nat /\ object <= Latest
  BY DEF RefreshTypeOK, PublishersBehind, AlwaysInductive, TypeOK
<1>2. ASSUME NEW p \in Publisher, PublisherStep(p)
      PROVE  ObjectBehindReads' /\ object' \in Nat /\ object' >= object
  <2>0. \A q \in Publisher : q = p
    BY DEF PublishInTurns
  <2>1. pub[p] \in PubJob /\ pub[p].gen \in Nat
    BY DEF RefreshTypeOK, PubJob
  <2>2. CASE PublishRead(p)
    <3>1. PICK g \in 1..MaxGen : g = Latest /\ pub' = [pub EXCEPT ![p] = [pc |-> "put", gen |-> g]]
      BY <2>2 DEF PublishRead, LatestDescriptor
    <3>2. pub'[p] = [pc |-> "put", gen |-> g] /\ object' = object
      BY <2>2, <3>1 DEF RefreshTypeOK, PublishRead
    <3> QED
      BY <1>1, <2>0, <3>1, <3>2 DEF ObjectBehindReads
  <2>3. CASE PublishPut(p)
    <3>1. object' = pub[p].gen /\ object <= pub[p].gen
      BY <2>3 DEF PublishPut, ObjectBehindReads
    <3>2. pub'[p].pc = "idle"
      BY <2>3 DEF PublishPut, RefreshTypeOK, PubIdle
    <3> QED
      BY <1>1, <2>0, <2>1, <3>1, <3>2 DEF ObjectBehindReads
  <2>4. CASE SeedRead(p) \/ \E b \in Box : SeedAnchors(p, b)
    <3>1. object' = object
      BY <2>4 DEF SeedRead, SeedAnchors
    <3>2. pub'[p].pc \in {"idle", "seed"}
      BY <2>4 DEF SeedRead, SeedAnchors, RefreshTypeOK, PubIdle
    <3> QED
      BY <1>1, <2>0, <3>1, <3>2 DEF ObjectBehindReads
  <2> QED
    BY <1>2, <2>2, <2>3, <2>4 DEF PublisherStep
<1>3. CASE object' = object /\ pub' = pub
  BY <1>1, <1>3 DEF ObjectBehindReads
<1> QED
  BY <1>2, <1>3 DEF Next, vars, Tick, TickUnchanged, TickRefused, TickNew, TickOutage

\* A step of a box that is not ahead of the object.
LEMMA BoxFollows ==
    ASSUME RefreshInductive, ObjectBehindReads, PublishInTurns, [Next]_vars,
           NEW b \in Box, held[b] # 0, held[b] <= object
    PROVE  held'[b] >= held[b] /\ held'[b] <= object'
<1> USE DEF RefreshInductive
<1>1. /\ object \in Nat /\ held[b] \in Nat /\ phase[b] # "none"
      /\ object' \in Nat /\ object' >= object
  BY ObjectFollows DEF RefreshTypeOK, BoxesFollow
<1>2. held'[b] = held[b] \/ (held'[b] = object /\ object' = object)
  <2>1. CASE held' = held
    BY <2>1
  <2>2. ASSUME NEW c \in Box, TickNew(c)
        PROVE  held'[b] = held[b] \/ (held'[b] = object /\ object' = object)
    BY <2>2 DEF TickNew, RefreshTypeOK
  <2>3. ASSUME NEW p \in Publisher, NEW c \in Box, SeedAnchors(p, c)
        PROVE  held'[b] = held[b]
    BY <1>1, <2>3 DEF SeedAnchors, RefreshTypeOK, boxvars
  <2> QED
    BY <2>1, <2>2, <2>3 DEF Next, vars, boxvars, Tick, TickUnchanged, TickRefused,
       TickOutage, Fails, PublisherStep, PublishRead, PublishPut, SeedRead
<1> QED
  BY <1>1, <1>2

-----------------------------------------------------------------------------
(* Theorems about DescriptorRefresh *)

\* The chain's invariants hold beside publishers and boxes, only rows that exist are
\* published or seeded, and as long as a box trusts every row each of its counted
\* failures was an outage.
THEOREM RefreshAlways == RefreshSpec => []RefreshInductive
<1>1. RefreshInit => RefreshInductive
  BY RefreshInitially
<1>2. RefreshInductive /\ [Next]_vars => RefreshInductive'
  BY RefreshStep
<1> QED
  BY <1>1, <1>2, PTL DEF RefreshSpec

\* The agent of a box whose seed names the key of every descriptor so far powers it
\* down only after MAX_FAILURE_TICKS fetches in a row that failed: refused signatures, exits
\* it cannot render and scattered outages are never the reason.
THEOREM RefreshOffAfterOutages == RefreshSpec => []OffOnlyAfterOutages
<1>1. RefreshInductive => OffOnlyAfterOutages
  BY DEF RefreshInductive, BoxesFollow, OffOnlyAfterOutages
<1> QED
  BY <1>1, RefreshAlways, PTL

\* With one publisher at a time the object never falls behind what was read for it,
\* so a box that is not ahead of it never goes back to an older exit set, although
\* the refresh loop compares no generations.
THEOREM RefreshNeverRollsBack ==
    ASSUME PublishInTurns
    PROVE  RefreshSpec => BoxNeverRollsBack
<1>1. RefreshInit => ObjectBehindReads
  BY RefreshInitially
<1>2. RefreshInductive /\ ObjectBehindReads /\ [Next]_vars => ObjectBehindReads'
  BY ObjectFollows
<1>3. RefreshInductive /\ ObjectBehindReads /\ [Next]_vars
          => [\A b \in Box : (held[b] # 0 /\ held[b] <= object)
                                 => held'[b] >= held[b] /\ held'[b] <= object']_vars
  BY BoxFollows
<1> QED
  BY <1>1, <1>2, <1>3, RefreshAlways, PTL DEF RefreshSpec, BoxNeverRollsBack
=============================================================================
