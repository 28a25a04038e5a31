--------------------------- MODULE DescriptorChain ---------------------------
(***************************************************************************)
(* Signing of the endpoint descriptor (spec B).  The daemon's rotator and   *)
(* the operator commands descriptor-sign-now, signing-key-rotate, eu-add    *)
(* and eu-retire all end in sign_new_descriptor, which reads the key, the   *)
(* latest descriptor, the exits and the next generation in four autocommit  *)
(* reads and only then inserts.  Every action is one read or one commit.    *)
(***************************************************************************)
EXTENDS Naturals, Sequences, FiniteSets

CONSTANTS
    Exit,         \* rows eu_exit_set may hold
    Operator,     \* operator processes able to run at the same time
    Rotator,      \* the daemon's DescriptorRotator, one more signer
    MaxKey,       \* bound: generations of descriptor_signing_key
    MaxGen,       \* bound: generations of descriptor_history
    MaxKills      \* bound: commands killed and statements that fail

ASSUME ChainAssumption ==
    /\ Rotator \notin Operator
    /\ MaxKey \in Nat \ {0} /\ MaxGen \in Nat /\ MaxKills \in Nat

VARIABLES
    keys,         \* descriptor_signing_key: "none", then "active", then "retired"
    history,      \* descriptor_history, by generation
    exits,        \* eu_exit_set: "none", "active" or "retired"
    op,           \* what each signer has read, and its next step
    overlapped,   \* history variable: has a signer ever started during another?
    kills

chainvars == <<keys, history, exits, op, overlapped, kills>>

Signer == Operator \cup {Rotator}
Key    == 1..MaxKey

(* prev: the generation whose payload previous_generation_hash is the hash of, *)
(* 0 for null: payloads hold their generation, so their hashes differ.         *)
Descriptor == [key : Key, prev : 0..MaxGen, exits : SUBSET Exit]

Idle == [pc |-> "idle", key |-> 1, prev |-> 0, exits |-> {}, gen |-> 0]
SignPc == {"idle", "rotate", "key", "latest", "exits", "gen", "insert"}

ActiveKeys  == {k \in Key : keys[k] = "active"}
ActiveExits == {e \in Exit : exits[e] = "active"}
Latest      == Len(history)

\* Bootstrap makes the first key; apply_schema leaves the other tables empty.
Init ==
    /\ keys = [k \in Key |-> IF k = 1 THEN "active" ELSE "none"]
    /\ history = <<>>
    /\ exits = [e \in Exit |-> "none"]
    /\ op = [p \in Signer |-> Idle]
    /\ overlapped = FALSE
    /\ kills = 0

Busy(p) == op[p].pc # "idle"
Starts(p) == overlapped' = (overlapped \/ \E q \in Signer \ {p} : Busy(q))
GoTo(p, pc) == op' = [op EXCEPT ![p].pc = pc]

(* Statements; some follow the slip that a careless edit of them might be. *)

\* the active key: retired_at IS NULL, highest generation
IsCurrentKey(k) == k \in ActiveKeys /\ \A j \in ActiveKeys : j <= k

\* signing-key-rotate's UPDATE of the outgoing key
KeepsOld(k) == keys[k]
Outgoing(k) == IF keys[k] = "active" THEN "retired" ELSE keys[k]

\* the generation a new descriptor gets
NextGeneration(job) == Latest + 1

\* the row the new descriptor's hash points at
PrevOfLatest == IF Latest = 0 THEN 0 ELSE history[Latest].prev
PrevGeneration == Latest

-----------------------------------------------------------------------------
(* sign_new_descriptor, statement by statement *)

\* descriptor-sign-now and the rotator begin with the key.
SignNow(p) ==
    /\ ~Busy(p)
    /\ Starts(p)
    /\ \E k \in Key : IsCurrentKey(k)
                      /\ op' = [op EXCEPT ![p].pc = "latest", ![p].key = k]
    /\ UNCHANGED <<keys, history, exits, kills>>

ReadKey(p) ==
    /\ op[p].pc = "key"
    /\ \E k \in Key : IsCurrentKey(k)
                      /\ op' = [op EXCEPT ![p].pc = "latest", ![p].key = k]
    /\ UNCHANGED <<keys, history, exits, overlapped, kills>>

ReadLatest(p) ==
    /\ op[p].pc = "latest"
    /\ op' = [op EXCEPT ![p].pc = "exits", ![p].prev = PrevGeneration]
    /\ UNCHANGED <<keys, history, exits, overlapped, kills>>

ReadExits(p) ==
    /\ op[p].pc = "exits"
    /\ op' = [op EXCEPT ![p].pc = "gen", ![p].exits = ActiveExits]
    /\ UNCHANGED <<keys, history, exits, overlapped, kills>>

ReadGeneration(p) ==
    /\ op[p].pc = "gen"
    /\ NextGeneration(op[p]) <= MaxGen
    /\ op' = [op EXCEPT ![p].pc = "insert", ![p].gen = NextGeneration(op[p])]
    /\ UNCHANGED <<keys, history, exits, overlapped, kills>>

\* The primary key refuses a generation that exists: the command prints it and
\* ends, the rotator drops it.
InsertDescriptor(p) ==
    /\ op[p].pc = "insert"
    /\ history' = IF op[p].gen \in DOMAIN history THEN history
                  ELSE Append(history, [key |-> op[p].key, prev |-> op[p].prev,
                                        exits |-> op[p].exits])
    /\ op' = [op EXCEPT ![p] = Idle]
    /\ UNCHANGED <<keys, exits, overlapped, kills>>

-----------------------------------------------------------------------------
(* The commands that sign after a commit of their own *)

RotateRead(p) ==
    /\ ~Busy(p)
    /\ Starts(p)
    /\ \E k \in Key : IsCurrentKey(k)
                      /\ op' = [op EXCEPT ![p].pc = "rotate", ![p].key = k]
    /\ UNCHANGED <<keys, history, exits, kills>>

\* One transaction: the outgoing key gets its retired_at, the next is inserted,
\* or both are rolled back because that generation exists.
RotateCommit(p) ==
    LET new == op[p].key + 1 IN
    /\ op[p].pc = "rotate"
    /\ new \in Key
    /\ IF keys[new] = "none"
       THEN /\ keys' = [keys EXCEPT ![op[p].key] = Outgoing(op[p].key),
                                    ![new] = "active"]
            /\ GoTo(p, "key")
       ELSE /\ op' = [op EXCEPT ![p] = Idle]
            /\ UNCHANGED keys
    /\ UNCHANGED <<history, exits, overlapped, kills>>

EuAdd(p, e) ==
    /\ ~Busy(p)
    /\ Starts(p)
    /\ exits[e] = "none"
    /\ exits' = [exits EXCEPT ![e] = "active"]
    /\ GoTo(p, "key")
    /\ UNCHANGED <<keys, history, kills>>

EuRetire(p, e) ==
    /\ ~Busy(p)
    /\ Starts(p)
    /\ exits[e] = "active"
    /\ exits' = [exits EXCEPT ![e] = "retired"]
    /\ GoTo(p, "key")
    /\ UNCHANGED <<keys, history, kills>>

\* The data-exit wheel registers and clears exits and signs nothing.
DataExit(e) ==
    /\ exits' = [exits EXCEPT ![e] = IF @ = "active" THEN "retired" ELSE "active"]
    /\ UNCHANGED <<keys, history, op, overlapped, kills>>

\* A command is killed, the daemon restarts, or a statement raises.
Killed(p) ==
    /\ kills < MaxKills
    /\ Busy(p)
    /\ kills' = kills + 1
    /\ op' = [op EXCEPT ![p] = Idle]
    /\ UNCHANGED <<keys, history, exits, overlapped>>

-----------------------------------------------------------------------------
SignStep(p) == \/ ReadKey(p) \/ ReadLatest(p) \/ ReadExits(p)
               \/ ReadGeneration(p) \/ InsertDescriptor(p)

OperatorStep(p) ==
    \/ SignNow(p) \/ RotateRead(p) \/ RotateCommit(p)
    \/ \E e \in Exit : EuAdd(p, e) \/ EuRetire(p, e)

ChainNext ==
    \/ \E p \in Signer : SignStep(p) \/ Killed(p)
    \/ \E p \in Operator : OperatorStep(p)
    \/ SignNow(Rotator)
    \/ \E e \in Exit : DataExit(e)

Spec == Init /\ [][ChainNext]_chainvars

-----------------------------------------------------------------------------
(* Who reads the history: the startup checks and the verifier *)

KnownKeys == {k \in Key : keys[k] # "none"}

\* Check 22 for an active node, and check 13 (B-D7 allows two keys in a rotation)
Check22 == ActiveKeys # {}
Check13 == Cardinality(ActiveKeys) <= 2

Check14 == \A g \in DOMAIN history : history[g].key \in KnownKeys
Check15 == \A g \in DOMAIN history : history[g].prev = g - 1

\* verify_descriptor by someone who holds generation "after", 0 for none.  A hash
\* is given whenever the generation is not the first; expiry is left out.
VerifyDescriptor(g, trusted, after) ==
    /\ history[g].key \in trusted
    /\ g = 1 => history[g].prev = 0
    /\ g > 1 => history[g].prev # 0 /\ after # 0 /\ history[g].prev = after

VerifyChain(trusted) ==
    \A g \in DOMAIN history : VerifyDescriptor(g, trusted, g - 1)

-----------------------------------------------------------------------------
(* Properties *)

JobType == [pc : SignPc, key : Key, prev : 0..MaxGen, exits : SUBSET Exit,
            gen : 0..MaxGen]

\* Types of the tables, and of what each signer has read.
TypeOK ==
    /\ keys \in [Key -> {"none", "active", "retired"}]
    /\ history \in Seq(Descriptor) /\ Len(history) <= MaxGen
    /\ exits \in [Exit -> {"none", "active", "retired"}]
    /\ op \in [Signer -> JobType]
    /\ overlapped \in BOOLEAN
    /\ kills \in 0..MaxKills

\* Exactly one signing key is active whatever overlaps, and it is the newest
\* (startup check 9 of spec A), so every signer finds the same one.
OneActiveKey ==
    \E k \in Key : \A j \in Key : /\ keys[j] = "active" <=> j = k
                                  /\ keys[j] = "none" <=> j > k

\* Each descriptor's hash points backwards, so a chain is never a loop; rows are
\* numbered without a gap even when two signers drew the same number.
LinkedBackwards == \A g \in DOMAIN history : history[g].prev < g

\* Startup check 15: each descriptor carries the hash of the one before it, as
\* long as no signer ever started while another was between its reads.
ChainLinked == ~overlapped => \A g \in DOMAIN history : history[g].prev = g - 1

\* Whatever the signers did, the next start finds a signing key and rows that name
\* one (checks 13, 14 and 22); as long as they took turns it finds an unbroken chain
\* (check 15), which verify_chain accepts from its first descriptor to its last.
HistoryIsSound ==
    /\ Check22 /\ Check13 /\ Check14
    /\ ~overlapped => Check15 /\ VerifyChain(KnownKeys)

Quiet == \A p \in Signer : ~Busy(p)

\* Between commands the newest descriptor is signed by the active key, which is
\* the only one a box seeded now is told to trust.
LatestByActiveKey ==
    (~overlapped /\ kills = 0 /\ Quiet /\ Latest > 0)
        => keys[history[Latest].key] = "active"

-----------------------------------------------------------------------------
(* Inductive invariants *)

\* What a signer has read can only have been overtaken.
JobBehind(job) ==
    /\ job.prev <= Latest
    /\ job.gen <= Latest + 1
    /\ job.pc = "insert" => job.prev < job.gen
    /\ job.pc \in {"rotate", "latest", "exits", "gen", "insert"} => keys[job.key] # "none"

JobsBehind == \A p \in Signer : JobBehind(op[p])

AlwaysInductive == TypeOK /\ OneActiveKey /\ LinkedBackwards /\ JobsBehind

\* While signers take turns, the one at work has read what is still so.
TurnHolds(job) ==
    /\ job.pc \in {"exits", "gen", "insert"} => job.prev = Latest
    /\ job.pc = "insert" => job.gen = Latest + 1
    /\ job.pc \in {"latest", "exits", "gen", "insert"} => keys[job.key] = "active"

OneSigner == \A p, q \in Signer : Busy(p) /\ Busy(q) => p = q

TurnsInductive ==
    ~overlapped => /\ OneSigner
                   /\ \A p \in Signer : TurnHolds(op[p])
                   /\ \A g \in DOMAIN history : history[g].prev = g - 1

\* A newest descriptor by another key than the active one is about to be followed.
WillSign(p) == op[p].pc \in {"key", "latest", "exits", "gen", "insert"}

LatestFollowed ==
    (~overlapped /\ kills = 0 /\ Latest > 0)
        => \/ keys[history[Latest].key] = "active"
           \/ \E p \in Signer : WillSign(p)
=============================================================================
