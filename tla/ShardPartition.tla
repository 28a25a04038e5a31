--------------------------- MODULE ShardPartition ---------------------------
(***************************************************************************)
(* What spec H promises of shards: every user is on at most one roster, a  *)
(* reshuffle replaces one shard by fresh ones holding exactly its members, *)
(* and the id of a retired shard never comes back.                         *)
(***************************************************************************)
EXTENDS Naturals, FiniteSets

CONSTANTS User, Shard, TargetSize, MaxSize, MaxListed

VARIABLES
    open,     \* active shards
    closed,   \* retired shards
    member    \* the users of each shard; nobody on a shard that is not open

PartitionInit ==
    /\ open = {} /\ closed = {}
    /\ member = [s \in Shard |-> {}]

Unseated(users) == \A s \in Shard : member[s] \cap users = {}
Unused(s) == s \notin open \cup closed

\* A fresh shard opens with users that have no other, as many as an operator lists, or
\* with nobody.
Open(s, users) ==
    /\ Unused(s)
    /\ Unseated(users)
    /\ Cardinality(users) <= IF MaxListed > TargetSize THEN MaxListed ELSE TargetSize
    /\ open' = open \cup {s}
    /\ member' = [member EXCEPT ![s] = users]
    /\ UNCHANGED closed

Join(u, s) ==
    /\ s \in open
    /\ Unseated({u})
    /\ Cardinality(member[s]) < MaxSize
    /\ member' = [member EXCEPT ![s] = @ \cup {u}]
    /\ UNCHANGED <<open, closed>>

\* The reshuffle: old closes and its members move to the fresh shards new.
Regenerate(old, new) ==
    /\ old \in open
    /\ new # {} /\ \A s \in new : Unused(s)
    /\ open' = (open \ {old}) \cup new
    /\ closed' = closed \cup {old}
    /\ \A s \in Shard \ (new \cup {old}) : member'[s] = member[s]
    /\ member'[old] = {}
    /\ UNION {member'[s] : s \in new} = member[old]
    /\ \A s \in new : member'[s] # {} /\ Cardinality(member'[s]) <= TargetSize
    /\ \A s, t \in new : s # t => member'[s] \cap member'[t] = {}

Close(s) ==
    /\ s \in open
    /\ member[s] = {}
    /\ open' = open \ {s}
    /\ closed' = closed \cup {s}
    /\ UNCHANGED member

PartitionNext ==
    \/ \E s \in Shard : \/ Close(s)
                        \/ \E users \in SUBSET User : Open(s, users)
                        \/ \E u \in User : Join(u, s)
    \/ \E s \in Shard, new \in SUBSET Shard : Regenerate(s, new)

PartitionSpec == PartitionInit /\ [][PartitionNext]_<<open, closed, member>>
=============================================================================
