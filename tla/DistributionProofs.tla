------------------------- MODULE DistributionProofs -------------------------
(***************************************************************************)
(* Distribution for any number of boxes, tokens, taps of a link and        *)
(* failures: however matches, killed batches and new tokens fall, a token  *)
(* binds one chat; and whatever two runs of the publisher send, the log    *)
(* tells what the user has over Telegram until an answer or a row is lost. *)
(***************************************************************************)
EXTENDS Distribution, TLAPS, SequenceTheorems

Todo == {<<>>, <<"email">>, <<"telegram">>, <<"telegram", "email">>}
RunType == [at : PubAt, want : Subset, sent : {"none", "ok", "failed"},
            todo : Todo, locked : BOOLEAN, signal : {"none", "failed", "reached"}, own : BOOLEAN]
PollType == [at : {"idle", "match", "bind", "callback"}, k : 0..Len(starts), enrolled : BOOLEAN,
             mail : BOOLEAN]

(* A message on its way is that of the channel whose turn it is. *)
SentHasTodo == \A p \in Publisher : pub[p].sent # "none" => pub[p].todo # <<>>

Tokens == TokensAddUp /\ TokenBindsOnce

IInv == TypeOK /\ Tokens /\ SentHasTodo

(* The conjuncts of TypeOK that a run of the publisher does not share. *)
UserOK == /\ assigned \in BOOLEAN /\ usable \subseteq Box /\ past \subseteq SUBSET Box
          /\ chan \subseteq Channel /\ up \subseteq Channel
LogOK  == /\ holds \in [Channel -> Subset] /\ last \in [Channel -> Subset]
          /\ lost \in BOOLEAN /\ unreg \in BOOLEAN /\ breach \in BOOLEAN /\ fails \in 0..Threshold
PubOK  == pub \in [Publisher -> RunType]
EnrollOK == /\ minted \in 0..MaxTokens /\ token \in BOOLEAN /\ starts \in Seq(1..MaxTokens)
            /\ poll \in PollType /\ binds \in [1..MaxTokens -> Nat]

LEMMA Parts == TypeOK <=> UserOK /\ LogOK /\ PubOK /\ EnrollOK /\ ops \in 0..MaxOps
BY DEF TypeOK, UserOK, LogOK, PubOK, EnrollOK, RunType, Todo, PollType

LEMMA PartsNext ==
    ASSUME UserOK', LogOK', PubOK', EnrollOK', (ops \in 0..MaxOps)' PROVE TypeOK'
BY DEF TypeOK, UserOK, LogOK, PubOK, EnrollOK, RunType, Todo, PollType

LEMMA SpendType == ASSUME ops \in 0..MaxOps, Spend PROVE ops' \in 0..MaxOps
BY DistributionAssumption DEF Spend

LEMMA SubsetType == Unsent \in Subset /\ \A s \in SUBSET Box : s \in Subset
BY DEF Subset

LEMMA AtRestType == AtRest \in RunType
<1>1. <<>> \in Todo BY DEF Todo
<1>2. QED BY <1>1, SubsetType DEF AtRest, RunType, PubAt

LEMMA TodoShape == ASSUME NEW q \in Todo, q # <<>> PROVE Head(q) \in Channel /\ Tail(q) \in Todo
<1>1. CASE q = <<"email">> BY <1>1 DEF Todo, Channel
<1>2. CASE q = <<"telegram">> BY <1>2 DEF Todo, Channel
<1>3. CASE q = <<"telegram", "email">> BY <1>3 DEF Todo, Channel
<1>4. QED BY <1>1, <1>2, <1>3 DEF Todo

(* A step that leaves enrolment alone. *)
LEMMA AsideSound ==
    ASSUME IInv, UNCHANGED enroll, UserOK', LogOK', PubOK', SentHasTodo', ops' \in 0..MaxOps
    PROVE  IInv'
<1>1. EnrollOK' BY Parts DEF IInv, enroll, EnrollOK, PollType
<1>2. TypeOK' BY <1>1, PartsNext
<1>3. Tokens' BY DEF IInv, enroll, Tokens, TokensAddUp, TokenBindsOnce
<1>4. QED BY <1>2, <1>3 DEF IInv

(* The token of the onboarding has bound nothing. *)
THEOREM EnrollmentInit == Init => IInv
<1> SUFFICES ASSUME Init PROVE IInv
    OBVIOUS
<1>1. UserOK BY DEF Init, UserOK
<1>2. LogOK
    <2>1. holds \in [Channel -> Subset] /\ last \in [Channel -> Subset]
        BY SubsetType DEF Init
    <2>2. fails \in 0..Threshold BY DistributionAssumption DEF Init
    <2>3. QED BY <2>1, <2>2 DEF Init, LogOK
<1>3. PubOK BY AtRestType DEF Init, PubOK
<1>4. EnrollOK
    <2>1. minted \in 0..MaxTokens /\ token \in BOOLEAN BY DistributionAssumption DEF Init
    <2>2. starts \in Seq(1..MaxTokens) /\ Len(starts) = 0 BY DEF Init
    <2>3. poll \in PollType BY <2>2 DEF Init, PollType, Resting
    <2>4. QED BY <2>1, <2>2, <2>3 DEF Init, EnrollOK
<1>5. ops \in 0..MaxOps BY DistributionAssumption DEF Init
<1>6. TypeOK BY <1>1, <1>2, <1>3, <1>4, <1>5, Parts
<1>7. Tokens
    <2>1. minted = 1 /\ poll.at = "idle" BY DEF Init, Resting
    <2>2. \A n \in 1..MaxTokens : binds[n] = 0 BY DEF Init
    <2>3. 1 \in 1..MaxTokens BY DistributionAssumption
    <2>4. QED BY <2>1, <2>2, <2>3 DEF Tokens, TokensAddUp, TokenBindsOnce
<1>8. SentHasTodo BY DEF Init, SentHasTodo, AtRest
<1>9. QED BY <1>6, <1>7, <1>8 DEF IInv

-----------------------------------------------------------------------------
(* The operator, the fleet and the channels *)

LEMMA UserStep ==
    ASSUME IInv, Assign \/ BoxesChange \/ ChannelsSet \/ \E c \in Channel : ChannelComesOrGoes(c)
    PROVE  IInv'
<1>1. UNCHANGED enroll /\ UNCHANGED log /\ UNCHANGED pub /\ ops' \in 0..MaxOps
    BY SpendType, Parts DEF IInv, Assign, BoxesChange, ChannelsSet, ChannelComesOrGoes, user
<1>2. LogOK' /\ PubOK' /\ SentHasTodo' BY <1>1, Parts DEF IInv, log, LogOK, PubOK, SentHasTodo
<1>3. UserOK'
    <2>1. CASE Assign
        <3>1. assigned' \in BOOLEAN BY <2>1 DEF Assign
        <3>2. QED BY <2>1, <3>1, Parts DEF IInv, Assign, UserOK
    <2>2. CASE BoxesChange
        BY <2>2, Parts DEF IInv, BoxesChange, UserOK
    <2>3. CASE ChannelsSet
        BY <2>3, Parts DEF IInv, ChannelsSet, SetChannels, UserOK
    <2>4. CASE \E c \in Channel : ChannelComesOrGoes(c)
        <3>1. PICK c \in Channel : ChannelComesOrGoes(c) BY <2>4
        <3>2. up' \subseteq Channel BY <3>1, Parts DEF IInv, ChannelComesOrGoes, UserOK
        <3>3. QED BY <3>1, <3>2, Parts DEF IInv, ChannelComesOrGoes, UserOK, user
    <2>5. QED BY <2>1, <2>2, <2>3, <2>4
<1>4. QED BY <1>1, <1>2, <1>3, AsideSound

LEMMA CompactStep == ASSUME IInv, Compact PROVE IInv'
<1>1. last' \in [Channel -> Subset]
    BY Parts, SubsetType DEF IInv, Compact, LogOK
<1>2. LogOK' BY <1>1, Parts DEF IInv, Compact, LogOK
<1>3. UserOK' /\ PubOK' /\ SentHasTodo' BY Parts DEF IInv, Compact, UserOK, PubOK, SentHasTodo, user
<1>4. ops' \in 0..MaxOps BY SpendType, Parts DEF IInv, Compact
<1>5. UNCHANGED enroll BY DEF Compact
<1>6. QED BY <1>2, <1>3, <1>4, <1>5, AsideSound

-----------------------------------------------------------------------------
(* Runs of the publisher *)

(* A run begins with what it has read. *)
BeginsAs(row, own) ==
    \/ row = [AtRest EXCEPT !.at = "orphaned", !.own = own]
    \/ row = [AtRest EXCEPT !.at = "unregistered", !.own = own]
    \/ row = [AtRest EXCEPT !.at = "built", !.want = usable, !.todo = Configured, !.own = own]

LEMMA BeginRow ==
    ASSUME NEW p \in Publisher, NEW own \in BOOLEAN, PubBegin(p, own)
    PROVE  \E row : BeginsAs(row, own) /\ pub' = [pub EXCEPT ![p] = row]
<1>1. CASE ~assigned BY <1>1 DEF PubBegin, BeginsAs
<1>2. CASE assigned /\ chan = {} BY <1>2 DEF PubBegin, BeginsAs
<1>3. CASE assigned /\ chan # {} BY <1>3 DEF PubBegin, BeginsAs
<1>4. QED BY <1>1, <1>2, <1>3

LEMMA BeginRowType ==
    ASSUME IInv, NEW own \in BOOLEAN, NEW row, BeginsAs(row, own)
    PROVE  /\ row \in RunType /\ row.sent = "none" /\ ~row.locked
           /\ row.at \in {"orphaned", "unregistered", "built"}
           /\ row.at = "built" => row.want \in SUBSET Box
<1>1. Configured \in Todo BY DEF Configured, Todo
<1>2. usable \in SUBSET Box /\ usable \in Subset BY Parts, SubsetType DEF IInv, UserOK
<1>3. QED BY <1>1, <1>2, AtRestType DEF BeginsAs, AtRest, RunType, PubAt

LEMMA BeginType ==
    ASSUME IInv, NEW p \in Publisher, NEW own \in BOOLEAN, PubBegin(p, own)
    PROVE  UserOK' /\ LogOK' /\ PubOK' /\ SentHasTodo'
<1>1. UserOK' /\ LogOK' BY Parts DEF IInv, PubBegin, UserOK, LogOK, user, log
<1>2. PICK row : BeginsAs(row, own) /\ pub' = [pub EXCEPT ![p] = row] BY BeginRow
<1>3. row \in RunType /\ row.sent = "none" BY <1>2, BeginRowType
<1>4. PubOK' BY <1>2, <1>3, Parts DEF IInv, PubOK
<1>5. SentHasTodo' BY <1>2, <1>3, Parts DEF IInv, PubOK, SentHasTodo
<1>6. QED BY <1>1, <1>4, <1>5

LEMMA BeginStep == ASSUME IInv, Sweep \/ PublishNow PROVE IInv'
<1>1. UserOK' /\ LogOK' /\ PubOK' /\ SentHasTodo' BY BeginType DEF Sweep, PublishNow, Publisher
<1>2. UNCHANGED enroll /\ ops' \in 0..MaxOps
    BY SpendType, Parts DEF IInv, Sweep, PublishNow
<1>3. QED BY <1>1, <1>2, AsideSound

LEMMA RowType == ASSUME IInv, NEW p \in Publisher PROVE pub[p] \in RunType
BY Parts DEF IInv, PubOK

LEMMA NotReachedType == ASSUME NEW n \in 0..Threshold PROVE NotReached(n) \in 0..Threshold
BY DistributionAssumption DEF NotReached

LEMMA CountType == ASSUME IInv, NEW p \in Publisher, Count(p) PROVE fails' \in 0..Threshold
<1>1. fails \in 0..Threshold /\ 0 \in 0..Threshold
    BY DistributionAssumption, Parts DEF IInv, LogOK
<1>2. NotReached(CountFrom(p)) \in 0..Threshold BY <1>1, NotReachedType DEF CountFrom
<1>3. QED BY <1>1, <1>2 DEF Count, Counted

LEMMA DecideRow ==
    ASSUME IInv, NEW p \in Publisher, PubDecide(p)
    PROVE  \E row \in RunType :
             /\ pub' = [pub EXCEPT ![p] = row] /\ row.sent = "none" /\ ~row.locked
             /\ row.at \in {"idle", "decided"}
<1>1. pub \in [Publisher -> RunType] /\ pub[p] \in RunType BY RowType, Parts DEF IInv, PubOK
<1>2. CASE pub[p].signal = "none"
    <2>1. pub' = [pub EXCEPT ![p] = AtRest] BY <1>1, <1>2 DEF PubDecide
    <2>2. AtRest.sent = "none" /\ ~AtRest.locked /\ AtRest.at = "idle" BY DEF AtRest
    <2>3. QED BY <2>1, <2>2, AtRestType
<1>3. CASE pub[p].signal # "none"
    <2> DEFINE row == [pub[p] EXCEPT !.at = "decided", !.locked = FALSE]
    <2>1. pub' = [pub EXCEPT ![p] = row] /\ pub[p].sent = "none" BY <1>1, <1>3 DEF PubDecide
    <2>2. row \in RunType /\ row.sent = "none" /\ ~row.locked /\ row.at = "decided"
        BY <1>1, <2>1 DEF RunType, PubAt
    <2>3. QED BY <2>1, <2>2
<1>4. QED BY <1>2, <1>3

LEMMA PubRunStep ==
    ASSUME IInv, NEW p \in Publisher, PubStep(p) PROVE IInv'
<1>1. UNCHANGED <<user, up, enroll, ops>>
    BY DEF PubStep, PubNote, PubLock, PubGiveUp, PubSkip, PubSend, PubAppend, PubDecide, PubFlag
<1>2. UserOK' /\ ops' \in 0..MaxOps BY <1>1, Parts DEF IInv, UserOK, user
<1>3. pub[p] \in RunType BY RowType
<1>4. PubOK' /\ LogOK'
    <2>1. CASE PubLock(p)
        <3>1. PubOK' BY <1>3, <2>1, Parts DEF IInv, PubOK, PubLock, RunType, PubAt
        <3>2. QED BY <2>1, <3>1, Parts DEF IInv, PubLock, log, LogOK
    <2>2. CASE PubGiveUp(p)
        <3>1. PubOK' BY <2>2, AtRestType, Parts DEF IInv, PubOK, PubGiveUp
        <3>2. lost' \in BOOLEAN BY <2>2 DEF PubGiveUp
        <3>3. fails' \in 0..Threshold BY <2>2, CountType, Parts DEF IInv, LogOK, PubGiveUp
        <3>4. UNCHANGED <<holds, last, unreg, breach>> BY <2>2 DEF PubGiveUp
        <3>5. QED BY <3>1, <3>2, <3>3, <3>4, Parts DEF IInv, LogOK
    <2>3. CASE PubSkip(p)
        <3>1. Tail(pub[p].todo) \in Todo BY <1>3, <2>3, TodoShape DEF PubSkip, Turn, RunType
        <3>2. [pub[p] EXCEPT !.todo = Tail(pub[p].todo)] \in RunType BY <1>3, <3>1 DEF RunType
        <3>3. pub' = [pub EXCEPT ![p] = [pub[p] EXCEPT !.todo = Tail(pub[p].todo)]]
            BY <2>3, Parts DEF IInv, PubOK, PubSkip
        <3>4. PubOK' BY <3>2, <3>3, Parts DEF IInv, PubOK
        <3>5. QED BY <2>3, <3>4, Parts DEF IInv, PubSkip, log, LogOK
    <2>4. CASE PubSend(p)
        <3> DEFINE c == Head(pub[p].todo)
        <3>1. c \in Channel BY <1>3, <2>4, TodoShape DEF PubSend, Turn, RunType
        <3>2. pub' = [pub EXCEPT ![p].sent = "ok"] \/ pub' = [pub EXCEPT ![p].sent = "failed"]
            BY <2>4 DEF PubSend
        <3>3. PubOK' BY <1>3, <3>2, Parts DEF IInv, PubOK, RunType
        <3>4. holds' = holds \/ holds' = [holds EXCEPT ![c] = pub[p].want] BY <2>4 DEF PubSend
        <3>5. holds' \in [Channel -> Subset]
            BY <1>3, <3>1, <3>4, Parts DEF IInv, LogOK, RunType
        <3>6. lost' \in BOOLEAN BY <2>4, Parts DEF IInv, LogOK, PubSend
        <3>7. UNCHANGED <<last, unreg, breach, fails>> BY <2>4 DEF PubSend
        <3>8. QED BY <3>3, <3>5, <3>6, <3>7, Parts DEF IInv, LogOK
    <2>5. CASE PubAppend(p)
        <3> DEFINE q == pub[p].todo
                   sig == IF pub[p].sent = "ok" \/ pub[p].signal = "reached" THEN "reached" ELSE "failed"
                   row == [pub[p] EXCEPT !.sent = "none", !.todo = Tail(q), !.locked = FALSE, !.signal = sig]
        <3>1. pub' = [pub EXCEPT ![p] = row]
            BY <2>5, Parts DEF IInv, PubOK, PubAppend
        <3>2. q # <<>> BY <2>5 DEF IInv, SentHasTodo, PubAppend
        <3>3. Head(q) \in Channel /\ Tail(q) \in Todo BY <1>3, <3>2, TodoShape DEF RunType
        <3>4. row \in RunType BY <1>3, <3>3 DEF RunType
        <3>5. PubOK' BY <3>1, <3>4, Parts DEF IInv, PubOK
        <3>6. last' \in [Channel -> Subset]
            BY <1>3, <2>5, <3>3, Parts DEF IInv, LogOK, PubAppend, RunType
        <3>7. unreg' \in BOOLEAN BY <2>5, Parts DEF IInv, LogOK, PubAppend
        <3>8. UNCHANGED <<holds, lost, breach, fails>> BY <2>5 DEF PubAppend
        <3>9. QED BY <3>5, <3>6, <3>7, <3>8, Parts DEF IInv, LogOK
    <2>6. CASE PubDecide(p)
        <3>1. PICK row \in RunType : pub' = [pub EXCEPT ![p] = row]
            BY <1>3, <2>6, DecideRow
        <3>2. PubOK' BY <3>1, Parts DEF IInv, PubOK
        <3>3. unreg' \in BOOLEAN BY <2>6, Parts DEF IInv, LogOK, PubDecide
        <3>4. UNCHANGED <<holds, lost, last, breach, fails>> BY <2>6 DEF PubDecide
        <3>5. QED BY <3>2, <3>3, <3>4, Parts DEF IInv, LogOK
    <2>7. CASE PubFlag(p)
        <3>1. PubOK' BY <2>7, AtRestType, Parts DEF IInv, PubOK, PubFlag
        <3>2. fails' \in 0..Threshold BY <2>7, CountType DEF PubFlag
        <3>3. breach' \in BOOLEAN BY <2>7 DEF PubFlag
        <3>4. UNCHANGED <<holds, lost, last, unreg>> BY <2>7 DEF PubFlag
        <3>5. QED BY <3>1, <3>2, <3>3, <3>4, Parts DEF IInv, LogOK
    <2>8. CASE PubNote(p)
        <3>1. PubOK' BY <2>8, AtRestType, Parts DEF IInv, PubOK, PubNote
        <3>2. unreg' \in BOOLEAN /\ breach' \in BOOLEAN
            BY <2>8, Parts DEF IInv, LogOK, PubNote, OrphansDropped
        <3>3. UNCHANGED <<holds, lost, last, fails>> BY <2>8 DEF PubNote
        <3>4. QED BY <3>1, <3>2, <3>3, Parts DEF IInv, LogOK
    <2>9. QED BY <2>1, <2>2, <2>3, <2>4, <2>5, <2>6, <2>7, <2>8 DEF PubStep
<1>5. SentHasTodo'
    <2>1. \A o \in Publisher : o # p => pub'[o] = pub[o]
        BY Parts DEF IInv, PubOK, PubStep, PubNote, PubLock, PubGiveUp, PubSkip, PubSend, PubAppend,
                     PubDecide, PubFlag
    <2>2. pub \in [Publisher -> RunType] BY Parts DEF IInv, PubOK
    <2>3. AtRest.sent = "none" BY DEF AtRest
    <2>4. CASE PubLock(p)
        BY <1>3, <2>2, <2>4 DEF IInv, SentHasTodo, RunType, PubLock
    <2>5. CASE PubGiveUp(p) \/ PubFlag(p) \/ PubNote(p) \/ PubDecide(p)
        <3>1. pub'[p].sent = "none"
            <4>1. CASE PubGiveUp(p) \/ PubFlag(p) \/ PubNote(p)
                BY <2>2, <2>3, <4>1 DEF PubGiveUp, PubFlag, PubNote
            <4>2. CASE PubDecide(p) BY <1>3, <2>2, <4>2, DecideRow
            <4>3. QED BY <2>5, <4>1, <4>2
        <3>2. QED BY <2>1, <3>1 DEF IInv, SentHasTodo
    <2>6. CASE PubSkip(p) \/ PubAppend(p)
        <3>1. pub'[p].sent = "none"
            <4>1. CASE PubSkip(p) BY <1>3, <2>2, <4>1 DEF PubSkip, Turn, RunType
            <4>2. CASE PubAppend(p)
                <5> DEFINE sig == IF pub[p].sent = "ok" \/ pub[p].signal = "reached"
                                  THEN "reached" ELSE "failed"
                           row == [pub[p] EXCEPT !.sent = "none", !.todo = Tail(pub[p].todo),
                                                 !.locked = FALSE, !.signal = sig]
                <5>1. pub' = [pub EXCEPT ![p] = row] BY <2>2, <4>2 DEF PubAppend
                <5>2. row.sent = "none" BY <1>3 DEF RunType
                <5> HIDE DEF row
                <5>3. QED BY <2>2, <5>1, <5>2
            <4>3. QED BY <2>6, <4>1, <4>2
        <3>2. QED BY <2>1, <3>1 DEF IInv, SentHasTodo
    <2>7. CASE PubSend(p)
        <3>1. pub'[p].todo = pub[p].todo /\ pub[p].todo # <<>>
            BY <1>3, <2>2, <2>7 DEF PubSend, Turn, RunType
        <3>2. QED BY <2>1, <3>1 DEF IInv, SentHasTodo
    <2>8. QED BY <2>4, <2>5, <2>6, <2>7 DEF PubStep
<1>6. QED BY <1>1, <1>2, <1>4, <1>5, AsideSound

-----------------------------------------------------------------------------
(* Tokens and the poller *)

LEMMA Enrolling ==
    ASSUME IInv
    PROVE  /\ minted \in 0..MaxTokens /\ token \in BOOLEAN /\ starts \in Seq(1..MaxTokens)
           /\ Len(starts) \in Nat /\ poll \in PollType /\ poll.k \in 0..Len(starts)
           /\ poll.at \in {"idle", "match", "bind", "callback"} /\ poll.enrolled \in BOOLEAN
           /\ poll.mail \in BOOLEAN /\ binds \in [1..MaxTokens -> Nat]
           /\ \A n \in 1..MaxTokens : binds[n] \in Nat
           /\ Tokens /\ TokensAddUp /\ TokenBindsOnce /\ SentHasTodo /\ ops \in 0..MaxOps /\ MaxTokens \in Nat
BY Parts, DistributionAssumption DEF IInv, EnrollOK, PollType, Tokens

(* A step of enrolment that leaves the rest alone. *)
LEMMA EnrollSound ==
    ASSUME IInv, EnrollOK', Tokens', UNCHANGED <<assigned, usable, past, up, log, pub>>,
           chan' \subseteq Channel, ops' \in 0..MaxOps
    PROVE  IInv'
<1>1. UserOK' /\ LogOK' /\ PubOK' BY Parts DEF IInv, UserOK, LogOK, PubOK, log
<1>2. SentHasTodo' BY DEF IInv, SentHasTodo
<1>3. QED BY <1>1, <1>2, PartsNext DEF IInv

LEMMA MintStep == ASSUME IInv, Mint PROVE IInv'
<1>1. minted' = minted + 1 /\ token' = TRUE /\ UNCHANGED <<starts, poll, binds>> /\ minted < MaxTokens
    BY DEF Mint, Minted
<1>2. EnrollOK' BY <1>1, Enrolling DEF EnrollOK, PollType
<1>3. Tokens'
    <2>1. minted' \in 1..MaxTokens /\ minted' > minted BY <1>1, Enrolling
    <2>2. QED BY <1>1, <2>1, Enrolling DEF Tokens, TokensAddUp, TokenBindsOnce
<1>4. chan' \subseteq Channel BY Parts DEF IInv, UserOK, Mint, user
<1>5. ops' \in 0..MaxOps BY SpendType, Enrolling DEF Mint
<1>6. QED BY <1>2, <1>3, <1>4, <1>5, EnrollSound DEF Mint, user

LEMMA StartStep == ASSUME IInv, NEW n \in 1..MaxTokens, Start(n) PROVE IInv'
<1>1. UNCHANGED <<minted, token, poll, binds>> /\ starts' = starts \o <<n>> BY DEF Start
<1>2. starts' \in Seq(1..MaxTokens) /\ Len(starts') = Len(starts) + 1
    BY <1>1, Enrolling
<1>3. poll' \in PollType' BY <1>1, <1>2, Enrolling DEF PollType
<1>4. EnrollOK' BY <1>1, <1>2, <1>3, Enrolling DEF EnrollOK
<1>5. Tokens'
    <2>1. \A i \in 1..Len(starts) : starts'[i] = starts[i] BY <1>1, Enrolling
    <2>2. poll.k < Len(starts) => poll.k + 1 \in 1..Len(starts) BY Enrolling
    <2>3. QED BY <1>1, <1>2, <2>1, <2>2, Enrolling DEF Tokens, TokensAddUp, TokenBindsOnce
<1>6. chan' \subseteq Channel BY Parts DEF IInv, UserOK, Start, user
<1>7. ops' \in 0..MaxOps BY SpendType, Enrolling DEF Start
<1>8. QED BY <1>4, <1>5, <1>6, <1>7, EnrollSound DEF Start, user

(* A batch that ends, or goes on, binds nothing that its matches have not spent. *)
LEMMA RestsSound ==
    ASSUME IInv, NEW row, poll' = row, row.at \notin {"match", "bind"},
           UNCHANGED <<minted, token, binds>>
    PROVE  Tokens'
BY Enrolling DEF Tokens, TokensAddUp, TokenBindsOnce

LEMMA PollMatchStep == ASSUME IInv, PollMatch PROVE IInv'
<1>1. /\ UNCHANGED <<minted, token, starts, binds, ops, log, pub, user, up>> /\ poll.k < Len(starts)
      /\ poll.at = "idle"
    BY DEF PollMatch, Polling
<1>2. \/ token /\ starts[poll.k + 1] = minted /\ poll' = [poll EXCEPT !.at = "match"]
      \/ poll' = [poll EXCEPT !.k = @ + 1]
    BY DEF PollMatch
<1>3. poll' \in PollType'
    <2>1. starts' = starts /\ poll \in PollType /\ poll.k + 1 \in 0..Len(starts) BY <1>1, Enrolling
    <2>2. CASE poll' = [poll EXCEPT !.at = "match"] BY <2>1, <2>2 DEF PollType
    <2>3. CASE poll' = [poll EXCEPT !.k = @ + 1] BY <2>1, <2>3 DEF PollType
    <2>4. QED BY <1>2, <2>2, <2>3
<1>4. EnrollOK' BY <1>1, <1>3, Enrolling DEF EnrollOK
<1>5. Tokens'
    <2>1. CASE token /\ starts[poll.k + 1] = minted /\ poll' = [poll EXCEPT !.at = "match"]
        <3>1. poll'.at = "match" /\ poll'.k = poll.k BY <2>1, Enrolling DEF PollType
        <3>2. QED BY <1>1, <2>1, <3>1, Enrolling DEF Tokens, TokensAddUp, TokenBindsOnce
    <2>2. CASE poll' = [poll EXCEPT !.k = @ + 1]
        <3>1. poll'.at = "idle" BY <1>1, <2>2, Enrolling DEF PollType
        <3>2. QED BY <1>1, <3>1, Enrolling, RestsSound
    <2>3. QED BY <1>2, <2>1, <2>2
<1>6. chan' \subseteq Channel BY <1>1, Parts DEF IInv, UserOK, user
<1>7. QED BY <1>1, <1>4, <1>5, <1>6, Enrolling, EnrollSound DEF user

(* What is spent is the live token, which may be newer than the one that was looked up and is
   about to bind; the newer one then binds nothing. *)
LEMMA PollSpendStep == ASSUME IInv, PollSpend PROVE IInv'
<1>1. /\ UNCHANGED <<minted, starts, binds, ops, log, pub, user, up>> /\ poll.at = "match"
      /\ token' = FALSE /\ poll' = [poll EXCEPT !.at = "bind", !.mail = "email" \in chan]
    BY DEF PollSpend, Spent
<1>2. poll' \in PollType' /\ poll'.at = "bind" /\ poll'.k = poll.k
    <2> DEFINE mail == "email" \in chan
    <2>1. mail \in BOOLEAN OBVIOUS
    <2>2. poll' = [poll EXCEPT !.at = "bind", !.mail = mail] /\ starts' = starts BY <1>1
    <2> HIDE DEF mail
    <2>3. poll \in PollType BY Enrolling
    <2>4. QED BY <2>1, <2>2, <2>3 DEF PollType
<1>3. EnrollOK' BY <1>1, <1>2, Enrolling DEF EnrollOK
<1>4. Tokens' BY <1>1, <1>2, Enrolling DEF Tokens, TokensAddUp, TokenBindsOnce
<1>5. chan' \subseteq Channel BY <1>1, Parts DEF IInv, UserOK, user
<1>6. QED BY <1>1, <1>3, <1>4, <1>5, Enrolling, EnrollSound DEF user

LEMMA PollBindStep == ASSUME IInv, PollBind PROVE IInv'
<1> DEFINE n == starts[poll.k + 1]
<1>1. /\ UNCHANGED <<minted, token, starts, ops, log, pub, assigned, usable, past, up>>
      /\ binds' = [binds EXCEPT ![n] = @ + 1] /\ poll.at = "bind"
      /\ poll' = [Resting EXCEPT !.k = poll.k + 1, !.enrolled = TRUE]
      /\ chan' = {"telegram"} \cup IF poll.mail THEN {"email"} ELSE {}
    BY DEF PollBind, SetChannels
<1>2. poll.k < Len(starts) /\ n <= minted /\ binds[n] = 0 /\ (token => n # minted)
    BY <1>1, Enrolling DEF TokensAddUp
<1>3. n \in 1..MaxTokens
    <2>1. poll.k + 1 \in 1..Len(starts) BY <1>2, Enrolling
    <2>2. QED BY <2>1, Enrolling
<1> HIDE DEF n
<1>4. poll' = [at |-> "idle", k |-> poll.k + 1, enrolled |-> TRUE, mail |-> FALSE]
    BY <1>1 DEF Resting
<1>5. poll' \in PollType' /\ poll'.at = "idle"
    <2>1. starts' = starts /\ poll.k + 1 \in 0..Len(starts) BY <1>1, <1>2, Enrolling
    <2>2. QED BY <1>4, <2>1 DEF PollType
<1>6. binds' \in [1..MaxTokens -> Nat] BY <1>1, <1>3, Enrolling
<1>7. EnrollOK' BY <1>1, <1>5, <1>6, Enrolling DEF EnrollOK
<1>8. \A i \in 1..MaxTokens : binds'[i] = IF i = n THEN 1 ELSE binds[i]
    BY <1>1, <1>2, <1>3, Enrolling
<1>9. Tokens' BY <1>1, <1>2, <1>3, <1>5, <1>8, Enrolling DEF Tokens, TokensAddUp, TokenBindsOnce
<1>10. chan' \subseteq Channel BY <1>1 DEF Channel
<1>11. QED BY <1>1, <1>7, <1>9, <1>10, Enrolling, EnrollSound

LEMMA PollSaveStep == ASSUME IInv, PollSave PROVE IInv'
<1>1. /\ UNCHANGED <<minted, token, binds, ops, log, pub, user, up>>
      /\ starts' = SubSeq(starts, poll.k + 1, Len(starts))
      /\ poll' = [Resting EXCEPT !.at = "callback"] \/ poll' = Resting
    BY DEF PollSave
<1>2. starts' \in Seq(1..MaxTokens) /\ Len(starts') \in Nat
    <2>1. \A i \in (poll.k + 1)..Len(starts) : starts[i] \in 1..MaxTokens
        BY Enrolling
    <2>2. poll.k + 1 \in Int /\ Len(starts) \in Int BY Enrolling
    <2>3. starts' \in Seq(1..MaxTokens)
        <3> HIDE DEF TokensAddUp
        <3>1. SubSeq(starts, poll.k + 1, Len(starts)) \in Seq(1..MaxTokens)
            BY <2>1, <2>2, SubSeqProperties
        <3>2. QED BY <1>1, <3>1
    <2>4. QED BY <2>3
<1>3. poll' \in PollType' /\ poll'.at \notin {"match", "bind"}
    <2>1. 0 \in 0..Len(starts') BY <1>2
    <2>2. poll' = [at |-> "callback", k |-> 0, enrolled |-> FALSE, mail |-> FALSE]
          \/ poll' = [at |-> "idle", k |-> 0, enrolled |-> FALSE, mail |-> FALSE]
        BY <1>1 DEF Resting
    <2>3. poll'.at \notin {"match", "bind"} BY <2>2
    <2>4. [at |-> "callback", k |-> 0, enrolled |-> FALSE, mail |-> FALSE] \in PollType'
        BY <2>1 DEF PollType
    <2>5. [at |-> "idle", k |-> 0, enrolled |-> FALSE, mail |-> FALSE] \in PollType'
        BY <2>1 DEF PollType
    <2>6. QED BY <2>2, <2>3, <2>4, <2>5
<1>4. EnrollOK' BY <1>1, <1>2, <1>3, Enrolling DEF EnrollOK
<1>5. Tokens' BY <1>1, <1>3, RestsSound
<1>6. chan' \subseteq Channel BY <1>1, Parts DEF IInv, UserOK, user
<1>7. QED BY <1>1, <1>4, <1>5, <1>6, Enrolling, EnrollSound DEF user

LEMMA RestingType ==
    ASSUME IInv, poll' = Resting, UNCHANGED <<minted, token, starts, binds>>
    PROVE  EnrollOK' /\ Tokens'
<1>1. poll' \in PollType' /\ poll'.at = "idle" BY Enrolling DEF PollType, Resting
<1>2. QED BY <1>1, Enrolling DEF EnrollOK, Tokens, TokensAddUp, TokenBindsOnce

LEMMA PollFailsStep == ASSUME IInv, PollFails PROVE IInv'
<1>1. EnrollOK' /\ Tokens' BY RestingType DEF PollFails
<1>2. chan' \subseteq Channel BY Parts DEF IInv, UserOK, PollFails, user
<1>3. QED BY <1>1, <1>2, Enrolling, EnrollSound DEF PollFails, user

LEMMA OnEnrolledStep == ASSUME IInv, OnEnrolled PROVE IInv'
<1>1. UserOK' /\ LogOK' /\ PubOK' /\ SentHasTodo' BY BeginType DEF OnEnrolled, Publisher
<1>2. EnrollOK' /\ Tokens' BY RestingType DEF OnEnrolled
<1>3. ops' \in 0..MaxOps BY Enrolling DEF OnEnrolled
<1>4. QED BY <1>1, <1>2, <1>3, PartsNext DEF IInv

LEMMA RestartStep == ASSUME IInv, Restart PROVE IInv'
<1>1. EnrollOK' /\ Tokens' BY RestingType DEF Restart
<1>2. UserOK' BY Parts DEF IInv, UserOK, Restart, user
<1>3. PubOK' BY AtRestType, Parts DEF IInv, PubOK, Restart
<1>4. lost' \in BOOLEAN BY DEF Restart
<1>5. LogOK' BY <1>4, DistributionAssumption, Parts DEF IInv, LogOK, Restart
<1>6. SentHasTodo' BY DEF IInv, SentHasTodo, Restart, AtRest
<1>7. ops' \in 0..MaxOps BY SpendType, Enrolling DEF Restart
<1>8. QED BY <1>1, <1>2, <1>3, <1>5, <1>6, <1>7, PartsNext DEF IInv

-----------------------------------------------------------------------------
LEMMA EnrollmentStep == IInv /\ [Next]_vars => IInv'
<1> SUFFICES ASSUME IInv, [Next]_vars PROVE IInv'
    OBVIOUS
<1>1. CASE Sweep BY <1>1, BeginStep
<1>2. CASE \E p \in Publisher : PubStep(p) BY <1>2, PubRunStep
<1>3. CASE Poller
    BY <1>3, PollMatchStep, PollSpendStep, PollBindStep, PollSaveStep, PollFailsStep, OnEnrolledStep DEF Poller
<1>4. CASE World
    BY <1>4, UserStep, CompactStep, BeginStep, MintStep, StartStep, RestartStep DEF World
<1>5. CASE UNCHANGED vars
    <2>1. UserOK' /\ LogOK' /\ PubOK' /\ SentHasTodo' /\ ops' \in 0..MaxOps
        BY <1>5, Parts DEF IInv, vars, user, log, UserOK, LogOK, PubOK, SentHasTodo
    <2>2. QED BY <1>5, <2>1, AsideSound DEF vars
<1>6. QED BY <1>1, <1>2, <1>3, <1>4, <1>5 DEF Next

(* A token binds a chat at most once, whatever batch fails after a match and is fetched again. *)
THEOREM EnrollmentAlways == Spec => []TokenBindsOnce
<1>1. IInv => TokenBindsOnce BY DEF IInv, Tokens
<1>2. QED BY <1>1, EnrollmentInit, EnrollmentStep, PTL DEF Spec

-----------------------------------------------------------------------------
(* Two runs and the log.  The argument: a run whose turn is Telegram holds  *)
(* the write transaction, at most one run does, and only its holder writes  *)
(* rows; so between a message and its row nobody else sends or writes one.  *)

LogInv == RunsAreOrdered /\ LogIsTrue

(* What RunsAreOrdered says of one run. *)
RowOrdered(row) ==
    /\ row.at \in {"built", "run"} => row.want \in SUBSET Box
    /\ row.sent # "none" => row.at = "run" /\ row.todo # <<>>
    /\ row.locked => row.at = "run"
    /\ row.at = "run" /\ row.todo # <<>> /\ Head(row.todo) = "telegram" => row.locked

LEMMA Runs ==
    ASSUME IInv, LogInv
    PROVE  /\ pub \in [Publisher -> RunType]
           /\ \A p \in Publisher : pub[p] \in RunType /\ RowOrdered(pub[p])
           /\ \A p, q \in Publisher : pub[p].locked /\ pub[q].locked => p = q
           /\ holds \in [Channel -> Subset] /\ last \in [Channel -> Subset] /\ lost \in BOOLEAN
           /\ "telegram" \in Channel
BY Parts DEF IInv, PubOK, LogOK, LogInv, RunsAreOrdered, RowOrdered, Channel

LEMMA AtRestOrdered == RowOrdered(AtRest) /\ AtRest.sent = "none" /\ ~AtRest.locked
BY DEF RowOrdered, AtRest

LEMMA RowChanges ==
    ASSUME IInv, LogInv, NEW p \in Publisher, NEW row \in RunType, RowOrdered(row),
           pub' = [pub EXCEPT ![p] = row], row.locked => Locker \subseteq {p}
    PROVE  RunsAreOrdered'
<1>1. \A q \in Publisher : pub'[q] = IF q = p THEN row ELSE pub[q] BY Runs
<1>2. \A q \in Publisher : RowOrdered(pub'[q]) BY <1>1, Runs
<1>3. \A q \in Publisher : row.locked /\ pub[q].locked => q = p BY DEF Locker
<1>4. \A q, r \in Publisher : pub'[q].locked /\ pub'[r].locked => q = r BY <1>1, <1>3, Runs
<1>5. QED BY <1>2, <1>4 DEF RunsAreOrdered, RowOrdered

(* Between a message over Telegram and its row, its run alone holds the transaction. *)
LEMMA ArrivedLocked ==
    ASSUME IInv, LogInv, NEW q \in Publisher, Arrived(q) PROVE pub[q].locked
BY Runs DEF Arrived, RowOrdered

(* A step of a run that has no message on its way afterwards. *)
LEMMA QuietRow ==
    ASSUME IInv, LogInv, NEW p \in Publisher, NEW row \in RunType, row.sent # "ok",
           pub' = [pub EXCEPT ![p] = row], UNCHANGED <<holds, last>>,
           lost => lost', pub[p].sent = "ok" => lost'
    PROVE  LogIsTrue'
<1>1. \A q \in Publisher : pub'[q] = IF q = p THEN row ELSE pub[q] BY Runs
<1>2. \A q \in Publisher : Arrived(q)' <=> q # p /\ Arrived(q) BY <1>1 DEF Arrived
<1>3. \A q \in Publisher : Arrived(q)' => holds'["telegram"] = pub'[q].want
    BY <1>1, <1>2 DEF LogInv, LogIsTrue
<1>4. lost' \/ last'["telegram"] \in {Unsent, holds'["telegram"]} \/ \E q \in Publisher : Arrived(q)'
    BY <1>2 DEF LogInv, LogIsTrue, Arrived
<1>5. QED BY <1>3, <1>4 DEF LogIsTrue

LEMMA RunsUntouched ==
    ASSUME LogInv, UNCHANGED <<pub, holds, last, lost>> PROVE LogInv'
BY DEF LogInv, RunsAreOrdered, LogIsTrue, Arrived

LEMMA CompactLog == ASSUME IInv, LogInv, Compact PROVE LogInv'
<1>1. UNCHANGED <<pub, holds, lost>> /\ Locker = {} BY DEF Compact
<1>2. RunsAreOrdered' BY <1>1 DEF LogInv, RunsAreOrdered
<1>3. \A q \in Publisher : ~Arrived(q) BY <1>1, ArrivedLocked DEF Locker
<1>4. last'["telegram"] \in {Unsent, last["telegram"]} BY Runs DEF Compact
<1>5. LogIsTrue' BY <1>1, <1>3, <1>4 DEF LogInv, LogIsTrue, Arrived
<1>6. QED BY <1>2, <1>5 DEF LogInv

LEMMA BeginLog ==
    ASSUME IInv, LogInv, NEW p \in Publisher, NEW own \in BOOLEAN, PubBegin(p, own)
    PROVE  LogInv'
<1>1. UNCHANGED <<holds, last, lost>> /\ pub[p].at = "idle" BY DEF PubBegin, log
<1>2. PICK row : BeginsAs(row, own) /\ pub' = [pub EXCEPT ![p] = row] BY BeginRow
<1>3. /\ row \in RunType /\ row.sent = "none" /\ ~row.locked
      /\ row.at \in {"orphaned", "unregistered", "built"} /\ (row.at = "built" => row.want \in SUBSET Box)
    BY <1>2, BeginRowType
<1>4. RowOrdered(row) BY <1>3 DEF RowOrdered
<1>5. pub[p].sent = "none" BY <1>1, Runs DEF RowOrdered
<1>6. QED BY <1>1, <1>2, <1>3, <1>4, <1>5, RowChanges, QuietRow DEF LogInv

LEMMA SendLog == ASSUME IInv, LogInv, NEW p \in Publisher, PubSend(p) PROVE LogInv'
<1> DEFINE c == Head(pub[p].todo)
<1>1. /\ pub[p].at = "run" /\ pub[p].sent = "none" /\ pub[p].todo # <<>> /\ last' = last
      /\ pub' = [pub EXCEPT ![p].sent = "ok"] \/ pub' = [pub EXCEPT ![p].sent = "failed"]
    BY DEF PubSend, Turn
<1>2. PICK s \in {"ok", "failed"} : pub' = [pub EXCEPT ![p] = [pub[p] EXCEPT !.sent = s]]
    BY <1>1, Runs
<1> DEFINE row == [pub[p] EXCEPT !.sent = s]
<1>3. /\ row \in RunType /\ row.sent = s /\ row.at = "run" /\ row.todo = pub[p].todo
      /\ row.locked = pub[p].locked /\ row.want = pub[p].want
    BY <1>1, Runs DEF RunType
<1>4. RowOrdered(row) BY <1>1, <1>3, Runs DEF RowOrdered
<1>5. row.locked => Locker \subseteq {p} BY <1>3, Runs DEF Locker
<1> HIDE DEF row
<1>6. RunsAreOrdered' BY <1>2, <1>3, <1>4, <1>5, RowChanges DEF row
<1>7. \A q \in Publisher : pub'[q] = IF q = p THEN row ELSE pub[q] BY <1>2, Runs DEF row
<1>8. c \in Channel BY <1>1, Runs, TodoShape DEF RunType
<1>9. CASE c = "telegram"
    <2>1. pub[p].locked BY <1>1, <1>9, Runs DEF RowOrdered
    <2>2. \A q \in Publisher : Arrived(q)' => q = p
        <3>1. \A q \in Publisher : q # p /\ Arrived(q)' => Arrived(q) BY <1>7 DEF Arrived
        <3>2. QED BY <2>1, <3>1, ArrivedLocked, Runs
    <2>3. CASE pub' = [pub EXCEPT ![p].sent = "ok"] /\ holds' = [holds EXCEPT !["telegram"] = pub[p].want]
        <3>1. holds'["telegram"] = pub[p].want BY <2>3, Runs
        <3>2. pub'[p].sent = "ok" /\ pub'[p].todo = pub[p].todo /\ pub'[p].want = pub[p].want
            BY <2>3, <1>3, <1>7, Runs DEF RunType
        <3>3. Arrived(p)' BY <1>9, <3>2 DEF Arrived
        <3>4. QED BY <1>6, <2>2, <3>1, <3>2, <3>3 DEF LogInv, LogIsTrue
    <2>4. CASE pub' = [pub EXCEPT ![p].sent = "failed"] /\ (UNCHANGED <<holds, lost>> \/ lost' = TRUE)
        <3>1. pub'[p].sent = "failed" BY <2>4, Runs DEF RunType
        <3>2. \A q \in Publisher : ~Arrived(q)' BY <2>2, <3>1 DEF Arrived
        <3>3. ~Arrived(p) BY <1>1 DEF Arrived
        <3>4. \A q \in Publisher : ~Arrived(q) BY <2>1, <3>3, ArrivedLocked, Runs
        <3>5. QED BY <1>1, <1>6, <2>4, <3>2, <3>4 DEF LogInv, LogIsTrue
    <2>5. QED BY <1>9, <2>3, <2>4 DEF PubSend
<1>10. CASE c = "email"
    <2>1. holds'["telegram"] = holds["telegram"] /\ (lost => lost')
        <3>1. holds' = holds \/ holds' = [holds EXCEPT !["email"] = pub[p].want]
            BY <1>10 DEF PubSend
        <3>2. lost' = lost \/ lost' = TRUE BY DEF PubSend
        <3>3. QED BY <3>1, <3>2, Runs
    <2>2. \A q \in Publisher : Arrived(q)' <=> Arrived(q)
        <3>1. ~Arrived(p) /\ ~Arrived(p)' BY <1>3, <1>7, <1>10 DEF Arrived
        <3>2. QED BY <1>7, <3>1 DEF Arrived
    <2>3. \A q \in Publisher : pub'[q].want = pub[q].want BY <1>3, <1>7
    <2>4. LogIsTrue' BY <1>1, <2>1, <2>2, <2>3 DEF LogInv, LogIsTrue
    <2>5. QED BY <1>6, <2>4 DEF LogInv
<1>11. QED BY <1>8, <1>9, <1>10 DEF Channel

LEMMA AppendLog == ASSUME IInv, LogInv, NEW p \in Publisher, PubAppend(p) PROVE LogInv'
<1> DEFINE c == Head(pub[p].todo)
           sig == IF pub[p].sent = "ok" \/ pub[p].signal = "reached" THEN "reached" ELSE "failed"
           row == [pub[p] EXCEPT !.sent = "none", !.todo = Tail(pub[p].todo), !.locked = FALSE,
                                 !.signal = sig]
<1>1. pub[p].sent # "none" /\ UNCHANGED <<holds, lost>> /\ pub' = [pub EXCEPT ![p] = row]
    BY Runs DEF PubAppend
<1>2. pub[p].at = "run" /\ pub[p].todo # <<>> BY <1>1, Runs DEF RowOrdered
<1>3. c \in Channel /\ Tail(pub[p].todo) \in Todo BY <1>2, Runs, TodoShape DEF RunType
<1>4. /\ row \in RunType /\ row.sent = "none" /\ row.todo = Tail(pub[p].todo) /\ ~row.locked
      /\ row.want = pub[p].want /\ row.at = "run"
    BY <1>2, <1>3, Runs DEF RunType
<1>5. row.todo = <<>> \/ Head(row.todo) = "email"
    <2>1. pub[p].todo \in Todo BY Runs DEF RunType
    <2>2. QED BY <1>2, <1>4, <2>1 DEF Todo
<1>6. RowOrdered(row) BY <1>2, <1>4, <1>5, Runs DEF RowOrdered
<1> HIDE DEF row
<1>7. RunsAreOrdered' BY <1>1, <1>4, <1>6, RowChanges
<1>8. \A q \in Publisher : pub'[q] = IF q = p THEN row ELSE pub[q] BY <1>1, Runs
<1>9. \A q \in Publisher : Arrived(q)' <=> q # p /\ Arrived(q) BY <1>4, <1>8 DEF Arrived
<1>10. \A q \in Publisher : Arrived(q)' => holds'["telegram"] = pub'[q].want
    BY <1>1, <1>8, <1>9 DEF LogInv, LogIsTrue
<1>11. lost' \/ last'["telegram"] \in {Unsent, holds'["telegram"]} \/ \E q \in Publisher : Arrived(q)'
    <2>1. CASE Arrived(p)
        <3>1. last' = [last EXCEPT !["telegram"] = pub[p].want] BY <2>1 DEF PubAppend, Arrived
        <3>2. QED BY <1>1, <2>1, <3>1, Runs DEF LogInv, LogIsTrue
    <2>2. CASE ~Arrived(p)
        <3>1. last' = last \/ (c # "telegram" /\ last' = [last EXCEPT ![c] = pub[p].want])
            BY <2>2 DEF PubAppend, Arrived
        <3>2. last'["telegram"] = last["telegram"] BY <1>3, <3>1, Runs
        <3>3. QED BY <1>1, <1>9, <2>2, <3>2 DEF LogInv, LogIsTrue
    <2>3. QED BY <2>1, <2>2
<1>12. QED BY <1>7, <1>10, <1>11 DEF LogInv, LogIsTrue

LEMMA RunLog == ASSUME IInv, LogInv, NEW p \in Publisher, PubStep(p) PROVE LogInv'
<1>1. CASE PubLock(p)
    <2> DEFINE row == [pub[p] EXCEPT !.at = "run", !.locked = TRUE]
    <2>1. pub' = [pub EXCEPT ![p] = row] /\ UNCHANGED <<holds, last, lost>> /\ Locker \subseteq {p}
        BY <1>1, Runs DEF PubLock, log, CanWrite
    <2>2. pub[p].at = "built" BY <1>1 DEF PubLock
    <2>3. pub[p].sent = "none" BY <2>2, Runs DEF RowOrdered
    <2>4. row \in RunType /\ row.sent = "none" /\ row.at = "run" /\ row.locked = TRUE /\ row.want = pub[p].want
        BY <2>3, Runs DEF RunType, PubAt
    <2>5. RowOrdered(row) BY <2>2, <2>4, Runs DEF RowOrdered
    <2> HIDE DEF row
    <2>6. QED BY <2>1, <2>3, <2>4, <2>5, RowChanges, QuietRow DEF LogInv
<1>2. CASE PubGiveUp(p)
    <2>1. pub' = [pub EXCEPT ![p] = AtRest] /\ UNCHANGED <<holds, last>> /\ lost' = (lost \/ pub[p].sent = "ok")
        BY <1>2 DEF PubGiveUp
    <2>2. QED BY <2>1, AtRestType, AtRestOrdered, RowChanges, QuietRow DEF LogInv
<1>3. CASE PubSkip(p)
    <2> DEFINE row == [pub[p] EXCEPT !.todo = Tail(pub[p].todo)]
    <2>1. /\ pub' = [pub EXCEPT ![p] = row] /\ UNCHANGED <<holds, last, lost>>
          /\ pub[p].at = "run" /\ pub[p].sent = "none" /\ pub[p].todo # <<>>
        BY <1>3, Runs DEF PubSkip, log, Turn
    <2>2. pub[p].todo \in Todo /\ Tail(pub[p].todo) \in Todo
        BY <2>1, Runs, TodoShape DEF RunType
    <2>3. /\ row \in RunType /\ row.sent = "none" /\ row.at = "run" /\ row.locked = pub[p].locked
          /\ row.want = pub[p].want /\ row.todo = Tail(pub[p].todo)
        BY <2>1, <2>2, Runs DEF RunType
    <2>4. row.todo = <<>> \/ Head(row.todo) = "email" BY <2>1, <2>2, <2>3 DEF Todo
    <2>5. RowOrdered(row) BY <2>1, <2>3, <2>4, Runs DEF RowOrdered
    <2>6. row.locked => Locker \subseteq {p} BY <2>3, Runs DEF Locker
    <2> HIDE DEF row
    <2>7. QED BY <2>1, <2>3, <2>5, <2>6, RowChanges, QuietRow DEF LogInv
<1>4. CASE PubSend(p) BY <1>4, SendLog
<1>5. CASE PubAppend(p) BY <1>5, AppendLog
<1>6. CASE PubDecide(p)
    <2>1. PICK row \in RunType : /\ pub' = [pub EXCEPT ![p] = row] /\ row.sent = "none" /\ ~row.locked
                                 /\ row.at \in {"idle", "decided"}
        BY <1>6, DecideRow
    <2>2. RowOrdered(row) BY <2>1 DEF RowOrdered
    <2>3. UNCHANGED <<holds, last, lost>> /\ pub[p].sent = "none" BY <1>6 DEF PubDecide
    <2>4. QED BY <2>1, <2>2, <2>3, RowChanges, QuietRow DEF LogInv
<1>7. CASE PubFlag(p) \/ PubNote(p)
    <2>1. pub' = [pub EXCEPT ![p] = AtRest] /\ UNCHANGED <<holds, last, lost>> /\ pub[p].sent = "none"
        BY <1>7, Runs DEF PubFlag, PubNote, RowOrdered
    <2>2. QED BY <2>1, AtRestType, AtRestOrdered, RowChanges, QuietRow DEF LogInv
<1>8. QED BY <1>1, <1>2, <1>3, <1>4, <1>5, <1>6, <1>7 DEF PubStep

LEMMA RestartLog == ASSUME IInv, LogInv, Restart PROVE LogInv'
<1>1. /\ UNCHANGED <<holds, last>>
      /\ lost' = (lost \/ \E p \in Publisher : ~pub[p].own /\ pub[p].sent = "ok")
      /\ \A q \in Publisher : pub'[q] = pub[q] \/ (~pub[q].own /\ pub'[q] = AtRest)
    BY DEF Restart
<1>2. \A q \in Publisher : RowOrdered(pub'[q]) BY <1>1, AtRestOrdered, Runs
<1>3. \A q \in Publisher : pub'[q].locked => pub[q].locked BY <1>1, AtRestOrdered
<1>4. RunsAreOrdered' BY <1>2, <1>3, Runs DEF RunsAreOrdered, RowOrdered
<1>5. \A q \in Publisher : Arrived(q)' => Arrived(q) /\ pub'[q] = pub[q]
    BY <1>1, AtRestOrdered DEF Arrived
<1>6. \A q \in Publisher : Arrived(q) /\ ~lost' => Arrived(q)' BY <1>1 DEF Arrived
<1>7. QED BY <1>1, <1>4, <1>5, <1>6 DEF LogInv, LogIsTrue

LEMMA LogStep == IInv /\ LogInv /\ [Next]_vars => LogInv'
<1> SUFFICES ASSUME IInv, LogInv, [Next]_vars PROVE LogInv'
    OBVIOUS
<1>1. CASE Sweep \/ PublishNow \/ OnEnrolled
    BY <1>1, BeginLog DEF Sweep, PublishNow, OnEnrolled, Publisher
<1>2. CASE \E p \in Publisher : PubStep(p) BY <1>2, RunLog
<1>3. CASE Compact BY <1>3, CompactLog
<1>4. CASE Restart BY <1>4, RestartLog
<1>5. CASE PollMatch \/ PollSpend \/ PollBind \/ PollSave \/ PollFails
    BY <1>5, RunsUntouched DEF PollMatch, PollSpend, PollBind, PollSave, PollFails, log
<1>6. CASE Assign \/ BoxesChange \/ ChannelsSet \/ Mint \/ (\E c \in Channel : ChannelComesOrGoes(c))
           \/ \E n \in 1..MaxTokens : Start(n)
    BY <1>6, RunsUntouched DEF Assign, BoxesChange, ChannelsSet, Mint, ChannelComesOrGoes, Start, log
<1>7. CASE UNCHANGED vars BY <1>7, RunsUntouched DEF vars, log
<1>8. QED BY <1>1, <1>2, <1>3, <1>4, <1>5, <1>6, <1>7 DEF Next, Poller, World

LEMMA LogInit == Init => LogInv
<1> SUFFICES ASSUME Init PROVE LogInv
    OBVIOUS
<1>1. \A p \in Publisher : pub[p] = AtRest BY DEF Init
<1>2. RunsAreOrdered BY <1>1 DEF RunsAreOrdered, AtRest
<1>3. holds = [c \in Channel |-> Unsent] /\ last = holds BY DEF Init
<1>4. last["telegram"] = Unsent BY <1>3 DEF Channel
<1>5. LogIsTrue BY <1>1, <1>4 DEF LogIsTrue, Arrived, AtRest
<1>6. QED BY <1>2, <1>5 DEF LogInv

(* A run that skips Telegram holds the transaction, so no other message is on its way. *)
LEMMA SkipsSound == ASSUME IInv, LogInv PROVE SkipsAreTrue
<1> SUFFICES ASSUME NEW p \in Publisher, Turn(p), Head(pub[p].todo) = "telegram",
                    Deduped(p, "telegram"), ~lost
             PROVE  holds["telegram"] = pub[p].want
    BY DEF SkipsAreTrue
<1>1. pub[p].locked /\ pub[p].want \in SUBSET Box BY Runs DEF Turn, RowOrdered
<1>2. \A q \in Publisher : ~Arrived(q) BY <1>1, ArrivedLocked, Runs DEF Turn, Arrived
<1>3. last["telegram"] \in {Unsent, holds["telegram"]} BY <1>2 DEF LogInv, LogIsTrue
<1>4. last["telegram"] # Unsent BY <1>1, DistributionAssumption DEF Deduped, Unsent
<1>5. QED BY <1>3, <1>4 DEF Deduped

(* However a sweep, a forced run, the poller, a compaction and a restart interleave: a token *)
(* binds once, the runs are ordered by the transaction of their first message, and the log   *)
(* by which the sweep skips Telegram is true of the user until an answer or a row is lost.   *)
THEOREM DistributionAlways == Spec => []DistributionInductive
<1>1. IInv /\ LogInv => DistributionInductive
    <2> SUFFICES ASSUME IInv, LogInv PROVE DistributionInductive
        OBVIOUS
    <2>1. TokensAddUp /\ TokenBindsOnce BY DEF IInv, Tokens
    <2>2. QED BY <2>1, SkipsSound DEF IInv, LogInv, DistributionInductive
<1>2. QED BY <1>1, EnrollmentInit, EnrollmentStep, LogInit, LogStep, PTL DEF Spec
=============================================================================
