---------------------------- MODULE Distribution ----------------------------
(***************************************************************************)
(* One user of the distribution service: the publisher that sends the      *)
(* user's subset of boxes over Telegram and mail when it differs from what *)
(* was delivered last, the same publisher run by force beside it, in the   *)
(* enrolment poller's thread or as dist-publish-now, and the one-time      *)
(* tokens by which the poller learns the user's chat.                      *)
(***************************************************************************)
EXTENDS Naturals, Sequences, FiniteSets

CONSTANTS
    Box,
    None,       \* no box
    Threshold,  \* delivery_breach_threshold
    MaxTokens,  \* bound: enrolment tokens minted
    MaxOps      \* bound: the operator's and the user's steps, outages, restarts

ASSUME DistributionAssumption ==
    /\ None \notin Box /\ MaxOps \in Nat
    /\ Threshold \in Nat \ {0} /\ MaxTokens \in Nat \ {0}

Channel == {"telegram", "email"}
Publisher == {"sweep", "forced"}
Unsent == {None}
Subset == (SUBSET Box) \cup {Unsent}

VARIABLES
    assigned,  \* has the user a shard?
    usable,    \* boxes of the shard with an address, a uuid and a credential
    past,      \* history: the subsets that the user's shard has had before
    chan,      \* user_channels: the channels configured
    up,        \* channels that deliver and say so
    holds,     \* what the user got last over a channel
    lost,      \* history: has a message been delivered that the log does not tell of?
    last,      \* distribution_log: last subset delivered over a channel
    unreg, breach,  \* dist_user_unregistered::<user>, dist_user_heartbeat_breach::<user>
    fails,     \* _failures of the daemon, shared by both threads
    pub,       \* the two runs of the publisher
    minted, token,  \* tokens so far; is the last of them unconsumed?
    starts,    \* /start messages that Telegram keeps, by token
    poll,      \* the poller: step, messages handled in this batch, was one an enrolment?,
               \* had the user a mail address when the token was spent?
    binds,     \* how often each token has bound a chat
    ops

user   == <<assigned, usable, past, chan>>
log    == <<holds, lost, last, unreg, breach, fails>>
enroll == <<minted, token, starts, poll, binds>>
vars   == <<user, up, log, pub, enroll, ops>>

AtRest == [at |-> "idle", want |-> Unsent, todo |-> <<>>, sent |-> "none",
           locked |-> FALSE, signal |-> "none", own |-> FALSE]
Resting == [at |-> "idle", k |-> 0, enrolled |-> FALSE, mail |-> FALSE]
PubAt == {"idle", "orphaned", "unregistered", "built", "run", "decided"}

TypeOK ==
    /\ assigned \in BOOLEAN /\ usable \subseteq Box /\ past \subseteq SUBSET Box
    /\ chan \subseteq Channel /\ up \subseteq Channel
    /\ holds \in [Channel -> Subset] /\ last \in [Channel -> Subset]
    /\ lost \in BOOLEAN /\ unreg \in BOOLEAN /\ breach \in BOOLEAN /\ fails \in 0..Threshold
    /\ pub \in [Publisher ->
         [at : PubAt, want : Subset, sent : {"none", "ok", "failed"},
          todo : {<<>>, <<"email">>, <<"telegram">>, <<"telegram", "email">>},
          locked : BOOLEAN, signal : {"none", "failed", "reached"}, own : BOOLEAN]]
    /\ minted \in 0..MaxTokens /\ token \in BOOLEAN
    /\ starts \in Seq(1..MaxTokens)
    /\ poll \in [at : {"idle", "match", "bind", "callback"}, k : 0..Len(starts),
                enrolled : BOOLEAN, mail : BOOLEAN]
    /\ binds \in [1..MaxTokens -> Nat] /\ ops \in 0..MaxOps

Spend == ops < MaxOps /\ ops' = ops + 1

\* who has an open write transaction: the DELETE that precedes a run's first message opens
\* one, and the row of that message commits it
Locker == {p \in Publisher : pub[p].locked}
WritesAnyway(p) == TRUE
CanWrite(p) == Locker \subseteq {p}

-----------------------------------------------------------------------------
(* The operator, the fleet and the channels.                                 *)

\* assign_user_to_shard, first step of user-onboard; a reshuffle or a retired shard
Assign ==
    /\ assigned' = ~assigned /\ Spend
    /\ UNCHANGED <<usable, past, chan, up, log, pub, enroll>>

\* build_subset of a box: provisioned, keyed, revoked, terminated
BoxesChange ==
    /\ \E s \in (SUBSET Box) \ {usable} : usable' = s
    /\ past' = past \cup {usable} /\ Spend
    /\ UNCHANGED <<assigned, chan, up, log, pub, enroll>>

\* set_channels refuses a user without any
SetChannels(c) == c # {} /\ chan' = c

\* user-channels-set, or user-onboard --email, which forgets the chat
ChannelsSet ==
    /\ Locker = {}
    /\ \E c \in (SUBSET Channel) \ {chan} : SetChannels(c)
    /\ Spend
    /\ UNCHANGED <<assigned, usable, past, up, log, pub, enroll>>

\* compact-logs, monthly-compact: old rows go, a channel's last delivery perhaps among them
Compact ==
    /\ Locker = {}
    /\ \E cs \in SUBSET Channel : last' = [c \in Channel |-> IF c \in cs THEN Unsent ELSE last[c]]
    /\ last' # last /\ Spend
    /\ UNCHANGED <<user, up, holds, lost, unreg, breach, fails, pub, enroll>>

ChannelComesOrGoes(c) ==
    /\ up' = IF c \in up THEN up \ {c} ELSE up \cup {c}
    /\ Spend
    /\ UNCHANGED <<user, log, pub, enroll>>

-----------------------------------------------------------------------------
(* DistributionPublisher.run_once.                                           *)

Configured == IF chan = Channel THEN <<"telegram", "email">>
              ELSE IF "telegram" \in chan THEN <<"telegram">> ELSE <<"email">>

\* what a run reads of the user before it writes
PubBegin(p, own) ==
    /\ pub[p].at = "idle"
    /\ pub' = [pub EXCEPT ![p] =
         CASE ~assigned -> [AtRest EXCEPT !.at = "orphaned", !.own = own]
           [] assigned /\ chan = {} -> [AtRest EXCEPT !.at = "unregistered", !.own = own]
           [] OTHER -> [AtRest EXCEPT !.at = "built", !.want = usable, !.todo = Configured, !.own = own]]
    /\ UNCHANGED <<user, up, log>>

\* the rows of a user who was not assigned are dropped, one without a channel gets a row
OrphansKept(row) == row
OrphansDropped(row) == FALSE

PubNote(p) ==
    /\ pub[p].at \in {"orphaned", "unregistered"} /\ CanWrite(p)
    /\ IF pub[p].at = "orphaned"
       THEN unreg' = OrphansDropped(unreg) /\ breach' = OrphansDropped(breach)
       ELSE unreg' = TRUE /\ UNCHANGED breach
    /\ pub' = [pub EXCEPT ![p] = AtRest]
    /\ UNCHANGED <<user, up, holds, lost, last, fails, enroll, ops>>

Sweep == PubBegin("sweep", FALSE) /\ UNCHANGED <<enroll, ops>>

PublishNow == PubBegin("forced", TRUE) /\ Spend /\ UNCHANGED enroll

\* the poller's callback
OnEnrolled ==
    /\ poll.at = "callback" /\ poll' = Resting
    /\ PubBegin("forced", FALSE) /\ UNCHANGED <<minted, token, starts, binds, ops>>

PubLock(p) ==
    /\ pub[p].at = "built" /\ CanWrite(p)
    /\ pub' = [pub EXCEPT ![p].at = "run", ![p].locked = TRUE]
    /\ UNCHANGED <<user, up, log, enroll, ops>>

Deduped(p, c) == p = "sweep" /\ last[c] = pub[p].want

Turn(p) == pub[p].at = "run" /\ pub[p].sent = "none" /\ pub[p].todo # <<>>

PubSkip(p) ==
    /\ Turn(p) /\ Deduped(p, Head(pub[p].todo))
    /\ pub' = [pub EXCEPT ![p].todo = Tail(@)]
    /\ UNCHANGED <<user, up, log, enroll, ops>>

\* a channel that does not answer may have delivered
PubSend(p) ==
    LET c == Head(pub[p].todo) IN
    /\ Turn(p) /\ ~Deduped(p, c)
    /\ \/ /\ c \in up /\ pub' = [pub EXCEPT ![p].sent = "ok"]
          /\ holds' = [holds EXCEPT ![c] = pub[p].want] /\ UNCHANGED lost
       \/ /\ c \notin up /\ pub' = [pub EXCEPT ![p].sent = "failed"]
          /\ \/ UNCHANGED <<holds, lost>>
             \/ holds' = [holds EXCEPT ![c] = pub[p].want] /\ lost' = TRUE
    /\ UNCHANGED <<user, up, last, unreg, breach, fails, enroll, ops>>

PubAppend(p) ==
    /\ pub[p].sent # "none" /\ CanWrite(p)
    /\ last' = IF pub[p].sent = "ok" THEN [last EXCEPT ![Head(pub[p].todo)] = pub[p].want] ELSE last
    /\ unreg' = IF pub[p].locked THEN FALSE ELSE unreg
    /\ pub' = [pub EXCEPT ![p].sent = "none", ![p].todo = Tail(@), ![p].locked = FALSE,
                          ![p].signal = IF pub[p].sent = "ok" \/ @ = "reached" THEN "reached" ELSE "failed"]
    /\ UNCHANGED <<user, up, holds, lost, breach, fails, enroll, ops>>

\* the decision's row of the audit log commits; without an attempt there is no more to write
PubDecide(p) ==
    /\ pub[p].at = "run" /\ pub[p].todo = <<>> /\ pub[p].sent = "none" /\ CanWrite(p)
    /\ unreg' = IF pub[p].locked THEN FALSE ELSE unreg
    /\ pub' = [pub EXCEPT ![p] = IF @.signal = "none" THEN AtRest
                                 ELSE [@ EXCEPT !.at = "decided", !.locked = FALSE]]
    /\ UNCHANGED <<user, up, holds, lost, last, breach, fails, enroll, ops>>

CountFrom(p) == IF pub[p].own THEN 0 ELSE fails
NotReached(n) == IF n < Threshold THEN n + 1 ELSE Threshold
Counted(p) == IF pub[p].signal = "reached" THEN 0 ELSE NotReached(CountFrom(p))
Count(p) == fails' = IF pub[p].own THEN fails ELSE Counted(p)

\* _update_reachability: the count in memory, then the row
PubFlag(p) ==
    /\ pub[p].at = "decided" /\ CanWrite(p)
    /\ Count(p)
    /\ breach' = (pub[p].signal = "failed" /\ (breach \/ Counted(p) >= Threshold))
    /\ pub' = [pub EXCEPT ![p] = AtRest]
    /\ UNCHANGED <<user, up, holds, lost, last, unreg, enroll, ops>>

\* "database is locked" wherever a run is about to write: it ends with an exception, what it has
\* committed and counted stays
PubGiveUp(p) ==
    /\ \/ pub[p].at \in PubAt \ {"idle", "run"} \/ pub[p].sent # "none"
       \/ pub[p].at = "run" /\ pub[p].todo = <<>>
    /\ ~CanWrite(p)
    /\ IF pub[p].at = "decided" THEN Count(p) ELSE UNCHANGED fails
    /\ pub' = [pub EXCEPT ![p] = AtRest] /\ lost' = (lost \/ pub[p].sent = "ok")
    /\ UNCHANGED <<user, up, holds, last, unreg, breach, enroll, ops>>

-----------------------------------------------------------------------------
(* enrollment.mint and the poller.                                           *)

\* the user's one row is written over
Minted == minted' = minted + 1 /\ token' = TRUE

\* the last step of user-onboard
Mint ==
    /\ minted < MaxTokens /\ Locker = {}
    /\ Minted /\ Spend
    /\ UNCHANGED <<user, up, log, pub, starts, poll, binds>>

\* the user taps a link, old or new, again or for the first time
Start(n) ==
    /\ n \in 1..minted /\ starts' = starts \o <<n>>
    /\ Spend
    /\ UNCHANGED <<user, up, log, pub, minted, token, poll, binds>>

\* the callback and the batches run in one thread
Polling == pub["forced"].at = "idle" /\ poll.at = "idle"

SpendsLater(live) == live
Spent(live) == FALSE

\* the lookup by hash; a message without a live token is rejected
PollMatch ==
    /\ Polling /\ poll.k < Len(starts)
    /\ IF token /\ starts[poll.k + 1] = minted
       THEN poll' = [poll EXCEPT !.at = "match"]
       ELSE Locker = {} /\ poll' = [poll EXCEPT !.k = @ + 1]
    /\ UNCHANGED <<user, up, log, pub, minted, token, starts, binds, ops>>

\* the update by user, of whatever token the user has by now, and the read of the user's address
PollSpend ==
    /\ poll.at = "match" /\ Locker = {}
    /\ token' = Spent(token) /\ poll' = [poll EXCEPT !.at = "bind", !.mail = "email" \in chan]
    /\ UNCHANGED <<user, up, log, pub, minted, starts, binds, ops>>

\* writes over both channels, with the address that was read
PollBind ==
    /\ poll.at = "bind" /\ Locker = {}
    /\ SetChannels({"telegram"} \cup IF poll.mail THEN {"email"} ELSE {})
    /\ binds' = [binds EXCEPT ![starts[poll.k + 1]] = @ + 1]
    /\ poll' = [Resting EXCEPT !.k = poll.k + 1, !.enrolled = TRUE]
    /\ UNCHANGED <<assigned, usable, past, up, log, pub, minted, token, starts, ops>>

\* the offset of the batch that was fetched, then the callbacks
PollSave ==
    /\ Polling /\ poll.k > 0 /\ Locker = {}
    /\ starts' = SubSeq(starts, poll.k + 1, Len(starts))
    /\ poll' = IF poll.enrolled THEN [Resting EXCEPT !.at = "callback"] ELSE Resting
    /\ UNCHANGED <<user, up, log, pub, minted, token, binds, ops>>

\* "database is locked" ends the batch: the offset stays, what was committed too
PollFails ==
    /\ poll.at \in {"match", "bind"} \/ poll.k > 0
    /\ Locker # {}
    /\ poll' = Resting
    /\ UNCHANGED <<user, up, log, pub, minted, token, starts, binds, ops>>

\* serve is killed and starts again: an open transaction rolls back
Restart ==
    /\ pub' = [p \in Publisher |-> IF pub[p].own THEN pub[p] ELSE AtRest]
    /\ lost' = (lost \/ \E p \in Publisher : ~pub[p].own /\ pub[p].sent = "ok")
    /\ poll' = Resting /\ fails' = 0 /\ Spend
    /\ UNCHANGED <<user, up, holds, last, unreg, breach, minted, token, starts, binds>>

-----------------------------------------------------------------------------
\* a user with a token that may never be tapped: one without any shows the poller nothing else
Init ==
    /\ assigned \in BOOLEAN /\ usable \in {{}, Box} /\ past = {} /\ chan \in SUBSET Channel /\ up = Channel
    /\ holds = [c \in Channel |-> Unsent] /\ last = holds /\ lost = FALSE
    /\ unreg = FALSE /\ breach = FALSE /\ fails = 0
    /\ pub = [p \in Publisher |-> AtRest]
    /\ minted = 1 /\ token = TRUE /\ starts = <<>> /\ poll = Resting /\ binds = [n \in 1..MaxTokens |-> 0]
    /\ ops = 0

PubStep(p) == \/ PubNote(p) \/ PubLock(p) \/ PubSkip(p) \/ PubSend(p) \/ PubAppend(p)
              \/ PubDecide(p) \/ PubFlag(p) \/ PubGiveUp(p)
Poller == PollMatch \/ PollSpend \/ PollBind \/ PollSave \/ PollFails \/ OnEnrolled
World  == \/ Assign \/ BoxesChange \/ ChannelsSet \/ Compact \/ (\E c \in Channel : ChannelComesOrGoes(c))
          \/ PublishNow \/ Mint \/ (\E n \in 1..MaxTokens : Start(n)) \/ Restart

Next == Sweep \/ (\E p \in Publisher : PubStep(p)) \/ Poller \/ World

Spec == Init /\ [][Next]_vars
\* the sweep runs again and again, and a run that has begun goes on
Fairness == WF_vars(Sweep \/ PubStep("sweep")) /\ WF_vars(PubStep("forced"))
FairSpec == Spec /\ Fairness

-----------------------------------------------------------------------------
\* A token binds a chat at most once, whatever is killed, fetched again or minted anew between
\* the match and the saved offset (enrollment.match, EnrollmentPoller.run_once).
TokenBindsOnce == \A n \in 1..MaxTokens : binds[n] <= 1

\* The live token, the newest, has bound nothing, nor has the one that is about to bind, which
\* is not live any more.
TokensAddUp ==
    /\ token => minted >= 1 /\ binds[minted] = 0
    /\ \A n \in 1..MaxTokens : n > minted => binds[n] = 0
    /\ poll.at = "match" => token
    /\ poll.at \in {"match", "bind"} =>
         /\ poll.k < Len(starts) /\ starts[poll.k + 1] <= minted /\ binds[starts[poll.k + 1]] = 0
    /\ poll.at = "bind" /\ token => starts[poll.k + 1] # minted

\* Only a run that has begun sends, the message of the channel whose turn it is; the turn of
\* Telegram, which is always the first, is inside the transaction that the DELETE opened.
RunsAreOrdered ==
    /\ \A p \in Publisher :
         /\ pub[p].at \in {"built", "run"} => pub[p].want \in SUBSET Box
         /\ pub[p].sent # "none" => pub[p].at = "run" /\ pub[p].todo # <<>>
         /\ pub[p].locked => pub[p].at = "run"
         /\ pub[p].at = "run" /\ pub[p].todo # <<>> /\ Head(pub[p].todo) = "telegram" => pub[p].locked
    /\ \A p, q \in Publisher : pub[p].locked /\ pub[q].locked => p = q

\* the run whose message over Telegram has arrived and is not in the log yet
Arrived(p) == pub[p].sent = "ok" /\ Head(pub[p].todo) = "telegram"

\* Until an answer or a row is lost, the log tells what the user has over Telegram: the last
\* row is the last message, or the run that sent it is about to write it (run_once, append).
LogIsTrue ==
    /\ \A p \in Publisher : Arrived(p) => holds["telegram"] = pub[p].want
    /\ lost \/ last["telegram"] \in {Unsent, holds["telegram"]} \/ \E p \in Publisher : Arrived(p)

\* So a sweep that skips Telegram skips a user who has the very subset it would send
\* (last_subset_hash), whatever a forced run beside it has sent meanwhile.
SkipsAreTrue ==
    \A p \in Publisher :
        Turn(p) /\ Head(pub[p].todo) = "telegram" /\ Deduped(p, "telegram")
            => lost \/ holds["telegram"] = pub[p].want

\* What holds of the enrolment and of the two runs at every step, whatever fails.
DistributionInductive ==
    TypeOK /\ TokensAddUp /\ RunsAreOrdered /\ LogIsTrue /\ TokenBindsOnce /\ SkipsAreTrue

\* Over Telegram, or over mail for a user who never has a chat, the user ends up with the
\* subset of the moment, and keeps it: two publishers that run at once, with subsets of
\* different moments, do not leave an old one behind as long as no answer or row is lost, because
\* the DELETE of a run orders their first messages.  One publisher alone that loses answers or
\* rows does not either if the subset is one the shard never had before; a shard that comes back
\* to the subset of the last row may leave the lost one with the user for good (run_once).
FirstChannelIsCurrent ==
    /\ <>[](assigned /\ ~lost /\ "telegram" \in chan \cap up) => <>[](holds["telegram"] = usable)
    /\ [](pub["forced"].at = "idle") =>
         (<>[](assigned /\ usable \notin past /\ "telegram" \in chan \cap up) => <>[](holds["telegram"] = usable))
    /\ [](chan \subseteq {"email"}) =>
         (<>[](assigned /\ ~lost /\ "email" \in chan \cap up) => <>[](holds["email"] = usable))

\* The rows say the truth in the end: about a user without a channel, about one who is not
\* assigned any more, about one whom no message reaches (run_once, _update_reachability).
FlagsAreRight ==
    /\ <>[](assigned /\ chan = {}) => <>[]unreg
    /\ <>[](assigned /\ chan # {}) => <>[](~unreg)
    /\ <>[](~assigned) => <>[](~unreg /\ ~breach)
    /\ <>[](assigned /\ chan # {} /\ up = {} /\ \A c \in chan : last[c] # usable) => <>[]breach

=============================================================================
