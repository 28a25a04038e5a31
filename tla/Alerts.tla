------------------------------- MODULE Alerts -------------------------------
(***************************************************************************)
(* The alert sweep with its severities, dedupe windows and acks, the       *)
(* alert_log and its compaction, and the dead man's switch: a heartbeat mail *)
(* whose failures raise obs_dead_mans_switch_breach, which the sweep then  *)
(* reports over Telegram.  Time passes in units longer than a sweep.       *)
(***************************************************************************)
EXTENDS Naturals, Sequences, FiniteSets

CONSTANTS
    Alarm,       \* obligations, anti-obligations and EU nodes the sweep reports on
    Breach,      \* obs_dead_mans_switch_breach
    CritWindow, WarnWindow,  \* alert_dedupe_window_{crit,warn}_seconds, in units
    AckFor,      \* obs-alert-ack --expires-in, in units
    Threshold,   \* heartbeat_breach_threshold
    MaxOps       \* bound: acks, heartbeats by hand, outages, compactions and restarts

ASSUME AlertsAssumption ==
    /\ Breach \notin Alarm
    /\ CritWindow \in Nat \ {0} /\ WarnWindow \in Nat /\ WarnWindow >= CritWindow
    /\ AckFor \in Nat \ {0} /\ Threshold \in Nat \ {0} /\ MaxOps \in Nat

Key == Alarm \cup {Breach}
SinkLabel == {"telegram", "email"}
Severity == {"info", "warn", "crit"}
Long == WarnWindow   \* an age that no window tells from a greater one

VARIABLES
    level,    \* severity of what an alarm's row says now, "info" without a row
    breach,   \* is there an obs_dead_mans_switch_breach row?
    since,    \* age of a key's last alert_log row, delivered or not
    told,     \* age of the last delivery of a key through a sink
    acked,    \* units until the last ack of a key expires
    up,       \* sinks that deliver
    sweep,    \* the alerter: decisions left, the key being sent, its sinks left, the result
    beat,     \* the heartbeat job: result of the mail that is not written yet
    fails,    \* _consecutive_failures of the daemon's publisher
    unlogged, \* a key and a sink it was told through, of which alert_log has had no row since:
              \* a kill came in between or compact-logs took the row (of the proof, not the code)
    ops

rows == <<since, told, acked>>
vars == <<level, breach, rows, up, sweep, beat, fails, unlogged, ops>>

NoKey == [k \in Key |-> "info"]
Sleeping == [on |-> FALSE, todo |-> NoKey, key |-> Breach, sev |-> "info", left |-> <<>>, sent |-> FALSE]

TypeOK ==
    /\ level \in [Alarm -> Severity] /\ breach \in BOOLEAN
    /\ since \in [Key -> 0..Long] /\ told \in [Key -> [SinkLabel -> 0..Long]]
    /\ acked \in [Key -> 0..AckFor] /\ up \subseteq SinkLabel
    /\ sweep \in [on : BOOLEAN, todo : [Key -> Severity], key : Key, sev : Severity, sent : BOOLEAN,
                  left : {<<>>, <<"email">>, <<"telegram">>, <<"telegram", "email">>}]
    /\ beat \in {"none", "delivered", "failed"} /\ fails \in 0..Threshold
    /\ ops \in 0..MaxOps /\ unlogged \subseteq Key \X SinkLabel

Spend == ops < MaxOps /\ ops' = ops + 1

-----------------------------------------------------------------------------
(* What the rows say: overdue clocks and silent nodes get worse with age.    *)

\* severity_for_anti, severity_for_obligation_staleness, severity_for_eu_heartbeat
SeverityOf(k) == IF k = Breach THEN IF breach THEN "crit" ELSE "info" ELSE level[k]

Worsens(k) ==
    /\ level[k] # "crit"
    /\ level' = [level EXCEPT ![k] = IF @ = "info" THEN "warn" ELSE "crit"]
    /\ UNCHANGED <<breach, rows, up, sweep, beat, fails, unlogged, ops>>

\* obligation-proven, a sweep that ran (the alerter's too), a row removed
Proven(k) ==
    /\ level[k] # "info" /\ level' = [level EXCEPT ![k] = "info"]
    /\ UNCHANGED <<breach, rows, up, sweep, beat, fails, unlogged, ops>>

\* probe_coverage_pending is written anew by every audit sweep, and is young again
Restamped(k) ==
    /\ level[k] = "crit" /\ level' = [level EXCEPT ![k] = "warn"]
    /\ UNCHANGED <<breach, rows, up, sweep, beat, fails, unlogged, ops>>

Older(age) == IF age < Long THEN age + 1 ELSE Long
NeverExpires(n) == n
Expires(n) == IF n = 0 THEN 0 ELSE n - 1

TimePasses ==
    /\ ~sweep.on
    /\ since' = [k \in Key |-> Older(since[k])]
    /\ told' = [k \in Key |-> [s \in SinkLabel |-> Older(told[k][s])]]
    /\ acked' = [k \in Key |-> Expires(acked[k])]
    /\ UNCHANGED <<level, breach, up, sweep, beat, fails, unlogged, ops>>

\* an ack's row, which no later one shortens: what is left of its time
Acked(k) == [acked EXCEPT ![k] = AckFor]

\* obs-alert-ack
Ack(k) ==
    /\ acked' = Acked(k) /\ Spend
    /\ UNCHANGED <<level, breach, since, told, up, sweep, beat, fails, unlogged>>

SinkComesOrGoes(s) ==
    /\ up' = IF s \in up THEN up \ {s} ELSE up \cup {s}
    /\ Spend
    /\ UNCHANGED <<level, breach, rows, sweep, beat, fails, unlogged>>

-----------------------------------------------------------------------------
(* AlertSweep.run_once.                                                      *)

Routing(sev) == CASE sev = "crit" -> <<"telegram", "email">>
                  [] sev = "warn" -> <<"telegram">>
                  [] OTHER -> <<>>

\* one snapshot, its decisions, and the time that stamps every row of the sweep
SweepBegin ==
    /\ ~sweep.on
    /\ sweep' = [Sleeping EXCEPT !.on = TRUE, !.todo = [k \in Key |-> SeverityOf(k)]]
    /\ UNCHANGED <<level, breach, rows, up, beat, fails, unlogged, ops>>

Window(sev) == IF sev = "crit" THEN CritWindow ELSE WarnWindow
DedupedShort(k, sev) == since[k] + 1 < Window(sev)
\* the last attempt counts, whatever its severity and whether it was delivered
Deduped(k, sev) == since[k] < Window(sev)

Decide(k) ==
    LET sev == sweep.todo[k] IN
    /\ sweep.on /\ sweep.left = <<>> /\ sev # "info"
    /\ sweep' = [sweep EXCEPT !.todo[k] = "info", !.key = k, !.sev = sev,
                    !.left = IF acked[k] > 0 \/ Deduped(k, sev) THEN <<>> ELSE Routing(sev)]
    /\ UNCHANGED <<level, breach, rows, up, beat, fails, unlogged, ops>>

Send ==
    /\ sweep.left # <<>> /\ ~sweep.sent
    /\ sweep' = [sweep EXCEPT !.sent = TRUE]
    /\ told' = IF Head(sweep.left) \in up
               THEN [told EXCEPT ![sweep.key][Head(sweep.left)] = 0] ELSE told
    /\ UNCHANGED <<level, breach, since, acked, up, beat, fails, unlogged, ops>>

\* a row per attempt, whether it delivered or not
LoggedAtLast(k) == IF Len(sweep.left) = 1 THEN [since EXCEPT ![k] = 0] ELSE since
Logged(k) == [since EXCEPT ![k] = 0]
StillToSend == {sweep.left[i] : i \in 2..Len(sweep.left)}
LogAttempt ==
    /\ sweep.sent
    /\ sweep' = [sweep EXCEPT !.sent = FALSE, !.left = Tail(@)]
    /\ since' = Logged(sweep.key)
    /\ unlogged' = unlogged \ ({sweep.key} \X (SinkLabel \ StillToSend))
    /\ UNCHANGED <<level, breach, told, acked, up, beat, fails, ops>>

\* obs_alerter_sweep_ran is proven: one of the alarms that Proven is about
SweepEnd ==
    /\ sweep.on /\ sweep.left = <<>> /\ sweep.todo = NoKey
    /\ sweep' = Sleeping
    /\ UNCHANGED <<level, breach, rows, up, beat, fails, unlogged, ops>>

-----------------------------------------------------------------------------
(* ObsHeartbeatPublisher.run_once.                                           *)

Mail == IF "email" \in up THEN "delivered" ELSE "failed"

BeatSend ==
    /\ beat = "none" /\ beat' = Mail
    /\ UNCHANGED <<level, breach, rows, up, sweep, fails, unlogged, ops>>

NeverFails(n) == 0
FailsAgain(n) == IF n < Threshold THEN n + 1 ELSE Threshold

\* what a run does to the row, given its publisher's count of failures before
Flag(result, count) ==
    breach' = IF result = "delivered" THEN FALSE ELSE (breach \/ FailsAgain(count) >= Threshold)

BeatRecord ==
    /\ beat # "none" /\ beat' = "none"
    /\ fails' = IF beat = "delivered" THEN 0 ELSE FailsAgain(fails)
    /\ Flag(beat, fails)
    /\ UNCHANGED <<level, rows, up, sweep, unlogged, ops>>

\* obs-heartbeat-now: another process, with a count of its own
HeartbeatNow ==
    /\ Flag(Mail, 0) /\ Spend
    /\ UNCHANGED <<level, rows, up, sweep, beat, fails, unlogged>>

-----------------------------------------------------------------------------
(* What takes a row away from dedupe, or keeps it from being written.        *)

OnItsWay(k, s) == sweep.sent /\ sweep.key = k /\ Head(sweep.left) = s
NoRow(k, s) == since[k] > told[k][s]

\* compact-logs --table alert_log --before: any cutoff, also one within a dedupe window
Compacted(cutoff) == {k \in Key : since[k] \in cutoff..(Long - 1)}
Compact(cutoff) ==
    /\ Compacted(cutoff) # {} /\ Spend
    /\ since' = [k \in Key |-> IF k \in Compacted(cutoff) THEN Long ELSE since[k]]
    /\ unlogged' = unlogged \cup {p \in Compacted(cutoff) \X SinkLabel : told[p[1]][p[2]] < Long}
    /\ UNCHANGED <<level, breach, told, acked, up, sweep, beat, fails>>

\* serve is stopped or killed and starts again, or an exception ends both jobs
Restart ==
    /\ sweep' = Sleeping /\ beat' = "none" /\ fails' = 0
    /\ unlogged' = {p \in Key \X SinkLabel : NoRow(p[1], p[2]) /\ (p \in unlogged \/ OnItsWay(p[1], p[2]))}
    /\ Spend
    /\ UNCHANGED <<level, breach, rows, up>>

-----------------------------------------------------------------------------
Init ==
    /\ level = [k \in Alarm |-> "info"] /\ breach = FALSE
    /\ since = [k \in Key |-> Long] /\ told = [k \in Key |-> [s \in SinkLabel |-> Long]]
    /\ acked = [k \in Key |-> 0] /\ up = SinkLabel
    /\ sweep = Sleeping /\ beat = "none" /\ fails = 0 /\ unlogged = {} /\ ops = 0

Alerter == SweepBegin \/ (\E k \in Key : Decide(k)) \/ Send \/ LogAttempt \/ SweepEnd
Heart   == BeatSend \/ BeatRecord
World   == \/ TimePasses \/ Restart \/ HeartbeatNow
           \/ \E k \in Alarm : Worsens(k) \/ Proven(k) \/ Restamped(k)
           \/ \E k \in Key : Ack(k)
           \/ \E s \in SinkLabel : SinkComesOrGoes(s)
           \/ \E cutoff \in 0..(Long - 1) : Compact(cutoff)

Next == Alerter \/ Heart \/ World

Spec == Init /\ [][Next]_vars
\* the two schedulers run their jobs again and again, and time does not stop
Fairness == WF_vars(Alerter) /\ WF_vars(Heart) /\ SF_vars(TimePasses)
FairSpec == Spec /\ Fairness

-----------------------------------------------------------------------------
\* No message without a row as young, but for the one on its way and those whose row a kill
\* prevented or compact-logs took: what dedupe reads of a key is not older than what the operator
\* has seen of it, and the key's next row heals it (run_once, compact_log_table).
EveryMessageHasItsRow ==
    \A k \in Key, s \in SinkLabel : NoRow(k, s) => <<k, s>> \in unlogged \/ OnItsWay(k, s)
\* Only a sweep that is on has a message on its way, and a sink left to send it through.
SendingIsOn == /\ sweep.sent => sweep.left # <<>>
               /\ sweep.left # <<>> => sweep.on
AlertsInductive == TypeOK /\ SendingIsOn /\ EveryMessageHasItsRow

\* The operator is not told the same thing twice within the window of the severity it is told
\* with, through any sink, unless the row of that very message was never written because of a
\* kill, or was compacted away (_is_deduped, alert_log.append); other restarts excuse nothing.
ToldOncePerWindow ==
    [][\A k \in Key, s \in SinkLabel :
        sweep'.sent /\ ~sweep.sent /\ sweep.key = k /\ Head(sweep.left) = s /\ told'[k][s] = 0
            => <<k, s>> \in unlogged \/ told[k][s] >= Window(sweep.sev)]_vars

\* Whatever stays critical reaches the operator through both sinks again and again once they
\* deliver: no failed attempt, kill, escalation, ack or dedupe silences it for good (run_once).
CritReachesOperator ==
    \A k \in Alarm, s \in SinkLabel :
        <>[](level[k] = "crit" /\ up = SinkLabel) => []<>(told[k][s] = 0)

\* When the mail is dead for good and Telegram is not, the operator is told over Telegram; when
\* the mail comes back, the flag goes (ObsHeartbeatPublisher.run_once with AlertSweep.run_once).
DeadMansSwitch ==
    /\ <>[](up = {"telegram"}) => []<>(told[Breach]["telegram"] = 0)
    /\ <>[]("email" \in up) => <>[](~breach)
=============================================================================
