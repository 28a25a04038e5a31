--------------------------- MODULE WatchersProofs ---------------------------
(***************************************************************************)
(* The loops that watch, for any number of what they watch and any bounds:  *)
(* the alert sweep, what its dedupe reads and what the operator is told;    *)
(* and the two threads of a box's agent that share one iptables chain.      *)
(***************************************************************************)
EXTENDS Alerts, RuAgent, TLAPS

Sinks == {<<>>, <<"email">>, <<"telegram">>, <<"telegram", "email">>}

LEMMA SinksShape ==
    ASSUME NEW q \in Sinks
    PROVE  /\ Len(q) \in Nat /\ (q = <<>> <=> Len(q) = 0)
           /\ \A i \in 1..Len(q) : q[i] \in SinkLabel
           /\ \A i, j \in 1..Len(q) : q[i] = q[j] => i = j
           /\ q # <<>> => /\ Head(q) = q[1] /\ Tail(q) \in Sinks /\ Len(Tail(q)) = Len(q) - 1
                          /\ \A i \in 1..Len(Tail(q)) : Tail(q)[i] = q[i + 1]
<1>1. CASE q = <<>> BY <1>1 DEF Sinks
<1>2. CASE q = <<"email">> BY <1>2 DEF Sinks, SinkLabel
<1>3. CASE q = <<"telegram">> BY <1>3 DEF Sinks, SinkLabel
<1>4. CASE q = <<"telegram", "email">> BY <1>4 DEF Sinks, SinkLabel
<1>5. QED BY <1>1, <1>2, <1>3, <1>4 DEF Sinks

LEMMA RoutingType == ASSUME NEW sev \in Severity PROVE Routing(sev) \in Sinks
BY DEF Routing, Sinks, Severity

LEMMA LongType == Long \in Nat /\ Long >= CritWindow /\ Long > 0
BY AlertsAssumption DEF Long

LEMMA OlderType ==
    ASSUME NEW a \in 0..Long PROVE Older(a) \in 0..Long
BY LongType DEF Older

LEMMA OlderOrder ==
    ASSUME NEW a \in 0..Long, NEW b \in 0..Long, Older(a) > Older(b) PROVE a > b
BY LongType DEF Older

LEMMA SpendType == ASSUME TypeOK, Spend PROVE ops' \in 0..MaxOps
BY AlertsAssumption DEF TypeOK, Spend

SweepType == [on : BOOLEAN, todo : [Key -> Severity], key : Key, sev : Severity, sent : BOOLEAN,
              left : Sinks]

LEMMA SleepingType ==
    /\ Sleeping \in SweepType /\ Sleeping.left = <<>> /\ Sleeping.on = FALSE /\ Sleeping.sent = FALSE
    /\ NoKey \in [Key -> Severity]
<1>1. NoKey \in [Key -> Severity] BY DEF NoKey, Severity
<1>2. Breach \in Key /\ "info" \in Severity /\ <<>> \in Sinks BY DEF Key, Severity, Sinks
<1>3. QED BY <1>1, <1>2 DEF Sleeping, SweepType

(* What a sweep has still to send, it may send: none of these sinks has told the key within the
   window, but for those whose row is missing. *)
Due ==
    \A i \in 1..Len(sweep.left) :
        \/ i = 1 /\ sweep.sent
        \/ <<sweep.key, sweep.left[i]>> \in unlogged
        \/ told[sweep.key][sweep.left[i]] >= Window(sweep.sev)

AlertsIInv == AlertsInductive /\ Due

LEMMA AlertsFacts ==
    ASSUME AlertsIInv
    PROVE  /\ TypeOK /\ SendingIsOn /\ EveryMessageHasItsRow /\ Due
           /\ sweep \in SweepType /\ sweep.left \in Sinks /\ sweep.key \in Key
           /\ sweep.sent \in BOOLEAN /\ sweep.on \in BOOLEAN /\ sweep.sev \in Severity
           /\ since \in [Key -> 0..Long] /\ told \in [Key -> [SinkLabel -> 0..Long]]
           /\ ops \in 0..MaxOps /\ unlogged \subseteq Key \X SinkLabel
<1>1. TypeOK /\ SendingIsOn /\ EveryMessageHasItsRow /\ Due
    BY DEF AlertsIInv, AlertsInductive
<1>2. sweep \in SweepType BY <1>1 DEF TypeOK, SweepType, Sinks
<1>3. QED BY <1>1, <1>2 DEF TypeOK, SweepType

LEMMA SpreadsTo ==
    ASSUME AlertsIInv, sweep' = Sleeping, TypeOK', UNCHANGED <<since, told>>,
           \A k \in Key, s \in SinkLabel :
               NoRow(k, s) /\ (<<k, s>> \in unlogged \/ OnItsWay(k, s)) => <<k, s>> \in unlogged'
    PROVE  AlertsIInv'
<1>1. SendingIsOn' BY SleepingType DEF SendingIsOn
<1>2. EveryMessageHasItsRow' BY AlertsFacts DEF EveryMessageHasItsRow, NoRow
<1>3. Due' BY SleepingType DEF Due
<1>4. QED BY <1>1, <1>2, <1>3 DEF AlertsIInv, AlertsInductive

(* A step that is not the sweep's, and neither time. *)
LEMMA AsideSound ==
    ASSUME AlertsIInv, UNCHANGED <<sweep, since, told, unlogged>>, TypeOK' PROVE AlertsIInv'
<1>1. SendingIsOn' /\ EveryMessageHasItsRow' /\ Due'
    BY AlertsFacts DEF SendingIsOn, EveryMessageHasItsRow, NoRow, OnItsWay, Due, Window
<1>2. QED BY <1>1 DEF AlertsIInv, AlertsInductive

(* Nothing has been told, nothing is deduped. *)
THEOREM AlertsInit == Init => AlertsIInv
<1> SUFFICES ASSUME Init PROVE AlertsIInv
    OBVIOUS
<1>1. sweep \in SweepType /\ sweep.left = <<>> /\ sweep.sent = FALSE BY SleepingType DEF Init
<1>2. TypeOK
    <2>1. level \in [Alarm -> Severity] BY DEF Init, Severity
    <2>2. since \in [Key -> 0..Long] /\ told \in [Key -> [SinkLabel -> 0..Long]]
        BY LongType DEF Init
    <2>3. acked \in [Key -> 0..AckFor] BY AlertsAssumption DEF Init
    <2>4. fails \in 0..Threshold /\ ops \in 0..MaxOps /\ unlogged \subseteq Key \X SinkLabel
        BY AlertsAssumption DEF Init
    <2>5. QED BY <1>1, <2>1, <2>2, <2>3, <2>4 DEF Init, TypeOK, SweepType, Sinks
<1>3. SendingIsOn BY <1>1 DEF SendingIsOn
<1>4. EveryMessageHasItsRow BY LongType DEF Init, EveryMessageHasItsRow, NoRow
<1>5. Due BY <1>1 DEF Due
<1>6. QED BY <1>2, <1>3, <1>4, <1>5 DEF AlertsIInv, AlertsInductive

-----------------------------------------------------------------------------
(* Steps of the world and of the heartbeat *)

LEMMA LevelStep ==
    ASSUME AlertsIInv, NEW k \in Alarm, Worsens(k) \/ Proven(k) \/ Restamped(k) PROVE AlertsIInv'
<1>1. level' \in [Alarm -> Severity]
    BY AlertsFacts DEF Worsens, Proven, Restamped, TypeOK, Severity
<1>2. TypeOK' BY <1>1, AlertsFacts DEF Worsens, Proven, Restamped, TypeOK, rows
<1>3. QED BY <1>2, AsideSound DEF Worsens, Proven, Restamped, rows

LEMMA TimeStep == ASSUME AlertsIInv, TimePasses PROVE AlertsIInv'
<1>1. sweep.left = <<>> /\ sweep.sent = FALSE
    BY AlertsFacts DEF TimePasses, SendingIsOn
<1>2. /\ \A k \in Key : since'[k] = Older(since[k])
      /\ \A k \in Key, s \in SinkLabel : told'[k][s] = Older(told[k][s])
      /\ UNCHANGED <<level, breach, up, sweep, beat, fails, unlogged, ops>>
    BY DEF TimePasses
<1>3. TypeOK'
    <2>1. since' \in [Key -> 0..Long] BY AlertsFacts, OlderType DEF TimePasses
    <2>2. told' \in [Key -> [SinkLabel -> 0..Long]] BY AlertsFacts, OlderType DEF TimePasses
    <2>3. acked' \in [Key -> 0..AckFor]
        BY AlertsFacts, AlertsAssumption DEF TimePasses, TypeOK, Expires
    <2>4. QED BY <1>2, <2>1, <2>2, <2>3, AlertsFacts DEF TypeOK
<1>4. SendingIsOn' BY <1>2, AlertsFacts DEF SendingIsOn
<1>5. EveryMessageHasItsRow'
    <2>1. SUFFICES ASSUME NEW k \in Key, NEW s \in SinkLabel, Older(since[k]) > Older(told[k][s])
                   PROVE  <<k, s>> \in unlogged
        BY <1>2 DEF EveryMessageHasItsRow, NoRow
    <2>2. since[k] > told[k][s] BY <2>1, AlertsFacts, OlderOrder
    <2>3. QED BY <1>1, <2>2, AlertsFacts DEF EveryMessageHasItsRow, NoRow, OnItsWay
<1>6. Due' BY <1>1, <1>2 DEF Due
<1>7. QED BY <1>3, <1>4, <1>5, <1>6 DEF AlertsIInv, AlertsInductive

LEMMA AckStep == ASSUME AlertsIInv, NEW k \in Key, Ack(k) PROVE AlertsIInv'
<1>1. acked' \in [Key -> 0..AckFor] BY AlertsFacts, AlertsAssumption DEF Ack, Acked, TypeOK
<1>2. TypeOK' BY <1>1, AlertsFacts, SpendType DEF Ack, TypeOK
<1>3. QED BY <1>2, AsideSound DEF Ack

LEMMA SinkStep == ASSUME AlertsIInv, NEW s \in SinkLabel, SinkComesOrGoes(s) PROVE AlertsIInv'
<1>1. TypeOK' BY AlertsFacts, SpendType DEF SinkComesOrGoes, TypeOK, rows
<1>2. QED BY <1>1, AsideSound DEF SinkComesOrGoes, rows

LEMMA FlagType ==
    ASSUME breach \in BOOLEAN, NEW result, NEW count, Flag(result, count) PROVE breach' \in BOOLEAN
BY DEF Flag

LEMMA FailsType == ASSUME NEW n \in 0..Threshold PROVE FailsAgain(n) \in 0..Threshold
BY AlertsAssumption DEF FailsAgain

LEMMA HeartStep == ASSUME AlertsIInv, BeatSend \/ BeatRecord \/ HeartbeatNow PROVE AlertsIInv'
<1>1. CASE BeatSend
    <2>1. TypeOK' BY <1>1, AlertsFacts DEF BeatSend, Mail, TypeOK, rows
    <2>2. QED BY <1>1, <2>1, AsideSound DEF BeatSend, rows
<1>2. CASE BeatRecord
    <2>1. fails' \in 0..Threshold
        BY <1>2, AlertsFacts, FailsType, AlertsAssumption DEF BeatRecord, TypeOK
    <2>2. breach' \in BOOLEAN BY <1>2, AlertsFacts, FlagType DEF BeatRecord, TypeOK
    <2>3. TypeOK' BY <1>2, <2>1, <2>2, AlertsFacts DEF BeatRecord, TypeOK, rows
    <2>4. QED BY <1>2, <2>3, AsideSound DEF BeatRecord, rows
<1>3. CASE HeartbeatNow
    <2>1. breach' \in BOOLEAN BY <1>3, AlertsFacts, FlagType DEF HeartbeatNow, TypeOK
    <2>2. TypeOK' BY <1>3, <2>1, AlertsFacts, SpendType DEF HeartbeatNow, TypeOK, rows
    <2>3. QED BY <1>3, <2>2, AsideSound DEF HeartbeatNow, rows
<1>4. QED BY <1>1, <1>2, <1>3

LEMMA RestartStep == ASSUME AlertsIInv, Restart PROVE AlertsIInv'
<1>1. sweep' \in SweepType BY SleepingType DEF Restart
<1>2. fails' \in 0..Threshold BY AlertsAssumption DEF Restart
<1>3. unlogged' = {p \in Key \X SinkLabel : NoRow(p[1], p[2]) /\ (p \in unlogged \/ OnItsWay(p[1], p[2]))}
    BY DEF Restart
<1>4. TypeOK' BY <1>1, <1>2, <1>3, AlertsFacts, SpendType DEF Restart, TypeOK, rows, SweepType, Sinks
<1>5. ASSUME NEW k \in Key, NEW s \in SinkLabel,
             NoRow(k, s), <<k, s>> \in unlogged \/ OnItsWay(k, s)
      PROVE  <<k, s>> \in unlogged'
    BY <1>3, <1>5
<1>6. QED BY <1>4, <1>5, SpreadsTo DEF Restart, rows

(* compact-logs takes rows; the messages they were of are the ones it leaves without. *)
LEMMA CompactStep ==
    ASSUME AlertsIInv, NEW cutoff \in 0..(Long - 1), Compact(cutoff) PROVE AlertsIInv'
<1> DEFINE gone == Compacted(cutoff)
<1>1. gone \subseteq Key BY DEF Compacted
<1>2. /\ since' = [k \in Key |-> IF k \in gone THEN Long ELSE since[k]]
      /\ unlogged' = unlogged \cup {p \in gone \X SinkLabel : told[p[1]][p[2]] < Long}
      /\ UNCHANGED <<level, breach, told, acked, up, sweep, beat, fails>>
    BY DEF Compact
<1> HIDE DEF gone
<1>3. since' \in [Key -> 0..Long] BY <1>2, AlertsFacts, LongType
<1>4. unlogged' \subseteq Key \X SinkLabel BY <1>1, <1>2, AlertsFacts
<1>5. ops' \in 0..MaxOps BY AlertsFacts, SpendType DEF Compact
<1>6. TypeOK' BY <1>2, <1>3, <1>4, <1>5, AlertsFacts DEF TypeOK
<1>7. SendingIsOn' BY <1>2, AlertsFacts DEF SendingIsOn
<1>8. EveryMessageHasItsRow'
    <2>1. SUFFICES ASSUME NEW k \in Key, NEW s \in SinkLabel, since'[k] > told[k][s]
                   PROVE  <<k, s>> \in unlogged' \/ OnItsWay(k, s)
        BY <1>2 DEF EveryMessageHasItsRow, NoRow, OnItsWay
    <2>2. CASE k \in gone
        <3>1. told[k][s] < Long BY <1>2, <2>1, <2>2
        <3>2. QED BY <1>2, <2>2, <3>1
    <2>3. CASE k \notin gone
        <3>1. NoRow(k, s) BY <1>2, <2>1, <2>3 DEF NoRow
        <3>2. QED BY <1>2, <3>1, AlertsFacts DEF EveryMessageHasItsRow
    <2>4. QED BY <2>2, <2>3
<1>9. Due' BY <1>2, AlertsFacts DEF Due, Window
<1>10. QED BY <1>6, <1>7, <1>8, <1>9 DEF AlertsIInv, AlertsInductive

-----------------------------------------------------------------------------
(* Steps of the sweep *)

LEMMA SweepBeginStep == ASSUME AlertsIInv, SweepBegin PROVE AlertsIInv'
<1>1. \A k \in Key : SeverityOf(k) \in Severity
    BY AlertsFacts DEF SeverityOf, Severity, Key, TypeOK
<1>2. /\ sweep' \in SweepType /\ sweep'.left = <<>> /\ sweep'.on = TRUE /\ sweep'.sent = FALSE
    BY <1>1, SleepingType DEF SweepBegin, SweepType
<1>3. sweep.sent = FALSE BY AlertsFacts DEF SweepBegin, SendingIsOn
<1>4. TypeOK' BY <1>2, AlertsFacts DEF SweepBegin, TypeOK, rows, SweepType, Sinks
<1>5. SendingIsOn' BY <1>2 DEF SendingIsOn
<1>6. EveryMessageHasItsRow' BY <1>3, AlertsFacts DEF SweepBegin, rows, EveryMessageHasItsRow, NoRow, OnItsWay
<1>7. Due' BY <1>2 DEF Due
<1>8. QED BY <1>4, <1>5, <1>6, <1>7 DEF AlertsIInv, AlertsInductive

LEMMA DecideStep == ASSUME AlertsIInv, NEW k \in Key, Decide(k) PROVE AlertsIInv'
<1> DEFINE sev == sweep.todo[k]
           quiet == acked[k] > 0 \/ Deduped(k, sev)
           q == IF quiet THEN <<>> ELSE Routing(sev)
<1>1. sweep.on = TRUE /\ sweep.left = <<>> /\ sweep.sent = FALSE
    BY AlertsFacts DEF Decide, SendingIsOn
<1>2. sev \in Severity BY AlertsFacts DEF SweepType
<1>3. q \in Sinks BY <1>2, RoutingType DEF Sinks
<1>4. /\ sweep' = [sweep EXCEPT !.todo[k] = "info", !.key = k, !.sev = sev, !.left = q]
      /\ UNCHANGED <<level, breach, rows, up, beat, fails, unlogged, ops>>
    BY DEF Decide
<1>5. /\ sweep'.left = q /\ sweep'.key = k /\ sweep'.sev = sev
      /\ sweep'.on = TRUE /\ sweep'.sent = FALSE /\ sweep' \in SweepType
    <2> HIDE DEF q, sev
    <2>1. QED BY <1>1, <1>2, <1>3, <1>4, AlertsFacts DEF SweepType, Severity
<1>6. TypeOK' BY <1>4, <1>5, AlertsFacts DEF TypeOK, rows, SweepType, Sinks
<1>7. SendingIsOn' BY <1>5 DEF SendingIsOn
<1>8. EveryMessageHasItsRow' BY <1>1, <1>4, <1>5, AlertsFacts DEF rows, EveryMessageHasItsRow, NoRow, OnItsWay
<1>9. Due'
    <2>1. SUFFICES ASSUME NEW i \in 1..Len(q), <<k, q[i]>> \notin unlogged
                   PROVE  told[k][q[i]] >= Window(sev)
        <3> HIDE DEF q, sev
        <3>1. QED BY <1>4, <1>5 DEF Due, rows, Window
    <2>2. ~quiet BY Z3 DEF Sinks
    <2>3. since[k] >= Window(sev)
        BY <1>2, <2>2, AlertsFacts, AlertsAssumption DEF Deduped, Window, Severity
    <2>4. q[i] \in SinkLabel BY <1>3, <2>1, SinksShape
    <2>5. since[k] <= told[k][q[i]]
        <3> HIDE DEF q
        <3>1. QED BY <1>1, <2>1, <2>4, AlertsFacts DEF EveryMessageHasItsRow, NoRow, OnItsWay
    <2> HIDE DEF q, sev
    <2>6. Window(sev) \in Nat BY AlertsAssumption DEF Window
    <2>7. told[k][q[i]] \in 0..Long /\ since[k] \in 0..Long BY <2>4, AlertsFacts
    <2>8. QED BY <2>3, <2>5, <2>6, <2>7, LongType
<1>10. QED BY <1>6, <1>7, <1>8, <1>9 DEF AlertsIInv, AlertsInductive

LEMMA SendStep == ASSUME AlertsIInv, Send PROVE AlertsIInv'
<1> DEFINE q == sweep.left  k == sweep.key
<1>1. q # <<>> /\ sweep.sent = FALSE /\ sweep.on = TRUE /\ q \in Sinks /\ k \in Key
    BY AlertsFacts DEF Send, SendingIsOn
<1>2. Head(q) = q[1] /\ q[1] \in SinkLabel /\ 1 \in 1..Len(q)
    BY <1>1, SinksShape
<1>3. /\ sweep' = [sweep EXCEPT !.sent = TRUE]
      /\ told' = (IF q[1] \in up THEN [told EXCEPT ![k][q[1]] = 0] ELSE told)
      /\ UNCHANGED <<level, breach, since, acked, up, beat, fails, unlogged, ops>>
    BY <1>2 DEF Send
<1>4. /\ sweep'.left = q /\ sweep'.key = k /\ sweep'.sev = sweep.sev /\ sweep'.on = TRUE
      /\ sweep'.sent = TRUE /\ sweep' \in SweepType
    BY <1>1, <1>3, AlertsFacts DEF SweepType
<1>5. told' \in [Key -> [SinkLabel -> 0..Long]]
    BY <1>1, <1>2, <1>3, AlertsFacts, LongType
<1>6. \A j \in Key, s \in SinkLabel : (j = k /\ s = q[1]) \/ told'[j][s] = told[j][s]
    BY <1>1, <1>2, <1>3, AlertsFacts
<1>7. TypeOK' BY <1>3, <1>4, <1>5, AlertsFacts DEF TypeOK, SweepType, Sinks
<1>8. SendingIsOn' BY <1>1, <1>4 DEF SendingIsOn
<1>9. EveryMessageHasItsRow'
    BY <1>1, <1>2, <1>3, <1>4, <1>6, AlertsFacts DEF EveryMessageHasItsRow, NoRow, OnItsWay
<1>10. Due'
    <2>1. SUFFICES ASSUME NEW i \in 1..Len(q), i # 1, <<k, q[i]>> \notin unlogged
                   PROVE  told'[k][q[i]] >= Window(sweep.sev)
        BY <1>3, <1>4 DEF Due, Window
    <2>2. q[i] # q[1] /\ q[i] \in SinkLabel BY <1>1, <1>2, <2>1, SinksShape
    <2>3. told'[k][q[i]] = told[k][q[i]] BY <1>1, <1>6, <2>2
    <2>4. QED BY <2>1, <2>3, AlertsFacts DEF Due
<1>11. QED BY <1>7, <1>8, <1>9, <1>10 DEF AlertsIInv, AlertsInductive

LEMMA LogStep == ASSUME AlertsIInv, LogAttempt PROVE AlertsIInv'
<1> DEFINE q == sweep.left  k == sweep.key
<1>1. q # <<>> /\ sweep.sent = TRUE /\ sweep.on = TRUE /\ q \in Sinks /\ k \in Key
    BY AlertsFacts DEF LogAttempt, SendingIsOn
<1>2. /\ Head(q) = q[1] /\ Tail(q) \in Sinks /\ Len(Tail(q)) = Len(q) - 1 /\ Len(q) \in Nat
      /\ \A i \in 1..Len(Tail(q)) : Tail(q)[i] = q[i + 1]
    BY <1>1, SinksShape
<1>3. /\ sweep' = [sweep EXCEPT !.sent = FALSE, !.left = Tail(q)]
      /\ since' = [since EXCEPT ![k] = 0]
      /\ unlogged' = unlogged \ ({k} \X (SinkLabel \ StillToSend))
      /\ UNCHANGED <<level, breach, told, acked, up, beat, fails, ops>>
    BY DEF LogAttempt, Logged
<1>4. /\ sweep'.left = Tail(q) /\ sweep'.key = k /\ sweep'.sev = sweep.sev /\ sweep'.on = TRUE
      /\ sweep'.sent = FALSE /\ sweep' \in SweepType
    BY <1>1, <1>2, <1>3, AlertsFacts DEF SweepType
<1>5. since' \in [Key -> 0..Long] /\ since'[k] = 0
    BY <1>1, <1>3, AlertsFacts, LongType
<1>6. TypeOK' BY <1>3, <1>4, <1>5, AlertsFacts DEF TypeOK, SweepType, Sinks
<1>7. SendingIsOn' BY <1>4 DEF SendingIsOn
<1>8. EveryMessageHasItsRow'
    <2>1. SUFFICES ASSUME NEW j \in Key, NEW s \in SinkLabel, since'[j] > told[j][s]
                   PROVE  <<j, s>> \in unlogged'
        BY <1>3 DEF EveryMessageHasItsRow, NoRow
    <2>2. told[j][s] \in 0..Long BY AlertsFacts
    <2>3. j # k BY <1>5, <2>1, <2>2, LongType
    <2>4. since'[j] = since[j] BY <1>3, <2>3, AlertsFacts
    <2>5. <<j, s>> \in unlogged
        BY <2>1, <2>3, <2>4, AlertsFacts DEF EveryMessageHasItsRow, NoRow, OnItsWay
    <2>6. QED BY <1>3, <2>3, <2>5
<1>9. Due'
    <2>1. SUFFICES ASSUME NEW i \in 1..Len(Tail(q)), <<k, Tail(q)[i]>> \notin unlogged'
                   PROVE  told[k][Tail(q)[i]] >= Window(sweep.sev)
        BY <1>3, <1>4 DEF Due, Window
    <2>2. i + 1 \in 1..Len(q) /\ i + 1 # 1 /\ Tail(q)[i] = q[i + 1] BY <1>2, <2>1
    <2>3. q[i + 1] \in StillToSend BY <1>2, <2>2 DEF StillToSend
    <2>4. <<k, q[i + 1]>> \notin unlogged BY <1>3, <2>1, <2>2, <2>3
    <2>5. QED BY <2>1, <2>2, <2>4, AlertsFacts DEF Due
<1>10. QED BY <1>6, <1>7, <1>8, <1>9 DEF AlertsIInv, AlertsInductive

LEMMA SweepEndStep == ASSUME AlertsIInv, SweepEnd PROVE AlertsIInv'
<1>1. sweep.sent = FALSE BY AlertsFacts DEF SweepEnd, SendingIsOn
<1>2. sweep' \in SweepType BY SleepingType DEF SweepEnd
<1>3. TypeOK' BY <1>2, AlertsFacts DEF SweepEnd, TypeOK, rows, SweepType, Sinks
<1>4. QED BY <1>1, <1>3, SpreadsTo DEF SweepEnd, rows, OnItsWay

-----------------------------------------------------------------------------
LEMMA AlertsStep == AlertsIInv /\ [Next]_vars => AlertsIInv'
<1> SUFFICES ASSUME AlertsIInv, [Next]_vars PROVE AlertsIInv'
    OBVIOUS
<1>1. CASE Alerter
    BY <1>1, SweepBeginStep, DecideStep, SendStep, LogStep, SweepEndStep DEF Alerter
<1>2. CASE Heart BY <1>2, HeartStep DEF Heart
<1>3. CASE World
    BY <1>3, TimeStep, RestartStep, HeartStep, LevelStep, AckStep, SinkStep, CompactStep DEF World
<1>4. CASE UNCHANGED vars
    <2>1. TypeOK' BY <1>4, AlertsFacts DEF vars, rows, TypeOK
    <2>2. QED BY <1>4, <2>1, AsideSound DEF vars, rows
<1>5. QED BY <1>1, <1>2, <1>3, <1>4 DEF Next

(* What dedupe reads of a key is never older than what the operator has seen of it, but for
   messages whose row a kill prevented or compact-logs took. *)
THEOREM AlertsAlways == Spec => []AlertsInductive
<1>1. AlertsIInv => AlertsInductive BY DEF AlertsIInv
<1>2. QED BY <1>1, AlertsInit, AlertsStep, PTL DEF Spec

(* No sink tells a key a second time within the window of its severity, unless the row of the
   message before is missing. *)
THEOREM ToldOnce == Spec => ToldOncePerWindow
<1> DEFINE Once == \A k \in Key, s \in SinkLabel :
            sweep'.sent /\ ~sweep.sent /\ sweep.key = k /\ Head(sweep.left) = s /\ told'[k][s] = 0
                => <<k, s>> \in unlogged \/ told[k][s] >= Window(sweep.sev)
<1>1. AlertsIInv /\ [Next]_vars => [Once]_vars
    <2>1. SUFFICES ASSUME AlertsIInv, Next, NEW k \in Key, NEW s \in SinkLabel,
                          sweep'.sent, ~sweep.sent, sweep.key = k, Head(sweep.left) = s,
                          <<k, s>> \notin unlogged
                   PROVE  told[k][s] >= Window(sweep.sev)
        BY AlertsFacts DEF vars
    <2>2. Send
        BY <2>1, SleepingType, AlertsFacts
           DEF Next, Alerter, Heart, World, SweepBegin, Decide, LogAttempt, SweepEnd, BeatSend,
               BeatRecord, TimePasses, Restart, HeartbeatNow, Worsens, Proven, Restamped, Ack,
               SinkComesOrGoes, Compact, SweepType
    <2>3. sweep.left \in Sinks /\ sweep.left # <<>> BY <2>1, <2>2, AlertsFacts DEF Send
    <2>4. Head(sweep.left) = sweep.left[1] /\ 1 \in 1..Len(sweep.left) BY <2>3, SinksShape
    <2>5. QED BY <2>1, <2>4, AlertsFacts DEF Due
<1>2. QED BY <1>1, AlertsInit, AlertsStep, PTL DEF Spec, ToldOncePerWindow

-----------------------------------------------------------------------------
(* The agent of a box: its threads and the desync chain *)

ThreadPc == {"rest", "verify", "D", "F", "X", "N", "A", "H", "holder"}
Chains == [made : BOOLEAN, rules : SUBSET ExitIp, hooks : 0..2]

LEMMA RestingType ==
    Resting \in JobType /\ Resting.pc = "rest" /\ ~Resting.only
BY DEF Resting, JobType

LEMMA NoChainType ==
    NoChain \in Chains /\ ~NoChain.made /\ NoChain.rules = {} /\ NoChain.hooks = 0
BY DEF NoChain, Chains

LEMMA FullChainType ==
    ASSUME NEW S \in SUBSET ExitIp
    PROVE  FullChain(S) \in Chains /\ FullChain(S).made /\ FullChain(S).rules = S
           /\ FullChain(S).hooks = 1
BY DEF FullChain, Chains

LEMMA ChainFields ==
    ASSUME NEW ch \in Chains, NEW c \in Chains,
           ch.made = c.made, ch.rules = c.rules, ch.hooks = c.hooks
    PROVE  ch = c
BY DEF Chains

LEMMA HalfType ==
    ASSUME NEW S \in SUBSET ExitIp, NEW ch \in HalfInstalled(S)
    PROVE  ch \in Chains /\ (~ch.made => ch = NoChain)
<1>1. CASE ch = NoChain
  BY <1>1, NoChainType
<1>2. ASSUME NEW R \in SUBSET S, ch = [made |-> TRUE, rules |-> R, hooks |-> 0]
      PROVE  ch \in Chains /\ ch.made
  BY <1>2 DEF Chains
<1> QED
  BY <1>1, <1>2 DEF HalfInstalled

LEMMA PayloadType ==
    ASSUME NEW d \in Payload
    PROVE  d.exits \in SUBSET ExitIp /\ d.desync \in BOOLEAN
BY AgentAssumption

LEMMA AgentFacts ==
    ASSUME AgentInductive
    PROVE  /\ job \in [Thread -> JobType] /\ chain \in Chains
           /\ held \in Payload /\ held.exits \in SUBSET ExitIp
           /\ holder \in SUBSET ExitIp /\ raced \in BOOLEAN /\ armed \in BOOLEAN
           /\ "refresh" \in Thread /\ "recheck" \in Thread
           /\ \A t \in Thread : t = "refresh" \/ t = "recheck"
           /\ \A t \in Thread : /\ job[t] \in JobType /\ job[t].pc \in ThreadPc
                                /\ job[t].ips \in SUBSET ExitIp
                                /\ job[t].only \in BOOLEAN
           /\ chain.made \in BOOLEAN /\ chain.rules \in SUBSET ExitIp /\ chain.hooks \in 0..2
<1>1. held \in Payload /\ held.exits \in SUBSET ExitIp
  BY PayloadType DEF AgentInductive, AgentTypeOK
<1>2. /\ job \in [Thread -> JobType] /\ chain \in Chains /\ raced \in BOOLEAN
      /\ holder \in SUBSET ExitIp /\ armed \in BOOLEAN
  BY DEF AgentInductive, AgentTypeOK, Chains
<1>3. chain.made \in BOOLEAN /\ chain.rules \in SUBSET ExitIp /\ chain.hooks \in 0..2
  BY <1>2 DEF Chains
<1>4. "refresh" \in Thread /\ "recheck" \in Thread
      /\ \A t \in Thread : t = "refresh" \/ t = "recheck"
  BY DEF Thread
<1>5. ASSUME NEW t \in Thread
      PROVE  job[t] \in JobType /\ job[t].pc \in ThreadPc
             /\ job[t].ips \in SUBSET ExitIp /\ job[t].only \in BOOLEAN
  <2>1. job[t] \in JobType
    BY <1>2
  <2> QED
    BY <2>1 DEF JobType, ThreadPc
<1> QED
  BY <1>1, <1>2, <1>3, <1>4, <1>5

LEMMA ThreadMoves ==
    ASSUME job \in [Thread -> JobType], NEW t \in Thread, NEW pc \in ThreadPc,
           job' = [job EXCEPT ![t].pc = pc]
    PROVE  /\ job' \in [Thread -> JobType]
           /\ job'[t].pc = pc /\ job'[t].ips = job[t].ips
           /\ job'[t].next = job[t].next /\ job'[t].only = job[t].only
           /\ \A u \in Thread \ {t} : job'[u] = job[u]
BY DEF JobType, ThreadPc

LEMMA ThreadGets ==
    ASSUME job \in [Thread -> JobType], NEW t \in Thread, NEW j \in JobType,
           job' = [job EXCEPT ![t] = j]
    PROVE  /\ job' \in [Thread -> JobType] /\ job'[t] = j
           /\ \A u \in Thread \ {t} : job'[u] = job[u]
OBVIOUS

\* What does not depend on a thread's job or on the chain is kept by its commands.
AgentRest ==
    /\ attempts \in 0..MaxAttempts /\ armed \in BOOLEAN
    /\ held \in Payload /\ loaded \in Payload /\ holder \subseteq ExitIp
    /\ nat \in BOOLEAN /\ raced \in BOOLEAN /\ hardened \in BOOLEAN
    /\ crashes \in [Child -> 0..MaxCrashes]
    /\ why \in {"none", "hardening", "iptables", "desync", "supervisor"}
    /\ phase \in {"boot", "up", "failed", "off"}
    /\ refreshes \in 0..MaxRefreshes /\ trouble \in 0..MaxTrouble
    /\ phase = "boot" => attempts < MaxAttempts
    /\ phase \in {"boot", "up"} => \A c \in Child : crashes[c] < MaxCrashes
    /\ why = "desync" => raced

ThreadsAndChain ==
    /\ job \in [Thread -> JobType] /\ chain \in Chains
    /\ ThreadsInOrder /\ HooksBounded /\ ChainInShape /\ NotMet

LEMMA AgentSplit == AgentInductive <=> AgentRest /\ ThreadsAndChain
BY DEF AgentInductive, AgentRest, ThreadsAndChain, AgentTypeOK, Chains

\* The chain and the job of thread t after one of its commands, by where t was.
CommandDone(t) ==
    \/ /\ job[t].pc = "D" /\ job'[t].pc = "F" /\ job'[t].ips = job[t].ips
       /\ chain'.made = chain.made /\ chain'.rules = chain.rules
       /\ chain'.hooks = IF chain.hooks = 0 THEN 0 ELSE chain.hooks - 1
    \/ /\ job[t].pc = "F" /\ job'[t].pc = "X" /\ job'[t].ips = job[t].ips
       /\ chain'.made = chain.made /\ chain'.rules = {} /\ chain'.hooks = chain.hooks
    \/ /\ job[t].pc = "X" /\ job'[t].ips = job[t].ips
       /\ job'[t].pc = IF job[t].only THEN AfterLast(t) ELSE "N"
       /\ chain' = IF chain.rules = {} /\ chain.hooks = 0 THEN NoChain ELSE chain
    \/ /\ job[t].pc = "N" /\ job'[t].pc = "A" /\ job'[t].ips = job[t].ips
       /\ ~chain.made /\ chain'.made
       /\ chain'.rules = chain.rules /\ chain'.hooks = chain.hooks
    \/ /\ job[t].pc = "A" /\ job'[t].pc = "A" /\ chain.made /\ chain'.made
       /\ \E ip \in job[t].ips : /\ job'[t].ips = job[t].ips \ {ip}
                                 /\ chain'.rules = chain.rules \cup {ip}
       /\ chain'.hooks = chain.hooks
    \/ /\ job[t].pc = "A" /\ job'[t].pc = "H" /\ job[t].ips = {}
       /\ chain' = chain
    \/ /\ job[t].pc = "H" /\ job'[t].pc = AfterLast(t) /\ chain.made
       /\ chain'.made /\ chain'.rules = chain.rules /\ chain'.hooks = chain.hooks + 1

CommandFailed(t) ==
    /\ chain' = chain
    /\ \/ job[t].pc = "N" /\ chain.made
       \/ job[t].pc \in {"A", "H"} /\ ~chain.made

LEMMA CommandEffect ==
    ASSUME AgentInductive, NEW t \in Thread, Command(t)
    PROVE  /\ job' \in [Thread -> JobType] /\ chain' \in Chains
           /\ \A u \in Thread \ {t} : job'[u] = job[u]
           /\ job'[t].next = job[t].next /\ job'[t].only = job[t].only
           /\ \/ CommandDone(t) /\ StaysUp
              \/ CommandFailed(t) /\ t = "refresh" /\ job'[t].pc = "holder" /\ StaysUp
              \/ CommandFailed(t) /\ t = "recheck" /\ job' = job /\ PowerOff("desync")
<1> DEFINE Goal == /\ job' \in [Thread -> JobType] /\ chain' \in Chains
                   /\ \A u \in Thread \ {t} : job'[u] = job[u]
                   /\ job'[t].next = job[t].next /\ job'[t].only = job[t].only
                   /\ \/ CommandDone(t) /\ StaysUp
                      \/ CommandFailed(t) /\ t = "refresh" /\ job'[t].pc = "holder" /\ StaysUp
                      \/ CommandFailed(t) /\ t = "recheck" /\ job' = job /\ PowerOff("desync")
<1>1. job \in [Thread -> JobType] /\ job[t] \in JobType /\ chain \in Chains
      /\ (t = "refresh" \/ t = "recheck")
  BY AgentFacts
<1>2. AfterLast(t) \in ThreadPc
  BY DEF AfterLast, ThreadPc
<1>3. ASSUME NEW pc \in ThreadPc, NEW ch \in Chains, SetChain(t, ch, pc)
      PROVE  /\ job' \in [Thread -> JobType] /\ chain' \in Chains /\ chain' = ch
             /\ job'[t].pc = pc /\ job'[t].ips = job[t].ips
             /\ job'[t].next = job[t].next /\ job'[t].only = job[t].only
             /\ \A u \in Thread \ {t} : job'[u] = job[u]
             /\ StaysUp
  <2>1. job' = [job EXCEPT ![t].pc = pc] /\ chain' = ch /\ StaysUp
    BY <1>3 DEF SetChain
  <2> QED
    BY <1>1, <1>3, <2>1, ThreadMoves
<1>4. CASE job[t].pc = "D" /\ SetChain(t, Unhook(chain), "F")
  <2>1. /\ Unhook(chain) \in Chains
        /\ Unhook(chain).made = chain.made /\ Unhook(chain).rules = chain.rules
        /\ Unhook(chain).hooks = IF chain.hooks = 0 THEN 0 ELSE chain.hooks - 1
    BY <1>1 DEF Unhook, Chains
  <2>2. "F" \in ThreadPc
    BY DEF ThreadPc
  <2> QED
    BY <1>3, <1>4, <2>1, <2>2 DEF CommandDone
<1>5. CASE job[t].pc = "F" /\ SetChain(t, [chain EXCEPT !.rules = {}], "X")
  <2> DEFINE ch == [chain EXCEPT !.rules = {}]
  <2>1. ch \in Chains /\ ch.made = chain.made /\ ch.rules = {} /\ ch.hooks = chain.hooks
    BY <1>1 DEF Chains
  <2>2. SetChain(t, ch, "X") /\ "X" \in ThreadPc
    BY <1>5 DEF ThreadPc
  <2> HIDE DEF ch
  <2> QED
    BY <1>3, <1>5, <2>1, <2>2 DEF CommandDone
<1>6. CASE job[t].pc = "X" /\ SetChain(t, IF chain.rules = {} /\ chain.hooks = 0 THEN NoChain ELSE chain,
                                       IF job[t].only THEN AfterLast(t) ELSE "N")
  <2> DEFINE ch == IF chain.rules = {} /\ chain.hooks = 0 THEN NoChain ELSE chain
             pc == IF job[t].only THEN AfterLast(t) ELSE "N"
  <2>1. ch \in Chains /\ pc \in ThreadPc
    BY <1>1, <1>2, NoChainType DEF ThreadPc
  <2>2. SetChain(t, ch, pc)
    BY <1>6
  <2> HIDE DEF ch, pc
  <2>4. chain' = ch /\ job'[t].pc = pc
    BY <1>3, <2>1, <2>2
  <2> QED
    BY <1>3, <1>6, <2>1, <2>2, <2>4 DEF CommandDone, ch, pc
<1>7. CASE job[t].pc = "N" /\ ~chain.made /\ SetChain(t, [chain EXCEPT !.made = TRUE], "A")
  <2> DEFINE ch == [chain EXCEPT !.made = TRUE]
  <2>1. ch \in Chains /\ ch.made /\ ch.rules = chain.rules /\ ch.hooks = chain.hooks
    BY <1>1 DEF Chains
  <2>2. SetChain(t, ch, "A") /\ "A" \in ThreadPc
    BY <1>7 DEF ThreadPc
  <2> HIDE DEF ch
  <2> QED
    BY <1>3, <1>7, <2>1, <2>2 DEF CommandDone
<1>8. ASSUME job[t].pc = "A", chain.made, NEW ip \in job[t].ips,
             chain' = [chain EXCEPT !.rules = @ \cup {ip}],
             job' = [job EXCEPT ![t].ips = @ \ {ip}], StaysUp
      PROVE  Goal
  <2>1. ip \in ExitIp /\ job[t].ips \in SUBSET ExitIp
    BY AgentFacts
  <2>2. /\ chain' \in Chains /\ chain'.made /\ chain'.rules = chain.rules \cup {ip}
        /\ chain'.hooks = chain.hooks
    BY <1>1, <1>8, <2>1 DEF Chains
  <2>3. /\ job' \in [Thread -> JobType] /\ job'[t].pc = "A"
        /\ job'[t].ips = job[t].ips \ {ip}
        /\ job'[t].next = job[t].next /\ job'[t].only = job[t].only
        /\ \A u \in Thread \ {t} : job'[u] = job[u]
    BY <1>1, <1>8 DEF JobType
  <2> QED
    BY <1>8, <2>2, <2>3 DEF CommandDone
<1>9. CASE job[t].pc = "A" /\ job[t].ips = {} /\ SetChain(t, chain, "H")
  <2>1. "H" \in ThreadPc
    BY DEF ThreadPc
  <2> QED
    BY <1>1, <1>3, <1>9, <2>1 DEF CommandDone
<1>10. CASE job[t].pc = "H" /\ chain.made /\ SetChain(t, [chain EXCEPT !.hooks = @ + 1], AfterLast(t))
  <2> DEFINE ch == [chain EXCEPT !.hooks = @ + 1]
  <2>1. chain.hooks <= 1
    BY <1>10 DEF AgentInductive, HooksBounded, Hooking
  <2>2. ch \in Chains /\ ch.made /\ ch.rules = chain.rules /\ ch.hooks = chain.hooks + 1
    BY <1>1, <1>10, <2>1 DEF Chains
  <2>3. SetChain(t, ch, AfterLast(t))
    BY <1>10
  <2> HIDE DEF ch
  <2> QED
    BY <1>2, <1>3, <1>10, <2>2, <2>3 DEF CommandDone
<1>11. CASE CommandFailed(t) /\ InstallFails(t)
  <2>1. CASE t = "refresh"
    <3>1. job' = [job EXCEPT ![t].pc = "holder"] /\ StaysUp /\ chain' = chain
      BY <1>11, <2>1 DEF InstallFails
    <3>2. "holder" \in ThreadPc
      BY DEF ThreadPc
    <3> QED
      BY <1>1, <1>11, <2>1, <3>1, <3>2, ThreadMoves
  <2>2. CASE t = "recheck"
    <3>1. job' = job /\ PowerOff("desync") /\ chain' = chain
      BY <1>11, <2>2 DEF InstallFails
    <3> QED
      BY <1>1, <1>11, <2>2, <3>1
  <2> QED
    BY <1>1, <2>1, <2>2
<1>12. CASE ClearCommand(t)
  BY <1>4, <1>5, <1>6, <1>12 DEF ClearCommand
<1>13. CASE InstallCommand(t)
  <2>1. CASE /\ job[t].pc = "N"
             /\ IF chain.made THEN InstallFails(t)
                ELSE SetChain(t, [chain EXCEPT !.made = TRUE], "A")
    <3>1. CASE chain.made
      BY <1>11, <2>1, <3>1 DEF CommandFailed, InstallFails
    <3>2. CASE ~chain.made
      BY <1>7, <2>1, <3>2
    <3> QED
      BY <3>1, <3>2
  <2>2. CASE /\ job[t].pc = "A" /\ job[t].ips # {}
             /\ IF ~chain.made THEN InstallFails(t) ELSE
                  \E ip \in job[t].ips :
                      /\ chain' = [chain EXCEPT !.rules = @ \cup {ip}]
                      /\ job' = [job EXCEPT ![t].ips = @ \ {ip}]
                      /\ StaysUp
                      /\ UNCHANGED holder
    <3>1. CASE chain.made
      BY <1>8, <2>2, <3>1
    <3>2. CASE ~chain.made
      BY <1>11, <2>2, <3>2 DEF CommandFailed, InstallFails
    <3> QED
      BY <3>1, <3>2
  <2>3. CASE job[t].pc = "A" /\ job[t].ips = {} /\ SetChain(t, chain, "H")
    BY <1>9, <2>3
  <2>4. CASE /\ job[t].pc = "H"
             /\ IF ~chain.made THEN InstallFails(t)
                ELSE SetChain(t, [chain EXCEPT !.hooks = @ + 1], AfterLast(t))
    <3>1. CASE chain.made
      BY <1>10, <2>4, <3>1
    <3>2. CASE ~chain.made
      BY <1>11, <2>4, <3>2 DEF CommandFailed, InstallFails
    <3> QED
      BY <3>1, <3>2
  <2> QED
    BY <1>13, <2>1, <2>2, <2>3, <2>4 DEF InstallCommand
<1> QED
  BY <1>12, <1>13 DEF Command

\* ChainAt(t) and the shape of the chain, where t stands after its command.
LEMMA CommandKeepsShape ==
    ASSUME AgentInductive, NEW t \in Thread, phase = "up", job' \in [Thread -> JobType],
           chain' \in Chains, \A u \in Thread \ {t} : job'[u] = job[u],
           CommandDone(t), UNCHANGED armed
    PROVE  HooksBounded' /\ ChainInShape'
<1>1. /\ chain \in Chains /\ chain.hooks \in 0..2 /\ chain.made \in BOOLEAN
      /\ chain.rules \in SUBSET ExitIp
      /\ ~chain.made => chain = NoChain
  BY AgentFacts DEF AgentInductive, ChainInShape
<1>2. \A u \in Thread \ {t} : Hooking(u)' <=> Hooking(u)
  BY DEF Hooking
<1>3. armed
  BY AgentFacts DEF AgentInductive, ChainInShape, CommandDone, Thread
<1>4. ~chain'.made => chain' = NoChain
  <2>1. SUFFICES ASSUME ~chain'.made PROVE chain' = NoChain
    OBVIOUS
  <2>2. CASE job[t].pc = "X"
    BY <1>1, <2>1, <2>2 DEF CommandDone
  <2>3. CASE job[t].pc \in {"D", "F"}
    <3>1. chain'.rules = {} /\ chain'.hooks = 0 /\ chain'.made = NoChain.made
      BY <1>1, <2>1, <2>3, NoChainType DEF CommandDone
    <3> QED
      BY <2>1, <3>1, NoChainType, ChainFields
  <2> QED
    BY <1>1, <2>1, <2>2, <2>3 DEF CommandDone
<1>5. HooksBounded'
  <2>1. CASE job[t].pc \in {"D", "F", "X"}
    <3>1. ~Hooking(t)' /\ chain'.hooks \in 0..2 /\ chain'.hooks <= chain.hooks
      BY <1>1, <2>1, NoChainType DEF CommandDone, Hooking, AfterLast
    <3> QED
      BY <1>1, <1>2, <2>1, <3>1 DEF HooksBounded, AgentInductive
  <2>2. CASE job[t].pc = "N"
    <3>1. chain'.hooks = 0
      BY <1>1, <2>2, NoChainType DEF CommandDone
    <3> QED
      BY <3>1 DEF HooksBounded
  <2>3. CASE job[t].pc = "A"
    <3>1. Hooking(t) /\ Hooking(t)' /\ chain'.hooks = chain.hooks
      BY <2>3 DEF CommandDone, Hooking
    <3> QED
      BY <1>1, <1>2, <3>1 DEF HooksBounded, AgentInductive
  <2>4. CASE job[t].pc = "H"
    <3>1. Hooking(t) /\ ~Hooking(t)' /\ chain'.hooks = chain.hooks + 1
      BY <2>4 DEF CommandDone, Hooking, AfterLast
    <3>2. ASSUME NEW u \in Thread, Hooking(u)' PROVE chain'.hooks <= 1
      <4>1. u # t /\ Hooking(u)
        BY <1>2, <3>1, <3>2
      <4>2. \A v \in Thread : Hooking(v)
        BY <3>1, <4>1 DEF Thread
      <4> QED
        BY <3>1, <4>2 DEF HooksBounded, AgentInductive
    <3> QED
      BY <3>1, <3>2 DEF HooksBounded
  <2> QED
    BY <2>1, <2>2, <2>3, <2>4 DEF CommandDone
<1> QED
  BY <1>3, <1>4, <1>5 DEF ChainInShape

LEMMA CommandAlone ==
    ASSUME AgentInductive, NEW t \in Thread, chain' \in Chains,
           CommandDone(t), ChainAt(t), UNCHANGED held, job'[t].only = job[t].only
    PROVE  (Amid(t)' => ChainAt(t)') /\ (~Amid(t)' => ChainAtRest')
<1>1. /\ chain \in Chains /\ chain.rules \in SUBSET ExitIp /\ held.exits \in SUBSET ExitIp
      /\ job[t].ips \in SUBSET ExitIp
  BY AgentFacts
<1>2. CASE job[t].pc = "D"
  <2>1. job'[t].pc = "F" /\ job'[t].ips = job[t].ips /\ chain'.hooks = 0
    BY <1>2, NoChainType DEF CommandDone, ChainAt
  <2> QED
    BY <1>2, <2>1 DEF ChainAt, Amid
<1>3. CASE job[t].pc = "F"
  <2>1. job'[t].pc = "X" /\ job'[t].ips = job[t].ips /\ chain'.hooks = 0 /\ chain'.rules = {}
    BY <1>3 DEF CommandDone, ChainAt
  <2> QED
    BY <1>3, <2>1 DEF ChainAt, Amid
<1>4. CASE job[t].pc = "X"
  <2>1. chain' = NoChain /\ job'[t].ips = job[t].ips
        /\ job'[t].pc = IF job[t].only THEN AfterLast(t) ELSE "N"
    BY <1>4 DEF CommandDone, ChainAt
  <2>2. CASE job[t].only
    BY <2>1, <2>2 DEF ChainAt, Amid, ChainAtRest, AfterLast
  <2>3. CASE ~job[t].only
    BY <1>4, <2>1, <2>3, NoChainType DEF ChainAt, Amid, ChainAtRest
  <2> QED
    BY <2>2, <2>3
<1>5. CASE job[t].pc = "N"
  <2>1. /\ job'[t].pc = "A" /\ job'[t].ips = held.exits /\ ~job[t].only
        /\ chain'.made /\ chain'.rules = {} /\ chain'.hooks = 0
    BY <1>5, NoChainType DEF CommandDone, ChainAt
  <2> QED
    BY <2>1 DEF ChainAt, Amid
<1>6. CASE job[t].pc = "A" /\ job'[t].pc = "A"
  <2>1. PICK ip \in job[t].ips : /\ job'[t].ips = job[t].ips \ {ip}
                                 /\ chain'.rules = chain.rules \cup {ip}
                                 /\ chain'.made /\ chain'.hooks = chain.hooks
    BY <1>6 DEF CommandDone
  <2>2. chain'.rules \cup job'[t].ips = held.exits /\ chain.hooks = 0 /\ ~job[t].only
    BY <1>6, <2>1 DEF ChainAt
  <2> QED
    BY <1>6, <2>1, <2>2 DEF ChainAt, Amid
<1>7. CASE job[t].pc = "A" /\ job'[t].pc = "H"
  <2>1. chain' = chain /\ chain.rules = held.exits /\ chain.hooks = 0 /\ chain.made
        /\ ~job[t].only
    BY <1>7 DEF CommandDone, ChainAt
  <2> QED
    BY <1>7, <2>1 DEF ChainAt, Amid
<1>8. CASE job[t].pc = "H"
  <2>1. /\ chain'.made /\ chain'.rules = held.exits /\ chain'.hooks = 1
        /\ job'[t].pc = AfterLast(t)
    BY <1>8 DEF CommandDone, ChainAt
  <2>2. chain' = FullChain(held.exits)
    <3> DEFINE full == FullChain(held.exits)
    <3>1. /\ full \in Chains /\ full.made /\ full.rules = held.exits /\ full.hooks = 1
      BY <1>1, FullChainType
    <3>2. chain'.made \in BOOLEAN /\ full.made \in BOOLEAN
      BY <3>1 DEF Chains
    <3> HIDE DEF full
    <3>3. chain' = full
      BY <2>1, <3>1, <3>2, ChainFields
    <3> QED
      BY <3>3 DEF full
  <2> QED
    BY <2>1, <2>2 DEF ChainAt, Amid, ChainAtRest, AfterLast
<1> QED
  BY <1>2, <1>3, <1>4, <1>5, <1>6, <1>7, <1>8 DEF CommandDone

LEMMA CommandStep == ASSUME AgentInductive, NEW t \in Thread, Command(t) PROVE AgentInductive'
<1> DEFINE Failed == CommandFailed(t) /\ (\/ t = "refresh" /\ job'[t].pc = "holder" /\ StaysUp
                                          \/ t = "recheck" /\ job' = job /\ PowerOff("desync"))
<1>1. /\ job' \in [Thread -> JobType] /\ chain' \in Chains
      /\ \A u \in Thread \ {t} : job'[u] = job[u]
      /\ job'[t].next = job[t].next /\ job'[t].only = job[t].only
      /\ (CommandDone(t) /\ StaysUp) \/ Failed
  BY CommandEffect
<1>2. phase = "up" /\ Meets(t) /\ holder' = holder
  BY DEF Command, ClearCommand, InstallCommand, SetChain, InstallFails
<1>3. /\ UNCHANGED <<attempts, armed, held, loaded, nat, hardened, crashes, refreshes, trouble>>
  BY DEF Command
<1>4. job[t].pc \in {"D", "F", "X", "N", "A", "H"}
  BY DEF Command, ClearCommand, InstallCommand
<1>5. /\ "refresh" \in Thread /\ "recheck" \in Thread /\ raced \in BOOLEAN
      /\ t = "refresh" \/ t = "recheck"
  BY AgentFacts
<1>6. ~raced' => ~raced /\ Alone(t) /\ ChainAt(t)
  BY <1>2, <1>4, <1>5 DEF Meets, Alone, Amid, AgentInductive, NotMet
<1>7. ~raced' => ~CommandFailed(t)
  BY <1>6, NoChainType DEF ChainAt, CommandFailed
<1>8. AgentRest'
  <2>1. phase' \in {"up", "off"} /\ (phase' = "off" => why' = "desync" /\ raced')
        /\ (phase' = "up" => why' = why)
    BY <1>1, <1>2, <1>7 DEF StaysUp, PowerOff
  <2>2. raced' \in BOOLEAN /\ (raced => raced')
    BY <1>2, <1>5 DEF Meets
  <2> QED
    BY <1>2, <1>3, <2>1, <2>2 DEF AgentRest, AgentInductive, AgentTypeOK
<1>9. ThreadsInOrder'
  <2>1. /\ job'["refresh"].pc # "verify" /\ job'["recheck"].pc # "holder"
        /\ (job'["refresh"].pc = "rest" => t = "recheck")
    BY <1>1, <1>4, <1>5 DEF CommandDone, AfterLast, AgentInductive, ThreadsInOrder
  <2>2. /\ ~job'["recheck"].only /\ job'["refresh"].next = job["refresh"].next
        /\ (job'["refresh"].pc # "rest" => job["refresh"].pc # "rest")
    BY <1>1, <1>4, <1>5 DEF AgentInductive, ThreadsInOrder
  <2>3. SetsHolder'
    BY <1>1, <1>2, <1>3, <1>5, <2>1 DEF SetsHolder, AgentInductive, ThreadsInOrder
  <2>4. phase' \in {"up", "off"}
    BY <1>1, <1>2 DEF StaysUp, PowerOff
  <2> QED
    BY <1>3, <2>1, <2>2, <2>3, <2>4 DEF ThreadsInOrder, AgentInductive
<1>10. HooksBounded' /\ ChainInShape'
  <2>1. CASE CommandDone(t)
    BY <1>1, <1>2, <1>3, <2>1, CommandKeepsShape
  <2>2. CASE Failed
    <3>1. chain' = chain /\ (Hooking(t)' => Hooking(t)) /\ armed
      BY <1>4, <1>5, <2>2 DEF CommandFailed, Hooking, AgentInductive, ChainInShape
    <3>2. \A u \in Thread : Hooking(u)' => Hooking(u)
      BY <1>1, <3>1 DEF Hooking
    <3> QED
      BY <1>3, <3>1, <3>2 DEF HooksBounded, ChainInShape, AgentInductive
  <2> QED
    BY <1>1, <2>1, <2>2
<1>11. NotMet'
  <2>1. SUFFICES ASSUME ~raced'
                 PROVE  /\ (\A u \in Thread : ~Amid(u)') => ChainAtRest'
                        /\ \A u \in Thread : Amid(u)' /\ Alone(u)' => ChainAt(u)'
    BY DEF NotMet
  <2>2. \A u \in Thread \ {t} : ~Amid(u)'
    BY <1>1, <1>6, <2>1 DEF Alone, Amid
  <2>3. (Amid(t)' => ChainAt(t)') /\ (~Amid(t)' => ChainAtRest')
    BY <1>1, <1>3, <1>6, <1>7, <2>1, CommandAlone
  <2> QED
    BY <2>2, <2>3
<1> QED
  BY <1>1, <1>8, <1>9, <1>10, <1>11, AgentSplit DEF ThreadsAndChain, AgentInductive, AgentRest, AgentTypeOK, Chains

-----------------------------------------------------------------------------
\* A step that moves neither thread nor the chain.
LEMMA ThreadsWait ==
    ASSUME AgentInductive, phase = "up", phase' \in {"up", "off"},
           UNCHANGED <<job, chain, holder, held, armed, raced>>
    PROVE  ThreadsAndChain'
BY DEF ThreadsAndChain, AgentInductive, AgentTypeOK, ThreadsInOrder, SetsHolder, HooksBounded,
       Hooking, ChainInShape, NotMet, Amid, Alone, ChainAt, ChainAtRest, Chains

LEMMA AgentStarts == AgentInit => AgentInductive
<1> SUFFICES ASSUME AgentInit PROVE AgentInductive
  OBVIOUS
<1>1. AgentRest
  <2>1. /\ 0 \in 0..MaxAttempts /\ 0 < MaxAttempts /\ 0 \in 0..MaxCrashes /\ 0 < MaxCrashes
        /\ 0 \in 0..MaxRefreshes /\ 0 \in 0..MaxTrouble
    BY AgentAssumption
  <2>2. crashes \in [Child -> 0..MaxCrashes] /\ \A c \in Child : crashes[c] < MaxCrashes
    BY <2>1 DEF AgentInit
  <2> QED
    BY <2>1, <2>2 DEF AgentInit, AgentRest
<1>2. /\ job \in [Thread -> JobType] /\ \A t \in Thread : job[t] = Resting
      /\ "refresh" \in Thread /\ "recheck" \in Thread
  BY RestingType DEF AgentInit, Thread
<1>3. chain \in Chains /\ chain = NoChain /\ phase = "boot"
  BY NoChainType DEF AgentInit
<1>4. ThreadsInOrder /\ HooksBounded /\ ChainInShape /\ NotMet
  BY <1>2, <1>3, RestingType DEF ThreadsInOrder, HooksBounded, Hooking, ChainInShape, NotMet
<1> QED
  BY <1>1, <1>2, <1>3, <1>4, AgentSplit DEF ThreadsAndChain

LEMMA TroubleType ==
    ASSUME AgentInductive, trouble < MaxTrouble, trouble' = trouble + 1
    PROVE  trouble' \in 0..MaxTrouble
BY AgentAssumption DEF AgentInductive, AgentTypeOK

LEMMA StartupStep ==
    ASSUME AgentInductive, StartFails \/ StartSucceeds
    PROVE  AgentInductive'
<1>1. /\ phase = "boot" /\ UNCHANGED <<armed, held, loaded, job, raced, hardened, crashes, why,
                                       refreshes, trouble>>
      /\ attempts < MaxAttempts
  BY DEF StartFails, StartSucceeds, AgentInductive
<1>2. /\ chain \in Chains /\ held.exits \in SUBSET ExitIp /\ job \in [Thread -> JobType]
      /\ (~chain.made => chain = NoChain) /\ (~armed => chain = NoChain)
      /\ \A t \in Thread : job[t] = Resting
  BY <1>1, AgentFacts DEF AgentInductive, ChainInShape, ThreadsInOrder
<1>3. "refresh" \in Thread /\ "recheck" \in Thread
  BY AgentFacts
<1>4. \A t \in Thread : ~Hooking(t)' /\ ~Amid(t)' /\ job'[t].pc = "rest" /\ ~job'[t].only
  BY <1>1, <1>2, RestingType DEF Hooking, Amid
<1>5. CASE StartFails
  <2>1. chain' \in Chains /\ (~chain'.made => chain' = NoChain) /\ (~armed => chain' = NoChain)
    <3>1. CASE chain' \in {chain} \cup HalfInstalled(held.exits) /\ armed
      BY <1>2, <3>1, HalfType
    <3>2. CASE UNCHANGED chain
      BY <1>2, <3>2
    <3> QED
      BY <1>5, <3>1, <3>2 DEF StartFails
  <2>2. AgentRest'
    <3>1. /\ attempts' \in 0..MaxAttempts /\ phase' \in {"boot", "failed"}
          /\ (phase' = "boot" => attempts' < MaxAttempts)
      BY <1>1, <1>5, AgentAssumption DEF AgentInductive, AgentTypeOK, StartFails
    <3>2. nat' \in BOOLEAN /\ holder' = holder
      BY <1>5 DEF AgentInductive, AgentTypeOK, StartFails, InstallNat
    <3> QED
      BY <1>1, <3>1, <3>2 DEF AgentInductive, AgentTypeOK, AgentRest
  <2>3. phase' \in {"boot", "failed"}
    BY <1>5 DEF StartFails
  <2>4. ThreadsInOrder' /\ HooksBounded' /\ ChainInShape' /\ NotMet'
    BY <1>1, <1>2, <1>3, <1>4, <2>1, <2>3
    DEF ThreadsInOrder, HooksBounded, ChainInShape, NotMet
  <2> QED
    BY <1>1, <1>2, <2>1, <2>2, <2>4, AgentSplit
    DEF ThreadsAndChain, AgentInductive, AgentRest, AgentTypeOK, Chains
<1>6. CASE StartSucceeds
  <2>1. /\ phase' = "up" /\ holder' = held.exits /\ nat' = TRUE /\ UNCHANGED attempts
        /\ chain' = IF armed THEN FullChain(held.exits) ELSE chain
    BY <1>6 DEF StartSucceeds, InstallNat
  <2>2. chain' \in Chains /\ (~chain'.made => chain' = NoChain) /\ (~armed => chain' = NoChain)
        /\ ChainAtRest'
    BY <1>1, <1>2, <2>1, FullChainType DEF ChainAtRest
  <2>3. AgentRest'
    BY <1>1, <1>2, <2>1 DEF AgentInductive, AgentTypeOK, AgentRest
  <2>4. ThreadsInOrder' /\ HooksBounded' /\ ChainInShape' /\ NotMet'
    BY <1>1, <1>3, <1>4, <2>1, <2>2
    DEF ThreadsInOrder, SetsHolder, HooksBounded, ChainInShape, NotMet
  <2> QED
    BY <1>1, <1>2, <2>2, <2>3, <2>4, AgentSplit
    DEF ThreadsAndChain, AgentInductive, AgentRest, AgentTypeOK, Chains
<1> QED
  BY <1>5, <1>6

LEMMA HolderStep == ASSUME AgentInductive, SetHolder PROVE AgentInductive'
<1> DEFINE t == "refresh"
<1>1. /\ phase = "up" /\ job[t].pc = "holder" /\ holder' = job[t].next
      /\ job' = [job EXCEPT ![t] = Resting] /\ Meets(t)
      /\ UNCHANGED <<phase, attempts, armed, held, loaded, nat, chain, hardened, crashes,
                     why, refreshes, trouble>>
  BY DEF SetHolder
<1>2. /\ job \in [Thread -> JobType] /\ "refresh" \in Thread /\ "recheck" \in Thread
      /\ raced \in BOOLEAN /\ held.exits \in SUBSET ExitIp /\ chain \in Chains
  BY AgentFacts
<1>3. /\ job' \in [Thread -> JobType] /\ job'["refresh"].pc = "rest"
      /\ job'["recheck"] = job["recheck"]
  BY <1>1, <1>2, RestingType, ThreadGets
<1>4. holder' = held.exits /\ raced' \in BOOLEAN /\ (raced => raced')
  BY <1>1, <1>2 DEF AgentInductive, ThreadsInOrder, Meets
<1>5. AgentRest'
  BY <1>1, <1>2, <1>4 DEF AgentInductive, AgentTypeOK, AgentRest
<1>6. ThreadsInOrder'
  BY <1>1, <1>3, <1>4 DEF ThreadsInOrder, SetsHolder, AgentInductive
<1>7. HooksBounded' /\ ChainInShape'
  <2>1. \A u \in Thread : Hooking(u)' => Hooking(u)
    BY <1>3 DEF Hooking, Thread
  <2> QED
    BY <1>1, <1>3, <2>1 DEF HooksBounded, ChainInShape, AgentInductive
<1>8. NotMet'
  <2>1. SUFFICES ASSUME ~raced'
                 PROVE  ChainAtRest' /\ ~Amid("refresh")' /\ ~Amid("recheck")'
    BY DEF NotMet, Thread
  <2>2. ~raced /\ ~Amid("recheck") /\ Amid("refresh")
    BY <1>1, <1>2, <2>1 DEF Meets, Amid
  <2>3. ChainAt("refresh")
    BY <1>1, <1>2, <2>2 DEF AgentInductive, NotMet, Alone, Thread
  <2> QED
    BY <1>1, <1>3, <2>2, <2>3 DEF ChainAt, ChainAtRest, Amid
<1> QED
  BY <1>1, <1>2, <1>3, <1>5, <1>6, <1>7, <1>8
  DEF AgentInductive, AgentRest, AgentTypeOK, Chains

LEMMA RewriteStep == ASSUME AgentInductive, NEW d \in Payload, Rewrite(d) PROVE AgentInductive'
<1> DEFINE j == [pc   |-> IF Touches THEN "D" ELSE "holder",
                 ips  |-> IF d.desync THEN NewExits(d) ELSE {},
                 next |-> d.exits,
                 only |-> ~d.desync]
<1>1. /\ phase = "up" /\ job["refresh"].pc = "rest" /\ refreshes < MaxRefreshes
      /\ refreshes' = refreshes + 1 /\ held' = d /\ job' = [job EXCEPT !["refresh"] = j]
      /\ UNCHANGED <<phase, attempts, armed, loaded, holder, nat, chain, raced, hardened,
                     crashes, why, trouble>>
  BY DEF Rewrite
<1>2. /\ job \in [Thread -> JobType] /\ "refresh" \in Thread /\ "recheck" \in Thread
      /\ raced \in BOOLEAN /\ armed \in BOOLEAN /\ chain \in Chains
      /\ held.exits \in SUBSET ExitIp
  BY AgentFacts
<1>3. d.exits \in SUBSET ExitIp /\ d.desync \in BOOLEAN
  BY PayloadType
<1>4. /\ j \in JobType /\ j.pc = (IF armed THEN "D" ELSE "holder") /\ j.next = d.exits
      /\ j.only = ~d.desync /\ j.ips = (IF d.desync THEN d.exits ELSE {})
  BY <1>2, <1>3 DEF JobType, Touches, NewExits
<1> HIDE DEF j
<1>5. job' \in [Thread -> JobType] /\ job'["refresh"] = j /\ job'["recheck"] = job["recheck"]
  BY <1>1, <1>2, <1>4, ThreadGets
<1>6. AgentRest'
  BY <1>1, AgentAssumption DEF AgentInductive, AgentTypeOK, AgentRest
<1>7. ThreadsInOrder'
  BY <1>1, <1>4, <1>5 DEF ThreadsInOrder, SetsHolder, AgentInductive
<1>8. HooksBounded' /\ ChainInShape'
  <2>1. \A u \in Thread : Hooking(u)' => Hooking(u)
    BY <1>4, <1>5 DEF Hooking, Thread
  <2> QED
    BY <1>1, <1>4, <1>5, <2>1 DEF HooksBounded, ChainInShape, AgentInductive
<1>9. NotMet'
  <2>1. SUFFICES ASSUME ~raced
                 PROVE  Amid("refresh")' /\ (~Amid("recheck")' => ChainAt("refresh")')
    BY <1>1 DEF NotMet, Thread, Alone
  <2>2. Amid("refresh")' /\ ~Amid("refresh")
    BY <1>1, <1>4, <1>5 DEF Amid
  <2>3. ASSUME ~Amid("recheck") PROVE ChainAt("refresh")'
    <3>1. ChainAtRest
      BY <1>1, <2>1, <2>2, <2>3 DEF AgentInductive, NotMet, Thread
    <3>2. chain = NoChain \/ chain.hooks = 1
      BY <1>2, <3>1, FullChainType DEF ChainAtRest
    <3>3. ~armed => chain = NoChain
      BY DEF AgentInductive, ChainInShape
    <3> QED
      BY <1>1, <1>4, <1>5, <3>2, <3>3 DEF ChainAt, ChainAtRest
  <2> QED
    BY <1>5, <2>2, <2>3 DEF Amid
<1> QED
  BY <1>1, <1>2, <1>5, <1>6, <1>7, <1>8, <1>9
  DEF AgentInductive, AgentRest, AgentTypeOK, Chains

LEMMA RecheckNatStep == ASSUME AgentInductive, RecheckNat PROVE AgentInductive'
<1>1. /\ phase = "up" /\ job["recheck"].pc = "rest"
      /\ UNCHANGED <<attempts, armed, held, loaded, holder, chain, raced, hardened,
                     crashes, refreshes>>
  BY DEF RecheckNat
<1>2. /\ job \in [Thread -> JobType] /\ "refresh" \in Thread /\ "recheck" \in Thread
      /\ chain \in Chains
  BY AgentFacts
<1>3. CASE /\ nat' \in BOOLEAN /\ StaysUp /\ UNCHANGED trouble
           /\ job' = [job EXCEPT !["recheck"].pc = IF armed THEN "verify" ELSE "rest"]
  <2> DEFINE pc == IF armed THEN "verify" ELSE "rest"
  <2>1. pc \in ThreadPc /\ pc \in {"verify", "rest"} /\ (~armed => pc = "rest")
    BY DEF ThreadPc
  <2>2. job' = [job EXCEPT !["recheck"].pc = pc]
    BY <1>3
  <2> HIDE DEF pc
  <2>3. /\ job' \in [Thread -> JobType] /\ job'["recheck"].pc = pc
        /\ job'["recheck"].only = job["recheck"].only
        /\ job'["recheck"].ips = job["recheck"].ips /\ job'["refresh"] = job["refresh"]
    BY <1>2, <2>1, <2>2, ThreadMoves
  <2>4. AgentRest'
    BY <1>1, <1>3 DEF StaysUp, AgentInductive, AgentTypeOK, AgentRest
  <2>5. ThreadsInOrder'
    BY <1>1, <1>3, <2>1, <2>3 DEF StaysUp, ThreadsInOrder, SetsHolder, AgentInductive
  <2>6. \A u \in Thread : Hooking(u)' => Hooking(u)
    BY <2>1, <2>3 DEF Hooking, Thread
  <2>7. HooksBounded' /\ ChainInShape'
    BY <1>1, <2>1, <2>3, <2>6 DEF HooksBounded, ChainInShape, AgentInductive
  <2>8. ~Amid("recheck") /\ ~Amid("recheck")' /\ (Amid("refresh")' <=> Amid("refresh"))
        /\ (ChainAtRest <=> ChainAtRest')
        /\ (ChainAt("refresh") <=> ChainAt("refresh")')
    BY <1>1, <2>1, <2>3 DEF Amid, ChainAtRest, ChainAt
  <2>9. NotMet'
    BY <1>1, <1>2, <1>3, <2>8 DEF StaysUp, NotMet, AgentInductive, Thread, Alone
  <2> QED
    BY <1>1, <1>2, <2>3, <2>4, <2>5, <2>7, <2>9
    DEF AgentInductive, AgentRest, AgentTypeOK, Chains
<1>4. CASE /\ trouble < MaxTrouble /\ trouble' = trouble + 1 /\ nat' = FALSE
           /\ PowerOff("iptables") /\ UNCHANGED job
  <2>1. AgentRest'
    BY <1>1, <1>4, TroubleType DEF PowerOff, AgentInductive, AgentTypeOK, AgentRest
  <2>2. ThreadsAndChain'
    BY <1>1, <1>4, ThreadsWait DEF PowerOff
  <2> QED
    BY <2>1, <2>2 DEF ThreadsAndChain, AgentInductive, AgentRest, AgentTypeOK, Chains
<1> QED
  BY <1>3, <1>4 DEF RecheckNat, InstallNat, AgentInductive, AgentTypeOK

LEMMA RecheckDesyncStep == ASSUME AgentInductive, RecheckDesync PROVE AgentInductive'
<1> DEFINE j == IF Verifies THEN Resting
                ELSE [pc |-> "D", ips |-> holder, next |-> {}, only |-> FALSE]
<1>1. /\ phase = "up" /\ job["recheck"].pc = "verify" /\ job' = [job EXCEPT !["recheck"] = j]
      /\ UNCHANGED <<phase, attempts, armed, held, loaded, holder, nat, chain, raced,
                     hardened, crashes, why, refreshes, trouble>>
  BY DEF RecheckDesync
<1>2. /\ job \in [Thread -> JobType] /\ "refresh" \in Thread /\ "recheck" \in Thread
      /\ holder \in SUBSET ExitIp /\ chain \in Chains /\ held.exits \in SUBSET ExitIp
  BY AgentFacts
<1>3. /\ j \in JobType /\ ~j.only /\ j.pc \in {"rest", "D"} /\ (j.pc = "D" => j.ips = holder)
  <2>1. [pc |-> "D", ips |-> holder, next |-> {}, only |-> FALSE] \in JobType
    BY <1>2 DEF JobType
  <2> QED
    BY <2>1, RestingType
<1> HIDE DEF j
<1>4. job' \in [Thread -> JobType] /\ job'["recheck"] = j /\ job'["refresh"] = job["refresh"]
  BY <1>1, <1>2, <1>3, ThreadGets
<1>5. AgentRest'
  BY <1>1 DEF AgentInductive, AgentTypeOK, AgentRest
<1>6. ThreadsInOrder'
  BY <1>1, <1>3, <1>4 DEF ThreadsInOrder, SetsHolder, AgentInductive
<1>7. HooksBounded' /\ ChainInShape'
  <2>1. \A u \in Thread : Hooking(u)' => Hooking(u)
    BY <1>3, <1>4 DEF Hooking, Thread
  <2>2. armed
    BY <1>1 DEF AgentInductive, ChainInShape
  <2> QED
    BY <1>1, <2>1, <2>2 DEF HooksBounded, ChainInShape, AgentInductive
<1>8. NotMet'
  <2>1. SUFFICES ASSUME ~raced
                 PROVE  /\ ~Amid("refresh")' /\ ~Amid("recheck")' => ChainAtRest'
                        /\ Amid("refresh")' /\ ~Amid("recheck")' => ChainAt("refresh")'
                        /\ Amid("recheck")' /\ ~Amid("refresh")' => ChainAt("recheck")'
    BY <1>1 DEF NotMet, Thread, Alone
  <2>2. ~Amid("recheck") /\ (Amid("refresh")' <=> Amid("refresh"))
        /\ (ChainAtRest <=> ChainAtRest')
        /\ (ChainAt("refresh") <=> ChainAt("refresh")')
    BY <1>1, <1>4 DEF Amid, ChainAtRest, ChainAt
  <2>3. ~Amid("refresh") => ChainAtRest
    BY <1>1, <2>1, <2>2 DEF NotMet, AgentInductive, Thread
  <2>4. Amid("refresh") => ChainAt("refresh")
    BY <1>1, <1>2, <2>1, <2>2 DEF NotMet, AgentInductive, Thread, Alone
  <2>5. ASSUME Amid("recheck")', ~Amid("refresh") PROVE ChainAt("recheck")'
    <3>1. job'["recheck"].pc = "D" /\ job'["recheck"].ips = holder
      BY <1>3, <1>4, <2>5 DEF Amid
    <3>2. holder = held.exits
      BY <1>1, <2>5 DEF Amid, AgentInductive, ThreadsInOrder, SetsHolder
    <3>3. chain = NoChain \/ chain.hooks = 1
      BY <1>2, <2>3, <2>5, FullChainType DEF ChainAtRest
    <3> QED
      BY <1>1, <3>1, <3>2, <3>3 DEF ChainAt
  <2> QED
    BY <2>2, <2>3, <2>4, <2>5
<1> QED
  BY <1>1, <1>2, <1>4, <1>5, <1>6, <1>7, <1>8
  DEF AgentInductive, AgentRest, AgentTypeOK, Chains

LEMMA TroubleStep ==
    ASSUME AgentInductive,
           RecheckHardening \/ RulesLost \/ HardeningRegresses
             \/ \E c \in Child : ChildDies(c) \/ WindowPasses(c)
    PROVE  AgentInductive'
<1>1. ASSUME AgentRest', ThreadsAndChain' PROVE AgentInductive'
  BY <1>1 DEF ThreadsAndChain, AgentInductive, AgentRest, AgentTypeOK, Chains
<1>2. CASE RecheckHardening
  <2>1. AgentRest'
    BY <1>2 DEF RecheckHardening, PowerOff, AgentInductive, AgentTypeOK, AgentRest
  <2>2. ThreadsAndChain'
    BY <1>2, ThreadsWait DEF RecheckHardening, PowerOff
  <2> QED
    BY <1>1, <2>1, <2>2
<1>3. CASE HardeningRegresses
  <2>1. AgentRest'
    <3>1. trouble' \in 0..MaxTrouble
      BY <1>3, TroubleType DEF HardeningRegresses
    <3> QED
      BY <1>3, <3>1 DEF HardeningRegresses, AgentInductive, AgentTypeOK, AgentRest
  <2>2. ThreadsAndChain'
    BY <1>3, ThreadsWait DEF HardeningRegresses
  <2> QED
    BY <1>1, <2>1, <2>2
<1>4. ASSUME NEW c \in Child, ChildDies(c) PROVE AgentInductive'
  <2>1. /\ phase = "up" /\ crashes \in [Child -> 0..MaxCrashes]
        /\ \A k \in Child : crashes[k] < MaxCrashes
    BY <1>4 DEF ChildDies, AgentInductive, AgentTypeOK
  <2>2. /\ crashes' \in [Child -> 0..MaxCrashes] /\ crashes'[c] = crashes[c] + 1
        /\ \A k \in Child \ {c} : crashes'[k] = crashes[k]
    BY <1>4, <2>1, AgentAssumption DEF ChildDies
  <2>3. phase' = "up" \/ phase' = "off"
    BY <1>4, <2>1 DEF ChildDies, StaysUp, PowerOff
  <2>4. phase' = "up" => \A k \in Child : crashes'[k] < MaxCrashes
    BY <1>4, <2>1, <2>2, AgentAssumption DEF ChildDies, PowerOff, TooMany
  <2>5. AgentRest'
    <3>1. trouble' \in 0..MaxTrouble
      BY <1>4, TroubleType DEF ChildDies
    <3>2. loaded' \in Payload
      BY <1>4 DEF ChildDies, AgentInductive, AgentTypeOK
    <3>3. why' \in {why, "supervisor"}
      BY <1>4 DEF ChildDies, PowerOff, StaysUp
    <3> QED
      BY <1>4, <2>2, <2>3, <2>4, <3>1, <3>2, <3>3 DEF ChildDies, AgentInductive, AgentTypeOK, AgentRest
  <2>6. ThreadsAndChain'
    BY <1>4, <2>1, <2>3, ThreadsWait DEF ChildDies
  <2> QED
    BY <1>1, <2>5, <2>6
<1>5. ASSUME NEW c \in Child, WindowPasses(c) PROVE AgentInductive'
  <2>1. /\ phase = "up" /\ crashes \in [Child -> 0..MaxCrashes]
        /\ \A k \in Child : crashes[k] < MaxCrashes
    BY <1>5 DEF WindowPasses, AgentInductive, AgentTypeOK
  <2>2. PICK n \in 0..crashes[c] : crashes' = [crashes EXCEPT ![c] = n]
    BY <1>5 DEF WindowPasses
  <2>3. /\ crashes' \in [Child -> 0..MaxCrashes] /\ \A k \in Child : crashes'[k] < MaxCrashes
    BY <2>1, <2>2, AgentAssumption
  <2>4. AgentRest'
    BY <1>5, <2>3 DEF WindowPasses, AgentInductive, AgentTypeOK, AgentRest
  <2>5. ThreadsAndChain'
    BY <1>5, ThreadsWait DEF WindowPasses
  <2> QED
    BY <1>1, <2>4, <2>5
<1>6. CASE RulesLost
  <2>1. /\ phase = "up" /\ trouble < MaxTrouble /\ trouble' = trouble + 1
        /\ UNCHANGED <<phase, attempts, armed, held, loaded, holder, job, hardened, crashes,
                       why, refreshes>>
    BY <1>6 DEF RulesLost
  <2>2. CASE nat' = FALSE /\ UNCHANGED <<chain, raced>>
    <3>1. AgentRest'
      BY <2>1, <2>2, TroubleType DEF AgentInductive, AgentTypeOK, AgentRest
    <3> QED
      BY <1>1, <2>1, <2>2, <3>1, ThreadsWait
  <2>3. CASE chain' = NoChain /\ raced' = (raced \/ \E t \in Thread : Amid(t)) /\ UNCHANGED nat
    <3>1. raced' \in BOOLEAN /\ (raced => raced') /\ job \in [Thread -> JobType]
      BY <2>3, AgentFacts
    <3>2. AgentRest'
      BY <2>1, <2>3, <3>1, TroubleType DEF AgentInductive, AgentTypeOK, AgentRest
    <3>3. ThreadsInOrder'
      BY <2>1 DEF ThreadsInOrder, SetsHolder, AgentInductive
    <3>4. HooksBounded' /\ ChainInShape'
      BY <2>1, <2>3, NoChainType DEF HooksBounded, ChainInShape, AgentInductive
    <3>5. NotMet'
      <4>1. \A t \in Thread : Amid(t)' <=> Amid(t)
        BY <2>1 DEF Amid
      <4> QED
        BY <2>3, <4>1 DEF NotMet, ChainAtRest
    <3> QED
      BY <1>1, <2>1, <2>3, <3>1, <3>2, <3>3, <3>4, <3>5, NoChainType DEF ThreadsAndChain
  <2> QED
    BY <1>6, <2>2, <2>3 DEF RulesLost
<1> QED
  BY <1>2, <1>3, <1>4, <1>5, <1>6

LEMMA AgentStep == AgentInductive /\ [AgentNext]_agentvars => AgentInductive'
<1> SUFFICES ASSUME AgentInductive, [AgentNext]_agentvars PROVE AgentInductive'
  OBVIOUS
<1>1. CASE RefreshThread
  BY <1>1, AgentFacts, CommandStep, HolderStep DEF RefreshThread
<1>2. CASE RecheckThread
  BY <1>2, AgentFacts, CommandStep, RecheckNatStep, RecheckDesyncStep, TroubleStep
  DEF RecheckThread
<1>3. CASE \E d \in Payload : Rewrite(d)
  BY <1>3, RewriteStep
<1>4. CASE StartFails \/ StartSucceeds
  BY <1>4, StartupStep
<1>5. CASE \/ \E c \in Child : ChildDies(c) \/ WindowPasses(c)
           \/ RulesLost \/ HardeningRegresses
  BY <1>5, TroubleStep
<1>6. CASE UNCHANGED agentvars
  BY <1>6 DEF agentvars, AgentInductive, AgentTypeOK, ThreadsInOrder, SetsHolder, HooksBounded,
              Hooking, ChainInShape, NotMet, Amid, Alone, ChainAt, ChainAtRest
<1> QED
  BY <1>1, <1>2, <1>3, <1>4, <1>5, <1>6 DEF AgentNext

(* A thread that met no one amid its commands finds the chain as its last command left it, and
   the holder of exits is what the descriptor says whenever the refresh thread is at rest. *)
THEOREM AgentAlways == AgentSpec => []AgentInductive
<1> QED
  BY AgentStarts, AgentStep, PTL DEF AgentSpec

(* At rest, after any number of refreshes, rechecks, lost rules and failed startups in which the
   threads never met, the chain is away or has one rule for each exit of the descriptor and one
   jump; without nfqws there is no chain; and a reinstall powers the box off only after a race. *)
THEOREM AgentRulesAreCurrent == AgentSpec => []RulesAreCurrent
<1>1. AgentInductive => RulesAreCurrent
  <2> SUFFICES ASSUME AgentInductive PROVE RulesAreCurrent
    OBVIOUS
  <2>1. armed \/ ~chain.made
    BY NoChainType, AgentFacts DEF AgentInductive, ChainInShape
  <2>2. ASSUME phase = "up", ~raced, \A t \in Thread : job[t].pc \in {"rest", "verify"}
        PROVE  chain = NoChain \/ chain = FullChain(held.exits)
    BY <2>2 DEF AgentInductive, NotMet, Amid, ChainAtRest
  <2> QED
    BY <2>1, <2>2 DEF AgentInductive, RulesAreCurrent
<1> QED
  BY <1>1, AgentAlways, PTL
=============================================================================
