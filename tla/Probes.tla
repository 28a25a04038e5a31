------------------------------- MODULE Probes -------------------------------
(***************************************************************************)
(* The probe harness: vantages, the runner that probes every live box from *)
(* every active vantage, the append-only results, the audit sweep with its *)
(* verdicts, and the commands of the operator.  The threads of the daemon  *)
(* read, work, and write later; a writer that waits longer than            *)
(* busy_timeout finds the database locked and raises.                      *)
(***************************************************************************)
EXTENDS Integers, Sequences, FiniteSets, SequencesExt

CONSTANTS
    Vantage, Box,
    WindowM,      \* probe.soft_fail_window_M, in rows
    ThresholdN,   \* probe.soft_fail_threshold_N
    MinVantages,  \* probe.min_distinct_vantages, 0 for the fleet's half
    Faults,       \* bound: the sets of checks that a box may come to fail
    MaxMoves      \* bound: operators' commands, boxes going bad and well again

ASSUME ProbesAssumption ==
    /\ WindowM \in Nat \ {0} /\ ThresholdN \in 1..WindowM
    /\ MinVantages \in Nat /\ MaxMoves \in Nat /\ Faults \subseteq SUBSET (1..3)

VARIABLES
    vantage,     \* probe_vantages.state
    reach,       \* vantages whose SSH answers
    live,        \* boxes that are live; the others are terminated
    bad,         \* the checks that a box fails, seen from anywhere
    profile,     \* boxes whose image has a profile
    window,      \* probe_results of a box, the newest WindowM rows, oldest first
    fresh,       \* boxes with a row within the coverage window
    kill, blocked, coverage, unreachable,   \* the sweep's and the runner's rows
    pending,     \* the runner's tick: the next check of a pair, and its time
    audit,       \* the audit sweep: where it is, the boxes it has left
    moves

verdicts == <<kill, blocked, coverage>>
runner == <<pending, unreachable>>
auditor == <<audit, verdicts>>
world == <<reach, live, bad, profile>>
results == <<window, fresh>>
probevars == <<vantage, world, results, runner, auditor, moves>>

VantageState == {"candidate", "active", "retired", "burned"}
Row == [by : Vantage, status : {"pass", "soft_fail", "hard_fail"}]

(* tls_fall_through, cover_domain_consistency, surface_scan, in this order.   *)
Check == 1..3
(* newer stands for the cycle_at of a pair, taken when its probes begin: the  *)
(* rows of its box with a later one, which its own rows go before.            *)
Asked(next, newer) == [next |-> next, newer |-> newer]
Resting == Asked(0, 0)

ProbesTypeOK ==
    /\ vantage \in [Vantage -> VantageState] /\ reach \subseteq Vantage
    /\ live \subseteq Box /\ bad \in [Box -> SUBSET Check] /\ profile \subseteq Box
    /\ window \in [Box -> UNION {[1..k -> Row] : k \in 0..WindowM}]
    /\ fresh \subseteq Box /\ kill \subseteq Box /\ blocked \subseteq Box /\ coverage \subseteq Box
    /\ unreachable \subseteq Vantage
    /\ pending \in [Box \X Vantage -> [next : {0} \cup Check, newer : 0..WindowM]]
    /\ \A b \in Box, v \in Vantage : pending[b, v].newer <= Len(window[b])
    /\ audit \in [at : {"idle", "boxes"}, todo : SUBSET Box]
    /\ moves \in 0..MaxMoves

ActiveVantages == {v \in Vantage : vantage[v] = "active"}
\* a move of an operator, a box or a network
Operator == moves < MaxMoves /\ moves' = moves + 1

-----------------------------------------------------------------------------
(* vantage-attest-active, vantage-retire, vantage-burn; the boxes.           *)

VantageMoves(v, from, to) ==
    /\ vantage[v] \in from /\ vantage' = [vantage EXCEPT ![v] = to]
    /\ Operator

AttestActive(v) ==
    /\ VantageMoves(v, {"candidate"}, "active")
    /\ UNCHANGED <<world, results, runner, auditor>>

VantageRetire(v) ==
    /\ VantageMoves(v, {"candidate", "active"}, "retired")
    /\ UNCHANGED <<world, results, runner, auditor>>

VantageBurn(v) ==
    /\ VantageMoves(v, VantageState \ {"burned"}, "burned")
    /\ UNCHANGED <<world, results, runner, auditor>>

BoxTerminated(b) ==
    /\ b \in live /\ live' = live \ {b} /\ Operator
    /\ UNCHANGED <<vantage, reach, bad, profile, results, runner, auditor>>

ProfilePinned(b) ==
    /\ b \notin profile /\ profile' = profile \cup {b} /\ Operator
    /\ UNCHANGED <<vantage, reach, live, bad, results, runner, auditor>>

BoxGoesBad(b) ==
    /\ \E checks \in Faults : bad' = [bad EXCEPT ![b] = checks]
    /\ bad' # bad /\ Operator
    /\ UNCHANGED <<vantage, reach, live, profile, results, runner, auditor>>

\* it was the cover, or the way to the box
BoxGetsWell(b) ==
    /\ bad[b] # {} /\ bad' = [bad EXCEPT ![b] = {}] /\ Operator
    /\ UNCHANGED <<vantage, reach, live, profile, results, runner, auditor>>

VantageGoes(v) ==
    /\ v \in reach /\ reach' = reach \ {v} /\ Operator
    /\ UNCHANGED <<vantage, live, bad, profile, results, runner, auditor>>

VantageComes(v) ==
    /\ v \notin reach /\ reach' = reach \cup {v}
    /\ UNCHANGED <<vantage, live, bad, profile, results, runner, auditor, moves>>

-----------------------------------------------------------------------------
(* probe_results.                                                            *)

Records(v) == vantage[v] = "active"

\* the evaluator sees the newest WindowM rows, by cycle_at and then by id
FiledBefore(b, late, row) ==
    LET all == InsertAt(window[b], Len(window[b]) + 1 - late, row) IN
    SubSeq(all, IF Len(all) > WindowM THEN 2 ELSE 1, Len(all))

\* a row filed before `late` others is newer than the pairs that began before it; of those
\* that stand at the same place some began before it, and some later or in the same second
Overtaken(b, late, mine) ==
    LET older  == {p \in DOMAIN pending \ mine : p[1] = b /\ pending[p].next # 0 /\ pending[p].newer > late}
        beside == {p \in DOMAIN pending \ mine : p[1] = b /\ pending[p].next # 0 /\ pending[p].newer = late} IN
    {older \cup some : some \in SUBSET beside}

File(b, late, v, status) ==
    /\ window' = [window EXCEPT ![b] = FiledBefore(b, late, [by |-> v, status |-> status])]
    /\ fresh' = fresh \cup {b}

Overtake(pairs) ==
    [p \in DOMAIN pending |->
        IF p \in pairs /\ pending[p].newer < WindowM THEN [pending[p] EXCEPT !.newer = @ + 1] ELSE pending[p]]

\* probe-record by hand, with any --cycle-at: a pass that somebody saw
ProbeRecord(b, v) ==
    /\ Records(v)
    /\ \E late \in 0..Len(window[b]) :
        /\ File(b, late, v, "pass")
        /\ \E pairs \in Overtaken(b, late, {}) : pending' = Overtake(pairs)
    /\ Operator
    /\ UNCHANGED <<vantage, world, unreachable, auditor>>

RowsAge(b) ==
    /\ b \in fresh /\ fresh' = fresh \ {b}
    /\ UNCHANGED <<vantage, world, window, runner, auditor, moves>>

\* compact-logs, monthly-compact: the oldest rows go, of a box that is no longer fresh all may
Compact(b) ==
    /\ \E n \in 1..Len(window[b]) :
        /\ n = Len(window[b]) => b \notin fresh
        /\ window' = [window EXCEPT ![b] = SubSeq(@, n + 1, Len(@))]
        /\ pending' = [p \in DOMAIN pending |->
               IF p[1] = b /\ pending[p].newer > Len(window[b]) - n
               THEN [pending[p] EXCEPT !.newer = Len(window[b]) - n] ELSE pending[p]]
    /\ Operator
    /\ UNCHANGED <<vantage, world, fresh, unreachable, auditor>>

-----------------------------------------------------------------------------
(* ProbeRunnerWheel.tick: one list of pairs, one preflight per vantage, then *)
(* the checks of every pair in turn, each with a probe-record process.       *)

Pairs == live \X ActiveVantages

\* the pairs of a vantage that does not answer are dropped, and the vantage flagged; a
\* locked database ends the tick with an exception before it has done anything
Tick ==
    /\ \A p \in DOMAIN pending : pending[p] = Resting
    /\ Pairs # {}
    /\ pending' = [p \in DOMAIN pending |->
           IF p \in Pairs /\ p[2] \in reach THEN Asked(1, 0) ELSE Resting]
    /\ unreachable' = (unreachable \ ActiveVantages) \cup (ActiveVantages \ reach)
    /\ UNCHANGED <<vantage, world, results, auditor, moves>>

\* the probers: soft for the vantage's failures, hard for the box's
Outcome(b, v, check) ==
    IF v \notin reach THEN "soft_fail" ELSE IF check \in bad[b] THEN "hard_fail" ELSE "pass"

\* a pair after its check
Onward(p) == IF p.next = 3 THEN Resting ELSE Asked(p.next + 1, p.newer)

Probe(b, v) ==
    LET p == pending[b, v] IN
    /\ p.next # 0 /\ Records(v)
    /\ File(b, p.newer, v, Outcome(b, v, p.next))
    /\ \E pairs \in Overtaken(b, p.newer, {<<b, v>>}) :
        pending' = [Overtake(pairs) EXCEPT ![b, v] = Onward(p)]
    /\ UNCHANGED <<vantage, world, unreachable, auditor, moves>>

\* probe-record refuses the vantage, or finds the database locked by the observer, which
\* keeps a transaction open while it dials: check=False drops the row
ProbeLost(b, v) ==
    /\ pending[b, v].next # 0
    /\ pending' = [pending EXCEPT ![b, v] = Onward(@)]
    /\ UNCHANGED <<vantage, world, results, unreachable, auditor, moves>>

-----------------------------------------------------------------------------
(* evaluate_box.                                                             *)

EffectiveMin ==
    LET active == Cardinality(ActiveVantages)
        Larger(i, j) == IF i > j THEN i ELSE j IN
    IF MinVantages = 0 THEN Larger(1, active \div 2)
    ELSE Larger(1, IF MinVantages < Larger(1, active) THEN MinVantages ELSE Larger(1, active))

RowsWith(b, status) == {i \in DOMAIN window[b] : window[b][i].status = status}
Witnesses(b, status) == {window[b][i].by : i \in RowsWith(b, status)}

SoftKill(b) == /\ Cardinality(RowsWith(b, "soft_fail")) >= ThresholdN
               /\ Cardinality(Witnesses(b, "soft_fail")) >= EffectiveMin
\* a hard fail that only counts when two vantages agree on it
KillsIfCorroborated(b) == Cardinality(Witnesses(b, "hard_fail")) > 1 \/ SoftKill(b)
Kills(b) == RowsWith(b, "hard_fail") # {} \/ SoftKill(b)

(* ProbeAuditWheel.run_once.                                                 *)

AuditBegin ==
    /\ audit.at = "idle"
    /\ audit' = [at |-> "boxes", todo |-> live]
    /\ UNCHANGED <<vantage, world, results, runner, verdicts, moves>>

KeepsFlag(b) == kill
Cleared(b) == kill \ {b}

\* without a profile there is no verdict, and the old one stands
AuditBox(b) ==
    /\ audit.at = "boxes" /\ b \in audit.todo
    /\ audit' = [audit EXCEPT !.todo = @ \ {b}]
    /\ IF b \notin profile THEN blocked' = blocked \cup {b} /\ UNCHANGED kill
       ELSE IF Kills(b) THEN kill' = kill \cup {b} /\ UNCHANGED blocked
       ELSE kill' = Cleared(b) /\ blocked' = blocked \ {b}
    /\ coverage' = IF b \in fresh THEN coverage \ {b} ELSE coverage \cup {b}
    /\ UNCHANGED <<vantage, world, results, runner, moves>>

KeepsAll == kill
StillLive == kill \cap live

AuditEnd ==
    /\ audit.at = "boxes" /\ audit.todo = {}
    /\ kill' = StillLive /\ audit' = [at |-> "idle", todo |-> {}]
    /\ UNCHANGED <<vantage, world, results, runner, blocked, coverage, moves>>

\* a locked database, or a kill
AuditFails ==
    /\ audit.at = "boxes"
    /\ audit' = [at |-> "idle", todo |-> {}]
    /\ UNCHANGED <<vantage, world, results, runner, verdicts, moves>>

\* serve stops and starts: what was under way is gone
ServeRestarts ==
    /\ pending' = [p \in DOMAIN pending |-> Resting]
    /\ audit' = [at |-> "idle", todo |-> {}]
    /\ moves < MaxMoves /\ moves' = moves + 1
    /\ UNCHANGED <<vantage, world, results, unreachable, verdicts>>

-----------------------------------------------------------------------------
ProbesInit ==
    /\ \E last \in {"candidate", "active"} :
        vantage = [v \in Vantage |-> IF v = CHOOSE w \in Vantage : TRUE THEN last ELSE "active"]
    /\ reach = Vantage
    /\ live = Box /\ bad \in [Box -> {{}, Check}] /\ profile \in SUBSET Box
    /\ window = [b \in Box |-> <<>>] /\ fresh = {}
    /\ kill = {} /\ blocked = {} /\ coverage = {} /\ unreachable = {}
    /\ pending = [p \in Box \X Vantage |-> Resting]
    /\ audit = [at |-> "idle", todo |-> {}]
    /\ moves = 0

Operators == \/ \E v \in Vantage : AttestActive(v) \/ VantageRetire(v) \/ VantageBurn(v)
             \/ \E b \in Box : BoxTerminated(b) \/ ProfilePinned(b) \/ Compact(b)
             \/ \E b \in Box, v \in Vantage : ProbeRecord(b, v)
Runner  == Tick \/ (\E b \in Box, v \in Vantage : Probe(b, v) \/ ProbeLost(b, v))
Auditor == AuditBegin \/ (\E b \in Box : AuditBox(b)) \/ AuditEnd \/ AuditFails
Others  == \/ ServeRestarts
           \/ (\E v \in Vantage : VantageGoes(v) \/ VantageComes(v))
           \/ (\E b \in Box : RowsAge(b) \/ BoxGoesBad(b) \/ BoxGetsWell(b))

ProbesNext == Operators \/ Runner \/ Auditor \/ Others

ProbesSpec == ProbesInit /\ [][ProbesNext]_probevars
\* every schedule runs again and again, and every writer finds the lock free again and again
ProbesFairness ==
    /\ WF_probevars(Tick) /\ WF_probevars(AuditBegin) /\ SF_probevars(AuditEnd)
    /\ \A b \in Box : SF_probevars(AuditBox(b))
    /\ \A b \in Box : /\ WF_probevars(\E v \in Vantage : Probe(b, v) \/ ProbeLost(b, v))
                      /\ SF_probevars(\E v \in Vantage : Probe(b, v))
ProbesFairSpec == ProbesSpec /\ ProbesFairness

-----------------------------------------------------------------------------
Probed(b) == b \in live \cap profile /\ reach = Vantage /\ ActiveVantages # {}

\* A box that fails every check from everywhere is flagged in the end and stays flagged, in
\* spite of rows lost to the lock, rows filed behind newer ones, ticks and sweeps that raise,
\* and restarts.  One that fails some checks only may be missed: the rows of the others fill
\* a window of WindowM rows (evaluate_box, run_once).
HardFailIsFlagged ==
    \A b \in Box : <>[](Probed(b) /\ bad[b] = Check) => <>[](b \in kill)

\* A box in which no vantage finds anything wrong any more loses its flag in the end for good:
\* hard fails that are over, soft fails of a vantage that was away, late rows and a verdict
\* read before they left the window do not keep it on the kill list (evaluate_box, run_once).
FalseAlarmClears ==
    \A b \in Box : <>[](Probed(b) /\ bad[b] = {}) => <>[](b \notin kill)

\* A terminated box drops out of the kill list for good, and one that is not probed any more
\* is flagged for coverage, profile or not (run_once).
SweepIsRight ==
    \A b \in Box :
        /\ <>[](b \notin live) => <>[](b \notin kill)
        /\ <>[](b \in live /\ b \notin fresh) => <>[](b \in coverage)
=============================================================================
