-------------------------- MODULE CoverFleetProofs --------------------------
(* Theorems about CoverFleet for every set of domains, boxes and operators. *)
EXTENDS CoverFleet, TLAPS

\* The tables and what each command and sweep has read keep their types.
THEOREM TypeCorrect == Spec => []TypeOK
<1> USE FleetAssumption
<1>1. Init => TypeOK
  <2> SUFFICES ASSUME Init PROVE TypeOK
    OBVIOUS
  <2>1. /\ op \in [Shell -> [pc : OpPc, box : Box \cup {NoBox}, dom : Domain \cup {NoDomain}]]
        /\ \A s \in Shell : op[s] = Idle /\ op[s].pc = "idle"
    BY DEF Init, Idle, Operation, OpPc
  <2>2. \A b \in Box : ~Standing(b)
    BY DEF Init, Standing
  <2>3. /\ pool \in [Domain -> PoolState]
        /\ assigned \in [Domain -> Box \cup {NoBox}]
        /\ boxState \in [Box -> BoxState]
        /\ sni \in [Box -> Domain \cup {NoDomain}]
        /\ cred \in [Box -> CredState]
    BY DEF Init, PoolState, BoxState, CredState
  <2>4. crashes \in 0..MaxCrashes
    BY SMT DEF Init
  <2>5. /\ stale \subseteq Domain /\ overdue \subseteq Domain
        /\ burned \subseteq Domain /\ wentLive \subseteq Box
        /\ rotPending \subseteq Domain /\ drift \subseteq Domain
        /\ ttlTodo \subseteq Domain /\ rotTodo \subseteq Domain
        /\ arVerified \subseteq Domain /\ arInUse \subseteq Domain
        /\ arFailed \subseteq Domain /\ arTodo \subseteq Domain
        /\ arBurned \subseteq Domain
        /\ rotPc \in {"idle", "due", "flag"}
        /\ arPc \in ArPc
    BY DEF Init, ArPc
  <2>6. frozen \in BOOLEAN
    BY Zenon DEF Init
  <2>7. QED
    BY <2>1, <2>2, <2>3, <2>4, <2>5, <2>6, Zenon DEF TypeOK
<1>2. TypeOK /\ [Next]_vars => TypeOK'
  <2> SUFFICES ASSUME TypeOK, [Next]_vars PROVE TypeOK'
    OBVIOUS
  <2> USE DEF TypeOK, Standing, PoolState, BoxState, CredState, ArPc, Seen, dbvars, poolvars, boxvars, obvars, sweepvars, rotvars, arvars
  <2>1. ASSUME NEW s \in Shell, NEW d \in Domain, CoverAdd(s, d) PROVE TypeOK'
    BY <2>1 DEF CoverAdd
  <2>2. ASSUME NEW s \in Shell, NEW d \in Domain, AttestVerified(s, d) PROVE TypeOK'
    BY <2>2 DEF AttestVerified
  <2>3. ASSUME NEW s \in Shell, NEW d \in Domain, ProvisionPick(s, d) PROVE TypeOK'
    BY <2>3 DEF ProvisionPick, Step, Operation, Idle, OpPc
  <2>4. ASSUME NEW s \in Shell, NEW d \in Domain, RotateRead(s, d) PROVE TypeOK'
    BY <2>4 DEF RotateRead, Step, Operation, Idle, OpPc
  <2>5. ASSUME NEW s \in Shell, NEW b \in Box, ProvisionCommit(s, b) PROVE TypeOK'
    BY <2>5 DEF ProvisionCommit, SniFree, StillVerified, Step, Finish, Operation, Idle, OpPc
  <2>6. ASSUME NEW s \in Shell, NEW b \in Box, MarkLive(s, b) PROVE TypeOK'
    BY <2>6 DEF MarkLive
  <2>7. ASSUME NEW s \in Shell, NEW b \in Box, ReclaimRead(s, b) PROVE TypeOK'
    BY <2>7 DEF ReclaimRead, Reclaimable, Step, Operation, Idle, OpPc
  <2>8. ASSUME NEW s \in Shell, NEW b \in Box, TerminateRead(s, b) PROVE TypeOK'
    BY <2>8 DEF TerminateRead, Standing, Step, Operation, Idle, OpPc
  <2>9. ASSUME NEW s \in Shell, ProvisionAbort(s) PROVE TypeOK'
    BY <2>9 DEF ProvisionAbort, Step, Finish, Operation, Idle, OpPc
  <2>10. ASSUME NEW s \in Shell, ReclaimCommit(s) PROVE TypeOK'
    BY <2>10 DEF ReclaimCommit, Step, Finish, Operation, Idle, OpPc, RevokeActive, Returns
  <2>11. ASSUME NEW s \in Shell, TerminateListCreds(s) PROVE TypeOK'
    BY <2>11 DEF TerminateListCreds, OpPc, Idle, Operation
  <2>12. ASSUME NEW s \in Shell, TerminateRevoke(s) PROVE TypeOK'
    BY <2>12 DEF TerminateRevoke, Step, Finish, OpPc, Idle, Operation
  <2>13. ASSUME NEW s \in Shell, TerminateBurn(s) PROVE TypeOK'
    <3>1. op[s].box \in Box /\ op[s].dom \in Domain /\ op[s].pc = "burn"
      BY <2>13 DEF TerminateBurn
    <3>2. UNCHANGED <<boxvars, obvars, sweepvars, crashes>>
      BY <2>13 DEF TerminateBurn
    <3>3. CASE CanBurn(op[s].dom)
      <4>1. /\ pool' = [pool EXCEPT ![op[s].dom] = "absent"]
            /\ assigned' = [assigned EXCEPT ![op[s].dom] = NoBox]
            /\ stale' = stale \ {op[s].dom} /\ overdue' = overdue \ {op[s].dom}
            /\ burned' = burned \cup {op[s].dom}
            /\ op' = [op EXCEPT ![s].pc = "mark"]
        BY <2>13, <3>3 DEF TerminateBurn, MarkBurned
      <4>2. /\ pool' \in [Domain -> PoolState] /\ assigned' \in [Domain -> Box \cup {NoBox}]
            /\ stale' \subseteq Domain /\ overdue' \subseteq Domain /\ burned' \subseteq Domain
        BY <3>1, <4>1
      <4>3. /\ op' \in [Shell -> [pc : OpPc, box : Box \cup {NoBox}, dom : Domain \cup {NoDomain}]]
            /\ op'[s].pc = "mark" /\ op'[s].box = op[s].box /\ op'[s].dom = op[s].dom
            /\ \A t \in Shell \ {s} : op'[t] = op[t]
        BY <4>1 DEF OpPc
      <4>4. QED
        BY <3>1, <3>2, <4>2, <4>3
    <3>4. CASE ~CanBurn(op[s].dom)
      BY <2>13, <3>2, <3>4 DEF TerminateBurn, Step, Finish, OpPc, Idle, Operation
    <3>5. QED
      BY <3>3, <3>4
  <2>14. ASSUME NEW s \in Shell, TerminateMark(s) PROVE TypeOK'
    BY <2>14 DEF TerminateMark, Step, Finish, OpPc, Idle, Operation
  <2>15. ASSUME NEW s \in Shell, RotateBurn(s) PROVE TypeOK'
    BY <2>15 DEF RotateBurn, MarkBurned, CanBurn, Step, Finish, OpPc, Idle, Operation
  <2>16. ASSUME NEW s \in Shell, RotateClear(s) PROVE TypeOK'
    BY <2>16 DEF RotateClear, Step, Finish, OpPc, Idle, Operation
  <2>17. ASSUME NEW d \in Domain, VerificationAges(d) PROVE TypeOK'
    BY <2>17 DEF VerificationAges
  <2>18. ASSUME NEW d \in Domain, RotationFallsDue(d) PROVE TypeOK'
    BY <2>18 DEF RotationFallsDue
  <2>19. ASSUME NEW d \in Domain, TtlDowngrade(d) PROVE TypeOK'
    BY <2>19 DEF TtlDowngrade, Downgrades
  <2>20. ASSUME NEW d \in Domain, RotationFlag(d) PROVE TypeOK'
    BY <2>20 DEF RotationFlag
  <2>21. ASSUME NEW d \in Domain, ArBurn(d) PROVE TypeOK'
    BY <2>21 DEF ArBurn, CanBurn, MarkBurned
  <2>22. ASSUME NEW d \in Domain, ArClear(d) PROVE TypeOK'
    BY <2>22 DEF ArClear
  <2>23. ASSUME NEW d \in Domain, ArSkip(d) PROVE TypeOK'
    BY <2>23 DEF ArSkip
  <2>24. ASSUME NEW d \in Domain, ArRaise(d) PROVE TypeOK'
    BY <2>24 DEF ArRaise
  <2>25. ASSUME TtlSelect PROVE TypeOK'
    BY <2>25 DEF TtlSelect, PastTtl, InPool
  <2>26. ASSUME RotationHealth PROVE TypeOK'
    BY <2>26 DEF RotationHealth, Tight
  <2>27. ASSUME RotationDue PROVE TypeOK'
    BY <2>27 DEF RotationDue, InPool
  <2>28. ASSUME RotationDone PROVE TypeOK'
    BY <2>28 DEF RotationDone
  <2>29. ASSUME ArReadVerified PROVE TypeOK'
    BY <2>29 DEF ArReadVerified, InPool
  <2>30. ASSUME ArReadInUse PROVE TypeOK'
    BY <2>30 DEF ArReadInUse, InPool
  <2>31. ASSUME ArBurnsDone PROVE TypeOK'
    BY <2>31 DEF ArBurnsDone
  <2>32. ASSUME ArFinish PROVE TypeOK'
    BY <2>32 DEF ArFinish
  <2>33. ASSUME DaemonRestarts PROVE TypeOK'
    BY <2>33 DEF DaemonRestarts
  <2>34. ASSUME NEW failed \in SUBSET Domain, ArProbe(failed) PROVE TypeOK'
    BY <2>34 DEF ArProbe
  <2>35. ASSUME NEW s \in Shell, ShellDies(s) PROVE TypeOK'
    BY <2>35 DEF ShellDies, Step, Finish, Idle, Operation, OpPc
  <2>36. CASE UNCHANGED vars
    BY <2>36 DEF vars
  <2>37. QED
    BY <2>1, <2>2, <2>3, <2>4, <2>5, <2>6, <2>7, <2>8, <2>9, <2>10, <2>11, <2>12, <2>13, <2>14, <2>15, <2>16, <2>17, <2>18, <2>19, <2>20, <2>21, <2>22, <2>23, <2>24, <2>25, <2>26, <2>27, <2>28, <2>29, <2>30, <2>31, <2>32, <2>33, <2>34, <2>35, <2>36
       DEF Next, OperatorStep, TimeStep, ReverifySweep, RotationSweep, AutoReverifySweep, Crash
<1>3. QED
  BY <1>1, <1>2, PTL DEF Spec

-----------------------------------------------------------------------------
\* The variables the safety invariants speak of, and the steps that leave them.
Core == <<pool, assigned, burned, boxState, sni, wentLive, cred, op>>

LEMMA QuietSteps ==
  ASSUME TimeStep \/ RotationSweep \/ DaemonRestarts \/ UNCHANGED vars
         \/ TtlSelect \/ ArReadVerified \/ ArReadInUse \/ ArBurnsDone \/ ArFinish
         \/ (\E failed \in SUBSET Domain : ArProbe(failed))
         \/ (\E d \in Domain : ArClear(d) \/ ArSkip(d) \/ ArRaise(d))
  PROVE  UNCHANGED Core
<1> USE DEF Core, dbvars, poolvars, boxvars, obvars, sweepvars, rotvars, arvars
<1>1. CASE TimeStep
  BY <1>1 DEF TimeStep, VerificationAges, RotationFallsDue
<1>2. CASE RotationSweep
  BY <1>2 DEF RotationSweep, RotationHealth, RotationDue, RotationDone, RotationFlag
<1>3. CASE DaemonRestarts \/ UNCHANGED vars \/ TtlSelect
  BY <1>3 DEF DaemonRestarts, vars, TtlSelect
<1>4. CASE ArReadVerified \/ ArReadInUse \/ ArBurnsDone \/ ArFinish
  BY <1>4 DEF ArReadVerified, ArReadInUse, ArBurnsDone, ArFinish
<1>5. CASE \E failed \in SUBSET Domain : ArProbe(failed)
  BY <1>5 DEF ArProbe
<1>6. CASE \E d \in Domain : ArClear(d) \/ ArSkip(d) \/ ArRaise(d)
  BY <1>6 DEF ArClear, ArSkip, ArRaise
<1>7. QED
  BY <1>1, <1>2, <1>3, <1>4, <1>5, <1>6

\* A step of the system is quiet or one of the steps that write the tables.
LEMMA StepCases ==
  ASSUME [Next]_vars
  PROVE  \/ UNCHANGED Core
         \/ \E s \in Shell : OperatorStep(s) \/ ShellDies(s)
         \/ \E d \in Domain : TtlDowngrade(d) \/ ArBurn(d)
  BY QuietSteps DEF Next, ReverifySweep, AutoReverifySweep, Crash

\* No command, sweep or crash breaks FleetInductive, whatever the others do.
LEMMA FleetStep ==
  ASSUME TypeOK, FleetInductive, [Next]_vars
  PROVE  FleetInductive'
<1> USE FleetAssumption DEF TypeOK, FleetInductive, HolderStands, NoCredentialAfterTermination,
       Holding, Standing, PoolState, BoxState, CredState, OpPc,
       poolvars, boxvars, obvars, dbvars
<1>1. CASE UNCHANGED Core
  BY <1>1 DEF Core, HolderStands, NoCredentialAfterTermination, BoxHoldsDomain
<1>2. ASSUME NEW s \in Shell, NEW d \in Domain, CoverAdd(s, d) PROVE FleetInductive'
  BY <1>2 DEF CoverAdd
<1>3. ASSUME NEW s \in Shell, NEW d \in Domain, AttestVerified(s, d) PROVE FleetInductive'
  BY <1>3 DEF AttestVerified
<1>4. ASSUME NEW s \in Shell, NEW d \in Domain, ProvisionPick(s, d) PROVE FleetInductive'
  BY <1>4 DEF ProvisionPick, Step, Operation
<1>5. ASSUME NEW s \in Shell, NEW d \in Domain, RotateRead(s, d) PROVE FleetInductive'
  BY <1>5 DEF RotateRead, Step, Operation
<1>6. ASSUME NEW s \in Shell, NEW b \in Box, ProvisionCommit(s, b) PROVE FleetInductive'
  BY <1>6 DEF ProvisionCommit, SniFree, StillVerified, Step, Finish, Idle, Operation
<1>7. ASSUME NEW s \in Shell, NEW b \in Box, MarkLive(s, b) PROVE FleetInductive'
  BY <1>7 DEF MarkLive
<1>8. ASSUME NEW s \in Shell, NEW b \in Box, ReclaimRead(s, b) PROVE FleetInductive'
  BY <1>8 DEF ReclaimRead, Reclaimable, Step, Operation
<1>9. ASSUME NEW s \in Shell, NEW b \in Box, TerminateRead(s, b) PROVE FleetInductive'
  BY <1>9 DEF TerminateRead, Step, Operation
<1>10. ASSUME NEW s \in Shell, ProvisionAbort(s) \/ ShellDies(s) PROVE FleetInductive'
  BY <1>10 DEF ProvisionAbort, ShellDies, Step, Finish, Idle, Operation
<1>11. ASSUME NEW s \in Shell, ReclaimCommit(s) PROVE FleetInductive'
  BY <1>11 DEF ReclaimCommit, Returns, RevokeActive, Step, Finish, Idle, Operation
<1>12. ASSUME NEW s \in Shell, TerminateListCreds(s) PROVE FleetInductive'
  BY <1>12 DEF TerminateListCreds
<1>13. ASSUME NEW s \in Shell, TerminateRevoke(s) PROVE FleetInductive'
  BY <1>13 DEF TerminateRevoke, Step, Finish, Idle, Operation
<1>14. ASSUME NEW s \in Shell, TerminateBurn(s) PROVE FleetInductive'
  <2>1. CASE CanBurn(op[s].dom)
    BY <1>14, <2>1 DEF TerminateBurn, CanBurn, MarkBurned
  <2>2. CASE ~CanBurn(op[s].dom)
    BY <1>14, <2>2 DEF TerminateBurn, Step, Finish, Idle, Operation
  <2>3. QED
    BY <2>1, <2>2
<1>15. ASSUME NEW s \in Shell, TerminateMark(s) PROVE FleetInductive'
  BY <1>15 DEF TerminateMark, Step, Finish, Idle, Operation
<1>16. ASSUME NEW s \in Shell, RotateBurn(s) PROVE FleetInductive'
  <2>1. CASE CanBurn(op[s].dom)
    BY <1>16, <2>1 DEF RotateBurn, CanBurn, MarkBurned
  <2>2. CASE ~CanBurn(op[s].dom)
    BY <1>16, <2>2 DEF RotateBurn, Step, Finish, Idle, Operation
  <2>3. QED
    BY <2>1, <2>2
<1>17. ASSUME NEW s \in Shell, RotateClear(s) PROVE FleetInductive'
  BY <1>17 DEF RotateClear, Step, Finish, Idle, Operation
<1>18. ASSUME NEW d \in Domain, TtlDowngrade(d) PROVE FleetInductive'
  BY <1>18 DEF TtlDowngrade, Downgrades
<1>19. ASSUME NEW d \in Domain, ArBurn(d) PROVE FleetInductive'
  BY <1>19 DEF ArBurn, CanBurn, MarkBurned
<1>20. QED
  BY StepCases, <1>1, <1>2, <1>3, <1>4, <1>5, <1>6, <1>7, <1>8, <1>9, <1>10, <1>11, <1>12, <1>13, <1>14, <1>15, <1>16, <1>17, <1>18, <1>19
     DEF OperatorStep


\* Every in_use domain has its standing box and no terminated box an active
\* credential, for every number of operators, sweeps and crashes.
THEOREM FleetSafe == Spec => []FleetInductive
<1>1. Init => FleetInductive
  BY DEF Init, FleetInductive, HolderStands, NoCredentialAfterTermination, Holding, Idle, Operation
<1>2. TypeOK /\ FleetInductive /\ [Next]_vars => FleetInductive'
  BY FleetStep
<1>3. QED
  BY <1>1, <1>2, TypeCorrect, PTL DEF Spec

\* Startup check 19 holds in every state.
THEOREM HolderStandsAlways == Spec => []HolderStands
<1>1. FleetInductive => HolderStands
  BY DEF FleetInductive
<1>2. QED
  BY <1>1, FleetSafe, PTL

\* No two standing boxes come to serve the same domain: only provisioning gives a box
\* its name, and not one a standing box has.
LEMMA SniStep ==
  ASSUME TypeOK, Check28, [Next]_vars
  PROVE  Check28'
<1> USE FleetAssumption DEF TypeOK, Check28, Standing, BoxState, Core,
       poolvars, boxvars, obvars, dbvars
<1>1. CASE UNCHANGED <<boxState, sni>>
  BY <1>1
<1>2. ASSUME NEW s \in Shell, NEW b \in Box, ProvisionCommit(s, b) PROVE Check28'
  <2>1. \A c \in Box \ {b} : Standing(c)' => Standing(c) /\ sni'[c] = sni[c] /\ sni[c] # sni'[b]
    BY <1>2 DEF ProvisionCommit, SniFree
  <2>2. QED
    BY <2>1
<1>3. ASSUME NEW s \in Shell, NEW b \in Box, MarkLive(s, b) PROVE Check28'
  BY <1>3 DEF MarkLive
<1>4. ASSUME NEW s \in Shell, ReclaimCommit(s) \/ TerminateMark(s) PROVE Check28'
  BY <1>4 DEF ReclaimCommit, TerminateMark
<1>5. ASSUME NEW s \in Shell, OperatorStep(s),
             \A b \in Box : ~ProvisionCommit(s, b) /\ ~MarkLive(s, b),
             ~ReclaimCommit(s), ~TerminateMark(s)
      PROVE  UNCHANGED <<boxState, sni>>
  BY <1>5 DEF OperatorStep, CoverAdd, AttestVerified, ProvisionPick, ProvisionAbort,
              RotateRead, RotateBurn, RotateClear, ReclaimRead, TerminateRead,
              TerminateListCreds, TerminateRevoke, TerminateBurn
<1>6. ASSUME NEW s \in Shell, ShellDies(s) PROVE UNCHANGED <<boxState, sni>>
  BY <1>6 DEF ShellDies
<1>7. ASSUME NEW d \in Domain, TtlDowngrade(d) \/ ArBurn(d) PROVE UNCHANGED <<boxState, sni>>
  BY <1>7 DEF TtlDowngrade, ArBurn
<1>8. QED
  BY StepCases, <1>1, <1>2, <1>3, <1>4, <1>5, <1>6, <1>7

\* The startup checks on pool and boxes pass in every state, for every number of
\* operators, sweeps and crashes.
THEOREM FleetChecksAlways == Spec => []FleetChecksPass
<1>1. Init => Check28
  BY DEF Init, Check28, Standing
<1>2. TypeOK /\ Check28 /\ [Next]_vars => Check28'
  BY SniStep
<1>3. FleetInductive => Check6 /\ Check19
  BY DEF FleetInductive, HolderStands, Check6, Check19, Standing
<1>4. QED
  BY <1>1, <1>2, <1>3, TypeCorrect, FleetSafe, PTL DEF Spec, FleetChecksPass

\* A terminated box never has an active onward credential.
THEOREM CredentialRevoked == Spec => []NoCredentialAfterTermination
<1>1. FleetInductive => NoCredentialAfterTermination
  BY DEF FleetInductive
<1>2. QED
  BY <1>1, FleetSafe, PTL

\* No single step of the system takes a domain out of burned or hands one on.
LEMMA BurnStep ==
  ASSUME TypeOK, FleetInductive, FleetInductive', TypeOK', [Next]_vars, NEW d \in burned
  PROVE  /\ d \in burned' /\ pool'[d] = "absent"
         /\ \A b \in Box : sni'[b] = d => sni[b] = d
<1> d \in Domain /\ pool[d] = "absent"
  BY DEF TypeOK, FleetInductive
<1>1. d \in burned'
  <2> USE DEF poolvars, boxvars, obvars, dbvars
  <2>1. CASE UNCHANGED Core
    BY <2>1 DEF Core
  <2>2. ASSUME NEW s \in Shell, OperatorStep(s) \/ ShellDies(s) PROVE d \in burned'
    BY <2>2
       DEF OperatorStep, CoverAdd, AttestVerified, ProvisionPick, RotateRead, MarkLive,
           ReclaimRead, TerminateRead, ProvisionCommit, ProvisionAbort, ReclaimCommit,
           TerminateListCreds, TerminateRevoke, TerminateBurn, TerminateMark, RotateBurn,
           RotateClear, ShellDies, MarkBurned
  <2>3. ASSUME NEW e \in Domain, TtlDowngrade(e) \/ ArBurn(e) PROVE d \in burned'
    BY <2>3 DEF TtlDowngrade, ArBurn, MarkBurned
  <2>4. QED
    BY StepCases, <2>1, <2>2, <2>3
<1>2. pool'[d] = "absent"
  BY <1>1 DEF FleetInductive, TypeOK
<1>3. ASSUME NEW b \in Box, sni'[b] = d PROVE sni[b] = d
  <2>1. CASE sni' = sni
    BY <1>3, <2>1
  <2>2. ASSUME NEW s \in Shell, NEW c \in Box, ProvisionCommit(s, c) PROVE sni[b] = d
    BY <1>3, <2>2, FleetAssumption DEF ProvisionCommit, StillVerified, TypeOK
  <2>3. QED
    <3> USE DEF poolvars, boxvars, obvars, dbvars
    <3>1. CASE UNCHANGED Core
      BY <2>1, <3>1 DEF Core
    <3>2. ASSUME NEW s \in Shell, OperatorStep(s) \/ ShellDies(s) PROVE sni[b] = d
      BY <2>1, <2>2, <3>2
         DEF OperatorStep, CoverAdd, AttestVerified, ProvisionPick, RotateRead, MarkLive,
             ReclaimRead, TerminateRead, ProvisionAbort, ReclaimCommit, TerminateListCreds,
             TerminateRevoke, TerminateBurn, TerminateMark, RotateBurn, RotateClear, ShellDies
    <3>3. ASSUME NEW e \in Domain, TtlDowngrade(e) \/ ArBurn(e) PROVE sni[b] = d
      BY <2>1, <3>3 DEF TtlDowngrade, ArBurn
    <3>4. QED
      BY <3>1, <3>2, <3>3, StepCases
<1>4. QED
  BY <1>1, <1>2, <1>3

\* A burned domain never comes back, to the pool or to a box.
THEOREM BurningIsFinal == Spec => BurnedIsFinal
<1>1. TypeOK /\ TypeOK' /\ FleetInductive /\ FleetInductive' /\ [Next]_vars
        => [\A d \in burned :
               /\ d \in burned' /\ pool'[d] = "absent"
               /\ \A b \in Box : sni'[b] = d => sni[b] = d]_vars
  BY BurnStep
<1>2. QED
  BY <1>1, TypeCorrect, FleetSafe, PTL DEF Spec, BurnedIsFinal

-----------------------------------------------------------------------------
\* One operator at a time: no two commands overlap.
SingleOperator == \A s, t \in Shell : s = t

\* Under one operator the command's knowledge of its box stays true until it acts.
LEMMA OneOperatorStep ==
  ASSUME SingleOperator, TypeOK, FleetInductive, OneOperatorInductive, [Next]_vars
  PROVE  OneOperatorInductive'
<1> USE FleetAssumption DEF SingleOperator, TypeOK, FleetInductive, OneOperatorInductive, HolderStands,
       BoxHoldsDomain, Holding, Standing, PoolState, BoxState, OpPc,
       poolvars, boxvars, obvars, dbvars
<1>1. CASE UNCHANGED Core
  BY <1>1 DEF Core, HolderStands, NoCredentialAfterTermination, BoxHoldsDomain
<1>2. ASSUME NEW s \in Shell, NEW d \in Domain, CoverAdd(s, d) PROVE OneOperatorInductive'
  BY <1>2 DEF CoverAdd
<1>3. ASSUME NEW s \in Shell, NEW d \in Domain, AttestVerified(s, d) PROVE OneOperatorInductive'
  BY <1>3 DEF AttestVerified
<1>4. ASSUME NEW s \in Shell, NEW d \in Domain, ProvisionPick(s, d) PROVE OneOperatorInductive'
  BY <1>4 DEF ProvisionPick, Step, Operation
<1>5. ASSUME NEW s \in Shell, NEW d \in Domain, RotateRead(s, d) PROVE OneOperatorInductive'
  BY <1>5 DEF RotateRead, Step, Operation
<1>6. ASSUME NEW s \in Shell, NEW b \in Box, ProvisionCommit(s, b) PROVE OneOperatorInductive'
  BY <1>6 DEF ProvisionCommit, SniFree, StillVerified, Step, Finish, Idle, Operation
<1>7. ASSUME NEW s \in Shell, NEW b \in Box, MarkLive(s, b) PROVE OneOperatorInductive'
  BY <1>7 DEF MarkLive, Idle, Operation
<1>8. ASSUME NEW s \in Shell, NEW b \in Box, ReclaimRead(s, b) PROVE OneOperatorInductive'
  BY <1>8 DEF ReclaimRead, Reclaimable, Step, Operation
<1>9. ASSUME NEW s \in Shell, NEW b \in Box, TerminateRead(s, b) PROVE OneOperatorInductive'
  BY <1>9 DEF TerminateRead, Step, Operation
<1>10. ASSUME NEW s \in Shell, ProvisionAbort(s) \/ ShellDies(s) PROVE OneOperatorInductive'
  BY <1>10 DEF ProvisionAbort, ShellDies, Step, Finish, Idle, Operation
<1>11. ASSUME NEW s \in Shell, ReclaimCommit(s) PROVE OneOperatorInductive'
  BY <1>11 DEF ReclaimCommit, Returns, RevokeActive, Step, Finish, Idle, Operation
<1>12. ASSUME NEW s \in Shell, TerminateListCreds(s) PROVE OneOperatorInductive'
  BY <1>12 DEF TerminateListCreds
<1>13. ASSUME NEW s \in Shell, TerminateRevoke(s) PROVE OneOperatorInductive'
  BY <1>13 DEF TerminateRevoke, Step, Finish, Idle, Operation
<1>14. ASSUME NEW s \in Shell, TerminateBurn(s) PROVE OneOperatorInductive'
  <2>1. CASE CanBurn(op[s].dom)
    BY <1>14, <2>1 DEF TerminateBurn, CanBurn, MarkBurned
  <2>2. CASE ~CanBurn(op[s].dom)
    BY <1>14, <2>2 DEF TerminateBurn, Step, Finish, Idle, Operation
  <2>3. QED
    BY <2>1, <2>2
<1>15. ASSUME NEW s \in Shell, TerminateMark(s) PROVE OneOperatorInductive'
  BY <1>15 DEF TerminateMark, Step, Finish, Idle, Operation
<1>16. ASSUME NEW s \in Shell, RotateBurn(s) PROVE OneOperatorInductive'
  <2>1. CASE CanBurn(op[s].dom)
    BY <1>16, <2>1 DEF RotateBurn, CanBurn, MarkBurned
  <2>2. CASE ~CanBurn(op[s].dom)
    BY <1>16, <2>2 DEF RotateBurn, Step, Finish, Idle, Operation
  <2>3. QED
    BY <2>1, <2>2
<1>17. ASSUME NEW s \in Shell, RotateClear(s) PROVE OneOperatorInductive'
  BY <1>17 DEF RotateClear, Step, Finish, Idle, Operation
<1>18. ASSUME NEW d \in Domain, TtlDowngrade(d) PROVE OneOperatorInductive'
  BY <1>18 DEF TtlDowngrade, Downgrades
<1>19. ASSUME NEW d \in Domain, ArBurn(d) PROVE OneOperatorInductive'
  BY <1>19 DEF ArBurn, CanBurn, MarkBurned
<1>20. QED
  BY StepCases, <1>1, <1>2, <1>3, <1>4, <1>5, <1>6, <1>7, <1>8, <1>9, <1>10, <1>11, <1>12, <1>13, <1>14, <1>15, <1>16, <1>17, <1>18, <1>19
     DEF OperatorStep


\* The strengthening holds in every state when operators do not overlap.
THEOREM OneOperatorSafe ==
  ASSUME SingleOperator
  PROVE  Spec => []OneOperatorInductive
<1>1. Init => OneOperatorInductive
  BY DEF Init, OneOperatorInductive, BoxHoldsDomain, Standing, Holding, Idle, Operation
<1>2. TypeOK /\ FleetInductive /\ OneOperatorInductive /\ [Next]_vars
        => OneOperatorInductive'
  BY OneOperatorStep
<1>3. QED
  BY <1>1, <1>2, TypeCorrect, FleetSafe, PTL DEF Spec

\* The strengthened invariants give the property about exposed domains.
LEMMA ExposedKept ==
  ASSUME TypeOK, FleetInductive, OneOperatorInductive
  PROVE  NeverReuseExposed
  BY FleetAssumption
     DEF TypeOK, FleetInductive, OneOperatorInductive, BoxHoldsDomain, NeverReuseExposed, Standing

\* A domain a live box has shown stays with that box until it is burned, as long
\* as operators do not overlap.
THEOREM ExposedNeverReused ==
  ASSUME SingleOperator
  PROVE  Spec => []NeverReuseExposed
<1>1. TypeOK /\ FleetInductive /\ OneOperatorInductive => NeverReuseExposed
  BY ExposedKept
<1>2. Spec => []OneOperatorInductive
  BY OneOperatorSafe
<1>3. QED
  BY <1>1, <1>2, TypeCorrect, FleetSafe, PTL

-----------------------------------------------------------------------------
\* CoverFleet implements CoverLifecycle under one operator.
LifeStatus == [d \in Domain |-> Status(d)]

\* Every step of one operator's system is a step of CoverLifecycle or none.
LEMMA LifecycleStep ==
  ASSUME SingleOperator, TypeOK, FleetInductive, OneOperatorInductive, [Next]_vars,
         NeverReuseExposed
  PROVE  [Life!LifeNext]_<<LifeStatus, Exposed>>
<1> USE FleetAssumption DEF LifeStatus, Status, poolvars, boxvars, obvars, dbvars
<1>0. ASSUME NEW d \in Domain, NEW from, NEW to, Status(d) \in from,
             LifeStatus' = [LifeStatus EXCEPT ![d] = to], UNCHANGED <<sni, wentLive>>
      PROVE  Life!Move(d, from, to)
  <2>1. Exposed' = Exposed
    BY <1>0 DEF Exposed
  <2>2. QED
    BY <1>0, <2>1 DEF Life!Move
<1>1. CASE UNCHANGED Core
  BY <1>1 DEF Core, Exposed
<1>2. ASSUME NEW s \in Shell, NEW d \in Domain, CoverAdd(s, d)
      PROVE  Life!Add(d)
  <2>1. LifeStatus' = [LifeStatus EXCEPT ![d] = "candidate_unverified"]
    BY <1>2 DEF CoverAdd, TypeOK
  <2>2. Status(d) = "absent" /\ UNCHANGED <<sni, wentLive>>
    BY <1>2 DEF CoverAdd
  <2>3. QED
    BY <1>0, <2>1, <2>2 DEF Life!Add
<1>3. ASSUME NEW s \in Shell, NEW d \in Domain, AttestVerified(s, d)
      PROVE  Life!Verify(d)
  <2>1. LifeStatus' = [LifeStatus EXCEPT ![d] = "candidate_verified"]
    BY <1>3 DEF AttestVerified, TypeOK, FleetInductive
  <2>2. Status(d) = "candidate_unverified" /\ UNCHANGED <<sni, wentLive>>
    BY <1>3 DEF AttestVerified, FleetInductive
  <2>3. QED
    BY <1>0, <2>1, <2>2 DEF Life!Verify
<1>4. ASSUME NEW d \in Domain, TtlDowngrade(d)
      PROVE  Life!Withdraw(d) \/ UNCHANGED <<LifeStatus, Exposed>>
  <2>1. CASE Downgrades(d)
    <3>1. LifeStatus' = [LifeStatus EXCEPT ![d] = "candidate_unverified"]
      BY <1>4, <2>1 DEF TtlDowngrade, Downgrades, TypeOK, FleetInductive
    <3>2. Status(d) = "candidate_verified" /\ UNCHANGED <<sni, wentLive>>
      BY <1>4, <2>1 DEF TtlDowngrade, Downgrades, FleetInductive
    <3>3. QED
      BY <1>0, <3>1, <3>2 DEF Life!Withdraw
  <2>2. CASE ~Downgrades(d)
    BY <1>4, <2>2 DEF TtlDowngrade, Exposed, TypeOK
  <2>3. QED
    BY <2>1, <2>2
<1>5. ASSUME NEW s \in Shell, NEW b \in Box, ProvisionCommit(s, b),
             NEW d \in Domain, d = op[s].dom
      PROVE  Life!Assign(d)
  <2>1. d \in Domain /\ pool[d] = "candidate_verified" /\ d \notin burned /\ b \notin wentLive
    BY <1>5 DEF ProvisionCommit, StillVerified, TypeOK, FleetInductive, OneOperatorInductive
  <2>2. \A c \in wentLive : sni[c] # d
    BY <2>1 DEF NeverReuseExposed
  <2>3. \A c \in wentLive : sni'[c] = sni[c]
    BY <1>5, <2>1, <2>2 DEF ProvisionCommit, TypeOK
  <2>4. Exposed' = Exposed /\ d \notin Exposed
    <3>1. wentLive' = wentLive
      BY <1>5 DEF ProvisionCommit
    <3>2. Exposed' = Exposed
      BY <2>3, <3>1 DEF Exposed
    <3>3. QED
      BY <2>2, <3>2 DEF Exposed
  <2>5. LifeStatus' = [LifeStatus EXCEPT ![d] = "in_use"]
    BY <1>5, <2>1 DEF ProvisionCommit, TypeOK
  <2>6. QED
    BY <2>1, <2>4, <2>5 DEF Life!Assign, Life!Move
<1>6. ASSUME NEW s \in Shell, NEW b \in Box, MarkLive(s, b),
             NEW d \in Domain, d = sni[b]
      PROVE  Life!Expose(d)
  <2>1. d \in burned \/ pool[d] = "in_use"
    BY <1>6 DEF MarkLive, OneOperatorInductive, BoxHoldsDomain, Standing
  <2>2. Exposed' = Exposed \cup {d}
    BY <1>6 DEF MarkLive, Exposed
  <2>3. QED
    BY <1>6, <2>1, <2>2 DEF MarkLive, Life!Expose
<1>7. ASSUME NEW s \in Shell, ReclaimCommit(s), NEW d \in Domain, d = op[s].dom
      PROVE  Life!HandBack(d) \/ UNCHANGED <<LifeStatus, Exposed>>
  <2> DEFINE b == op[s].box
  <2>0. d \in Domain /\ Exposed' = Exposed
    BY <1>7 DEF ReclaimCommit, TypeOK, Exposed
  <2>1. CASE Returns(d, b)
    <3>1. b \notin wentLive
      BY <1>7 DEF ReclaimCommit, OneOperatorInductive
    <3>2. d \notin Exposed
      BY <2>1, <3>1 DEF Returns, Exposed, NeverReuseExposed
    <3>3. LifeStatus' = [LifeStatus EXCEPT ![d] = "candidate_verified"] /\ LifeStatus[d] = "in_use"
      BY <1>7, <2>0, <2>1 DEF ReclaimCommit, Returns, TypeOK, FleetInductive
    <3>4. QED
      BY <2>0, <3>2, <3>3 DEF Life!HandBack, Life!Move
  <2>2. CASE ~Returns(d, b)
    BY <1>7, <2>0, <2>2 DEF ReclaimCommit, TypeOK
  <2>3. QED
    BY <2>1, <2>2
<1>8. ASSUME NEW d \in Domain, CanBurn(d), MarkBurned(d), UNCHANGED boxvars
      PROVE  Life!Burn(d)
  <2>1. LifeStatus' = [LifeStatus EXCEPT ![d] = "burned"]
    BY <1>8 DEF CanBurn, MarkBurned, TypeOK
  <2>2. Status(d) \in Life!Life \ {"absent", "burned"}
    BY <1>8 DEF CanBurn, Life!Life, TypeOK, PoolState
  <2>3. QED
    BY <1>0, <1>8, <2>1, <2>2 DEF Life!Burn
<1>9. ASSUME NEW s \in Shell, TerminateBurn(s) \/ RotateBurn(s),
             NEW d \in Domain, d = op[s].dom
      PROVE  Life!Burn(d) \/ UNCHANGED <<LifeStatus, Exposed>>
  <2>1. CASE CanBurn(d)
    <3>1. MarkBurned(d) /\ UNCHANGED boxvars
      BY <1>9, <2>1 DEF TerminateBurn, RotateBurn, MarkBurned, CanBurn
    <3>2. QED
      BY <1>8, <2>1, <3>1
  <2>2. CASE ~CanBurn(d)
    BY <1>9, <2>2 DEF TerminateBurn, RotateBurn, CanBurn, Exposed
  <2>3. QED
    BY <2>1, <2>2
<1>10. ASSUME NEW d \in Domain, ArBurn(d) PROVE Life!Burn(d)
  BY <1>8, <1>10 DEF ArBurn
<1>11. ASSUME NEW s \in Shell, NEW d \in Domain, ProvisionPick(s, d) \/ RotateRead(s, d)
       PROVE  UNCHANGED <<LifeStatus, Exposed>>
  BY <1>11 DEF ProvisionPick, RotateRead, Exposed
<1>12. ASSUME NEW s \in Shell, NEW b \in Box, ReclaimRead(s, b) \/ TerminateRead(s, b)
       PROVE  UNCHANGED <<LifeStatus, Exposed>>
  BY <1>12 DEF ReclaimRead, TerminateRead, Exposed
<1>13. ASSUME NEW s \in Shell,
              \/ ProvisionAbort(s) \/ ShellDies(s) \/ TerminateListCreds(s)
              \/ TerminateRevoke(s) \/ TerminateMark(s) \/ RotateClear(s)
       PROVE  UNCHANGED <<LifeStatus, Exposed>>
  BY <1>13 DEF ProvisionAbort, ShellDies, TerminateListCreds, TerminateRevoke, TerminateMark,
               RotateClear, Exposed
<1>14. ASSUME NEW s \in Shell, OperatorStep(s) \/ ShellDies(s)
       PROVE  \/ \E d \in Domain : \/ Life!Add(d) \/ Life!Verify(d) \/ Life!Assign(d)
                                   \/ Life!HandBack(d) \/ Life!Burn(d) \/ Life!Expose(d)
              \/ UNCHANGED <<LifeStatus, Exposed>>
  <2>1. ASSUME NEW b \in Box, ProvisionCommit(s, b)
        PROVE  \E d \in Domain : Life!Assign(d)
    <3>1. PICK d \in Domain : d = op[s].dom
      BY <2>1 DEF ProvisionCommit, TypeOK
    <3>2. QED
      BY <1>5, <2>1, <3>1
  <2>2. ASSUME NEW b \in Box, MarkLive(s, b)
        PROVE  \E d \in Domain : Life!Expose(d)
    <3>1. PICK d \in Domain : d = sni[b]
      BY <2>2 DEF MarkLive, TypeOK, Standing
    <3>2. QED
      BY <1>6, <2>2, <3>1
  <2>3. ASSUME ReclaimCommit(s) \/ TerminateBurn(s) \/ RotateBurn(s)
        PROVE  \/ \E d \in Domain : Life!HandBack(d) \/ Life!Burn(d)
               \/ UNCHANGED <<LifeStatus, Exposed>>
    <3>1. PICK d \in Domain : d = op[s].dom
      BY <2>3 DEF ReclaimCommit, TerminateBurn, RotateBurn, TypeOK
    <3>2. QED
      BY <1>7, <1>9, <2>3, <3>1
  <2>4. QED
    BY <1>14, <2>1, <2>2, <2>3, <1>2, <1>3, <1>11, <1>12, <1>13 DEF OperatorStep
<1>15. QED
  BY StepCases, <1>1, <1>4, <1>10, <1>14 DEF Life!LifeNext

\* The system implements the life of its domains: every initial state maps to the
\* initial one, every step to a step of CoverLifecycle or to none.
THEOREM LifecycleImplemented ==
  ASSUME SingleOperator
  PROVE  Spec => ImplementsLifecycle
<1>1. Init => Life!LifeInit
  BY DEF Init, Life!LifeInit, Status, Exposed
<1>2. TypeOK /\ FleetInductive /\ OneOperatorInductive /\ [Next]_vars
        => [Life!LifeNext]_<<LifeStatus, Exposed>>
  BY LifecycleStep, ExposedKept
<1>3. Spec => []OneOperatorInductive
  BY OneOperatorSafe
<1>4. QED
  BY <1>1, <1>2, <1>3, TypeCorrect, FleetSafe, PTL
     DEF Spec, ImplementsLifecycle, Life!LifeSpec, LifeStatus
=============================================================================
