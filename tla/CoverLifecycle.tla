--------------------------- MODULE CoverLifecycle ---------------------------
(***************************************************************************)
(* What the cover pool promises of one domain after another (spec C's      *)
(* transition table as the code has it): a domain is added once, verified, *)
(* used by one box, possibly handed back while no live box has shown it,   *)
(* and burned for good.  CoverFleet implements this with many tables and   *)
(* processes while one operator works at a time.                           *)
(***************************************************************************)
CONSTANT Domain

VARIABLES
    status,   \* where each domain is in its life
    exposed   \* domains a live box has served

Life == {"absent", "candidate_unverified", "candidate_verified", "in_use",
         "burned"}

LifeInit == status = [d \in Domain |-> "absent"] /\ exposed = {}

Move(d, from, to) ==
    /\ status[d] \in from
    /\ status' = [status EXCEPT ![d] = to]
    /\ UNCHANGED exposed

Add(d)     == Move(d, {"absent"}, "candidate_unverified")
Verify(d)  == Move(d, {"candidate_unverified"}, "candidate_verified")
Withdraw(d) == Move(d, {"candidate_verified"}, "candidate_unverified")
Assign(d)  == d \notin exposed /\ Move(d, {"candidate_verified"}, "in_use")
HandBack(d) == d \notin exposed /\ Move(d, {"in_use"}, "candidate_verified")
Burn(d)    == Move(d, Life \ {"absent", "burned"}, "burned")

\* A box can go live after its domain was burned under it.
Expose(d) ==
    /\ status[d] \in {"in_use", "burned"}
    /\ exposed' = exposed \cup {d}
    /\ UNCHANGED status

LifeNext == \E d \in Domain :
    \/ Add(d) \/ Verify(d) \/ Withdraw(d) \/ Assign(d) \/ HandBack(d)
    \/ Burn(d) \/ Expose(d)

LifeSpec == LifeInit /\ [][LifeNext]_<<status, exposed>>
=============================================================================
