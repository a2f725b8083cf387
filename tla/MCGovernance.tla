---------------------------- MODULE MCGovernance ----------------------------
(* Governance for TLC: workers and requests are interchangeable. *)
EXTENDS Governance, TLC, FiniteSets

Gated(c, a) == [check |-> c, approval |-> a, expires |-> a]

\* every governance plan that requires something
GatedPlans == {Gated(TRUE, FALSE), Gated(FALSE, TRUE), Gated(TRUE, TRUE)}
CheckedPlan == {Gated(TRUE, FALSE)}

\* every process at once in the first round, one at a time after a reopening
Busy == {p \in Process : ~At(p, "idle")}
Bounded == maker[2] = "none" \/ Cardinality(Busy) <= 1

Symmetry == Permutations(Worker) \cup Permutations(Request)
=============================================================================
