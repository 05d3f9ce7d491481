---------------------------- MODULE MCHookTrace -----------------------------
(***************************************************************************)
(* Fault budgets and symmetry for the runs of HookTrace.                   *)
(***************************************************************************)
EXTENDS HookTrace, TLC

Budget(f, n) == [g \in FaultKinds |-> IF g \in f THEN n ELSE 0]

Losses       == Budget({"lose"}, 1)
AnyFault     == Budget(FaultKinds, 1)
Killed       == Budget({"crash", "invalid", "read"}, 1)

\* At most two faults of all kinds.
TwoFaults == Cardinality({f \in FaultKinds : faults[f] > 0}) <= 2

BothSymmetry == Permutations(Procs) \cup Permutations(Sessions)
=============================================================================
