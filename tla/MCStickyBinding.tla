-------------------------- MODULE MCStickyBinding ---------------------------
(***************************************************************************)
(* A resolution file of at most two bindings and the ways it may fail, for *)
(* StickyBinding.                                                          *)
(***************************************************************************)
EXTENDS StickyBinding, TLC

CONSTANTS mine, other, fileA, fileB

\* One binding for the agent, or one for another agent before it, or none.
Lists == {<<>>, <<[pattern |-> other, file |-> fileB], [pattern |-> mine, file |-> fileA]>>}

Budget(f, n) == [g \in FaultKinds |-> IF g \in f THEN n ELSE 0]
AnyFault     == Budget(FaultKinds, 1)

\* Each session has a trace file of its own.
OwnSinks == [s \in Sessions |-> s]

\* At most two faults of all kinds.
TwoFaults == Cardinality({f \in FaultKinds : faults[f] # 0}) <= 2

\* The operator starts with at most one file that does not load, and not
\* with the one that nothing binds yet.
MCInit ==
  /\ Init
  /\ \E c1 \in Profiles \ ReadyProfiles, c2 \in ReadyProfiles :
       /\ content \in {(fileA :> c1 @@ fileB :> c2),
                       (fileA :> c1 @@ fileB :> Unloadable),
                       (fileA :> Unloadable @@ fileB :> c2)}
       /\ bindings = <<>> => content[fileA] = c1

MCSpec == MCInit /\ [][Next]_vars

BothSymmetry == Permutations(Procs) \cup Permutations(Sessions)
=============================================================================
