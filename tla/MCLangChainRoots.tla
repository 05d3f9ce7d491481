-------------------------- MODULE MCLangChainRoots --------------------------
(***************************************************************************)
(* A run forest for LangChainRoots: two invocations g1 and g2, the second  *)
(* of a graph with nodes n1 and n2, a chain c inside one of them, tools t1 *)
(* and t2, and a middleware call m1.                                       *)
(***************************************************************************)
EXTENDS LangChainRoots, TLC

CONSTANTS g1, g2, n1, n2, c, t1, t2, m1

\* Two invocations, one of a graph with two parallel nodes; the tool t1 is
\* nested deeper than its node.
Overlap ==
  g1 :> NoRun @@ g2 :> NoRun @@ n1 :> g2 @@ n2 :> g2 @@ c :> n1
  @@ t1 :> c @@ t2 :> n2

CallsIn == m1 :> n2

\* The theorems that ask for it speak of these runs.
ASSUME InstanceAssumption == Routable /\ Apart
=============================================================================
