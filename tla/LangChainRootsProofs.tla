------------------------ MODULE LangChainRootsProofs ------------------------
(***************************************************************************)
(* Theorems about LangChainRoots, for any runs, any number of overlapping  *)
(* invocations, turns, steps and middleware calls, and any runs that fail. *)
(*                                                                         *)
(* The handler knows only parents, and the proofs are about its walks: a   *)
(* walk stays among the runs that enclose its start (ClimbWithin), so that *)
(* it finds the right root or none, and where runs are routable it gets    *)
(* there in MaxHops (ClimbReaches).  SessionInv says that what encloses a  *)
(* run at work is open and recorded, and that a middleware call is bound   *)
(* to the root of its chain or to none.  RoutedInv adds that what is       *)
(* recorded leads to an open root, so that tearing one down neither leaves *)
(* its own runs behind nor takes those of another.  TurnInv adds that each *)
(* talker has a slot of its own among its root's scopes.                   *)
(***************************************************************************)
EXTENDS LangChainRoots, FiniteSetTheorems, WellFoundedInduction, TLAPS

-----------------------------------------------------------------------------
(***************************************************************************)
(* Induction on a set of naturals, which the walks need.                   *)
(***************************************************************************)
Less == {r \in Nat \X Nat : r[1] < r[2]}

LEMMA Least ==
  ASSUME NEW T \in SUBSET Nat, T # {}
  PROVE  \E i \in T : \A j \in T : i <= j
  <1>1. OpToRel(<, Nat) = Less
    BY DEF OpToRel, Less
  <1>2. IsWellFoundedOn(Less, Nat)
    BY <1>1, NatLessThanWellFounded
  <1>3. PICK i \in T : \A j \in T : <<j, i>> \notin Less
    BY <1>2, WFMin
  <1>4. ASSUME NEW j \in T PROVE i <= j
    <2>1. i \in Nat /\ j \in Nat
      OBVIOUS
    <2>2. ~(j < i)
      BY <1>3, <2>1 DEF Less
    <2> QED
      BY <2>1, <2>2
  <1> QED
    BY <1>4

LEMMA UpTo ==
  ASSUME NEW S, NEW m \in Nat, 0 \in S, \A k \in 0..m : k < m /\ k \in S => k + 1 \in S
  PROVE  \A k \in 0..m : k \in S
  <1> DEFINE T == (0..m) \ S
  <1>1. SUFFICES ASSUME T # {} PROVE FALSE
    OBVIOUS
  <1>2. T \in SUBSET Nat
    OBVIOUS
  <1>3. PICK i \in T : \A j \in T : i <= j
    BY <1>1, <1>2, Least
  <1>4. i \in Nat /\ i # 0 /\ i <= m
    BY <1>3
  <1>5. i - 1 \in 0..m /\ i - 1 < m /\ i - 1 \notin T
    BY <1>3, <1>4
  <1>6. (i - 1) + 1 \in S
    BY <1>5
  <1> QED
    BY <1>3, <1>4, <1>6

-----------------------------------------------------------------------------
(***************************************************************************)
(* The runs around a run.                                                  *)
(***************************************************************************)
Closed(S) == \A q \in S : Parent[q] \in S \cup {NoRun}

LEMMA EnclosingLeast ==
  ASSUME NEW r \in Runs
  PROVE  /\ Enclosing[r] \in SUBSET Runs /\ r \in Enclosing[r] /\ Closed(Enclosing[r])
         /\ \A S \in SUBSET Runs : r \in S /\ Closed(S) => Enclosing[r] \subseteq S
  <1>1. Enclosing[r] = {a \in Runs : \A S \in SUBSET Runs : r \in S /\ Closed(S) => a \in S}
    BY DEF Enclosing, Closed
  <1>2. ASSUME NEW q \in Enclosing[r]
        PROVE  Parent[q] \in Enclosing[r] \cup {NoRun}
    <2>1. q \in Runs /\ Parent[q] \in Runs \cup {NoRun}
      BY <1>1, ConstantsAssumption
    <2>2. ASSUME Parent[q] \in Runs, NEW S \in SUBSET Runs, r \in S, Closed(S)
          PROVE  Parent[q] \in S
      <3>1. q \in S
        BY <1>1, <1>2, <2>2
      <3> QED
        BY <2>2, <3>1, ConstantsAssumption DEF Closed
    <2> QED
      BY <1>1, <2>1, <2>2
  <1> QED
    BY <1>1, <1>2 DEF Closed

LEMMA EnclosingParent ==
  ASSUME NEW r \in Runs
  PROVE  /\ Parent[r] # NoRun => /\ Parent[r] \in Runs
                                 /\ Enclosing[r] = {r} \cup Enclosing[Parent[r]]
         /\ Parent[r] = NoRun => Enclosing[r] = {r}
  <1>1. CASE Parent[r] = NoRun
    <2>1. Closed({r})
      BY <1>1 DEF Closed
    <2> QED
      BY <1>1, <2>1, EnclosingLeast
  <1>2. CASE Parent[r] # NoRun
    <2>1. Parent[r] \in Runs
      BY <1>2, ConstantsAssumption
    <2>2. Closed({r} \cup Enclosing[Parent[r]])
      BY <2>1, EnclosingLeast DEF Closed
    <2>3. Enclosing[r] \subseteq {r} \cup Enclosing[Parent[r]]
      BY <2>1, <2>2, EnclosingLeast
    <2>4. Parent[r] \in Enclosing[r]
      BY <2>1, <1>2, EnclosingLeast DEF Closed
    <2>5. Enclosing[Parent[r]] \subseteq Enclosing[r]
      BY <2>1, <2>4, EnclosingLeast
    <2> QED
      BY <1>2, <2>1, <2>3, <2>5, EnclosingLeast
  <1> QED
    BY <1>1, <1>2

LEMMA EnclosingTransitive ==
  ASSUME NEW r \in Runs, NEW q \in Enclosing[r]
  PROVE  q \in Runs /\ Enclosing[q] \subseteq Enclosing[r]
  BY EnclosingLeast

(***************************************************************************)
(* A run has at most one root.                                             *)
(***************************************************************************)
LEMMA OneRoot ==
  ASSUME NEW r \in Runs, NEW a \in Enclosing[r], Parent[a] = NoRun
  PROVE  /\ RootOf(r) = a
         /\ \A b \in Enclosing[r] : Parent[b] = NoRun => b = a
         /\ \A q \in Enclosing[r] : a \in Enclosing[q] /\ RootOf(q) = a
  <1> DEFINE S == {x \in Runs : a \in Enclosing[x]}
  <1>1. Closed(S)
    <2>1. ASSUME NEW x \in S, Parent[x] # NoRun
          PROVE  Parent[x] \in S
      <3>1. Parent[x] \in Runs /\ Enclosing[x] = {x} \cup Enclosing[Parent[x]]
        BY <2>1, EnclosingParent
      <3> QED
        BY <2>1, <3>1
    <2> QED
      BY <2>1 DEF Closed
  <1>2. Enclosing[r] \subseteq S
    BY <1>1, EnclosingLeast
  <1>3. ASSUME NEW b \in Enclosing[r], Parent[b] = NoRun
        PROVE  b = a
    <2>1. b \in S /\ Enclosing[b] = {b}
      BY <1>2, <1>3, EnclosingLeast, EnclosingParent
    <2> QED
      BY <2>1
  <1>4. RootOf(r) = a
    BY <1>3 DEF RootOf
  <1>5. ASSUME NEW q \in Enclosing[r]
        PROVE  a \in Enclosing[q] /\ RootOf(q) = a
    <2>1. q \in Runs /\ Enclosing[q] \subseteq Enclosing[r] /\ a \in Enclosing[q]
      BY <1>2, EnclosingTransitive
    <2>2. \A b \in Enclosing[q] : Parent[b] = NoRun => b = a
      BY <1>3, <2>1
    <2> QED
      BY <2>1, <2>2 DEF RootOf
  <1> QED
    BY <1>3, <1>4, <1>5

-----------------------------------------------------------------------------
(***************************************************************************)
(* The walks.                                                              *)
(***************************************************************************)
Onward(at, Stops) == IF at \in Stops \cup {NoRun} THEN at ELSE Up(at)

IsWalk(f, n, Stops, m) ==
  f = [k \in 0..m |-> IF k = 0 THEN n ELSE Onward(f[k - 1], Stops)]

LEMMA WalkExists ==
  ASSUME NEW n, NEW Stops, NEW hops \in Nat
  PROVE  \E f : IsWalk(f, n, Stops, hops)
  <1> DEFINE S == {m \in Nat : \E f : IsWalk(f, n, Stops, m)}
  <1>1. 0 \in S
    <2>1. IsWalk([k \in 0..0 |-> n], n, Stops, 0)
      BY DEF IsWalk
    <2> QED
      BY <2>1
  <1>2. ASSUME NEW m \in Nat, m \in S
        PROVE  m + 1 \in S
    <2>1. PICK f : IsWalk(f, n, Stops, m)
      BY <1>2
    <2> DEFINE g == [k \in 0..(m + 1) |-> IF k = m + 1 THEN Onward(f[m], Stops) ELSE f[k]]
    <2>2. \A k \in 0..m : f[k] = IF k = 0 THEN n ELSE Onward(f[k - 1], Stops)
      BY <2>1 DEF IsWalk
    <2>3. ASSUME NEW k \in 0..(m + 1)
          PROVE  g[k] = IF k = 0 THEN n ELSE Onward(g[k - 1], Stops)
      <3>1. CASE k = m + 1
        <4>1. k # 0 /\ k - 1 = m /\ m \in 0..(m + 1) /\ m # m + 1
          BY <3>1
        <4>2. g[m] = f[m] /\ g[k] = Onward(f[m], Stops)
          BY <3>1, <4>1
        <4> QED
          BY <4>1, <4>2
      <3>2. CASE k # m + 1
        <4>1. k \in 0..m /\ g[k] = f[k]
          BY <3>2
        <4>2. k # 0 => k - 1 \in 0..(m + 1) /\ k - 1 # m + 1
          BY <4>1
        <4>3. k # 0 => g[k - 1] = f[k - 1]
          BY <4>2
        <4> HIDE DEF g
        <4> QED
          BY <2>2, <4>1, <4>3
      <3> QED
        BY <3>1, <3>2
    <2>4. g = [k \in 0..(m + 1) |-> g[k]]
      OBVIOUS
    <2> HIDE DEF g
    <2>5. IsWalk(g, n, Stops, m + 1)
      BY <2>3, <2>4 DEF IsWalk
    <2> QED
      BY <2>5
  <1> HIDE DEF S
  <1>3. hops \in S
    BY <1>1, <1>2, UpTo
  <1> QED
    BY <1>3 DEF S

(***************************************************************************)
(* What a walk passes stays in any set that holds its start and what each  *)
(* hop makes of a member.                                                  *)
(***************************************************************************)
LEMMA ClimbIsWalk ==
  ASSUME NEW n, NEW Stops, NEW hops \in Nat
  PROVE  \E f : /\ Climb(n, Stops, hops) = f[hops] /\ f[0] = n
                /\ \A k \in 0..hops : k < hops => f[k + 1] = Onward(f[k], Stops)
  <1> DEFINE f == CHOOSE f : IsWalk(f, n, Stops, hops)
  <1>1. IsWalk(f, n, Stops, hops)
    BY WalkExists
  <1>2. Climb(n, Stops, hops) = f[hops]
    BY DEF Climb, IsWalk, Onward
  <1> HIDE DEF f
  <1>3. \A k \in 0..hops : f[k] = IF k = 0 THEN n ELSE Onward(f[k - 1], Stops)
    BY <1>1 DEF IsWalk
  <1>4. f[0] = n
    BY <1>3
  <1>5. ASSUME NEW k \in 0..hops, k < hops
        PROVE  f[k + 1] = Onward(f[k], Stops)
    <2>1. k + 1 \in 0..hops /\ k + 1 # 0 /\ (k + 1) - 1 = k
      BY <1>5
    <2> QED
      BY <1>3, <2>1
  <1> QED
    BY <1>2, <1>4, <1>5

LEMMA ClimbWithin ==
  ASSUME NEW n \in Runs, NEW Stops, NEW hops \in Nat
  PROVE  Climb(n, Stops, hops) \in Enclosing[n] \cup {NoRun}
  <1>1. PICK f : /\ Climb(n, Stops, hops) = f[hops] /\ f[0] = n
                 /\ \A k \in 0..hops : k < hops => f[k + 1] = Onward(f[k], Stops)
    BY ClimbIsWalk
  <1> DEFINE S == {k \in 0..hops : f[k] \in Enclosing[n] \cup {NoRun}}
  <1>2. 0 \in S
    BY <1>1, EnclosingLeast
  <1>3. ASSUME NEW k \in 0..hops, k < hops, k \in S
        PROVE  k + 1 \in S
    <2>1. f[k + 1] = Onward(f[k], Stops) /\ k + 1 \in 0..hops
      BY <1>1, <1>3
    <2>2. Closed(Enclosing[n]) /\ f[k] \in Enclosing[n] \cup {NoRun}
      BY <1>3, EnclosingLeast
    <2>3. Onward(f[k], Stops) \in {f[k], Parent[f[k]], NoRun} /\ (f[k] = NoRun => Onward(f[k], Stops) = NoRun)
      BY DEF Onward, Up
    <2> QED
      BY <2>1, <2>2, <2>3 DEF Closed
  <1> HIDE DEF S
  <1>4. hops \in S
    BY <1>2, <1>3, UpTo
  <1> QED
    BY <1>1, <1>4 DEF S

(***************************************************************************)
(* A walk reaches the root when what encloses its start is recorded.       *)
(***************************************************************************)
Levels(level) ==
  /\ level \in [Runs -> 0..(MaxHops - 1)]
  /\ \A r \in Runs \ Tools : Parent[r] # NoRun => level[Parent[r]] < level[r]

LEMMA ClimbReaches ==
  ASSUME NEW level, Levels(level), NEW n \in Runs, NEW Stops, NEW a \in Enclosing[n],
         Parent[a] = NoRun, a \in Stops, NEW hops \in Nat, level[n] <= hops,
         \A q \in Enclosing[n] : q \notin Tools,
         \A q \in Enclosing[n] : q # a => q \in ancestry /\ q \notin Stops
  PROVE  Climb(n, Stops, hops) = a
  <1>1. PICK f : /\ Climb(n, Stops, hops) = f[hops] /\ f[0] = n
                 /\ \A k \in 0..hops : k < hops => f[k + 1] = Onward(f[k], Stops)
    BY ClimbIsWalk
  <1> DEFINE S == {k \in 0..hops : f[k] \in Enclosing[n] /\ (f[k] # a => level[f[k]] + k <= hops)}
  <1>2. 0 \in S
    BY <1>1, EnclosingLeast DEF Levels
  <1>3. ASSUME NEW k \in 0..hops, k < hops, k \in S
        PROVE  k + 1 \in S
    <2>1. f[k + 1] = Onward(f[k], Stops) /\ k + 1 \in 0..hops /\ f[k] \in Enclosing[n]
      BY <1>1, <1>3
    <2>2. CASE f[k] = a
      BY <2>1, <2>2 DEF Onward
    <2>3. CASE f[k] # a
      <3>1. f[k] \in Runs \ Tools /\ f[k] \in ancestry /\ f[k] \notin Stops /\ f[k] # NoRun
        BY <2>1, <2>3, EnclosingLeast, ConstantsAssumption
      <3>2. f[k + 1] = Parent[f[k]] /\ Parent[f[k]] # NoRun
        BY <2>1, <2>3, <3>1, OneRoot DEF Onward, Up
      <3>3. Parent[f[k]] \in Enclosing[n] /\ Parent[f[k]] \in Runs
        BY <2>1, <3>2, EnclosingLeast DEF Closed
      <3>4. level[Parent[f[k]]] < level[f[k]] /\ level[f[k]] + k <= hops
            /\ level[f[k]] \in Nat /\ level[Parent[f[k]]] \in Nat
        BY <1>3, <2>3, <3>1, <3>2, <3>3 DEF Levels
      <3>5. level[Parent[f[k]]] + (k + 1) <= hops
        BY <3>4
      <3> QED
        BY <2>1, <3>2, <3>3, <3>5
    <2> QED
      BY <2>2, <2>3
  <1> HIDE DEF S
  <1>4. hops \in S
    BY <1>2, <1>3, UpTo
  <1>5. f[hops] \in Enclosing[n] /\ (f[hops] # a => level[f[hops]] + hops <= hops)
    BY <1>4 DEF S
  <1>6. CASE f[hops] # a
    <2>1. f[hops] \in Runs \ Tools /\ Parent[f[hops]] # NoRun
      BY <1>5, <1>6, EnclosingLeast, OneRoot
    <2>2. Parent[f[hops]] \in Runs
      BY <2>1, ConstantsAssumption
    <2>3. level[f[hops]] \in Nat /\ level[Parent[f[hops]]] \in Nat
          /\ level[Parent[f[hops]]] < level[f[hops]]
      BY <2>1, <2>2 DEF Levels
    <2> QED
      BY <1>5, <1>6, <2>3
  <1> QED
    BY <1>1, <1>6

-----------------------------------------------------------------------------
(***************************************************************************)
(* Where callbacks go, whatever has been recorded.                         *)
(***************************************************************************)
LEMMA ResolvedRoot ==
  ASSUME TypeOK, NEW p \in Runs
  PROVE  ResolveRoot(p) # NoRun =>
           /\ ResolveRoot(p) \in roots /\ ResolveRoot(p) \in Enclosing[p]
           /\ ResolveRoot(p) \in Runs /\ Parent[ResolveRoot(p)] = NoRun
           /\ RootOf(p) = ResolveRoot(p)
  <1> DEFINE a == Climb(p, roots, MaxHops)
  <1>1. a \in Enclosing[p] \cup {NoRun}
    BY ClimbWithin, ConstantsAssumption
  <1>2. ResolveRoot(p) = IF a \in roots THEN a ELSE NoRun
    BY DEF ResolveRoot
  <1> HIDE DEF a
  <1>3. CASE a \in roots
    <2>1. a \in Runs /\ Parent[a] = NoRun /\ a \in Enclosing[p]
      BY <1>1, <1>3, ConstantsAssumption DEF TypeOK
    <2> QED
      BY <1>2, <1>3, <2>1, OneRoot
  <1> QED
    BY <1>2, <1>3

LEMMA BranchWithin ==
  ASSUME NEW root, NEW p \in Runs, BranchKey(root, p) # NoRun
  PROVE  /\ BranchKey(root, p) \in Enclosing[p]
         /\ BranchKey(root, p) \in Runs /\ scopes[root][BranchKey(root, p)].set
  <1> DEFINE Scoped == {n \in Runs : scopes[root][n].set}
             n      == Climb(p, Scoped, MaxHops)
  <1>1. n \in Enclosing[p] \cup {NoRun}
    BY ClimbWithin, ConstantsAssumption
  <1>2. BranchKey(root, p) = IF n \in Scoped THEN n ELSE NoRun
    BY DEF BranchKey
  <1>3. n \in Scoped
    BY <1>2
  <1> HIDE DEF n
  <1> QED
    BY <1>1, <1>2, <1>3, ConstantsAssumption

-----------------------------------------------------------------------------
(***************************************************************************)
(* Type correctness.                                                       *)
(***************************************************************************)
LEMMA ScopeType ==
  ASSUME TypeOK, NEW root \in Runs, NEW p \in Runs
  PROVE  TurnFor(root, p) \in Scope /\ ScopeForLlm(root, p) \in Runs
  <1>1. NoScope \in Scope
    BY DEF NoScope, Scope
  <1>2. scopes[root] \in [Runs -> Scope]
    BY DEF TypeOK
  <1> QED
    BY <1>1, <1>2, BranchWithin DEF TurnFor, ScopeForLlm

LEMMA EmittedType ==
  ASSUME NEW root \in Runs \cup {NoRun}, NEW types \in SUBSET EventTypes,
         NEW run \in Runs \cup Calls, NEW t, t.id \in TurnIds, t.usage \in TurnIds
  PROVE  Emitted(root, types, run, t) \in SUBSET Event
  BY DEF Emitted, Event

LEMMA ToolEventsType ==
  ASSUME TypeOK, NEW r \in Tools, NEW types \in SUBSET EventTypes
  PROVE  ToolEvents(r, types) \in SUBSET Event
  <1> DEFINE root == ResolveRoot(Parent[r])
  <1>1. r \in Runs /\ Parent[r] \in Runs
    BY ConstantsAssumption
  <1>2. root # NoRun => root \in Runs
    BY <1>1, ResolvedRoot
  <1>3. ASSUME root # NoRun
        PROVE  TurnFor(root, Parent[r]).id \in TurnIds /\ TurnFor(root, Parent[r]).usage \in TurnIds
    <2>1. TurnFor(root, Parent[r]) \in Scope
      BY <1>1, <1>2, <1>3, ScopeType
    <2> HIDE DEF root
    <2> QED
      BY <2>1 DEF Scope, TurnIds
  <1> QED
    BY <1>1, <1>2, <1>3, EmittedType DEF ToolEvents

LEMMA StepTurnType ==
  ASSUME TypeOK
  PROVE  StepTurnState \in {NoTurn} \cup Steps
  BY DEF StepTurnState, TypeOK

(***************************************************************************)
(* What a step adds to the trace.                                          *)
(***************************************************************************)
LEMMA Adds ==
  ASSUME TypeOK, [Next]_vars
  PROVE  \/ UNCHANGED trace
         \/ \E r \in Runs : /\ Parent[r] = NoRun
                            /\ trace' = trace \cup Emitted(r, {"REG", "INTENT"}, r, NoScope)
         \/ \E r \in Tools, types \in SUBSET EventTypes : trace' = trace \cup ToolEvents(r, types)
         \/ \E c \in Calls, types \in SUBSET EventTypes, n \in {NoTurn} \cup Steps :
              \/ trace' = trace \cup MiddlewareEvents(bound[c], types, c, n)
              \/ trace' = trace \cup MiddlewareEvents(NoRun, {"ERROR"}, c, n)
  <1>1. ASSUME NEW r \in Runs, OnChainStart(r)
        PROVE  \/ UNCHANGED trace
               \/ /\ Parent[r] = NoRun
                  /\ trace' = trace \cup Emitted(r, {"REG", "INTENT"}, r, NoScope)
    BY <1>1 DEF OnChainStart, OpensRoot
  <1>2. ASSUME NEW r \in Runs, OnToolStart(r) \/ OnToolEnd(r)
        PROVE  r \in Tools /\ \E types \in SUBSET EventTypes : trace' = trace \cup ToolEvents(r, types)
    <2>1. {"SCOPE", "CTX"} \in SUBSET EventTypes /\ {"OUTPUT"} \in SUBSET EventTypes
      BY DEF EventTypes
    <2> QED
      BY <1>2, <2>1 DEF OnToolStart, OnToolEnd
  <1>3. ASSUME NEW c \in Calls, MiddlewareStart(c)
        PROVE  \E types \in SUBSET EventTypes, n \in {NoTurn} \cup Steps :
                 \/ trace' = trace \cup MiddlewareEvents(bound[c], types, c, n)
                 \/ trace' = trace \cup MiddlewareEvents(NoRun, {"ERROR"}, c, n)
    <2>1. {"SCOPE", "CTX"} \in SUBSET EventTypes /\ StepTurnState \in {NoTurn} \cup Steps
      BY StepTurnType DEF EventTypes
    <2> QED
      BY <1>3, <2>1 DEF MiddlewareStart
  <1>4. ASSUME NEW c \in Calls, MiddlewareEnd(c)
        PROVE  \/ UNCHANGED trace
               \/ \E types \in SUBSET EventTypes, n \in {NoTurn} \cup Steps :
                    trace' = trace \cup MiddlewareEvents(bound[c], types, c, n)
    <2>1. {"OUTPUT"} \in SUBSET EventTypes /\ given[c] \in {NoTurn} \cup Steps
      BY DEF EventTypes, TypeOK
    <2> QED
      BY <1>4, <2>1 DEF MiddlewareEnd
  <1>5. ASSUME \/ UNCHANGED vars
               \/ \E r \in Runs : OnChainEnd(r) \/ Fails(r) \/ \E n \in Turns : OnLlmStart(r, n)
               \/ \E n \in Turns : OnLlmEnd(n) \/ LlmFails(n)
               \/ \E n \in Steps : EnterStep(n) \/ LeaveStep(n)
               \/ \E c \in Calls : BindMiddlewareRoot(c)
        PROVE  UNCHANGED trace
    BY <1>5 DEF vars, OnChainEnd, Fails, OnLlmEnd, LlmFails, OnLlmStart, EnterStep, LeaveStep,
                BindMiddlewareRoot, handler
  <1> QED
    BY <1>1, <1>2, <1>3, <1>4, <1>5 DEF Next

LEMMA MiddlewareType ==
  ASSUME NEW root \in Runs \cup {NoRun}, NEW types \in SUBSET EventTypes, NEW c \in Calls,
         NEW n \in {NoTurn} \cup Steps
  PROVE  MiddlewareEvents(root, types, c, n) \in SUBSET Event
  <1>1. n \in TurnIds
    BY DEF TurnIds
  <1> QED
    BY <1>1 DEF MiddlewareEvents, Emitted, Event

LEMMA TraceType ==
  ASSUME TypeOK, [Next]_vars
  PROVE  trace' \in SUBSET Event
  <1>1. trace \in SUBSET Event
    BY DEF TypeOK
  <1>2. ASSUME NEW r \in Runs
        PROVE  Emitted(r, {"REG", "INTENT"}, r, NoScope) \in SUBSET Event
    BY DEF Emitted, Event, NoScope, EventTypes, TurnIds
  <1>3. ASSUME NEW c \in Calls, NEW types \in SUBSET EventTypes, NEW n \in {NoTurn} \cup Steps
        PROVE  /\ MiddlewareEvents(bound[c], types, c, n) \in SUBSET Event
               /\ MiddlewareEvents(NoRun, {"ERROR"}, c, n) \in SUBSET Event
    <2>1. bound[c] \in Runs \cup {NoRun} /\ {"ERROR"} \in SUBSET EventTypes
      BY DEF TypeOK, EventTypes
    <2> QED
      BY <2>1, MiddlewareType
  <1> QED
    BY <1>1, <1>2, <1>3, Adds, ToolEventsType

LEMMA TypeStep ==
  ASSUME TypeOK, [Next]_vars
  PROVE  TypeOK'
  <1>0. trace' \in SUBSET Event
    BY TraceType
  <1>1. ASSUME NEW r \in Runs, OnChainStart(r)
        PROVE  TypeOK'
    BY <1>0, <1>1 DEF OnChainStart, OpensRoot, Begin, TypeOK, calls, steps
  <1>2. ASSUME NEW r \in Runs, OnChainEnd(r)
        PROVE  TypeOK'
    <2>1. NoScopes \in [Runs -> Scope]
      BY DEF NoScopes, NoScope, Scope
    <2>2. Pruned(r) \in SUBSET Runs
      BY DEF Pruned, TypeOK
    <2>3. scopes' \in [Runs -> [Runs -> Scope]] /\ ancestry' \in SUBSET Runs
          /\ roots' \in SUBSET {q \in Runs : Parent[q] = NoRun}
      BY <1>2, <2>1, <2>2 DEF OnChainEnd, TypeOK
    <2> QED
      BY <1>0, <1>2, <2>3 DEF OnChainEnd, End, TypeOK, calls, steps
  <1>3. ASSUME NEW r \in Runs, OnToolStart(r) \/ OnToolEnd(r) \/ Fails(r)
        PROVE  TypeOK'
    BY <1>0, <1>3 DEF OnToolStart, OnToolEnd, Fails, Begin, End, TypeOK, calls, steps, handler
  <1>4. ASSUME NEW p \in Runs, NEW n \in Turns, OnLlmStart(p, n)
        PROVE  TypeOK'
    <2>1. [set |-> TRUE, id |-> n, usage |-> NoTurn] \in Scope
      BY DEF Scope
    <2>2. ResolveRoot(p) # NoRun => ResolveRoot(p) \in Runs /\ ScopeForLlm(ResolveRoot(p), p) \in Runs
      BY ResolvedRoot, ScopeType
    <2>3. scopes' \in [Runs -> [Runs -> Scope]]
      BY <1>4, <2>1, <2>2 DEF OnLlmStart, TypeOK
    <2>4. beside' \in [Turns -> SUBSET Turns]
      BY <1>4 DEF OnLlmStart, TypeOK
    <2>5. inflight' \in SUBSET {m \in Turns : owner'[m] # NoRun}
      BY <1>4, ConstantsAssumption DEF OnLlmStart, TypeOK
    <2> QED
      BY <1>0, <1>4, <2>3, <2>4, <2>5 DEF OnLlmStart, TypeOK, calls, steps
  <1>5. ASSUME NEW n \in Turns, OnLlmEnd(n)
        PROVE  TypeOK'
    <2> DEFINE root == ResolveRoot(owner[n])
               k    == ScopeForLlm(root, owner[n])
               new  == [scopes[root][k] EXCEPT !.set = TRUE, !.usage = n]
    <2>0. owner[n] \in Runs
      BY <1>5 DEF OnLlmEnd, TypeOK
    <2>1. root # NoRun => root \in Runs /\ k \in Runs
      BY <2>0, ResolvedRoot, ScopeType
    <2>2. scopes' = IF root = NoRun THEN scopes ELSE [scopes EXCEPT ![root][k] = new]
      BY <1>5 DEF OnLlmEnd
    <2>3. root # NoRun => scopes[root][k] \in Scope
      BY <2>1 DEF TypeOK
    <2>4. root # NoRun => new \in Scope
      <3> HIDE DEF root, k
      <3> QED
        BY <2>3 DEF Scope
    <2> HIDE DEF root, k, new
    <2>5. scopes' \in [Runs -> [Runs -> Scope]]
      BY <2>1, <2>2, <2>4 DEF TypeOK
    <2> QED
      BY <1>0, <1>5, <2>5 DEF OnLlmEnd, TypeOK, calls, steps
  <1>6. ASSUME NEW n \in Steps, EnterStep(n) \/ LeaveStep(n)
        PROVE  TypeOK'
    BY <1>0, <1>6 DEF EnterStep, LeaveStep, Cleared, TypeOK, framework, calls, handler
  <1>7. ASSUME NEW c \in Calls, BindMiddlewareRoot(c)
        PROVE  TypeOK'
    <2>1. Binding \in Runs \cup {NoRun}
      <3>1. CASE roots = {}
        BY <3>1, FS_EmptySet DEF Binding
      <3>2. CASE roots # {}
        BY <3>2 DEF Binding, TypeOK
      <3> QED
        BY <3>1, <3>2
    <2> QED
      BY <1>0, <1>7, <2>1 DEF BindMiddlewareRoot, TypeOK, framework, steps, handler
  <1>8. ASSUME NEW c \in Calls, MiddlewareStart(c) \/ MiddlewareEnd(c)
        PROVE  TypeOK'
    <2>1. given' \in [Calls -> {NoTurn} \cup Steps]
      BY <1>8, StepTurnType DEF MiddlewareStart, MiddlewareEnd, TypeOK
    <2> QED
      BY <1>0, <1>8, <2>1 DEF MiddlewareStart, MiddlewareEnd, TypeOK, framework, steps, handler
  <1>9. CASE UNCHANGED vars
    BY <1>9 DEF vars, framework, calls, steps, handler, TypeOK
  <1>10. ASSUME NEW n \in Turns, LlmFails(n)
        PROVE  TypeOK'
    BY <1>0, <1>10 DEF LlmFails, TypeOK, calls, steps, handler
  <1> QED
    BY <1>1, <1>2, <1>3, <1>4, <1>5, <1>6, <1>7, <1>8, <1>9, <1>10 DEF Next

-----------------------------------------------------------------------------
(***************************************************************************)
(* The middleware holds the turn of a step in flight, and a call's events  *)
(* so far carry the turn it took.                                          *)
(***************************************************************************)
InFlight == step # NoRun => stepping[step] = "in"

Carried(c) ==
  /\ call[c] \in {"new", "bound"} => given[c] = NoTurn /\ \A f \in trace : f.run # c
  /\ \A f \in trace : f.run = c => f.id = given[c]

CallInv == InFlight /\ \A c \in Calls : Carried(c)

LEMMA InFlightStep ==
  ASSUME TypeOK, InFlight, [Next]_vars
  PROVE  InFlight'
  <1>1. ASSUME NEW n \in Steps, EnterStep(n) \/ LeaveStep(n)
        PROVE  InFlight'
    BY <1>1, ConstantsAssumption DEF EnterStep, LeaveStep, Cleared, InFlight, TypeOK
  <1>2. ASSUME UNCHANGED steps
        PROVE  InFlight'
    BY <1>2 DEF steps, InFlight
  <1> QED
    BY <1>1, <1>2 DEF Next, OnChainStart, OnChainEnd, OnToolStart, OnToolEnd, Fails, OnLlmStart,
       OnLlmEnd, LlmFails, BindMiddlewareRoot, MiddlewareStart, MiddlewareEnd, vars

(***************************************************************************)
(* Which events a step adds for a middleware call.                         *)
(***************************************************************************)
LEMMA MiddlewareAdds ==
  ASSUME TypeOK, [Next]_vars, NEW e \in trace' \ trace, e.run \in Calls
  PROVE  \/ /\ MiddlewareStart(e.run)
            /\ \/ bound[e.run] = NoRun /\ e.id = NoTurn /\ e.type = "ERROR" /\ UNCHANGED given
               \/ /\ e.id = StepTurnState /\ given' = [given EXCEPT ![e.run] = StepTurnState]
                  /\ bound[e.run] # NoRun
            /\ e.usage = e.id
         \/ /\ MiddlewareEnd(e.run)
            /\ e.type = "OUTPUT" /\ e.id = given[e.run] /\ e.usage = e.id
            /\ bound[e.run] # NoRun
  <1>1. e.run \notin Runs
    BY ConstantsAssumption
  <1>2. ASSUME NEW r \in Runs, NEW root, NEW types, NEW t, e \in Emitted(root, types, r, t)
        PROVE  FALSE
    BY <1>1, <1>2 DEF Emitted
  <1>3. ASSUME NEW c \in Calls, NEW root, NEW types, NEW n, e \in MiddlewareEvents(root, types, c, n)
        PROVE  e.run = c /\ e.id = n /\ e.usage = n /\ e.type \in types
    BY <1>3 DEF MiddlewareEvents, Emitted
  <1>4. ASSUME NEW c \in Calls, MiddlewareStart(c)
        PROVE  /\ e.run = c /\ e.usage = e.id
               /\ \/ bound[c] = NoRun /\ e.id = NoTurn /\ e.type = "ERROR" /\ UNCHANGED given
                  \/ /\ e.id = StepTurnState /\ given' = [given EXCEPT ![c] = StepTurnState]
                     /\ bound[c] # NoRun
    BY <1>3, <1>4 DEF MiddlewareStart
  <1>5. ASSUME NEW c \in Calls, MiddlewareEnd(c)
        PROVE  /\ e.run = c /\ e.type = "OUTPUT" /\ e.id = given[c] /\ e.usage = e.id
               /\ bound[c] # NoRun
    BY <1>3, <1>5 DEF MiddlewareEnd
  <1>6. ASSUME NEW r \in Runs, OnChainStart(r) \/ OnToolStart(r) \/ OnToolEnd(r)
        PROVE  FALSE
    BY <1>2, <1>6 DEF OnChainStart, OnToolStart, OnToolEnd, ToolEvents
  <1> QED
    BY <1>4, <1>5, <1>6 DEF Next, OnChainEnd, Fails, OnLlmStart, OnLlmEnd, LlmFails, EnterStep, LeaveStep,
       BindMiddlewareRoot, vars

LEMMA CarriedStep ==
  ASSUME TypeOK, [Next]_vars, \A c \in Calls : Carried(c)
  PROVE  \A c \in Calls : Carried(c)'
  <1> SUFFICES ASSUME NEW c \in Calls
               PROVE  Carried(c)'
    OBVIOUS
  <1>1. Carried(c) /\ call[c] \in {"new", "bound", "running", "done"}
    BY DEF TypeOK
  <1>2. CASE MiddlewareStart(c)
    <2>1. call[c] = "bound" /\ call'[c] = "running" /\ given[c] = NoTurn /\ \A f \in trace : f.run # c
      BY <1>1, <1>2 DEF MiddlewareStart, Carried, TypeOK
    <2>2. ASSUME NEW f \in trace', f.run = c
          PROVE  f.id = given'[c]
      <3>1. f \in trace' \ trace /\ f.run \in Calls
        BY <2>1, <2>2
      <3>2. ~MiddlewareEnd(c)
        BY <2>1 DEF MiddlewareEnd
      <3> QED
        BY <2>1, <2>2, <3>1, <3>2, MiddlewareAdds DEF TypeOK
    <2> QED
      BY <2>1, <2>2 DEF Carried
  <1>3. CASE MiddlewareEnd(c)
    <2>1. call[c] = "running" /\ call'[c] = "done" /\ UNCHANGED given
      BY <1>1, <1>3 DEF MiddlewareEnd, TypeOK
    <2>2. ASSUME NEW f \in trace', f.run = c
          PROVE  f.id = given'[c]
      <3>1. CASE f \in trace
        BY <1>1, <2>1, <2>2, <3>1 DEF Carried
      <3>2. CASE f \notin trace
        <4>1. ~MiddlewareStart(c)
          BY <2>1 DEF MiddlewareStart
        <4> QED
          BY <2>1, <2>2, <3>2, <4>1, MiddlewareAdds
      <3> QED
        BY <3>1, <3>2
    <2> QED
      BY <2>1, <2>2 DEF Carried
  <1>4. CASE ~MiddlewareStart(c) /\ ~MiddlewareEnd(c)
    <2>1. given'[c] = given[c] /\ (call'[c] \in {"new", "bound"} => call[c] \in {"new", "bound"})
      BY ZenonT(60), <1>4 DEF Next, OnChainStart, OnChainEnd, OnToolStart, OnToolEnd, Fails, OnLlmStart,
         OnLlmEnd, LlmFails, EnterStep, LeaveStep, BindMiddlewareRoot, MiddlewareStart, MiddlewareEnd,
         vars, calls, TypeOK
    <2>2. \A f \in trace' : f.run = c => f \in trace
      BY <1>4, MiddlewareAdds
    <2> QED
      BY <1>1, <2>1, <2>2 DEF Carried
  <1> QED
    BY <1>2, <1>3, <1>4

LEMMA InitialTypes == Init => TypeOK /\ CallInv
  <1> SUFFICES ASSUME Init PROVE TypeOK /\ CallInv
    OBVIOUS
  <1>1. TypeOK
    BY DEF Init, TypeOK, NoScopes, NoScope, Scope
  <1>2. CallInv
    BY DEF Init, CallInv, InFlight, Carried
  <1> QED
    BY <1>1, <1>2

LEMMA TypedInv == Spec => [](TypeOK /\ CallInv)
  <1>1. TypeOK /\ CallInv /\ [Next]_vars => (TypeOK /\ CallInv)'
    BY TypeStep, InFlightStep, CarriedStep DEF CallInv
  <1> QED
    BY <1>1, InitialTypes, PTL DEF Spec

(***************************************************************************)
(* Middleware events carry the turn of a step that is in flight when the   *)
(* tool starts and none otherwise, however steps overlap and whichever     *)
(* raises, and an output carries what its start did (awrap_step,           *)
(* awrap_tool_call).                                                       *)
(***************************************************************************)
THEOREM OwnStep == Spec => StepTurns
  <1>1. ASSUME TypeOK, CallInv, [Next]_vars, NEW e \in trace' \ trace, e.run \in Calls
        PROVE  /\ e.type = "SCOPE" /\ e.id # NoTurn => stepping[e.id] = "in"
               /\ e.usage = e.id
               /\ \A f \in trace : f.run = e.run => f.id = e.id
    <2>1. Carried(e.run) /\ InFlight
      BY <1>1 DEF CallInv
    <2>2. CASE MiddlewareStart(e.run)
      <3>1. call[e.run] = "bound"
        BY <2>2 DEF MiddlewareStart
      <3>2. (e.id = NoTurn \/ e.id = StepTurnState) /\ e.usage = e.id
        BY <1>1, <3>1, MiddlewareAdds DEF MiddlewareEnd
      <3> QED
        BY <2>1, <3>1, <3>2 DEF Carried, InFlight, StepTurnState
    <2>3. CASE MiddlewareEnd(e.run) /\ ~MiddlewareStart(e.run)
      BY <1>1, <2>1, <2>3, MiddlewareAdds DEF Carried
    <2> QED
      BY <1>1, <2>2, <2>3, MiddlewareAdds
  <1>2. TypeOK /\ CallInv /\ [Next]_vars =>
          [\A e \in trace' \ trace : e.run \in Calls =>
             /\ e.type = "SCOPE" /\ e.id # NoTurn => stepping[e.id] = "in"
             /\ e.usage = e.id
             /\ \A f \in trace : f.run = e.run => f.id = e.id]_vars
    BY <1>1
  <1> QED
    BY <1>2, TypedInv, PTL DEF Spec, StepTurns

-----------------------------------------------------------------------------
(***************************************************************************)
(* What encloses a run at work is open, down to a root the handler knows.  *)
(***************************************************************************)
Lively ==
  /\ \A r \in Runs :
       /\ phase[r] = "open" /\ Parent[r] # NoRun => phase[Parent[r]] = "open"
       /\ phase[r] = "open" /\ r \notin Tools => r \in ancestry
       /\ phase[r] = "open" /\ Parent[r] = NoRun => r \in roots
       /\ phase[r] # "new" => \E a \in Enclosing[r] : Parent[a] = NoRun
  /\ \A n \in inflight : owner[n] \in Talkers /\ phase[owner[n]] = "open"
  /\ \A c \in Calls : call[c] \in {"bound", "running"} => phase[CallIn[c]] = "open"

LEMMA OpenAround ==
  ASSUME TypeOK, Lively, NEW r \in Runs, phase[r] = "open"
  PROVE  /\ \A q \in Enclosing[r] : phase[q] = "open"
         /\ \E a \in Enclosing[r] : Parent[a] = NoRun /\ a \in roots
  <1> DEFINE S == {q \in Runs : phase[q] = "open"}
  <1>1. Closed(S)
    BY ConstantsAssumption DEF Closed, Lively
  <1>2. Enclosing[r] \subseteq S
    BY <1>1, EnclosingLeast
  <1>3. PICK a \in Enclosing[r] : Parent[a] = NoRun
    BY DEF Lively
  <1> QED
    BY <1>2, <1>3, EnclosingLeast DEF Lively

LEMMA NothingInside ==
  ASSUME TypeOK, Lively, NEW r \in Runs, AtRest(r), NEW q \in Runs, phase[q] = "open", q # r
  PROVE  r \notin Enclosing[q]
  <1> DEFINE S == {x \in Runs : phase[x] = "open" /\ x # r}
  <1>1. Closed(S)
    BY ConstantsAssumption DEF Closed, Lively, AtRest
  <1> QED
    BY <1>1, EnclosingLeast

LEMMA PrunedKeeps ==
  ASSUME TypeOK, NEW r \in Runs, NEW q \in ancestry, q # r, r \notin Enclosing[q]
  PROVE  q \in Pruned(r)
  <1>1. q \in Runs /\ MaxHops - 1 \in Nat /\ r # NoRun
    BY ConstantsAssumption DEF TypeOK
  <1>2. Climb(q, roots, MaxHops - 1) # r
    BY <1>1, ClimbWithin
  <1> QED
    BY <1>2 DEF Pruned

LEMMA LivelyStep ==
  ASSUME TypeOK, Lively, [Next]_vars
  PROVE  Lively'
  <1>0. \A r \in Runs : r # NoRun /\ Parent[r] \in Runs \cup {NoRun}
    BY ConstantsAssumption
  <1>1. ASSUME NEW r \in Runs, OnChainStart(r) \/ OnToolStart(r)
        PROVE  Lively'
    <2>1. /\ phase[r] = "new" /\ phase' = [phase EXCEPT ![r] = "open"] /\ UNCHANGED <<inflight, owner, call>>
          /\ Parent[r] # NoRun => phase[Parent[r]] = "open"
          /\ ancestry \subseteq ancestry' /\ roots \subseteq roots'
      BY <1>1 DEF OnChainStart, OnToolStart, MayStart, AtWork, Begin, handler, calls
    <2>2. r \notin Tools => r \in ancestry'
      BY <1>1 DEF OnChainStart, OnToolStart
    <2>3. Parent[r] = NoRun => r \in roots'
      BY <1>1, ConstantsAssumption DEF OnChainStart, OnToolStart, OpensRoot
    <2>4. \E a \in Enclosing[r] : Parent[a] = NoRun
      <3>1. CASE Parent[r] = NoRun
        BY <3>1, EnclosingLeast
      <3>2. CASE Parent[r] # NoRun
        BY <1>0, <2>1, <3>2, EnclosingParent DEF Lively
      <3> QED
        BY <3>1, <3>2
    <2>5. phase'[r] = "open" /\ \A q \in Runs \ {r} : phase'[q] = phase[q]
      BY <2>1 DEF TypeOK
    <2>6. \A c \in Calls : phase[CallIn[c]] = "open" => phase'[CallIn[c]] = "open"
      BY <2>1, <2>5, ConstantsAssumption
    <2>7. \A n \in inflight : owner[n] \in Talkers /\ phase'[owner[n]] = "open"
      BY <2>1, <2>5, ConstantsAssumption DEF Lively
    <2> QED
      BY <1>0, <2>1, <2>2, <2>3, <2>4, <2>5, <2>6, <2>7 DEF Lively
  <1>2. ASSUME NEW r \in Runs, OnChainEnd(r) \/ OnToolEnd(r) \/ Fails(r)
        PROVE  Lively'
    <2>1. /\ phase[r] = "open" /\ phase' = [phase EXCEPT ![r] = "done"] /\ UNCHANGED <<inflight, owner, call>>
          /\ AtRest(r)
      BY <1>2 DEF OnChainEnd, OnToolEnd, Fails, Idle, End, calls
    <2>2. \A q \in Runs : phase[q] = "open" /\ q # r /\ q \in ancestry => q \in ancestry'
      BY <1>2, <2>1, NothingInside, PrunedKeeps DEF OnChainEnd, OnToolEnd, Fails, handler
    <2>3. \A q \in roots : q # r => q \in roots'
      BY <1>2 DEF OnChainEnd, OnToolEnd, Fails, handler
    <2>4. \A q \in Runs : Parent[q] = r => phase[q] # "open"
      BY <2>1 DEF AtRest
    <2>5. \A c \in Calls : CallIn[c] = r => call[c] \in {"new", "done"}
      BY <2>1 DEF AtRest
    <2>6. phase'[r] = "done" /\ \A q \in Runs \ {r} : phase'[q] = phase[q]
      BY <2>1 DEF TypeOK
    <2>7. \A n \in inflight : owner[n] \in Talkers /\ phase'[owner[n]] = "open"
      BY <2>1, <2>6, ConstantsAssumption DEF Lively, AtRest
    <2>8. \A c \in Calls : call[c] \in {"bound", "running"} => phase'[CallIn[c]] = "open"
      BY <2>5, <2>6, ConstantsAssumption DEF Lively
    <2> QED
      BY <1>0, <2>1, <2>2, <2>3, <2>4, <2>6, <2>7, <2>8 DEF Lively
  <1>3. ASSUME NEW n \in Turns, OnLlmEnd(n) \/ LlmFails(n) \/ \E p \in Runs : OnLlmStart(p, n)
        PROVE  Lively'
    <2>1. /\ UNCHANGED <<phase, call, ancestry, roots>>
          /\ \A m \in inflight' : owner'[m] \in Talkers /\ phase[owner'[m]] = "open"
      BY <1>3 DEF OnLlmEnd, LlmFails, OnLlmStart, AtWork, Lively, calls, handler, TypeOK
    <2> QED
      BY <2>1 DEF Lively
  <1>4. ASSUME NEW c \in Calls, BindMiddlewareRoot(c) \/ MiddlewareStart(c) \/ MiddlewareEnd(c)
        PROVE  Lively'
    <2>1. /\ UNCHANGED <<phase, inflight, owner, ancestry, roots>>
          /\ \A d \in Calls : call'[d] \in {"bound", "running"} => phase[CallIn[d]] = "open"
      BY <1>4 DEF BindMiddlewareRoot, MiddlewareStart, MiddlewareEnd, AtWork, Lively, framework,
         handler, TypeOK
    <2> QED
      BY <2>1 DEF Lively
  <1>5. ASSUME (\E n \in Steps : EnterStep(n) \/ LeaveStep(n)) \/ UNCHANGED vars
        PROVE  Lively'
    BY <1>5 DEF EnterStep, LeaveStep, vars, framework, calls, handler, Lively
  <1> QED
    BY <1>1, <1>2, <1>3, <1>4, <1>5 DEF Next

-----------------------------------------------------------------------------
(***************************************************************************)
(* A middleware call is bound to the root of its chain or to none: with    *)
(* one root open, it is that one.                                          *)
(***************************************************************************)
BoundRight ==
  \A c \in Calls : bound[c] # NoRun => bound[c] \in Enclosing[CallIn[c]] /\ Parent[bound[c]] = NoRun

LEMMA BoundRightStep ==
  ASSUME TypeOK, Lively, BoundRight, [Next]_vars
  PROVE  BoundRight'
  <1>1. ASSUME NEW c \in Calls, BindMiddlewareRoot(c), Binding # NoRun
        PROVE  Binding \in Enclosing[CallIn[c]] /\ Parent[Binding] = NoRun
    <2>1. CallIn[c] \in Runs /\ phase[CallIn[c]] = "open"
      BY <1>1, ConstantsAssumption DEF BindMiddlewareRoot, AtWork
    <2>2. PICK a \in Enclosing[CallIn[c]] : Parent[a] = NoRun /\ a \in roots
      BY <2>1, OpenAround
    <2>3. IsFiniteSet(roots) /\ Cardinality(roots) = 1
      <3>1. IsFiniteSet(roots)
        BY ConstantsAssumption, FS_Subset DEF TypeOK
      <3> QED
        BY <1>1, <3>1 DEF Binding
    <2>4. roots = {a} /\ Binding = a
      BY <2>2, <2>3, FS_Singleton DEF Binding
    <2> QED
      BY <2>2, <2>4
  <1>2. ASSUME NEW c \in Calls, BindMiddlewareRoot(c)
        PROVE  BoundRight'
    BY <1>1, <1>2 DEF BindMiddlewareRoot, BoundRight, TypeOK
  <1>3. ASSUME UNCHANGED bound
        PROVE  BoundRight'
    BY <1>3 DEF BoundRight
  <1> QED
    BY <1>2, <1>3 DEF Next, OnChainStart, OnChainEnd, OnToolStart, OnToolEnd, Fails, OnLlmStart,
       OnLlmEnd, LlmFails, EnterStep, LeaveStep, MiddlewareStart, MiddlewareEnd, vars, calls

LEMMA RightSessionStep ==
  ASSUME TypeOK, BoundRight, RightSession, [Next]_vars
  PROVE  RightSession'
  <1> SUFFICES ASSUME NEW e \in trace', e \notin trace
               PROVE  e.sess = RootOf(RunOf(e.run)) \/ e.type = "ERROR"
    BY DEF RightSession
  <1>1. ASSUME NEW r \in Runs, Parent[r] = NoRun, e \in Emitted(r, {"REG", "INTENT"}, r, NoScope)
        PROVE  e.sess = RootOf(RunOf(e.run))
    <2>1. e.sess = r /\ e.run = r /\ RunOf(r) = r
      BY <1>1, ConstantsAssumption DEF Emitted, RunOf
    <2> QED
      BY <1>1, <2>1, EnclosingLeast, OneRoot
  <1>2. ASSUME NEW r \in Tools, NEW types, e \in ToolEvents(r, types)
        PROVE  e.sess = RootOf(RunOf(e.run))
    <2>1. r \in Runs /\ Parent[r] \in Runs /\ RunOf(r) = r
      BY ConstantsAssumption DEF RunOf
    <2>2. ResolveRoot(Parent[r]) # NoRun /\ e.sess = ResolveRoot(Parent[r]) /\ e.run = r
      BY <1>2 DEF ToolEvents, Emitted
    <2>3. ResolveRoot(Parent[r]) \in Enclosing[r] /\ Parent[ResolveRoot(Parent[r])] = NoRun
      BY <2>1, <2>2, ResolvedRoot, EnclosingParent, ConstantsAssumption
    <2> QED
      BY <2>1, <2>2, <2>3, OneRoot
  <1>3. ASSUME NEW c \in Calls, NEW types, NEW n, e \in MiddlewareEvents(bound[c], types, c, n),
               bound[c] # NoRun
        PROVE  e.sess = RootOf(RunOf(e.run))
    <2>1. e.sess = bound[c] /\ e.run = c /\ RunOf(c) = CallIn[c] /\ CallIn[c] \in Runs
      BY <1>3, ConstantsAssumption DEF MiddlewareEvents, Emitted, RunOf
    <2> QED
      BY <1>3, <2>1, OneRoot DEF BoundRight
  <1>4. ASSUME NEW r \in Runs, OnChainStart(r)
        PROVE  e.sess = RootOf(RunOf(e.run))
    BY <1>1, <1>4 DEF OnChainStart, OpensRoot
  <1>5. ASSUME NEW r \in Runs, OnToolStart(r) \/ OnToolEnd(r)
        PROVE  e.sess = RootOf(RunOf(e.run))
    BY <1>2, <1>5 DEF OnToolStart, OnToolEnd
  <1>6. ASSUME NEW c \in Calls, MiddlewareStart(c) \/ MiddlewareEnd(c)
        PROVE  e.sess = RootOf(RunOf(e.run)) \/ e.type = "ERROR"
    <2>1. \A n : e \in MiddlewareEvents(NoRun, {"ERROR"}, c, n) => e.type = "ERROR"
      BY DEF MiddlewareEvents, Emitted
    <2> QED
      BY <1>3, <1>6, <2>1 DEF MiddlewareStart, MiddlewareEnd
  <1> QED
    BY <1>4, <1>5, <1>6 DEF Next, OnChainEnd, Fails, OnLlmStart, OnLlmEnd, LlmFails, EnterStep, LeaveStep,
       BindMiddlewareRoot, vars

-----------------------------------------------------------------------------
(***************************************************************************)
(* Where runs are routable, what encloses a chain at work is recorded, and *)
(* the walks from it end at its root.                                      *)
(***************************************************************************)
LEMMA ChainsAround ==
  ASSUME Routable, NEW r \in Runs, r \notin Tools
  PROVE  \A q \in Enclosing[r] : q \notin Tools
  <1> DEFINE S == Runs \ Tools
  <1>1. Closed(S)
    BY ConstantsAssumption DEF Closed, Routable
  <1> QED
    BY <1>1, EnclosingLeast

LEMMA Resolves ==
  ASSUME TypeOK, Lively, Routable, NEW r \in Runs, r \notin Tools, phase[r] = "open"
  PROVE  ResolveRoot(r) # NoRun
  <1>1. PICK a \in Enclosing[r] : Parent[a] = NoRun /\ a \in roots
    BY OpenAround
  <1>2. PICK level : Levels(level)
    BY DEF Routable, Levels
  <1>3. \A q \in Enclosing[r] : q \in Runs /\ q \notin Tools /\ q \in ancestry
    BY ChainsAround, OpenAround, EnclosingLeast DEF Lively
  <1>4. \A q \in Enclosing[r] : q # a => q \notin roots
    BY <1>1, OneRoot DEF TypeOK
  <1>5. MaxHops \in Nat /\ level[r] <= MaxHops
    BY <1>2, ConstantsAssumption DEF Levels
  <1>6. Climb(r, roots, MaxHops) = a
    BY <1>1, <1>2, <1>3, <1>4, <1>5, ClimbReaches
  <1> QED
    BY <1>1, <1>6, EnclosingLeast, ConstantsAssumption DEF ResolveRoot

(***************************************************************************)
(* No tool call at work is unseen.                                         *)
(***************************************************************************)
Noticed(x) == \E e \in trace : e.run = x

Seen ==
  /\ \A r \in Tools : phase[r] # "new" => Noticed(r)
  /\ \A c \in Calls : call[c] \in {"running", "done"} => Noticed(c)

LEMMA SeenStep ==
  ASSUME TypeOK, Lively, Routable, Seen, [Next]_vars
  PROVE  Seen'
  <1>1. \A x : Noticed(x) => Noticed(x)'
    <2>1. trace \subseteq trace'
      BY Adds
    <2> QED
      BY <2>1 DEF Noticed
  <1>2. ASSUME NEW root, NEW y \in EventTypes, NEW types, y \in types, NEW x, NEW t,
               trace' = trace \cup Emitted(root, types, x, t)
        PROVE  Noticed(x)'
    <2> DEFINE e == [sess |-> root, type |-> y, run |-> x, id |-> t.id, usage |-> t.usage]
    <2>1. e \in trace' /\ e.run = x
      BY <1>2 DEF Emitted
    <2> QED
      BY <2>1 DEF Noticed
  <1>3. ASSUME NEW r \in Tools, phase'[r] # "new"
        PROVE  Noticed(r)'
    <2>1. CASE phase[r] # "new"
      BY <1>1, <2>1 DEF Seen
    <2>2. CASE OnToolStart(r)
      <3>1. Parent[r] \in Runs /\ Parent[r] \notin Tools /\ phase[Parent[r]] = "open"
        BY <2>2, ConstantsAssumption DEF Routable, OnToolStart, MayStart, AtWork
      <3>2. ResolveRoot(Parent[r]) # NoRun
        BY <3>1, Resolves
      <3>3. trace' = trace \cup Emitted(ResolveRoot(Parent[r]), {"SCOPE", "CTX"}, r,
                                         TurnFor(ResolveRoot(Parent[r]), Parent[r]))
        BY <2>2, <3>2 DEF OnToolStart, ToolEvents
      <3>4. "SCOPE" \in EventTypes
        BY DEF EventTypes
      <3> QED
        BY <1>2, <3>3, <3>4
    <2>3. CASE phase[r] = "new" /\ ~OnToolStart(r)
      <3>1. r \in Runs /\ \A q \in Runs : OnChainStart(q) => q # r
        BY ConstantsAssumption DEF OnChainStart
      <3>2. phase'[r] = "new"
        BY ZenonT(60), <2>3, <3>1 DEF Next, OnChainStart, OnChainEnd, OnToolStart, OnToolEnd, Fails, OnLlmStart,
           OnLlmEnd, LlmFails, EnterStep, LeaveStep, BindMiddlewareRoot, MiddlewareStart, MiddlewareEnd,
           MayStart, Idle, Begin, End, vars, framework, TypeOK
      <3> QED
        BY <1>3, <3>2
    <2> QED
      BY <2>1, <2>2, <2>3
  <1>4. ASSUME NEW c \in Calls, call'[c] \in {"running", "done"}
        PROVE  Noticed(c)'
    <2>1. CASE call[c] \in {"running", "done"}
      BY <1>1, <2>1 DEF Seen
    <2>2. CASE MiddlewareStart(c)
      <3>1. "SCOPE" \in EventTypes /\ "ERROR" \in EventTypes
        BY DEF EventTypes
      <3>2. CASE bound[c] = NoRun
        BY <1>2, <2>2, <3>1, <3>2 DEF MiddlewareStart, MiddlewareEvents
      <3>3. CASE bound[c] # NoRun
        BY <1>2, <2>2, <3>1, <3>3 DEF MiddlewareStart, MiddlewareEvents
      <3> QED
        BY <3>2, <3>3
    <2>3. CASE call[c] \notin {"running", "done"} /\ ~MiddlewareStart(c)
      <3>1. call'[c] \notin {"running", "done"}
        BY ZenonT(60), <2>3 DEF Next, OnChainStart, OnChainEnd, OnToolStart, OnToolEnd, Fails, OnLlmStart,
           OnLlmEnd, LlmFails, EnterStep, LeaveStep, BindMiddlewareRoot, MiddlewareStart, MiddlewareEnd,
           vars, calls, TypeOK
      <3> QED
        BY <1>4, <3>1
    <2> QED
      BY <2>1, <2>2, <2>3
  <1> QED
    BY <1>3, <1>4 DEF Seen

-----------------------------------------------------------------------------
(***************************************************************************)
(* What is recorded leads, by what is recorded, to a root that is open.    *)
(***************************************************************************)
Rooted(n) ==
  /\ n \notin Tools
  /\ Parent[n] # NoRun => Parent[n] \in ancestry
  /\ \E a \in Enclosing[n] : Parent[a] = NoRun /\ a \in roots

LEMMA RootedAround ==
  ASSUME TypeOK, \A n \in ancestry : Rooted(n), NEW r \in ancestry
  PROVE  \A q \in Enclosing[r] : q \in ancestry
  <1>1. Closed(ancestry)
    BY DEF Closed, Rooted
  <1> QED
    BY <1>1, EnclosingLeast DEF TypeOK

LEMMA RootedStep ==
  ASSUME TypeOK, Lively, Routable, \A n \in ancestry : Rooted(n), [Next]_vars
  PROVE  \A n \in ancestry' : Rooted(n)'
  <1>1. ASSUME NEW r \in Runs, OnChainStart(r)
        PROVE  \A n \in ancestry' : Rooted(n)'
    <2>1. /\ ancestry' = ancestry \cup {r} /\ roots \subseteq roots' /\ r \notin Tools
          /\ Parent[r] = NoRun => r \in roots'
          /\ Parent[r] # NoRun => Parent[r] \in Runs /\ phase[Parent[r]] = "open"
      BY <1>1, ConstantsAssumption DEF OnChainStart, OpensRoot, MayStart, AtWork
    <2>2. CASE Parent[r] = NoRun
      BY <2>1, <2>2, EnclosingLeast DEF Rooted
    <2>3. CASE Parent[r] # NoRun
      <3>1. Parent[r] \in ancestry /\ \E a \in Enclosing[Parent[r]] : Parent[a] = NoRun /\ a \in roots
        BY <2>1, <2>3, OpenAround DEF Lively, Routable
      <3> QED
        BY <2>1, <2>3, <3>1, EnclosingParent DEF Rooted
    <2> QED
      BY <2>2, <2>3
  <1>2. ASSUME NEW r \in Runs, OnChainEnd(r), r \in roots, NEW n \in ancestry'
        PROVE  Rooted(n)'
    <2>1. ancestry' = Pruned(r) /\ roots' = roots \ {r} /\ Parent[r] = NoRun
      BY <1>2 DEF OnChainEnd, TypeOK
    <2>2. n \in ancestry /\ n # r /\ Climb(n, roots, MaxHops - 1) # r /\ n \in Runs
      BY <1>2, <2>1 DEF Pruned, TypeOK
    <2>3. Rooted(n)
      BY <2>2
    <2>4. PICK a \in Enclosing[n] : Parent[a] = NoRun /\ a \in roots
      BY <2>3 DEF Rooted
    <2>5. PICK level : Levels(level)
      BY DEF Routable, Levels
    <2>6. Climb(n, roots, MaxHops - 1) = a
      <3>1. MaxHops - 1 \in Nat /\ level[n] <= MaxHops - 1
        BY <2>2, <2>5, ConstantsAssumption DEF Levels
      <3>2. \A q \in Enclosing[n] : q \in ancestry /\ q \notin Tools
        BY <2>2, RootedAround DEF Rooted
      <3>3. \A q \in Enclosing[n] : q # a => q \notin roots
        BY <2>2, <2>4, OneRoot DEF TypeOK
      <3> QED
        BY <2>2, <2>4, <2>5, <3>1, <3>2, <3>3, ClimbReaches
    <2>7. a # r
      BY <2>2, <2>6
    <2>8. r \notin Enclosing[n]
      BY <2>1, <2>2, <2>4, <2>7, OneRoot
    <2>9. Parent[n] # NoRun => Parent[n] \in ancestry'
      <3>1. ASSUME Parent[n] # NoRun
            PROVE  Parent[n] \in ancestry /\ Parent[n] # r /\ r \notin Enclosing[Parent[n]]
        BY <2>2, <2>3, <2>8, <3>1, EnclosingParent, EnclosingLeast DEF Rooted
      <3> QED
        BY <2>1, <3>1, PrunedKeeps
    <2> QED
      BY <2>1, <2>3, <2>4, <2>7, <2>9 DEF Rooted
  <1>3. ASSUME UNCHANGED <<ancestry, roots>>
        PROVE  \A n \in ancestry' : Rooted(n)'
    BY <1>3 DEF Rooted
  <1>4. UNCHANGED <<ancestry, roots>> \/ \E r \in Runs : OnChainStart(r) \/ (OnChainEnd(r) /\ r \in roots)
    BY DEF Next, OnChainEnd, OnToolStart, OnToolEnd, Fails, OnLlmStart, OnLlmEnd, LlmFails, EnterStep,
       LeaveStep, BindMiddlewareRoot, MiddlewareStart, MiddlewareEnd, vars, handler
  <1> QED
    BY <1>1, <1>2, <1>3, <1>4

-----------------------------------------------------------------------------
(***************************************************************************)
(* Where chains that call models are apart, each writes the slot of its    *)
(* own branch and no other.                                                *)
(***************************************************************************)
Slot(root, n) ==
  LET t == scopes[root][n] IN
  /\ t.set => n \in Talkers
  /\ t.id \in Turns => owner[t.id] = n /\ t.usage \in {NoTurn, t.id} \cup beside[t.id]
  /\ t.id \notin Turns => t.usage = NoTurn

Beside(i, m) == i \in Turns /\ (m = i \/ m \in beside[i])

Own(m) ==
  m \in inflight => Beside(scopes[RootOf(owner[m])][owner[m]].id, m)

BranchInv ==
  /\ \A root, n \in Runs : Slot(root, n)
  /\ \A m \in Turns : Own(m)

LEMMA OwnSlot ==
  ASSUME TypeOK, Lively, Routable, Apart, BranchInv, NEW p \in Talkers, phase[p] = "open"
  PROVE  /\ p \in Runs /\ ResolveRoot(p) = RootOf(p) /\ ResolveRoot(p) # NoRun
         /\ RootOf(p) \in Runs /\ ScopeForLlm(RootOf(p), p) = p
  <1>1. p \in Runs /\ p \notin Tools
    BY ConstantsAssumption
  <1>2. ResolveRoot(p) # NoRun /\ ResolveRoot(p) = RootOf(p) /\ RootOf(p) \in Runs
    BY <1>1, Resolves, ResolvedRoot
  <1>3. ScopeForLlm(RootOf(p), p) = p
    <2>1. CASE BranchKey(RootOf(p), p) # NoRun
      BY <1>1, <1>2, <2>1, BranchWithin DEF ScopeForLlm, BranchInv, Slot, Apart
    <2>2. CASE BranchKey(RootOf(p), p) = NoRun
      BY <2>2 DEF ScopeForLlm
    <2> QED
      BY <2>1, <2>2
  <1> QED
    BY <1>1, <1>2, <1>3

LEMMA BranchStep ==
  ASSUME TypeOK, Lively, Routable, Apart, BranchInv, [Next]_vars
  PROVE  BranchInv'
  <1>0. /\ \A root, n \in Runs : Slot(root, n)
        /\ \A m \in Turns : Own(m)
    BY DEF BranchInv
  <1>1. ASSUME NEW p \in Runs, NEW n \in Turns, OnLlmStart(p, n)
        PROVE  BranchInv'
    <2> DEFINE root == RootOf(p)
               new  == [set |-> TRUE, id |-> n, usage |-> NoTurn]
    <2>1. p \in Talkers /\ phase[p] = "open" /\ owner[n] = NoRun
      BY <1>1 DEF OnLlmStart, AtWork
    <2>2. root \in Runs /\ scopes' = [scopes EXCEPT ![root][p] = new]
      BY <1>1, <2>1, OwnSlot DEF OnLlmStart
    <2>3. /\ owner' = [owner EXCEPT ![n] = p] /\ inflight' = inflight \cup {n}
          /\ beside' = [beside EXCEPT ![n] = {m \in inflight : owner[m] = p}]
      BY <1>1 DEF OnLlmStart
    <2>4. \A m \in Turns : owner[m] # NoRun => m # n /\ owner'[m] = owner[m] /\ beside'[m] = beside[m]
      BY <2>1, <2>3 DEF TypeOK
    <2>5. owner'[n] = p /\ beside'[n] = {m \in inflight : owner[m] = p} /\ n \notin inflight
      BY <2>1, <2>3 DEF TypeOK
    <2> HIDE DEF root
    <2>6. /\ scopes'[root][p] = new
          /\ \A r, q \in Runs : r # root \/ q # p => scopes'[r][q] = scopes[r][q]
      BY <2>2 DEF TypeOK
    <2>7. ASSUME NEW r \in Runs, NEW q \in Runs
          PROVE  Slot(r, q)'
      <3>1. CASE r = root /\ q = p
        BY <2>1, <2>5, <2>6, <3>1 DEF Slot
      <3>2. CASE r # root \/ q # p
        <4> DEFINE t == scopes[r][q]
        <4>1. scopes'[r][q] = t /\ q # NoRun
          BY <2>6, <3>2, ConstantsAssumption
        <4>2. t.set => q \in Talkers
          BY <1>0 DEF Slot
        <4>3. t.id \in Turns => owner[t.id] = q /\ t.usage \in {NoTurn, t.id} \cup beside[t.id]
          BY <1>0 DEF Slot
        <4>4. t.id \notin Turns => t.usage = NoTurn
          BY <1>0 DEF Slot
        <4> HIDE DEF t
        <4> QED
          BY <2>4, <4>1, <4>2, <4>3, <4>4 DEF Slot
      <3> QED
        BY <3>1, <3>2
    <2>8. ASSUME NEW m \in Turns, m \in inflight'
          PROVE  Beside(scopes[RootOf(owner[m])][owner[m]].id, m)'
      <3>1. CASE m = n
        BY <2>5, <2>6, <3>1 DEF Beside, root
      <3>2. CASE m # n
        <4>1. m \in inflight /\ owner[m] \in Runs /\ owner'[m] = owner[m]
          BY <2>3, <2>4, <2>8, <3>2 DEF TypeOK
        <4>2. CASE owner[m] = p
          BY <2>5, <2>6, <4>1, <4>2 DEF Beside, root
        <4>3. CASE owner[m] # p
          <5>1. PICK q \in Runs : q = owner[m]
            BY <4>1
          <5>2. q \in Talkers /\ phase[q] = "open"
            BY <4>1, <5>1 DEF Lively
          <5>3. PICK top \in Runs : top = RootOf(q)
            BY <5>2, OwnSlot
          <5>4. PICK i \in Turns : i = scopes[top][q].id /\ (m = i \/ m \in beside[i])
            BY <1>0, <4>1, <5>1, <5>3 DEF Own, Beside
          <5>5. scopes'[top][q] = scopes[top][q]
            BY <2>2, <4>3, <5>1 DEF TypeOK
          <5>6. Slot(top, q)
            BY <1>0
          <5>7. owner[i] = q
            BY <5>4, <5>6 DEF Slot
          <5>8. beside'[i] = beside[i]
            BY <2>4, <5>7, ConstantsAssumption
          <5>9. owner'[m] = q
            BY <4>1, <5>1
          <5> QED
            BY <5>3, <5>4, <5>5, <5>8, <5>9 DEF Beside
        <4> QED
          BY <4>2, <4>3
      <3> QED
        BY <3>1, <3>2
    <2>9. \A m \in Turns : Own(m)'
      BY <2>8 DEF Own
    <2> QED
      BY <2>7, <2>9 DEF BranchInv
  <1>2. ASSUME NEW n \in Turns, OnLlmEnd(n)
        PROVE  BranchInv'
    <2> DEFINE p    == owner[n]
               root == RootOf(p)
               new  == [scopes[root][p] EXCEPT !.set = TRUE, !.usage = n]
    <2>1. /\ p \in Talkers /\ p \in Runs /\ phase[p] = "open" /\ n \in inflight
          /\ UNCHANGED <<owner, beside>> /\ inflight' \subseteq inflight
      BY <1>2, ConstantsAssumption DEF OnLlmEnd, Lively
    <2>2. root \in Runs /\ scopes' = [scopes EXCEPT ![root][p] = new]
      BY <1>2, <2>1, OwnSlot DEF OnLlmEnd
    <2>3. scopes[root][p] \in Scope
      BY <2>1, <2>2 DEF TypeOK
    <2>4. Beside(scopes[root][p].id, n)
      BY <1>0, <2>1 DEF Own
    <2>5. new.set = TRUE /\ new.id = scopes[root][p].id /\ new.usage = n
      <3> HIDE DEF root, p
      <3> QED
        BY <2>3 DEF Scope
    <2>6. Slot(root, p)
      BY <1>0, <2>1, <2>2
    <2> HIDE DEF root, new, p
    <2>7. /\ scopes'[root][p] = new
          /\ \A r, q \in Runs : r # root \/ q # p => scopes'[r][q] = scopes[r][q]
      BY <2>1, <2>2 DEF TypeOK
    <2>8. \A r, q \in Runs : scopes'[r][q].id = scopes[r][q].id
      BY <2>5, <2>7
    <2>9. ASSUME NEW r \in Runs, NEW q \in Runs
          PROVE  Slot(r, q)'
      <3>1. CASE r = root /\ q = p
        BY <2>1, <2>4, <2>5, <2>6, <2>7, <3>1 DEF Slot, Beside
      <3>2. CASE r # root \/ q # p
        BY <1>0, <2>1, <2>7, <3>2 DEF Slot
      <3> QED
        BY <3>1, <3>2
    <2>10. \A m \in Turns : Own(m)'
      <3>1. ASSUME NEW m \in Turns, m \in inflight'
            PROVE  Beside(scopes[RootOf(owner[m])][owner[m]].id, m)'
        <4>1. owner[m] \in Talkers /\ phase[owner[m]] = "open" /\ m \in inflight
          BY <2>1, <3>1 DEF Lively
        <4>2. owner[m] \in Runs /\ RootOf(owner[m]) \in Runs
          BY <4>1, OwnSlot, ConstantsAssumption
        <4> QED
          BY <1>0, <2>1, <2>8, <4>1, <4>2 DEF Own, Beside
      <3> QED
        BY <3>1 DEF Own
    <2> QED
      BY <2>9, <2>10 DEF BranchInv
  <1>3. ASSUME NEW r \in Runs, OnChainEnd(r), r \in roots
        PROVE  BranchInv'
    <2>1. /\ AtRest(r) /\ scopes' = [scopes EXCEPT ![r] = NoScopes]
          /\ UNCHANGED <<owner, inflight, beside>>
      BY <1>3 DEF OnChainEnd, Idle
    <2>2. \A n \in Runs : Slot(r, n)'
      <3>1. scopes'[r] = NoScopes
        BY <2>1 DEF TypeOK
      <3>2. \A n \in Runs : scopes'[r][n] = NoScope
        BY <3>1 DEF NoScopes
      <3>3. NoScope.set = FALSE /\ NoScope.id = NoTurn /\ NoScope.usage = NoTurn
        BY DEF NoScope
      <3>4. NoTurn \notin Turns
        BY DEF NoTurn, Turns
      <3> QED
        BY <3>2, <3>3, <3>4 DEF Slot
    <2>3. \A root, n \in Runs : root # r => Slot(root, n)'
      <3>1. \A root \in Runs : root # r => scopes'[root] = scopes[root]
        BY <2>1 DEF TypeOK
      <3> QED
        BY <1>0, <2>1, <3>1 DEF Slot
    <2>4. ASSUME NEW m \in inflight
          PROVE  RootOf(owner[m]) # r /\ RootOf(owner[m]) \in Runs
      <3>1. owner[m] \in Runs /\ phase[owner[m]] = "open" /\ owner[m] # r
        BY <2>1, ConstantsAssumption DEF Lively, AtRest
      <3>2. RootOf(owner[m]) \in Enclosing[owner[m]]
        BY <3>1, OpenAround, OneRoot
      <3> QED
        BY <2>1, <3>1, <3>2, NothingInside, EnclosingLeast
    <2>5. \A m \in Turns : Own(m)'
      BY <1>0, <2>1, <2>4 DEF Own, Beside, TypeOK
    <2> QED
      BY <2>2, <2>3, <2>5 DEF BranchInv
  <1>4. ASSUME UNCHANGED <<owner, beside, scopes>>, inflight' \subseteq inflight
        PROVE  BranchInv'
    BY <1>0, <1>4 DEF BranchInv, Slot, Own, Beside
  <1>5. \/ UNCHANGED <<owner, beside, scopes>> /\ inflight' \subseteq inflight
        \/ \E r \in Runs : (OnChainEnd(r) /\ r \in roots) \/ \E n \in Turns : OnLlmStart(r, n)
        \/ \E n \in Turns : OnLlmEnd(n)
    <2>1. ASSUME NEW r \in Runs, OnChainStart(r) \/ OnToolStart(r) \/ OnToolEnd(r) \/ Fails(r)
                                 \/ (OnChainEnd(r) /\ r \notin roots)
          PROVE  UNCHANGED <<owner, beside, scopes, inflight>>
      BY <2>1 DEF OnChainStart, OnChainEnd, OnToolStart, OnToolEnd, Fails, handler
    <2>2. ASSUME NEW n \in Turns, LlmFails(n)
          PROVE  UNCHANGED <<owner, beside, scopes>> /\ inflight' \subseteq inflight
      BY <2>2 DEF LlmFails, handler
    <2>3. ASSUME UNCHANGED vars \/ (\E n \in Steps : EnterStep(n) \/ LeaveStep(n))
                 \/ \E c \in Calls : BindMiddlewareRoot(c) \/ MiddlewareStart(c) \/ MiddlewareEnd(c)
          PROVE  UNCHANGED <<owner, beside, scopes, inflight>>
      BY <2>3 DEF EnterStep, LeaveStep, BindMiddlewareRoot, MiddlewareStart, MiddlewareEnd, vars,
         framework, handler
    <2>4. \/ UNCHANGED <<owner, beside, scopes>> /\ inflight' \subseteq inflight
          \/ UNCHANGED <<owner, beside, scopes, inflight>>
          \/ \E r \in Runs : (OnChainEnd(r) /\ r \in roots) \/ \E n \in Turns : OnLlmStart(r, n)
          \/ \E n \in Turns : OnLlmEnd(n)
      BY <2>1, <2>2, <2>3, Zenon DEF Next
    <2> QED
      BY <2>4
  <1> QED
    BY <1>1, <1>2, <1>3, <1>4, <1>5

OwnTurn(e) ==
  IF e.id \in Turns
  THEN owner[e.id] \in Enclosing[RunOf(e.run)] /\ e.usage \in {NoTurn, e.id} \cup beside[e.id]
  ELSE e.usage = e.id

LEMMA SameBranchStep ==
  ASSUME TypeOK, BranchInv, SameBranch, [Next]_vars
  PROVE  SameBranch'
  <1>0. \A e \in trace : OwnTurn(e)
    BY DEF SameBranch, OwnTurn
  <1>1. ASSUME NEW e \in trace, e.id \in Turns
        PROVE  owner'[e.id] = owner[e.id] /\ beside'[e.id] = beside[e.id]
    <2>1. RunOf(e.run) \in Runs
      BY ConstantsAssumption DEF RunOf, TypeOK, Event
    <2>2. owner[e.id] \in Runs
      BY <1>0, <1>1, <2>1, EnclosingLeast DEF OwnTurn
    <2>3. owner[e.id] # NoRun
      BY <2>2, ConstantsAssumption
    <2>4. ASSUME NEW p \in Runs, NEW n \in Turns, OnLlmStart(p, n)
          PROVE  owner'[e.id] = owner[e.id] /\ beside'[e.id] = beside[e.id]
      BY <1>1, <2>3, <2>4 DEF OnLlmStart, TypeOK
    <2>5. UNCHANGED <<owner, beside>> \/ \E p \in Runs, n \in Turns : OnLlmStart(p, n)
      BY DEF Next, OnChainStart, OnChainEnd, OnToolStart, OnToolEnd, Fails, OnLlmEnd, LlmFails,
         EnterStep, LeaveStep, BindMiddlewareRoot, MiddlewareStart, MiddlewareEnd, vars, framework
    <2> QED
      BY <2>4, <2>5
  <1>2. NoTurn \notin Turns /\ \A n \in Steps : n \notin Turns
    BY ConstantsAssumption DEF NoTurn, Turns
  <1>3. ASSUME NEW r \in Runs, NEW e \in Emitted(r, {"REG", "INTENT"}, r, NoScope)
        PROVE  e.id \notin Turns /\ e.usage = e.id
    BY <1>2 DEF Emitted, NoScope
  <1>4. ASSUME NEW c, NEW root, NEW types, NEW n \in {NoTurn} \cup Steps,
               NEW e \in MiddlewareEvents(root, types, c, n)
        PROVE  e.id \notin Turns /\ e.usage = e.id
    BY <1>2 DEF MiddlewareEvents, Emitted
  <1>5. ASSUME NEW r \in Tools, NEW types, NEW e \in ToolEvents(r, types)
        PROVE  OwnTurn(e)
    <2> DEFINE p == Parent[r]
               root == ResolveRoot(p)
               t == TurnFor(root, p)
    <2>1. r \in Runs /\ p \in Runs /\ p # NoRun /\ RunOf(r) = r
      BY ConstantsAssumption DEF RunOf
    <2>2. root # NoRun /\ e.run = r /\ e.id = t.id /\ e.usage = t.usage
      BY <1>5 DEF ToolEvents, Emitted
    <2>3. root \in Runs
      BY <2>1, <2>2, ResolvedRoot
    <2>4. /\ t.id \in Turns => owner[t.id] \in Enclosing[p] /\ t.usage \in {NoTurn, t.id} \cup beside[t.id]
          /\ t.id \notin Turns => t.id = NoTurn /\ t.usage = NoTurn
      <3>1. CASE BranchKey(root, p) = NoRun
        <4>1. t = NoScope
          BY <3>1 DEF TurnFor
        <4> HIDE DEF t
        <4> QED
          BY <1>2, <4>1 DEF NoScope
      <3>2. CASE BranchKey(root, p) # NoRun
        <4>1. t = scopes[root][BranchKey(root, p)]
          BY <3>2 DEF TurnFor
        <4>2. BranchKey(root, p) \in Enclosing[p] /\ Slot(root, BranchKey(root, p))
          BY <2>1, <2>3, <3>2, BranchWithin DEF BranchInv
        <4>3. t.id \in {NoTurn} \cup Turns
          <5>1. t \in Scope
            BY <2>1, <2>3, ScopeType
          <5> HIDE DEF t
          <5> QED
            BY <5>1 DEF Scope
        <4> HIDE DEF t
        <4> QED
          BY <4>1, <4>2, <4>3 DEF Slot
      <3> QED
        BY <3>1, <3>2
    <2>5. Enclosing[p] \subseteq Enclosing[r]
      BY <2>1, EnclosingParent
    <2> HIDE DEF t
    <2> QED
      BY <2>1, <2>2, <2>4, <2>5 DEF OwnTurn
  <1>6. UNCHANGED <<owner, beside>> \/ UNCHANGED trace
    BY DEF Next, OnChainStart, OnChainEnd, OnToolStart, OnToolEnd, Fails, OnLlmStart, OnLlmEnd,
       LlmFails, EnterStep, LeaveStep, BindMiddlewareRoot, MiddlewareStart, MiddlewareEnd, vars,
       framework
  <1>7. ASSUME NEW e \in trace', e \notin trace
        PROVE  OwnTurn(e)'
    <2>1. OwnTurn(e)
      BY <1>3, <1>4, <1>5, <1>7, Adds DEF OwnTurn
    <2>2. UNCHANGED <<owner, beside>>
      BY <1>6, <1>7
    <2> QED
      BY <2>1, <2>2 DEF OwnTurn
  <1>8. ASSUME NEW e \in trace
        PROVE  OwnTurn(e)'
    BY <1>0, <1>1, <1>8 DEF OwnTurn
  <1> QED
    BY <1>7, <1>8 DEF SameBranch, OwnTurn

-----------------------------------------------------------------------------
(***************************************************************************)
(* The inductive invariants, and what follows from them.                   *)
(***************************************************************************)
SessionInv == TypeOK /\ Lively /\ BoundRight /\ RightSession

RoutedInv == SessionInv /\ Seen /\ \A n \in ancestry : Rooted(n)

TurnInv == SessionInv /\ BranchInv /\ SameBranch

LEMMA Initially == Init => RoutedInv /\ TurnInv
  <1> SUFFICES ASSUME Init PROVE RoutedInv /\ TurnInv
    OBVIOUS
  <1>1. TypeOK
    BY InitialTypes
  <1>2. Lively /\ BoundRight /\ RightSession /\ Seen /\ SameBranch
    BY ConstantsAssumption DEF Init, Lively, BoundRight, RightSession, Seen, SameBranch
  <1>3. \A n \in ancestry : Rooted(n)
    BY DEF Init
  <1>4. BranchInv
    BY DEF Init, BranchInv, Slot, Own, NoScopes, NoScope, NoTurn, Turns
  <1> QED
    BY <1>1, <1>2, <1>3, <1>4 DEF RoutedInv, TurnInv, SessionInv

LEMMA SessionStep == SessionInv /\ [Next]_vars => SessionInv'
  BY TypeStep, LivelyStep, BoundRightStep, RightSessionStep DEF SessionInv

(***************************************************************************)
(* However invocations overlap, and although some fail and stay open, an   *)
(* event is in the session of its own invocation or is an error without    *)
(* one (_resolve_root, _bind_middleware_root).                             *)
(***************************************************************************)
THEOREM Sessions == Spec => []RightSession
  <1>1. Init => SessionInv
    BY Initially DEF RoutedInv
  <1>2. SessionInv => RightSession
    BY DEF SessionInv
  <1> QED
    BY <1>1, <1>2, SessionStep, PTL DEF Spec

(***************************************************************************)
(* Besides, where runs are routable, every tool call leaves an event       *)
(* (on_tool_start, awrap_tool_call).                                       *)
(***************************************************************************)
THEOREM Attributes == ASSUME Routable PROVE Spec => []Attributed
  <1>1. RoutedInv /\ [Next]_vars => RoutedInv'
    BY SessionStep, SeenStep, RootedStep DEF RoutedInv, SessionInv
  <1>2. RoutedInv => Attributed
    BY DEF RoutedInv, SessionInv, Attributed, Seen, Governed, Noticed
  <1> QED
    BY <1>1, <1>2, Initially, PTL DEF Spec

(***************************************************************************)
(* Where runs are routable, the handler remembers no run once no root is   *)
(* open, and none of an invocation that has ended (_prune_ancestry).       *)
(***************************************************************************)
THEOREM Reclaims == ASSUME Routable PROVE Spec => []Reclaimed
  <1>1. RoutedInv /\ [Next]_vars => RoutedInv'
    BY SessionStep, SeenStep, RootedStep DEF RoutedInv, SessionInv
  <1>2. RoutedInv => Reclaimed
    <2>1. ASSUME TypeOK, NEW r \in ancestry, Rooted(r)
          PROVE  RootOf(r) \in roots
      BY <2>1, OneRoot DEF Rooted, TypeOK
    <2> QED
      BY <2>1 DEF RoutedInv, SessionInv, Reclaimed
  <1> QED
    BY <1>1, <1>2, Initially, PTL DEF Spec

(***************************************************************************)
(* Where runs are routable and chains that call models are apart, a tool   *)
(* event carries a turn of its own branch or of a chain around it, however *)
(* many model calls are out.  The usage it carries is that turn's, or that *)
(* of a call its chain had out when the turn started (on_llm_start,        *)
(* on_llm_end).                                                            *)
(***************************************************************************)
THEOREM Branches == ASSUME Routable, Apart PROVE Spec => []SameBranch
  <1>1. TurnInv /\ [Next]_vars => TurnInv'
    BY SessionStep, BranchStep, SameBranchStep DEF TurnInv, SessionInv
  <1>2. TurnInv => SameBranch
    BY DEF TurnInv
  <1> QED
    BY <1>1, <1>2, Initially, PTL DEF Spec
=============================================================================
