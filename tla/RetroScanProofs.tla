---------------------------- MODULE RetroScanProofs ----------------------------
(***************************************************************************)
(* Theorems about RetroScan, for any tree of directories, any transcripts, *)
(* any window and any bound on targets.                                    *)
(*                                                                         *)
(* 1. The sums of the report are the library's sums over finite sets; what *)
(*    is needed of them goes by induction on a set's size (BySize).        *)
(* 2. A walk ends at the first directory that stops it (Walk); along a     *)
(*    walk without memory the answers are one (Along), so a memory of such *)
(*    answers ends another walk sooner and with the same one (Walked).     *)
(* 3. IInv: the counters and the collected writes add up to what is read,  *)
(*    the findings and two counters to what is classified.  It needs that  *)
(*    a session, class and target have one finding (Distinct) and that     *)
(*    nothing is classified before everything is read (ReadsFirst), nor    *)
(*    reported before everything is classified (ReportsLast).              *)
(* 4. OrderInv: each finding is founded on what the log says of its writes *)
(*    (FoundedOn), since a session's directories are all known by then     *)
(*    (AllSeen) and the memory changes no answer (Compared).  Writes of    *)
(*    one session to one target have one destination and so one class,     *)
(*    which is why they end in one finding (SameFinding).                  *)
(***************************************************************************)
EXTENDS RetroScan, SequenceTheorems, FiniteSetTheorems, WellFoundedInduction, TLAPS

-----------------------------------------------------------------------------
(***************************************************************************)
(* Sets of naturals have a least member.                                   *)
(***************************************************************************)
Less == {r \in Nat \X Nat : r[1] < r[2]}

LEMMA Least ==
  ASSUME NEW T \in SUBSET Nat, T # {}
  PROVE  \E i \in T : \A j \in T : i <= j
  <1>1. OpToRel(<, Nat) = Less
    BY DEF OpToRel, Less
  <1>2. IsWellFoundedOn(Less, Nat)
    BY <1>1, NatLessThanWellFounded
  <1>3. PICK i \in T : \A j \in T : <<j, i>> \notin Less
    BY <1>2, WFMin
  <1>4. ASSUME NEW j \in T PROVE i <= j
    <2>1. i \in Nat /\ j \in Nat
      OBVIOUS
    <2>2. ~(j < i)
      BY <1>3, <2>1 DEF Less
    <2> QED
      BY <2>1, <2>2
  <1> QED
    BY <1>4

LEMMA UpTo ==
  ASSUME NEW S, NEW m \in Nat, 0 \in S, \A k \in 0..m : k < m /\ k \in S => k + 1 \in S
  PROVE  \A k \in 0..m : k \in S
  <1> DEFINE T == (0..m) \ S
  <1>1. SUFFICES ASSUME T # {} PROVE FALSE
    OBVIOUS
  <1>2. T \in SUBSET Nat
    OBVIOUS
  <1>3. PICK i \in T : \A j \in T : i <= j
    BY <1>1, <1>2, Least
  <1>4. i \in Nat /\ i # 0 /\ i <= m
    BY <1>3
  <1>5. i - 1 \in 0..m /\ i - 1 < m /\ i - 1 \notin T
    BY <1>3, <1>4
  <1>6. (i - 1) + 1 \in S
    BY <1>5
  <1> QED
    BY <1>3, <1>4, <1>6


-----------------------------------------------------------------------------
(***************************************************************************)
(* Sums over finite sets, as the library folds them.                       *)
(***************************************************************************)
LEMMA BySize ==
  ASSUME NEW U, IsFiniteSet(U), NEW P,
         \A s \in SUBSET U : (\A x \in s : s \ {x} \in P) => s \in P
  PROVE  \A s \in SUBSET U : s \in P
  <1> DEFINE S == {n \in Nat : \A s \in SUBSET U : Cardinality(s) = n => s \in P}
             m == Cardinality(U)
  <1>1. m \in Nat
    BY FS_CardinalityType
  <1>2. \A s \in SUBSET U : IsFiniteSet(s) /\ Cardinality(s) \in 0..m
    BY <1>1, FS_Subset, FS_CardinalityType
  <1>3. 0 \in S
    <2>1. ASSUME NEW s \in SUBSET U, Cardinality(s) = 0 PROVE s \in P
      <3>1. s = {}
        BY <1>2, <2>1, FS_EmptySet
      <3> QED
        BY <3>1
    <2> QED
      BY <2>1
  <1>4. ASSUME NEW n \in 0..m, n < m, n \in S
        PROVE  n + 1 \in S
    <2>1. ASSUME NEW s \in SUBSET U, Cardinality(s) = n + 1 PROVE s \in P
      <3>1. ASSUME NEW x \in s PROVE s \ {x} \in P
        <4>1. Cardinality(s \ {x}) = n
          BY <1>2, <1>4, <2>1, FS_RemoveElement
        <4> QED
          BY <1>4, <4>1
      <3> QED
        BY <3>1
    <2> QED
      BY <2>1
  <1> HIDE DEF S, m
  <1>5. \A n \in 0..m : n \in S
    BY <1>1, <1>3, <1>4, UpTo
  <1> QED
    BY <1>2, <1>5 DEF S

Pick(s) == CHOOSE x \in s : TRUE

IsSum(f, w, S) ==
  f = [s \in SUBSET S |-> IF s = {} THEN 0 ELSE w[Pick(s)] + f[s \ {Pick(s)}]]

Small(S, n) == {s \in SUBSET S : Cardinality(s) <= n}

IsSumTo(f, w, S, n) ==
  f = [s \in Small(S, n) |-> IF s = {} THEN 0 ELSE w[Pick(s)] + f[s \ {Pick(s)}]]

SumOf(w, S) == (CHOOSE f : IsSum(f, w, S))[S]

LEMMA PickIn == \A s : s # {} => Pick(s) \in s
  BY DEF Pick

\* There is such a function, by induction on how large its sets are.
LEMMA SumExists ==
  ASSUME NEW S, IsFiniteSet(S), NEW w
  PROVE  \E f : IsSum(f, w, S)
  <1> DEFINE T == {n \in Nat : \E f : IsSumTo(f, w, S, n)}
             m == Cardinality(S)
  <1>1. m \in Nat
    BY FS_CardinalityType
  <1>2. \A s \in SUBSET S : IsFiniteSet(s) /\ Cardinality(s) \in 0..m
    BY <1>1, FS_Subset, FS_CardinalityType
  <1>3. 0 \in T
    <2>1. \A s \in Small(S, 0) : s = {}
      BY <1>2, FS_EmptySet DEF Small
    <2>2. IsSumTo([s \in Small(S, 0) |-> 0], w, S, 0)
      BY <2>1 DEF IsSumTo
    <2> QED
      BY <2>2
  <1>4. ASSUME NEW n \in 0..m, n < m, n \in T
        PROVE  n + 1 \in T
    <2>1. PICK f : IsSumTo(f, w, S, n)
      BY <1>4
    <2> DEFINE g == [s \in Small(S, n + 1) |->
                       IF s = {} THEN 0 ELSE w[Pick(s)] + f[s \ {Pick(s)}]]
    <2>2. \A s \in Small(S, n) : f[s] = IF s = {} THEN 0 ELSE w[Pick(s)] + f[s \ {Pick(s)}]
      BY <2>1 DEF IsSumTo
    <2>3. Small(S, n) \subseteq Small(S, n + 1)
      BY <1>2 DEF Small
    <2>4. \A s \in Small(S, n) : g[s] = f[s]
      BY <2>2, <2>3
    <2>5. \A s \in Small(S, n + 1) : s # {} => s \ {Pick(s)} \in Small(S, n)
      <3>1. SUFFICES ASSUME NEW s \in Small(S, n + 1), s # {} PROVE s \ {Pick(s)} \in Small(S, n)
        OBVIOUS
      <3>2. s \in SUBSET S /\ Cardinality(s) <= n + 1 /\ IsFiniteSet(s) /\ Cardinality(s) \in Nat
        BY <1>2 DEF Small
      <3>3. Pick(s) \in s
        BY <3>1, PickIn
      <3>4. Cardinality(s \ {Pick(s)}) = Cardinality(s) - 1
        BY <3>2, <3>3, FS_RemoveElement
      <3>5. Cardinality(s \ {Pick(s)}) <= n
        BY <1>1, <3>2, <3>4
      <3> QED
        BY <3>2, <3>5 DEF Small
    <2>6. g = [s \in Small(S, n + 1) |-> IF s = {} THEN 0 ELSE w[Pick(s)] + g[s \ {Pick(s)}]]
      <3>1. \A s \in Small(S, n + 1) : g[s] = IF s = {} THEN 0 ELSE w[Pick(s)] + f[s \ {Pick(s)}]
        OBVIOUS
      <3>2. g = [s \in Small(S, n + 1) |-> g[s]]
        OBVIOUS
      <3> HIDE DEF g
      <3> QED
        BY <2>4, <2>5, <3>1, <3>2
    <2> HIDE DEF g
    <2> QED
      BY <2>6 DEF IsSumTo
  <1> HIDE DEF T
  <1>5. m \in T
    <2>1. m \in 0..m /\ 0 \in 0..m
      BY <1>1
    <2> HIDE DEF m
    <2>2. \A n \in 0..m : n \in T
      BY <1>1, <1>3, <1>4, UpTo
    <2> QED
      BY <2>1, <2>2
  <1>6. Small(S, m) = SUBSET S
    BY <1>2 DEF Small
  <1> QED
    BY <1>5, <1>6 DEF T, IsSumTo, IsSum

LEMMA SumIs ==
  ASSUME NEW f, NEW w, NEW S, IsSum(f, w, S)
  PROVE  \A s \in SUBSET S : f[s] = IF s = {} THEN 0 ELSE w[Pick(s)] + f[s \ {Pick(s)}]
  BY DEF IsSum

LEMMA SumsAgree ==
  ASSUME NEW U, IsFiniteSet(U), NEW S, NEW w, NEW v, NEW f, NEW g, U \subseteq S,
         IsSum(f, w, U), IsSum(g, v, S), \A x \in U : w[x] = v[x]
  PROVE  \A s \in SUBSET U : f[s] = g[s]
  <1> DEFINE P == {s \in SUBSET U : f[s] = g[s]}
  <1>1. ASSUME NEW s \in SUBSET U, \A x \in s : s \ {x} \in P
        PROVE  s \in P
    <2>1. CASE s = {}
      <3>1. f[s] = 0 /\ g[s] = 0
        BY <2>1, SumIs
      <3> QED
        BY <3>1
    <2>2. CASE s # {}
      <3>1. Pick(s) \in s /\ Pick(s) \in U
        BY <2>2, PickIn
      <3>2. f[s \ {Pick(s)}] = g[s \ {Pick(s)}]
        BY <1>1, <3>1
      <3>3. f[s] = w[Pick(s)] + f[s \ {Pick(s)}] /\ g[s] = v[Pick(s)] + g[s \ {Pick(s)}]
        BY <2>2, SumIs
      <3>4. w[Pick(s)] = v[Pick(s)]
        BY <3>1
      <3> QED
        BY <3>2, <3>3, <3>4
    <2> QED
      BY <2>1, <2>2
  <1> HIDE DEF P
  <1>2. \A s \in SUBSET U : s \in P
    BY <1>1, BySize
  <1> QED
    BY <1>2 DEF P

LEMMA SumType ==
  ASSUME NEW U, IsFiniteSet(U), NEW w \in [U -> Nat], NEW f, IsSum(f, w, U)
  PROVE  \A s \in SUBSET U : f[s] \in Nat
  <1>0. \A s \in SUBSET U : f[s] = IF s = {} THEN 0 ELSE w[Pick(s)] + f[s \ {Pick(s)}]
    BY Zenon, SumIs
  <1> DEFINE P == {s \in SUBSET U : f[s] \in Nat}
  <1>1. ASSUME NEW s \in SUBSET U, \A x \in s : s \ {x} \in P
        PROVE  s \in P
    <2>1. f[s] = IF s = {} THEN 0 ELSE w[Pick(s)] + f[s \ {Pick(s)}]
      BY <1>0
    <2>2. s # {} => w[Pick(s)] \in Nat /\ f[s \ {Pick(s)}] \in Nat
      BY <1>1, PickIn
    <2>3. CASE s = {}
      BY <2>1, <2>3
    <2>4. CASE s # {}
      <3>1. \A a, b \in Nat : a + b \in Nat
        OBVIOUS
      <3> QED
        BY <2>1, <2>2, <2>4, <3>1
    <2> QED
      BY <2>3, <2>4
  <1> HIDE DEF P
  <1>2. \A s \in SUBSET U : s \in P
    BY <1>1, BySize
  <1> QED
    BY <1>2 DEF P

LEMMA SumTakes ==
  ASSUME NEW U, IsFiniteSet(U), NEW w \in [U -> Nat], NEW f, IsSum(f, w, U)
  PROVE  \A s \in SUBSET U : \A x \in s : f[s] = w[x] + f[s \ {x}]
  <1> DEFINE P == {s \in SUBSET U : \A x \in s : f[s] = w[x] + f[s \ {x}]}
  <1>0. \A s \in SUBSET U : f[s] \in Nat
    BY SumType
  <1>1. ASSUME NEW s \in SUBSET U, \A x \in s : s \ {x} \in P
        PROVE  s \in P
    <2>1. SUFFICES ASSUME NEW x \in s PROVE f[s] = w[x] + f[s \ {x}]
      OBVIOUS
    <2> DEFINE c == Pick(s)
    <2>2. c \in s
      BY PickIn
    <2>3. f[s] = w[c] + f[s \ {c}]
      BY <2>1, SumIs
    <2> HIDE DEF c
    <2>4. CASE x = c
      BY <2>3, <2>4
    <2>5. CASE x # c
      <3>1. /\ f[s \ {c}] = w[x] + f[(s \ {c}) \ {x}]
            /\ f[s \ {x}] = w[c] + f[(s \ {x}) \ {c}]
        <4>1. x \in s \ {c} /\ c \in s \ {x}
          BY <2>2, <2>5
        <4>2. s \ {c} \in P /\ s \ {x} \in P
          BY <1>1, <2>2
        <4> QED
          BY <4>1, <4>2
      <3>2. (s \ {c}) \ {x} = (s \ {x}) \ {c}
        OBVIOUS
      <3>3. f[(s \ {x}) \ {c}] \in Nat /\ w[x] \in Nat /\ w[c] \in Nat
        BY <1>0, <2>2
      <3> DEFINE a == f[(s \ {x}) \ {c}]
      <3>4. f[s \ {c}] = w[x] + a /\ f[s \ {x}] = w[c] + a
        BY <3>1, <3>2
      <3>5. a \in Nat
        BY <3>3
      <3> HIDE DEF P, a
      <3> QED
        BY <2>3, <3>3, <3>4, <3>5
    <2> QED
      BY <2>4, <2>5
  <1> HIDE DEF P
  <1>2. \A s \in SUBSET U : s \in P
    BY <1>1, BySize
  <1> QED
    BY <1>2 DEF P

LEMMA SumOfIs ==
  ASSUME NEW S, IsFiniteSet(S), NEW w
  PROVE  \E f : IsSum(f, w, S) /\ SumOf(w, S) = f[S]
  <1> DEFINE f == CHOOSE f : IsSum(f, w, S)
  <1>1. IsSum(f, w, S)
    BY SumExists
  <1>2. SumOf(w, S) = f[S]
    BY DEF SumOf
  <1> QED
    BY <1>1, <1>2

\* A sum with one more member.
LEMMA SumAdds ==
  ASSUME NEW S, IsFiniteSet(S), NEW x, x \notin S, NEW v \in [S -> Nat],
         NEW w \in [S \cup {x} -> Nat], \A y \in S : w[y] = v[y]
  PROVE  /\ SumOf(v, S) \in Nat /\ SumOf(w, S \cup {x}) = SumOf(v, S) + w[x]
  <1> DEFINE U == S \cup {x}
  <1>1. IsFiniteSet(U) /\ U \ {x} = S /\ x \in U /\ S \subseteq U /\ U \in SUBSET U /\ S \in SUBSET S
    BY FS_AddElement
  <1>2. PICK f : IsSum(f, w, U) /\ SumOf(w, U) = f[U]
    BY <1>1, SumOfIs
  <1>3. PICK g : IsSum(g, v, S) /\ SumOf(v, S) = g[S]
    BY SumOfIs
  <1> HIDE DEF U
  <1>4. w \in [U -> Nat]
    BY DEF U
  <1>5. f[U] = w[x] + f[U \ {x}]
    BY <1>1, <1>2, <1>4, SumTakes
  <1>6. g[S] = f[S] /\ g[S] \in Nat /\ w[x] \in Nat
    <2>1. \A y \in S : v[y] = w[y]
      OBVIOUS
    <2>2. \A s \in SUBSET S : g[s] = f[s]
      BY <1>1, <1>2, <1>3, <2>1, SumsAgree
    <2>3. g[S] \in Nat
      BY <1>1, <1>3, SumType
    <2> QED
      BY <1>1, <1>4, <2>2, <2>3
  <1> QED
    BY <1>1, <1>2, <1>3, <1>5, <1>6 DEF U

LEMMA SumOfEmpty ==
  ASSUME NEW w
  PROVE  SumOf(w, {}) = 0
  <1>1. IsFiniteSet({})
    BY FS_EmptySet
  <1>2. PICK f : IsSum(f, w, {}) /\ SumOf(w, {}) = f[{}]
    BY <1>1, SumOfIs
  <1>3. \A s \in SUBSET {} : f[s] = IF s = {} THEN 0 ELSE w[Pick(s)] + f[s \ {Pick(s)}]
    BY <1>2, SumIs
  <1> QED
    BY <1>2, <1>3

\* Any function that is a sum's gives the sum.
LEMMA SumUnique ==
  ASSUME NEW S, IsFiniteSet(S), NEW w, NEW f, IsSum(f, w, S)
  PROVE  f[S] = SumOf(w, S)
  <1>1. PICK g : IsSum(g, w, S) /\ SumOf(w, S) = g[S]
    BY SumOfIs
  <1>2. S \subseteq S /\ S \in SUBSET S /\ \A x \in S : w[x] = w[x]
    OBVIOUS
  <1>3. \A s \in SUBSET S : f[s] = g[s]
    BY <1>1, <1>2, SumsAgree
  <1> QED
    BY <1>1, <1>2, <1>3

(***************************************************************************)
(* The operations of collected writes and of findings.                     *)
(***************************************************************************)
OpsOn(s, K) == [k \in K |-> s[k].ops]
OpsOf(s) == OpsOn(s, DOMAIN s)
IsOps(f, s, K) ==
  f = [x \in SUBSET K |-> IF x = {} THEN 0 ELSE s[Pick(x)].ops + f[x \ {Pick(x)}]]

SumFound(F) == MapThenSumSet(LAMBDA f : f.ops, F)
FoundOf(F) == [x \in F |-> x.ops]
IsFound(f, F) ==
  f = [x \in SUBSET F |-> IF x = {} THEN 0 ELSE Pick(x).ops + f[x \ {Pick(x)}]]

LEMMA OpsAtIs ==
  ASSUME NEW s, NEW D, IsFiniteSet(D)
  PROVE  OpsAt(s, D) = SumOf(OpsOn(s, D), D)
  <1> DEFINE w == OpsOn(s, D)
             h == CHOOSE f : IsOps(f, s, D)
  <1>1. OpsAt(s, D) = h[D]
    BY DEF OpsAt, MapThenSumSet, MapThenFoldSet, IsOps, Pick
  <1>2. ASSUME NEW f PROVE IsSum(f, w, D) <=> IsOps(f, s, D)
    <2>1. \A x \in SUBSET D : x # {} => w[Pick(x)] = s[Pick(x)].ops
      BY PickIn DEF OpsOn
    <2> HIDE DEF w
    <2>2. [x \in SUBSET D |-> IF x = {} THEN 0 ELSE w[Pick(x)] + f[x \ {Pick(x)}]]
            = [x \in SUBSET D |-> IF x = {} THEN 0 ELSE s[Pick(x)].ops + f[x \ {Pick(x)}]]
      BY <2>1
    <2> QED
      BY <2>2 DEF IsSum, IsOps
  <1>3. \E f : IsSum(f, w, D)
    BY SumExists
  <1>4. \E f : IsOps(f, s, D)
    BY <1>2, <1>3
  <1>5. IsOps(h, s, D)
    BY <1>4
  <1> HIDE DEF h, w
  <1>6. IsSum(h, w, D)
    BY <1>2, <1>5
  <1>7. h[D] = SumOf(w, D)
    BY <1>6, SumUnique
  <1> QED
    BY <1>1, <1>7 DEF w

LEMMA OpsIs ==
  ASSUME NEW s, IsFiniteSet(DOMAIN s)
  PROVE  Ops(s) = SumOf(OpsOf(s), DOMAIN s)
  BY OpsAtIs DEF Ops, OpsOf

LEMMA FoundIs ==
  ASSUME NEW F, IsFiniteSet(F)
  PROVE  SumFound(F) = SumOf(FoundOf(F), F)
  <1> DEFINE w == FoundOf(F)
             h == CHOOSE f : IsFound(f, F)
  <1>1. SumFound(F) = h[F]
    BY DEF SumFound, MapThenSumSet, MapThenFoldSet, IsFound, Pick
  <1>2. ASSUME NEW f PROVE IsSum(f, w, F) <=> IsFound(f, F)
    <2>1. \A x \in SUBSET F : x # {} => w[Pick(x)] = Pick(x).ops
      BY PickIn DEF FoundOf
    <2> HIDE DEF w
    <2>2. [x \in SUBSET F |-> IF x = {} THEN 0 ELSE w[Pick(x)] + f[x \ {Pick(x)}]]
            = [x \in SUBSET F |-> IF x = {} THEN 0 ELSE Pick(x).ops + f[x \ {Pick(x)}]]
      BY <2>1
    <2> QED
      BY <2>2 DEF IsSum, IsFound
  <1>3. \E f : IsSum(f, w, F)
    BY SumExists
  <1>4. \E f : IsFound(f, F)
    BY <1>2, <1>3
  <1>5. IsFound(h, F)
    BY <1>4
  <1> HIDE DEF h, w
  <1>6. IsSum(h, w, F)
    BY <1>2, <1>5
  <1>7. h[F] = SumOf(w, F)
    BY <1>6, SumUnique
  <1> QED
    BY <1>1, <1>7 DEF w

LEMMA KeysType ==
  ASSUME NEW s \in Seq(WriteKey)
  PROVE  /\ Len(s) \in Nat /\ DOMAIN s = 1..Len(s) /\ IsFiniteSet(DOMAIN s)
         /\ \A k \in DOMAIN s : s[k] \in WriteKey /\ s[k].ops \in Nat
         /\ OpsOf(s) \in [DOMAIN s -> Nat]
  <1>1. Len(s) \in Nat /\ DOMAIN s = 1..Len(s) /\ \A k \in 1..Len(s) : s[k] \in WriteKey
    BY LenProperties, ElementOfSeq
  <1>2. IsFiniteSet(1..Len(s))
    BY <1>1, FS_Interval
  <1>3. \A k \in DOMAIN s : s[k].ops \in Nat
    BY <1>1 DEF WriteKey
  <1> QED
    BY <1>1, <1>2, <1>3 DEF OpsOf, OpsOn

LEMMA OpsAppend ==
  ASSUME NEW s \in Seq(WriteKey), NEW w \in WriteKey
  PROVE  Ops(s) \in Nat /\ Ops(Append(s, w)) = Ops(s) + w.ops
  <1> DEFINE t == Append(s, w)
             x == Len(s) + 1
  <1>1. t \in Seq(WriteKey) /\ Len(t) = x /\ (\A k \in 1..Len(s) : t[k] = s[k]) /\ t[x] = w
    BY AppendProperties
  <1>2. /\ Len(s) \in Nat /\ DOMAIN s = 1..Len(s) /\ IsFiniteSet(DOMAIN s)
        /\ OpsOf(s) \in [DOMAIN s -> Nat]
    BY KeysType
  <1> HIDE DEF t
  <1>3. DOMAIN t = 1..Len(t) /\ IsFiniteSet(DOMAIN t) /\ OpsOf(t) \in [DOMAIN t -> Nat]
    BY <1>1, KeysType
  <1>4. DOMAIN t = DOMAIN s \cup {x} /\ x \notin DOMAIN s
    BY <1>1, <1>2, <1>3
  <1>5. (\A y \in DOMAIN s : OpsOf(t)[y] = OpsOf(s)[y]) /\ OpsOf(t)[x] = w.ops
    BY <1>1, <1>2, <1>4 DEF OpsOf, OpsOn
  <1>6. OpsOf(t) \in [DOMAIN s \cup {x} -> Nat]
    BY <1>3, <1>4
  <1> HIDE DEF x
  <1>7. /\ SumOf(OpsOf(s), DOMAIN s) \in Nat
        /\ SumOf(OpsOf(t), DOMAIN s \cup {x}) = SumOf(OpsOf(s), DOMAIN s) + OpsOf(t)[x]
    <2> DEFINE v == OpsOf(s)
               u == OpsOf(t)
               D == DOMAIN s
    <2>1. /\ IsFiniteSet(D) /\ x \notin D /\ v \in [D -> Nat] /\ u \in [D \cup {x} -> Nat]
          /\ \A y \in D : u[y] = v[y]
      BY <1>2, <1>4, <1>5, <1>6
    <2> HIDE DEF v, u, D
    <2>2. SumOf(v, D) \in Nat /\ SumOf(u, D \cup {x}) = SumOf(v, D) + u[x]
      BY <2>1, SumAdds
    <2> QED
      BY <2>2 DEF v, u, D
  <1>8. Ops(s) = SumOf(OpsOf(s), DOMAIN s) /\ Ops(t) = SumOf(OpsOf(t), DOMAIN t)
    BY <1>2, <1>3, OpsIs
  <1> QED
    BY <1>4, <1>5, <1>7, <1>8 DEF t

LEMMA OpsOfNothing == Ops(<<>>) = 0
  <1>1. DOMAIN <<>> = {} /\ IsFiniteSet({})
    BY FS_EmptySet
  <1>2. Ops(<<>>) = SumOf(OpsOf(<<>>), DOMAIN <<>>)
    BY <1>1, OpsIs
  <1> QED
    BY <1>1, <1>2, SumOfEmpty

\* A write that takes one more operation.
LEMMA OpsMore ==
  ASSUME NEW s \in Seq(WriteKey), NEW k \in DOMAIN s
  PROVE  LET t == [s EXCEPT ![k].ops = @ + 1] IN
         /\ t \in Seq(WriteKey) /\ Len(t) = Len(s) /\ DOMAIN t = DOMAIN s
         /\ Ops(t) = Ops(s) + 1
  <1> DEFINE t == [s EXCEPT ![k].ops = @ + 1]
             e == [s[k] EXCEPT !.ops = @ + 1]
             R == DOMAIN s \ {k}
             v == [y \in R |-> s[y].ops]
  <1>1. /\ Len(s) \in Nat /\ DOMAIN s = 1..Len(s) /\ IsFiniteSet(DOMAIN s)
        /\ \A j \in DOMAIN s : s[j] \in WriteKey /\ s[j].ops \in Nat
        /\ OpsOf(s) \in [DOMAIN s -> Nat]
    BY KeysType
  <1>2. e \in WriteKey /\ e.ops = s[k].ops + 1
    <2>1. s[k] \in WriteKey
      BY <1>1
    <2> QED
      BY <2>1 DEF WriteKey
  <1>3. t = [s EXCEPT ![k] = e]
    OBVIOUS
  <1> HIDE DEF e, t
  <1>4. t \in Seq(WriteKey) /\ Len(t) = Len(s)
    BY <1>1, <1>2, <1>3, ExceptSeq
  <1>5. /\ DOMAIN t = DOMAIN s /\ t[k] = e /\ \A y \in R : t[y] = s[y]
    BY <1>3
  <1>6. OpsOf(t) \in [DOMAIN t -> Nat] /\ IsFiniteSet(DOMAIN t)
    BY <1>4, KeysType
  <1>7. DOMAIN s = R \cup {k} /\ k \notin R /\ IsFiniteSet(R) /\ v \in [R -> Nat]
    BY <1>1, FS_Subset
  <1>8. /\ \A y \in R : OpsOf(t)[y] = v[y] /\ OpsOf(s)[y] = v[y]
        /\ OpsOf(t)[k] = s[k].ops + 1 /\ OpsOf(s)[k] = s[k].ops /\ s[k].ops \in Nat
    BY <1>1, <1>2, <1>5 DEF OpsOf, OpsOn
  <1>9. OpsOf(s) \in [R \cup {k} -> Nat] /\ OpsOf(t) \in [R \cup {k} -> Nat]
    BY <1>1, <1>5, <1>6, <1>7
  <1> DEFINE u == OpsOf(s)
             z == OpsOf(t)
  <1>10. /\ u \in [R \cup {k} -> Nat] /\ z \in [R \cup {k} -> Nat]
         /\ (\A y \in R : z[y] = v[y]) /\ (\A y \in R : u[y] = v[y])
    BY <1>8, <1>9
  <1>11. u[k] = s[k].ops /\ z[k] = s[k].ops + 1 /\ s[k].ops \in Nat
    BY <1>8
  <1>12. Ops(s) = SumOf(u, DOMAIN s) /\ Ops(t) = SumOf(z, DOMAIN t)
    BY <1>1, <1>6, OpsIs
  <1> HIDE DEF R, v, u, z
  <1>13. SumOf(v, R) \in Nat /\ SumOf(u, R \cup {k}) = SumOf(v, R) + u[k]
    <2>1. /\ IsFiniteSet(R) /\ k \notin R /\ v \in [R -> Nat]
          /\ u \in [R \cup {k} -> Nat] /\ \A y \in R : u[y] = v[y]
      BY <1>7, <1>10
    <2> QED
      BY <2>1, SumAdds
  <1>14. SumOf(v, R) \in Nat /\ SumOf(z, R \cup {k}) = SumOf(v, R) + z[k]
    <2>1. /\ IsFiniteSet(R) /\ k \notin R /\ v \in [R -> Nat]
          /\ z \in [R \cup {k} -> Nat] /\ \A y \in R : z[y] = v[y]
      BY <1>7, <1>10
    <2> QED
      BY <2>1, SumAdds
  <1>15. SumOf(u, R \cup {k}) = Ops(s) /\ SumOf(z, R \cup {k}) = Ops(t)
    BY <1>5, <1>7, <1>12
  <1>16. Ops(t) = Ops(s) + 1
    BY <1>11, <1>13, <1>14, <1>15
  <1> QED
    BY <1>4, <1>5, <1>16 DEF t

\* Some of the writes, and one more.
LEMMA OpsAtAdds ==
  ASSUME NEW s \in Seq(WriteKey), NEW K \in SUBSET (DOMAIN s), NEW x \in DOMAIN s, x \notin K
  PROVE  OpsAt(s, K) \in Nat /\ OpsAt(s, K \cup {x}) = OpsAt(s, K) + s[x].ops
  <1> DEFINE U == K \cup {x}
             v == OpsOn(s, K)
             w == OpsOn(s, U)
  <1>1. IsFiniteSet(K) /\ IsFiniteSet(U) /\ \A k \in DOMAIN s : s[k].ops \in Nat
    <2>1. IsFiniteSet(DOMAIN s) /\ \A k \in DOMAIN s : s[k].ops \in Nat
      BY KeysType
    <2> QED
      BY <2>1, FS_Subset
  <1>2. /\ v \in [K -> Nat] /\ w \in [U -> Nat] /\ w[x] = s[x].ops
        /\ \A y \in K : w[y] = v[y]
    BY <1>1 DEF OpsOn
  <1>3. OpsAt(s, K) = SumOf(v, K) /\ OpsAt(s, U) = SumOf(w, U)
    BY <1>1, OpsAtIs
  <1> HIDE DEF v, w
  <1>4. SumOf(v, K) \in Nat /\ SumOf(w, U) = SumOf(v, K) + w[x]
    <2>1. /\ IsFiniteSet(K) /\ v \in [K -> Nat] /\ w \in [K \cup {x} -> Nat]
          /\ \A y \in K : w[y] = v[y]
      BY <1>1, <1>2
    <2>2. SumOf(v, K) \in Nat /\ SumOf(w, K \cup {x}) = SumOf(v, K) + w[x]
      BY <2>1, SumAdds
    <2> QED
      BY <2>2
  <1> QED
    BY <1>2, <1>3, <1>4

LEMMA OpsAtOne ==
  ASSUME NEW s \in Seq(WriteKey), NEW x \in DOMAIN s
  PROVE  OpsAt(s, {x}) = s[x].ops
  <1>1. IsFiniteSet({}) /\ {} \cup {x} = {x} /\ s[x].ops \in Nat
    BY FS_EmptySet, KeysType
  <1>2. OpsAt(s, {}) = SumOf(OpsOn(s, {}), {})
    BY <1>1, OpsAtIs
  <1>3. OpsAt(s, {}) = 0
    BY <1>2, SumOfEmpty
  <1>4. OpsAt(s, {} \cup {x}) = OpsAt(s, {}) + s[x].ops
    BY OpsAtAdds
  <1> QED
    BY <1>1, <1>3, <1>4

\* A new finding.
LEMMA FoundAdds ==
  ASSUME NEW F \in SUBSET Finding, IsFiniteSet(F), NEW x \in Finding, x \notin F
  PROVE  /\ SumFound(F) \in Nat /\ IsFiniteSet(F \cup {x})
         /\ SumFound(F \cup {x}) = SumFound(F) + x.ops
  <1> DEFINE U == F \cup {x}
  <1>1. U \subseteq Finding /\ IsFiniteSet(U)
    BY FS_AddElement
  <1>2. \A f \in Finding : f.ops \in Nat
    BY DEF Finding
  <1>3. /\ FoundOf(F) \in [F -> Nat] /\ FoundOf(U) \in [U -> Nat]
        /\ (\A y \in F : FoundOf(U)[y] = FoundOf(F)[y]) /\ FoundOf(U)[x] = x.ops
    BY <1>1, <1>2 DEF FoundOf
  <1>4. /\ SumOf(FoundOf(F), F) \in Nat
        /\ SumOf(FoundOf(U), U) = SumOf(FoundOf(F), F) + FoundOf(U)[x]
    BY <1>3, SumAdds
  <1>5. SumFound(F) = SumOf(FoundOf(F), F) /\ SumFound(U) = SumOf(FoundOf(U), U)
    BY <1>1, FoundIs
  <1> HIDE DEF U
  <1>6. SumFound(U) = SumFound(F) + x.ops /\ SumFound(F) \in Nat
    BY <1>3, <1>4, <1>5
  <1> QED
    BY <1>1, <1>6 DEF U

LEMMA FoundTotal ==
  ASSUME NEW F \in SUBSET Finding, IsFiniteSet(F)
  PROVE  SumFound(F) \in Nat
  <1> DEFINE w == FoundOf(F)
  <1>1. w \in [F -> Nat]
    BY DEF FoundOf, Finding
  <1> HIDE DEF w
  <1>2. PICK f : IsSum(f, w, F) /\ SumOf(w, F) = f[F]
    BY SumOfIs
  <1>3. f[F] \in Nat
    BY <1>1, <1>2, SumType
  <1> QED
    BY <1>2, <1>3, FoundIs DEF w

LEMMA NothingFound == SumFound({}) = 0
  <1>1. IsFiniteSet({})
    BY FS_EmptySet
  <1>2. SumFound({}) = SumOf(FoundOf({}), {})
    BY <1>1, FoundIs
  <1> QED
    BY <1>2, SumOfEmpty

\* A finding that takes more operations.
LEMMA FoundMore ==
  ASSUME NEW F \in SUBSET Finding, IsFiniteSet(F), NEW f \in F, NEW g \in Finding, NEW n \in Nat,
         g.ops = f.ops + n, g \notin F \ {f}
  PROVE  LET G == (F \ {f}) \cup {g} IN
         /\ IsFiniteSet(G) /\ SumFound(G) = SumFound(F) + n
  <1> DEFINE R == F \ {f}
  <1>1. R \in SUBSET Finding /\ IsFiniteSet(R) /\ f \notin R /\ f \in Finding /\ R \cup {f} = F
    BY FS_RemoveElement
  <1>2. f.ops \in Nat
    BY <1>1 DEF Finding
  <1> HIDE DEF R
  <1>3. SumFound(R) \in Nat /\ SumFound(R \cup {f}) = SumFound(R) + f.ops
    BY <1>1, FoundAdds
  <1>4. IsFiniteSet(R \cup {g}) /\ SumFound(R \cup {g}) = SumFound(R) + g.ops
    BY <1>1, FoundAdds DEF R
  <1> QED
    BY <1>1, <1>2, <1>3, <1>4 DEF R
-----------------------------------------------------------------------------
(***************************************************************************)
(* Walks.  A walk up from d ends at the first directory that stops it; a   *)
(* memory whose answers are those of walks without one ends it sooner, and *)
(* with the same answer.                                                   *)
(***************************************************************************)
Memory == [Dirs -> Dirs \cup {NoDir, Unvisited}]
Root(d) == GitRoot(d, Nothing)
Transparent(known) == \A d \in Dirs : known[d] # Unvisited => known[d] = Root(d)
Reach(d) == Min({DepthCap, Len(PathOf[d])})

LEMMA MinIn ==
  ASSUME NEW T \in SUBSET Nat, T # {}
  PROVE  Min(T) \in T /\ \A j \in T : Min(T) <= j
  BY Least DEF Min

LEMMA PathType ==
  ASSUME NEW d \in Dirs
  PROVE  /\ PathOf[d] \in Seq(Dirs) /\ Len(PathOf[d]) \in Nat \ {0}
         /\ PathOf[d][1] = d /\ PathOf[d][Len(PathOf[d])] = RootDir
         /\ \A k \in 1..Len(PathOf[d]) : PathOf[d][k] \in Dirs
  <1> DEFINE p == PathOf[d]
  <1>1. p \in Seq(Dirs) /\ p # <<>> /\ Head(p) = d /\ Last(p) = RootDir
    BY RetroAssumption
  <1> HIDE DEF p
  <1>2. Len(p) \in Nat \ {0} /\ Head(p) = p[1] /\ \A k \in 1..Len(p) : p[k] \in Dirs
    BY <1>1, EmptySeq, LenProperties, ElementOfSeq
  <1> QED
    BY <1>1, <1>2 DEF Last, p

LEMMA ReachType ==
  ASSUME NEW d \in Dirs
  PROVE  /\ Reach(d) \in 0..Len(PathOf[d])
         /\ Shallow => Reach(d) = Len(PathOf[d])
  <1>1. DepthCap \in Nat /\ Len(PathOf[d]) \in Nat
    BY RetroAssumption, PathType
  <1> DEFINE T == {DepthCap, Len(PathOf[d])}
  <1>2. Min(T) \in T /\ \A j \in T : Min(T) <= j
    BY <1>1, MinIn
  <1>3. Shallow => Len(PathOf[d]) <= DepthCap
    BY DEF Shallow
  <1> QED
    BY <1>1, <1>2, <1>3 DEF Reach

\* Where a walk ends.
LEMMA Walk ==
  ASSUME NEW d \in Dirs, NEW known
  PROVE  LET k == StopAt(d, known) IN
         /\ k \in 0..Reach(d)
         /\ k # 0 => Stops(PathOf[d][k], known)
         /\ \A j \in 1..Reach(d) : Stops(PathOf[d][j], known) => k # 0 /\ k <= j
  <1> DEFINE m == Reach(d)
             cut == SubSeq(PathOf[d], 1, m)
             I == {i \in 1..Len(cut) : Stops(cut[i], known)}
             k == StopAt(d, known)
  <1>1. m \in Nat /\ m <= Len(PathOf[d]) /\ PathOf[d] \in Seq(Dirs) /\ Len(PathOf[d]) \in Nat
    BY ReachType, PathType
  <1>2. k = IF I # {} THEN Min(I) ELSE 0
    BY DEF StopAt, SelectInSeq, Reach
  <1>3. Len(cut) = m /\ \A i \in 1..m : cut[i] = PathOf[d][i]
    <2> HIDE DEF m
    <2> QED
      BY <1>1, SubSeqProperties
  <1> HIDE DEF k, cut, m
  <1>4. I = {i \in 1..m : Stops(PathOf[d][i], known)}
    BY <1>3
  <1> HIDE DEF I
  <1>5. I # {} => k \in I /\ \A j \in I : k <= j
    <2>1. I \in SUBSET Nat
      BY <1>1, <1>4
    <2>2. I # {} => Min(I) \in I /\ \A j \in I : Min(I) <= j
      BY <2>1, MinIn
    <2> QED
      BY <1>2, <2>2
  <1>6. I = {} => k = 0
    BY <1>2
  <1> QED
    BY <1>1, <1>4, <1>5, <1>6 DEF k, m

LEMMA FoundType ==
  ASSUME NEW p \in Dirs, NEW known \in Memory
  PROVE  FoundAt(p, known) \in Dirs \cup {NoDir}
  BY DEF FoundAt, Memory

LEMMA RootType ==
  ASSUME NEW d \in Dirs, NEW known \in Memory
  PROVE  GitRoot(d, known) \in Dirs \cup {NoDir}
  <1>1. StopAt(d, known) # 0 => PathOf[d][StopAt(d, known)] \in Dirs
    BY Walk, ReachType, PathType
  <1> QED
    BY <1>1, FoundType DEF GitRoot

LEMMA LearntType ==
  ASSUME NEW d \in Dirs, NEW known \in Memory
  PROVE  Learnt(d, known) \in Memory
  <1> DEFINE root == GitRoot(d, known)
  <1>1. root \in Dirs \cup {NoDir}
    BY RootType
  <1> HIDE DEF root
  <1> QED
    BY <1>1 DEF Learnt, Memory, root

LEMMA NothingType == Nothing \in Memory /\ \A d \in Dirs : Nothing[d] = Unvisited
  BY DEF Nothing, Memory

LEMMA ParentPath ==
  ASSUME NEW d \in Dirs, NEW j \in DOMAIN PathOf[d]
  PROVE  PathOf[PathOf[d][j]] = SubSeq(PathOf[d], j, Len(PathOf[d]))
  <1>1. \A b \in Dirs : \A i \in DOMAIN PathOf[b] :
          PathOf[PathOf[b][i]] = SubSeq(PathOf[b], i, Len(PathOf[b]))
    BY RetroAssumption
  <1> QED
    BY <1>1

\* Along a walk without memory, up to where it ends, the answers are one.
LEMMA Along ==
  ASSUME Shallow, NEW d \in Dirs
  PROVE  LET k == StopAt(d, Nothing) IN
         /\ k \in 1..Len(PathOf[d]) /\ Root(d) = FoundAt(PathOf[d][k], Nothing)
         /\ \A j \in 1..k : Root(PathOf[d][j]) = Root(d)
  <1> DEFINE P == PathOf[d]
             n == Len(P)
             k == StopAt(d, Nothing)
  <1>1. /\ P \in Seq(Dirs) /\ n \in Nat \ {0} /\ P[n] = RootDir /\ Reach(d) = n
        /\ \A j \in 1..n : P[j] \in Dirs
    BY PathType, ReachType
  <1>2. Stops(P[n], Nothing)
    BY <1>1 DEF Stops, Boundary
  <1>3. /\ k \in 1..n /\ Stops(P[k], Nothing)
        /\ \A j \in 1..n : Stops(P[j], Nothing) => k <= j
    BY <1>1, <1>2, Walk
  <1>4. Root(d) = FoundAt(P[k], Nothing)
    BY <1>3 DEF Root, GitRoot
  <1> HIDE DEF P, k, n
  <1>5. ASSUME NEW j \in 1..k PROVE Root(P[j]) = Root(d)
    <2> DEFINE e == P[j]
               Q == PathOf[e]
               l == StopAt(e, Nothing)
    <2>1. j \in 1..n /\ e \in Dirs
      BY <1>1, <1>3
    <2>2. Q = SubSeq(P, j, n)
      <3>1. j \in DOMAIN PathOf[d]
        BY <1>1, <2>1 DEF P, n
      <3> QED
        BY <3>1, ParentPath DEF P, n
    <2>3. Len(Q) = n - j + 1 /\ \A i \in 1..(n - j + 1) : Q[i] = P[j + i - 1]
      <3> HIDE DEF Q
      <3> QED
        BY <1>1, <2>1, <2>2, SubSeqProperties DEF n
    <2>4. Reach(e) = n - j + 1
      BY <2>1, <2>3, ReachType
    <2>5. /\ l \in 0..(n - j + 1) /\ (l # 0 => Stops(Q[l], Nothing))
          /\ \A i \in 1..(n - j + 1) : Stops(Q[i], Nothing) => l # 0 /\ l <= i
      BY <2>1, <2>4, Walk
    <2> HIDE DEF e, Q, l
    <2>6. k - j + 1 \in 1..(n - j + 1) /\ Q[k - j + 1] = P[k]
      BY <1>1, <1>3, <2>1, <2>3
    <2>7. l # 0 /\ l <= k - j + 1
      BY <1>3, <2>5, <2>6
    <2>8. j + l - 1 \in 1..n /\ Q[l] = P[j + l - 1]
      BY <1>1, <1>3, <2>1, <2>3, <2>5, <2>7
    <2>9. k <= j + l - 1
      BY <1>3, <2>5, <2>7, <2>8
    <2>10. Q[l] = P[k]
      BY <1>1, <1>3, <2>1, <2>5, <2>6, <2>7, <2>9
    <2> QED
      BY <1>4, <2>7, <2>10 DEF Root, GitRoot, e, Q, l
  <1> QED
    BY <1>3, <1>4, <1>5 DEF P, k, n

LEMMA Walked ==
  ASSUME Shallow, NEW d \in Dirs, NEW known \in Memory, Transparent(known)
  PROVE  GitRoot(d, known) = Root(d) /\ Transparent(Learnt(d, known))
  <1> DEFINE P == PathOf[d]
             n == Len(P)
             z == StopAt(d, Nothing)
             k == StopAt(d, known)
  <1>1. /\ n \in Nat /\ Reach(d) = n /\ z \in 1..n /\ Root(d) = FoundAt(P[z], Nothing)
        /\ \A j \in 1..z : Root(P[j]) = Root(d)
    BY Along, PathType, ReachType
  <1>2. \A j \in 1..n : P[j] \in Dirs
    BY PathType
  <1>3. Stops(P[z], Nothing) /\ \A j \in 1..n : Stops(P[j], Nothing) => z <= j
    BY <1>1, Walk
  <1>4. P[z] \in Dirs /\ \A p \in Dirs : Stops(p, Nothing) => Stops(p, known)
    BY <1>1, <1>2, NothingType DEF Stops
  <1>5. k \in 1..z /\ Stops(P[k], known)
    BY <1>1, <1>3, <1>4, Walk
  <1>6. GitRoot(d, known) = FoundAt(P[k], known)
    BY <1>5 DEF GitRoot
  <1> HIDE DEF k, z
  <1>7. P[k] \in Dirs /\ Root(P[k]) = Root(d) /\ k \in 1..n
    BY <1>1, <1>2, <1>5
  <1>8. GitRoot(d, known) = Root(d)
    <2>1. CASE known[P[k]] # Unvisited
      <3>1. FoundAt(P[k], known) = known[P[k]]
        BY <2>1 DEF FoundAt
      <3>2. known[P[k]] = Root(P[k])
        BY <1>7, <2>1 DEF Transparent
      <3> QED
        BY <1>6, <1>7, <3>1, <3>2
    <2>2. CASE known[P[k]] = Unvisited
      <3>1. Stops(P[k], Nothing)
        BY <1>5, <2>2 DEF Stops
      <3>2. k = z
        BY <1>1, <1>3, <1>5, <1>7, <3>1
      <3>3. FoundAt(P[k], known) = FoundAt(P[k], Nothing)
        BY <1>7, <2>2, NothingType DEF FoundAt
      <3> QED
        BY <1>1, <1>6, <3>2, <3>3
    <2> QED
      BY <2>1, <2>2
  <1> DEFINE cut == SubSeq(P, 1, k)
             chain == {p \in ToSet(cut) : known[p] = Unvisited /\ ~Boundary(p)}
  <1>9. Learnt(d, known) = [p \in Dirs |-> IF p \in chain THEN GitRoot(d, known) ELSE known[p]]
    <2>1. k # 0
      BY <1>5
    <2> QED
      BY <2>1 DEF Learnt, k, P
  <1>10. \A p \in chain : Root(p) = Root(d)
    <2>1. SUFFICES ASSUME NEW p \in ToSet(cut) PROVE Root(p) = Root(d)
      OBVIOUS
    <2>2. P \in Seq(Dirs) /\ k \in Nat /\ 1 <= k + 1 /\ k <= n
      BY <1>1, <1>7, PathType
    <2>3. cut \in Seq(Dirs) /\ Len(cut) = k /\ \A i \in 1..k : cut[i] = P[i]
      <3> HIDE DEF cut, P, k
      <3>1. Len(SubSeq(P, 1, k)) = k /\ SubSeq(P, 1, k) \in Seq(Dirs)
            /\ \A i \in 1..k : SubSeq(P, 1, k)[i] = P[i]
        BY <1>1, <1>7, <2>2, SubSeqProperties DEF n
      <3> QED
        BY <3>1 DEF cut
    <2>4. DOMAIN cut = 1..k
      <3> HIDE DEF cut
      <3> QED
        BY <2>3, LenProperties
    <2>5. PICK i \in 1..k : p = cut[i]
      BY <2>1, <2>4 DEF ToSet
    <2>6. i \in 1..z
      BY <1>1, <1>5
    <2> HIDE DEF cut, P
    <2> QED
      BY <1>1, <2>3, <2>5, <2>6
  <1> HIDE DEF chain
  <1>11. ASSUME NEW p \in Dirs, Learnt(d, known)[p] # Unvisited
         PROVE  Learnt(d, known)[p] = Root(p)
    <2>1. Learnt(d, known)[p] = IF p \in chain THEN GitRoot(d, known) ELSE known[p]
      BY <1>9
    <2> QED
      BY <1>8, <1>10, <1>11, <2>1 DEF Transparent
  <1> QED
    BY <1>8, <1>11 DEF Transparent

(***************************************************************************)
(* Roots of directories, as resolve gives them.                            *)
(***************************************************************************)
LEMMA OutermostIn ==
  ASSUME NEW S \in SUBSET Dirs, S # {}
  PROVE  Outermost(S) \in S
  <1> DEFINE T == {Len(PathOf[c]) : c \in S}
  <1>1. T \in SUBSET Nat /\ T # {}
    BY PathType
  <1>2. PICK i \in T : \A j \in T : i <= j
    <2> HIDE DEF T
    <2> QED
      BY <1>1, Least
  <1>3. PICK c \in S : i = Len(PathOf[c])
    BY <1>2
  <1>4. \A e \in S : Len(PathOf[c]) <= Len(PathOf[e])
    BY <1>2, <1>3
  <1> QED
    BY <1>4 DEF Outermost

LEMMA ResolveType ==
  ASSUME NEW d \in Dirs, NEW seen \in SUBSET Dirs, NEW known \in Memory
  PROVE  /\ Resolve(d, seen, known) \in Dirs \cup {NoDir}
         /\ AfterResolve(d, known) \in Memory
  <1>1. Worktree[d] \in Dirs \cup {NoDir}
    BY RetroAssumption
  <1>2. GitRoot(d, known) \in Dirs \cup {NoDir} /\ Learnt(d, known) \in Memory
    BY RootType, LearntType
  <1>3. Covering(d, seen) # {} => Outermost(Covering(d, seen)) \in Dirs
    BY OutermostIn DEF Covering
  <1> QED
    BY <1>1, <1>2, <1>3 DEF Resolve, AfterResolve

LEMMA Resolved ==
  ASSUME Shallow, NEW d \in Dirs, NEW seen, NEW known \in Memory, Transparent(known)
  PROVE  /\ Resolve(d, seen, known) = Resolve(d, seen, Nothing)
         /\ Transparent(AfterResolve(d, known))
  <1>1. GitRoot(d, known) = GitRoot(d, Nothing) /\ Transparent(Learnt(d, known))
    BY Walked DEF Root
  <1> QED
    BY <1>1 DEF Resolve, AfterResolve

-----------------------------------------------------------------------------
(***************************************************************************)
(* Streaming the records.                                                  *)
(***************************************************************************)
\* Nothing is classified before everything is read.
ReadsFirst == classified # 0 => pos = Len(log)

\* Nothing is reported before everything is classified.
ReportsLast == reported => pos = Len(log) /\ classified = Len(writes)

\* A session, class and target have one finding.
Distinct ==
  /\ IsFiniteSet(findings)
  /\ \A f, g \in findings : f.sess = g.sess /\ f.class = g.class /\ f.target = g.target => f = g

Within(s, n) == {j \in 1..n : log[j].sess = s /\ (Windowed => log[j].age = "in")}
SeenThen(s, n) == {log[k].cwd : k \in Within(s, n)} \ {NoDir}
SeenSoFar == \A s \in Sessions : cwds[s] = SeenThen(s, pos)

IInv ==
  /\ TypeOK /\ ReadsFirst /\ ReportsLast /\ Distinct /\ SeenSoFar
  /\ EveryWriteIsCounted /\ CutIsDisclosed

LEMMA LogType ==
  ASSUME TypeOK
  PROVE  /\ Len(log) \in Nat /\ DOMAIN log = 1..Len(log) /\ pos \in Nat /\ pos <= Len(log)
         /\ \A k \in 1..Len(log) : log[k] \in Record
  <1>1. log \in Seq(Record) /\ pos \in 0..Len(log)
    BY RetroAssumption DEF TypeOK
  <1> QED
    BY <1>1, LenProperties, ElementOfSeq

LEMMA RecType ==
  ASSUME TypeOK, pos < Len(log)
  PROVE  /\ pos + 1 \in 1..Len(log) /\ rec \in Record /\ rec.sess \in Sessions
         /\ rec.cwd \in Dirs \cup {NoDir} /\ rec.target \in Target \cup {NoTarget}
  <1>1. pos + 1 \in 1..Len(log) /\ rec \in Record
    BY LogType DEF rec
  <1> QED
    BY <1>1 DEF Record

LEMMA TallyIs ==
  ASSUME TypeOK, NEW ones
  PROVE  /\ Tally(ones) \in [Counters -> Nat]
         /\ \A c \in Counters : Tally(ones)[c] = IF c \in ones THEN counts[c] + 1 ELSE counts[c]
  BY DEF Tally, TypeOK

LEMMA KeyAtType ==
  ASSUME TypeOK, KeyAt # 0
  PROVE  KeyAt \in DOMAIN writes
  <1> DEFINE I == {i \in 1..Len(writes) :
                     writes[i].sess = rec.sess /\ writes[i].target = rec.target /\ writes[i].cwd = rec.cwd}
  <1>1. KeyAt = IF I # {} THEN Min(I) ELSE 0
    BY DEF KeyAt, SelectInSeq
  <1>2. I # {}
    BY <1>1
  <1>3. writes \in Seq(WriteKey)
    BY DEF TypeOK
  <1>4. I \in SUBSET Nat /\ I \subseteq DOMAIN writes
    BY <1>3, KeysType
  <1> HIDE DEF I
  <1>5. Min(I) \in I
    BY <1>2, <1>4, MinIn
  <1> QED
    BY <1>1, <1>2, <1>4, <1>5

\* What a record adds to the writes of the log.
LEMMA WrittenGrows ==
  ASSUME TypeOK, pos < Len(log), pos' = pos + 1, log' = log
  PROVE  /\ IsFiniteSet(Written) /\ Cardinality(Written) \in Nat
         /\ Excluded \/ ~IsWrite => Written' = Written
         /\ ~Excluded /\ IsWrite => Cardinality(Written') = Cardinality(Written) + 1
  <1> DEFINE new == pos + 1
             isIn(k) == /\ log[k].tool \in {"Write", "Edit"} /\ log[k].target # NoTarget
                        /\ (Windowed => log[k].age = "in")
  <1>1. pos \in Nat
    BY LogType
  <1>2. Written = {k \in 1..pos : isIn(k)} /\ Written' = {k \in 1..new : isIn(k)}
    BY DEF Written
  <1>3. IsFiniteSet(Written) /\ Cardinality(Written) \in Nat
    <2>1. IsFiniteSet(1..pos)
      BY <1>1, FS_Interval
    <2>2. Written \in SUBSET (1..pos)
      BY DEF Written
    <2> QED
      BY <2>1, <2>2, FS_Subset, FS_CardinalityType
  <1>4. isIn(new) <=> ~Excluded /\ IsWrite
    BY DEF rec, Excluded, IsWrite
  <1> HIDE DEF isIn
  <1>5. 1..new = 1..pos \cup {new} /\ new \notin 1..pos
    BY <1>1
  <1>6. ~isIn(new) => Written' = Written
    BY <1>2, <1>5
  <1>7. isIn(new) => Written' = Written \cup {new} /\ new \notin Written
    BY <1>2, <1>5
  <1>8. isIn(new) => Cardinality(Written') = Cardinality(Written) + 1
    BY <1>3, <1>7, FS_AddElement
  <1> QED
    BY <1>3, <1>4, <1>6, <1>8

\* What a record adds to the directories its session was seen in.
LEMMA SeenGrows ==
  ASSUME TypeOK, SeenSoFar, pos < Len(log), pos' = pos + 1, log' = log
  PROVE  /\ Excluded /\ cwds' = cwds => SeenSoFar'
         /\ ~Excluded /\ Seen => SeenSoFar'
  <1> DEFINE new == pos + 1
             isIn(s, k) == log[k].sess = s /\ (Windowed => log[k].age = "in")
  <1>1. pos \in Nat /\ 1..new = 1..pos \cup {new}
    BY LogType
  <1>2. rec.sess \in Sessions /\ cwds \in [Sessions -> SUBSET Dirs]
    BY RecType DEF TypeOK
  <1>3. ASSUME NEW s \in Sessions
        PROVE  /\ isIn(s, new) <=> ~Excluded /\ s = rec.sess
               /\ isIn(s, new) => SeenThen(s, new) = SeenThen(s, pos) \cup ({rec.cwd} \ {NoDir})
               /\ ~isIn(s, new) => SeenThen(s, new) = SeenThen(s, pos)
    <2>1. isIn(s, new) <=> ~Excluded /\ s = rec.sess
      BY DEF rec, Excluded
    <2>2. \A n \in {pos, new} : Within(s, n) = {j \in 1..n : isIn(s, j)}
      BY DEF Within
    <2> HIDE DEF isIn
    <2>3. Within(s, new) = IF isIn(s, new) THEN Within(s, pos) \cup {new} ELSE Within(s, pos)
      BY <1>1, <2>2
    <2>4. log[new].cwd = rec.cwd
      BY DEF rec
    <2> HIDE DEF new
    <2> QED
      BY <2>1, <2>3, <2>4 DEF SeenThen
  <1>4. ASSUME NEW s \in Sessions PROVE SeenThen(s, pos)' = SeenThen(s, new)
    BY DEF SeenThen, Within
  <1>5. ASSUME Excluded, cwds' = cwds PROVE SeenSoFar'
    <2>1. \A s \in Sessions : SeenThen(s, new) = SeenThen(s, pos)
      BY <1>3, <1>5
    <2> HIDE DEF new
    <2> QED
      BY <1>4, <1>5, <2>1 DEF SeenSoFar
  <1>6. ASSUME ~Excluded, Seen PROVE SeenSoFar'
    <2>1. \A s \in Sessions :
            cwds'[s] = IF s = rec.sess THEN cwds[s] \cup ({rec.cwd} \ {NoDir}) ELSE cwds[s]
      BY <1>2, <1>6 DEF Seen
    <2>2. \A s \in Sessions :
            SeenThen(s, new) = IF s = rec.sess THEN SeenThen(s, pos) \cup ({rec.cwd} \ {NoDir})
                                               ELSE SeenThen(s, pos)
      <3> HIDE DEF isIn, new
      <3> QED
        BY <1>3, <1>6
    <2> HIDE DEF new
    <2>3. \A s \in Sessions : cwds[s] = SeenThen(s, pos)
      BY DEF SeenSoFar
    <2>4. \A s \in Sessions : cwds'[s] = SeenThen(s, new)
      BY <2>1, <2>2, <2>3
    <2> QED
      BY <1>4, <2>4 DEF SeenSoFar
  <1> QED
    BY <1>5, <1>6

LEMMA SeenType ==
  ASSUME TypeOK, pos < Len(log), Seen
  PROVE  cwds' \in [Sessions -> SUBSET Dirs]
  <1>1. cwds \in [Sessions -> SUBSET Dirs] /\ rec.cwd \in Dirs \cup {NoDir} /\ rec.sess \in Sessions
    BY RecType DEF TypeOK
  <1> QED
    BY <1>1 DEF Seen

\* While records are read nothing is classified and no finding made.
LEMMA ReadingKeeps ==
  ASSUME IInv, Reading, counts' \in [Counters -> Nat], declaring' \subseteq Sessions,
         cwds' \in [Sessions -> SUBSET Dirs], writes' \in Seq(WriteKey), SeenSoFar',
         counts'["unknown_root"] = counts["unknown_root"],
         counts'["same_project"] = counts["same_project"],
         Cardinality(Written') = counts'["suppressed"] + counts'["targets_omitted"] + Ops(writes')
  PROVE  IInv'
  <1>1. /\ pos < Len(log) /\ pos' = pos + 1 /\ log' = log /\ classified' = classified
        /\ memo' = memo /\ findings' = findings
        /\ reported' = reported /\ shown' = shown /\ omitted' = omitted
    BY DEF Reading, report
  <1>2. TypeOK /\ classified = 0 /\ ~reported
    BY <1>1, LogType DEF IInv, ReadsFirst, ReportsLast
  <1>3. pos' \in 0..Len(log) /\ Len(writes') \in Nat
    BY <1>1, <1>2, LogType, KeysType
  <1>4. TypeOK'
    BY <1>1, <1>2, <1>3 DEF TypeOK
  <1>5. ReadsFirst' /\ Distinct' /\ ReportsLast' /\ CutIsDisclosed'
    BY <1>1, <1>2 DEF ReadsFirst, Distinct, ReportsLast, CutIsDisclosed, IInv
  <1>6. writes \in Seq(WriteKey) /\ SubSeq(writes, 1, 0) = <<>> /\ SubSeq(writes', 1, 0) = <<>>
    BY <1>2, SubSeqEmpty DEF TypeOK
  <1>7. FoundOps' = FoundOps
    <2>1. FoundOps = SumFound(findings) /\ FoundOps' = SumFound(findings')
      BY DEF FoundOps, SumFound, MapThenSumSet, MapThenFoldSet
    <2> QED
      BY <1>1, <2>1
  <1>8. Ops(SubSeq(writes, 1, classified)) = FoundOps + counts["unknown_root"] + counts["same_project"]
    BY DEF IInv, EveryWriteIsCounted
  <1>9. Ops(SubSeq(writes, 1, classified))' = (FoundOps + counts["unknown_root"] + counts["same_project"])'
    <2>1. Ops(SubSeq(writes', 1, 0)) = Ops(SubSeq(writes, 1, 0))
      BY <1>6
    <2>2. Ops(SubSeq(writes, 1, classified))' = Ops(SubSeq(writes', 1, classified'))
      OBVIOUS
    <2> QED
      BY <1>1, <1>2, <1>7, <1>8, <2>1, <2>2
  <1>10. Ops(writes)' = Ops(writes')
    OBVIOUS
  <1> QED
    BY <1>4, <1>5, <1>9, <1>10 DEF IInv, EveryWriteIsCounted

LEMMA SkipRecordKeeps ==
  ASSUME IInv, SkipRecord
  PROVE  IInv'
  <1> DEFINE ones == (IF Undated THEN {"undated"} ELSE {})
                       \cup (IF rec.age = "old" THEN {"excluded"} ELSE {})
  <1>1. TypeOK /\ Reading /\ Excluded /\ counts' = Tally(ones)
        /\ declaring' = declaring /\ cwds' = cwds /\ writes' = writes
        /\ pos < Len(log) /\ pos' = pos + 1 /\ log' = log
    BY DEF SkipRecord, IInv, Reading
  <1>2. \A c \in {"unknown_root", "same_project", "suppressed", "targets_omitted"} :
          c \in Counters /\ c \notin ones
    BY DEF Counters
  <1> HIDE DEF ones
  <1>3. counts' \in [Counters -> Nat]
        /\ \A c \in {"unknown_root", "same_project", "suppressed", "targets_omitted"} : counts'[c] = counts[c]
    BY <1>1, <1>2, TallyIs
  <1>4. Written' = Written /\ SeenSoFar'
    BY <1>1, WrittenGrows, SeenGrows DEF IInv
  <1>5. Cardinality(Written') = counts'["suppressed"] + counts'["targets_omitted"] + Ops(writes')
    BY <1>1, <1>3, <1>4 DEF IInv, EveryWriteIsCounted
  <1>6. declaring' \subseteq Sessions /\ cwds' \in [Sessions -> SUBSET Dirs] /\ writes' \in Seq(WriteKey)
    BY <1>1 DEF TypeOK
  <1> QED
    BY <1>1, <1>3, <1>4, <1>5, <1>6, ReadingKeeps

LEMMA ReadCallKeeps ==
  ASSUME IInv, ReadCall
  PROVE  IInv'
  <1>1. TypeOK /\ Reading /\ ~Excluded /\ ~IsWrite /\ counts' = Tally(Interpreted) /\ Seen
        /\ writes' = writes /\ pos < Len(log) /\ pos' = pos + 1 /\ log' = log
        /\ declaring' = IF rec.tool = "declare_intent" THEN declaring \cup {rec.sess} ELSE declaring
    BY DEF ReadCall, IInv, Reading
  <1>2. \A c \in {"unknown_root", "same_project", "suppressed", "targets_omitted"} :
          c \in Counters /\ c \notin Interpreted
    BY DEF Counters, Interpreted
  <1>3. counts' \in [Counters -> Nat]
        /\ \A c \in {"unknown_root", "same_project", "suppressed", "targets_omitted"} : counts'[c] = counts[c]
    BY <1>1, <1>2, TallyIs
  <1>4. Written' = Written /\ SeenSoFar'
    BY <1>1, WrittenGrows, SeenGrows DEF IInv
  <1>5. Cardinality(Written') = counts'["suppressed"] + counts'["targets_omitted"] + Ops(writes')
    BY <1>1, <1>3, <1>4 DEF IInv, EveryWriteIsCounted
  <1>6. declaring' \subseteq Sessions /\ cwds' \in [Sessions -> SUBSET Dirs] /\ writes' \in Seq(WriteKey)
    BY <1>1, RecType, SeenType DEF TypeOK
  <1> QED
    BY <1>1, <1>3, <1>4, <1>5, <1>6, ReadingKeeps

LEMMA ReadWriteKeeps ==
  ASSUME IInv, ReadWrite
  PROVE  IInv'
  <1> DEFINE ones == Interpreted
               \cup (IF Suppressed(rec.target) THEN {"suppressed"} ELSE {})
               \cup (IF ~Suppressed(rec.target) /\ Outside THEN {"outside_cwd"} ELSE {})
               \cup (IF Omitted THEN {"targets_omitted"} ELSE {})
             key == [sess |-> rec.sess, target |-> rec.target, cwd |-> rec.cwd, ops |-> 1]
  <1>1. TypeOK /\ Reading /\ ~Excluded /\ IsWrite /\ Collected /\ counts' = Tally(ones) /\ Seen
        /\ declaring' = declaring /\ pos < Len(log) /\ pos' = pos + 1 /\ log' = log
    BY DEF ReadWrite, IInv, Reading
  <1>2. \A c \in {"unknown_root", "same_project"} : c \in Counters /\ c \notin ones
    BY DEF Counters, Interpreted
  <1>3. /\ "suppressed" \in Counters /\ "targets_omitted" \in Counters
        /\ "suppressed" \in ones <=> Suppressed(rec.target)
        /\ "targets_omitted" \in ones <=> Omitted
    BY DEF Counters, Interpreted
  <1> HIDE DEF ones
  <1>4. counts' \in [Counters -> Nat]
        /\ \A c \in Counters : counts'[c] = IF c \in ones THEN counts[c] + 1 ELSE counts[c]
    BY <1>1, TallyIs
  <1>5. Cardinality(Written') = Cardinality(Written) + 1 /\ SeenSoFar'
    BY <1>1, WrittenGrows, SeenGrows DEF IInv
  <1>6. writes \in Seq(WriteKey) /\ key \in WriteKey /\ key.ops = 1
    BY <1>1, RecType DEF TypeOK, WriteKey, IsWrite
  <1>7. Ops(writes) \in Nat /\ counts["suppressed"] \in Nat /\ counts["targets_omitted"] \in Nat
    BY <1>1, <1>3, <1>6, OpsAppend DEF TypeOK
  <1>8. Cardinality(Written) = counts["suppressed"] + counts["targets_omitted"] + Ops(writes)
    BY DEF IInv, EveryWriteIsCounted
  <1>9. /\ writes' \in Seq(WriteKey)
        /\ counts'["suppressed"] + counts'["targets_omitted"] + Ops(writes')
             = counts["suppressed"] + counts["targets_omitted"] + Ops(writes) + 1
    <2>1. CASE Suppressed(rec.target)
      <3>1. writes' = writes
        BY <1>1, <2>1 DEF Collected
      <3>2. "suppressed" \in ones /\ "targets_omitted" \notin ones
        BY <1>3, <2>1 DEF Omitted
      <3> QED
        BY <1>3, <1>4, <1>6, <1>7, <3>1, <3>2
    <2>2. CASE ~Suppressed(rec.target) /\ KeyAt # 0
      <3>1. writes' = [writes EXCEPT ![KeyAt].ops = @ + 1]
        BY <1>1, <2>2 DEF Collected
      <3>2. "suppressed" \notin ones /\ "targets_omitted" \notin ones
        BY <1>3, <2>2 DEF Omitted
      <3>3. KeyAt \in DOMAIN writes
        BY <1>1, <2>2, KeyAtType
      <3>4. writes' \in Seq(WriteKey) /\ Ops(writes') = Ops(writes) + 1
        BY <1>6, <3>1, <3>3, OpsMore
      <3> QED
        BY <1>3, <1>4, <1>7, <3>2, <3>4
    <2>3. CASE ~Suppressed(rec.target) /\ KeyAt = 0 /\ Len(writes) < MaxTargets
      <3>1. writes' = Append(writes, key)
        BY <1>1, <2>3 DEF Collected
      <3>2. "suppressed" \notin ones /\ "targets_omitted" \notin ones
        <4>1. Len(writes) \in Nat /\ MaxTargets \in Nat
          BY <1>6, KeysType, RetroAssumption
        <4> QED
          BY <1>3, <2>3, <4>1 DEF Omitted
      <3> HIDE DEF key
      <3>3. writes' \in Seq(WriteKey) /\ Ops(writes') = Ops(writes) + 1
        BY <1>6, <3>1, OpsAppend, AppendProperties
      <3> QED
        BY <1>3, <1>4, <1>7, <3>2, <3>3
    <2>4. CASE ~Suppressed(rec.target) /\ KeyAt = 0 /\ ~(Len(writes) < MaxTargets)
      <3>1. writes' = writes
        BY <1>1, <2>4 DEF Collected
      <3>2. "suppressed" \notin ones /\ "targets_omitted" \in ones
        <4>1. Len(writes) \in Nat /\ MaxTargets \in Nat
          BY <1>6, KeysType, RetroAssumption
        <4> QED
          BY <1>3, <2>4, <4>1 DEF Omitted
      <3> QED
        BY <1>3, <1>4, <1>6, <1>7, <3>1, <3>2
    <2> QED
      BY <2>1, <2>2, <2>3, <2>4
  <1>10. Cardinality(Written') = counts'["suppressed"] + counts'["targets_omitted"] + Ops(writes')
    BY <1>5, <1>8, <1>9
  <1>11. counts'["unknown_root"] = counts["unknown_root"] /\ counts'["same_project"] = counts["same_project"]
    BY <1>2, <1>4
  <1>12. declaring' \subseteq Sessions /\ cwds' \in [Sessions -> SUBSET Dirs]
    BY <1>1, SeenType DEF TypeOK
  <1> QED
    BY <1>1, <1>4, <1>5, <1>9, <1>10, <1>11, <1>12, ReadingKeeps

-----------------------------------------------------------------------------
(***************************************************************************)
(* Classifying the writes.                                                 *)
(***************************************************************************)
LEMMA WriteType ==
  ASSUME TypeOK, classified < Len(writes)
  PROVE  /\ classified \in Nat /\ classified + 1 \in 1..Len(writes) /\ writes \in Seq(WriteKey)
         /\ writes[classified + 1] \in WriteKey
         /\ SubSeq(writes, 1, classified) \in Seq(WriteKey)
         /\ SubSeq(writes, 1, classified + 1) =
              Append(SubSeq(writes, 1, classified), writes[classified + 1])
  <1>1. writes \in Seq(WriteKey) /\ classified \in 0..Len(writes) /\ Len(writes) \in Nat
    BY KeysType DEF TypeOK
  <1>2. classified + 1 \in 1..Len(writes) /\ 1 <= classified + 1
    BY <1>1
  <1>3. writes[classified + 1] \in WriteKey
    BY <1>1, <1>2, ElementOfSeq
  <1>4. SubSeq(writes, 1, classified) \in Seq(WriteKey)
    BY <1>1, SubSeqProperties
  <1>5. SubSeq(writes, 1, classified + 1) = Append(SubSeq(writes, 1, classified), writes[classified + 1])
    <2>1. SubSeq(writes, 1, classified + 1) =
            Append(SubSeq(writes, 1, classified + 1 - 1), writes[classified + 1])
      BY <1>1, <1>2, SubSeqRecursiveSecond
    <2> QED
      BY <1>1, <2>1
  <1> QED
    BY <1>1, <1>2, <1>3, <1>4, <1>5

LEMMA RootsType ==
  ASSUME TypeOK, NEW w \in WriteKey
  PROVE  /\ Source(w, memo) \in Dirs \cup {NoDir} /\ AfterSource(w, memo) \in Memory
         /\ Dest(w, AfterSource(w, memo)) \in Dirs \cup {NoDir}
         /\ AfterResolve(w.target.dir, AfterSource(w, memo)) \in Memory
  <1>1. /\ w.cwd \in Dirs \cup {NoDir} /\ w.target.dir \in Dirs /\ cwds[w.sess] \in SUBSET Dirs
        /\ memo \in Memory
    BY DEF WriteKey, Target, TypeOK, Memory
  <1>2. Source(w, memo) \in Dirs \cup {NoDir} /\ AfterSource(w, memo) \in Memory
    BY <1>1, ResolveType DEF Source, AfterSource
  <1> QED
    BY <1>1, <1>2, ResolveType DEF Dest

FindingOf(w, class) ==
  [sess |-> w.sess, class |-> class, target |-> w.target, ops |-> w.ops,
   source |-> Source(w, memo),
   dest |-> IF class = "claude_config" THEN NoDir ELSE Dest(w, AfterSource(w, memo))]

SameAs(f, w, class) == f.sess = w.sess /\ f.class = class /\ f.target = w.target

\* A finding is new, or takes the operations.
LEMMA Merged ==
  ASSUME TypeOK, Distinct, NEW w \in WriteKey, NEW class \in Classes
  PROVE  \/ /\ \A f \in findings : ~SameAs(f, w, class)
            /\ Merge(w, class) = findings \cup {FindingOf(w, class)}
            /\ FindingOf(w, class) \in Finding
         \/ \E f \in findings :
              /\ SameAs(f, w, class)
              /\ Merge(w, class) = (findings \ {f}) \cup {[f EXCEPT !.ops = @ + w.ops]}
              /\ [f EXCEPT !.ops = @ + w.ops] \in Finding
  <1> DEFINE same == {f \in findings : SameAs(f, w, class)}
  <1>1. Merge(w, class) = IF same = {} THEN findings \cup {FindingOf(w, class)}
                          ELSE (findings \ same) \cup {[f EXCEPT !.ops = @ + w.ops] : f \in same}
    BY DEF Merge, SameAs, FindingOf
  <1>2. FindingOf(w, class) \in Finding
    <2> DEFINE source == Source(w, memo)
               dest == Dest(w, AfterSource(w, memo))
    <2>1. source \in Dirs \cup {NoDir} /\ dest \in Dirs \cup {NoDir}
      BY RootsType
    <2>2. FindingOf(w, class) = [sess |-> w.sess, class |-> class, target |-> w.target, ops |-> w.ops,
                                 source |-> source, dest |-> IF class = "claude_config" THEN NoDir ELSE dest]
      BY DEF FindingOf
    <2> HIDE DEF source, dest
    <2>3. w.sess \in Sessions /\ w.target \in Target /\ w.ops \in Nat
      BY DEF WriteKey
    <2> QED
      BY <2>1, <2>2, <2>3 DEF Finding
  <1>3. CASE same = {}
    <2>1. \A f \in findings : ~SameAs(f, w, class)
      BY <1>3
    <2> QED
      BY <1>1, <1>2, <1>3, <2>1
  <1>4. CASE same # {}
    <2>1. PICK f \in same : TRUE
      BY <1>4
    <2>2. same = {f}
      BY <2>1 DEF Distinct, SameAs
    <2>3. f \in findings /\ SameAs(f, w, class)
      BY <2>1
    <2>4. Merge(w, class) = (findings \ {f}) \cup {[f EXCEPT !.ops = @ + w.ops]}
      <3> HIDE DEF same
      <3> QED
        BY <1>1, <1>4, <2>2
    <2>5. [f EXCEPT !.ops = @ + w.ops] \in Finding
      <3>1. f \in Finding /\ w.ops \in Nat
        BY <2>3 DEF TypeOK, WriteKey
      <3> QED
        BY <3>1 DEF Finding
    <2> QED
      BY <2>3, <2>4, <2>5
  <1> QED
    BY <1>3, <1>4

LEMMA MergeCounts ==
  ASSUME TypeOK, Distinct, NEW w \in WriteKey, NEW class \in Classes, findings' = Merge(w, class)
  PROVE  /\ findings' \subseteq Finding /\ Distinct'
         /\ SumFound(findings') = SumFound(findings) + w.ops
  <1>1. w.ops \in Nat /\ findings \in SUBSET Finding /\ IsFiniteSet(findings)
    BY DEF WriteKey, TypeOK, Distinct
  <1>2. \A f, g \in findings : f.sess = g.sess /\ f.class = g.class /\ f.target = g.target => f = g
    BY DEF Distinct
  <1>3. CASE /\ \A f \in findings : ~SameAs(f, w, class)
             /\ Merge(w, class) = findings \cup {FindingOf(w, class)}
             /\ FindingOf(w, class) \in Finding
    <2> DEFINE x == FindingOf(w, class)
    <2>1. x.sess = w.sess /\ x.class = class /\ x.target = w.target /\ x.ops = w.ops
      BY DEF FindingOf
    <2> HIDE DEF x
    <2>2. x \in Finding /\ x \notin findings /\ findings' = findings \cup {x}
      BY <1>3, <2>1 DEF SameAs, x
    <2>3. IsFiniteSet(findings') /\ SumFound(findings') = SumFound(findings) + w.ops
      BY <1>1, <2>1, <2>2, FoundAdds
    <2>4. \A f, g \in findings' : f.sess = g.sess /\ f.class = g.class /\ f.target = g.target => f = g
      BY <1>2, <1>3, <2>1, <2>2 DEF SameAs
    <2> QED
      BY <1>1, <2>2, <2>3, <2>4 DEF Distinct
  <1>4. ASSUME NEW f \in findings, SameAs(f, w, class),
               Merge(w, class) = (findings \ {f}) \cup {[f EXCEPT !.ops = @ + w.ops]},
               [f EXCEPT !.ops = @ + w.ops] \in Finding
        PROVE  /\ findings' \subseteq Finding /\ Distinct'
               /\ SumFound(findings') = SumFound(findings) + w.ops
    <2> DEFINE x == [f EXCEPT !.ops = @ + w.ops]
    <2>1. f \in Finding
      BY <1>1
    <2>2. x.sess = f.sess /\ x.class = f.class /\ x.target = f.target /\ x.ops = f.ops + w.ops
      BY <2>1 DEF Finding
    <2>3. x \in Finding /\ findings' = (findings \ {f}) \cup {x}
      BY <1>4
    <2> HIDE DEF x
    <2>4. x \notin findings \ {f}
      BY <1>2, <2>2
    <2>5. IsFiniteSet(findings') /\ SumFound(findings') = SumFound(findings) + w.ops
      BY <1>1, <2>2, <2>3, <2>4, FoundMore
    <2>6. \A a, b \in findings' : a.sess = b.sess /\ a.class = b.class /\ a.target = b.target => a = b
      BY <1>2, <2>2, <2>3
    <2> QED
      BY <1>1, <2>3, <2>5, <2>6 DEF Distinct
  <1> QED
    BY <1>3, <1>4, Merged

LEMMA ClassifyWriteKeeps ==
  ASSUME IInv, ClassifyWrite
  PROVE  IInv'
  <1> DEFINE w == writes[classified + 1]
             class == ClassOf(w, memo)
             done == SubSeq(writes, 1, classified)
  <1>1. /\ TypeOK /\ pos = Len(log) /\ classified < Len(writes) /\ classified' = classified + 1
        /\ log' = log /\ pos' = pos /\ declaring' = declaring /\ cwds' = cwds /\ writes' = writes
        /\ reported' = reported /\ shown' = shown /\ omitted' = omitted
    BY DEF ClassifyWrite, IInv, report
  <1>2. memo' = IF NeedsDest(w, memo) THEN AfterResolve(w.target.dir, AfterSource(w, memo))
                ELSE AfterSource(w, memo)
    BY DEF ClassifyWrite
  <1>3. IF class \in Classes THEN findings' = Merge(w, class) /\ counts' = counts
        ELSE counts' = Plus(class, w.ops) /\ findings' = findings
    BY DEF ClassifyWrite
  <1>4. class \in Classes \cup {"unknown_root", "same_project"}
    BY DEF ClassOf, Classes
  <1>5. /\ classified \in Nat /\ classified + 1 \in 1..Len(writes) /\ writes \in Seq(WriteKey)
        /\ w \in WriteKey /\ done \in Seq(WriteKey)
        /\ SubSeq(writes, 1, classified + 1) = Append(done, w)
    BY <1>1, WriteType
  <1>6. w.ops \in Nat
    BY <1>5 DEF WriteKey
  <1> HIDE DEF w, class, done
  <1>7. memo' \in Memory
    BY <1>1, <1>2, <1>5, RootsType
  <1>8. Ops(done) \in Nat /\ Ops(SubSeq(writes, 1, classified + 1)) = Ops(done) + w.ops
    BY <1>5, OpsAppend
  <1>9. /\ counts \in [Counters -> Nat] /\ Distinct /\ findings \subseteq Finding
        /\ Ops(done) = SumFound(findings) + counts["unknown_root"] + counts["same_project"]
    <2>1. FoundOps = SumFound(findings)
      BY DEF FoundOps, SumFound, MapThenSumSet, MapThenFoldSet
    <2> QED
      BY <1>1, <2>1 DEF IInv, TypeOK, EveryWriteIsCounted, done
  <1>10. /\ counts["unknown_root"] \in Nat /\ counts["same_project"] \in Nat
    BY <1>9 DEF Counters
  <1>11. SumFound(findings) \in Nat
    BY <1>9, FoundTotal DEF Distinct
  <1>12. /\ counts' \in [Counters -> Nat] /\ findings' \subseteq Finding /\ Distinct'
         /\ counts'["suppressed"] = counts["suppressed"]
         /\ counts'["targets_omitted"] = counts["targets_omitted"]
         /\ SumFound(findings') + counts'["unknown_root"] + counts'["same_project"]
              = SumFound(findings) + counts["unknown_root"] + counts["same_project"] + w.ops
    <2>1. CASE class \in Classes
      <3>1. findings' = Merge(w, class) /\ counts' = counts
        BY <1>3, <2>1
      <3>2. findings' \subseteq Finding /\ Distinct' /\ SumFound(findings') = SumFound(findings) + w.ops
        BY <1>1, <1>5, <1>9, <2>1, <3>1, MergeCounts
      <3> QED
        BY <1>6, <1>9, <1>10, <1>11, <3>1, <3>2
    <2>2. CASE class \notin Classes
      <3>1. counts' = [counts EXCEPT ![class] = @ + w.ops] /\ findings' = findings
        BY <1>3, <2>2 DEF Plus
      <3>2. class \in {"unknown_root", "same_project"}
        BY <1>4, <2>2
      <3>3. /\ counts' \in [Counters -> Nat]
            /\ counts'["suppressed"] = counts["suppressed"]
            /\ counts'["targets_omitted"] = counts["targets_omitted"]
            /\ counts'["unknown_root"] + counts'["same_project"]
                 = counts["unknown_root"] + counts["same_project"] + w.ops
            /\ counts'["unknown_root"] \in Nat /\ counts'["same_project"] \in Nat
        <4>1. {"unknown_root", "same_project", "suppressed", "targets_omitted"} \subseteq Counters
          BY DEF Counters
        <4> QED
          BY <1>6, <1>9, <1>10, <3>1, <3>2, <4>1
      <3>4. Distinct'
        BY <1>9, <3>1 DEF Distinct
      <3> QED
        BY <1>6, <1>9, <1>10, <1>11, <3>1, <3>3, <3>4
    <2> QED
      BY <2>1, <2>2
  <1>13. TypeOK'
    <2>1. classified' \in 0..Len(writes')
      BY <1>1, <1>5
    <2> QED
      BY <1>1, <1>7, <1>12, <2>1 DEF TypeOK, Memory
  <1>14. ReadsFirst' /\ SeenSoFar' /\ ReportsLast' /\ CutIsDisclosed'
    <2>1. ReadsFirst'
      BY <1>1 DEF ReadsFirst
    <2>2. \A s \in Sessions : SeenThen(s, pos)' = SeenThen(s, pos)
      BY <1>1 DEF SeenThen, Within
    <2>3. ~reported'
      <3>1. Len(writes) \in Nat
        BY <1>5, KeysType
      <3> QED
        BY <1>1, <1>5, <3>1 DEF IInv, ReportsLast
    <2> QED
      BY <1>1, <2>1, <2>2, <2>3 DEF IInv, SeenSoFar, ReportsLast, CutIsDisclosed
  <1>15. Cardinality(Written)' = (counts["suppressed"] + counts["targets_omitted"] + Ops(writes))'
    <2>1. Written' = Written
      BY <1>1 DEF Written
    <2> QED
      BY <1>1, <1>12, <2>1 DEF IInv, EveryWriteIsCounted
  <1>16. Ops(SubSeq(writes', 1, classified'))
           = SumFound(findings') + counts'["unknown_root"] + counts'["same_project"]
    BY <1>1, <1>8, <1>9, <1>12
  <1>17. FoundOps' = SumFound(findings')
    BY DEF FoundOps, SumFound, MapThenSumSet, MapThenFoldSet
  <1> QED
    BY <1>12, <1>13, <1>14, <1>15, <1>16, <1>17 DEF IInv, EveryWriteIsCounted

-----------------------------------------------------------------------------
(***************************************************************************)
(* Reporting.                                                              *)
(***************************************************************************)
LEMMA ReportKeeps ==
  ASSUME IInv, Report
  PROVE  IInv'
  <1>1. /\ log' = log /\ pos' = pos /\ counts' = counts /\ declaring' = declaring /\ cwds' = cwds
        /\ writes' = writes /\ classified' = classified /\ memo' = memo /\ findings' = findings
        /\ reported' = TRUE /\ omitted' = Left
        /\ pos = Len(log) /\ classified = Len(writes)
    BY DEF Report
  <1>2. PICK cut \in SUBSET findings :
          /\ Cardinality(cut) = Left
          /\ \A g \in cut : \A f \in findings \ cut : ~Stronger(g, f)
          /\ shown' = findings \ cut
    BY DEF Report
  <1>3. /\ IsFiniteSet(findings) /\ IsFiniteSet(cut) /\ IsFiniteSet(findings \ cut)
        /\ findings \subseteq Finding
    BY FS_Subset DEF IInv, Distinct, TypeOK
  <1>4. Cardinality(findings) = Cardinality(cut) + Cardinality(findings \ cut)
    <2>1. findings \cap cut = cut /\ findings \ cut = findings \ (findings \cap cut)
      OBVIOUS
    <2>2. Cardinality(findings \ cut) = Cardinality(findings) - Cardinality(findings \cap cut)
      BY <1>3, FS_Difference
    <2>3. /\ Cardinality(findings) \in Nat /\ Cardinality(cut) \in Nat
          /\ Cardinality(findings \ cut) \in Nat
      BY <1>3, FS_CardinalityType
    <2> QED
      BY <2>1, <2>2, <2>3
  <1>5. /\ Cardinality(findings) \in Nat /\ Cardinality(findings \ cut) \in Nat /\ MaxDisplay \in Nat
    BY <1>3, FS_CardinalityType, RetroAssumption
  <1>6. /\ Left \in Nat
        /\ Cardinality(findings \ cut) + Left = Cardinality(findings)
        /\ Left # 0 => Cardinality(findings \ cut) = MaxDisplay
    <2> DEFINE a == Cardinality(findings)
               b == Cardinality(findings \ cut)
    <2>1. a = Left + b /\ a \in Nat /\ b \in Nat
      BY <1>2, <1>4, <1>5
    <2>2. Left = IF a > MaxDisplay THEN a - MaxDisplay ELSE 0
      BY DEF Left
    <2> HIDE DEF a, b
    <2>3. Left \in Nat
      BY <1>5, <2>1, <2>2
    <2>4. b + Left = a /\ (Left # 0 => b = MaxDisplay)
      BY <1>5, <2>1, <2>2
    <2> QED
      BY <2>3, <2>4 DEF a, b
  <1>7. \A f \in findings \ cut : \A g \in cut : Rank[f.class] <= Rank[g.class]
    <2>1. \A f \in findings : Rank[f.class] \in Nat
      BY <1>3 DEF Finding, Classes, Rank
    <2>2. \A f \in findings \ cut : \A g \in cut : ~(Rank[g.class] < Rank[f.class])
      BY <1>2 DEF Stronger
    <2> QED
      BY <2>1, <2>2
  <1>8. TypeOK'
    BY <1>1, <1>2, <1>3, <1>6 DEF IInv, TypeOK
  <1>9. CutIsDisclosed'
    <2>1. findings \ shown' = cut
      BY <1>2
    <2> QED
      BY <1>1, <1>2, <1>6, <1>7, <2>1 DEF CutIsDisclosed
  <1>10. ReadsFirst' /\ ReportsLast' /\ Distinct' /\ SeenSoFar'
    BY <1>1 DEF IInv, ReadsFirst, ReportsLast, Distinct, SeenSoFar, SeenThen, Within
  <1>11. Written' = Written
    BY <1>1 DEF Written
  <1>12. FoundOps = SumFound(findings) /\ FoundOps' = SumFound(findings')
    BY DEF FoundOps, SumFound, MapThenSumSet, MapThenFoldSet
  <1>13. EveryWriteIsCounted'
    BY <1>1, <1>11, <1>12 DEF IInv, EveryWriteIsCounted
  <1> QED
    BY <1>8, <1>9, <1>10, <1>13 DEF IInv

-----------------------------------------------------------------------------
(***************************************************************************)
(* Every behaviour.                                                        *)
(***************************************************************************)
LEMMA InitKeeps ==
  ASSUME Init
  PROVE  IInv
  <1>1. /\ log \in Logs /\ pos = 0 /\ writes = <<>> /\ findings = {} /\ classified = 0
        /\ counts = [c \in Counters |-> 0] /\ cwds = [s \in Sessions |-> {}]
        /\ memo = [d \in Dirs |-> Unvisited] /\ declaring = {}
        /\ reported = FALSE /\ shown = {} /\ omitted = 0
    BY DEF Init
  <1>2. /\ Len(log) \in Nat /\ Len(<<>>) = 0 /\ <<>> \in Seq(WriteKey) /\ 1..0 = {}
        /\ SubSeq(<<>>, 1, 0) = <<>>
    <2>1. log \in Seq(Record)
      BY <1>1, RetroAssumption
    <2>2. <<>> \in Seq(WriteKey) /\ Len(<<>>) = 0
      BY EmptySeq
    <2> QED
      BY <2>1, <2>2, LenProperties, SubSeqEmpty
  <1>3. TypeOK
    <2>1. counts \in [Counters -> Nat] /\ cwds \in [Sessions -> SUBSET Dirs]
      BY <1>1
    <2>2. memo \in [Dirs -> Dirs \cup {NoDir, Unvisited}]
      BY <1>1
    <2>3. /\ pos \in 0..Len(log) /\ writes \in Seq(WriteKey) /\ classified \in 0..Len(writes)
          /\ omitted \in Nat
      BY <1>1, <1>2
    <2>4. log \in Logs /\ declaring \subseteq Sessions /\ findings \subseteq Finding
          /\ shown \subseteq Finding
      BY <1>1
    <2>5. reported \in BOOLEAN
      BY <1>1
    <2> QED
      BY <2>1, <2>2, <2>3, <2>4, <2>5 DEF TypeOK
  <1>4. ReadsFirst /\ Distinct /\ ReportsLast /\ CutIsDisclosed
    BY <1>1, FS_EmptySet DEF ReadsFirst, Distinct, ReportsLast, CutIsDisclosed
  <1>5. SeenSoFar
    BY <1>1, <1>2 DEF SeenSoFar, SeenThen, Within
  <1>6. Written = {} /\ Cardinality({}) = 0
    BY <1>1, <1>2, FS_EmptySet DEF Written
  <1>7. \A c \in {"unknown_root", "same_project", "suppressed", "targets_omitted"} : counts[c] = 0
    BY <1>1 DEF Counters
  <1>8. FoundOps = SumFound({})
    BY <1>1 DEF FoundOps, SumFound, MapThenSumSet, MapThenFoldSet
  <1>9. EveryWriteIsCounted
    <2>1. Cardinality(Written) = 0 /\ Ops(writes) = 0 /\ FoundOps = 0
      BY <1>1, <1>6, <1>8, OpsOfNothing, NothingFound
    <2>2. SubSeq(writes, 1, classified) = <<>>
      BY <1>1, <1>2
    <2>3. Ops(SubSeq(writes, 1, classified)) = 0
      BY <2>2, OpsOfNothing
    <2> QED
      BY <1>7, <2>1, <2>3 DEF EveryWriteIsCounted
  <1> QED
    BY <1>3, <1>4, <1>5, <1>9 DEF IInv

LEMMA StutterKeeps ==
  ASSUME IInv, UNCHANGED vars
  PROVE  IInv'
  <1>1. /\ log' = log /\ pos' = pos /\ counts' = counts /\ declaring' = declaring /\ cwds' = cwds
        /\ writes' = writes /\ classified' = classified /\ memo' = memo /\ findings' = findings
        /\ reported' = reported /\ shown' = shown /\ omitted' = omitted
    BY DEF vars, report
  <1>2. TypeOK' /\ ReadsFirst' /\ Distinct' /\ ReportsLast' /\ CutIsDisclosed'
    BY <1>1 DEF IInv, TypeOK, ReadsFirst, Distinct, ReportsLast, CutIsDisclosed
  <1>3. SeenSoFar'
    BY <1>1 DEF IInv, SeenSoFar, SeenThen, Within
  <1>4. Written' = Written
    BY <1>1 DEF Written
  <1>5. FoundOps = SumFound(findings) /\ FoundOps' = SumFound(findings')
    BY DEF FoundOps, SumFound, MapThenSumSet, MapThenFoldSet
  <1>6. EveryWriteIsCounted'
    BY <1>1, <1>4, <1>5 DEF IInv, EveryWriteIsCounted
  <1> QED
    BY <1>2, <1>3, <1>6 DEF IInv

LEMMA NextKeeps ==
  ASSUME IInv, [Next]_vars
  PROVE  IInv'
  <1>1. SkipRecord \/ ReadCall \/ ReadWrite \/ ClassifyWrite \/ Report \/ UNCHANGED vars
    BY DEF Next
  <1> QED
    BY <1>1, SkipRecordKeeps, ReadCallKeeps, ReadWriteKeeps, ClassifyWriteKeeps, ReportKeeps, StutterKeeps

LEMMA Invariance == Spec => []IInv
  <1>1. Init => IInv
    BY InitKeeps
  <1>2. IInv /\ [Next]_vars => IInv'
    BY NextKeeps
  <1> QED
    BY <1>1, <1>2, PTL DEF Spec

(***************************************************************************)
(* Every write of the window ends in exactly one counter or finding, and   *)
(* every finding is shown or counted as omitted, never behind one of a     *)
(* weaker class (scan, rank_findings), whatever the transcripts hold and   *)
(* however small the bounds on targets and on the display are.             *)
(***************************************************************************)
THEOREM Accounts == Spec => []WritesAccounted
  <1>1. IInv => WritesAccounted
    BY DEF IInv, WritesAccounted
  <1> QED
    BY <1>1, Invariance, PTL

-----------------------------------------------------------------------------
(***************************************************************************)
(* Findings are founded on the log.                                        *)
(***************************************************************************)
FoundAll(n) ==
  \A k \in 1..n : Strays(writes[k]) =>
    \E f \in findings : f.sess = writes[k].sess /\ f.target = writes[k].target

OrderInv ==
  /\ Transparent(memo)
  /\ \A f \in findings : FoundedOn(f, classified)
  /\ FoundAll(classified)

\* Once everything is read, a session was seen where the log says.
LEMMA AllSeen ==
  ASSUME IInv, pos = Len(log), NEW s \in Sessions
  PROVE  cwds[s] = SeenIn(s)
  <1>1. DOMAIN log = 1..Len(log)
    BY LogType DEF IInv
  <1>2. cwds[s] = SeenThen(s, pos)
    BY DEF IInv, SeenSoFar
  <1> QED
    BY <1>1, <1>2 DEF SeenThen, Within, SeenIn

\* What a write is compared with does not depend on the memory.
LEMMA Compared ==
  ASSUME Shallow, IInv, Transparent(memo), NEW w \in WriteKey, pos = Len(log)
  PROVE  /\ w.cwd # NoDir => Source(w, memo) = Resolve(w.cwd, SeenIn(w.sess), Nothing)
         /\ w.cwd = NoDir => Source(w, memo) = NoDir
         /\ Dest(w, AfterSource(w, memo)) = Resolve(w.target.dir, SeenIn(w.sess), Nothing)
         /\ Transparent(AfterSource(w, memo))
         /\ Transparent(AfterResolve(w.target.dir, AfterSource(w, memo)))
  <1>1. /\ w.cwd \in Dirs \cup {NoDir} /\ w.target.dir \in Dirs /\ w.sess \in Sessions
        /\ memo \in Memory /\ cwds[w.sess] = SeenIn(w.sess) /\ TypeOK
    BY AllSeen DEF WriteKey, Target, IInv, TypeOK, Memory
  <1>2. /\ w.cwd # NoDir => Source(w, memo) = Resolve(w.cwd, SeenIn(w.sess), Nothing)
        /\ w.cwd = NoDir => Source(w, memo) = NoDir
        /\ Transparent(AfterSource(w, memo))
    BY <1>1, Resolved DEF Source, AfterSource
  <1>3. AfterSource(w, memo) \in Memory
    BY <1>1, RootsType
  <1> DEFINE known == AfterSource(w, memo)
  <1>4. known \in Memory /\ Transparent(known)
    BY <1>2, <1>3
  <1> HIDE DEF known
  <1>5. /\ Resolve(w.target.dir, SeenIn(w.sess), known) = Resolve(w.target.dir, SeenIn(w.sess), Nothing)
        /\ Transparent(AfterResolve(w.target.dir, known))
    BY <1>1, <1>4, Resolved
  <1>6. Dest(w, known) = Resolve(w.target.dir, SeenIn(w.sess), known)
    BY <1>1 DEF Dest
  <1> QED
    BY <1>2, <1>5, <1>6 DEF known

\* The class of a write is what the log says of it.
LEMMA Classed ==
  ASSUME Shallow, IInv, Transparent(memo), pos = Len(log), NEW w \in WriteKey
  PROVE  /\ Strays(w) <=> ClassOf(w, memo) \in Classes
         /\ Strays(w) => ClassOf(w, memo) = ClassTo(w.sess, w.target)
         /\ Source(w, memo) = RootFrom(w)
         /\ Dest(w, AfterSource(w, memo)) = RootTo(w.sess, w.target)
  <1> DEFINE source == Source(w, memo)
             dest == Dest(w, AfterSource(w, memo))
  <1>1. source = RootFrom(w) /\ dest = RootTo(w.sess, w.target)
    BY Compared DEF RootFrom, RootTo
  <1>2. ClassOf(w, memo) =
          CASE IsClaudeConfig(w.target) -> "claude_config"
            [] ~IsClaudeConfig(w.target) /\ source = NoDir -> "unknown_root"
            [] ~IsClaudeConfig(w.target) /\ source # NoDir /\ dest = NoDir -> "non_project"
            [] ~IsClaudeConfig(w.target) /\ source # NoDir /\ dest = source -> "same_project"
            [] OTHER -> "cross_project"
    BY DEF ClassOf
  <1> HIDE DEF source, dest
  <1>3. IsClaudeConfig(w.target) => ClassOf(w, memo) = "claude_config"
    BY <1>2
  <1>4. ~IsClaudeConfig(w.target) =>
          ClassOf(w, memo) = IF source = NoDir THEN "unknown_root"
                             ELSE IF dest = NoDir THEN "non_project"
                             ELSE IF dest = source THEN "same_project" ELSE "cross_project"
    BY <1>2
  <1>5. /\ Strays(w) <=> ClassOf(w, memo) \in Classes
        /\ Strays(w) => ClassOf(w, memo) = ClassTo(w.sess, w.target)
    BY <1>1, <1>3, <1>4 DEF Strays, ClassTo, Classes
  <1> QED
    BY <1>1, <1>5 DEF source, dest

\* What the log says of a write stays.
LEMMA LogStays ==
  ASSUME log' = log, writes' = writes
  PROVE  /\ \A s : SeenIn(s)' = SeenIn(s)
         /\ \A w : RootFrom(w)' = RootFrom(w)
         /\ \A s, t : RootTo(s, t)' = RootTo(s, t)
         /\ \A w : Strays(w)' = Strays(w)
         /\ \A s, t : ClassTo(s, t)' = ClassTo(s, t)
  <1>1. \A s : SeenIn(s)' = SeenIn(s)
    BY DEF SeenIn
  <1>2. \A w : RootFrom(w)' = RootFrom(w)
    BY <1>1 DEF RootFrom
  <1>3. \A s, t : RootTo(s, t)' = RootTo(s, t)
    BY <1>1 DEF RootTo
  <1>4. \A w : Strays(w)' = Strays(w)
    BY <1>2, <1>3 DEF Strays
  <1>5. \A s, t : ClassTo(s, t)' = ClassTo(s, t)
    BY <1>3 DEF ClassTo
  <1> QED
    BY <1>1, <1>2, <1>3, <1>4, <1>5

LEMMA FoundedStays ==
  ASSUME log' = log, writes' = writes, NEW m, NEW f, FoundedOn(f, m), classified' = m
  PROVE  FoundedOn(f, classified)'
  <1>1. PICK K : K = Behind(f.sess, f.target, m)
    OBVIOUS
  <1>2. Behind(f.sess, f.target, classified)' = K
    BY <1>1, LogStays DEF Behind
  <1>3. PICK first : first = writes[Min(K)]
    OBVIOUS
  <1>4. writes'[Min(K)] = first
    BY <1>3
  <1>5. PICK total : total = OpsAt(writes, K)
    OBVIOUS
  <1>6. OpsAt(writes', K) = total
    BY <1>5
  <1>7. /\ K # {} /\ f.class = ClassTo(f.sess, f.target) /\ f.source = RootFrom(first)
        /\ f.dest = IF f.class = "claude_config" THEN NoDir ELSE RootTo(f.sess, f.target)
        /\ f.ops = total
    BY <1>1, <1>3, <1>5 DEF FoundedOn
  <1>8. /\ f.class = ClassTo(f.sess, f.target)' /\ f.source = RootFrom(first)'
        /\ f.dest = IF f.class = "claude_config" THEN NoDir ELSE RootTo(f.sess, f.target)'
    BY <1>7, LogStays
  <1> QED
    BY <1>2, <1>4, <1>6, <1>7, <1>8 DEF FoundedOn

\* Findings of one session and target are one.
LEMMA SameFinding ==
  ASSUME Distinct, NEW n, NEW f \in findings, NEW g \in findings,
         FoundedOn(f, n), FoundedOn(g, n), f.sess = g.sess, f.target = g.target
  PROVE  f = g
  BY DEF Distinct, FoundedOn

\* The writes behind a finding, with one more classified.
LEMMA BehindGrows ==
  ASSUME NEW n \in Nat, NEW s, NEW t
  PROVE  Behind(s, t, n + 1) =
           IF writes[n + 1].sess = s /\ writes[n + 1].target = t /\ Strays(writes[n + 1])
             THEN Behind(s, t, n) \cup {n + 1} ELSE Behind(s, t, n)
  <1>1. 1..(n + 1) = (1..n) \cup {n + 1}
    OBVIOUS
  <1> QED
    BY <1>1 DEF Behind

LEMMA StaysFounded ==
  ASSUME NEW n \in Nat, NEW f, FoundedOn(f, n),
         ~(writes[n + 1].sess = f.sess /\ writes[n + 1].target = f.target /\ Strays(writes[n + 1]))
  PROVE  FoundedOn(f, n + 1)
  <1>1. Behind(f.sess, f.target, n + 1) = Behind(f.sess, f.target, n)
    BY BehindGrows
  <1> QED
    BY <1>1 DEF FoundedOn

\* The first write that strays to a target founds its finding.
LEMMA NewFounded ==
  ASSUME Shallow, IInv, OrderInv, pos = Len(log), classified < Len(writes),
         NEW w \in WriteKey, w = writes[classified + 1], Strays(w),
         \A f \in findings : ~SameAs(f, w, ClassTo(w.sess, w.target))
  PROVE  FoundedOn(FindingOf(w, ClassTo(w.sess, w.target)), classified + 1)
  <1> DEFINE n == classified
             class == ClassTo(w.sess, w.target)
             x == FindingOf(w, class)
             K == Behind(w.sess, w.target, n)
  <1>1. n \in Nat /\ writes \in Seq(WriteKey) /\ n + 1 \in DOMAIN writes /\ Transparent(memo)
    BY WriteType, KeysType DEF IInv, OrderInv
  <1>2. /\ x.sess = w.sess /\ x.class = class /\ x.target = w.target /\ x.ops = w.ops
        /\ x.source = RootFrom(w)
        /\ x.dest = IF class = "claude_config" THEN NoDir ELSE RootTo(w.sess, w.target)
    BY <1>1, Classed DEF FindingOf
  <1>3. K = {}
    <2>1. SUFFICES ASSUME NEW k \in K PROVE FALSE
      OBVIOUS
    <2>2. k \in 1..n /\ writes[k].sess = w.sess /\ writes[k].target = w.target /\ Strays(writes[k])
      BY DEF Behind
    <2>3. PICK f \in findings : f.sess = w.sess /\ f.target = w.target
      BY <2>2 DEF OrderInv, FoundAll
    <2>4. f.class = class
      BY <2>3 DEF OrderInv, FoundedOn
    <2> QED
      BY <2>3, <2>4 DEF SameAs
  <1>4. Behind(w.sess, w.target, n + 1) = {n + 1}
    BY <1>1, <1>3, BehindGrows
  <1>5. Min({n + 1}) = n + 1
    <2>1. {n + 1} \in SUBSET Nat /\ {n + 1} # {}
      BY <1>1
    <2> QED
      BY <2>1, MinIn
  <1>6. OpsAt(writes, {n + 1}) = w.ops
    BY <1>1, OpsAtOne
  <1> HIDE DEF x, K, class
  <1>7. FoundedOn(x, n + 1)
    BY <1>2, <1>4, <1>5, <1>6 DEF FoundedOn, class
  <1> QED
    BY <1>7 DEF x, class

\* Another adds its operations, and nothing else.
LEMMA MoreFounded ==
  ASSUME NEW n \in Nat, writes \in Seq(WriteKey), n + 1 \in DOMAIN writes,
         NEW f, NEW g, FoundedOn(f, n), Strays(writes[n + 1]),
         f.sess = writes[n + 1].sess, f.target = writes[n + 1].target,
         g.sess = f.sess, g.class = f.class, g.target = f.target, g.source = f.source,
         g.dest = f.dest, g.ops = f.ops + writes[n + 1].ops
  PROVE  FoundedOn(g, n + 1)
  <1> DEFINE K == Behind(f.sess, f.target, n)
             L == Behind(f.sess, f.target, n + 1)
  <1>1. L = K \cup {n + 1} /\ K # {} /\ K \subseteq 1..n
    BY BehindGrows DEF FoundedOn, Behind
  <1>2. K \in SUBSET (DOMAIN writes) /\ n + 1 \notin K
    <2>1. DOMAIN writes = 1..Len(writes) /\ Len(writes) \in Nat
      BY KeysType
    <2> QED
      BY <1>1, <2>1
  <1>3. /\ f.class = ClassTo(f.sess, f.target) /\ f.source = RootFrom(writes[Min(K)])
        /\ f.dest = IF f.class = "claude_config" THEN NoDir ELSE RootTo(f.sess, f.target)
        /\ f.ops = OpsAt(writes, K)
    BY DEF FoundedOn
  <1> HIDE DEF K, L
  <1>4. Min(L) = Min(K)
    <2>1. K \in SUBSET Nat /\ L \in SUBSET Nat /\ L # {}
      BY <1>1
    <2>2. Min(K) \in K /\ (\A j \in K : Min(K) <= j) /\ Min(L) \in L /\ \A j \in L : Min(L) <= j
      BY <1>1, <2>1, MinIn
    <2>3. Min(K) < n + 1 /\ Min(K) \in L
      <3>1. Min(K) \in 1..n /\ Min(K) \in L
        BY <1>1, <2>2
      <3> QED
        BY <3>1
    <2>4. Min(L) <= Min(K) /\ Min(L) # n + 1
      <3>1. Min(L) <= Min(K) /\ Min(L) \in Nat /\ Min(K) \in Nat
        BY <2>1, <2>2, <2>3
      <3> QED
        BY <2>3, <3>1
    <2>5. Min(L) \in K
      BY <1>1, <2>2, <2>4
    <2>6. Min(K) <= Min(L) /\ Min(L) \in Nat /\ Min(K) \in Nat
      BY <2>1, <2>2, <2>5
    <2> QED
      BY <2>4, <2>6
  <1>5. OpsAt(writes, L) = OpsAt(writes, K) + writes[n + 1].ops
    BY <1>1, <1>2, OpsAtAdds
  <1>6. Behind(g.sess, g.target, n + 1) = L
    BY DEF L
  <1> QED
    BY <1>1, <1>3, <1>4, <1>5, <1>6 DEF FoundedOn

LEMMA ClassifyWriteOrder ==
  ASSUME Shallow, IInv, OrderInv, ClassifyWrite
  PROVE  OrderInv'
  <1> DEFINE n == classified
             w == writes[n + 1]
             class == ClassOf(w, memo)
  <1>1. /\ TypeOK /\ Distinct /\ pos = Len(log) /\ n < Len(writes) /\ classified' = n + 1
        /\ log' = log /\ writes' = writes
    BY DEF ClassifyWrite, IInv
  <1>2. memo' = IF NeedsDest(w, memo) THEN AfterResolve(w.target.dir, AfterSource(w, memo))
                ELSE AfterSource(w, memo)
    BY DEF ClassifyWrite
  <1>3. IF class \in Classes THEN findings' = Merge(w, class) ELSE findings' = findings
    BY DEF ClassifyWrite
  <1>4. n \in Nat /\ w \in WriteKey /\ writes \in Seq(WriteKey) /\ n + 1 \in DOMAIN writes
    BY <1>1, WriteType, KeysType
  <1>5. Transparent(memo) /\ (\A f \in findings : FoundedOn(f, n)) /\ FoundAll(n)
    BY DEF OrderInv
  <1>6. /\ Strays(w) <=> class \in Classes
        /\ Strays(w) => class = ClassTo(w.sess, w.target)
    BY <1>1, <1>4, <1>5, Classed
  <1>7. Transparent(memo')
    BY <1>1, <1>2, <1>4, <1>5, Compared
  <1>8. 1..(n + 1) = (1..n) \cup {n + 1}
    BY <1>4
  <1> DEFINE Founded == \A f \in findings' : FoundedOn(f, n + 1)
             All == \A k \in 1..(n + 1) : Strays(writes[k]) =>
                      \E f \in findings' : f.sess = writes[k].sess /\ f.target = writes[k].target
  <1>9. Founded /\ All
    <2>1. CASE ~Strays(w)
      <3>1. findings' = findings
        BY <1>3, <1>6, <2>1
      <3>2. \A f \in findings : FoundedOn(f, n + 1)
        BY <1>4, <1>5, <2>1, StaysFounded
      <3> QED
        BY <1>5, <1>8, <2>1, <3>1, <3>2 DEF FoundAll
    <2>2. ASSUME Strays(w), \A f \in findings : ~SameAs(f, w, class),
                 Merge(w, class) = findings \cup {FindingOf(w, class)}
          PROVE  Founded /\ All
      <3> DEFINE x == FindingOf(w, class)
      <3>1. findings' = findings \cup {x}
        BY <1>3, <1>6, <2>2
      <3>2. FoundedOn(x, n + 1)
        <4>1. class = ClassTo(w.sess, w.target)
          BY <1>6, <2>2
        <4>2. \A f \in findings : ~SameAs(f, w, ClassTo(w.sess, w.target))
          BY <4>1, <2>2
        <4>3. FoundedOn(FindingOf(w, ClassTo(w.sess, w.target)), n + 1)
          BY <1>1, <1>4, <2>2, <4>2, NewFounded
        <4> QED
          BY <4>1, <4>3
      <3>3. x.sess = w.sess /\ x.target = w.target
        BY DEF FindingOf
      <3> HIDE DEF x
      <3>4. ASSUME NEW f \in findings PROVE FoundedOn(f, n + 1)
        <4>1. f.sess = w.sess /\ f.target = w.target => SameAs(f, w, class)
          BY <1>5, <1>6, <2>2 DEF FoundedOn, SameAs
        <4>2. ~(f.sess = w.sess /\ f.target = w.target)
          BY <2>2, <4>1
        <4> QED
          BY <1>4, <1>5, <4>2, StaysFounded
      <3> QED
        BY <1>5, <1>8, <3>1, <3>2, <3>3, <3>4 DEF FoundAll
    <2>3. ASSUME Strays(w), NEW f \in findings, SameAs(f, w, class),
                 Merge(w, class) = (findings \ {f}) \cup {[f EXCEPT !.ops = @ + w.ops]}
          PROVE  Founded /\ All
      <3> DEFINE x == [f EXCEPT !.ops = @ + w.ops]
      <3>1. findings' = (findings \ {f}) \cup {x}
        BY <1>3, <1>6, <2>3
      <3>2. f \in Finding
        BY <1>1 DEF TypeOK
      <3>3. /\ x.sess = f.sess /\ x.class = f.class /\ x.target = f.target
            /\ x.source = f.source /\ x.dest = f.dest /\ x.ops = f.ops + w.ops
        BY <3>2 DEF Finding
      <3>4. f.sess = w.sess /\ f.target = w.target
        BY <2>3 DEF SameAs
      <3> HIDE DEF x
      <3>5. FoundedOn(x, n + 1)
        BY <1>4, <1>5, <2>3, <3>3, <3>4, MoreFounded
      <3>6. ASSUME NEW g \in findings \ {f} PROVE FoundedOn(g, n + 1)
        <4>1. ~(g.sess = w.sess /\ g.target = w.target)
          BY <1>1, <1>5, <3>4, SameFinding
        <4> QED
          BY <1>4, <1>5, <4>1, StaysFounded
      <3>7. \A g \in findings : \E h \in findings' : h.sess = g.sess /\ h.target = g.target
        BY <3>1, <3>3
      <3> QED
        BY <1>5, <1>8, <3>1, <3>4, <3>5, <3>6, <3>7 DEF FoundAll
    <2> QED
      BY <1>1, <1>4, <1>6, <2>1, <2>2, <2>3, Merged
  <1> HIDE DEF w, class
  <1>10. ASSUME NEW f, FoundedOn(f, n + 1) PROVE FoundedOn(f, classified)'
    BY <1>1, <1>10, FoundedStays
  <1>11. FoundAll(classified)'
    <2>1. SUFFICES ASSUME NEW k \in 1..(n + 1), Strays(writes[k])'
                   PROVE  \E f \in findings' :
                            f.sess = writes[k].sess /\ f.target = writes[k].target
      BY <1>1 DEF FoundAll
    <2>2. PICK v : v = writes[k]
      OBVIOUS
    <2>3. Strays(v)'
      BY <1>1, <2>1, <2>2
    <2>4. Strays(v)
      BY <1>1, <2>3, LogStays
    <2> QED
      BY <1>9, <2>2, <2>4
  <1>12. Transparent(memo)'
    BY <1>7 DEF Transparent
  <1> QED
    BY <1>9, <1>10, <1>11, <1>12 DEF OrderInv

\* Nothing is found, and nothing walked, while records are read or reported.
LEMMA ReadingOrder ==
  ASSUME IInv, OrderInv, Reading \/ Report \/ UNCHANGED vars
  PROVE  OrderInv'
  <1>1. log' = log /\ memo' = memo /\ findings' = findings /\ classified' = classified
    BY DEF Reading, Report, vars
  <1>2. CASE Report \/ UNCHANGED vars
    <2>1. writes' = writes
      BY <1>2 DEF Report, vars
    <2>2. ASSUME NEW f \in findings PROVE FoundedOn(f, classified)'
      <3>1. FoundedOn(f, classified)
        BY DEF OrderInv
      <3> QED
        BY <1>1, <2>1, <3>1, FoundedStays
    <2>3. FoundAll(classified)'
      BY <1>1, <2>1 DEF OrderInv, FoundAll, Strays, RootFrom, RootTo, SeenIn
    <2>4. Transparent(memo)'
      BY <1>1 DEF OrderInv, Transparent
    <2> QED
      BY <1>1, <2>2, <2>3, <2>4 DEF OrderInv
  <1>3. CASE Reading
    <2>1. classified = 0
      BY <1>3, LogType DEF Reading, IInv, ReadsFirst
    <2>2. findings = {}
      BY <2>1 DEF OrderInv, FoundedOn, Behind
    <2>3. FoundAll(classified)'
      BY <1>1, <2>1 DEF FoundAll
    <2>4. Transparent(memo)'
      BY <1>1 DEF OrderInv, Transparent
    <2> QED
      BY <1>1, <2>2, <2>3, <2>4 DEF OrderInv
  <1> QED
    BY <1>2, <1>3

LEMMA InitOrder ==
  ASSUME Init
  PROVE  OrderInv
  <1>1. findings = {} /\ memo = [d \in Dirs |-> Unvisited] /\ classified = 0
    BY DEF Init
  <1> QED
    BY <1>1 DEF OrderInv, Transparent, FoundAll

(***************************************************************************)
(* In a tree no deeper than a walk goes, the memory of roots never changes *)
(* an answer, and each finding is founded on exactly the collected writes  *)
(* of its session that strayed to its target: their operations, the class  *)
(* and destination the whole log gives them, and the source of the first   *)
(* (RootResolver, scan).                                                   *)
(***************************************************************************)
THEOREM FollowsTheLog == ASSUME Shallow PROVE Spec => []FindingsFollowTheLog
  <1>1. Init => OrderInv
    BY InitOrder
  <1>2. IInv /\ OrderInv /\ [Next]_vars => OrderInv'
    <2>1. SUFFICES ASSUME IInv, OrderInv, [Next]_vars PROVE OrderInv'
      OBVIOUS
    <2>2. ClassifyWrite \/ Reading \/ Report \/ UNCHANGED vars
      BY <2>1 DEF Next, SkipRecord, ReadCall, ReadWrite
    <2> QED
      BY <2>1, <2>2, ClassifyWriteOrder, ReadingOrder
  <1>3. OrderInv => FindingsFollowTheLog
    BY DEF OrderInv, FindingsFollowTheLog, MemoIsTransparent, FindingsAreFounded, FoundAll,
           Transparent, Root
  <1> QED
    BY <1>1, <1>2, <1>3, Invariance, PTL DEF Spec
=============================================================================
