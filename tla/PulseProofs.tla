------------------------------ MODULE PulseProofs ------------------------------
(***************************************************************************)
(* Proofs about pulse: the walks over a trace (PulseWalk), the report made *)
(* of them (PulseReport) and the session whose transcript the turns come   *)
(* from (TranscriptTurns), for any number of turns, tool calls, rules,     *)
(* events and lines.                                                       *)
(*                                                                         *)
(* 1. The walks.  The owner of an event is a function of the trace and of  *)
(*    how many events are read; OwnerThen says how reading one more event  *)
(*    changes it: only an event without an owner gets one, the turn of     *)
(*    what is read.  BurnStep, BillStep and UsageStep say the same of what *)
(*    the walks hold, for any trace; EveryStepReads that each reading step *)
(*    does that.  WalkInv is the invariant of the walks.                   *)
(* 2. The parse.  The library's folds are recursive functions; that they   *)
(*    exist, and go through a sequence in order, is proved from a least    *)
(*    counterexample (FoldsInOrder).  LineSeen then carries what the parse *)
(*    says of each turn and tool call from line to line.                   *)
(* 3. The session.  SessionInv adds to WalkInv that the snapshots of a     *)
(*    trace are one per reported turn and say what the transcript said,    *)
(*    which a transcript that only grows cannot take back (LineKeeps).     *)
(* 4. The sums.  What is needed of the library's sums over finite sets, by *)
(*    induction on a set's size (BySize), and with it that the bills of a  *)
(*    report add up.                                                       *)
(***************************************************************************)
EXTENDS TranscriptTurns, SequenceTheorems, FiniteSetTheorems,
        WellFoundedInduction, TLAPS

-----------------------------------------------------------------------------
(***************************************************************************)
(* Sets of naturals have a least member.                                   *)
(***************************************************************************)
Less == {r \in Nat \X Nat : r[1] < r[2]}

LEMMA Least ==
  ASSUME NEW T \in SUBSET Nat, T # {}
  PROVE  \E i \in T : \A j \in T : i <= j
  <1>1. OpToRel(<, Nat) = Less
    BY DEF OpToRel, Less
  <1>2. IsWellFoundedOn(Less, Nat)
    BY <1>1, NatLessThanWellFounded
  <1>3. PICK i \in T : \A j \in T : <<j, i>> \notin Less
    BY <1>2, WFMin
  <1>4. ASSUME NEW j \in T PROVE i <= j
    <2>1. i \in Nat /\ j \in Nat
      OBVIOUS
    <2>2. ~(j < i)
      BY <1>3, <2>1 DEF Less
    <2> QED
      BY <2>1, <2>2
  <1> QED
    BY <1>4

-----------------------------------------------------------------------------
(***************************************************************************)
(* The owner of an event, of any trace.                                    *)
(***************************************************************************)
WellFormed(tr) ==
  /\ tr \in Seq(Event)
  /\ \A j \in DOMAIN tr :
       /\ tr[j].turn # NoTurn => tr[j].type = "CTX"
       /\ tr[j].type \in {"INTENT", "OTHER", "MALFORMED"} => tr[j].rules = {}

Listers(tr, u) == {j \in DOMAIN tr : tr[j].turn # NoTurn /\ u \in tr[j].lists}

JoinOf(tr, u) ==
  IF u = NoUse \/ Listers(tr, u) = {} THEN NoTurn
  ELSE tr[CHOOSE j \in Listers(tr, u) : \A k \in Listers(tr, u) : j <= k].turn

Later(tr, j, n) == {k \in (j + 1)..n : tr[k].turn # NoTurn}

OwnerOf(tr, j, n) ==
  CASE tr[j].turn # NoTurn -> tr[j].turn
    [] tr[j].turn = NoTurn /\ JoinOf(tr, tr[j].use) # NoTurn -> JoinOf(tr, tr[j].use)
    [] tr[j].turn = NoTurn /\ JoinOf(tr, tr[j].use) = NoTurn /\ Later(tr, j, n) # {}
         -> tr[CHOOSE k \in Later(tr, j, n) : \A l \in Later(tr, j, n) : k <= l].turn
    [] OTHER -> NoTurn

LEMMA JoinType ==
  ASSUME NEW tr, WellFormed(tr), NEW u
  PROVE  JoinOf(tr, u) \in Turns \cup {NoTurn}
  <1>1. CASE Listers(tr, u) = {}
    BY <1>1 DEF JoinOf
  <1>2. CASE Listers(tr, u) # {}
    <2>1. Listers(tr, u) \in SUBSET Nat /\ Listers(tr, u) \subseteq DOMAIN tr
      BY DEF Listers, WellFormed
    <2>2. \E j \in Listers(tr, u) : \A k \in Listers(tr, u) : j <= k
      BY <1>2, <2>1, Least
    <2> DEFINE j == CHOOSE j \in Listers(tr, u) : \A k \in Listers(tr, u) : j <= k
    <2>3. j \in DOMAIN tr
      BY <2>1, <2>2
    <2> HIDE DEF j
    <2>4. tr[j] \in Event
      BY <2>3 DEF WellFormed
    <2>5. tr[j].turn \in Turns \cup {NoTurn}
      BY <2>4 DEF Event
    <2> QED
      BY <1>2, <2>5 DEF JoinOf, j
  <1> QED
    BY <1>1, <1>2

LEMMA OwnerNow ==
  ASSUME NEW tr, NEW n \in Nat
  PROVE  OwnerOf(tr, n, n) = IF tr[n].turn # NoTurn THEN tr[n].turn ELSE JoinOf(tr, tr[n].use)
  <1>1. Later(tr, n, n) = {}
    BY DEF Later
  <1> QED
    BY <1>1 DEF OwnerOf

LEMMA OwnerThen ==
  ASSUME NEW tr, WellFormed(tr), NEW n \in Nat, n < Len(tr), NEW j \in 1..n
  PROVE  OwnerOf(tr, j, n + 1) =
           IF OwnerOf(tr, j, n) = NoTurn THEN tr[n + 1].turn ELSE OwnerOf(tr, j, n)
  <1>1. CASE tr[j].turn # NoTurn
    BY <1>1 DEF OwnerOf
  <1>2. CASE tr[j].turn = NoTurn /\ JoinOf(tr, tr[j].use) # NoTurn
    BY <1>2 DEF OwnerOf
  <1>3. CASE tr[j].turn = NoTurn /\ JoinOf(tr, tr[j].use) = NoTurn /\ Later(tr, j, n) # {}
    <2>1. Later(tr, j, n) \in SUBSET Nat
      BY DEF Later
    <2>2. PICK k \in Later(tr, j, n) : \A l \in Later(tr, j, n) : k <= l
      BY <1>3, <2>1, Least
    <2>3. k \in Nat /\ k <= n /\ tr[k].turn # NoTurn /\ k \in Later(tr, j, n + 1)
      BY <2>2 DEF Later
    <2>4. \A l \in Later(tr, j, n + 1) : l \in Nat /\ (l \in Later(tr, j, n) \/ l = n + 1)
      BY DEF Later
    <2>5. \A l \in Later(tr, j, n + 1) : k <= l
      BY <2>2, <2>3, <2>4
    <2>6. \A i \in Later(tr, j, n + 1) : (\A l \in Later(tr, j, n + 1) : i <= l) => i = k
      BY <2>3, <2>4, <2>5
    <2>7. \A i \in Later(tr, j, n) : (\A l \in Later(tr, j, n) : i <= l) => i = k
      BY <2>1, <2>2
    <2>8. (CHOOSE i \in Later(tr, j, n + 1) : \A l \in Later(tr, j, n + 1) : i <= l) = k
      BY <2>3, <2>5, <2>6
    <2>9. (CHOOSE i \in Later(tr, j, n) : \A l \in Later(tr, j, n) : i <= l) = k
      BY <2>2, <2>7
    <2>10. OwnerOf(tr, j, n + 1) = tr[k].turn
      BY <1>3, <2>3, <2>8 DEF OwnerOf
    <2>11. OwnerOf(tr, j, n) = tr[k].turn
      BY <1>3, <2>9 DEF OwnerOf
    <2> QED
      BY <2>3, <2>10, <2>11
  <1>4. CASE tr[j].turn = NoTurn /\ JoinOf(tr, tr[j].use) = NoTurn /\ Later(tr, j, n) = {}
    <2>1. OwnerOf(tr, j, n) = NoTurn
      BY <1>4 DEF OwnerOf
    <2>2. CASE tr[n + 1].turn = NoTurn
      <3>1. Later(tr, j, n + 1) = {}
        BY <1>4, <2>2 DEF Later
      <3> QED
        BY <1>4, <2>1, <2>2, <3>1 DEF OwnerOf
    <2>3. CASE tr[n + 1].turn # NoTurn
      <3>1. Later(tr, j, n + 1) = {n + 1}
        BY <1>4, <2>3 DEF Later
      <3>2. (CHOOSE i \in Later(tr, j, n + 1) : \A l \in Later(tr, j, n + 1) : i <= l) = n + 1
        BY <3>1
      <3>3. OwnerOf(tr, j, n + 1) = tr[n + 1].turn
        BY <1>4, <3>1, <3>2 DEF OwnerOf
      <3> QED
        BY <2>1, <3>3
    <2> QED
      BY <2>2, <2>3
  <1> QED
    BY <1>1, <1>2, <1>3, <1>4

-----------------------------------------------------------------------------
(***************************************************************************)
(* What each walk holds after n events of any trace, entry by entry.       *)
(***************************************************************************)
IsCharged(tr, n, laid, held) ==
  /\ laid = {[rule |-> v.rule, at |-> v.at, turn |-> OwnerOf(tr, v.at, n)] :
               v \in {w \in {[rule |-> r, at |-> j] : r \in Rules, j \in 1..n} :
                        w.rule \in tr[w.at].rules /\ OwnerOf(tr, w.at, n) # NoTurn}}
  /\ held = {w \in {[rule |-> r, at |-> j] : r \in Rules, j \in 1..n} :
               w.rule \in tr[w.at].rules /\ OwnerOf(tr, w.at, n) = NoTurn}

Breach(tr, n, r, j) == r \in Rules /\ j \in 1..n /\ r \in tr[j].rules

LEMMA ChargedByEntry ==
  ASSUME NEW tr, NEW n \in Nat, NEW laid, NEW held
  PROVE  IsCharged(tr, n, laid, held) <=>
           /\ \A c : c \in laid <=>
                \E r \in Rules, j \in 1..n :
                   /\ Breach(tr, n, r, j) /\ OwnerOf(tr, j, n) # NoTurn
                   /\ c = [rule |-> r, at |-> j, turn |-> OwnerOf(tr, j, n)]
           /\ \A c : c \in held <=>
                \E r \in Rules, j \in 1..n :
                   /\ Breach(tr, n, r, j) /\ OwnerOf(tr, j, n) = NoTurn
                   /\ c = [rule |-> r, at |-> j]
  <1> DEFINE V == {[rule |-> r, at |-> j] : r \in Rules, j \in 1..n}
             L == {[rule |-> v.rule, at |-> v.at, turn |-> OwnerOf(tr, v.at, n)] :
                     v \in {w \in V : w.rule \in tr[w.at].rules /\ OwnerOf(tr, w.at, n) # NoTurn}}
             H == {w \in V : w.rule \in tr[w.at].rules /\ OwnerOf(tr, w.at, n) = NoTurn}
  <1>1. \A c : c \in L <=>
           \E r \in Rules, j \in 1..n :
              /\ Breach(tr, n, r, j) /\ OwnerOf(tr, j, n) # NoTurn
              /\ c = [rule |-> r, at |-> j, turn |-> OwnerOf(tr, j, n)]
    <2> DEFINE W == {w \in V : w.rule \in tr[w.at].rules /\ OwnerOf(tr, w.at, n) # NoTurn}
    <2>1. \A v : v \in W <=>
             \E r \in Rules, j \in 1..n :
                Breach(tr, n, r, j) /\ OwnerOf(tr, j, n) # NoTurn /\ v = [rule |-> r, at |-> j]
      BY DEF Breach
    <2>2. \A c : c \in L <=>
             \E v \in W : c = [rule |-> v.rule, at |-> v.at, turn |-> OwnerOf(tr, v.at, n)]
      OBVIOUS
    <2> HIDE DEF W, L
    <2>3. ASSUME NEW c \in L
          PROVE  \E r \in Rules, j \in 1..n :
                    /\ Breach(tr, n, r, j) /\ OwnerOf(tr, j, n) # NoTurn
                    /\ c = [rule |-> r, at |-> j, turn |-> OwnerOf(tr, j, n)]
      <3>1. PICK v \in W : c = [rule |-> v.rule, at |-> v.at, turn |-> OwnerOf(tr, v.at, n)]
        BY <2>2
      <3>2. PICK r \in Rules, j \in 1..n :
               Breach(tr, n, r, j) /\ OwnerOf(tr, j, n) # NoTurn /\ v = [rule |-> r, at |-> j]
        BY <2>1
      <3>3. v.rule = r /\ v.at = j
        BY <3>2
      <3> QED
        BY <3>1, <3>2, <3>3
    <2>4. ASSUME NEW r \in Rules, NEW j \in 1..n, Breach(tr, n, r, j), OwnerOf(tr, j, n) # NoTurn
          PROVE  [rule |-> r, at |-> j, turn |-> OwnerOf(tr, j, n)] \in L
      <3> DEFINE v == [rule |-> r, at |-> j]
      <3>1. v \in W
        BY <2>1, <2>4
      <3>2. v.rule = r /\ v.at = j
        OBVIOUS
      <3> HIDE DEF v
      <3> QED
        BY <2>2, <3>1, <3>2
    <2> QED
      BY <2>3, <2>4
  <1>2. \A c : c \in H <=>
           \E r \in Rules, j \in 1..n :
              /\ Breach(tr, n, r, j) /\ OwnerOf(tr, j, n) = NoTurn
              /\ c = [rule |-> r, at |-> j]
    BY DEF Breach
  <1>3. IsCharged(tr, n, laid, held) <=> laid = L /\ held = H
    BY DEF IsCharged
  <1> HIDE DEF L, H
  <1>4. laid = L <=> \A c : c \in laid <=> c \in L
    OBVIOUS
  <1>5. held = H <=> \A c : c \in held <=> c \in H
    OBVIOUS
  <1> QED
    BY <1>1, <1>2, <1>3, <1>4, <1>5

IsBilled(tr, n, laid, held) ==
  /\ laid = {[at |-> j, turn |-> OwnerOf(tr, j, n)] :
               j \in {k \in {i \in 1..n : tr[i].type = "SCOPE" /\ Flagged(tr[i])} :
                        OwnerOf(tr, k, n) # NoTurn}}
  /\ held = {k \in {i \in 1..n : tr[i].type = "SCOPE" /\ Flagged(tr[i])} :
               OwnerOf(tr, k, n) = NoTurn}

LEMMA Said ==
  /\ ChargedToOwner <=> IsCharged(trace, pos, charges, buffer)
  /\ ChargedToOwner' <=> IsCharged(trace', pos', charges', buffer')
  /\ BilledToOwner <=> IsBilled(trace, pos, reasons, waiting)
  /\ BilledToOwner' <=> IsBilled(trace', pos', reasons', waiting')
  BY DEF ChargedToOwner, BilledToOwner, IsCharged, IsBilled, Violations, Violated, Flags, Owner,
         OwnerOf, JoinTurn, JoinOf, ListedFirst, Listing, Listers, TurnsAfter, NextTurn, Later

-----------------------------------------------------------------------------
(***************************************************************************)
(* One event more, in either walk.                                         *)
(***************************************************************************)
Mine(tr, n) == {[rule |-> r, at |-> n] : r \in tr[n].rules \cap Rules}

\* BurnCharge and BurnTurn.
BurnsOn(tr, n, laid, held, laid2, held2) ==
  IF tr[n].turn # NoTurn
  THEN /\ laid2 = laid \cup Laid(held \cup Mine(tr, n), tr[n].turn)
       /\ held2 = {}
  ELSE IF JoinOf(tr, tr[n].use) # NoTurn
  THEN laid2 = laid \cup Laid(Mine(tr, n), JoinOf(tr, tr[n].use)) /\ held2 = held
  ELSE held2 = held \cup Mine(tr, n) /\ laid2 = laid

LEMMA LaidEntries ==
  ASSUME NEW S, NEW t
  PROVE  /\ \A c : c \in Laid(S, t) <=> \E b \in S : c = [rule |-> b.rule, at |-> b.at, turn |-> t]
         /\ (\A b \in S : \E r, j : b = [rule |-> r, at |-> j]) =>
              \A c : c \in Laid(S, t) <=>
                \E r, j : [rule |-> r, at |-> j] \in S /\ c = [rule |-> r, at |-> j, turn |-> t]
  <1>1. \A c : c \in Laid(S, t) <=> \E b \in S : c = [rule |-> b.rule, at |-> b.at, turn |-> t]
    BY DEF Laid
  <1>2. ASSUME \A b \in S : \E r, j : b = [rule |-> r, at |-> j], NEW c \in Laid(S, t)
        PROVE  \E r, j : [rule |-> r, at |-> j] \in S /\ c = [rule |-> r, at |-> j, turn |-> t]
    <2>1. PICK b \in S : c = [rule |-> b.rule, at |-> b.at, turn |-> t]
      BY <1>1, <1>2
    <2>2. PICK r, j : b = [rule |-> r, at |-> j]
      BY <1>2, <2>1
    <2>3. b.rule = r /\ b.at = j
      BY <2>2
    <2> QED
      BY <2>1, <2>2, <2>3
  <1>3. ASSUME NEW r, NEW j, [rule |-> r, at |-> j] \in S
        PROVE  [rule |-> r, at |-> j, turn |-> t] \in Laid(S, t)
    <2> DEFINE b == [rule |-> r, at |-> j]
    <2>1. b \in S /\ b.rule = r /\ b.at = j
      BY <1>3
    <2> HIDE DEF b
    <2> QED
      BY <1>1, <2>1
  <1> QED
    BY <1>1, <1>2, <1>3

LEMMA PairsDiffer ==
  ASSUME NEW r, NEW j, NEW q, NEW k, [rule |-> r, at |-> j] = [rule |-> q, at |-> k]
  PROVE  r = q /\ j = k
  <1>1. [rule |-> r, at |-> j].rule = r /\ [rule |-> r, at |-> j].at = j
    OBVIOUS
  <1>2. [rule |-> q, at |-> k].rule = q /\ [rule |-> q, at |-> k].at = k
    OBVIOUS
  <1> QED
    BY <1>1, <1>2

LEMMA LaidMine ==
  ASSUME NEW tr, NEW n, NEW t
  PROVE  \A c : c \in Laid(Mine(tr, n), t) <=>
           \E r \in Rules : r \in tr[n].rules /\ c = [rule |-> r, at |-> n, turn |-> t]
  <1> DEFINE M == Mine(tr, n)
  <1>1. \A c : c \in Laid(M, t) <=> \E b \in M : c = [rule |-> b.rule, at |-> b.at, turn |-> t]
    BY DEF Laid
  <1>2. \A b : b \in M <=> \E r \in Rules : r \in tr[n].rules /\ b = [rule |-> r, at |-> n]
    BY DEF Mine
  <1> HIDE DEF M
  <1>3. ASSUME NEW c \in Laid(M, t)
        PROVE  \E r \in Rules : r \in tr[n].rules /\ c = [rule |-> r, at |-> n, turn |-> t]
    <2>1. PICK b \in M : c = [rule |-> b.rule, at |-> b.at, turn |-> t]
      BY <1>1, <1>3
    <2>2. PICK r \in Rules : r \in tr[n].rules /\ b = [rule |-> r, at |-> n]
      BY <1>2, <2>1
    <2>3. b.rule = r /\ b.at = n
      BY <2>2
    <2> QED
      BY <2>1, <2>2, <2>3
  <1>4. ASSUME NEW r \in Rules, r \in tr[n].rules
        PROVE  [rule |-> r, at |-> n, turn |-> t] \in Laid(M, t)
    <2> DEFINE b == [rule |-> r, at |-> n]
    <2>1. b \in M /\ b.rule = r /\ b.at = n
      BY <1>2, <1>4
    <2> HIDE DEF b
    <2> QED
      BY <1>1, <2>1
  <1> QED
    BY <1>3, <1>4 DEF M

LEMMA BurnStep ==
  ASSUME NEW tr, WellFormed(tr), NEW n \in Nat, n < Len(tr), NEW laid, NEW held, NEW laid2, NEW held2,
         IsCharged(tr, n, laid, held), BurnsOn(tr, n + 1, laid, held, laid2, held2)
  PROVE  IsCharged(tr, n + 1, laid2, held2)
  <1>0. n + 1 \in Nat /\ n + 1 \notin 1..n /\ \A j : j \in 1..(n + 1) <=> j \in 1..n \/ j = n + 1
    OBVIOUS
  <1>1. \A r, j : Breach(tr, n + 1, r, j) <=>
           Breach(tr, n, r, j) \/ (j = n + 1 /\ r \in tr[n + 1].rules \cap Rules)
    BY <1>0 DEF Breach
  <1>2. \A j \in 1..n : OwnerOf(tr, j, n + 1) =
           IF OwnerOf(tr, j, n) = NoTurn THEN tr[n + 1].turn ELSE OwnerOf(tr, j, n)
    BY OwnerThen
  <1>3. OwnerOf(tr, n + 1, n + 1) =
           IF tr[n + 1].turn # NoTurn THEN tr[n + 1].turn ELSE JoinOf(tr, tr[n + 1].use)
    BY OwnerNow
  <1>4. /\ \A c : c \in laid <=>
             \E r \in Rules, j \in 1..n :
                /\ Breach(tr, n, r, j) /\ OwnerOf(tr, j, n) # NoTurn
                /\ c = [rule |-> r, at |-> j, turn |-> OwnerOf(tr, j, n)]
        /\ \A c : c \in held <=>
             \E r \in Rules, j \in 1..n :
                /\ Breach(tr, n, r, j) /\ OwnerOf(tr, j, n) = NoTurn
                /\ c = [rule |-> r, at |-> j]
    BY ChargedByEntry
  <1>5. \A c : c \in Mine(tr, n + 1) <=>
          \E r \in Rules : r \in tr[n + 1].rules /\ c = [rule |-> r, at |-> n + 1]
    BY DEF Mine
  <1>6. \A S, t, c : c \in Laid(S, t) <=> \E b \in S : c = [rule |-> b.rule, at |-> b.at, turn |-> t]
    BY LaidEntries
  <1>7. \A r, j : Breach(tr, n, r, j) => r \in Rules /\ j \in 1..n /\ r \in tr[j].rules
    BY DEF Breach
  <1>8. \A c : c \in laid2 <=>
          \E r \in Rules, j \in 1..(n + 1) :
             /\ Breach(tr, n + 1, r, j) /\ OwnerOf(tr, j, n + 1) # NoTurn
             /\ c = [rule |-> r, at |-> j, turn |-> OwnerOf(tr, j, n + 1)]
    <2>1. CASE tr[n + 1].turn # NoTurn
      <3>1. laid2 = laid \cup Laid(held, tr[n + 1].turn) \cup Laid(Mine(tr, n + 1), tr[n + 1].turn)
        BY <1>6, <2>1 DEF BurnsOn
      <3>2. \A c : c \in Laid(held, tr[n + 1].turn) <=>
              \E r \in Rules, j \in 1..n :
                 /\ Breach(tr, n, r, j) /\ OwnerOf(tr, j, n) = NoTurn
                 /\ c = [rule |-> r, at |-> j, turn |-> tr[n + 1].turn]
        <4>1. \A b \in held : \E r, j : b = [rule |-> r, at |-> j]
          BY <1>4
        <4>2. \A c : c \in Laid(held, tr[n + 1].turn) <=>
                \E r, j : /\ [rule |-> r, at |-> j] \in held
                          /\ c = [rule |-> r, at |-> j, turn |-> tr[n + 1].turn]
          BY <4>1, LaidEntries
        <4>3. \A r, j : [rule |-> r, at |-> j] \in held <=>
                r \in Rules /\ j \in 1..n /\ Breach(tr, n, r, j) /\ OwnerOf(tr, j, n) = NoTurn
          <5>1. ASSUME NEW r, NEW j, [rule |-> r, at |-> j] \in held
                PROVE  r \in Rules /\ j \in 1..n /\ Breach(tr, n, r, j) /\ OwnerOf(tr, j, n) = NoTurn
            <6>1. PICK q \in Rules, k \in 1..n :
                     /\ Breach(tr, n, q, k) /\ OwnerOf(tr, k, n) = NoTurn
                     /\ [rule |-> r, at |-> j] = [rule |-> q, at |-> k]
              BY <1>4, <5>1
            <6>2. r = q /\ j = k
              BY <6>1, PairsDiffer
            <6> QED
              BY <6>1, <6>2
          <5> QED
            BY <1>4, <5>1
        <4> QED
          BY <4>2, <4>3
      <3>3. \A c : c \in Laid(Mine(tr, n + 1), tr[n + 1].turn) <=>
              \E r \in Rules : r \in tr[n + 1].rules /\ c = [rule |-> r, at |-> n + 1, turn |-> tr[n + 1].turn]
        BY LaidMine
      <3> QED
        BY <1>0, <1>1, <1>2, <1>3, <1>4, <1>7, <2>1, <3>1, <3>2, <3>3
    <2>2. CASE tr[n + 1].turn = NoTurn /\ JoinOf(tr, tr[n + 1].use) # NoTurn
      <3>1. laid2 = laid \cup Laid(Mine(tr, n + 1), JoinOf(tr, tr[n + 1].use))
        BY <2>2 DEF BurnsOn
      <3>2. \A c : c \in Laid(Mine(tr, n + 1), JoinOf(tr, tr[n + 1].use)) <=>
              \E r \in Rules : /\ r \in tr[n + 1].rules
                               /\ c = [rule |-> r, at |-> n + 1, turn |-> JoinOf(tr, tr[n + 1].use)]
        BY LaidMine
      <3> QED
        BY <1>0, <1>1, <1>2, <1>3, <1>4, <1>7, <2>2, <3>1, <3>2
    <2>3. CASE tr[n + 1].turn = NoTurn /\ JoinOf(tr, tr[n + 1].use) = NoTurn
      <3>1. laid2 = laid
        BY <2>3 DEF BurnsOn
      <3> QED
        BY <1>0, <1>1, <1>2, <1>3, <1>4, <1>7, <2>3, <3>1
    <2> QED
      BY <2>1, <2>2, <2>3
  <1>9. \A c : c \in held2 <=>
          \E r \in Rules, j \in 1..(n + 1) :
             /\ Breach(tr, n + 1, r, j) /\ OwnerOf(tr, j, n + 1) = NoTurn
             /\ c = [rule |-> r, at |-> j]
    <2>1. CASE tr[n + 1].turn # NoTurn
      <3>1. held2 = {}
        BY <2>1 DEF BurnsOn
      <3>2. \A j \in 1..(n + 1) : OwnerOf(tr, j, n + 1) # NoTurn
        BY <1>0, <1>2, <1>3, <2>1
      <3> QED
        BY <3>1, <3>2
    <2>2. CASE tr[n + 1].turn = NoTurn /\ JoinOf(tr, tr[n + 1].use) # NoTurn
      <3>1. held2 = held
        BY <2>2 DEF BurnsOn
      <3> QED
        BY <1>0, <1>1, <1>2, <1>3, <1>4, <1>7, <2>2, <3>1
    <2>3. CASE tr[n + 1].turn = NoTurn /\ JoinOf(tr, tr[n + 1].use) = NoTurn
      <3>1. held2 = held \cup Mine(tr, n + 1)
        BY <2>3 DEF BurnsOn
      <3> QED
        BY <1>0, <1>1, <1>2, <1>3, <1>4, <1>5, <1>7, <2>3, <3>1
    <2> QED
      BY <2>1, <2>2, <2>3
  <1> QED
    BY <1>0, <1>8, <1>9, ChargedByEntry

\* UndeclaredScope and UndeclaredTurn.
BillsOn(tr, n, laid, held, laid2, held2) ==
  IF tr[n].turn # NoTurn
  THEN laid2 = laid \cup {[at |-> j, turn |-> tr[n].turn] : j \in held} /\ held2 = {}
  ELSE IF tr[n].type # "SCOPE" \/ ~Flagged(tr[n])
  THEN laid2 = laid /\ held2 = held
  ELSE IF JoinOf(tr, tr[n].use) # NoTurn
  THEN laid2 = laid \cup {[at |-> n, turn |-> JoinOf(tr, tr[n].use)]} /\ held2 = held
  ELSE laid2 = laid /\ held2 = held \cup {n}

LEMMA BillStep ==
  ASSUME NEW tr, WellFormed(tr), NEW n \in Nat, n < Len(tr), NEW laid, NEW held, NEW laid2, NEW held2,
         IsBilled(tr, n, laid, held), BillsOn(tr, n + 1, laid, held, laid2, held2)
  PROVE  IsBilled(tr, n + 1, laid2, held2)
  <1> DEFINE Flag(j) == tr[j].type = "SCOPE" /\ Flagged(tr[j])
  <1>0. n + 1 \in Nat /\ n + 1 \notin 1..n /\ \A j : j \in 1..(n + 1) <=> j \in 1..n \/ j = n + 1
    OBVIOUS
  <1>1. tr[n + 1].turn # NoTurn => tr[n + 1].type # "SCOPE"
    <2>1. n + 1 \in DOMAIN tr
      BY DEF WellFormed
    <2> QED
      BY <2>1 DEF WellFormed
  <1>2. \A j \in 1..n : OwnerOf(tr, j, n + 1) =
           IF OwnerOf(tr, j, n) = NoTurn THEN tr[n + 1].turn ELSE OwnerOf(tr, j, n)
    BY OwnerThen
  <1>3. OwnerOf(tr, n + 1, n + 1) =
           IF tr[n + 1].turn # NoTurn THEN tr[n + 1].turn ELSE JoinOf(tr, tr[n + 1].use)
    BY OwnerNow
  <1>4. \A m, a, b : IsBilled(tr, m, a, b) <=>
          /\ \A c : c \in a <=> \E j \in 1..m : /\ Flag(j) /\ OwnerOf(tr, j, m) # NoTurn
                                                /\ c = [at |-> j, turn |-> OwnerOf(tr, j, m)]
          /\ \A c : c \in b <=> c \in 1..m /\ Flag(c) /\ OwnerOf(tr, c, m) = NoTurn
    BY DEF IsBilled
  <1> HIDE DEF Flag
  <1>5. CASE tr[n + 1].turn # NoTurn
    <2>1. laid2 = laid \cup {[at |-> j, turn |-> tr[n + 1].turn] : j \in held} /\ held2 = {}
      BY <1>5 DEF BillsOn
    <2>2. ~Flag(n + 1)
      BY <1>1, <1>5 DEF Flag
    <2> QED
      BY <1>0, <1>2, <1>3, <1>4, <1>5, <2>1, <2>2
  <1>6. CASE tr[n + 1].turn = NoTurn /\ ~Flag(n + 1)
    <2>1. laid2 = laid /\ held2 = held
      BY <1>6 DEF BillsOn, Flag
    <2> QED
      BY <1>0, <1>2, <1>3, <1>4, <1>6, <2>1
  <1>7. CASE tr[n + 1].turn = NoTurn /\ Flag(n + 1) /\ JoinOf(tr, tr[n + 1].use) # NoTurn
    <2>1. laid2 = laid \cup {[at |-> n + 1, turn |-> JoinOf(tr, tr[n + 1].use)]} /\ held2 = held
      BY <1>7 DEF BillsOn, Flag
    <2> QED
      BY <1>0, <1>2, <1>3, <1>4, <1>7, <2>1
  <1>8. CASE tr[n + 1].turn = NoTurn /\ Flag(n + 1) /\ JoinOf(tr, tr[n + 1].use) = NoTurn
    <2>1. laid2 = laid /\ held2 = held \cup {n + 1}
      BY <1>8 DEF BillsOn, Flag
    <2> QED
      BY <1>0, <1>2, <1>3, <1>4, <1>8, <2>1
  <1> QED
    BY <1>5, <1>6, <1>7, <1>8

-----------------------------------------------------------------------------
(***************************************************************************)
(* The usage a turn is charged with.                                       *)
(***************************************************************************)
Sighted(tr, n, t) == {k \in 1..n : tr[k].turn = t /\ Populated(tr[k].usage)}

Conflict(l) == [kind |-> "conflict", at |-> l]

IsUsed(tr, n, held, od) ==
  \A t \in Turns :
    /\ Sighted(tr, n, t) = {} => held[t] = NoUsage
    /\ \A k \in Sighted(tr, n, t) :
         (\A l \in Sighted(tr, n, t) : k <= l)
           => /\ held[t] = Filled(tr[k].usage)
              /\ \A l \in Sighted(tr, n, t) :
                   Conflict(l) \in od <=> Conflicts(tr[l].usage, Filled(tr[k].usage))

LEMMA UsedSaid ==
  /\ FirstUsageCounts <=> IsUsed(trace, pos, tokens, odd)
  /\ FirstUsageCounts' <=> IsUsed(trace', pos', tokens', odd')
  BY DEF FirstUsageCounts, IsUsed, Sightings, Sighted, Conflict

\* TakeUsage.
UsesOn(tr, n, held, od, held2, od2) ==
  LET u == tr[n].usage
      t == tr[n].turn
      taken == t # NoTurn /\ Populated(u)
  IN /\ held2 = IF taken /\ ~Populated(held[t]) THEN [held EXCEPT ![t] = Filled(u)] ELSE held
     /\ \A l : Conflict(l) \in od2 <=>
          Conflict(l) \in od \/ (l = n /\ taken /\ Populated(held[t]) /\ Conflicts(u, held[t]))

LEMMA FilledType ==
  ASSUME NEW u \in Usage
  PROVE  /\ Filled(u) \in Usage
         /\ Populated(u) => Populated(Filled(u))
         /\ ~Conflicts(u, Filled(u))
  <1>1. PICK F \in SUBSET Fields : u \in [F -> Amounts]
    BY DEF Usage
  <1>2. \A f \in Fields : (IF f \in DOMAIN u THEN u[f] ELSE 0) \in Amounts
    BY <1>1, WalkAssumption
  <1>3. Filled(u) \in [Fields -> Amounts]
    BY <1>2 DEF Filled
  <1>4. Filled(u) \in Usage
    BY <1>3 DEF Usage
  <1>5. Populated(u) => Populated(Filled(u))
    BY <1>1 DEF Populated, Filled
  <1>6. ~Conflicts(u, Filled(u))
    BY <1>1 DEF Conflicts, Filled
  <1> QED
    BY <1>4, <1>5, <1>6

LEMMA EventType ==
  ASSUME NEW tr, WellFormed(tr), NEW j \in DOMAIN tr
  PROVE  /\ tr[j] \in Event
         /\ tr[j].turn \in Turns \cup {NoTurn} /\ tr[j].usage \in Usage
         /\ tr[j].rules \in SUBSET (Rules \cup {Unknown}) /\ tr[j].type \in EventTypes
         /\ tr[j].missing \in BOOLEAN /\ tr[j].notable \in BOOLEAN
  <1>1. tr[j] \in Event
    BY DEF WellFormed
  <1> QED
    BY <1>1 DEF Event

LEMMA UsageStep ==
  ASSUME NEW tr, WellFormed(tr), NEW n \in Nat, n < Len(tr), NEW held \in [Turns -> Usage], NEW od,
         NEW held2, NEW od2, IsUsed(tr, n, held, od), UsesOn(tr, n + 1, held, od, held2, od2),
         \A l : Conflict(l) \in od => l \in 1..n
  PROVE  IsUsed(tr, n + 1, held2, od2)
  <1> DEFINE u == tr[n + 1].usage
             s == tr[n + 1].turn
             taken == s # NoTurn /\ Populated(u)
  <1>0. n + 1 \in DOMAIN tr /\ 1..n \subseteq DOMAIN tr
    BY DEF WellFormed
  <1>1. u \in Usage /\ s \in Turns \cup {NoTurn}
    BY <1>0, EventType
  <1>2. /\ held2 = IF taken /\ ~Populated(held[s]) THEN [held EXCEPT ![s] = Filled(u)] ELSE held
        /\ \A l : Conflict(l) \in od2 <=>
             Conflict(l) \in od \/ (l = n + 1 /\ taken /\ Populated(held[s]) /\ Conflicts(u, held[s]))
    BY DEF UsesOn
  <1>3. \A t \in Turns : Sighted(tr, n + 1, t) =
           Sighted(tr, n, t) \cup (IF taken /\ t = s THEN {n + 1} ELSE {})
    BY WalkAssumption DEF Sighted
  <1>4. \A t \in Turns : Sighted(tr, n, t) \in SUBSET (1..n)
    BY DEF Sighted
  <1>5. \A t \in Turns : Populated(held[t]) <=> Sighted(tr, n, t) # {}
    <2>1. ASSUME NEW t \in Turns, Sighted(tr, n, t) # {}
          PROVE  Populated(held[t])
      <3>1. PICK k \in Sighted(tr, n, t) : \A l \in Sighted(tr, n, t) : k <= l
        BY <1>4, <2>1, Least
      <3>2. held[t] = Filled(tr[k].usage)
        BY <3>1 DEF IsUsed
      <3>3. k \in DOMAIN tr /\ Populated(tr[k].usage)
        BY <1>0, <1>4, <3>1 DEF Sighted
      <3> QED
        BY <3>2, <3>3, EventType, FilledType
    <2>2. ASSUME NEW t \in Turns, Sighted(tr, n, t) = {}
          PROVE  ~Populated(held[t])
      BY <2>2 DEF IsUsed, Populated, NoUsage
    <2> QED
      BY <2>1, <2>2
  <1> SUFFICES ASSUME NEW t \in Turns
               PROVE  /\ Sighted(tr, n + 1, t) = {} => held2[t] = NoUsage
                      /\ \A k \in Sighted(tr, n + 1, t) :
                           (\A l \in Sighted(tr, n + 1, t) : k <= l)
                             => /\ held2[t] = Filled(tr[k].usage)
                                /\ \A l \in Sighted(tr, n + 1, t) :
                                     Conflict(l) \in od2 <=> Conflicts(tr[l].usage, Filled(tr[k].usage))
    BY DEF IsUsed
  <1>6. CASE ~(taken /\ t = s)
    <2>1. Sighted(tr, n + 1, t) = Sighted(tr, n, t)
      BY <1>3, <1>6
    <2>2. held2[t] = held[t]
      BY <1>2, <1>6
    <2>3. \A l \in Sighted(tr, n, t) : Conflict(l) \in od2 <=> Conflict(l) \in od
      BY <1>2, <1>4
    <2> HIDE DEF taken, s, u
    <2> QED
      BY <2>1, <2>2, <2>3 DEF IsUsed
  <1>7. CASE taken /\ t = s /\ Sighted(tr, n, t) = {}
    <2>1. Sighted(tr, n + 1, t) = {n + 1}
      BY <1>3, <1>7
    <2>2. held2[t] = Filled(u)
      BY <1>1, <1>2, <1>5, <1>7
    <2>3. Conflict(n + 1) \notin od2
      <3>1. Conflict(n + 1) \notin od
        OBVIOUS
      <3> QED
        BY <1>2, <1>5, <1>7, <3>1
    <2>4. ~Conflicts(u, Filled(u))
      BY <1>1, FilledType
    <2> QED
      BY <2>1, <2>2, <2>3, <2>4
  <1>8. CASE taken /\ t = s /\ Sighted(tr, n, t) # {}
    <2>1. PICK k \in Sighted(tr, n, t) : \A l \in Sighted(tr, n, t) : k <= l
      BY <1>4, <1>8, Least
    <2>2. k \in 1..n /\ Sighted(tr, n + 1, t) = Sighted(tr, n, t) \cup {n + 1}
      BY <1>3, <1>4, <1>8, <2>1
    <2>3. held2[t] = held[t] /\ held[t] = Filled(tr[k].usage)
      BY <1>2, <1>5, <1>8, <2>1 DEF IsUsed
    <2>4. \A l \in Sighted(tr, n, t) : Conflict(l) \in od2 <=> Conflicts(tr[l].usage, Filled(tr[k].usage))
      <3>1. \A l \in Sighted(tr, n, t) : Conflict(l) \in od2 <=> Conflict(l) \in od
        BY <1>2, <1>4
      <3> QED
        BY <2>1, <3>1 DEF IsUsed
    <2>5. Conflict(n + 1) \in od2 <=> Conflicts(u, Filled(tr[k].usage))
      <3>1. Conflict(n + 1) \notin od
        OBVIOUS
      <3> QED
        BY <1>2, <1>5, <1>8, <2>3, <3>1
    <2>6. \A q \in Sighted(tr, n + 1, t) : (\A l \in Sighted(tr, n + 1, t) : q <= l) => q = k
      BY <1>4, <2>1, <2>2
    <2>7. Sighted(tr, n + 1, t) # {}
      BY <2>2
    <2> HIDE DEF taken, s
    <2> QED
      BY <2>2, <2>3, <2>4, <2>5, <2>6, <2>7
  <1> QED
    BY <1>6, <1>7, <1>8

-----------------------------------------------------------------------------
(***************************************************************************)
(* One step of the walks.                                                  *)
(***************************************************************************)
LEMMA HereType ==
  ASSUME WellFormed(trace), TypeOK, pos < Len(trace)
  PROVE  /\ here \in Nat /\ here \in DOMAIN trace /\ here = pos + 1 /\ event = trace[pos + 1]
         /\ event \in Event /\ event.turn \in Turns \cup {NoTurn} /\ event.usage \in Usage
         /\ JoinTurn(event.use) = JoinOf(trace, event.use)
         /\ JoinTurn(event.use) \in Turns \cup {NoTurn}
         /\ Own = Mine(trace, pos + 1)
  <1>1. here \in Nat /\ here \in DOMAIN trace /\ here = pos + 1
    BY DEF TypeOK, here, WellFormed
  <1>2. event = trace[pos + 1]
    BY DEF event, here
  <1>3. event \in Event /\ event.turn \in Turns \cup {NoTurn} /\ event.usage \in Usage
    BY <1>1, <1>2, EventType
  <1>4. JoinTurn(event.use) = JoinOf(trace, event.use)
    BY DEF JoinTurn, JoinOf, Listing, Listers, ListedFirst
  <1>5. Own = Mine(trace, pos + 1)
    BY DEF Own, Mine, event, here
  <1> QED
    BY <1>1, <1>2, <1>3, <1>4, <1>5, JoinType

\* BurnCharge, of an event that names no turn.
LEMMA BurnChargeIs ==
  ASSUME WellFormed(trace), TypeOK, pos < Len(trace), event.turn = NoTurn, BurnCharge
  PROVE  BurnsOn(trace, pos + 1, charges, buffer, charges', buffer')
  BY HereType DEF BurnCharge, BurnsOn

\* The events that neither walk takes anything from.
LEMMA NothingBurns ==
  ASSUME WellFormed(trace), TypeOK, pos < Len(trace), event.type \in {"INTENT", "OTHER", "MALFORMED"},
         UNCHANGED <<charges, buffer>>
  PROVE  BurnsOn(trace, pos + 1, charges, buffer, charges', buffer')
  <1>1. event.rules = {} /\ event.turn = NoTurn
    BY HereType DEF WellFormed
  <1>2. Mine(trace, pos + 1) = {}
    BY <1>1, HereType DEF Mine
  <1>3. \A t : Laid({}, t) = {}
    BY DEF Laid
  <1> QED
    BY <1>1, <1>2, <1>3, HereType DEF BurnsOn

LEMMA NothingBills ==
  ASSUME WellFormed(trace), TypeOK, pos < Len(trace), event.type # "SCOPE", event.turn = NoTurn,
         UNCHANGED <<reasons, waiting>>
  PROVE  BillsOn(trace, pos + 1, reasons, waiting, reasons', waiting')
  BY HereType DEF BillsOn

LEMMA ScopeBills ==
  ASSUME WellFormed(trace), TypeOK, pos < Len(trace), event.type = "SCOPE", UndeclaredScope
  PROVE  BillsOn(trace, pos + 1, reasons, waiting, reasons', waiting')
  <1>1. event.turn = NoTurn
    BY HereType DEF WellFormed
  <1> QED
    BY <1>1, HereType DEF BillsOn, UndeclaredScope

LEMMA WarningsDiffer ==
  \A k, l : /\ Warned(k) = Conflict(l) <=> k = "conflict" /\ l = here
            /\ Warned(k).kind = k /\ Warned(k).at = here
  <1> SUFFICES ASSUME NEW k, NEW l
               PROVE  /\ Warned(k) = Conflict(l) <=> k = "conflict" /\ l = here
                      /\ Warned(k).kind = k /\ Warned(k).at = here
    OBVIOUS
  <1>1. Warned(k).kind = k /\ Warned(k).at = here
    BY DEF Warned
  <1>2. Conflict(l).kind = "conflict" /\ Conflict(l).at = l
    BY DEF Conflict
  <1>3. Warned("conflict") = Conflict(here)
    BY DEF Warned, Conflict
  <1> QED
    BY <1>1, <1>2, <1>3

LEMMA NothingUsed ==
  ASSUME WellFormed(trace), TypeOK, pos < Len(trace),
         event.turn = NoTurn \/ ~Populated(event.usage), UNCHANGED tokens,
         NEW S \in SUBSET {"malformed", "unknown", "untokened"}, odd' = odd \cup {Warned(k) : k \in S}
  PROVE  UsesOn(trace, pos + 1, tokens, odd, tokens', odd')
  <1>1. \A l : Conflict(l) \in odd' <=> Conflict(l) \in odd
    BY WarningsDiffer
  <1> QED
    BY <1>1, HereType DEF UsesOn

LEMMA TurnUses ==
  ASSUME WellFormed(trace), TypeOK, pos < Len(trace), event.turn # NoTurn, TakeUsage
  PROVE  /\ UsesOn(trace, pos + 1, tokens, odd, tokens', odd')
         /\ tokens' \in [Turns -> Usage]
  <1>0. event = trace[pos + 1] /\ here = pos + 1 /\ event.turn \in Turns /\ event.usage \in Usage
    BY HereType
  <1>1. \A l : Conflict(l) \notin UnknownRule
    BY WarningsDiffer DEF UnknownRule
  <1>2. CASE ~Populated(event.usage)
    <2>1. tokens' = tokens /\ odd' = odd \cup UnknownRule
      BY <1>2 DEF TakeUsage
    <2> QED
      BY <1>0, <1>1, <1>2, <2>1 DEF UsesOn, TypeOK
  <1>3. CASE Populated(event.usage) /\ ~Populated(tokens[event.turn])
    <2>1. tokens' = [tokens EXCEPT ![event.turn] = Filled(event.usage)] /\ odd' = odd \cup UnknownRule
      BY <1>3 DEF TakeUsage
    <2>2. UsesOn(trace, pos + 1, tokens, odd, tokens', odd')
      BY <1>0, <1>1, <1>3, <2>1 DEF UsesOn
    <2>3. tokens' \in [Turns -> Usage]
      BY <1>0, <2>1, FilledType DEF TypeOK
    <2> QED
      BY <2>2, <2>3
  <1>4. CASE Populated(event.usage) /\ Populated(tokens[event.turn])
    <2>1. tokens' = tokens /\ odd' = odd \cup UnknownRule \cup
            (IF Conflicts(event.usage, tokens[event.turn]) THEN {Warned("conflict")} ELSE {})
      BY <1>4 DEF TakeUsage
    <2>2. \A l : Conflict(l) \in odd' <=>
            Conflict(l) \in odd \/ (l = pos + 1 /\ Conflicts(event.usage, tokens[event.turn]))
      BY <1>0, <1>1, <2>1, WarningsDiffer
    <2> QED
      BY <1>0, <1>4, <2>1, <2>2 DEF UsesOn, TypeOK
  <1> QED
    BY <1>2, <1>3, <1>4

(***************************************************************************)
(* Every action does to each variable what the walks do to any trace.      *)
(***************************************************************************)
Kinds == {"malformed", "unknown", "untokened", "conflict"}

Reads ==
  /\ trace' = trace /\ pos < Len(trace) /\ pos' = pos + 1
  /\ BurnsOn(trace, pos + 1, charges, buffer, charges', buffer')
  /\ BillsOn(trace, pos + 1, reasons, waiting, reasons', waiting')
  /\ UsesOn(trace, pos + 1, tokens, odd, tokens', odd')
  /\ tokens' \in [Turns -> Usage]
  /\ current' \in Turns \cup {NoTurn}
  /\ notables' \in SUBSET [at : Nat, turn : Turns \cup {NoTurn}]
  /\ declared' \in BOOLEAN
  /\ odd' \subseteq odd \cup {Warned(k) : k \in Kinds}

LEMMA EveryStepReads ==
  ASSUME WellFormed(trace), TypeOK, Next
  PROVE  Reads
  <1>0. /\ tokens \in [Turns -> Usage] /\ current \in Turns \cup {NoTurn} /\ declared \in BOOLEAN
        /\ notables \in SUBSET [at : Nat, turn : Turns \cup {NoTurn}]
    BY DEF TypeOK
  <1>1. UnknownRule = {Warned(k) : k \in IF Unknown \in event.rules THEN {"unknown"} ELSE {}}
    BY DEF UnknownRule
  <1>2. ASSUME NEW type, Reading(type), type # "CTX"
        PROVE  event.turn = NoTurn
    BY <1>2, HereType DEF Reading, WellFormed
  <1>3. CASE ReadMalformed
    <2>1. /\ trace' = trace /\ pos < Len(trace) /\ pos' = pos + 1 /\ event.type = "MALFORMED"
          /\ event.turn = NoTurn
      BY <1>2, <1>3 DEF ReadMalformed, Reading
    <2>2. odd' = odd \cup {Warned(k) : k \in {"malformed"}} /\ UNCHANGED tokens
      BY <1>3 DEF ReadMalformed
    <2>3. /\ BurnsOn(trace, pos + 1, charges, buffer, charges', buffer')
          /\ BillsOn(trace, pos + 1, reasons, waiting, reasons', waiting')
      BY <1>3, <2>1, NothingBurns, NothingBills DEF ReadMalformed, UndeclaredSkips
    <2>4. UsesOn(trace, pos + 1, tokens, odd, tokens', odd')
      BY <2>1, <2>2, NothingUsed
    <2> QED
      BY <1>0, <1>3, <2>1, <2>2, <2>3, <2>4 DEF Reads, Kinds, ReadMalformed, UndeclaredSkips
  <1>4. CASE ReadRegistration
    <2>1. /\ trace' = trace /\ pos < Len(trace) /\ pos' = pos + 1 /\ event.type = "REG"
          /\ event.turn = NoTurn
      BY <1>2, <1>4 DEF ReadRegistration, Reading
    <2>2. odd' = odd \cup UnknownRule /\ UNCHANGED tokens
      BY <1>4 DEF ReadRegistration
    <2>3. /\ BurnsOn(trace, pos + 1, charges, buffer, charges', buffer')
          /\ BillsOn(trace, pos + 1, reasons, waiting, reasons', waiting')
      BY <1>4, <2>1, BurnChargeIs, NothingBills DEF ReadRegistration, UndeclaredSkips
    <2>4. UsesOn(trace, pos + 1, tokens, odd, tokens', odd')
      BY <1>1, <2>1, <2>2, NothingUsed
    <2> QED
      BY <1>0, <1>1, <1>4, <2>1, <2>2, <2>3, <2>4 DEF Reads, Kinds, ReadRegistration, UndeclaredSkips
  <1>5. CASE ReadIntent
    <2>1. /\ trace' = trace /\ pos < Len(trace) /\ pos' = pos + 1 /\ event.type = "INTENT"
          /\ event.turn = NoTurn
      BY <1>2, <1>5 DEF ReadIntent, Reading
    <2>2. odd' = odd /\ UNCHANGED tokens
      BY <1>5 DEF ReadIntent
    <2>3. /\ BurnsOn(trace, pos + 1, charges, buffer, charges', buffer')
          /\ BillsOn(trace, pos + 1, reasons, waiting, reasons', waiting')
      BY <1>5, <2>1, NothingBurns, NothingBills DEF ReadIntent, UndeclaredSkips
    <2>4. UsesOn(trace, pos + 1, tokens, odd, tokens', odd')
      BY <2>1, <2>2, HereType DEF UsesOn
    <2>5. declared' \in BOOLEAN
      BY <1>0, <1>5, <2>1, HereType, EventType DEF ReadIntent
    <2> QED
      BY <1>0, <1>5, <2>1, <2>2, <2>3, <2>4, <2>5 DEF Reads, ReadIntent, UndeclaredSkips
  <1>6. CASE ReadScope
    <2>1. /\ trace' = trace /\ pos < Len(trace) /\ pos' = pos + 1 /\ event.type = "SCOPE"
          /\ event.turn = NoTurn
      BY <1>2, <1>6 DEF ReadScope, Reading
    <2>2. odd' = odd \cup UnknownRule /\ UNCHANGED <<tokens, current, declared>>
      BY <1>6 DEF ReadScope
    <2>3. /\ BurnsOn(trace, pos + 1, charges, buffer, charges', buffer')
          /\ BillsOn(trace, pos + 1, reasons, waiting, reasons', waiting')
      BY <1>6, <2>1, BurnChargeIs, ScopeBills DEF ReadScope
    <2>4. UsesOn(trace, pos + 1, tokens, odd, tokens', odd')
      BY <1>1, <2>1, <2>2, NothingUsed
    <2>5. notables' \in SUBSET [at : Nat, turn : Turns \cup {NoTurn}]
      BY <1>0, <1>6, <2>1, HereType DEF ReadScope, UndeclaredScope
    <2> QED
      BY <1>0, <1>1, <2>1, <2>2, <2>3, <2>4, <2>5 DEF Reads, Kinds
  <1>7. CASE ReadMemory
    <2>1. /\ trace' = trace /\ pos < Len(trace) /\ pos' = pos + 1 /\ event.type = "MEM"
          /\ event.turn = NoTurn
      BY <1>2, <1>7 DEF ReadMemory, Reading
    <2>2. odd' = odd \cup UnknownRule /\ UNCHANGED tokens
      BY <1>7 DEF ReadMemory
    <2>3. /\ BurnsOn(trace, pos + 1, charges, buffer, charges', buffer')
          /\ BillsOn(trace, pos + 1, reasons, waiting, reasons', waiting')
      BY <1>7, <2>1, BurnChargeIs, NothingBills DEF ReadMemory, UndeclaredSkips
    <2>4. UsesOn(trace, pos + 1, tokens, odd, tokens', odd')
      BY <1>1, <2>1, <2>2, NothingUsed
    <2> QED
      BY <1>0, <1>1, <1>7, <2>1, <2>2, <2>3, <2>4 DEF Reads, Kinds, ReadMemory, UndeclaredSkips
  <1>8. CASE ReadSnapshot
    <2>1. /\ trace' = trace /\ pos < Len(trace) /\ pos' = pos + 1 /\ event.type = "CTX"
          /\ event.turn = NoTurn
      BY <1>8 DEF ReadSnapshot, Reading
    <2> DEFINE S == (IF Unknown \in event.rules THEN {"unknown"} ELSE {}) \cup
                    (IF Populated(event.usage) THEN {"untokened"} ELSE {})
    <2>2. odd' = odd \cup {Warned(k) : k \in S} /\ UNCHANGED tokens
      BY <1>8 DEF ReadSnapshot, UnknownRule
    <2>3. /\ BurnsOn(trace, pos + 1, charges, buffer, charges', buffer')
          /\ BillsOn(trace, pos + 1, reasons, waiting, reasons', waiting')
      BY <1>8, <2>1, BurnChargeIs, NothingBills DEF ReadSnapshot, UndeclaredSkips
    <2>4. UsesOn(trace, pos + 1, tokens, odd, tokens', odd')
      <3>1. S \in SUBSET {"malformed", "unknown", "untokened"}
        OBVIOUS
      <3> HIDE DEF S
      <3> QED
        BY <2>1, <2>2, <3>1, NothingUsed
    <2> QED
      BY <1>0, <1>8, <2>1, <2>2, <2>3, <2>4 DEF Reads, Kinds, ReadSnapshot, UndeclaredSkips
  <1>9. CASE ReadTurn
    <2>1. /\ trace' = trace /\ pos < Len(trace) /\ pos' = pos + 1 /\ event.type = "CTX"
          /\ event.turn # NoTurn
      BY <1>9 DEF ReadTurn, Reading
    <2>2. BurnsOn(trace, pos + 1, charges, buffer, charges', buffer')
      BY <1>9, <2>1, HereType DEF ReadTurn, BurnTurn, BurnsOn
    <2>3. BillsOn(trace, pos + 1, reasons, waiting, reasons', waiting')
      BY <1>9, <2>1, HereType DEF ReadTurn, UndeclaredTurn, BillsOn
    <2>4. /\ UsesOn(trace, pos + 1, tokens, odd, tokens', odd')
          /\ tokens' \in [Turns -> Usage]
      BY <1>9, <2>1, TurnUses DEF ReadTurn
    <2>5. current' \in Turns \cup {NoTurn}
      BY <1>9, <2>1, HereType DEF ReadTurn, UndeclaredTurn
    <2>6. odd' \subseteq odd \cup {Warned(k) : k \in Kinds}
      BY <1>1, <1>9 DEF ReadTurn, TakeUsage, Kinds
    <2> QED
      BY <1>0, <1>9, <2>1, <2>2, <2>3, <2>4, <2>5, <2>6 DEF Reads, ReadTurn
  <1>10. CASE ReadOther
    <2>1. /\ trace' = trace /\ pos < Len(trace) /\ pos' = pos + 1 /\ event.type = "OTHER"
          /\ event.turn = NoTurn
      BY <1>2, <1>10 DEF ReadOther, Reading
    <2>2. odd' = odd /\ UNCHANGED tokens
      BY <1>10 DEF ReadOther
    <2>3. /\ BurnsOn(trace, pos + 1, charges, buffer, charges', buffer')
          /\ BillsOn(trace, pos + 1, reasons, waiting, reasons', waiting')
      BY <1>10, <2>1, NothingBurns, NothingBills DEF ReadOther, UndeclaredSkips
    <2>4. UsesOn(trace, pos + 1, tokens, odd, tokens', odd')
      BY <2>1, <2>2, HereType DEF UsesOn
    <2> QED
      BY <1>0, <1>10, <2>1, <2>2, <2>3, <2>4 DEF Reads, ReadOther, UndeclaredSkips
  <1> QED
    BY <1>3, <1>4, <1>5, <1>6, <1>7, <1>8, <1>9, <1>10 DEF Next

-----------------------------------------------------------------------------
(***************************************************************************)
(* The invariant of the walks.                                             *)
(***************************************************************************)
WarnedInOrder == \A l : Conflict(l) \in odd => l \in 1..pos

WalkInv ==
  /\ WellFormed(trace)
  /\ TypeOK
  /\ ChargedToOwner
  /\ BilledToOwner
  /\ FirstUsageCounts
  /\ WarnedInOrder

\* Before the first event is read.
Fresh ==
  /\ pos = 0
  /\ reasons = {} /\ waiting = {} /\ charges = {} /\ buffer = {}
  /\ tokens = [t \in Turns |-> NoUsage]
  /\ current = NoTurn
  /\ notables = {}
  /\ declared = FALSE
  /\ odd = {}

LEMMA NoUsageType == NoUsage \in Usage
  <1>1. NoUsage \in [{} -> Amounts]
    BY DEF NoUsage
  <1> QED
    BY <1>1 DEF Usage

LEMMA FreshIsSound ==
  ASSUME WellFormed(trace), Fresh
  PROVE  WalkInv
  <1>1. TypeOK
    <2>1. trace \in Seq(Event) /\ Len(trace) \in Nat
      BY DEF WellFormed
    <2>2. pos \in 0..Len(trace)
      BY <2>1 DEF Fresh
    <2>3. tokens \in [Turns -> Usage]
      BY NoUsageType DEF Fresh
    <2> QED
      BY <2>1, <2>2, <2>3 DEF Fresh, TypeOK
  <1>2. \A j : j \notin 1..pos
    BY DEF Fresh
  <1>3. ChargedToOwner /\ BilledToOwner
    BY <1>2, Said DEF Fresh, IsCharged, IsBilled
  <1>4. FirstUsageCounts
    BY <1>2 DEF Fresh, FirstUsageCounts, Sightings
  <1>5. WarnedInOrder
    BY DEF Fresh, WarnedInOrder
  <1> QED
    BY <1>1, <1>3, <1>4, <1>5 DEF WalkInv

LEMMA WalkStep ==
  ASSUME WalkInv, Next
  PROVE  WalkInv'
  <1>1. Reads /\ WellFormed(trace) /\ TypeOK
    BY EveryStepReads DEF WalkInv
  <1>2. trace' = trace /\ pos' = pos + 1 /\ pos \in Nat /\ pos < Len(trace)
    BY <1>1 DEF Reads, TypeOK
  <1>3. WellFormed(trace)'
    BY <1>1, <1>2 DEF WellFormed
  <1>4. ChargedToOwner'
    BY <1>1, <1>2, Said, BurnStep DEF WalkInv, Reads
  <1>5. BilledToOwner'
    BY <1>1, <1>2, Said, BillStep DEF WalkInv, Reads
  <1>6. FirstUsageCounts'
    <2>1. tokens \in [Turns -> Usage]
      BY <1>1 DEF TypeOK
    <2> QED
      BY <1>1, <1>2, <2>1, UsedSaid, UsageStep DEF WalkInv, Reads, WarnedInOrder
  <1>7. WarnedInOrder'
    <2>1. ASSUME NEW l, Conflict(l) \in odd'
          PROVE  l \in 1..(pos + 1)
      <3>1. Conflict(l) \in odd \/ l = pos + 1
        BY <1>1, <2>1 DEF Reads, UsesOn
      <3> QED
        BY <1>2, <3>1 DEF WalkInv, WarnedInOrder
    <2> QED
      BY <1>2, <2>1 DEF WarnedInOrder
  <1>8. TypeOK'
    <2>1. /\ trace' \in Seq(Event) /\ pos' \in 0..Len(trace')
          /\ tokens' \in [Turns -> Usage] /\ current' \in Turns \cup {NoTurn}
          /\ notables' \in SUBSET [at : Nat, turn : Turns \cup {NoTurn}] /\ declared' \in BOOLEAN
      BY <1>1, <1>2 DEF TypeOK, Reads
    <2>2. event.turn \in Turns \cup {NoTurn} /\ JoinOf(trace, event.use) \in Turns \cup {NoTurn}
            /\ here \in Nat /\ here = pos + 1 /\ event = trace[pos + 1]
      BY <1>1, <1>2, HereType
    <2>3. /\ charges \in SUBSET [rule : Rules, at : Nat, turn : Turns]
          /\ buffer \in SUBSET [rule : Rules, at : Nat]
          /\ reasons \in SUBSET [at : Nat, turn : Turns] /\ waiting \in SUBSET Nat
      BY <1>1 DEF TypeOK
    <2>4. Mine(trace, pos + 1) \in SUBSET [rule : Rules, at : Nat]
      BY <2>2 DEF Mine
    <2>5. ASSUME NEW S \in SUBSET [rule : Rules, at : Nat], NEW t \in Turns
          PROVE  Laid(S, t) \in SUBSET [rule : Rules, at : Nat, turn : Turns]
      BY DEF Laid
    <2>6. buffer \cup Mine(trace, pos + 1) \in SUBSET [rule : Rules, at : Nat]
      BY <2>3, <2>4
    <2>7. charges' \in SUBSET [rule : Rules, at : Nat, turn : Turns]
          /\ buffer' \in SUBSET [rule : Rules, at : Nat]
      <3>1. BurnsOn(trace, pos + 1, charges, buffer, charges', buffer')
        BY <1>1 DEF Reads
      <3>2. CASE event.turn # NoTurn
        <4>1. /\ charges' = charges \cup Laid(buffer \cup Mine(trace, pos + 1), event.turn)
              /\ buffer' = {} /\ event.turn \in Turns
          BY <2>2, <3>1, <3>2 DEF BurnsOn
        <4>2. Laid(buffer \cup Mine(trace, pos + 1), event.turn)
                \in SUBSET [rule : Rules, at : Nat, turn : Turns]
          BY <2>5, <2>6, <4>1
        <4> QED
          BY <2>3, <4>1, <4>2
      <3>3. CASE event.turn = NoTurn /\ JoinOf(trace, event.use) # NoTurn
        <4>1. /\ charges' = charges \cup Laid(Mine(trace, pos + 1), JoinOf(trace, event.use))
              /\ buffer' = buffer /\ JoinOf(trace, event.use) \in Turns
          BY <2>2, <3>1, <3>3 DEF BurnsOn
        <4>2. Laid(Mine(trace, pos + 1), JoinOf(trace, event.use))
                \in SUBSET [rule : Rules, at : Nat, turn : Turns]
          BY <2>4, <2>5, <4>1
        <4> QED
          BY <2>3, <4>1, <4>2
      <3>4. CASE event.turn = NoTurn /\ JoinOf(trace, event.use) = NoTurn
        <4>1. charges' = charges /\ buffer' = buffer \cup Mine(trace, pos + 1)
          BY <2>2, <3>1, <3>4 DEF BurnsOn
        <4> QED
          BY <2>3, <2>6, <4>1
      <3> QED
        BY <3>2, <3>3, <3>4
    <2>8. reasons' \in SUBSET [at : Nat, turn : Turns] /\ waiting' \in SUBSET Nat
      <3>1. BillsOn(trace, pos + 1, reasons, waiting, reasons', waiting')
        BY <1>1 DEF Reads
      <3>2. CASE event.turn # NoTurn
        BY <2>2, <2>3, <3>1, <3>2 DEF BillsOn
      <3>3. CASE event.turn = NoTurn
        <4>1. /\ waiting' \subseteq waiting \cup {pos + 1}
              /\ reasons' \subseteq reasons \cup
                   IF JoinOf(trace, event.use) # NoTurn
                   THEN {[at |-> pos + 1, turn |-> JoinOf(trace, event.use)]} ELSE {}
          BY <2>2, <3>1, <3>3 DEF BillsOn
        <4>2. pos + 1 \in Nat
          BY <1>2
        <4> QED
          BY <2>2, <2>3, <4>1, <4>2
      <3> QED
        BY <3>2, <3>3
    <2>9. odd' \in SUBSET [kind : {"malformed", "unknown", "untokened", "conflict"}, at : Nat]
      <3>1. \A k \in Kinds : Warned(k) \in [kind : {"malformed", "unknown", "untokened", "conflict"}, at : Nat]
        BY <2>2 DEF Warned, Kinds
      <3> QED
        BY <1>1, <3>1 DEF Reads, TypeOK
    <2> QED
      BY <2>1, <2>7, <2>8, <2>9 DEF TypeOK
  <1> QED
    BY <1>3, <1>4, <1>5, <1>6, <1>7, <1>8 DEF WalkInv
-----------------------------------------------------------------------------
(***************************************************************************)
(* Folding: the parse of a transcript and the batch of a SessionEnd go     *)
(* through their sequence in order.  A fold of the library is a recursive  *)
(* function on sets of positions; that such a function exists is proved    *)
(* here, for both at once, from a least counterexample.                    *)
(***************************************************************************)
Take(done, parsed, taken, t) ==
  IF t \in done \/ ~IsEmittable(parsed, t) THEN taken ELSE Append(taken, t)

Step(how, held, item) ==
  IF how.parses THEN ParseLine(held, item) ELSE Take(how.done, how.parsed, held, item)

Parsing            == [parses |-> TRUE]
Taking(done, parsed) == [parses |-> FALSE, done |-> done, parsed |-> parsed]

IsFold(f, how, base, tr) ==
  f = [s \in SUBSET (DOMAIN tr) |->
         IF s = {} THEN base ELSE Step(how, f[s \ {Max(s)}], tr[Max(s)])]

\* The sets of positions up to m, of which the fold needs 1..m.
IsFoldTo(f, how, base, tr, m) ==
  f = [s \in SUBSET (1..m) |->
         IF s = {} THEN base ELSE Step(how, f[s \ {Max(s)}], tr[Max(s)])]

Folded(how, base, tr) == (CHOOSE f : IsFold(f, how, base, tr))[DOMAIN tr]

LEMMA ParseIsFold ==
  ParseTranscript = Folded(Parsing, NoParse, transcript)
  BY DEF ParseTranscript, FoldLeft, MapThenFoldSet, Folded, IsFold, Step, Parsing

LEMMA BatchIsFold ==
  ASSUME NEW parsed
  PROVE  Batch(parsed) = Folded(Taking(reported, parsed), <<>>, parsed.order)
  BY DEF Batch, FoldLeft, MapThenFoldSet, Folded, IsFold, Step, Take, Taking

LEMMA UpTo ==
  ASSUME NEW S, NEW m \in Nat, 0 \in S, \A k \in 0..m : k < m /\ k \in S => k + 1 \in S
  PROVE  \A k \in 0..m : k \in S
  <1> DEFINE T == (0..m) \ S
  <1>1. SUFFICES ASSUME T # {} PROVE FALSE
    OBVIOUS
  <1>2. T \in SUBSET Nat
    OBVIOUS
  <1>3. PICK i \in T : \A j \in T : i <= j
    BY <1>1, <1>2, Least
  <1>4. i \in Nat /\ i # 0 /\ i <= m
    BY <1>3
  <1>5. i - 1 \in 0..m /\ i - 1 < m /\ i - 1 \notin T
    BY <1>3, <1>4
  <1>6. (i - 1) + 1 \in S
    BY <1>5
  <1> QED
    BY <1>3, <1>4, <1>6

\* The greatest of some of the first m numbers.
LEMMA Greatest ==
  ASSUME NEW m \in Nat, NEW s \in SUBSET (1..m), s # {}
  PROVE  Max(s) \in s /\ \A j \in s : j <= Max(s)
  <1> DEFINE T == {m - i : i \in s}
  <1>1. T \in SUBSET Nat /\ T # {}
    <2>1. \A i \in s : m - i \in Nat
      OBVIOUS
    <2> QED
      BY <2>1
  <1>2. PICK a \in T : \A b \in T : a <= b
    BY <1>1, Least
  <1>3. PICK i \in s : a = m - i
    BY <1>2
  <1>4. \A j \in s : j \in Nat /\ j <= i
    <2>1. ASSUME NEW j \in s PROVE j \in Nat /\ j <= i
      <3>1. m - j \in T /\ j \in 1..m /\ i \in 1..m
        BY <1>3
      <3>2. m - i <= m - j
        BY <1>2, <1>3, <3>1
      <3> QED
        BY <3>1, <3>2
    <2> QED
      BY <2>1
  <1>5. i \in s /\ \A j \in s : i >= j
    BY <1>3, <1>4
  <1>6. \A k \in s : (\A j \in s : k >= j) => k = i
    BY <1>4, <1>5
  <1>7. Max(s) = i
    BY <1>5, <1>6 DEF Max
  <1> QED
    BY <1>4, <1>7

LEMMA FoldExists ==
  ASSUME NEW how, NEW base, NEW tr, NEW n \in Nat
  PROVE  \E f : IsFoldTo(f, how, base, tr, n)
  <1> DEFINE S == {m \in Nat : \E f : IsFoldTo(f, how, base, tr, m)}
  <1>1. 0 \in S
    <2>1. 1..0 = {}
      OBVIOUS
    <2>2. \A s \in SUBSET (1..0) : s = {}
      BY <2>1
    <2>3. IsFoldTo([s \in SUBSET (1..0) |-> base], how, base, tr, 0)
      BY <2>2 DEF IsFoldTo
    <2> QED
      BY <2>3
  <1>2. ASSUME NEW m \in Nat, m \in S
        PROVE  m + 1 \in S
    <2>1. PICK f : IsFoldTo(f, how, base, tr, m)
      BY <1>2
    <2> DEFINE g == [s \in SUBSET (1..(m + 1)) |->
                       IF m + 1 \in s THEN Step(how, f[s \ {m + 1}], tr[m + 1]) ELSE f[s]]
    <2>2. \A s \in SUBSET (1..m) :
            f[s] = IF s = {} THEN base ELSE Step(how, f[s \ {Max(s)}], tr[Max(s)])
      BY <2>1 DEF IsFoldTo
    <2>3. \A s \in SUBSET (1..(m + 1)) :
            g[s] = IF m + 1 \in s THEN Step(how, f[s \ {m + 1}], tr[m + 1]) ELSE f[s]
      OBVIOUS
    <2>4. g = [s \in SUBSET (1..(m + 1)) |-> g[s]]
      OBVIOUS
    <2> HIDE DEF g
    <2>5. ASSUME NEW s \in SUBSET (1..(m + 1))
          PROVE  g[s] = IF s = {} THEN base ELSE Step(how, g[s \ {Max(s)}], tr[Max(s)])
      <3>1. CASE m + 1 \in s
        <4>1. Max(s) = m + 1
          <5>1. m + 1 \in Nat /\ s # {}
            BY <3>1
          <5>2. Max(s) \in s /\ \A j \in s : j <= Max(s)
            BY <5>1, Greatest
          <5>3. Max(s) \in 1..(m + 1) /\ m + 1 <= Max(s)
            BY <3>1, <5>2
          <5> QED
            BY <5>3
        <4>2. s \ {m + 1} \in SUBSET (1..(m + 1)) /\ m + 1 \notin s \ {m + 1}
          OBVIOUS
        <4>3. g[s \ {m + 1}] = f[s \ {m + 1}]
          BY <2>3, <4>2
        <4> QED
          BY <2>3, <3>1, <4>1, <4>3
      <3>2. CASE m + 1 \notin s
        <4>1. s \in SUBSET (1..m)
          BY <3>2
        <4>2. s # {} => s \ {Max(s)} \in SUBSET (1..(m + 1)) /\ m + 1 \notin s \ {Max(s)}
          BY <3>2
        <4>3. s # {} => g[s \ {Max(s)}] = f[s \ {Max(s)}]
          BY <2>3, <4>2
        <4> QED
          BY <2>2, <2>3, <3>2, <4>1, <4>3
      <3> QED
        BY <3>1, <3>2
    <2>6. IsFoldTo(g, how, base, tr, m + 1)
      BY <2>4, <2>5 DEF IsFoldTo
    <2> QED
      BY <2>6
  <1> HIDE DEF S
  <1>3. n \in S
    BY <1>1, <1>2, UpTo
  <1> QED
    BY <1>3 DEF S

(***************************************************************************)
(* What is held after each item, from what was held after the item before. *)
(***************************************************************************)
LEMMA FoldsInOrder ==
  ASSUME NEW how, NEW base, NEW T, NEW tr \in Seq(T)
  PROVE  \E after : /\ after[0] = base
                    /\ after[Len(tr)] = Folded(how, base, tr)
                    /\ \A k \in 1..Len(tr) :
                         after[k] = Step(how, after[k - 1], tr[k])
  <1> DEFINE n == Len(tr)
             f == CHOOSE f : IsFold(f, how, base, tr)
             after == [k \in 0..n |-> f[1..k]]
  <1>1. n \in Nat /\ DOMAIN tr = 1..n
    OBVIOUS
  <1>2. \A h : IsFold(h, how, base, tr) <=> IsFoldTo(h, how, base, tr, n)
    BY <1>1 DEF IsFold, IsFoldTo
  <1>3. IsFold(f, how, base, tr)
    <2>1. \E h : IsFold(h, how, base, tr)
      BY <1>1, <1>2, FoldExists
    <2> QED
      BY <2>1
  <1>4. Folded(how, base, tr) = f[1..n]
    BY <1>1 DEF Folded
  <1> HIDE DEF f
  <1>5. \A s \in SUBSET (1..n) :
          f[s] = IF s = {} THEN base ELSE Step(how, f[s \ {Max(s)}], tr[Max(s)])
    BY <1>2, <1>3 DEF IsFoldTo
  <1>6. \A k \in 0..n : after[k] = f[1..k]
    OBVIOUS
  <1> HIDE DEF after, n
  <1>7. after[0] = base
    <2>1. 1..0 = {} /\ {} \in SUBSET (1..n) /\ 0 \in 0..n
      BY <1>1
    <2>2. f[{}] = base
      BY <1>5, <2>1
    <2>3. after[0] = f[1..0]
      BY <1>6, <2>1
    <2> QED
      BY <2>1, <2>2, <2>3
  <1>8. ASSUME NEW k \in 1..n
        PROVE  after[k] = Step(how, after[k - 1], tr[k])
    <2>1. k \in Nat /\ 1..k \in SUBSET (1..n) /\ 1..k # {} /\ k \in 1..k
      BY <1>1
    <2>2. Max(1..k) \in 1..k /\ \A j \in 1..k : j <= Max(1..k)
      BY <2>1, Greatest
    <2>3. Max(1..k) = k
      BY <2>1, <2>2
    <2>4. (1..k) \ {k} = 1..(k - 1)
      BY <2>1
    <2>5. k \in 0..n /\ k - 1 \in 0..n
      BY <1>1
    <2> QED
      BY <1>5, <1>6, <2>1, <2>3, <2>4, <2>5
  <1>9. after[n] = Folded(how, base, tr)
    BY <1>1, <1>4, <1>6
  <1> QED
    BY <1>7, <1>8, <1>9 DEF n

LEMMA ParsesInOrder ==
  ASSUME NEW T, transcript \in Seq(T)
  PROVE  \E after : /\ after[0] = NoParse
                    /\ after[Len(transcript)] = ParseTranscript
                    /\ \A k \in 1..Len(transcript) :
                         after[k] = ParseLine(after[k - 1], transcript[k])
  <1>1. PICK after :
           /\ after[0] = NoParse
           /\ after[Len(transcript)] = Folded(Parsing, NoParse, transcript)
           /\ \A k \in 1..Len(transcript) : after[k] = Step(Parsing, after[k - 1], transcript[k])
    BY FoldsInOrder
  <1> QED
    BY <1>1, ParseIsFold DEF Step, Parsing

LEMMA TakesInOrder ==
  ASSUME NEW parsed, NEW T, parsed.order \in Seq(T)
  PROVE  \E after : /\ after[0] = <<>>
                    /\ after[Len(parsed.order)] = Batch(parsed)
                    /\ \A k \in 1..Len(parsed.order) :
                         after[k] = Take(reported, parsed, after[k - 1], parsed.order[k])
  <1> DEFINE how == Taking(reported, parsed)
  <1>1. PICK after :
           /\ after[0] = <<>>
           /\ after[Len(parsed.order)] = Folded(how, <<>>, parsed.order)
           /\ \A k \in 1..Len(parsed.order) : after[k] = Step(how, after[k - 1], parsed.order[k])
    BY FoldsInOrder
  <1> QED
    BY <1>1, BatchIsFold DEF Step, Taking

-----------------------------------------------------------------------------
(***************************************************************************)
(* What the parse of some lines says of a turn and of a tool call.         *)
(***************************************************************************)
Parse == [order : Seq(Turns), usage : [Turns -> Usage], lists : [Turns -> SUBSET Uses]]

IsSighting(line, t) == IsTurnLine(line) /\ line.request = t /\ Populated(Coerced(line.usage))
IsListing(line, u)  == IsTurnLine(line) /\ u \in line.uses

Sights(tr, k, t) == {i \in 1..k : IsSighting(tr[i], t)}
Lists(tr, k, u)  == {i \in 1..k : IsListing(tr[i], u)}

IsFirst(i, S) == i \in S /\ \A l \in S : i <= l

UsageSeen(tr, k, t, usage) ==
  /\ Sights(tr, k, t) = {} => ~Populated(usage)
  /\ \A i : IsFirst(i, Sights(tr, k, t)) => usage = Coerced(tr[i].usage)

CallSeen(tr, k, u, t) == \E i : IsFirst(i, Lists(tr, k, u)) /\ tr[i].request = t

Seen(tr, k, parsed) ==
  /\ parsed \in Parse
  /\ \A i, j \in DOMAIN parsed.order : parsed.order[i] = parsed.order[j] => i = j
  /\ \A t \in Turns : UsageSeen(tr, k, t, parsed.usage[t])
  /\ \A t \in Turns, u \in Uses : u \in parsed.lists[t] <=> CallSeen(tr, k, u, t)

LEMMA LineType ==
  /\ Lines \cup {Torn} \subseteq Line
  /\ ~IsTurnLine(Torn) /\ Torn.type = "torn"
  <1>1. NoUsage \in RawUsage
    <2>1. NoUsage \in [{} -> Amounts \cup {Bad}]
      BY DEF NoUsage
    <2> QED
      BY <2>1 DEF RawUsage
  <1>2. Torn \in Line
    BY <1>1 DEF Torn, Line
  <1> QED
    BY <1>2, TranscriptAssumption DEF IsTurnLine, Torn

LEMMA CoercedType ==
  ASSUME NEW raw \in RawUsage
  PROVE  Coerced(raw) \in Usage
  <1>1. PICK F \in SUBSET Fields : raw \in [F -> Amounts \cup {Bad}]
    BY DEF RawUsage
  <1> DEFINE G == {g \in DOMAIN raw : raw[g] \in Amounts}
  <1>2. G \in SUBSET Fields
    BY <1>1
  <1>3. Coerced(raw) \in [G -> Amounts]
    BY DEF Coerced
  <1> HIDE DEF G
  <1> QED
    BY <1>2, <1>3 DEF Usage

LEMMA FirstIsUnique ==
  ASSUME NEW S \in SUBSET Nat, NEW i, NEW j, IsFirst(i, S), IsFirst(j, S)
  PROVE  i = j
  BY DEF IsFirst

LEMMA NoParseSeen ==
  ASSUME NEW tr
  PROVE  Seen(tr, 0, NoParse)
  <1>1. NoParse \in Parse
    BY NoUsageType DEF NoParse, Parse
  <1>2. \A t : Sights(tr, 0, t) = {} /\ Lists(tr, 0, t) = {}
    BY DEF Sights, Lists
  <1>3. \A t \in Turns : UsageSeen(tr, 0, t, NoParse.usage[t])
    BY <1>2 DEF UsageSeen, IsFirst, NoParse, Populated, NoUsage
  <1>4. \A t \in Turns, u \in Uses : u \in NoParse.lists[t] <=> CallSeen(tr, 0, u, t)
    BY <1>2 DEF CallSeen, IsFirst, NoParse
  <1>5. \A i, j \in DOMAIN NoParse.order : NoParse.order[i] = NoParse.order[j] => i = j
    BY DEF NoParse
  <1> QED
    BY <1>1, <1>3, <1>4, <1>5 DEF Seen

LEMMA LineSeen ==
  ASSUME NEW tr \in Seq(Line), NEW k \in Nat, k < Len(tr), NEW p, Seen(tr, k, p)
  PROVE  Seen(tr, k + 1, ParseLine(p, tr[k + 1]))
  <1> DEFINE line == tr[k + 1]
             q == ParseLine(p, line)
             s == line.request
  <1>1. line \in Line /\ k + 1 \in Nat
    OBVIOUS
  <1>2. /\ s \in Turns \cup {NoTurn} /\ line.uses \in SUBSET Uses
        /\ Coerced(line.usage) \in Usage
    BY <1>1, CoercedType DEF Line
  <1>3. /\ p \in Parse /\ p.order \in Seq(Turns) /\ p.usage \in [Turns -> Usage]
        /\ p.lists \in [Turns -> SUBSET Uses]
    BY DEF Seen, Parse
  <1>4. \A t : Sights(tr, k + 1, t) =
                 Sights(tr, k, t) \cup (IF IsSighting(line, t) THEN {k + 1} ELSE {})
    BY DEF Sights
  <1>5. \A u : Lists(tr, k + 1, u) =
                 Lists(tr, k, u) \cup (IF IsListing(line, u) THEN {k + 1} ELSE {})
    BY DEF Lists
  <1>6. \A t : Sights(tr, k, t) \in SUBSET Nat /\ \A i \in Sights(tr, k, t) : i < k + 1
    BY DEF Sights
  <1>7. \A u : Lists(tr, k, u) \in SUBSET Nat /\ \A i \in Lists(tr, k, u) : i < k + 1
    BY DEF Lists
  <1>8. CASE ~IsTurnLine(line)
    <2>1. q = p
      BY <1>8 DEF ParseLine
    <2>2. \A t : Sights(tr, k + 1, t) = Sights(tr, k, t) /\ Lists(tr, k + 1, t) = Lists(tr, k, t)
      BY <1>4, <1>5, <1>8 DEF IsSighting, IsListing
    <2> HIDE DEF q
    <2>3. Seen(tr, k + 1, q)
      BY <2>1, <2>2 DEF Seen, UsageSeen, CallSeen
    <2> QED
      BY <2>3 DEF q
  <1>9. CASE IsTurnLine(line)
    <2>1. s \in Turns
      BY <1>2, <1>9 DEF IsTurnLine
    <2>2. /\ q.order = IF s \in ToSet(p.order) THEN p.order ELSE Append(p.order, s)
          /\ q.usage = [p.usage EXCEPT ![s] = FirstPopulated(p.usage[s], Coerced(line.usage))]
          /\ q.lists = [p.lists EXCEPT ![s] = p.lists[s] \cup NewlyListed(p, line)]
          /\ q = [order |-> q.order, usage |-> q.usage, lists |-> q.lists]
      BY <1>9 DEF ParseLine
    <2> HIDE DEF q
    <2>3. q \in Parse
      <3>1. q.order \in Seq(Turns)
        BY <1>3, <2>1, <2>2
      <3>2. FirstPopulated(p.usage[s], Coerced(line.usage)) \in Usage
        BY <1>2, <1>3, <2>1 DEF FirstPopulated
      <3>3. q.usage \in [Turns -> Usage]
        BY <1>3, <2>1, <2>2, <3>2
      <3>4. NewlyListed(p, line) \in SUBSET Uses
        BY <1>2 DEF NewlyListed
      <3>5. q.lists \in [Turns -> SUBSET Uses]
        BY <1>3, <2>1, <2>2, <3>4
      <3> QED
        BY <2>2, <3>1, <3>3, <3>5 DEF Parse
    <2>4. \A i, j \in DOMAIN q.order : q.order[i] = q.order[j] => i = j
      <3>1. \A i, j \in DOMAIN p.order : p.order[i] = p.order[j] => i = j
        BY DEF Seen
      <3>2. CASE s \in ToSet(p.order)
        BY <2>2, <3>1, <3>2
      <3>3. CASE s \notin ToSet(p.order)
        <4>1. q.order = Append(p.order, s)
          BY <2>2, <3>3
        <4>2. \A i \in DOMAIN p.order : p.order[i] # s
          BY <3>3 DEF ToSet
        <4>3. /\ DOMAIN q.order = 1..(Len(p.order) + 1) /\ DOMAIN p.order = 1..Len(p.order)
              /\ Len(p.order) \in Nat
              /\ \A i \in DOMAIN p.order : q.order[i] = p.order[i]
              /\ q.order[Len(p.order) + 1] = s
          BY <1>3, <2>1, <4>1
        <4>4. \A i \in DOMAIN q.order : i \in DOMAIN p.order \/ i = Len(p.order) + 1
          BY <4>3
        <4> QED
          BY <3>1, <4>2, <4>3, <4>4
      <3> QED
        BY <3>2, <3>3
    <2>5. ASSUME NEW t \in Turns
          PROVE  UsageSeen(tr, k + 1, t, q.usage[t])
      <3>1. UsageSeen(tr, k, t, p.usage[t])
        BY DEF Seen
      <3>2. CASE ~IsSighting(line, t)
        <4>1. Sights(tr, k + 1, t) = Sights(tr, k, t)
          BY <1>4, <3>2
        <4>2. CASE t # s
          BY <1>3, <2>1, <2>2, <3>1, <4>1, <4>2 DEF UsageSeen
        <4>3. CASE t = s /\ Populated(p.usage[s])
          BY <1>3, <2>1, <2>2, <3>1, <4>1, <4>3 DEF UsageSeen, FirstPopulated
        <4>4. CASE t = s /\ ~Populated(p.usage[s])
          <5>1. q.usage[t] = Coerced(line.usage) /\ ~Populated(q.usage[t])
            BY <1>3, <1>9, <2>1, <2>2, <3>2, <4>4 DEF FirstPopulated, IsSighting
          <5>2. \A i : IsFirst(i, Sights(tr, k, t)) => FALSE
            <6>1. SUFFICES ASSUME NEW i, IsFirst(i, Sights(tr, k, t)) PROVE FALSE
              OBVIOUS
            <6>2. Populated(Coerced(tr[i].usage)) /\ p.usage[t] = Coerced(tr[i].usage)
              BY <3>1, <6>1 DEF UsageSeen, IsFirst, Sights, IsSighting
            <6> QED
              BY <4>4, <6>2
          <5> QED
            BY <4>1, <5>1, <5>2 DEF UsageSeen
        <4> QED
          BY <4>2, <4>3, <4>4
      <3>3. CASE IsSighting(line, t) /\ Sights(tr, k, t) = {}
        <4>1. t = s /\ ~Populated(p.usage[s])
          BY <3>1, <3>3 DEF UsageSeen, IsSighting
        <4>2. q.usage[t] = Coerced(line.usage)
          BY <1>3, <2>1, <2>2, <4>1 DEF FirstPopulated
        <4>3. Sights(tr, k + 1, t) = {k + 1}
          BY <1>4, <3>3
        <4> QED
          BY <4>2, <4>3 DEF UsageSeen, IsFirst
      <3>4. CASE IsSighting(line, t) /\ Sights(tr, k, t) # {}
        <4>1. PICK i : IsFirst(i, Sights(tr, k, t))
          BY <1>6, <3>4, Least DEF IsFirst
        <4>2. Populated(Coerced(tr[i].usage)) /\ p.usage[t] = Coerced(tr[i].usage)
          BY <3>1, <4>1 DEF UsageSeen, IsFirst, Sights, IsSighting
        <4>3. t = s
          BY <3>4 DEF IsSighting
        <4>4. q.usage[t] = p.usage[t]
          BY <1>3, <2>1, <2>2, <4>2, <4>3 DEF FirstPopulated
        <4>5. IsFirst(i, Sights(tr, k + 1, t))
          BY <1>4, <1>6, <4>1 DEF IsFirst
        <4>6. Sights(tr, k + 1, t) \in SUBSET Nat
          BY <1>1, <1>4, <1>6
        <4>7. \A j : IsFirst(j, Sights(tr, k + 1, t)) => j = i
          BY <4>5, <4>6, FirstIsUnique
        <4> QED
          BY <4>2, <4>4, <4>5, <4>7 DEF UsageSeen, IsFirst
      <3> QED
        BY <3>2, <3>3, <3>4
    <2>6. ASSUME NEW t \in Turns, NEW u \in Uses
          PROVE  u \in q.lists[t] <=> CallSeen(tr, k + 1, u, t)
      <3>1. \A r \in Turns : u \in p.lists[r] <=> CallSeen(tr, k, u, r)
        BY DEF Seen
      <3>2. u \in Listed(p) <=> Lists(tr, k, u) # {}
        <4>1. u \in Listed(p) <=> \E r \in Turns : u \in p.lists[r]
          BY DEF Listed
        <4>2. ASSUME Lists(tr, k, u) # {} PROVE \E r \in Turns : CallSeen(tr, k, u, r)
          <5>1. PICK i : IsFirst(i, Lists(tr, k, u))
            BY <1>7, <4>2, Least DEF IsFirst
          <5>2. tr[i] \in Line /\ IsTurnLine(tr[i])
            BY <5>1 DEF IsFirst, Lists, IsListing
          <5>3. tr[i].request \in Turns
            BY <5>2 DEF Line, IsTurnLine
          <5> QED
            BY <5>1, <5>3 DEF CallSeen
        <4>3. ASSUME NEW r \in Turns, CallSeen(tr, k, u, r) PROVE Lists(tr, k, u) # {}
          BY <4>3 DEF CallSeen, IsFirst
        <4> QED
          BY <3>1, <4>1, <4>2, <4>3
      <3>3. u \in q.lists[t] <=> u \in p.lists[t] \/ (t = s /\ IsListing(line, u) /\ Lists(tr, k, u) = {})
        <4>1. u \in NewlyListed(p, line) <=> IsListing(line, u) /\ Lists(tr, k, u) = {}
          BY <1>9, <3>2 DEF NewlyListed, IsListing
        <4> QED
          BY <1>3, <2>1, <2>2, <4>1
      <3>4. CASE ~IsListing(line, u)
        <4>1. Lists(tr, k + 1, u) = Lists(tr, k, u)
          BY <1>5, <3>4
        <4> QED
          BY <3>1, <3>3, <3>4, <4>1 DEF CallSeen
      <3>5. CASE IsListing(line, u) /\ Lists(tr, k, u) = {}
        <4>1. Lists(tr, k + 1, u) = {k + 1}
          BY <1>5, <3>5
        <4>2. CallSeen(tr, k + 1, u, t) <=> t = s
          BY <1>1, <4>1 DEF CallSeen, IsFirst
        <4>3. ~CallSeen(tr, k, u, t)
          BY <3>5 DEF CallSeen, IsFirst
        <4> QED
          BY <3>1, <3>3, <3>5, <4>2, <4>3
      <3>6. CASE IsListing(line, u) /\ Lists(tr, k, u) # {}
        <4>1. PICK i : IsFirst(i, Lists(tr, k, u))
          BY <1>7, <3>6, Least DEF IsFirst
        <4>2. IsFirst(i, Lists(tr, k + 1, u))
          BY <1>5, <1>7, <4>1 DEF IsFirst
        <4>3. Lists(tr, k + 1, u) \in SUBSET Nat
          BY <1>1, <1>5, <1>7
        <4>4. \A j : IsFirst(j, Lists(tr, k + 1, u)) => j = i
          BY <4>2, <4>3, FirstIsUnique
        <4>5. \A j : IsFirst(j, Lists(tr, k, u)) => j = i
          BY <1>7, <4>1, FirstIsUnique
        <4>6. CallSeen(tr, k + 1, u, t) <=> CallSeen(tr, k, u, t)
          BY <4>1, <4>2, <4>4, <4>5 DEF CallSeen
        <4> QED
          BY <3>1, <3>3, <3>6, <4>6
      <3> QED
        BY <3>4, <3>5, <3>6
    <2>7. Seen(tr, k + 1, q)
      BY <2>3, <2>4, <2>5, <2>6 DEF Seen
    <2> QED
      BY <2>7 DEF q
  <1> QED
    BY <1>8, <1>9

LEMMA TranscriptSeen ==
  ASSUME transcript \in Seq(Line)
  PROVE  Seen(transcript, Len(transcript), ParseTranscript)
  <1> DEFINE n == Len(transcript)
  <1>1. PICK after : /\ after[0] = NoParse /\ after[n] = ParseTranscript
                     /\ \A k \in 1..n : after[k] = ParseLine(after[k - 1], transcript[k])
    BY ParsesInOrder
  <1> DEFINE S == {k \in Nat : k \in 0..n /\ Seen(transcript, k, after[k])}
  <1>2. n \in Nat
    OBVIOUS
  <1>3. 0 \in S
    BY <1>1, <1>2, NoParseSeen
  <1>4. ASSUME NEW k \in 0..n, k < n, k \in S
        PROVE  k + 1 \in S
    <2>1. k \in Nat /\ k + 1 \in 1..n /\ (k + 1) - 1 = k
      BY <1>2, <1>4
    <2>2. after[k + 1] = ParseLine(after[k], transcript[k + 1])
      BY <1>1, <2>1
    <2>3. Seen(transcript, k + 1, after[k + 1])
      BY <1>4, <2>1, <2>2, LineSeen
    <2> QED
      BY <2>1, <2>3
  <1> HIDE DEF S, n
  <1>5. \A k \in 0..n : k \in S
    BY <1>2, <1>3, <1>4, UpTo
  <1>6. n \in S
    BY <1>2, <1>5
  <1> QED
    BY <1>1, <1>6 DEF S, n

-----------------------------------------------------------------------------
(***************************************************************************)
(* A batch reports turns once, and none that was reported before.          *)
(***************************************************************************)
Taken(parsed, k, taken) ==
  /\ taken \in Seq(Turns)
  /\ \A i, j \in DOMAIN taken : taken[i] = taken[j] => i = j
  /\ \A i \in DOMAIN taken :
       /\ taken[i] \notin reported
       /\ \E m \in 1..k : parsed.order[m] = taken[i]

LEMMA TakeOne ==
  ASSUME NEW parsed \in Parse, NEW k \in Nat, k < Len(parsed.order), NEW taken,
         Taken(parsed, k, taken),
         \A i, j \in DOMAIN parsed.order : parsed.order[i] = parsed.order[j] => i = j
  PROVE  Taken(parsed, k + 1, Take(reported, parsed, taken, parsed.order[k + 1]))
  <1> DEFINE t == parsed.order[k + 1]
             new == Take(reported, parsed, taken, t)
  <1>1. /\ parsed.order \in Seq(Turns) /\ k + 1 \in DOMAIN parsed.order
        /\ 1..k \subseteq DOMAIN parsed.order
    BY DEF Parse
  <1>2. t \in Turns
    BY <1>1
  <1>3. taken \in Seq(Turns)
    BY DEF Taken
  <1>4. CASE t \in reported \/ ~IsEmittable(parsed, t)
    <2>1. new = taken
      BY <1>4 DEF Take
    <2> HIDE DEF new
    <2>2. Taken(parsed, k + 1, new)
      BY <2>1 DEF Taken
    <2> QED
      BY <2>2 DEF new
  <1>5. CASE t \notin reported /\ IsEmittable(parsed, t)
    <2>1. new = Append(taken, t)
      BY <1>5 DEF Take
    <2>2. /\ new \in Seq(Turns) /\ Len(taken) \in Nat
          /\ DOMAIN new = 1..(Len(taken) + 1) /\ DOMAIN taken = 1..Len(taken)
          /\ \A i \in DOMAIN taken : new[i] = taken[i]
          /\ new[Len(taken) + 1] = t
      BY <1>2, <1>3, <2>1
    <2>3. \A i \in DOMAIN taken : taken[i] # t
      <3>1. SUFFICES ASSUME NEW i \in DOMAIN taken, taken[i] = t PROVE FALSE
        OBVIOUS
      <3>2. PICK m \in 1..k : parsed.order[m] = t
        BY <3>1 DEF Taken
      <3>3. m = k + 1
        BY <1>1, <3>2
      <3> QED
        BY <3>2, <3>3
    <2>4. \A i \in DOMAIN new : i \in DOMAIN taken \/ i = Len(taken) + 1
      BY <2>2
    <2> HIDE DEF new
    <2>5. \A i, j \in DOMAIN new : new[i] = new[j] => i = j
      BY <2>2, <2>3, <2>4 DEF Taken
    <2>6. ASSUME NEW i \in DOMAIN new
          PROVE  new[i] \notin reported /\ \E m \in 1..(k + 1) : parsed.order[m] = new[i]
      <3>1. CASE i \in DOMAIN taken
        BY <2>2, <3>1 DEF Taken
      <3>2. CASE i = Len(taken) + 1
        <4>1. k + 1 \in 1..(k + 1)
          OBVIOUS
        <4> QED
          BY <1>5, <2>2, <3>2, <4>1
      <3> QED
        BY <2>4, <3>1, <3>2
    <2>7. Taken(parsed, k + 1, new)
      BY <2>2, <2>5, <2>6 DEF Taken
    <2> QED
      BY <2>7 DEF new
  <1> QED
    BY <1>4, <1>5

LEMMA BatchTakesOnce ==
  ASSUME NEW parsed \in Parse,
         \A i, j \in DOMAIN parsed.order : parsed.order[i] = parsed.order[j] => i = j
  PROVE  /\ Batch(parsed) \in Seq(Turns)
         /\ \A i, j \in DOMAIN Batch(parsed) : Batch(parsed)[i] = Batch(parsed)[j] => i = j
         /\ \A i \in DOMAIN Batch(parsed) : Batch(parsed)[i] \notin reported
  <1> DEFINE n == Len(parsed.order)
  <1>0. parsed.order \in Seq(Turns)
    BY DEF Parse
  <1>1. PICK after :
           /\ after[0] = <<>> /\ after[n] = Batch(parsed)
           /\ \A k \in 1..n : after[k] = Take(reported, parsed, after[k - 1], parsed.order[k])
    BY <1>0, TakesInOrder
  <1> DEFINE S == {k \in Nat : k \in 0..n /\ Taken(parsed, k, after[k])}
  <1>2. n \in Nat
    BY <1>0
  <1>3. 0 \in S
    <2>1. <<>> \in Seq(Turns) /\ \A i : i \notin DOMAIN <<>>
      OBVIOUS
    <2>2. Taken(parsed, 0, <<>>)
      BY <2>1 DEF Taken
    <2> QED
      BY <1>1, <1>2, <2>2
  <1>4. ASSUME NEW k \in 0..n, k < n, k \in S
        PROVE  k + 1 \in S
    <2>1. k \in Nat /\ k + 1 \in 1..n /\ (k + 1) - 1 = k
      BY <1>2, <1>4
    <2>2. after[k + 1] = Take(reported, parsed, after[k], parsed.order[k + 1])
      BY <1>1, <2>1
    <2>3. Taken(parsed, k + 1, after[k + 1])
      BY <1>4, <2>1, <2>2, TakeOne
    <2> QED
      BY <2>1, <2>3
  <1> HIDE DEF S, n
  <1>5. \A k \in 0..n : k \in S
    BY <1>2, <1>3, <1>4, UpTo
  <1>6. n \in S
    BY <1>2, <1>5
  <1>7. Taken(parsed, n, Batch(parsed))
    BY <1>1, <1>6 DEF S
  <1> QED
    BY <1>7 DEF Taken

-----------------------------------------------------------------------------
(***************************************************************************)
(* The invariant of a session.                                             *)
(***************************************************************************)
\* Snapshots of turns, in a trace from this session.
OncePerTurn ==
  /\ \A j \in DOMAIN trace : trace[j].turn # NoTurn =>
       trace[j].turn \in reported /\ trace[j].use = NoUse
  /\ \A i, j \in DOMAIN trace : trace[i].turn = trace[j].turn /\ trace[i].turn # NoTurn => i = j
  /\ \A t \in reported : \E j \in DOMAIN trace : trace[j].turn = t

Truthful(tr, e) ==
  /\ Populated(e.usage) =>
       /\ Sights(tr, Len(tr), e.turn) # {}
       /\ \A i : IsFirst(i, Sights(tr, Len(tr), e.turn)) => e.usage = Coerced(tr[i].usage)
  /\ \A u \in e.lists : CallSeen(tr, Len(tr), u, e.turn)

Reported ==
  /\ OncePerTurn
  /\ \A j \in DOMAIN trace : trace[j].turn # NoTurn => Truthful(transcript, trace[j])

SessionInv ==
  /\ phase \in {"live", "over", "given"}
  /\ WalkInv
  /\ phase = "live" => Fresh
  /\ transcript \in Seq(Line)
  /\ reported \subseteq Turns
  /\ phase # "given" => Reported

LEMMA SessionInitSound ==
  ASSUME SessionInit
  PROVE  SessionInv
  <1>1. Fresh
    BY DEF SessionInit, Init, Fresh
  <1>2. WellFormed(trace)
    BY WalkAssumption DEF SessionInit, Init, WellFormed
  <1>3. WalkInv
    BY <1>1, <1>2, FreshIsSound
  <1>4. phase # "given" => \A j \in DOMAIN trace : trace[j].turn = NoTurn
    BY TranscriptAssumption DEF SessionInit
  <1>5. phase # "given" => Reported
    BY <1>4 DEF Reported, OncePerTurn, SessionInit
  <1> QED
    BY <1>1, <1>3, <1>5 DEF SessionInv, SessionInit

\* A line written keeps what the lines before it say.
LEMMA LineKeeps ==
  ASSUME transcript \in Seq(Line), NEW line \in Line, WriteLine(line)
  PROVE  /\ transcript' \in Seq(Line)
         /\ \A e : Truthful(transcript, e) => Truthful(transcript', e)
  <1> DEFINE n == Len(transcript)
             m == Len(transcript')
  <1>1. n \in Nat
    OBVIOUS
  <1>2. \/ /\ transcript' = Append(transcript, line)
           /\ transcript' \in Seq(Line) /\ m = n + 1
           /\ \A i \in 1..n : transcript'[i] = transcript[i]
        \/ /\ n > 0 /\ ~IsTurnLine(transcript[n])
           /\ transcript' \in Seq(Line) /\ m = n
           /\ \A i \in 1..(n - 1) : transcript'[i] = transcript[i]
    <2>1. CASE transcript # <<>> /\ Last(transcript).type = "torn"
      <3>1. transcript' = [transcript EXCEPT ![n] = line] /\ n \in DOMAIN transcript
        BY <2>1 DEF WriteLine
      <3>2. ~IsTurnLine(transcript[n])
        BY <2>1 DEF Last, IsTurnLine
      <3>3. transcript' \in Seq(Line)
        BY <3>1
      <3>4. m = n /\ n > 0
        BY <3>1
      <3>5. \A i \in 1..(n - 1) : transcript'[i] = transcript[i]
        BY <3>1
      <3> QED
        BY <3>2, <3>3, <3>4, <3>5
    <2>2. CASE ~(transcript # <<>> /\ Last(transcript).type = "torn")
      <3>1. transcript' = Append(transcript, line)
        BY <2>2 DEF WriteLine
      <3> QED
        BY <3>1
    <2> QED
      BY <2>1, <2>2
  <1>3. transcript' \in Seq(Line) /\ m \in Nat /\ n <= m
    BY <1>1, <1>2
  <1>4. \A i \in 1..n : IsTurnLine(transcript[i]) => i \in 1..m /\ transcript'[i] = transcript[i]
    BY <1>1, <1>2
  <1>5. \A i \in 1..m : i < n => transcript'[i] = transcript[i]
    BY <1>1, <1>2
  <1> HIDE DEF n, m
  <1>6. ASSUME NEW t
        PROVE  \A i : IsFirst(i, Sights(transcript, n, t))
                        => IsFirst(i, Sights(transcript', m, t)) /\ transcript'[i] = transcript[i]
    <2>1. SUFFICES ASSUME NEW i, IsFirst(i, Sights(transcript, n, t))
                   PROVE  IsFirst(i, Sights(transcript', m, t)) /\ transcript'[i] = transcript[i]
      OBVIOUS
    <2>2. i \in 1..n /\ IsSighting(transcript[i], t) /\ IsTurnLine(transcript[i])
      BY <2>1 DEF IsFirst, Sights, IsSighting
    <2>3. i \in 1..m /\ transcript'[i] = transcript[i]
      BY <1>4, <2>2
    <2>4. i \in Sights(transcript', m, t)
      BY <2>2, <2>3 DEF Sights
    <2>5. ASSUME NEW l \in Sights(transcript', m, t) PROVE i <= l
      <3>1. l \in 1..m /\ IsSighting(transcript'[l], t)
        BY <2>5 DEF Sights
      <3>2. CASE l < n
        <4>1. transcript'[l] = transcript[l] /\ l \in 1..n
          BY <1>1, <1>5, <3>1, <3>2
        <4>2. l \in Sights(transcript, n, t)
          BY <3>1, <4>1 DEF Sights
        <4> QED
          BY <2>1, <4>2 DEF IsFirst
      <3>3. CASE l >= n
        BY <1>1, <2>2, <3>1, <3>3
      <3> QED
        BY <1>1, <3>1, <3>2, <3>3
    <2> QED
      BY <2>3, <2>4, <2>5 DEF IsFirst
  <1>7. ASSUME NEW u, NEW t, CallSeen(transcript, n, u, t)
        PROVE  CallSeen(transcript', m, u, t)
    <2>1. PICK i : IsFirst(i, Lists(transcript, n, u)) /\ transcript[i].request = t
      BY <1>7 DEF CallSeen
    <2>2. i \in 1..n /\ IsListing(transcript[i], u) /\ IsTurnLine(transcript[i])
      BY <2>1 DEF IsFirst, Lists, IsListing
    <2>3. i \in 1..m /\ transcript'[i] = transcript[i]
      BY <1>4, <2>2
    <2>4. i \in Lists(transcript', m, u)
      BY <2>2, <2>3 DEF Lists
    <2>5. ASSUME NEW l \in Lists(transcript', m, u) PROVE i <= l
      <3>1. l \in 1..m /\ IsListing(transcript'[l], u)
        BY <2>5 DEF Lists
      <3>2. CASE l < n
        <4>1. transcript'[l] = transcript[l] /\ l \in 1..n
          BY <1>1, <1>5, <3>1, <3>2
        <4>2. l \in Lists(transcript, n, u)
          BY <3>1, <4>1 DEF Lists
        <4> QED
          BY <2>1, <4>2 DEF IsFirst
      <3>3. CASE l >= n
        BY <1>1, <2>2, <3>1, <3>3
      <3> QED
        BY <1>1, <3>1, <3>2, <3>3
    <2>6. IsFirst(i, Lists(transcript', m, u))
      BY <2>4, <2>5 DEF IsFirst
    <2> QED
      BY <2>1, <2>3, <2>6 DEF CallSeen
  <1>8. ASSUME NEW e, Truthful(transcript, e)
        PROVE  Truthful(transcript', e)
    <2>1. ASSUME Populated(e.usage)
          PROVE  /\ Sights(transcript', m, e.turn) # {}
                 /\ \A i : IsFirst(i, Sights(transcript', m, e.turn)) => e.usage = Coerced(transcript'[i].usage)
      <3>1. /\ Sights(transcript, n, e.turn) # {}
            /\ \A i : IsFirst(i, Sights(transcript, n, e.turn)) => e.usage = Coerced(transcript[i].usage)
        BY <1>8, <2>1 DEF Truthful, n
      <3>2. Sights(transcript, n, e.turn) \in SUBSET Nat
        BY <1>1 DEF Sights
      <3>3. PICK i : IsFirst(i, Sights(transcript, n, e.turn))
        BY <3>1, <3>2, Least DEF IsFirst
      <3>4. IsFirst(i, Sights(transcript', m, e.turn)) /\ transcript'[i] = transcript[i]
        BY <1>6, <3>3
      <3>5. Sights(transcript', m, e.turn) \in SUBSET Nat
        BY <1>3 DEF Sights
      <3>6. \A j : IsFirst(j, Sights(transcript', m, e.turn)) => j = i
        BY <3>4, <3>5, FirstIsUnique
      <3> QED
        BY <3>1, <3>3, <3>4, <3>6 DEF IsFirst
    <2>2. ASSUME NEW u \in e.lists PROVE CallSeen(transcript', m, u, e.turn)
      BY <1>7, <1>8 DEF Truthful, n
    <2> QED
      BY <2>1, <2>2 DEF Truthful, m
  <1> QED
    BY <1>3, <1>8

LEMMA EventAppended ==
  ASSUME WellFormed(trace), NEW e \in HookEvents, trace' = Append(trace, e)
  PROVE  /\ WellFormed(trace')
         /\ \A j : j \in DOMAIN trace' <=> j \in DOMAIN trace \/ j = Len(trace) + 1
         /\ \A j \in DOMAIN trace : trace'[j] = trace[j]
         /\ trace'[Len(trace) + 1] = e /\ e.turn = NoTurn
  <1>1. /\ e \in Event /\ e.turn = NoTurn
        /\ e.type \in {"INTENT", "OTHER", "MALFORMED"} => e.rules = {}
    BY TranscriptAssumption
  <1>2. trace \in Seq(Event) /\ Len(trace) \in Nat
    BY DEF WellFormed
  <1>3. /\ trace' \in Seq(Event)
        /\ DOMAIN trace' = 1..(Len(trace) + 1) /\ DOMAIN trace = 1..Len(trace)
        /\ \A j \in DOMAIN trace : trace'[j] = trace[j]
        /\ trace'[Len(trace) + 1] = e
    BY <1>1, <1>2
  <1>4. \A j : j \in DOMAIN trace' <=> j \in DOMAIN trace \/ j = Len(trace) + 1
    BY <1>2, <1>3
  <1>5. WellFormed(trace')
    BY <1>1, <1>3, <1>4 DEF WellFormed
  <1> QED
    BY <1>1, <1>3, <1>4, <1>5

\* A batch only adds truthful snapshots of turns not reported before.
LEMMA BatchKeeps ==
  ASSUME WellFormed(trace), transcript \in Seq(Line), reported \subseteq Turns, Reported, SessionEnd
  PROVE  WellFormed(trace') /\ reported' \subseteq Turns /\ Reported'
  <1> DEFINE p == ParseTranscript
             b == Batch(p)
             s == [k \in DOMAIN b |-> TurnSnapshot(p, b[k])]
             n == Len(trace)
             m == Len(b)
  <1>1. Seen(transcript, Len(transcript), p)
    BY TranscriptSeen
  <1>2. /\ p \in Parse /\ p.usage \in [Turns -> Usage] /\ p.lists \in [Turns -> SUBSET Uses]
        /\ \A t \in Turns : UsageSeen(transcript, Len(transcript), t, p.usage[t])
        /\ \A t \in Turns, u \in Uses :
             u \in p.lists[t] <=> CallSeen(transcript, Len(transcript), u, t)
    BY <1>1 DEF Seen, Parse
  <1>3. /\ b \in Seq(Turns)
        /\ \A i, j \in DOMAIN b : b[i] = b[j] => i = j
        /\ \A i \in DOMAIN b : b[i] \notin reported
    BY <1>1, BatchTakesOnce DEF Seen
  <1>4. /\ trace' = trace \o s /\ reported' = reported \cup ToSet(b) /\ transcript' = transcript
    BY DEF SessionEnd
  <1> HIDE DEF p, b
  <1>5. \A t \in Turns :
          /\ TurnSnapshot(p, t) \in Event
          /\ TurnSnapshot(p, t).turn = t /\ TurnSnapshot(p, t).use = NoUse
          /\ TurnSnapshot(p, t).type = "CTX" /\ TurnSnapshot(p, t).rules = {}
          /\ Truthful(transcript, TurnSnapshot(p, t))
    <2>1. SUFFICES ASSUME NEW t \in Turns
                   PROVE  /\ TurnSnapshot(p, t) \in Event
                          /\ TurnSnapshot(p, t).turn = t /\ TurnSnapshot(p, t).use = NoUse
                          /\ TurnSnapshot(p, t).type = "CTX" /\ TurnSnapshot(p, t).rules = {}
                          /\ Truthful(transcript, TurnSnapshot(p, t))
      OBVIOUS
    <2> DEFINE e == TurnSnapshot(p, t)
    <2>2. /\ e.turn = t /\ e.use = NoUse /\ e.type = "CTX" /\ e.rules = {}
          /\ e.usage = p.usage[t] /\ e.lists = p.lists[t]
      BY DEF TurnSnapshot
    <2>3. e \in Event
      BY <1>2 DEF TurnSnapshot, Event, EventTypes
    <2> HIDE DEF e
    <2>4. Truthful(transcript, e)
      <3>1. UsageSeen(transcript, Len(transcript), t, e.usage)
        BY <1>2, <2>2
      <3>2. \A u \in e.lists : u \in Uses
        BY <1>2, <2>2
      <3> QED
        BY <1>2, <2>2, <3>1, <3>2 DEF Truthful, UsageSeen
    <2> QED
      BY <2>2, <2>3, <2>4 DEF e
  <1>6. /\ DOMAIN b = 1..m /\ m \in Nat /\ \A k \in 1..m : b[k] \in Turns
    BY <1>3
  <1>7. s \in Seq(Event) /\ Len(s) = m
    <2>1. \A k \in 1..m : TurnSnapshot(p, b[k]) \in Event
      BY <1>5, <1>6
    <2>2. s \in [1..m -> Event]
      BY <1>6, <2>1
    <2>3. s \in Seq(Event)
      BY <1>6, <2>2
    <2> QED
      BY <1>6, <2>2, <2>3
  <1>8. \A k \in 1..m : s[k] = TurnSnapshot(p, b[k])
    BY <1>6
  <1> HIDE DEF s
  <1>9. trace \in Seq(Event) /\ n \in Nat /\ DOMAIN trace = 1..n
    BY DEF WellFormed
  <1>10. /\ trace' \in Seq(Event) /\ Len(trace') = n + m
         /\ \A j \in 1..n : trace'[j] = trace[j]
         /\ \A k \in 1..m : trace'[n + k] = s[k]
    <2>1. /\ trace \o s \in Seq(Event) /\ Len(trace \o s) = n + m
          /\ \A j \in 1..n : (trace \o s)[j] = trace[j]
      BY <1>7, <1>9
    <2>2. \A k \in 1..m : (trace \o s)[n + k] = s[k]
      BY <1>6, <1>7, <1>9
    <2> QED
      BY <1>4, <2>1, <2>2
  <1> HIDE DEF n, m
  <1>11. \A j \in DOMAIN trace' : j \in 1..n \/ \E k \in 1..m : j = n + k
    <2>1. SUFFICES ASSUME NEW j \in 1..(n + m), j \notin 1..n PROVE \E k \in 1..m : j = n + k
      BY <1>10
    <2>2. j - n \in 1..m /\ j = n + (j - n)
      BY <1>6, <1>9, <2>1
    <2> QED
      BY <2>2
  <1>12. DOMAIN trace' = 1..(n + m) /\ 1..n \subseteq DOMAIN trace' /\ \A k \in 1..m : n + k \in DOMAIN trace'
    BY <1>6, <1>9, <1>10
  <1>13. \A k \in 1..m :
           /\ trace'[n + k].turn = b[k] /\ trace'[n + k].use = NoUse
           /\ trace'[n + k].type = "CTX" /\ trace'[n + k].rules = {}
           /\ Truthful(transcript, trace'[n + k])
    BY <1>5, <1>6, <1>8, <1>10
  <1>14. WellFormed(trace')
    <2>1. ASSUME NEW j \in DOMAIN trace'
          PROVE  /\ trace'[j].turn # NoTurn => trace'[j].type = "CTX"
                 /\ trace'[j].type \in {"INTENT", "OTHER", "MALFORMED"} => trace'[j].rules = {}
      <3>1. CASE j \in 1..n
        BY <1>9, <1>10, <3>1 DEF WellFormed
      <3>2. ASSUME NEW k \in 1..m, j = n + k
            PROVE  trace'[j].type = "CTX"
        BY <1>13, <3>2
      <3> QED
        BY <1>11, <3>1, <3>2
    <2> QED
      BY <1>10, <2>1 DEF WellFormed
  <1>15. ToSet(b) = {b[k] : k \in 1..m} /\ ToSet(b) \subseteq Turns
    BY <1>6 DEF ToSet
  <1>16. \A j \in DOMAIN trace' : trace'[j].turn # NoTurn =>
           /\ trace'[j].turn \in reported' /\ trace'[j].use = NoUse
           /\ Truthful(transcript', trace'[j])
    <2>1. SUFFICES ASSUME NEW j \in DOMAIN trace', trace'[j].turn # NoTurn
                   PROVE  /\ trace'[j].turn \in reported' /\ trace'[j].use = NoUse
                          /\ Truthful(transcript, trace'[j])
      BY <1>4
    <2>2. CASE j \in 1..n
      BY <1>4, <1>9, <1>10, <2>1, <2>2 DEF Reported, OncePerTurn
    <2>3. ASSUME NEW k \in 1..m, j = n + k
          PROVE  /\ trace'[j].turn \in reported' /\ trace'[j].use = NoUse
                 /\ Truthful(transcript, trace'[j])
      BY <1>4, <1>13, <1>15, <2>3
    <2> QED
      BY <1>11, <2>2, <2>3
  <1>17. \A i, j \in DOMAIN trace' :
            trace'[i].turn = trace'[j].turn /\ trace'[i].turn # NoTurn => i = j
    <2>1. SUFFICES ASSUME NEW i \in DOMAIN trace', NEW j \in DOMAIN trace',
                          trace'[i].turn = trace'[j].turn, trace'[i].turn # NoTurn
                   PROVE  i = j
      OBVIOUS
    <2>2. \A l \in 1..n : trace'[l].turn # NoTurn => trace'[l].turn \in reported
      BY <1>9, <1>10 DEF Reported, OncePerTurn
    <2>3. \A k \in 1..m : trace'[n + k].turn \notin reported
      BY <1>3, <1>6, <1>13
    <2>4. CASE i \in 1..n /\ j \in 1..n
      BY <1>9, <1>10, <2>1, <2>4 DEF Reported, OncePerTurn
    <2>5. ASSUME NEW k \in 1..m, i = n + k, NEW l \in 1..m, j = n + l
          PROVE  i = j
      <3>1. b[k] = b[l]
        BY <1>13, <2>1, <2>5
      <3>2. k = l
        BY <1>3, <1>6, <3>1
      <3> QED
        BY <2>5, <3>2
    <2> QED
      BY <1>11, <2>1, <2>2, <2>3, <2>4, <2>5
  <1>18. \A t \in reported' : \E j \in DOMAIN trace' : trace'[j].turn = t
    <2>1. SUFFICES ASSUME NEW t \in reported' PROVE \E j \in DOMAIN trace' : trace'[j].turn = t
      OBVIOUS
    <2>2. CASE t \in reported
      <3>1. PICK j \in DOMAIN trace : trace[j].turn = t
        BY <2>2 DEF Reported, OncePerTurn
      <3> QED
        BY <1>9, <1>10, <1>12, <3>1
    <2>3. CASE t \in ToSet(b)
      <3>1. PICK k \in 1..m : t = b[k]
        BY <1>15, <2>3
      <3> QED
        BY <1>12, <1>13, <3>1
    <2> QED
      BY <1>4, <2>1, <2>2, <2>3
  <1>19. reported' \subseteq Turns
    BY <1>4, <1>15
  <1>20. Reported'
    BY <1>16, <1>17, <1>18 DEF Reported, OncePerTurn
  <1> QED
    BY <1>14, <1>19, <1>20

LEMMA SessionStep ==
  ASSUME SessionInv, SessionNext
  PROVE  SessionInv'
  <1>0. /\ phase \in {"live", "over", "given"} /\ WalkInv /\ WellFormed(trace)
        /\ phase = "live" => Fresh
        /\ transcript \in Seq(Line) /\ reported \subseteq Turns
        /\ phase # "given" => Reported
    BY DEF SessionInv, WalkInv
  <1>1. ASSUME NEW line \in Lines \cup {Torn}, WriteLine(line)
        PROVE  SessionInv'
    <2>1. /\ phase = "live" /\ phase' = phase /\ UNCHANGED vars /\ reported' = reported
      BY <1>1 DEF WriteLine
    <2>2. /\ transcript' \in Seq(Line)
          /\ \A e : Truthful(transcript, e) => Truthful(transcript', e)
      BY <1>0, <1>1, LineKeeps, LineType
    <2>3. Fresh' /\ WellFormed(trace)'
      BY <1>0, <2>1 DEF Fresh, WellFormed, vars
    <2>4. WalkInv'
      <3>1. (WellFormed(trace) /\ Fresh => WalkInv)'
        BY FreshIsSound, PTL
      <3> QED
        BY <2>3, <3>1
    <2>5. Reported'
      BY <1>0, <2>1, <2>2 DEF Reported, OncePerTurn, vars
    <2> QED
      BY <1>0, <2>1, <2>2, <2>3, <2>4, <2>5 DEF SessionInv
  <1>2. ASSUME NEW e \in HookEvents, ToolHook(e)
        PROVE  SessionInv'
    <2>1. /\ phase = "live" /\ phase' = phase /\ transcript' = transcript /\ reported' = reported
          /\ trace' = Append(trace, e)
          /\ UNCHANGED <<pos, reasons, waiting, charges, buffer, tokens, current, notables,
                         declared, odd>>
      BY <1>2 DEF ToolHook, sessionVars
    <2>2. /\ WellFormed(trace')
          /\ \A j : j \in DOMAIN trace' <=> j \in DOMAIN trace \/ j = Len(trace) + 1
          /\ \A j \in DOMAIN trace : trace'[j] = trace[j]
          /\ trace'[Len(trace) + 1] = e /\ e.turn = NoTurn
      BY <1>0, <2>1, EventAppended
    <2>3. Fresh' /\ WellFormed(trace)'
      BY <1>0, <2>1, <2>2 DEF Fresh, WellFormed
    <2>4. WalkInv'
      <3>1. (WellFormed(trace) /\ Fresh => WalkInv)'
        BY FreshIsSound, PTL
      <3> QED
        BY <2>3, <3>1
    <2>5. Reported'
      <3>1. \A j \in DOMAIN trace' : trace'[j].turn # NoTurn => j \in DOMAIN trace
        BY <2>2
      <3>2. \A j \in DOMAIN trace' : trace'[j].turn # NoTurn =>
               /\ trace'[j].turn \in reported' /\ trace'[j].use = NoUse
               /\ Truthful(transcript', trace'[j])
        BY <1>0, <2>1, <2>2, <3>1 DEF Reported, OncePerTurn
      <3>3. \A i, j \in DOMAIN trace' :
               trace'[i].turn = trace'[j].turn /\ trace'[i].turn # NoTurn => i = j
        BY <1>0, <2>1, <2>2, <3>1 DEF Reported, OncePerTurn
      <3>4. \A t \in reported' : \E j \in DOMAIN trace' : trace'[j].turn = t
        BY <1>0, <2>1, <2>2 DEF Reported, OncePerTurn
      <3> QED
        BY <3>2, <3>3, <3>4 DEF Reported, OncePerTurn
    <2> QED
      BY <1>0, <2>1, <2>3, <2>4, <2>5 DEF SessionInv
  <1>3. CASE SessionEnd
    <2>1. /\ phase = "live" /\ phase' = phase /\ transcript' = transcript
          /\ UNCHANGED <<pos, reasons, waiting, charges, buffer, tokens, current, notables,
                         declared, odd>>
      BY <1>3 DEF SessionEnd
    <2>2. WellFormed(trace') /\ reported' \subseteq Turns /\ Reported'
      BY <1>0, <1>3, <2>1, BatchKeeps
    <2>3. Fresh' /\ WellFormed(trace)'
      BY <1>0, <2>1, <2>2 DEF Fresh, WellFormed
    <2>4. WalkInv'
      <3>1. (WellFormed(trace) /\ Fresh => WalkInv)'
        BY FreshIsSound, PTL
      <3> QED
        BY <2>3, <3>1
    <2> QED
      BY <1>0, <2>1, <2>2, <2>3, <2>4 DEF SessionInv
  <1>4. CASE AskPulse
    <2>1. phase = "live" /\ phase' = "over" /\ UNCHANGED vars /\ transcript' = transcript
          /\ reported' = reported
      BY <1>4 DEF AskPulse
    <2>2. Fresh' /\ WellFormed(trace)'
      BY <1>0, <2>1 DEF Fresh, WellFormed, vars
    <2>3. WalkInv'
      <3>1. (WellFormed(trace) /\ Fresh => WalkInv)'
        BY FreshIsSound, PTL
      <3> QED
        BY <2>2, <3>1
    <2>4. Reported'
      BY <1>0, <2>1 DEF Reported, OncePerTurn, vars
    <2> QED
      BY <1>0, <2>1, <2>3, <2>4 DEF SessionInv
  <1>5. CASE ReadTrace
    <2>1. /\ phase # "live" /\ phase' = phase /\ transcript' = transcript /\ reported' = reported
          /\ Next
      BY <1>5 DEF ReadTrace, sessionVars
    <2>2. WalkInv'
      BY <1>0, <2>1, WalkStep
    <2>3. trace' = trace
      BY <1>0, <2>1, EveryStepReads DEF WalkInv, Reads
    <2>4. Reported => Reported'
      BY <2>1, <2>3 DEF Reported, OncePerTurn
    <2> QED
      BY <1>0, <2>1, <2>2, <2>4 DEF SessionInv
  <1> QED
    BY <1>1, <1>2, <1>3, <1>4, <1>5 DEF SessionNext

-----------------------------------------------------------------------------
(***************************************************************************)
(* What the invariant says once the report is read.                        *)
(***************************************************************************)
LEMMA OkShowsAll ==
  ASSUME TypeOK
  PROVE  OkIsWhole
  <1> DEFINE U == Category(UndeclaredStatus)
             B == Category(BurnStatus)
  <1>1. SUFFICES ASSUME PulseStatus = "ok", charges # {}
                 PROVE  odd = {} /\ buffer = {} /\ waiting = {}
    BY DEF OkIsWhole
  <1>2. U \notin {"partial", "limited_signal"} /\ B \notin {"partial", "limited_signal"}
    <2>1. Merged({U, B}) = "ok"
      BY <1>1 DEF PulseStatus
    <2> HIDE DEF U, B
    <2>2. "partial" \notin {U, B}
      BY <2>1 DEF Merged
    <2>3. "limited_signal" \notin {U, B}
      BY <2>1, <2>2 DEF Merged
    <2> QED
      BY <2>2, <2>3
  <1>3. UndeclaredStatus \in {"ok", "no_violations"} /\ BurnStatus \in {"ok", "no_violations"}
    BY <1>2 DEF Category
  <1>4. ~UndeclaredOdd
    BY <1>3 DEF UndeclaredStatus
  <1>5. ~BurnOdd
    BY <1>1, <1>3 DEF BurnStatus
  <1>6. \A o \in odd : o.kind \in {"malformed", "unknown", "untokened", "conflict"}
    BY DEF TypeOK
  <1>7. odd = {}
    BY <1>4, <1>5, <1>6 DEF UndeclaredOdd, BurnOdd, Ids
  <1> QED
    BY <1>4, <1>5, <1>7 DEF UndeclaredOdd, BurnOdd

LEMMA LeastIsMin ==
  ASSUME NEW S \in SUBSET Nat, S # {}
  PROVE  IsFirst(Min(S), S)
  <1>1. PICK i \in S : \A j \in S : i <= j
    BY Least
  <1> QED
    BY <1>1 DEF Min, IsFirst

\* The one snapshot of a reported turn.
LEMMA TheReport ==
  ASSUME Reported, NEW t \in reported
  PROVE  \E j \in DOMAIN trace : /\ Report(t) = trace[j] /\ trace[j].turn = t
                                 /\ \A i \in DOMAIN trace : trace[i].turn = t /\ t # NoTurn => i = j
  <1> DEFINE j == CHOOSE j \in DOMAIN trace : trace[j].turn = t
  <1>1. \E i \in DOMAIN trace : trace[i].turn = t
    BY DEF Reported, OncePerTurn
  <1>2. j \in DOMAIN trace /\ trace[j].turn = t
    BY <1>1
  <1>3. Report(t) = trace[j]
    BY DEF Report
  <1> HIDE DEF j
  <1>4. \A i \in DOMAIN trace : trace[i].turn = t /\ t # NoTurn => i = j
    BY <1>2 DEF Reported, OncePerTurn
  <1> QED
    BY <1>2, <1>3, <1>4

LEMMA BilledTruly ==
  ASSUME SessionInv
  PROVE  BilledAsTranscribed
  <1> DEFINE Seeing(t) == {k \in DOMAIN transcript :
                            /\ IsTurnLine(transcript[k])
                            /\ transcript[k].request = t /\ Populated(Coerced(transcript[k].usage))}
             Says(t, S) == /\ tokens[t] = NoUsage =>
                                t \notin reported \/ S = {} \/ ~Populated(Report(t).usage)
                           /\ tokens[t] # NoUsage =>
                                S # {} /\ tokens[t] = Filled(Coerced(transcript[Min(S)].usage))
  <1>0. \A t : Seeing(t) = Sights(transcript, Len(transcript), t)
    BY DEF Sights, IsSighting, SessionInv
  <1>a. (phase = "over" /\ Done => \A t \in Turns : Says(t, Seeing(t))) => BilledAsTranscribed
    BY DEF BilledAsTranscribed, LinesWith
  <1> HIDE DEF Seeing, Says
  <1>1. SUFFICES ASSUME phase = "over", Done, NEW t \in Turns
                 PROVE  Says(t, Sights(transcript, Len(transcript), t))
    BY <1>0, <1>a
  <1> DEFINE S == Sights(transcript, Len(transcript), t)
  <1>2. Reported /\ WalkInv /\ WellFormed(trace) /\ TypeOK /\ FirstUsageCounts /\ pos = Len(trace)
    BY <1>1 DEF SessionInv, WalkInv, Done
  <1>3. t # NoTurn
    BY WalkAssumption
  <1>4. DOMAIN trace = 1..pos /\ pos \in Nat
    BY <1>2 DEF WellFormed
  <1>5. \A j \in DOMAIN trace : trace[j].usage \in Usage
    BY <1>2, EventType
  <1>6. CASE tokens[t] = NoUsage
    <2>1. SUFFICES ASSUME t \in reported, Populated(Report(t).usage) PROVE FALSE
      BY <1>6 DEF Says
    <2>2. PICK j \in DOMAIN trace : /\ Report(t) = trace[j] /\ trace[j].turn = t
                                    /\ \A i \in DOMAIN trace : trace[i].turn = t => i = j
      BY <1>2, <1>3, <2>1, TheReport
    <2>3. j \in Sightings(t) /\ \A l \in Sightings(t) : l = j
      BY <1>4, <2>1, <2>2 DEF Sightings
    <2>4. j <= j
      BY <1>4
    <2>5. tokens[t] = Filled(trace[j].usage)
      BY <1>2, <2>3, <2>4 DEF FirstUsageCounts
    <2>6. Populated(tokens[t])
      BY <1>5, <2>1, <2>2, <2>5, FilledType
    <2> QED
      BY <1>6, <2>6 DEF Populated, NoUsage
  <1>7. CASE tokens[t] # NoUsage
    <2>1. Sightings(t) # {} /\ Sightings(t) \in SUBSET Nat
      BY <1>2, <1>7 DEF FirstUsageCounts, Sightings
    <2>2. PICK k \in Sightings(t) : \A l \in Sightings(t) : k <= l
      BY <2>1, Least
    <2>3. tokens[t] = Filled(trace[k].usage)
      BY <1>2, <2>2 DEF FirstUsageCounts
    <2>4. k \in DOMAIN trace /\ trace[k].turn = t /\ Populated(trace[k].usage)
      BY <1>4, <2>2 DEF Sightings
    <2>5. Truthful(transcript, trace[k])
      BY <1>2, <1>3, <2>4 DEF Reported
    <2>6. S # {} /\ \A i : IsFirst(i, S) => trace[k].usage = Coerced(transcript[i].usage)
      BY <2>4, <2>5 DEF Truthful
    <2>7. S \in SUBSET Nat
      BY DEF Sights
    <2> HIDE DEF S
    <2>8. IsFirst(Min(S), S)
      BY <2>6, <2>7, LeastIsMin
    <2>9. S # {} /\ tokens[t] = Filled(Coerced(transcript[Min(S)].usage))
      BY <2>3, <2>6, <2>8
    <2> QED
      BY <1>7, <2>9 DEF S, Says
  <1> QED
    BY <1>6, <1>7

LEMMA CallsTruly ==
  ASSUME SessionInv
  PROVE  CallsBilledToTheirTurn
  <1>1. SUFFICES ASSUME phase = "over", NEW j \in DOMAIN trace,
                        Lists(transcript, Len(transcript), trace[j].use) # {},
                        NEW t, t = transcript[Min(Lists(transcript, Len(transcript), trace[j].use))].request,
                        t \in reported, trace[j].use \in Report(t).lists,
                        NEW found \in charges \cup reasons, found.at = j
                 PROVE  found.turn = t
    BY DEF CallsBilledToTheirTurn, LinesWith, Lists, IsListing, SessionInv
  <1> DEFINE u == trace[j].use
  <1>2. /\ Reported /\ WalkInv /\ WellFormed(trace) /\ TypeOK /\ reported \subseteq Turns
        /\ ChargedToOwner /\ BilledToOwner
    BY <1>1 DEF SessionInv, WalkInv
  <1>3. t \in Turns /\ t # NoTurn
    BY <1>1, <1>2, WalkAssumption
  <1>4. PICK r \in DOMAIN trace : /\ Report(t) = trace[r] /\ trace[r].turn = t
                                  /\ \A i \in DOMAIN trace : trace[i].turn = t => i = r
    BY <1>1, <1>2, <1>3, TheReport
  <1>5. u # NoUse
    <2>1. trace[r] \in Event
      BY <1>2, EventType
    <2>2. u \in Uses
      BY <1>1, <1>4, <2>1 DEF Event
    <2> QED
      BY <2>2, WalkAssumption
  <1>6. trace[j].turn = NoTurn
    BY <1>2, <1>5 DEF Reported, OncePerTurn
  <1>7. \A l \in Listers(trace, u) : l = r
    <2>1. SUFFICES ASSUME NEW l \in Listers(trace, u) PROVE l = r
      OBVIOUS
    <2>2. l \in DOMAIN trace /\ trace[l].turn # NoTurn /\ u \in trace[l].lists
      BY DEF Listers
    <2>3. CallSeen(transcript, Len(transcript), u, trace[l].turn)
      BY <1>2, <2>2 DEF Reported, Truthful
    <2>4. PICK i : /\ IsFirst(i, Lists(transcript, Len(transcript), u))
                   /\ transcript[i].request = trace[l].turn
      BY <2>3 DEF CallSeen
    <2>5. Lists(transcript, Len(transcript), u) \in SUBSET Nat
      BY DEF Lists
    <2>6. i = Min(Lists(transcript, Len(transcript), u))
      BY <1>1, <2>4, <2>5, LeastIsMin, FirstIsUnique
    <2>7. trace[l].turn = t
      BY <1>1, <2>4, <2>6
    <2> QED
      BY <1>4, <2>2, <2>7
  <1>8. JoinOf(trace, u) = t
    <2>1. r \in Listers(trace, u)
      BY <1>1, <1>3, <1>4 DEF Listers
    <2>2. Listers(trace, u) = {r}
      BY <1>7, <2>1
    <2>3. r \in Nat
      BY <1>2, <1>4 DEF WellFormed
    <2>4. (CHOOSE l \in Listers(trace, u) : \A k \in Listers(trace, u) : l <= k) = r
      BY <2>2, <2>3
    <2> HIDE DEF u
    <2> QED
      BY <1>4, <1>5, <2>1, <2>4 DEF JoinOf
  <1>9. OwnerOf(trace, j, pos) = t
    BY <1>3, <1>6, <1>8 DEF OwnerOf
  <1>10. pos \in Nat
    BY <1>2 DEF TypeOK
  <1>11. CASE found \in charges
    <2>1. IsCharged(trace, pos, charges, buffer)
      BY <1>2, Said
    <2>2. PICK q \in Rules, i \in 1..pos :
             found = [rule |-> q, at |-> i, turn |-> OwnerOf(trace, i, pos)]
      BY <1>10, <1>11, <2>1, ChargedByEntry
    <2>3. found.at = i /\ found.turn = OwnerOf(trace, i, pos)
      BY <2>2
    <2> QED
      BY <1>1, <1>9, <2>3
  <1>12. CASE found \in reasons
    <2>1. IsBilled(trace, pos, reasons, waiting)
      BY <1>2, Said
    <2>2. PICK i \in 1..pos : found = [at |-> i, turn |-> OwnerOf(trace, i, pos)]
      BY <1>12, <2>1 DEF IsBilled
    <2>3. found.at = i /\ found.turn = OwnerOf(trace, i, pos)
      BY <2>2
    <2> QED
      BY <1>1, <1>9, <2>3
  <1> QED
    BY <1>1, <1>11, <1>12

LEMMA SessionAlways == SessionSpec => []SessionInv
  <1>1. SessionInv /\ [SessionNext]_allVars => SessionInv'
    <2> SUFFICES ASSUME SessionInv, [SessionNext]_allVars
                 PROVE  SessionInv'
      OBVIOUS
    <2>1. CASE SessionNext
      BY <2>1, SessionStep
    <2>2. CASE UNCHANGED allVars
      <3>1. UNCHANGED <<trace, pos, reasons, waiting, charges, buffer, tokens, current,
                        notables, declared, odd, phase, transcript, reported>>
        BY <2>2 DEF allVars, vars, sessionVars
      <3>2. Fresh => Fresh'
        BY <3>1 DEF Fresh
      <3>3. WalkInv'
        <4>1. WellFormed(trace)' /\ TypeOK' /\ WarnedInOrder'
          BY <3>1 DEF SessionInv, WalkInv, WellFormed, TypeOK, WarnedInOrder
        <4>2. ChargedToOwner' /\ BilledToOwner' /\ FirstUsageCounts'
          BY <3>1, Said, UsedSaid DEF SessionInv, WalkInv
        <4> QED
          BY <4>1, <4>2 DEF WalkInv
      <3>4. Reported => Reported'
        BY <3>1 DEF Reported, OncePerTurn
      <3> QED
        BY <3>1, <3>2, <3>3, <3>4 DEF SessionInv
    <2> QED
      BY <2>1, <2>2
  <1> QED
    BY <1>1, SessionInitSound, PTL DEF SessionSpec

-----------------------------------------------------------------------------
(***************************************************************************)
(* Sums over finite sets, as the library folds them.                       *)
(***************************************************************************)
LEMMA BySize ==
  ASSUME NEW U, IsFiniteSet(U), NEW P,
         \A s \in SUBSET U : (\A x \in s : s \ {x} \in P) => s \in P
  PROVE  \A s \in SUBSET U : s \in P
  <1> DEFINE S == {n \in Nat : \A s \in SUBSET U : Cardinality(s) = n => s \in P}
             m == Cardinality(U)
  <1>1. m \in Nat
    BY FS_CardinalityType
  <1>2. \A s \in SUBSET U : IsFiniteSet(s) /\ Cardinality(s) \in 0..m
    BY <1>1, FS_Subset, FS_CardinalityType
  <1>3. 0 \in S
    <2>1. ASSUME NEW s \in SUBSET U, Cardinality(s) = 0 PROVE s \in P
      <3>1. s = {}
        BY <1>2, <2>1, FS_EmptySet
      <3> QED
        BY <3>1
    <2> QED
      BY <2>1
  <1>4. ASSUME NEW n \in 0..m, n < m, n \in S
        PROVE  n + 1 \in S
    <2>1. ASSUME NEW s \in SUBSET U, Cardinality(s) = n + 1 PROVE s \in P
      <3>1. ASSUME NEW x \in s PROVE s \ {x} \in P
        <4>1. Cardinality(s \ {x}) = n
          BY <1>2, <1>4, <2>1, FS_RemoveElement
        <4> QED
          BY <1>4, <4>1
      <3> QED
        BY <3>1
    <2> QED
      BY <2>1
  <1> HIDE DEF S, m
  <1>5. \A n \in 0..m : n \in S
    BY <1>1, <1>3, <1>4, UpTo
  <1> QED
    BY <1>2, <1>5 DEF S

Pick(s) == CHOOSE x \in s : TRUE

IsSum(f, w, S) ==
  f = [s \in SUBSET S |-> IF s = {} THEN 0 ELSE w[Pick(s)] + f[s \ {Pick(s)}]]

Small(S, n) == {s \in SUBSET S : Cardinality(s) <= n}

IsSumTo(f, w, S, n) ==
  f = [s \in Small(S, n) |-> IF s = {} THEN 0 ELSE w[Pick(s)] + f[s \ {Pick(s)}]]

LEMMA PickIn == \A s : s # {} => Pick(s) \in s
  BY DEF Pick

LEMMA SumExists ==
  ASSUME NEW S, IsFiniteSet(S), NEW w
  PROVE  \E f : IsSum(f, w, S)
  <1> DEFINE T == {n \in Nat : \E f : IsSumTo(f, w, S, n)}
             m == Cardinality(S)
  <1>1. m \in Nat
    BY FS_CardinalityType
  <1>2. \A s \in SUBSET S : IsFiniteSet(s) /\ Cardinality(s) \in 0..m
    BY <1>1, FS_Subset, FS_CardinalityType
  <1>3. 0 \in T
    <2>1. \A s \in Small(S, 0) : s = {}
      BY <1>2, FS_EmptySet DEF Small
    <2>2. IsSumTo([s \in Small(S, 0) |-> 0], w, S, 0)
      BY <2>1 DEF IsSumTo
    <2> QED
      BY <2>2
  <1>4. ASSUME NEW n \in 0..m, n < m, n \in T
        PROVE  n + 1 \in T
    <2>1. PICK f : IsSumTo(f, w, S, n)
      BY <1>4
    <2> DEFINE g == [s \in Small(S, n + 1) |->
                       IF s = {} THEN 0 ELSE w[Pick(s)] + f[s \ {Pick(s)}]]
    <2>2. \A s \in Small(S, n) : f[s] = IF s = {} THEN 0 ELSE w[Pick(s)] + f[s \ {Pick(s)}]
      BY <2>1 DEF IsSumTo
    <2>3. Small(S, n) \subseteq Small(S, n + 1)
      BY <1>2 DEF Small
    <2>4. \A s \in Small(S, n) : g[s] = f[s]
      BY <2>2, <2>3
    <2>5. \A s \in Small(S, n + 1) : s # {} => s \ {Pick(s)} \in Small(S, n)
      <3>1. SUFFICES ASSUME NEW s \in Small(S, n + 1), s # {} PROVE s \ {Pick(s)} \in Small(S, n)
        OBVIOUS
      <3>2. s \in SUBSET S /\ Cardinality(s) <= n + 1 /\ IsFiniteSet(s) /\ Cardinality(s) \in Nat
        BY <1>2 DEF Small
      <3>3. Pick(s) \in s
        BY <3>1, PickIn
      <3>4. Cardinality(s \ {Pick(s)}) = Cardinality(s) - 1
        BY <3>2, <3>3, FS_RemoveElement
      <3>5. Cardinality(s \ {Pick(s)}) <= n
        BY <1>1, <3>2, <3>4
      <3> QED
        BY <3>2, <3>5 DEF Small
    <2>6. g = [s \in Small(S, n + 1) |-> IF s = {} THEN 0 ELSE w[Pick(s)] + g[s \ {Pick(s)}]]
      <3>1. \A s \in Small(S, n + 1) : g[s] = IF s = {} THEN 0 ELSE w[Pick(s)] + f[s \ {Pick(s)}]
        OBVIOUS
      <3>2. g = [s \in Small(S, n + 1) |-> g[s]]
        OBVIOUS
      <3> HIDE DEF g
      <3> QED
        BY <2>4, <2>5, <3>1, <3>2
    <2> HIDE DEF g
    <2> QED
      BY <2>6 DEF IsSumTo
  <1> HIDE DEF T
  <1>5. m \in T
    <2>1. m \in 0..m /\ 0 \in 0..m
      BY <1>1
    <2> HIDE DEF m
    <2>2. \A n \in 0..m : n \in T
      BY <1>1, <1>3, <1>4, UpTo
    <2> QED
      BY <2>1, <2>2
  <1>6. Small(S, m) = SUBSET S
    BY <1>2 DEF Small
  <1> QED
    BY <1>5, <1>6 DEF T, IsSumTo, IsSum

LEMMA SumIs ==
  ASSUME NEW f, NEW w, NEW S, IsSum(f, w, S)
  PROVE  \A s \in SUBSET S : f[s] = IF s = {} THEN 0 ELSE w[Pick(s)] + f[s \ {Pick(s)}]
  BY DEF IsSum

\* Two sums with the same weights agree.
LEMMA SumsAgree ==
  ASSUME NEW U, IsFiniteSet(U), NEW S, NEW w, NEW v, NEW f, NEW g, U \subseteq S,
         IsSum(f, w, U), IsSum(g, v, S), \A x \in U : w[x] = v[x]
  PROVE  \A s \in SUBSET U : f[s] = g[s]
  <1> DEFINE P == {s \in SUBSET U : f[s] = g[s]}
  <1>1. ASSUME NEW s \in SUBSET U, \A x \in s : s \ {x} \in P
        PROVE  s \in P
    <2>1. CASE s = {}
      <3>1. f[s] = 0 /\ g[s] = 0
        BY <2>1, SumIs
      <3> QED
        BY <3>1
    <2>2. CASE s # {}
      <3>1. Pick(s) \in s /\ Pick(s) \in U
        BY <2>2, PickIn
      <3>2. f[s \ {Pick(s)}] = g[s \ {Pick(s)}]
        BY <1>1, <3>1
      <3>3. f[s] = w[Pick(s)] + f[s \ {Pick(s)}] /\ g[s] = v[Pick(s)] + g[s \ {Pick(s)}]
        BY <2>2, SumIs
      <3>4. w[Pick(s)] = v[Pick(s)]
        BY <3>1
      <3> QED
        BY <3>2, <3>3, <3>4
    <2> QED
      BY <2>1, <2>2
  <1> HIDE DEF P
  <1>2. \A s \in SUBSET U : s \in P
    BY <1>1, BySize
  <1> QED
    BY <1>2 DEF P

LEMMA SumType ==
  ASSUME NEW U, IsFiniteSet(U), NEW w \in [U -> Nat], NEW f, IsSum(f, w, U)
  PROVE  \A s \in SUBSET U : f[s] \in Nat
  <1> DEFINE P == {s \in SUBSET U : f[s] \in Nat}
  <1>1. ASSUME NEW s \in SUBSET U, \A x \in s : s \ {x} \in P
        PROVE  s \in P
    <2>1. f[s] = IF s = {} THEN 0 ELSE w[Pick(s)] + f[s \ {Pick(s)}]
      BY SumIs
    <2>2. s # {} => w[Pick(s)] \in Nat /\ f[s \ {Pick(s)}] \in Nat
      BY <1>1, PickIn
    <2> QED
      BY <2>1, <2>2
  <1> HIDE DEF P
  <1>2. \A s \in SUBSET U : s \in P
    BY <1>1, BySize
  <1> QED
    BY <1>2 DEF P

\* The order of the fold does not matter.
LEMMA SumTakes ==
  ASSUME NEW U, IsFiniteSet(U), NEW w \in [U -> Nat], NEW f, IsSum(f, w, U)
  PROVE  \A s \in SUBSET U : \A x \in s : f[s] = w[x] + f[s \ {x}]
  <1> DEFINE P == {s \in SUBSET U : \A x \in s : f[s] = w[x] + f[s \ {x}]}
  <1>0. \A s \in SUBSET U : f[s] \in Nat
    BY SumType
  <1>1. ASSUME NEW s \in SUBSET U, \A x \in s : s \ {x} \in P
        PROVE  s \in P
    <2>1. SUFFICES ASSUME NEW x \in s PROVE f[s] = w[x] + f[s \ {x}]
      OBVIOUS
    <2> DEFINE c == Pick(s)
    <2>2. c \in s
      BY PickIn
    <2>3. f[s] = w[c] + f[s \ {c}]
      BY <2>1, SumIs
    <2> HIDE DEF c
    <2>4. CASE x = c
      BY <2>3, <2>4
    <2>5. CASE x # c
      <3>1. /\ f[s \ {c}] = w[x] + f[(s \ {c}) \ {x}]
            /\ f[s \ {x}] = w[c] + f[(s \ {x}) \ {c}]
        <4>1. x \in s \ {c} /\ c \in s \ {x}
          BY <2>2, <2>5
        <4>2. s \ {c} \in P /\ s \ {x} \in P
          BY <1>1, <2>2
        <4> QED
          BY <4>1, <4>2
      <3>2. (s \ {c}) \ {x} = (s \ {x}) \ {c}
        OBVIOUS
      <3>3. f[(s \ {x}) \ {c}] \in Nat /\ w[x] \in Nat /\ w[c] \in Nat
        BY <1>0, <2>2
      <3> DEFINE a == f[(s \ {x}) \ {c}]
      <3>4. f[s \ {c}] = w[x] + a /\ f[s \ {x}] = w[c] + a
        BY <3>1, <3>2
      <3>5. a \in Nat
        BY <3>3
      <3> HIDE DEF P, a
      <3> QED
        BY <2>3, <3>3, <3>4, <3>5
    <2> QED
      BY <2>4, <2>5
  <1> HIDE DEF P
  <1>2. \A s \in SUBSET U : s \in P
    BY <1>1, BySize
  <1> QED
    BY <1>2 DEF P

LEMMA SumSplits ==
  ASSUME NEW U, IsFiniteSet(U), NEW w \in [U -> Nat], NEW f, IsSum(f, w, U), NEW t \in SUBSET U
  PROVE  \A s \in SUBSET U : s \cap t = {} => f[s \cup t] = f[s] + f[t]
  <1> DEFINE P == {s \in SUBSET U : s \cap t = {} => f[s \cup t] = f[s] + f[t]}
  <1>0. /\ \A s \in SUBSET U : f[s] \in Nat
        /\ \A s \in SUBSET U : \A x \in s : f[s] = w[x] + f[s \ {x}]
    BY SumType, SumTakes
  <1>1. ASSUME NEW s \in SUBSET U, \A x \in s : s \ {x} \in P
        PROVE  s \in P
    <2>1. SUFFICES ASSUME s \cap t = {} PROVE f[s \cup t] = f[s] + f[t]
      OBVIOUS
    <2>2. CASE s = {}
      <3>1. f[s] = 0 /\ s \cup t = t /\ f[t] \in Nat
        BY <1>0, <2>2, SumIs
      <3> QED
        BY <3>1
    <2>3. CASE s # {}
      <3>1. PICK x \in s : TRUE
        BY <2>3
      <3>2. f[(s \ {x}) \cup t] = f[s \ {x}] + f[t]
        BY <1>1, <2>1, <3>1
      <3>3. (s \cup t) \ {x} = (s \ {x}) \cup t /\ x \in s \cup t /\ s \cup t \in SUBSET U
        BY <2>1, <3>1
      <3>4. f[s \cup t] = w[x] + f[(s \ {x}) \cup t] /\ f[s] = w[x] + f[s \ {x}]
        BY <1>0, <3>3
      <3>5. w[x] \in Nat /\ f[s \ {x}] \in Nat /\ f[t] \in Nat
        BY <1>0
      <3> HIDE DEF P
      <3> QED
        BY <3>2, <3>4, <3>5
    <2> QED
      BY <2>2, <2>3
  <1> HIDE DEF P
  <1>2. \A s \in SUBSET U : s \in P
    BY <1>1, BySize
  <1> QED
    BY <1>2 DEF P

LEMMA SumGrows ==
  ASSUME NEW U, IsFiniteSet(U), NEW w \in [U -> Nat], NEW f, IsSum(f, w, U),
         NEW t \in SUBSET U, NEW s \in SUBSET t
  PROVE  f[s] \in Nat /\ f[t] \in Nat /\ f[s] <= f[t]
  <1>1. s \in SUBSET U /\ t \ s \in SUBSET U /\ (t \ s) \cap s = {} /\ (t \ s) \cup s = t
    OBVIOUS
  <1>2. f[(t \ s) \cup s] = f[t \ s] + f[s]
    BY <1>1, SumSplits
  <1>3. f[s] \in Nat /\ f[t \ s] \in Nat /\ f[t] \in Nat
    BY <1>1, SumType
  <1> QED
    BY <1>1, <1>2, <1>3

LEMMA SumOfNothing ==
  ASSUME NEW U, IsFiniteSet(U), NEW w, NEW f, IsSum(f, w, U)
  PROVE  \A s \in SUBSET U : (\A x \in s : w[x] = 0) => f[s] = 0
  <1> DEFINE P == {s \in SUBSET U : (\A x \in s : w[x] = 0) => f[s] = 0}
  <1>1. ASSUME NEW s \in SUBSET U, \A x \in s : s \ {x} \in P
        PROVE  s \in P
    <2>1. SUFFICES ASSUME \A x \in s : w[x] = 0 PROVE f[s] = 0
      OBVIOUS
    <2>2. f[s] = IF s = {} THEN 0 ELSE w[Pick(s)] + f[s \ {Pick(s)}]
      BY SumIs
    <2>3. s # {} => w[Pick(s)] = 0 /\ f[s \ {Pick(s)}] = 0
      BY <1>1, <2>1, PickIn
    <2> QED
      BY <2>2, <2>3
  <1> HIDE DEF P
  <1>2. \A s \in SUBSET U : s \in P
    BY <1>1, BySize
  <1> QED
    BY <1>2 DEF P

\* What a union weighs is at most what its parts weigh together.
LEMMA SumCovers ==
  ASSUME NEW U, IsFiniteSet(U), NEW w \in [U -> Nat], NEW f, IsSum(f, w, U),
         NEW R, IsFiniteSet(R), NEW T \in [R -> SUBSET U],
         NEW c \in [R -> Nat], NEW g, IsSum(g, c, R), \A r \in R : c[r] = f[T[r]]
  PROVE  \A q \in SUBSET R : f[UNION {T[r] : r \in q}] <= g[q]
  <1> DEFINE W(q) == UNION {T[r] : r \in q}
             P == {q \in SUBSET R : f[W(q)] <= g[q]}
  <1>0. /\ \A q \in SUBSET R : g[q] \in Nat
        /\ \A q \in SUBSET R : \A x \in q : g[q] = c[x] + g[q \ {x}]
        /\ \A s \in SUBSET U : f[s] \in Nat
    BY SumType, SumTakes
  <1>a. W({}) = {} /\ \A q \in SUBSET R : W(q) \in SUBSET U
    OBVIOUS
  <1>b. \A q \in SUBSET R : \A x \in q : W(q) = W(q \ {x}) \cup T[x]
    OBVIOUS
  <1> HIDE DEF W
  <1>1. ASSUME NEW q \in SUBSET R, \A x \in q : q \ {x} \in P
        PROVE  q \in P
    <2>1. CASE q = {}
      <3>1. f[{}] = 0 /\ g[q] = 0 /\ W(q) = {}
        BY <1>a, <2>1, SumIs
      <3>2. f[W(q)] = 0
        BY <3>1
      <3>3. f[W(q)] <= g[q]
        BY <3>1, <3>2
      <3> QED
        BY <3>3 DEF P
    <2>2. CASE q # {}
      <3>1. PICK x \in q : TRUE
        BY <2>2
      <3>2. f[W(q \ {x})] <= g[q \ {x}]
        BY <1>1, <3>1
      <3> DEFINE A == W(q \ {x})
                 B == T[x] \ A
      <3>3. A \in SUBSET U /\ B \in SUBSET T[x] /\ T[x] \in SUBSET U
        BY <1>a
      <3>4. B \cup A = W(q) /\ B \cap A = {} /\ B \in SUBSET U
        BY <1>b, <3>3
      <3> HIDE DEF A, B, P
      <3>5. f[B \cup A] = f[B] + f[A]
        <4>1. \A s \in SUBSET U : s \cap A = {} => f[s \cup A] = f[s] + f[A]
          BY <3>3, SumSplits
        <4> QED
          BY <3>4, <4>1
      <3>6. f[B] <= f[T[x]]
        BY <3>3, SumGrows
      <3>7. g[q] = c[x] + g[q \ {x}] /\ c[x] = f[T[x]]
        BY <1>0, <3>1
      <3>8. f[A] \in Nat /\ f[B] \in Nat /\ f[T[x]] \in Nat /\ g[q \ {x}] \in Nat
        BY <1>0, <3>3, <3>4
      <3>9. f[A] <= g[q \ {x}] /\ f[W(q)] = f[B] + f[A]
        BY <3>2, <3>4, <3>5 DEF A
      <3>10. f[W(q)] <= g[q]
        <4> DEFINE a == f[A]
                   b == f[B]
                   t == f[T[x]]
                   r == g[q \ {x}]
        <4>1. a \in Nat /\ b \in Nat /\ t \in Nat /\ r \in Nat
          BY <3>8
        <4>2. a <= r /\ b <= t /\ f[W(q)] = b + a /\ g[q] = t + r
          BY <3>6, <3>7, <3>9
        <4> HIDE DEF a, b, t, r
        <4> QED
          BY <4>1, <4>2
      <3> QED
        BY <3>10 DEF P
    <2> QED
      BY <2>1, <2>2
  <1> HIDE DEF P
  <1>2. \A q \in SUBSET R : q \in P
    BY <1>1, BySize
  <1> QED
    BY <1>2 DEF P, W

-----------------------------------------------------------------------------
(***************************************************************************)
(* The bills of a report as sums over the turns of its trace.              *)
(***************************************************************************)
SumOf(w, S) == (CHOOSE f : IsSum(f, w, S))[S]

LEMMA SumOfIs ==
  ASSUME NEW S, IsFiniteSet(S), NEW w
  PROVE  \E f : IsSum(f, w, S) /\ SumOf(w, S) = f[S]
  <1> DEFINE f == CHOOSE f : IsSum(f, w, S)
  <1>1. IsSum(f, w, S)
    BY SumExists
  <1>2. SumOf(w, S) = f[S]
    BY DEF SumOf
  <1> QED
    BY <1>1, <1>2

IsTotals(f, S) ==
  f = [s \in SUBSET S |-> IF s = {} THEN 0 ELSE Total(Pick(s)) + f[s \ {Pick(s)}]]

IsCosts(f, S) ==
  f = [s \in SUBSET S |-> IF s = {} THEN 0 ELSE CostOf(Pick(s)) + f[s \ {Pick(s)}]]

\* The library's sums, unfolded.
LEMMA Unfolded ==
  /\ \A t : Total(t) = SumOf(tokens[t], DOMAIN tokens[t])
  /\ \A S : TotalOf(S) = (CHOOSE f : IsTotals(f, S))[S]
  /\ MapThenSumSet(CostOf, Rules) = (CHOOSE f : IsCosts(f, Rules))[Rules]
  <1>1. \A t : Total(t) = SumOf(tokens[t], DOMAIN tokens[t])
    BY DEF Total, MapThenSumSet, MapThenFoldSet, SumOf, IsSum, Pick
  <1>2. \A S : TotalOf(S) = (CHOOSE f : IsTotals(f, S))[S]
    BY DEF TotalOf, MapThenSumSet, MapThenFoldSet, IsTotals, Pick
  <1>3. MapThenSumSet(CostOf, Rules) = (CHOOSE f : IsCosts(f, Rules))[Rules]
    BY DEF MapThenSumSet, MapThenFoldSet, IsCosts, Pick
  <1> QED
    BY <1>1, <1>2, <1>3

LEMMA TotalType ==
  ASSUME TypeOK, NEW t \in Turns
  PROVE  Total(t) \in Nat /\ (tokens[t] = NoUsage => Total(t) = 0)
  <1> DEFINE w == tokens[t]
             D == DOMAIN w
  <1>1. w \in Usage
    BY DEF TypeOK
  <1>2. PICK F \in SUBSET Fields : w \in [F -> Amounts]
    BY <1>1 DEF Usage
  <1>3. D = F /\ IsFiniteSet(D) /\ w \in [D -> Nat]
    <2>1. D = F
      BY <1>2
    <2>2. IsFiniteSet(F)
      BY FS_Subset, WalkAssumption
    <2>3. w \in [F -> Nat]
      BY <1>2, WalkAssumption
    <2> QED
      BY <2>1, <2>2, <2>3
  <1>4. Total(t) = SumOf(w, D)
    BY Unfolded
  <1>5. w = NoUsage => D = {}
    BY DEF NoUsage
  <1> HIDE DEF w, D
  <1>6. PICK f : IsSum(f, w, D) /\ SumOf(w, D) = f[D]
    BY <1>3, SumOfIs
  <1>7. f[D] \in Nat
    BY <1>3, <1>6, SumType
  <1>8. D = {} => f[D] = 0
    BY <1>6, SumIs
  <1> QED
    BY <1>4, <1>5, <1>6, <1>7, <1>8 DEF w

TracedTurns == {trace[j].turn : j \in DOMAIN trace} \ {NoTurn}

LEMMA TracedTurnsFinite ==
  ASSUME WellFormed(trace)
  PROVE  IsFiniteSet(TracedTurns) /\ TracedTurns \subseteq Turns
  <1>1. DOMAIN trace = 1..Len(trace) /\ Len(trace) \in Nat
    BY DEF WellFormed
  <1>2. IsFiniteSet(DOMAIN trace)
    BY <1>1, FS_Interval
  <1> DEFINE T == {trace[j].turn : j \in DOMAIN trace}
  <1>3. IsFiniteSet(T)
    <2> DEFINE f == [j \in DOMAIN trace |-> trace[j].turn]
    <2>1. f \in [DOMAIN trace -> T]
      OBVIOUS
    <2>2. \A y \in T : \E x \in DOMAIN trace : f[x] = y
      OBVIOUS
    <2>3. f \in Surjection(DOMAIN trace, T)
      BY <2>1, <2>2 DEF Surjection
    <2> HIDE DEF f, T
    <2> QED
      BY <1>2, <2>3, FS_Surjection
  <1>4. TracedTurns \subseteq T
    BY DEF TracedTurns
  <1>5. TracedTurns \subseteq Turns
    <2>1. \A j \in DOMAIN trace : trace[j].turn \in Turns \cup {NoTurn}
      BY EventType
    <2> QED
      BY <2>1 DEF TracedTurns
  <1> HIDE DEF T
  <1> QED
    BY <1>3, <1>4, <1>5, FS_Subset

LEMMA OwnersTraced ==
  ASSUME WellFormed(trace), NEW n \in 0..Len(trace), NEW j \in 1..n
  PROVE  OwnerOf(trace, j, n) \in TracedTurns \cup {NoTurn}
  <1>1. DOMAIN trace = 1..Len(trace) /\ Len(trace) \in Nat /\ n \in Nat /\ j \in DOMAIN trace
    BY DEF WellFormed
  <1>2. \A i \in DOMAIN trace : trace[i].turn \in TracedTurns \cup {NoTurn}
    BY DEF TracedTurns
  <1>3. ASSUME NEW u PROVE JoinOf(trace, u) \in TracedTurns \cup {NoTurn}
    <2>1. CASE Listers(trace, u) = {}
      BY <2>1 DEF JoinOf
    <2>2. CASE Listers(trace, u) # {}
      <3>1. Listers(trace, u) \in SUBSET Nat /\ Listers(trace, u) \subseteq DOMAIN trace
        BY <1>1 DEF Listers
      <3> DEFINE l == CHOOSE l \in Listers(trace, u) : \A k \in Listers(trace, u) : l <= k
      <3>2. l \in DOMAIN trace
        BY <2>2, <3>1, Least
      <3> HIDE DEF l
      <3> QED
        BY <1>2, <3>2 DEF JoinOf, l
    <2> QED
      BY <2>1, <2>2
  <1>4. CASE trace[j].turn # NoTurn
    BY <1>1, <1>2, <1>4 DEF OwnerOf
  <1>5. CASE trace[j].turn = NoTurn /\ JoinOf(trace, trace[j].use) # NoTurn
    <2>1. OwnerOf(trace, j, n) = JoinOf(trace, trace[j].use)
      BY <1>5 DEF OwnerOf
    <2> QED
      BY <1>3, <2>1
  <1>6. CASE trace[j].turn = NoTurn /\ JoinOf(trace, trace[j].use) = NoTurn /\ Later(trace, j, n) # {}
    <2>1. Later(trace, j, n) \in SUBSET Nat /\ Later(trace, j, n) \subseteq DOMAIN trace
      BY <1>1 DEF Later
    <2> DEFINE k == CHOOSE k \in Later(trace, j, n) : \A l \in Later(trace, j, n) : k <= l
    <2>2. k \in DOMAIN trace
      BY <1>6, <2>1, Least
    <2>3. OwnerOf(trace, j, n) = trace[k].turn
      BY <1>6 DEF OwnerOf
    <2> HIDE DEF k
    <2> QED
      BY <1>2, <2>2, <2>3
  <1>7. CASE trace[j].turn = NoTurn /\ JoinOf(trace, trace[j].use) = NoTurn /\ Later(trace, j, n) = {}
    BY <1>7 DEF OwnerOf
  <1> QED
    BY <1>4, <1>5, <1>6, <1>7

\* One function gives every total of a report.
LEMMA Totals ==
  ASSUME TypeOK, WellFormed(trace), NEW w, w = [t \in TracedTurns |-> Total(t)]
  PROVE  \E F : /\ IsSum(F, w, TracedTurns)
                /\ \A S \in SUBSET TracedTurns : TotalOf(S) = F[S]
  <1>1. IsFiniteSet(TracedTurns)
    BY TracedTurnsFinite
  <1>2. PICK F : IsSum(F, w, TracedTurns)
    BY <1>1, SumExists
  <1>3. ASSUME NEW S \in SUBSET TracedTurns
        PROVE  TotalOf(S) = F[S]
    <2>1. IsFiniteSet(S)
      BY <1>1, FS_Subset
    <2>2. \A s \in SUBSET S : s # {} => w[Pick(s)] = Total(Pick(s))
      BY PickIn
    <2>3. \A f : IsTotals(f, S) <=> IsSum(f, w, S)
      BY <2>2 DEF IsTotals, IsSum
    <2> DEFINE f == CHOOSE f : IsTotals(f, S)
    <2>4. IsTotals(f, S)
      <3>1. \E g : IsTotals(g, S)
        BY <2>1, <2>3, SumExists
      <3> QED
        BY <3>1
    <2>5. TotalOf(S) = f[S]
      BY Unfolded
    <2> HIDE DEF f
    <2>6. IsSum(f, w, S)
      BY <2>3, <2>4
    <2>7. \A s \in SUBSET S : f[s] = F[s]
      BY <1>2, <2>1, <2>6, SumsAgree
    <2> QED
      BY <2>5, <2>7
  <1> QED
    BY <1>2, <1>3

LEMMA RuleCosts ==
  ASSUME NEW c, c = [r \in Rules |-> CostOf(r)]
  PROVE  \E g : IsSum(g, c, Rules) /\ MapThenSumSet(CostOf, Rules) = g[Rules]
  <1>1. IsFiniteSet(Rules)
    BY WalkAssumption
  <1>2. \A s \in SUBSET Rules : s # {} => c[Pick(s)] = CostOf(Pick(s))
    BY PickIn
  <1>3. \A f : IsCosts(f, Rules) <=> IsSum(f, c, Rules)
    BY <1>2 DEF IsCosts, IsSum
  <1> DEFINE f == CHOOSE f : IsCosts(f, Rules)
  <1>4. IsCosts(f, Rules)
    <2>1. \E g : IsCosts(g, Rules)
      BY <1>1, <1>3, SumExists
    <2> QED
      BY <2>1
  <1>5. MapThenSumSet(CostOf, Rules) = f[Rules]
    BY Unfolded
  <1> HIDE DEF f
  <1> QED
    BY <1>3, <1>4, <1>5

LEMMA AddsUp ==
  ASSUME WalkInv
  PROVE  BillsAddUp
  <1> DEFINE U == TracedTurns
             w == [t \in U |-> Total(t)]
  <1>1. /\ TypeOK /\ WellFormed(trace) /\ FirstUsageCounts
        /\ IsCharged(trace, pos, charges, buffer) /\ IsBilled(trace, pos, reasons, waiting)
    BY Said DEF WalkInv
  <1>2. IsFiniteSet(U) /\ U \subseteq Turns
    BY <1>1, TracedTurnsFinite
  <1>3. w \in [U -> Nat]
    BY <1>1, <1>2, TotalType
  <1>4. PICK F : IsSum(F, w, U) /\ \A S \in SUBSET U : TotalOf(S) = F[S]
    BY <1>1, Totals
  <1>5. pos \in 0..Len(trace) /\ pos \in Nat /\ DOMAIN trace = 1..Len(trace) /\ Len(trace) \in Nat
    BY <1>1 DEF TypeOK, WellFormed
  <1>6. Rows \in SUBSET U
    BY <1>5 DEF Rows, TracedTurns
  <1>7. \A c \in charges :
          /\ c.turn \in U /\ c.rule \in Rules
          /\ \E j \in 1..pos : c.at = j /\ c.rule \in trace[j].rules /\ c.turn = OwnerOf(trace, j, pos)
    <2>1. SUFFICES ASSUME NEW c \in charges
                   PROVE  /\ c.turn \in U /\ c.rule \in Rules
                          /\ \E j \in 1..pos : /\ c.at = j /\ c.rule \in trace[j].rules
                                               /\ c.turn = OwnerOf(trace, j, pos)
      OBVIOUS
    <2> HIDE DEF U, w
    <2>0. \A d : d \in charges <=>
             \E r \in Rules, j \in 1..pos :
                /\ Breach(trace, pos, r, j) /\ OwnerOf(trace, j, pos) # NoTurn
                /\ d = [rule |-> r, at |-> j, turn |-> OwnerOf(trace, j, pos)]
      BY <1>1, <1>5, ChargedByEntry
    <2>2. PICK r \in Rules, j \in 1..pos :
             /\ Breach(trace, pos, r, j) /\ OwnerOf(trace, j, pos) # NoTurn
             /\ c = [rule |-> r, at |-> j, turn |-> OwnerOf(trace, j, pos)]
      BY <2>0
    <2>3. c.rule = r /\ c.at = j /\ c.turn = OwnerOf(trace, j, pos)
      BY <2>2
    <2>4. OwnerOf(trace, j, pos) \in U
      BY <1>1, <1>5, <2>2, OwnersTraced DEF U
    <2> QED
      BY <2>2, <2>3, <2>4 DEF Breach
  <1>8. \A j \in 1..pos :
           trace[j].type = "SCOPE" /\ Flagged(trace[j]) /\ OwnerOf(trace, j, pos) # NoTurn
             => [at |-> j, turn |-> OwnerOf(trace, j, pos)] \in reasons
    BY <1>1 DEF IsBilled
  <1>9. \A f \in reasons : f.turn \in U
    <2>1. SUFFICES ASSUME NEW f \in reasons PROVE f.turn \in U
      OBVIOUS
    <2>2. PICK j \in 1..pos : /\ OwnerOf(trace, j, pos) # NoTurn
                              /\ f = [at |-> j, turn |-> OwnerOf(trace, j, pos)]
      BY <1>1 DEF IsBilled
    <2>3. OwnerOf(trace, j, pos) \in U
      BY <1>1, <1>5, <2>2, OwnersTraced
    <2> QED
      BY <2>2, <2>3
  <1>10. UndeclaredTurns \in SUBSET U /\ FiringTurns \in SUBSET U
    BY <1>7, <1>9 DEF UndeclaredTurns, FiringTurns
  <1>11. \A r : TurnsOf(r) \in SUBSET FiringTurns
    BY DEF TurnsOf, FiringTurns
  <1>12. FiringTurns = UNION {TurnsOf(r) : r \in Rules}
    BY <1>7 DEF TurnsOf, FiringTurns
  <1>13. \A t \in U \ Rows : w[t] = 0
    <2>1. SUFFICES ASSUME NEW t \in U, t \notin Rows PROVE Total(t) = 0
      OBVIOUS
    <2>2. t \in Turns /\ t # NoTurn
      BY <1>2, WalkAssumption
    <2>3. Sightings(t) = {}
      BY <2>1, <2>2 DEF Sightings, Rows
    <2>4. tokens[t] = NoUsage
      BY <1>1, <2>2, <2>3 DEF FirstUsageCounts
    <2> QED
      BY <1>1, <2>2, <2>4, TotalType
  <1> HIDE DEF U, w
  <1>14. ASSUME NEW S \in SUBSET U
         PROVE  F[S] = F[S \cap Rows] /\ F[S] \in Nat /\ F[S] <= F[Rows] /\ F[Rows] \in Nat
    <2> DEFINE A == S \ Rows
               B == S \cap Rows
    <2>1. A \in SUBSET U /\ B \in SUBSET U /\ A \cap B = {} /\ A \cup B = S
          /\ B \in SUBSET Rows /\ \A t \in A : t \in U \ Rows
      BY <1>14
    <2> HIDE DEF A
    <2>2. F[A] = 0
      BY <1>2, <1>4, <1>13, <2>1, SumOfNothing
    <2>3. B \in SUBSET U /\ B \in SUBSET Rows
      BY <2>1
    <2> HIDE DEF B
    <2>4. F[A \cup B] = F[A] + F[B]
      <3>1. \A s \in SUBSET U : s \cap B = {} => F[s \cup B] = F[s] + F[B]
        BY <1>2, <1>3, <1>4, <2>3, SumSplits
      <3> QED
        BY <2>1, <3>1
    <2>5. F[B] \in Nat /\ F[Rows] \in Nat /\ F[B] <= F[Rows]
      BY <1>2, <1>3, <1>4, <1>6, <2>3, SumGrows
    <2>6. F[S] = F[B]
      BY <2>1, <2>2, <2>4, <2>5
    <2> QED
      BY <2>5, <2>6 DEF B
  <1>15. UndeclaredTokens + DeclaredTokens = TotalTokens
    <2> DEFINE A == Rows \cap UndeclaredTurns
               B == Rows \ UndeclaredTurns
    <2>1. A \in SUBSET U /\ B \in SUBSET U /\ A \cap B = {} /\ A \cup B = Rows
      BY <1>6
    <2>2. A = UndeclaredTurns \cap Rows
      OBVIOUS
    <2>3. DeclaredTokens = F[B] /\ TotalTokens = F[Rows] /\ UndeclaredTokens = F[UndeclaredTurns]
      BY <1>4, <1>6, <1>10, <2>1 DEF DeclaredTokens, TotalTokens, UndeclaredTokens
    <2> HIDE DEF A, B
    <2>4. F[A \cup B] = F[A] + F[B]
      BY <1>2, <1>3, <1>4, <2>1, SumSplits
    <2>5. F[UndeclaredTurns] = F[A]
      BY <1>10, <1>14, <2>2
    <2> QED
      BY <2>1, <2>3, <2>4, <2>5
  <1>16. AssociatedTokens <= TotalTokens
    BY <1>4, <1>6, <1>10, <1>14 DEF AssociatedTokens, TotalTokens
  <1>17. \A r : CostOf(r) = F[TurnsOf(r)] /\ CostOf(r) \in Nat /\ TurnsOf(r) \in SUBSET U
    BY <1>4, <1>10, <1>11, <1>14 DEF CostOf
  <1>18. ASSUME NEW r \in Rules PROVE CostOf(r) <= AssociatedTokens
    <2>1. F[TurnsOf(r)] <= F[FiringTurns]
      BY <1>2, <1>3, <1>4, <1>10, <1>11, SumGrows
    <2> QED
      BY <1>4, <1>10, <1>17, <2>1 DEF AssociatedTokens
  <1>19. AssociatedTokens <= MapThenSumSet(CostOf, Rules)
    <2> DEFINE c == [r \in Rules |-> CostOf(r)]
               T == [r \in Rules |-> TurnsOf(r)]
    <2>1. PICK g : IsSum(g, c, Rules) /\ MapThenSumSet(CostOf, Rules) = g[Rules]
      BY RuleCosts
    <2>2. /\ c \in [Rules -> Nat] /\ T \in [Rules -> SUBSET U]
          /\ \A r \in Rules : c[r] = F[T[r]]
      BY <1>17
    <2>3. UNION {T[r] : r \in Rules} = FiringTurns
      BY <1>12
    <2> HIDE DEF c, T
    <2>4. IsFiniteSet(Rules)
      BY WalkAssumption
    <2>5. \A q \in SUBSET Rules : F[UNION {T[r] : r \in q}] <= g[q]
      BY <1>2, <1>3, <1>4, <2>1, <2>2, <2>4, SumCovers
    <2>6. F[FiringTurns] <= g[Rules]
      BY <2>3, <2>5
    <2> QED
      BY <1>4, <1>10, <2>1, <2>6 DEF AssociatedTokens
  <1>20. ASSUME \A j \in DOMAIN trace : POL001 \in trace[j].rules => trace[j].type = "SCOPE"
         PROVE  CostOf(POL001) <= UndeclaredTokens
    <2>1. TurnsOf(POL001) \in SUBSET UndeclaredTurns
      <3>1. SUFFICES ASSUME NEW c \in charges, c.rule = POL001
                     PROVE  \E f \in reasons : f.turn = c.turn
        BY DEF TurnsOf, UndeclaredTurns
      <3>2. PICK j \in 1..pos : c.rule \in trace[j].rules /\ c.turn = OwnerOf(trace, j, pos)
        BY <1>7
      <3>3. c.turn # NoTurn
        BY <1>7 DEF U, TracedTurns
      <3>4. j \in DOMAIN trace
        BY <1>5
      <3>5. trace[j].type = "SCOPE" /\ Flagged(trace[j])
        BY <1>20, <3>1, <3>2, <3>4 DEF Flagged
      <3>6. [at |-> j, turn |-> OwnerOf(trace, j, pos)] \in reasons
        BY <1>8, <3>2, <3>3, <3>5
      <3> QED
        BY <3>2, <3>6
    <2>2. F[TurnsOf(POL001)] <= F[UndeclaredTurns]
      BY <1>2, <1>3, <1>4, <1>10, <2>1, SumGrows
    <2> QED
      BY <1>4, <1>10, <1>17, <2>2 DEF UndeclaredTokens
  <1> QED
    BY <1>15, <1>16, <1>18, <1>19, <1>20 DEF BillsAddUp
-----------------------------------------------------------------------------
(***************************************************************************)
(* THE THEOREMS                                                            *)
(***************************************************************************)
\* Both analyzers lay every finding on the one turn that owns it, whatever the
\* order of tools, turns and repeated snapshots (compute_policy_violation_burn_rate,
\* compute_undeclared_intent_spend).
THEOREM Charges == SessionSpec => []ChargedOnce
  <1>1. SessionInv => ChargedOnce
    BY DEF SessionInv, WalkInv, ChargedOnce
  <1> QED
    BY <1>1, SessionAlways, PTL

\* A pulse that says ok and shows violations hides none and doubts none
\* (_normalize_status, _merge_status).
THEOREM ShowsAll == SessionSpec => []OkIsWhole
  <1>1. SessionInv => OkIsWhole
    BY OkShowsAll DEF SessionInv, WalkInv
  <1> QED
    BY <1>1, SessionAlways, PTL

\* What pulse says of a turn, its tokens and its tool calls, is what the
\* transcript said, however SessionEnds cut it and lines are torn
\* (parse_transcript, _emit_session_end_token_batch).
THEOREM Transcribes == SessionSpec => []TurnsAsTranscribed
  <1>1. SessionInv => TurnsAsTranscribed
    BY BilledTruly, CallsTruly DEF TurnsAsTranscribed
  <1> QED
    BY <1>1, SessionAlways, PTL

\* A turn is billed its first populated snapshot, and the parts of a bill add
\* up to no more than was spent.
THEOREM Bills == SessionSpec => []BillsAreRight
  <1>1. SessionInv => BillsAreRight
    BY AddsUp DEF SessionInv, WalkInv, BillsAreRight
  <1> QED
    BY <1>1, SessionAlways, PTL
=============================================================================
