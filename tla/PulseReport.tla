----------------------------- MODULE PulseReport -----------------------------
(***************************************************************************)
(* What the two analyzers report once the trace is read, and what pulse    *)
(* makes of both: token totals per turn, per rule and per tool, and the    *)
(* status that tells the reader how far to trust them.                     *)
(***************************************************************************)
EXTENDS PulseWalk, FiniteSetsExt

Done == pos = Len(trace)

Ids(kind) == {o \in odd : o.kind = kind}

\* More than a quarter of the events are malformed.
MostlyMalformed == 4 * Cardinality(Ids("malformed")) > Len(trace)

-----------------------------------------------------------------------------
(***************************************************************************)
(* Tokens                                                                  *)
(***************************************************************************)
Total(t) == MapThenSumSet(LAMBDA f : tokens[t][f], DOMAIN tokens[t])
TotalOf(turns) == MapThenSumSet(Total, turns)

Rows         == {trace[j].turn : j \in 1..pos} \ {NoTurn}
TotalTokens  == TotalOf(Rows)
UndeclaredTurns == {r.turn : r \in reasons}
UndeclaredTokens == TotalOf(UndeclaredTurns)
DeclaredTokens   == TotalOf(Rows \ UndeclaredTurns)

FiringTurns      == {c.turn : c \in charges}
AssociatedTokens == TotalOf(FiringTurns)
TurnsOf(rule)    == {c.turn : c \in {d \in charges : d.rule = rule}}
\* Of CostOf: a faulty form of it.
CostPerFiring(rule) == MapThenSumSet(LAMBDA c : Total(c.turn), {d \in charges : d.rule = rule})

\* A turn counts once for a rule, however often the rule fired on it.
CostOf(rule)     == TotalOf(TurnsOf(rule))

-----------------------------------------------------------------------------
(***************************************************************************)
(* Statuses                                                                *)
(***************************************************************************)
AnyPopulated == \E t \in Rows : Populated(tokens[t])

UndeclaredOdd == waiting # {} \/ Ids("untokened") # {} \/ Ids("conflict") # {}
                 \/ Ids("malformed") # {}

UndeclaredStatus ==
  CASE Rows = {} -> "no_token_data"
    [] Rows # {} /\ ~AnyPopulated -> "no_turns"
    [] AnyPopulated /\ (MostlyMalformed \/ UndeclaredOdd) -> "partial"
    [] OTHER -> "ok"

\* Of BurnOdd: a faulty form of it.
BurnIgnoresUnpaired == Ids("untokened") # {} \/ Ids("conflict") # {}
                       \/ Ids("malformed") # {} \/ Ids("unknown") # {}

BurnOdd == buffer # {} \/ Ids("untokened") # {} \/ Ids("conflict") # {}
           \/ Ids("malformed") # {} \/ Ids("unknown") # {}

BurnStatus ==
  CASE Rows = {} -> "no_turns"
    [] Rows # {} /\ ~AnyPopulated -> "no_token_data"
    [] AnyPopulated /\ charges = {} -> "no_violations"
    [] AnyPopulated /\ charges # {} /\ (MostlyMalformed \/ BurnOdd) -> "partial"
    [] OTHER -> "ok"

Category(status) ==
  CASE status = "ok" -> "usable_ok"
    [] status = "no_violations" -> "usable_clean"
    [] status = "partial" -> "partial"
    [] OTHER -> "limited_signal"

Merged(categories) ==
  CASE "partial" \in categories -> "partial"
    [] categories \subseteq {"limited_signal", "no_signal"} -> "no_signal"
    [] "limited_signal" \in categories /\ "partial" \notin categories
         /\ ~(categories \subseteq {"limited_signal", "no_signal"}) -> "limited"
    [] OTHER -> "ok"

PulseStatus == Merged({Category(UndeclaredStatus), Category(BurnStatus)})

-----------------------------------------------------------------------------
(***************************************************************************)
(* Properties                                                              *)
(***************************************************************************)
(***************************************************************************)
(* No reading of a report adds up to more than was spent: what a rule      *)
(* cost is part of what violations cost, that is part of the total, and    *)
(* only the sum over the rules may exceed it.  With POL-001 alone, the     *)
(* bill for the rule is part of the bill for undeclared intent.            *)
(***************************************************************************)
BillsAddUp ==
  /\ UndeclaredTokens + DeclaredTokens = TotalTokens
  /\ AssociatedTokens <= TotalTokens
  /\ \A r \in Rules : CostOf(r) <= AssociatedTokens
  /\ AssociatedTokens <= MapThenSumSet(CostOf, Rules)
  /\ (\A j \in DOMAIN trace : POL001 \in trace[j].rules => trace[j].type = "SCOPE")
       => CostOf(POL001) <= UndeclaredTokens

(***************************************************************************)
(* BillsAreRight: the figures of a report are those of the first snapshot  *)
(* of each turn, and its parts add up.                                     *)
(***************************************************************************)
BillsAreRight == FirstUsageCounts /\ BillsAddUp

(***************************************************************************)
(* A pulse that says ok and shows violations shows all of them, each on    *)
(* its turn, over usage nobody contradicted.                               *)
(***************************************************************************)
OkIsWhole ==
  Done /\ PulseStatus = "ok" /\ charges # {} => odd = {} /\ buffer = {} /\ waiting = {}
=============================================================================
