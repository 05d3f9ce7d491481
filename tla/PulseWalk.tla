------------------------------ MODULE PulseWalk -------------------------------
(***************************************************************************)
(* The two analyzers behind `sentience pulse` walk a session's trace in    *)
(* emit order and lay each finding at the door of a model turn: undeclared *)
(* intent (which turns acted without a declared intent) and policy burn    *)
(* rate (which turns broke which rule).  A tool event that names a         *)
(* tool_use_id some turn lists belongs to that turn; any other is buffered *)
(* and goes to the next turn's CONTEXT_SNAPSHOT; a snapshot's own          *)
(* violations are its turn's.                                              *)
(*                                                                         *)
(* Both walks are pure and read the same trace, so one step here reads one *)
(* event in both.  Their rows per turn are sets of findings, and what both *)
(* do alike (usage, counters) is kept once.  A payload is a mapping.       *)
(***************************************************************************)
EXTENDS Naturals, Sequences, FiniteSets

CONSTANTS
  Traces,        \* the traces that may be analysed
  Turns, NoTurn, \* values of llm_turn_id
  Uses, NoUse,   \* values of tool_use_id
  Rules,         \* the rules the analyzers know, POL001 among them
  POL001,
  Unknown,       \* a rule string they do not know
  Fields,        \* the token fields of a snapshot
  Amounts        \* the counts a token field may hold

EventTypes == {"REG", "INTENT", "SCOPE", "MEM", "CTX", "OTHER", "MALFORMED"}

Usage == UNION {[F -> Amounts] : F \in SUBSET Fields}

(***************************************************************************)
(* rules   - policy_violations          missing - INTENT_MISSING is flagged *)
(* use     - tool_use_id                notable - HIGH_CONSEQUENCE_DETECTED *)
(* turn    - llm_turn_id of a snapshot  lists   - its tool_use_ids          *)
(* usage   - its token fields that hold a number                           *)
(***************************************************************************)
Event == [type : EventTypes, rules : SUBSET (Rules \cup {Unknown}),
          missing : BOOLEAN, notable : BOOLEAN, use : Uses \cup {NoUse},
          turn : Turns \cup {NoTurn}, lists : SUBSET Uses, usage : Usage]

ASSUME WalkAssumption ==
  /\ Traces \subseteq Seq(Event)
  /\ NoTurn \notin Turns
  /\ NoUse \notin Uses
  /\ POL001 \in Rules
  /\ Unknown \notin Rules
  /\ IsFiniteSet(Rules) /\ IsFiniteSet(Fields)
  /\ Amounts \subseteq Nat /\ 0 \in Amounts
  \* Only snapshots carry a turn, and what is malformed carries nothing.
  /\ \A tr \in Traces : \A j \in DOMAIN tr :
       /\ tr[j].turn # NoTurn => tr[j].type = "CTX"
       /\ tr[j].type \in {"INTENT", "OTHER", "MALFORMED"} => tr[j].rules = {}

VARIABLES
  trace,     \* the events of the session
  pos,       \* how many are read
  reasons,   \* undeclared intent: [at, turn], a flagged tool call and its turn
  waiting,   \* undeclared intent: flagged tool calls buffered for the next turn
  charges,   \* burn rate: [rule, at, turn], a violation and its turn
  buffer,    \* burn rate: [rule, at], violations buffered for the next turn
  tokens,    \* the usage each turn is charged with, if any
  current,   \* the turn of the last snapshot that named one
  notables,  \* [at, turn]: high-consequence calls and the turn before them
  declared,  \* an intent was declared
  odd        \* [kind, at]: events the report warns about

vars == <<trace, pos, reasons, waiting, charges, buffer, tokens, current,
          notables, declared, odd>>

NoUsage == [f \in {} |-> 0]

TypeOK ==
  /\ trace \in Seq(Event)
  /\ pos \in 0..Len(trace)
  /\ reasons \in SUBSET [at : Nat, turn : Turns]
  /\ waiting \in SUBSET Nat
  /\ charges \in SUBSET [rule : Rules, at : Nat, turn : Turns]
  /\ buffer \in SUBSET [rule : Rules, at : Nat]
  /\ tokens \in [Turns -> Usage]
  /\ current \in Turns \cup {NoTurn}
  /\ notables \in SUBSET [at : Nat, turn : Turns \cup {NoTurn}]
  /\ declared \in BOOLEAN
  /\ odd \in SUBSET [kind : {"malformed", "unknown", "untokened", "conflict"}, at : Nat]

Init ==
  /\ trace \in Traces
  /\ pos = 0
  /\ reasons = {} /\ waiting = {}
  /\ charges = {} /\ buffer = {}
  /\ tokens = [t \in Turns |-> NoUsage]
  /\ current = NoTurn
  /\ notables = {}
  /\ declared = FALSE
  /\ odd = {}

-----------------------------------------------------------------------------
(***************************************************************************)
(* The join, built from the whole trace before the walk: the first         *)
(* snapshot that lists a tool_use_id owns it.                              *)
(***************************************************************************)
Listing(u) == {j \in DOMAIN trace : trace[j].turn # NoTurn /\ u \in trace[j].lists}

ListedFirst(u) == CHOOSE j \in Listing(u) : \A k \in Listing(u) : j <= k

JoinTurn(u) ==
  IF u = NoUse \/ Listing(u) = {} THEN NoTurn ELSE trace[ListedFirst(u)].turn

Flagged(e) == e.missing \/ POL001 \in e.rules

\* The event being read.
here == pos + 1
event == trace[here]

Warned(kind) == [kind |-> kind, at |-> here]
UnknownRule == IF Unknown \in event.rules THEN {Warned("unknown")} ELSE {}

Reading(type) ==
  /\ pos < Len(trace)
  /\ event.type = type
  /\ pos' = pos + 1
  /\ UNCHANGED trace

Own == {[rule |-> r, at |-> here] : r \in event.rules \cap Rules}

Laid(entries, t) == {[rule |-> b.rule, at |-> b.at, turn |-> t] : b \in entries}

-----------------------------------------------------------------------------
(***************************************************************************)
(* Undeclared intent                                                       *)
(***************************************************************************)
\* SCOPE_ASSERTED: join by id, else wait; a notable call takes the turn so far.
UndeclaredScope ==
  LET t == JoinTurn(event.use) IN
  /\ reasons' = IF Flagged(event) /\ t # NoTurn
                  THEN reasons \cup {[at |-> here, turn |-> t]} ELSE reasons
  /\ waiting' = IF Flagged(event) /\ t = NoTurn THEN waiting \cup {here} ELSE waiting
  /\ notables' = IF event.notable THEN notables \cup {[at |-> here, turn |-> current]} ELSE notables

\* CONTEXT_SNAPSHOT with a turn: it takes what waits.
UndeclaredTurn ==
  /\ reasons' = reasons \cup {[at |-> j, turn |-> event.turn] : j \in waiting}
  /\ waiting' = {}
  /\ current' = event.turn

UndeclaredSkips == UNCHANGED <<reasons, waiting, current, notables>>

-----------------------------------------------------------------------------
(***************************************************************************)
(* Burn rate                                                               *)
(***************************************************************************)
\* _try_join_attribute, else _collect_envelope_violations.
BurnCharge ==
  LET t == JoinTurn(event.use) IN
  IF t # NoTurn
    THEN charges' = charges \cup Laid(Own, t) /\ UNCHANGED buffer
    ELSE buffer' = buffer \cup Own /\ UNCHANGED charges

\* Of BurnTurn: a faulty form of it.
BurnTurnBuffersOwn ==
  /\ charges' = charges \cup Laid(buffer, event.turn)
  /\ buffer' = Own

\* A snapshot with a turn takes the buffer and its own violations.
BurnTurn ==
  /\ charges' = charges \cup Laid(buffer \cup Own, event.turn)
  /\ buffer' = {}

-----------------------------------------------------------------------------
(***************************************************************************)
(* Usage: the first populated snapshot of a turn; later ones only agree or *)
(* conflict.                                                               *)
(***************************************************************************)
Populated(u) == DOMAIN u # {}
Filled(u)    == [f \in Fields |-> IF f \in DOMAIN u THEN u[f] ELSE 0]

Conflicts(u, held) == \E f \in DOMAIN u : u[f] # held[f]

TakeUsage ==
  IF ~Populated(event.usage)
    THEN UNCHANGED tokens /\ odd' = odd \cup UnknownRule
    ELSE IF ~Populated(tokens[event.turn])
    THEN /\ tokens' = [tokens EXCEPT ![event.turn] = Filled(event.usage)]
         /\ odd' = odd \cup UnknownRule
    ELSE /\ UNCHANGED tokens
         /\ odd' = odd \cup UnknownRule \cup
                     (IF Conflicts(event.usage, tokens[event.turn]) THEN {Warned("conflict")} ELSE {})

-----------------------------------------------------------------------------
(***************************************************************************)
(* One event                                                               *)
(***************************************************************************)
ReadMalformed ==
  /\ Reading("MALFORMED")
  /\ odd' = odd \cup {Warned("malformed")}
  /\ UndeclaredSkips
  /\ UNCHANGED <<charges, buffer, tokens, declared>>

ReadRegistration ==
  /\ Reading("REG")
  /\ BurnCharge
  /\ odd' = odd \cup UnknownRule
  /\ UndeclaredSkips
  /\ UNCHANGED <<tokens, declared>>

ReadIntent ==
  /\ Reading("INTENT")
  /\ declared' = (declared \/ ~event.missing)
  /\ UndeclaredSkips
  /\ UNCHANGED <<charges, buffer, tokens, odd>>

ReadScope ==
  /\ Reading("SCOPE")
  /\ UndeclaredScope
  /\ BurnCharge
  /\ odd' = odd \cup UnknownRule
  /\ UNCHANGED <<tokens, current, declared>>

ReadMemory ==
  /\ Reading("MEM")
  /\ BurnCharge
  /\ odd' = odd \cup UnknownRule
  /\ UndeclaredSkips
  /\ UNCHANGED <<tokens, declared>>

\* A snapshot that names no turn: the tool responses of the hook, for one.
ReadSnapshot ==
  /\ Reading("CTX")
  /\ event.turn = NoTurn
  /\ BurnCharge
  /\ odd' = odd \cup UnknownRule \cup
              (IF Populated(event.usage) THEN {Warned("untokened")} ELSE {})
  /\ UndeclaredSkips
  /\ UNCHANGED <<tokens, declared>>

ReadTurn ==
  /\ Reading("CTX")
  /\ event.turn # NoTurn
  /\ UndeclaredTurn
  /\ BurnTurn
  /\ TakeUsage
  /\ UNCHANGED <<notables, declared>>

ReadOther ==
  /\ Reading("OTHER")
  /\ UndeclaredSkips
  /\ UNCHANGED <<charges, buffer, tokens, declared, odd>>

Next ==
  \/ ReadMalformed \/ ReadRegistration \/ ReadIntent \/ ReadScope
  \/ ReadMemory \/ ReadSnapshot \/ ReadTurn \/ ReadOther

Spec == Init /\ [][Next]_vars

-----------------------------------------------------------------------------
(***************************************************************************)
(* Properties                                                              *)
(***************************************************************************)
\* Snapshots with a turn among the events after j up to n.
TurnsAfter(j, n) == {k \in (j + 1)..n : trace[k].turn # NoTurn}
NextTurn(j, n)   == CHOOSE k \in TurnsAfter(j, n) : \A l \in TurnsAfter(j, n) : k <= l

(***************************************************************************)
(* Whose event j is once n events are read, said without the walk: its own *)
(* turn's, that of the turn that listed it, or of the next turn.           *)
(***************************************************************************)
Owner(j, n) ==
  CASE trace[j].turn # NoTurn -> trace[j].turn
    [] trace[j].turn = NoTurn /\ JoinTurn(trace[j].use) # NoTurn -> JoinTurn(trace[j].use)
    [] trace[j].turn = NoTurn /\ JoinTurn(trace[j].use) = NoTurn /\ TurnsAfter(j, n) # {}
         -> trace[NextTurn(j, n)].turn
    [] OTHER -> NoTurn

Violations == {[rule |-> r, at |-> j] : r \in Rules, j \in 1..pos}
Violated(v) == v.rule \in trace[v.at].rules

(***************************************************************************)
(* The burn rate lays every violation read so far on its owner, once, and  *)
(* keeps exactly the ownerless ones in the buffer, whatever the order in   *)
(* which tools, turns and repeated snapshots come.                         *)
(***************************************************************************)
ChargedToOwner ==
  /\ charges = {[rule |-> v.rule, at |-> v.at, turn |-> Owner(v.at, pos)] :
                  v \in {w \in Violations : Violated(w) /\ Owner(w.at, pos) # NoTurn}}
  /\ buffer = {w \in Violations : Violated(w) /\ Owner(w.at, pos) = NoTurn}

Flags == {j \in 1..pos : trace[j].type = "SCOPE" /\ Flagged(trace[j])}

(***************************************************************************)
(* The undeclared-intent walk bills every flagged tool call to the same    *)
(* owner, so that the two halves of a pulse cannot disagree on a turn.     *)
(***************************************************************************)
BilledToOwner ==
  /\ reasons = {[at |-> j, turn |-> Owner(j, pos)] :
                  j \in {k \in Flags : Owner(k, pos) # NoTurn}}
  /\ waiting = {k \in Flags : Owner(k, pos) = NoTurn}

(***************************************************************************)
(* ChargedOnce: both analyzers lay every finding on the one turn that owns *)
(* it and keep the rest waiting.                                           *)
(***************************************************************************)
ChargedOnce == TypeOK /\ ChargedToOwner /\ BilledToOwner

(***************************************************************************)
(* A turn is charged the usage of its first populated snapshot, however    *)
(* often the batch is repeated, and each disagreeing repeat is reported.   *)
(***************************************************************************)
Sightings(t) == {k \in 1..pos : trace[k].turn = t /\ Populated(trace[k].usage)}

FirstUsageCounts ==
  \A t \in Turns :
    /\ Sightings(t) = {} => tokens[t] = NoUsage
    /\ \A k \in Sightings(t) :
         (\A l \in Sightings(t) : k <= l)
           => /\ tokens[t] = Filled(trace[k].usage)
              /\ \A l \in Sightings(t) :
                   [kind |-> "conflict", at |-> l] \in odd
                     <=> Conflicts(trace[l].usage, Filled(trace[k].usage))
=============================================================================
