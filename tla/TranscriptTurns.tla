--------------------------- MODULE TranscriptTurns ---------------------------
(***************************************************************************)
(* Where the turns that pulse bills come from.  Claude Code appends to its *)
(* transcript; each SessionEnd parses what is there by then                *)
(* (wrapper/claude_code_transcript.py), groups the lines of a request into *)
(* a turn and leaves one snapshot per turn it has not reported before;     *)
(* hooks leave tool events in between; and pulse reads the trace.          *)
(* That SessionEnds race or fail is HookTrace's subject.                   *)
(*                                                                         *)
(* A line carries the raw token counts of its message, or none.  The order *)
(* of a turn's tool calls, its model and the parser's warnings are left    *)
(* out: nothing downstream reads them.                                     *)
(***************************************************************************)
EXTENDS PulseReport, SequencesExt

CONSTANTS
  Lines,       \* the lines Claude Code may write
  HookEvents,  \* the tool events its hooks may leave in the trace
  Opening,     \* the events a trace begins with
  Bad,         \* what is not a count: nothing, negative, a fraction, a boolean
  MaxLines, MaxCalls

RawUsage == UNION {[F -> Amounts \cup {Bad}] : F \in SUBSET Fields}

Line == [type : {"assistant", "other", "torn"}, request : Turns \cup {NoTurn},
         uses : SUBSET Uses, usage : RawUsage]

ASSUME TranscriptAssumption ==
  /\ Lines \subseteq Line
  /\ Bad \notin Amounts
  /\ Opening \in Traces /\ \A j \in DOMAIN Opening : Opening[j].turn = NoTurn
  /\ \A e \in HookEvents :
       /\ e \in Event /\ e.turn = NoTurn
       /\ e.type \in {"INTENT", "OTHER", "MALFORMED"} => e.rules = {}

VARIABLES
  phase,       \* "live", "over", or "given": a trace from elsewhere
  transcript,
  reported     \* read_emitted_turns

sessionVars == <<phase, transcript, reported>>
allVars     == <<vars, sessionVars>>

SessionInit ==
  /\ Init
  /\ \/ phase = "given"
     \/ phase = "live" /\ trace = Opening
  /\ transcript = <<>> /\ reported = {}

-----------------------------------------------------------------------------
(***************************************************************************)
(* Parsing                                                                 *)
(***************************************************************************)
\* extract_anthropic_usage, with _coerce_token_value on every field.
Coerced(raw) == [f \in {g \in DOMAIN raw : raw[g] \in Amounts} |-> raw[f]]

NoParse == [order |-> <<>>, usage |-> [t \in Turns |-> NoUsage], lists |-> [t \in Turns |-> {}]]

Listed(parsed) == UNION {parsed.lists[t] : t \in Turns}

IsTurnLine(line) == line.type = "assistant" /\ line.request # NoTurn

\* Of FirstPopulated: a later usage replaces an earlier one.
LastPopulated(held, usage) == IF Populated(usage) THEN usage ELSE held

\* The usage of a turn is repeated on every line of its request.
FirstPopulated(held, usage) == IF Populated(held) THEN held ELSE usage

\* A tool call belongs to the first request that lists it.
NewlyListed(parsed, line) == line.uses \ Listed(parsed)

ParseLine(parsed, line) ==
  IF ~IsTurnLine(line) THEN parsed
  ELSE [order |-> IF line.request \in ToSet(parsed.order) THEN parsed.order
                  ELSE Append(parsed.order, line.request),
        usage |-> [parsed.usage EXCEPT ![line.request] = FirstPopulated(@, Coerced(line.usage))],
        lists |-> [parsed.lists EXCEPT ![line.request] = @ \cup NewlyListed(parsed, line)]]

ParseTranscript == FoldLeft(ParseLine, NoParse, transcript)

-----------------------------------------------------------------------------
(***************************************************************************)
(* The session                                                             *)
(***************************************************************************)
Torn == [type |-> "torn", request |-> NoTurn, uses |-> {}, usage |-> NoUsage]

\* Claude Code writes a line, or part of one that it completes later.
WriteLine(line) ==
  /\ phase = "live"
  /\ transcript' =
       IF transcript # <<>> /\ Last(transcript).type = "torn"
         THEN [transcript EXCEPT ![Len(transcript)] = line]
         ELSE Append(transcript, line)
  /\ Len(transcript') <= MaxLines
  /\ UNCHANGED <<vars, phase, reported>>

\* A hook leaves a tool event in the trace.
ToolHook(e) ==
  /\ phase = "live"
  /\ Cardinality({j \in DOMAIN trace : trace[j].use # NoUse}) < MaxCalls
  /\ trace' = Append(trace, e)
  /\ UNCHANGED <<pos, reasons, waiting, charges, buffer, tokens, current, notables, declared, odd,
                 sessionVars>>

IsEmittable(parsed, t) == Populated(parsed.usage[t]) \/ parsed.lists[t] # {}

TurnSnapshot(parsed, t) ==
  [type |-> "CTX", rules |-> {}, missing |-> FALSE, notable |-> FALSE, use |-> NoUse,
   turn |-> t, lists |-> parsed.lists[t], usage |-> parsed.usage[t]]

\* The turns that have something to say and that no batch has reported.
Batch(parsed) ==
  FoldLeft(LAMBDA taken, t : IF t \in reported \/ ~IsEmittable(parsed, t) THEN taken
                             ELSE Append(taken, t),
           <<>>, parsed.order)

\* One snapshot per turn, in transcript order.
SessionEnd ==
  LET parsed == ParseTranscript
      turns  == Batch(parsed)
  IN /\ phase = "live" /\ turns # <<>>
     /\ trace' = trace \o [k \in DOMAIN turns |-> TurnSnapshot(parsed, turns[k])]
     /\ reported' = reported \cup ToSet(turns)
     /\ UNCHANGED <<pos, reasons, waiting, charges, buffer, tokens, current, notables, declared,
                    odd, phase, transcript>>

\* `sentience pulse` is run, on what the trace holds by then.
AskPulse ==
  /\ phase = "live" /\ phase' = "over"
  /\ UNCHANGED <<vars, transcript, reported>>

ReadTrace == phase # "live" /\ Next /\ UNCHANGED sessionVars

SessionNext ==
  \/ \E line \in Lines \cup {Torn} : WriteLine(line)
  \/ \E e \in HookEvents : ToolHook(e)
  \/ SessionEnd
  \/ AskPulse
  \/ ReadTrace

SessionSpec == SessionInit /\ [][SessionNext]_allVars

-----------------------------------------------------------------------------
(***************************************************************************)
(* Properties                                                              *)
(***************************************************************************)
LinesWith(Wanted(_)) == {k \in DOMAIN transcript : IsTurnLine(transcript[k]) /\ Wanted(transcript[k])}

\* The snapshot that reported a turn.
Report(t) == trace[CHOOSE j \in DOMAIN trace : trace[j].turn = t]

(***************************************************************************)
(* However the lines of a request are spread over the transcript, and      *)
(* however many SessionEnds cut it, pulse bills a turn the first usage the *)
(* transcript gives it - never a sum, never a later figure.  It bills it   *)
(* nothing only while the turn is not reported, has no usage, or was       *)
(* reported for its tool calls before its usage was written                *)
(* (parse_transcript, _emit_session_end_token_batch).                      *)
(***************************************************************************)
BilledAsTranscribed ==
  phase = "over" /\ Done =>
    \A t \in Turns :
      LET sightings == LinesWith(LAMBDA l : l.request = t /\ Populated(Coerced(l.usage)))
      IN IF tokens[t] = NoUsage
           THEN t \notin reported \/ sightings = {} \/ ~Populated(Report(t).usage)
           ELSE sightings # {} /\ tokens[t] = Filled(Coerced(transcript[Min(sightings)].usage))

(***************************************************************************)
(* A tool call is laid at the door of the request that made it, although   *)
(* transcripts repeat calls and batches report turns apart, unless that    *)
(* request was reported before it listed the call (tool_use_index).        *)
(***************************************************************************)
CallsBilledToTheirTurn ==
  phase = "over" /\ Done =>
    \A j \in DOMAIN trace :
      LET listings == LinesWith(LAMBDA l : trace[j].use \in l.uses)
          t == transcript[Min(listings)].request
      IN listings # {} /\ t \in reported /\ trace[j].use \in Report(t).lists =>
           \A found \in charges \cup reasons : found.at = j => found.turn = t

(***************************************************************************)
(* TurnsAsTranscribed: what pulse says of a turn, its tokens and its tool  *)
(* calls, is what the transcript said, through every cut a SessionEnd      *)
(* makes.                                                                  *)
(***************************************************************************)
TurnsAsTranscribed == BilledAsTranscribed /\ CallsBilledToTheirTurn
=============================================================================
