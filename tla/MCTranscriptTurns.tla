------------------------------- MODULE MCTranscriptTurns -------------------------------
(***************************************************************************)
(* Every trace of up to MaxEvents events out of a few that matter, and     *)
(* sessions whose transcript and tool events may be a few as well.         *)
(***************************************************************************)
EXTENDS TranscriptTurns, TLC

CONSTANTS t1, t2, u1, u2, POL004, MaxEvents

Plain == [type |-> "OTHER", rules |-> {}, missing |-> FALSE, notable |-> FALSE,
          use |-> NoUse, turn |-> NoTurn, lists |-> {}, usage |-> NoUsage]

Snapshot(t, listed, u) ==
  [Plain EXCEPT !.type = "CTX", !.turn = t, !.lists = listed, !.usage = u]

Prompt(n) == [f \in {"prompt"} |-> n]
Both(n)   == [f \in {"prompt", "completion"} |-> n]

Kinds ==
  { Plain, [Plain EXCEPT !.type = "MALFORMED"],
    [Plain EXCEPT !.type = "INTENT"],
    [Plain EXCEPT !.type = "REG", !.rules = {Unknown}],
    [Plain EXCEPT !.type = "SCOPE", !.rules = {POL001}, !.missing = TRUE, !.use = u1],
    [Plain EXCEPT !.type = "SCOPE", !.missing = TRUE, !.use = u2, !.notable = TRUE],
    [Plain EXCEPT !.type = "MEM", !.rules = {POL004}],
    [Plain EXCEPT !.type = "CTX", !.rules = {POL004}, !.use = u2],
    Snapshot(NoTurn, {}, Prompt(1)),
    Snapshot(t1, {u1}, Prompt(1)),
    [Snapshot(t1, {}, Both(2)) EXCEPT !.rules = {POL004}],
    Snapshot(t2, {u1, u2}, Both(1)),
    Snapshot(t2, {}, NoUsage) }

Registered == <<[Plain EXCEPT !.type = "REG"]>>

SomeTraces == {Registered} \cup UNION {[1..n -> Kinds] : n \in 0..MaxEvents}

Assistant(t, listed, u) == [type |-> "assistant", request |-> t, uses |-> listed, usage |-> u]

SomeLines ==
  { Assistant(t1, {}, Prompt(1)), Assistant(t1, {u1}, NoUsage),
    Assistant(t1, {u2}, [f \in {"prompt", "completion"} |-> IF f = "prompt" THEN 2 ELSE Bad]),
    Assistant(t2, {u1}, NoUsage), Assistant(t2, {u1}, Both(1)), Assistant(t2, {}, Prompt(Bad)),
    Assistant(NoTurn, {u2}, Prompt(1)), [Torn EXCEPT !.type = "other"] }

SomeHookEvents ==
  { [Plain EXCEPT !.type = "SCOPE", !.rules = {POL001}, !.missing = TRUE, !.use = u1],
    [Plain EXCEPT !.type = "CTX", !.rules = {POL004}, !.use = u2] }
=============================================================================
