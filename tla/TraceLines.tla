----------------------------- MODULE TraceLines -----------------------------
(***************************************************************************)
(* The lines of one JSONL trace file as every reader of the repository     *)
(* sees them.  A line is a record; only its session, sequence number,      *)
(* event id, predecessor, type and turn are kept.  Event ids are uuid4     *)
(* strings in the code: only equality and freshness matter, so an id is a  *)
(* number here, handed out in the order events are built.                  *)
(***************************************************************************)
EXTENDS Integers, Sequences

NoId   == 0          \* previous_event_id = None
NoTurn == 0          \* the event reports no model turn

(***************************************************************************)
(* The positions of session s, and the last of them: what the linear scan  *)
(* of resumption.py returns.  Lines that do not parse have no session.     *)
(***************************************************************************)
LinesOf(log, s) == {i \in DOMAIN log : log[i].sess = s}

LastOf(log, s) ==
  CHOOSE i \in LinesOf(log, s) : \A j \in LinesOf(log, s) : j <= i
=============================================================================
