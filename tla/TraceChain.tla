----------------------------- MODULE TraceChain -----------------------------
(***************************************************************************)
(* What the trace of a session promises its readers, whoever writes it: a  *)
(* file that only grows, in which the events of each session, picked out   *)
(* of the interleaving, form one unbroken chain.  The first one registers  *)
(* the agent and has sequence number 1; every later one has the sequence   *)
(* number after, and names the id of, the session's latest event.          *)
(*                                                                         *)
(* It says nothing of processes, locks, sidecars or scans.                 *)
(***************************************************************************)
EXTENDS TraceLines

VARIABLE log

Init == log = <<>>

(***************************************************************************)
(* e may be the next line after the lines of l.                            *)
(***************************************************************************)
Follows(e, l) ==
  /\ \A i \in DOMAIN l : l[i].id # e.id
  /\ IF LinesOf(l, e.sess) = {}
     THEN e.type = "REG" /\ e.seq = 1 /\ e.prev = NoId
     ELSE /\ e.type # "REG"
          /\ e.seq  = l[LastOf(l, e.sess)].seq + 1
          /\ e.prev = l[LastOf(l, e.sess)].id

(***************************************************************************)
(* The new line is read off log', so that the set of events need not be    *)
(* enumerated.                                                             *)
(***************************************************************************)
Extend ==
  /\ Len(log') = Len(log) + 1
  /\ LET e == log'[Len(log')]
     IN  log' = Append(log, e) /\ Follows(e, log)

Spec == Init /\ [][Extend]_log
=============================================================================
