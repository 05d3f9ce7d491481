----------------------------- MODULE HookTrace ------------------------------
(***************************************************************************)
(* The Claude Code hook writing one JSONL trace file.  Claude Code starts  *)
(* a process for every hook call; each one takes the flock of the sink,    *)
(* reconstructs where its session's chain stands from the sidecar index or *)
(* from a scan, appends its events one write at a time, records the new    *)
(* end in the sidecar, and exits.  The declare_intent tool of the MCP      *)
(* server appends to the same file under the same ceremony.                *)
(*                                                                         *)
(* One sink file is modelled.  With one session it is a per-session trace, *)
(* with several it is the shared-file mode.  A process slot p of Procs is  *)
(* reused by later invocations.                                            *)
(***************************************************************************)
EXTENDS TraceLines, FiniteSets

CONSTANTS
  Procs,            \* slots in which hook processes run
  Sessions,         \* sessions that share the sink file
  NoProc,           \* nobody holds the flock
  NoSession,        \* the session of a line that does not parse
  Kinds,            \* which hook events arrive, a subset of HookKinds
  MaxTurns,         \* turns a transcript may grow to
  SilentTurns,      \* turns with neither tokens nor tool calls
  MaxInvocations,   \* bound: hook processes ever started
  MaxFaults         \* bound: how often each kind of fault may strike

(***************************************************************************)
(* The hook events.  "PreMem" is a PreToolUse whose target persists data,  *)
(* "Other" is SessionStart, UserPromptSubmit and the like, "Declare" the   *)
(* declare_intent tool.                                                    *)
(***************************************************************************)
HookKinds == {"Pre", "PreMem", "Post", "End", "Other", "Declare"}

(***************************************************************************)
(* crash   - the process is killed, or _process_inner unwinds              *)
(* drop    - a write fails and leaves nothing (FileSink.write is False)    *)
(* tear    - a write leaves part of a line, without its newline            *)
(* invalid - the built event fails its schema and is not written           *)
(* sidecar - a sidecar update fails, or the sink cannot be read to make    *)
(*           it; the code logs and swallows it                             *)
(* lose    - the sidecar is deleted, or cannot be read and is rewritten    *)
(* read    - a hook that only reads finds the sidecar or the sink          *)
(*           unreadable (OSError): it works with what it could read        *)
(* stat    - the transcript cannot be inspected by the SessionEnd gate     *)
(***************************************************************************)
FaultKinds ==
  {"crash", "drop", "tear", "invalid", "sidecar", "lose", "read", "stat"}

ASSUME ConstantsAssumption ==
  /\ NoProc \notin Procs
  /\ NoSession \notin Sessions
  /\ Kinds \subseteq HookKinds
  /\ MaxTurns \in Nat
  /\ SilentTurns \subseteq 1..MaxTurns
  /\ MaxInvocations \in Nat
  /\ MaxFaults \in [FaultKinds -> Nat]

VARIABLES
  sink,         \* the lines of the trace file
  open,         \* the last line has no newline yet: the next write joins it
  exists,       \* the sink file exists
  sidecar,      \* <sink>.index: where each session's chain ends
  emitted,      \* <sink>.index: turns already reported, per session
  transcript,   \* how many turns Claude Code has flushed, per session
  lock,         \* holder of the sink's flock
  pc,           \* where each process stands
  mem,          \* what each process remembers
  answered,     \* event ids emit_intent_declaration has returned
  nextId,       \* the next event id
  invoked,      \* invocations so far
  faults,       \* faults so far, per kind
  used          \* history: sessions that ran a hook other than SessionEnd

disk == <<sink, open, exists, sidecar, emitted>>
vars == <<disk, transcript, lock, pc, mem, answered, nextId, invoked, faults, used>>

EventTypes == {"REG", "INTENT", "DECL", "SCOPE", "CTX", "MEM", "TURN"}
Turns      == 1..MaxTurns
NoParse    == MaxTurns + 1     \* no transcript parse is carried past the gate

Line == [sess : Sessions \cup {NoSession}, type : EventTypes \cup {"GARBAGE"},
         turn : Turns \cup {NoTurn}, seq : Nat, prev : Nat, id : Nat]

(***************************************************************************)
(* A line json.loads rejects: part of an event, with or without a later    *)
(* event glued to it.                                                      *)
(***************************************************************************)
Garbage == [sess |-> NoSession, type |-> "GARBAGE", turn |-> NoTurn,
            seq |-> 0, prev |-> NoId, id |-> NoId]

Entry   == [seq : Nat, id : Nat, off : Nat]
NoEntry == [seq |-> 0, id |-> NoId, off |-> 0]

Memory == [kind : HookKinds, sess : Sessions \cup {NoSession},
           carried : 0..NoParse, todo : Seq(EventTypes), batch : SUBSET Turns,
           newly : SUBSET Turns, seq : Nat, last : Nat]

Blank == [kind |-> "Other", sess |-> NoSession, carried |-> NoParse,
          todo |-> <<>>, batch |-> {}, newly |-> {}, seq |-> 0, last |-> NoId]

States == {"idle", "open", "wait", "emit", "batch", "refresh"}

TypeOK ==
  /\ sink \in Seq(Line)
  /\ open \in BOOLEAN
  /\ exists \in BOOLEAN
  /\ sidecar \in [Sessions -> Entry]
  /\ emitted \in [Sessions -> SUBSET Turns]
  /\ transcript \in [Sessions -> 0..MaxTurns]
  /\ lock \in Procs \cup {NoProc}
  /\ pc \in [Procs -> States]
  /\ mem \in [Procs -> Memory]
  /\ \A p \in Procs : pc[p] # "idle" => mem[p].sess \in Sessions
  /\ answered \in SUBSET Nat
  /\ nextId \in Nat \ {NoId}
  /\ invoked \in 0..MaxInvocations
  /\ faults \in [FaultKinds -> Nat]
  /\ used \in SUBSET Sessions

Init ==
  /\ sink = <<>>
  /\ open = FALSE
  /\ exists = FALSE
  /\ sidecar = [s \in Sessions |-> NoEntry]
  /\ emitted = [s \in Sessions |-> {}]
  /\ transcript = [s \in Sessions |-> 0]
  /\ lock = NoProc
  /\ pc = [p \in Procs |-> "idle"]
  /\ mem = [p \in Procs |-> Blank]
  /\ answered = {}
  /\ nextId = 1
  /\ invoked = 0
  /\ faults = [f \in FaultKinds |-> 0]
  /\ used = {}

Fault(f) ==
  /\ faults[f] < MaxFaults[f]
  /\ faults' = [faults EXCEPT ![f] = @ + 1]

-----------------------------------------------------------------------------
(***************************************************************************)
(* Resumption: the sidecar is an O(1) hint, used only when the line at its *)
(* offset is the event it names; otherwise the sink is scanned.  When the  *)
(* scan cannot read the sink either, the session is taken for a new one    *)
(* (Acquire).                                                              *)
(***************************************************************************)
Hit(s) ==
  LET e == sidecar[s] IN
  /\ e.off \in DOMAIN sink
  /\ sink[e.off].sess = s
  /\ sink[e.off].seq  = e.seq
  /\ sink[e.off].id   = e.id

(***************************************************************************)
(* What plausible bugs would make of some of the definitions below.  None  *)
(* is used in Spec; each shows that a property notices.                    *)
(***************************************************************************)
\* Of Scan: it stops at the first line it cannot parse.
ScanStopsAtGarbage(s) ==
  LET Good == {i \in LinesOf(sink, s) : \A j \in 1..i : sink[j] # Garbage}
  IN  IF Good = {} THEN LastOf(sink, s)
      ELSE CHOOSE i \in Good : \A j \in Good : j <= i

\* Of Resumable: no scan when the sidecar does not help.
SidecarOnly(s) == Hit(s)

\* Of Emittable: one turn too many.
OneTurnTooMany(n) == {t \in 1..(n + 1) : t \notin SilentTurns}

\* Of Unreported: one batch per session, whatever was flushed since.
OncePerSession(s, n) ==
  {t \in Turns : t <= n /\ t \notin SilentTurns /\ emitted[s] = {}}

\* Of Gated: SessionEnd is never gated.
NeverGated(k) == FALSE

\* Of LockFree: flock is a no-op.
NoLock == TRUE

\* Of Merged: the record lists the turns the transcript holds by now.
RecordsTranscript(p) ==
  {t \in Turns : t <= transcript[mem[p].sess] /\ t \notin SilentTurns}

\* Of FreedFrom: a lock file, which outlives its owner.
LockFileSurvives(p) == lock

-----------------------------------------------------------------------------
(***************************************************************************)
(* The scan tolerates lines that do not parse, and keeps the last one.     *)
(***************************************************************************)
Scan(s) == LastOf(sink, s)

Resumable(s) == LinesOf(sink, s) # {}

ScannedState(s) == [seq |-> sink[Scan(s)].seq, id |-> sink[Scan(s)].id]

ResumedState(s) ==
  IF Hit(s)
  THEN [seq |-> sidecar[s].seq, id |-> sidecar[s].id]
  ELSE ScannedState(s)

(***************************************************************************)
(* The turns among the first n of a transcript that the batch and the gate *)
(* care about: those with tokens or tool calls.                            *)
(***************************************************************************)
Emittable(n) == {t \in Turns : t <= n /\ t \notin SilentTurns}

Unreported(s, n) == Emittable(n) \ emitted[s]

(***************************************************************************)
(* What a hook appends, after the registration and the empty intent that   *)
(* a session's first hook appends before anything else.                    *)
(***************************************************************************)
HandlerEvents ==
  [Pre     |-> <<"SCOPE", "CTX">>,
   PreMem  |-> <<"SCOPE", "CTX", "MEM">>,
   Post    |-> <<"CTX">>,
   End     |-> <<>>,
   Other   |-> <<>>,
   Declare |-> <<"DECL">>]

SessionOpening == <<"REG", "INTENT">>

-----------------------------------------------------------------------------
(***************************************************************************)
(* A hook process starts.  A SessionEnd whose sink file is absent is gated *)
(* before the lock, which would create the file: it carries its parse      *)
(* forward when there is a turn to report, goes on without one when the    *)
(* transcript could not be inspected, and ends otherwise (GateEmpty).      *)
(* declare_intent only runs once its session resolver has found the trace. *)
(***************************************************************************)
Gated(k) == k = "End" /\ ~exists

Launch(p, s, k) ==
  /\ pc[p] = "idle"
  /\ invoked < MaxInvocations
  /\ k = "Declare" => exists
  /\ \/ /\ ~Gated(k)
        /\ mem' = [mem EXCEPT ![p] = [Blank EXCEPT !.kind = k, !.sess = s]]
        /\ UNCHANGED faults
     \/ /\ Gated(k)
        /\ Emittable(transcript[s]) # {}
        /\ mem' = [mem EXCEPT ![p] = [Blank EXCEPT !.kind = k, !.sess = s,
                                                   !.carried = transcript[s]]]
        /\ UNCHANGED faults
     \/ /\ Gated(k)
        /\ Fault("stat")
        /\ mem' = [mem EXCEPT ![p] = [Blank EXCEPT !.kind = k, !.sess = s]]
  /\ pc' = [pc EXCEPT ![p] = "open"]
  /\ invoked' = invoked + 1
  /\ used' = IF k \in {"End", "Declare"} THEN used ELSE used \cup {s}
  /\ UNCHANGED <<disk, transcript, lock, answered, nextId>>

GateEmpty(p, s) ==
  /\ pc[p] = "idle"
  /\ invoked < MaxInvocations
  /\ Gated("End")
  /\ Emittable(transcript[s]) = {}
  /\ invoked' = invoked + 1
  /\ UNCHANGED <<disk, transcript, lock, pc, mem, answered, nextId, faults, used>>

(***************************************************************************)
(* sink_lock touches the file into existence, then blocks on the flock.    *)
(***************************************************************************)
Open(p) ==
  /\ pc[p] = "open"
  /\ exists' = TRUE
  /\ pc' = [pc EXCEPT ![p] = "wait"]
  /\ UNCHANGED <<sink, open, sidecar, emitted, transcript, lock, mem, answered,
                 nextId, invoked, faults, used>>

(***************************************************************************)
(* The lock is granted and the session resumed: from the sidecar or from   *)
(* the scan.  A session that is not in the file, or whose file cannot be   *)
(* read, starts at the beginning; a declaration for one gives up at once.  *)
(***************************************************************************)
LockFree == lock = NoProc

ResumeAt(p, k, state) ==
  /\ mem' = [mem EXCEPT ![p].seq  = state.seq,
                        ![p].last = state.id,
                        ![p].todo = HandlerEvents[k]]
  /\ lock' = p
  /\ pc' = [pc EXCEPT ![p] = "emit"]

StartAnew(p, k) ==
  \/ /\ k # "Declare"
     /\ mem' = [mem EXCEPT ![p].todo = SessionOpening \o HandlerEvents[k]]
     /\ lock' = p
     /\ pc' = [pc EXCEPT ![p] = "emit"]
  \/ /\ k = "Declare"
     /\ mem' = [mem EXCEPT ![p] = Blank]
     /\ pc' = [pc EXCEPT ![p] = "idle"]
     /\ UNCHANGED lock

Acquire(p) ==
  LET s == mem[p].sess
      k == mem[p].kind IN
  /\ pc[p] = "wait"
  /\ LockFree
  /\ \/ Resumable(s) /\ ResumeAt(p, k, ResumedState(s)) /\ UNCHANGED faults
     \/ Resumable(s) /\ ResumeAt(p, k, ScannedState(s)) /\ Fault("read")
     \/ ~Resumable(s) /\ StartAnew(p, k) /\ UNCHANGED faults
     \/ Resumable(s) /\ StartAnew(p, k) /\ Fault("read")
  /\ UNCHANGED <<disk, transcript, answered, nextId, invoked, used>>

(***************************************************************************)
(* _finalise chains the next event in the process's memory, and the sink   *)
(* appends it - or fails to, which nobody downstream is told.              *)
(***************************************************************************)
Chained(p, type, turn) ==
  [sess |-> mem[p].sess, type |-> type, turn |-> turn,
   seq |-> mem[p].seq + 1, prev |-> mem[p].last, id |-> nextId]

Write(line) ==
  /\ \/ /\ sink' = IF open THEN sink ELSE Append(sink, line)
        /\ open' = FALSE
        /\ UNCHANGED faults
     \/ /\ Fault("drop")
        /\ UNCHANGED <<sink, open>>
     \/ /\ Fault("tear")
        /\ sink' = IF open THEN sink ELSE Append(sink, Garbage)
        /\ open' = TRUE
  /\ nextId' = nextId + 1
  /\ UNCHANGED <<exists, sidecar, emitted, transcript, lock, pc, answered,
                 invoked, used>>

EmitEvent(p) ==
  /\ pc[p] = "emit"
  /\ mem[p].todo # <<>>
  /\ Write(Chained(p, Head(mem[p].todo), NoTurn))
  /\ mem' = [mem EXCEPT ![p].seq = @ + 1, ![p].last = nextId, ![p].todo = Tail(@)]

(***************************************************************************)
(* The token batch.  The transcript is parsed now, unless the gate did;    *)
(* turns the sidecar lists as emitted are skipped - none, when it cannot   *)
(* be read; the others are written in transcript order.                    *)
(***************************************************************************)
ParseTranscript(p) ==
  LET s == mem[p].sess
      n == IF mem[p].carried = NoParse THEN transcript[s] ELSE mem[p].carried IN
  /\ pc[p] = "emit"
  /\ mem[p].todo = <<>>
  /\ mem[p].kind = "End"
  /\ \/ /\ mem' = [mem EXCEPT ![p].batch = Unreported(s, n)]
        /\ UNCHANGED faults
     \/ /\ mem' = [mem EXCEPT ![p].batch = Emittable(n)]
        /\ Fault("read")
  /\ pc' = [pc EXCEPT ![p] = "batch"]
  /\ UNCHANGED <<disk, transcript, lock, answered, nextId, invoked, used>>

NextTurn(p, t) == t \in mem[p].batch /\ \A u \in mem[p].batch : t <= u

EmitTurn(p, t) ==
  /\ pc[p] = "batch"
  /\ NextTurn(p, t)
  /\ Write(Chained(p, "TURN", t))
  /\ mem' = [mem EXCEPT ![p].seq = @ + 1, ![p].last = nextId,
                        ![p].batch = @ \ {t}, ![p].newly = @ \cup {t}]

(***************************************************************************)
(* An event that fails its schema has consumed its sequence number, keeps  *)
(* the chain's last id, and is not written.  A declaration then returns    *)
(* None without refreshing the sidecar.                                    *)
(***************************************************************************)
GivesUpWhenInvalid(p) == mem[p].kind = "Declare"

BuildFails(p) ==
  /\ Fault("invalid")
  /\ \/ /\ pc[p] = "emit" /\ mem[p].todo # <<>> /\ ~GivesUpWhenInvalid(p)
        /\ mem' = [mem EXCEPT ![p].seq = @ + 1, ![p].todo = Tail(@)]
        /\ UNCHANGED <<pc, lock>>
     \/ /\ pc[p] = "batch"
        /\ \E t \in Turns :
             /\ NextTurn(p, t)
             /\ mem' = [mem EXCEPT ![p].seq = @ + 1, ![p].batch = @ \ {t}]
        /\ UNCHANGED <<pc, lock>>
     \/ /\ pc[p] = "emit" /\ mem[p].todo # <<>> /\ GivesUpWhenInvalid(p)
        /\ mem' = [mem EXCEPT ![p] = Blank]
        /\ pc' = [pc EXCEPT ![p] = "idle"]
        /\ lock' = NoProc
  /\ UNCHANGED <<disk, transcript, answered, nextId, invoked, used>>

Merged(p) == emitted[mem[p].sess] \cup mem[p].newly

RecordTurns(p) ==
  /\ pc[p] = "batch"
  /\ mem[p].batch = {}
  /\ \/ /\ emitted' = [emitted EXCEPT ![mem[p].sess] = Merged(p)]
        /\ UNCHANGED faults
     \/ /\ mem[p].newly # {}
        /\ Fault("sidecar")
        /\ UNCHANGED emitted
  /\ pc' = [pc EXCEPT ![p] = "refresh"]
  /\ UNCHANGED <<sink, open, exists, sidecar, transcript, lock, mem, answered,
                 nextId, invoked, used>>

(***************************************************************************)
(* The sidecar is told the end of the chain as the process remembers it,   *)
(* at the offset of the last line of the FILE (the first line when it is   *)
(* empty), unless no event was ever built.  The lock is released and a     *)
(* declaration returns its event's id.                                     *)
(***************************************************************************)
ReadyToRefresh(p) ==
  \/ pc[p] = "refresh"
  \/ pc[p] = "emit" /\ mem[p].todo = <<>> /\ mem[p].kind # "End"

LastLine == IF Len(sink) = 0 THEN 1 ELSE Len(sink)

Refresh(p) ==
  LET end == [seq |-> mem[p].seq, id |-> mem[p].last, off |-> LastLine] IN
  /\ ReadyToRefresh(p)
  /\ \/ /\ mem[p].last # NoId
        /\ sidecar' = [sidecar EXCEPT ![mem[p].sess] = end]
        /\ UNCHANGED faults
     \/ /\ mem[p].last = NoId
        /\ UNCHANGED <<sidecar, faults>>
     \/ /\ mem[p].last # NoId
        /\ Fault("sidecar")
        /\ UNCHANGED sidecar
  /\ answered' = IF mem[p].kind = "Declare" THEN answered \cup {mem[p].last} ELSE answered
  /\ lock' = NoProc
  /\ pc' = [pc EXCEPT ![p] = "idle"]
  /\ mem' = [mem EXCEPT ![p] = Blank]
  /\ UNCHANGED <<sink, open, exists, emitted, transcript, nextId, invoked, used>>

-----------------------------------------------------------------------------
(***************************************************************************)
(* The environment.  The kernel drops a dead process's flock.              *)
(***************************************************************************)
FreedFrom(p) == IF lock = p THEN NoProc ELSE lock

Crash(p) ==
  /\ pc[p] # "idle"
  /\ Fault("crash")
  /\ pc' = [pc EXCEPT ![p] = "idle"]
  /\ mem' = [mem EXCEPT ![p] = Blank]
  /\ lock' = FreedFrom(p)
  /\ UNCHANGED <<disk, transcript, answered, nextId, invoked, used>>

LoseSidecar ==
  /\ Fault("lose")
  /\ sidecar' = [s \in Sessions |-> NoEntry]
  /\ emitted' = [s \in Sessions |-> {}]
  /\ UNCHANGED <<sink, open, exists, transcript, lock, pc, mem, answered,
                 nextId, invoked, used>>

FlushTurn(s) ==
  /\ transcript[s] < MaxTurns
  /\ transcript' = [transcript EXCEPT ![s] = @ + 1]
  /\ UNCHANGED <<disk, lock, pc, mem, answered, nextId, invoked, faults, used>>

Finished ==
  /\ invoked = MaxInvocations
  /\ \A p \in Procs : pc[p] = "idle"
  /\ UNCHANGED vars

(***************************************************************************)
(* The steps a live process takes by itself, once started.                 *)
(***************************************************************************)
Step(p) ==
  \/ Open(p)
  \/ Acquire(p)
  \/ EmitEvent(p)
  \/ ParseTranscript(p)
  \/ \E t \in Turns : EmitTurn(p, t)
  \/ RecordTurns(p)
  \/ Refresh(p)

Next ==
  \/ \E p \in Procs :
       \/ \E s \in Sessions, k \in Kinds : Launch(p, s, k)
       \/ "End" \in Kinds /\ \E s \in Sessions : GateEmpty(p, s)
       \/ Step(p)
       \/ BuildFails(p)
       \/ Crash(p)
  \/ LoseSidecar
  \/ \E s \in Sessions : FlushTurn(s)
  \/ Finished

Spec == Init /\ [][Next]_vars

(***************************************************************************)
(* A started process keeps running until it ends or is killed.  flock is   *)
(* not fair, but each rival takes it once and MaxInvocations bounds them,  *)
(* so weak fairness of the steps is enough.                                *)
(***************************************************************************)
FairSpec == Spec /\ \A p \in Procs : WF_vars(Step(p))

-----------------------------------------------------------------------------
(***************************************************************************)
(* PROPERTIES                                                              *)
(***************************************************************************)

(***************************************************************************)
(* Chain: with working reads and writes and no crash, the file is one      *)
(* unbroken chain per session, whatever hooks of whatever sessions race    *)
(* for the lock and whenever the sidecar is deleted: the sidecar is        *)
(* advisory.  (sink_lock, resume_session_state, update_session_state.)     *)
(***************************************************************************)
TC == INSTANCE TraceChain WITH log <- sink

Chain == TC!Spec

(***************************************************************************)
(* What a fault may break is broken only once it has struck.               *)
(***************************************************************************)
Spared(kinds) == \A f \in kinds : faults[f] = 0

(***************************************************************************)
(* Forkless: along a session's lines the sequence number strictly grows,   *)
(* so none is issued twice.  ("If the sidecar contradicts the sink, the    *)
(* sink wins", resumption.py.)                                             *)
(***************************************************************************)
Forkless ==
  \A i, j \in DOMAIN sink :
    (i < j /\ sink[i].sess = sink[j].sess /\ sink[i].sess # NoSession)
      => sink[i].seq < sink[j].seq

(***************************************************************************)
(* NoFork: until a process is killed, or cannot update the sidecar or read *)
(* the sink, the file does not fork, although writes fail, tear or are     *)
(* rejected while the process's own count runs ahead of the file.          *)
(***************************************************************************)
NoFork == Spared({"crash", "sidecar", "read"}) => Forkless

(***************************************************************************)
(* ChainsOntoWritten: killed processes, failed reads and sidecar entries   *)
(* that are stale but still name a valid event may fork a trace, but never *)
(* leave an event hanging: each one is a registration with sequence 1 or   *)
(* continues an event of its session already on disk.                      *)
(***************************************************************************)
Continues(e, f) == f.sess = e.sess /\ f.id = e.prev /\ f.seq + 1 = e.seq

ChainsOntoWritten ==
  Spared({"drop", "tear", "invalid"}) =>
    \A j \in DOMAIN sink :
      \/ sink[j].type = "REG" /\ sink[j].seq = 1 /\ sink[j].prev = NoId
      \/ \E i \in 1..(j - 1) : Continues(sink[j], sink[i])

(***************************************************************************)
(* OneRegistration: as long as the sink can be read, nothing that fails,   *)
(* is killed or is lost makes a session register its agent twice in one    *)
(* trace.  ("None means no prior event found - treat this as a new         *)
(* session", resume_session_state.)                                        *)
(***************************************************************************)
RegisteredOnce ==
  \A i, j \in DOMAIN sink :
    (sink[i].type = "REG" /\ sink[j].type = "REG" /\ sink[i].sess = sink[j].sess)
      => i = j

OneRegistration == Spared({"read"}) => RegisteredOnce

(***************************************************************************)
(* ResumedFaithfully: a process picks up its session where the file leaves *)
(* it: at an event that is on disk, with the session registered            *)
(* (resume_session_state, run_hook), until the faults each part names.     *)
(***************************************************************************)
ResumedFaithfully == ChainsOntoWritten /\ OneRegistration

(***************************************************************************)
(* RecordedTurnsWereWritten: a turn the sidecar lists as emitted, which no *)
(* SessionEnd will report again, is in the trace - also when processes die *)
(* between the batch and its record, or the record is lost.                *)
(***************************************************************************)
Reported(s, t) ==
  \E i \in DOMAIN sink : sink[i].type = "TURN" /\ sink[i].sess = s /\ sink[i].turn = t

RecordedTurnsWereWritten ==
  Spared({"drop", "tear"}) => \A s \in Sessions : \A t \in emitted[s] : Reported(s, t)

(***************************************************************************)
(* TurnsAtMostOnce: however often SessionEnd fires and however the         *)
(* transcript grows between, a turn's tokens are in the trace once, unless *)
(* the record of what was reported did not reach the sidecar, was lost or  *)
(* could not be read.                                                      *)
(***************************************************************************)
TurnsAtMostOnce ==
  Spared({"crash", "sidecar", "lose", "read"}) =>
    \A i, j \in DOMAIN sink :
      (/\ sink[i].type = "TURN" /\ sink[j].type = "TURN"
       /\ sink[i].sess = sink[j].sess /\ sink[i].turn = sink[j].turn) => i = j

(***************************************************************************)
(* NoGhostTrace: a session of which only SessionEnd was ever seen, and     *)
(* whose transcript reports nothing, leaves no event - also when several   *)
(* SessionEnds race and some are killed.  For one session per file, and    *)
(* while transcripts can be inspected: the gate asks whether the FILE      *)
(* exists.                                                                 *)
(***************************************************************************)
NoGhostTrace ==
  Spared({"stat"}) =>
    \A s \in Sessions :
      LinesOf(sink, s) # {} => s \in used \/ 1..transcript[s] \ SilentTurns # {}

(***************************************************************************)
(* Declared: an id declare_intent has answered with is that of a           *)
(* declaration in the trace.  ("Returns the new event's id, or None if     *)
(* nothing was written", emit_intent_declaration.)                         *)
(***************************************************************************)
Declared ==
  \A a \in answered : \E i \in DOMAIN sink : sink[i].id = a /\ sink[i].type = "DECL"

(***************************************************************************)
(* AnsweredIsDeclared: so it is, also when processes are killed, events    *)
(* are invalid and the sidecar is lost, until a write fails.               *)
(***************************************************************************)
AnsweredIsDeclared == Spared({"drop", "tear"}) => Declared

(***************************************************************************)
(* SaysWhatItWrote: what the code says it has written - a turn recorded as *)
(* emitted, a declaration answered with its id - is in the file, and a     *)
(* turn once only (record_emitted_turns, emit_intent_declaration), until   *)
(* the faults each part names.                                             *)
(***************************************************************************)
SaysWhatItWrote == RecordedTurnsWereWritten /\ TurnsAtMostOnce /\ AnsweredIsDeclared

(***************************************************************************)
(* InvocationEnds: every hook process ends - none waits forever on a lock  *)
(* whose holder was killed.                                                *)
(***************************************************************************)
InvocationEnds == \A p \in Procs : pc[p] # "idle" ~> pc[p] = "idle"

(***************************************************************************)
(* TurnsReported: every emittable turn that is flushed by the time a       *)
(* SessionEnd holds the lock is eventually in the trace, by that batch or  *)
(* an earlier one, unless the batch is killed or an event of it fails.     *)
(***************************************************************************)
Ending(s) ==
  \E p \in Procs : /\ pc[p] = "emit" /\ mem[p].kind = "End"
                   /\ mem[p].sess = s /\ mem[p].carried = NoParse

TurnsReported ==
  \A s \in Sessions, t \in Turns \ SilentTurns :
    (Ending(s) /\ t <= transcript[s])
      ~> (Reported(s, t) \/ ~Spared({"crash", "drop", "tear", "invalid"}))
=============================================================================
