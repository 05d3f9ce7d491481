--------------------------- MODULE SessionManager ---------------------------
(***************************************************************************)
(* The in-process session registry, shared by the threads of one runtime   *)
(* (MCP wrapper, LangChain handler, Pydantic AI capability), the builder   *)
(* that numbers and chains their events, and the reaper thread that closes *)
(* idle sessions.                                                          *)
(*                                                                         *)
(* What runs under the registry lock is one action: no other thread sees   *)
(* its middle, which is why IDLE and CLOSING are never observed.  What     *)
(* runs between two locks is not: numbering holds the session's own lock,  *)
(* the write to the sink holds none, and the reaper lets go of the         *)
(* registry between choosing the sessions to close and closing each.       *)
(*                                                                         *)
(* session_start makes a NEW _SessionEntry even for an id it already knows *)
(* and the registry forgets the old one, which a thread or the reaper may  *)
(* still hold: entries are numbered handles, `sessions' the registry.      *)
(***************************************************************************)
EXTENDS Integers, Sequences, FiniteSets

CONSTANTS
  Threads,       \* threads that emit events
  NoThread,      \* nobody holds a session's lock
  Sessions,      \* session ids
  Agents,
  AgentOf,       \* the agent each session is started for
  Modes,         \* the values of allow_concurrent that callers pass
  Reopened,      \* session ids that may be started again
  MaxEntries,    \* bound: entries ever created
  MaxEvents      \* bound: events ever numbered

ASSUME ConstantsAssumption ==
  /\ NoThread \notin Threads
  /\ AgentOf \in [Sessions -> Agents]
  /\ Modes \subseteq BOOLEAN
  /\ Reopened \subseteq Sessions
  /\ Sessions # {}
  /\ MaxEntries \in Nat \ {0}
  /\ MaxEvents \in Nat

VARIABLES
  entries,     \* the _SessionEntry objects
  created,     \* how many of them exist
  sessions,    \* _sessions: the entry registered for each id
  live,        \* _agent_sessions: the session ids live for each agent
  reaping,     \* to_close: the entries the reaper has chosen
  pc,          \* where each emitting thread stands
  mem,         \* what each emitting thread holds
  trace,       \* events in the order the sink received them
  nextId,      \* the next event id
  built        \* history: the events that passed their schema

registry == <<created, sessions, live>>
vars     == <<entries, registry, reaping, pc, mem, trace, nextId, built>>

NoId    == 0                \* last_event_id = None
NoEntry == 0                \* the id is not in the registry
Handles == 1..MaxEntries

Event == [sess : Sessions, entry : Handles, seq : Nat, prev : Nat, id : Nat]

Entry == [sess : Sessions, state : {"ACTIVE", "CLOSED"}, seq : Nat, last : Nat,
          idle : BOOLEAN,                   \* no activity for the timeout
          lock : Threads \cup {NoThread}]

AnySession == CHOOSE s \in Sessions : TRUE

Unborn == [sess |-> AnySession, state |-> "CLOSED", seq |-> 0, last |-> NoId,
           idle |-> FALSE, lock |-> NoThread]

(***************************************************************************)
(* From "lock" on, mem[t] grows into the event being built.                *)
(***************************************************************************)
States == {"idle", "lock", "number", "build", "touch", "write"}

Blank == [sess |-> AnySession, entry |-> 1, seq |-> 0, prev |-> NoId, id |-> NoId]

TypeOK ==
  /\ entries \in [Handles -> Entry]
  /\ created \in 0..MaxEntries
  /\ sessions \in [Sessions -> 0..created]
  /\ live \in [Agents -> SUBSET Sessions]
  /\ reaping \in SUBSET (1..created)
  /\ pc \in [Threads -> States]
  /\ mem \in [Threads -> Event]
  /\ \A t \in Threads : pc[t] # "idle" => mem[t].entry \in 1..created
  /\ trace \in Seq(Event)
  /\ nextId \in Nat \ {NoId}
  /\ built \in SUBSET Event

Init ==
  /\ entries = [h \in Handles |-> Unborn]
  /\ created = 0
  /\ sessions = [s \in Sessions |-> NoEntry]
  /\ live = [a \in Agents |-> {}]
  /\ reaping = {}
  /\ pc = [t \in Threads |-> "idle"]
  /\ mem = [t \in Threads |-> Blank]
  /\ trace = <<>>
  /\ nextId = 1
  /\ built = {}

Active(s) == sessions[s] # NoEntry /\ entries[sessions[s]].state = "ACTIVE"

-----------------------------------------------------------------------------
(***************************************************************************)
(* What plausible bugs would make of some of the definitions below.  None  *)
(* is used in Spec; each shows that a property notices.                    *)
(***************************************************************************)
\* Of Unindexed: closing one session drops its agent's whole set.
AgentDropped(h) == [live EXCEPT ![AgentOf[entries[h].sess]] = {}]

\* Of LockFree: numbering does not take the session's lock.
NoLock(h) == TRUE

\* Of AfterFailure: the lock is kept when the event fails its schema.
KeepsLock(h) == entries

\* Of Overdue: a session that has not emitted yet is never idle.
OnceEmitted(s) == Active(s) /\ entries[sessions[s]].idle /\ entries[sessions[s]].seq > 0

\* Of Registered: threads start on handles that do not exist yet.
Unchecked(s) == TRUE

-----------------------------------------------------------------------------
(***************************************************************************)
(* Lifecycle, each operation under the registry lock.                      *)
(***************************************************************************)
Closed(h) == [entries[h] EXCEPT !.state = "CLOSED"]

\* Closing discards this session from its agent's set, and no other.
Unindexed(h) ==
  LET s == entries[h].sess IN [live EXCEPT ![AgentOf[s]] = @ \ {s}]

(***************************************************************************)
(* The sessions a start force-closes: all others of the agent, unless the  *)
(* caller allows them to run alongside.                                    *)
(***************************************************************************)
Prior(s, concurrent) ==
  IF concurrent THEN {} ELSE {r \in live[AgentOf[s]] \ {s} : Active(r)}

SessionStart(s, concurrent) ==
  LET gone == Prior(s, concurrent)
      h    == created + 1 IN
  /\ created < MaxEntries
  /\ sessions[s] = NoEntry \/ s \in Reopened
  /\ entries' = [e \in Handles |->
                   IF e = h THEN [Unborn EXCEPT !.sess = s, !.state = "ACTIVE"]
                   ELSE IF \E r \in gone : sessions[r] = e THEN Closed(e)
                   ELSE entries[e]]
  /\ created' = h
  /\ sessions' = [sessions EXCEPT ![s] = h]
  /\ live' = [live EXCEPT ![AgentOf[s]] = (@ \ gone) \cup {s}]
  /\ UNCHANGED <<reaping, pc, mem, trace, nextId, built>>

SessionEnd(s) ==
  /\ Active(s)
  /\ entries' = [entries EXCEPT ![sessions[s]] = Closed(sessions[s])]
  /\ live' = Unindexed(sessions[s])
  /\ UNCHANGED <<created, sessions, reaping, pc, mem, trace, nextId, built>>

(***************************************************************************)
(* The reaper.  A session is overdue when nothing has touched it for the   *)
(* timeout; the closes that follow look neither at the clock nor at the    *)
(* registry again.                                                         *)
(***************************************************************************)
Overdue(s) == Active(s) /\ entries[sessions[s]].idle

ReaperScan ==
  /\ reaping = {}
  /\ reaping' = {sessions[s] : s \in {r \in Sessions : Overdue(r)}}
  /\ UNCHANGED <<entries, registry, pc, mem, trace, nextId, built>>

ReaperClose(h) ==
  /\ h \in reaping
  /\ entries' = [entries EXCEPT ![h] = Closed(h)]
  /\ live' = Unindexed(h)
  /\ reaping' = reaping \ {h}
  /\ UNCHANGED <<created, sessions, pc, mem, trace, nextId, built>>

\* The timeout passes without activity.
TimePasses(h) ==
  /\ h \in 1..created
  /\ ~entries[h].idle
  /\ entries' = [entries EXCEPT ![h].idle = TRUE]
  /\ UNCHANGED <<registry, reaping, pc, mem, trace, nextId, built>>

-----------------------------------------------------------------------------
(***************************************************************************)
(* One event of a thread, from _finalise to the sink.  acquire_sequence    *)
(* finds the entry under the registry lock and does not ask for its state: *)
(* a closed session still emits.                                           *)
(***************************************************************************)
Registered(s) == sessions[s] # NoEntry

AcquireSequence(t, s) ==
  /\ pc[t] = "idle"
  /\ Registered(s)
  /\ nextId <= MaxEvents
  /\ mem' = [mem EXCEPT ![t] = [Blank EXCEPT !.sess = s, !.entry = sessions[s],
                                            !.id = nextId]]
  /\ nextId' = nextId + 1
  /\ pc' = [pc EXCEPT ![t] = "lock"]
  /\ UNCHANGED <<entries, registry, reaping, trace, built>>

LockFree(h) == entries[h].lock = NoThread

Enter(t) ==
  LET h == mem[t].entry IN
  /\ pc[t] = "lock"
  /\ LockFree(h)
  /\ entries' = [entries EXCEPT ![h].lock = t]
  /\ pc' = [pc EXCEPT ![t] = "number"]
  /\ UNCHANGED <<registry, reaping, mem, trace, nextId, built>>

\* next_sequence and last_event_id.
NextSequence(t) ==
  LET h == mem[t].entry IN
  /\ pc[t] = "number"
  /\ entries' = [entries EXCEPT ![h].seq = @ + 1]
  /\ mem' = [mem EXCEPT ![t].seq = entries[h].seq + 1, ![t].prev = entries[h].last]
  /\ pc' = [pc EXCEPT ![t] = "build"]
  /\ UNCHANGED <<registry, reaping, trace, nextId, built>>

\* The event is valid: the chain now ends with it, and the lock is let go.
Built(t) ==
  LET h == mem[t].entry IN
  /\ pc[t] = "build"
  /\ entries' = [entries EXCEPT ![h].last = mem[t].id, ![h].lock = NoThread]
  /\ built' = built \cup {mem[t]}
  /\ pc' = [pc EXCEPT ![t] = "touch"]
  /\ UNCHANGED <<registry, reaping, mem, trace, nextId>>

\* It is not: the number is spent, the chain's end stays, nothing is written.
AfterFailure(h) == [entries EXCEPT ![h].lock = NoThread]

Invalid(t) ==
  /\ pc[t] = "build"
  /\ entries' = AfterFailure(mem[t].entry)
  /\ pc' = [pc EXCEPT ![t] = "idle"]
  /\ mem' = [mem EXCEPT ![t] = Blank]
  /\ UNCHANGED <<registry, reaping, trace, nextId, built>>

\* touch looks the session up again: it may find a newer entry than ours.
Touch(t) ==
  /\ pc[t] = "touch"
  /\ entries' = [entries EXCEPT ![sessions[mem[t].sess]].idle = FALSE]
  /\ pc' = [pc EXCEPT ![t] = "write"]
  /\ UNCHANGED <<registry, reaping, mem, trace, nextId, built>>

\* SinkWriter.write, under no lock; a failed write loses the event.
WriteEvent(t) ==
  /\ pc[t] = "write"
  /\ trace' = Append(trace, mem[t]) \/ UNCHANGED trace
  /\ pc' = [pc EXCEPT ![t] = "idle"]
  /\ mem' = [mem EXCEPT ![t] = Blank]
  /\ UNCHANGED <<entries, registry, reaping, nextId, built>>

-----------------------------------------------------------------------------
Emit(t) ==
  \/ Enter(t)
  \/ NextSequence(t)
  \/ Built(t)
  \/ Invalid(t)
  \/ Touch(t)
  \/ WriteEvent(t)

Reap == ReaperScan \/ \E h \in Handles : ReaperClose(h)

Next ==
  \/ \E s \in Sessions :
       \/ \E c \in Modes : SessionStart(s, c)
       \/ SessionEnd(s)
       \/ \E t \in Threads : AcquireSequence(t, s)
  \/ \E t \in Threads : Emit(t)
  \/ Reap
  \/ \E h \in Handles : TimePasses(h)

Spec == Init /\ [][Next]_vars

(***************************************************************************)
(* Threads run, the reaper's loop never ends, and each close it has        *)
(* decided on follows.  Weak fairness is enough for the session locks: a   *)
(* rival emits at most MaxEvents times.                                    *)
(***************************************************************************)
FairSpec == /\ Spec
            /\ \A t \in Threads : WF_vars(Emit(t))
            /\ WF_vars(Reap)

-----------------------------------------------------------------------------
(***************************************************************************)
(* PROPERTIES                                                              *)
(***************************************************************************)

(***************************************************************************)
(* OneChain: whatever threads emit for a session, whatever starts, ends or *)
(* reaps it meanwhile and whichever events fail their schema, the events   *)
(* built for one entry are one chain in the order of their numbers: no two *)
(* share an id or a number, and each names as its predecessor the event of *)
(* the same entry with the next smaller number - none only when it is the  *)
(* first.  The trace holds such events, in any order, and none twice; the  *)
(* predecessor of one is not in it when its write failed.                  *)
(* (acquire_sequence, _finalise.)                                          *)
(***************************************************************************)
Apart(e, f) == e.id # f.id /\ (e.entry = f.entry => e.seq # f.seq)

Before(e) == {f \in built : f.entry = e.entry /\ f.seq < e.seq}

\* id is that of the last of the events S, NoId when there is none.
Ends(S, id) ==
  IF S = {} THEN id = NoId
  ELSE \E f \in S : f.id = id /\ \A g \in S : g.seq <= f.seq

OneChain ==
  /\ \A e, f \in built : e # f => Apart(e, f)
  /\ \A e \in built : Ends(Before(e), e.prev)
  /\ \A i \in DOMAIN trace : trace[i] \in built
  /\ \A i, j \in DOMAIN trace : i # j => trace[i] # trace[j]

(***************************************************************************)
(* StartsAlone: a start that does not allow concurrent sessions leaves no  *)
(* other session of its agent active - also when others were started       *)
(* alongside each other before, and the reaper is at work.                 *)
(* (session_start: "every session already live for this agent is           *)
(* force-closed before the new one opens".)                                *)
(***************************************************************************)
Siblings(s) == {r \in Sessions \ {s} : AgentOf[r] = AgentOf[s]}

StartsAlone ==
  [][\A s \in Sessions :
       SessionStart(s, FALSE) => \A r \in Siblings(s) : ~Active(r)']_vars

(***************************************************************************)
(* IdleIsReaped: a session nobody uses any more is closed in the end,      *)
(* whether or not it ever emitted.                                         *)
(***************************************************************************)
Abandoned(s) == Active(s) /\ entries[sessions[s]].idle

IdleIsReaped == \A s \in Sessions : Abandoned(s) ~> ~Abandoned(s)

(***************************************************************************)
(* EmissionEnds: no thread waits for ever for a session's lock, although   *)
(* events fail their schema while their thread holds it.                   *)
(***************************************************************************)
EmissionEnds == \A t \in Threads : pc[t] # "idle" ~> pc[t] = "idle"
=============================================================================
