----------------------- MODULE SessionManagerProofs -------------------------
(***************************************************************************)
(* Theorems about SessionManager: its type invariant, that the events of   *)
(* an entry form one chain, and that a start which does not allow          *)
(* concurrent sessions leaves its agent with one - when no session id is   *)
(* started twice.                                                          *)
(***************************************************************************)
EXTENDS SessionManager, TLAPS

(***************************************************************************)
(* Numbering is exclusive: who numbers or builds holds the entry's lock.   *)
(***************************************************************************)
Exclusive ==
  \A t \in Threads :
    pc[t] \in {"number", "build"} => entries[mem[t].entry].lock = t

\* The id a thread has not yet made the end of a chain is nobody else's.
Pending(t) == pc[t] \in {"lock", "number", "build"}

PendingIdsAreFresh ==
  \A t \in Threads : Pending(t) =>
    /\ mem[t].id < nextId
    /\ mem[t].id # NoId
    /\ \A u \in Threads \ {t} : Pending(u) => mem[u].id # mem[t].id

\* A thread that builds knows the end of its entry's chain.
BuildsOnTheEnd ==
  \A t \in Threads : pc[t] = "build" =>
    /\ mem[t].seq  = entries[mem[t].entry].seq
    /\ mem[t].prev = entries[mem[t].entry].last

(***************************************************************************)
(* A built event has an id nobody else will use, and a number below all    *)
(* that its entry has still to give, or has given to a thread that builds. *)
(***************************************************************************)
Sealed(e) ==
  /\ e.entry \in 1..created
  /\ e.id < nextId
  /\ e.seq <= entries[e.entry].seq
  /\ \A t \in Threads : Pending(t) => e.id # mem[t].id
  /\ \A t \in Threads :
       pc[t] = "build" /\ mem[t].entry = e.entry => e.seq < mem[t].seq

\* The entry remembers the last event of its chain.
Of(h) == {f \in built : f.entry = h}

EndsKnown == \A h \in Handles : Ends(Of(h), entries[h].last)

(***************************************************************************)
(* What is in the trace or on its way to it was built, and is there once.  *)
(***************************************************************************)
Flying(t) == pc[t] \in {"touch", "write"}

Underway ==
  /\ \A t \in Threads : Flying(t) =>
       mem[t] \in built /\ \A i \in DOMAIN trace : trace[i] # mem[t]
  /\ \A t, u \in Threads : (t # u /\ Flying(t) /\ Flying(u)) => mem[t] # mem[u]

ChainInv ==
  /\ Exclusive
  /\ PendingIdsAreFresh
  /\ BuildsOnTheEnd
  /\ \A e \in built : Sealed(e)
  /\ EndsKnown
  /\ Underway
  /\ OneChain

(***************************************************************************)
(* The agent index misses no active session, and what the reaper is about  *)
(* to close is what the registry knows.                                    *)
(***************************************************************************)
IndexInv ==
  /\ \A s \in Sessions : Active(s) => s \in live[AgentOf[s]]
  /\ \A s \in Sessions : sessions[s] # NoEntry => entries[sessions[s]].sess = s
  /\ \A h \in reaping : sessions[entries[h].sess] = h

-----------------------------------------------------------------------------
LEMMA SomeSession == AnySession \in Sessions
  BY ConstantsAssumption DEF AnySession

LEMMA BlankTypes == Blank \in Event /\ Unborn \in Entry /\ 1 \in Handles
  BY SomeSession, ConstantsAssumption DEF Blank, Unborn, Event, Entry, Handles, NoId

LEMMA InitTyped == Init => TypeOK
  BY BlankTypes, ConstantsAssumption
  DEF Init, TypeOK, Handles, NoEntry, NoId, States

(***************************************************************************)
(* Lifecycle and reaper steps.                                             *)
(***************************************************************************)
LEMMA EntryStays ==
  ASSUME NEW e \in Entry
  PROVE  /\ [e EXCEPT !.state = "CLOSED"] \in Entry
         /\ [e EXCEPT !.idle = TRUE] \in Entry
  BY DEF Entry

LEMMA ClosedType ==
  ASSUME TypeOK, NEW h \in Handles
  PROVE  Closed(h) \in Entry
<1>1. entries[h] \in Entry
  BY DEF TypeOK
<1> QED
  BY <1>1, EntryStays DEF Closed

LEMMA UnindexedType ==
  ASSUME TypeOK, NEW h \in Handles
  PROVE  Unindexed(h) \in [Agents -> SUBSET Sessions]
  BY DEF TypeOK, Unindexed

LEMMA StartTyped ==
  ASSUME TypeOK, NEW s \in Sessions, NEW c \in Modes, SessionStart(s, c)
  PROVE  TypeOK'
<1>1. [Unborn EXCEPT !.sess = s, !.state = "ACTIVE"] \in Entry
  BY BlankTypes DEF Entry
<1>2. entries' \in [Handles -> Entry]
  BY <1>1, ClosedType DEF TypeOK, SessionStart
<1>3. created' \in 0..MaxEntries /\ created' = created + 1
  BY ConstantsAssumption DEF TypeOK, SessionStart
<1>4. sessions' \in [Sessions -> 0..created']
  BY <1>3, ConstantsAssumption DEF TypeOK, SessionStart
<1>5. live' \in [Agents -> SUBSET Sessions]
  BY DEF TypeOK, SessionStart, Prior
<1>6. reaping' \in SUBSET (1..created')
  BY <1>3 DEF TypeOK, SessionStart
<1>7. \A t \in Threads : pc'[t] # "idle" => mem'[t].entry \in 1..created'
  BY <1>3 DEF TypeOK, SessionStart
<1> QED
  BY <1>2, <1>3, <1>4, <1>5, <1>6, <1>7 DEF TypeOK, SessionStart

LEMMA LifecycleTyped ==
  ASSUME TypeOK,
         \/ \E s \in Sessions : SessionEnd(s)
         \/ Reap
         \/ \E h \in Handles : TimePasses(h)
  PROVE  TypeOK'
<1>1. CASE \E s \in Sessions : SessionEnd(s)
  <2>1. PICK s \in Sessions : SessionEnd(s)
    BY <1>1
  <2>2. sessions[s] \in Handles
    BY <2>1, ConstantsAssumption DEF TypeOK, SessionEnd, Active, NoEntry, Handles
  <2> QED
    BY <2>1, <2>2, ClosedType, UnindexedType DEF TypeOK, SessionEnd
<1>2. CASE ReaperScan
  <2>1. reaping' \in SUBSET (1..created)
    BY <1>2, ConstantsAssumption DEF TypeOK, ReaperScan, Overdue, Active, NoEntry
  <2> QED
    BY <1>2, <2>1 DEF TypeOK, ReaperScan, registry
<1>3. CASE \E h \in Handles : ReaperClose(h)
  BY <1>3, ClosedType, UnindexedType DEF TypeOK, ReaperClose
<1>4. CASE \E h \in Handles : TimePasses(h)
  <2>1. PICK h \in Handles : TimePasses(h)
    BY <1>4
  <2>2. [entries[h] EXCEPT !.idle = TRUE] \in Entry
    <3>1. entries[h] \in Entry
      BY DEF TypeOK
    <3> QED
      BY <3>1, EntryStays
  <2>3. entries' = [entries EXCEPT ![h] = [entries[h] EXCEPT !.idle = TRUE]]
    BY <2>1 DEF TimePasses, TypeOK
  <2> QED
    BY <2>1, <2>2, <2>3 DEF TypeOK, TimePasses, registry
<1> QED
  BY <1>1, <1>2, <1>3, <1>4 DEF Reap

(***************************************************************************)
(* Emission steps.                                                         *)
(***************************************************************************)
LEMMA AcquireTyped ==
  ASSUME TypeOK, NEW t \in Threads, NEW s \in Sessions, AcquireSequence(t, s)
  PROVE  TypeOK'
<1>1. sessions[s] \in 1..created /\ sessions[s] \in Handles
  BY ConstantsAssumption DEF TypeOK, AcquireSequence, Registered, NoEntry, Handles
<1>2. [Blank EXCEPT !.sess = s, !.entry = sessions[s], !.id = nextId] \in Event
  BY <1>1, BlankTypes DEF Event, TypeOK
<1>3. mem' \in [Threads -> Event]
  BY <1>2 DEF TypeOK, AcquireSequence
<1>4. mem'[t].entry = sessions[s] /\ \A u \in Threads \ {t} : mem'[u] = mem[u]
  BY DEF TypeOK, AcquireSequence, Blank
<1>5. \A u \in Threads : pc'[u] # "idle" => mem'[u].entry \in 1..created
  BY <1>1, <1>4 DEF TypeOK, AcquireSequence
<1>6. nextId' \in Nat \ {NoId} /\ pc' \in [Threads -> States]
  BY DEF TypeOK, AcquireSequence, States, NoId
<1> QED
  BY <1>3, <1>5, <1>6 DEF TypeOK, AcquireSequence, registry

LEMMA EmitTyped ==
  ASSUME TypeOK, NEW t \in Threads, Emit(t)
  PROVE  TypeOK'
<1> DEFINE h == mem[t].entry
<1>h. h \in Handles /\ mem[t] \in Event
  BY DEF TypeOK, Event
<1>e. entries[h] \in Entry
  BY <1>h DEF TypeOK
<1>1. CASE Enter(t)
  <2>1. [entries[h] EXCEPT !.lock = t] \in Entry
    BY <1>e DEF Entry
  <2>2. entries' = [entries EXCEPT ![h] = [entries[h] EXCEPT !.lock = t]]
    BY <1>1 DEF Enter
  <2>3. entries' \in [Handles -> Entry]
    BY <2>1, <2>2 DEF TypeOK
  <2> QED
    BY <1>1, <2>3 DEF TypeOK, Enter, registry, States
<1>2. CASE NextSequence(t)
  <2>0. entries[h].seq \in Nat /\ entries[h].last \in Nat
    BY <1>e DEF Entry
  <2> DEFINE n == entries[h].seq + 1
             l == entries[h].last
  <2>n. n \in Nat /\ l \in Nat
    BY <2>0
  <2>2. entries' = [entries EXCEPT ![h] = [entries[h] EXCEPT !.seq = n]]
    BY <1>2 DEF NextSequence
  <2>3. mem' = [mem EXCEPT ![t] = [mem[t] EXCEPT !.seq = n, !.prev = l]]
    BY <1>2 DEF NextSequence, TypeOK
  <2> HIDE DEF n, l
  <2>4. [entries[h] EXCEPT !.seq = n] \in Entry
    BY <1>e, <2>n DEF Entry
  <2>5. [mem[t] EXCEPT !.seq = n, !.prev = l] \in Event
    BY <1>h, <2>n DEF Event
  <2>6. \A u \in Threads : mem'[u].entry = mem[u].entry
    BY <2>3 DEF TypeOK, Event
  <2>7. entries' \in [Handles -> Entry] /\ mem' \in [Threads -> Event]
    BY <2>2, <2>3, <2>4, <2>5 DEF TypeOK
  <2>8. \A u \in Threads : pc'[u] # "idle" => mem'[u].entry \in 1..created
    BY <1>2, <2>6 DEF TypeOK, NextSequence
  <2> QED
    BY <1>2, <2>7, <2>8 DEF TypeOK, NextSequence, registry, States
<1>3. CASE Built(t)
  <2>1. [entries[h] EXCEPT !.last = mem[t].id, !.lock = NoThread] \in Entry
    BY <1>e, <1>h DEF Entry, Event
  <2>2. entries' = [entries EXCEPT ![h] =
                      [entries[h] EXCEPT !.last = mem[t].id, !.lock = NoThread]]
    BY <1>3 DEF Built
  <2>3. entries' \in [Handles -> Entry]
    BY <2>1, <2>2 DEF TypeOK
  <2> QED
    BY <1>3, <2>3 DEF TypeOK, Built, registry, States
<1>4. CASE Invalid(t)
  <2>1. [entries[h] EXCEPT !.lock = NoThread] \in Entry
    BY <1>e DEF Entry
  <2>2. entries' = [entries EXCEPT ![h] = [entries[h] EXCEPT !.lock = NoThread]]
    BY <1>4 DEF Invalid, AfterFailure
  <2>3. entries' \in [Handles -> Entry]
    BY <2>1, <2>2 DEF TypeOK
  <2> QED
    BY <1>4, <2>3, BlankTypes DEF TypeOK, Invalid, registry, States
<1>5. CASE Touch(t)
  <2> DEFINE k == sessions[mem[t].sess]
  <2>1. \A g \in Handles : [entries[g] EXCEPT !.idle = FALSE] \in Entry
    BY DEF TypeOK, Entry
  <2>2. entries' = [entries EXCEPT ![k] = [entries[k] EXCEPT !.idle = FALSE]]
    BY <1>5 DEF Touch
  <2>3. entries' \in [Handles -> Entry]
    BY <2>1, <2>2 DEF TypeOK
  <2> QED
    BY <1>5, <2>3 DEF TypeOK, Touch, registry, States
<1>6. CASE WriteEvent(t)
  <2>0. trace \in Seq(Event) /\ trace' \in {trace, Append(trace, mem[t])}
    BY <1>6 DEF TypeOK, WriteEvent
  <2>1. trace' \in Seq(Event)
    BY <2>0, <1>h
  <2> QED
    BY <1>6, <2>1, BlankTypes DEF TypeOK, WriteEvent, registry, States
<1> QED
  BY <1>1, <1>2, <1>3, <1>4, <1>5, <1>6 DEF Emit

LEMMA NextTyped == TypeOK /\ [Next]_vars => TypeOK'
<1> SUFFICES ASSUME TypeOK, [Next]_vars PROVE TypeOK'
  OBVIOUS
<1>1. CASE Next
  BY <1>1, StartTyped, LifecycleTyped, AcquireTyped, EmitTyped DEF Next
<1>2. CASE UNCHANGED vars
  BY <1>2 DEF TypeOK, vars, registry
<1> QED
  BY <1>1, <1>2

(***************************************************************************)
(* Every state of SessionManager is well-typed; in particular no thread    *)
(* and no reaper holds an entry that does not exist.                       *)
(***************************************************************************)
THEOREM Typing == Spec => []TypeOK
  BY InitTyped, NextTyped, PTL DEF Spec

-----------------------------------------------------------------------------
(***************************************************************************)
(* Exclusive starts.                                                       *)
(***************************************************************************)
StartedOnce == Reopened = {}

LEMMA IndexInit == Init => IndexInv
  BY DEF Init, IndexInv, Active

LEMMA IndexStart ==
  ASSUME TypeOK, IndexInv, StartedOnce,
         NEW s \in Sessions, NEW c \in Modes, SessionStart(s, c)
  PROVE  IndexInv'
<1> DEFINE h == created + 1
<1>0. sessions[s] = NoEntry
  BY DEF SessionStart, StartedOnce
<1>1. h \in Handles /\ h \notin 1..created /\ h # NoEntry
  BY ConstantsAssumption DEF SessionStart, TypeOK, Handles, NoEntry
<1>2. sessions' = [sessions EXCEPT ![s] = h] /\ reaping' = reaping
  BY DEF SessionStart
<1>3. \A e \in Handles \ {h} :
        /\ entries'[e].sess = entries[e].sess
        /\ entries'[e].state = "ACTIVE" => entries[e] = entries'[e]
        /\ (\E r \in Prior(s, c) : sessions[r] = e) => entries'[e].state # "ACTIVE"
  BY DEF SessionStart, Closed, TypeOK, Entry
<1>4. entries'[h].sess = s
  BY <1>1 DEF SessionStart, Unborn
<1>5. live' = [live EXCEPT ![AgentOf[s]] = (@ \ Prior(s, c)) \cup {s}]
  BY DEF SessionStart
<1> HIDE DEF h
<1>6. \A r \in Sessions \ {s} : sessions'[r] = sessions[r] /\ sessions[r] \in 0..created
  BY <1>2 DEF TypeOK
<1>7. sessions'[s] = h
  BY <1>2 DEF TypeOK
<1>8. \A r \in Sessions \ {s} : sessions[r] # NoEntry => sessions[r] \in Handles \ {h}
  BY <1>1, <1>6, ConstantsAssumption DEF TypeOK, NoEntry, Handles
<1>9. ASSUME NEW r \in Sessions, Active(r)'
      PROVE  r \in live'[AgentOf[r]]
  <2>1. CASE r = s
    BY <2>1, <1>5, ConstantsAssumption DEF TypeOK
  <2>2. CASE r # s
    <3>1. sessions[r] # NoEntry /\ sessions[r] \in Handles \ {h}
      BY <2>2, <1>9, <1>6, <1>8 DEF Active
    <3>2. entries'[sessions[r]].state = "ACTIVE"
      BY <2>2, <1>9, <1>6 DEF Active
    <3>3. Active(r) /\ r \notin Prior(s, c)
      BY <3>1, <3>2, <1>3 DEF Active
    <3>4. r \in live[AgentOf[r]]
      BY <3>3 DEF IndexInv
    <3> QED
      BY <3>3, <3>4, <1>5, ConstantsAssumption DEF TypeOK
  <2> QED
    BY <2>1, <2>2
<1>10. ASSUME NEW r \in Sessions, sessions'[r] # NoEntry
       PROVE  entries'[sessions'[r]].sess = r
  BY <1>10, <1>3, <1>4, <1>6, <1>7, <1>8 DEF IndexInv
<1>11. ASSUME NEW g \in reaping'
       PROVE  sessions'[entries'[g].sess] = g
  <2>1. g \in reaping /\ g \in Handles \ {h}
    BY <1>2, <1>11, <1>1, ConstantsAssumption DEF TypeOK, Handles, h
  <2>2. sessions[entries[g].sess] = g /\ g # NoEntry /\ entries[g].sess \in Sessions
    BY <2>1, ConstantsAssumption DEF IndexInv, NoEntry, Handles, TypeOK, Entry
  <2> QED
    BY <2>1, <2>2, <1>0, <1>3, <1>6
<1> QED
  BY <1>9, <1>10, <1>11 DEF IndexInv

\* Closing the entry the registry knows keeps the index.
LEMMA IndexClose ==
  ASSUME TypeOK, IndexInv, NEW s \in Sessions, sessions[s] # NoEntry,
         entries' = [entries EXCEPT ![sessions[s]] = Closed(sessions[s])],
         live' = Unindexed(sessions[s]),
         UNCHANGED <<created, sessions>>,
         reaping' \subseteq reaping
  PROVE  IndexInv'
<1> DEFINE h == sessions[s]
<1>1. h \in Handles /\ entries[h].sess = s
  BY ConstantsAssumption DEF TypeOK, NoEntry, Handles, IndexInv
<1>2. /\ \A e \in Handles : entries'[e].sess = entries[e].sess
      /\ \A e \in Handles \ {h} : entries'[e] = entries[e]
      /\ entries'[h].state = "CLOSED"
  BY <1>1 DEF Closed, TypeOK, Entry
<1>3. live' = [live EXCEPT ![AgentOf[s]] = @ \ {s}]
  BY <1>1 DEF Unindexed
<1>4. \A r \in Sessions : sessions[r] # NoEntry => sessions[r] \in Handles
  BY ConstantsAssumption DEF TypeOK, NoEntry, Handles
<1>5. ASSUME NEW r \in Sessions, Active(r)'
      PROVE  r \in live'[AgentOf[r]]
  <2>1. Active(r) /\ r # s
    BY <1>5, <1>2, <1>4 DEF Active
  <2> QED
    BY <2>1, <1>3, ConstantsAssumption DEF IndexInv, TypeOK
<1>6. reaping' \subseteq Handles
  BY ConstantsAssumption DEF TypeOK, Handles
<1> QED
  BY <1>2, <1>4, <1>5, <1>6 DEF IndexInv

\* Steps that neither close nor register anything.
LEMMA IndexKept ==
  ASSUME TypeOK, IndexInv, UNCHANGED registry, reaping' \subseteq reaping,
         \A e \in Handles : entries'[e].sess = entries[e].sess
                           /\ entries'[e].state = entries[e].state
  PROVE  IndexInv'
<1>1. \A r \in Sessions : sessions[r] # NoEntry => sessions[r] \in Handles
  BY ConstantsAssumption DEF TypeOK, NoEntry, Handles
<1>2. reaping' \subseteq Handles
  BY ConstantsAssumption DEF TypeOK, Handles
<1> QED
  BY <1>1, <1>2 DEF IndexInv, registry, Active

LEMMA EntryFields ==
  ASSUME TypeOK, NEW e \in Handles, NEW f \in Handles
  PROVE  /\ [entries EXCEPT ![f].idle = TRUE][e].sess = entries[e].sess
         /\ [entries EXCEPT ![f].idle = TRUE][e].state = entries[e].state
         /\ [entries EXCEPT ![f].idle = FALSE][e].sess = entries[e].sess
         /\ [entries EXCEPT ![f].idle = FALSE][e].state = entries[e].state
  BY DEF TypeOK, Entry

LEMMA IndexNext ==
  ASSUME TypeOK, IndexInv, StartedOnce, [Next]_vars
  PROVE  IndexInv'
<1>1. CASE \E s \in Sessions : \E c \in Modes : SessionStart(s, c)
  BY <1>1, IndexStart
<1>2. CASE \E s \in Sessions : SessionEnd(s)
  BY <1>2, IndexClose DEF SessionEnd, Active
<1>3. CASE \E s \in Sessions, t \in Threads : AcquireSequence(t, s)
  BY <1>3, IndexKept DEF AcquireSequence
<1>4. CASE \E t \in Threads : Emit(t)
  <2>1. PICK t \in Threads : Emit(t)
    BY <1>4
  <2>2. mem[t].entry \in Handles
    BY DEF TypeOK, Event
  <2>3. UNCHANGED registry /\ reaping' = reaping
    BY <2>1 DEF Emit, Enter, NextSequence, Built, Invalid, Touch, WriteEvent
  <2>4. ASSUME NEW e \in Handles
        PROVE  entries'[e].sess = entries[e].sess /\ entries'[e].state = entries[e].state
    <3>1. CASE Enter(t)
      BY <3>1, <2>2 DEF Enter, TypeOK, Entry
    <3>2. CASE NextSequence(t)
      BY <3>2, <2>2 DEF NextSequence, TypeOK, Entry
    <3>3. CASE Built(t)
      BY <3>3, <2>2 DEF Built, TypeOK, Entry
    <3>4. CASE Invalid(t)
      BY <3>4, <2>2 DEF Invalid, AfterFailure, TypeOK, Entry
    <3>5. CASE Touch(t)
      BY <3>5 DEF Touch, TypeOK, Entry
    <3>6. CASE WriteEvent(t)
      BY <3>6 DEF WriteEvent
    <3> QED
      BY <2>1, <3>1, <3>2, <3>3, <3>4, <3>5, <3>6 DEF Emit
  <2> QED
    BY <2>3, <2>4, IndexKept
<1>5. CASE ReaperScan
  <2>1. \A h \in reaping' : \E s \in Sessions : sessions[s] # NoEntry /\ h = sessions[s]
    BY <1>5 DEF ReaperScan, Overdue, Active
  <2>2. UNCHANGED <<entries, created, sessions, live>>
    BY <1>5 DEF ReaperScan, registry
  <2>3. \A h \in reaping' : sessions[entries[h].sess] = h
    BY <2>1 DEF IndexInv
  <2> QED
    BY <2>2, <2>3 DEF IndexInv, Active
<1>6. CASE \E h \in Handles : ReaperClose(h)
  <2>1. PICK h \in Handles : ReaperClose(h)
    BY <1>6
  <2>2. h \in reaping /\ sessions[entries[h].sess] = h /\ entries[h].sess \in Sessions
        /\ h # NoEntry
    BY <2>1, ConstantsAssumption DEF ReaperClose, IndexInv, TypeOK, Entry, Handles, NoEntry
  <2> DEFINE s == entries[h].sess
  <2>3. /\ entries' = [entries EXCEPT ![sessions[s]] = Closed(sessions[s])]
        /\ live' = Unindexed(sessions[s])
        /\ UNCHANGED <<created, sessions>>
        /\ reaping' \subseteq reaping
    BY <2>1, <2>2 DEF ReaperClose
  <2> QED
    BY <2>2, <2>3, IndexClose
<1>7. CASE \E h \in Handles : TimePasses(h)
  BY <1>7, IndexKept, EntryFields DEF TimePasses
<1>8. CASE UNCHANGED vars
  BY <1>8, IndexKept DEF vars
<1> QED
  BY <1>1, <1>2, <1>3, <1>4, <1>5, <1>6, <1>7, <1>8 DEF Next, Reap

LEMMA StartCloses ==
  ASSUME TypeOK, IndexInv, NEW s \in Sessions, SessionStart(s, FALSE),
         NEW r \in Siblings(s)
  PROVE  ~Active(r)'
<1> SUFFICES ASSUME Active(r)' PROVE FALSE
  OBVIOUS
<1> DEFINE h == created + 1
<1>1. r \in Sessions /\ r # s /\ AgentOf[r] = AgentOf[s]
  BY DEF Siblings
<1>2. sessions'[r] = sessions[r] /\ sessions[r] # NoEntry
  BY <1>1 DEF SessionStart, Active, TypeOK
<1>3. sessions[r] \in Handles /\ sessions[r] # h
  BY <1>1, <1>2, ConstantsAssumption DEF TypeOK, Handles, NoEntry
<1>4. entries'[sessions[r]].state = "ACTIVE"
  BY <1>2 DEF Active
<1>5. ~\E q \in Prior(s, FALSE) : sessions[q] = sessions[r]
  BY <1>3, <1>4 DEF SessionStart, Closed, TypeOK, Entry
<1>6. entries[sessions[r]].state = "ACTIVE"
  BY <1>3, <1>4, <1>5 DEF SessionStart
<1>7. Active(r) /\ r \in live[AgentOf[s]]
  BY <1>1, <1>2, <1>6 DEF Active, IndexInv
<1> QED
  BY <1>1, <1>5, <1>7 DEF Prior

(***************************************************************************)
(* When no session id is started twice, an exclusive start leaves every    *)
(* other session of its agent closed, whatever mixture of exclusive and    *)
(* concurrent starts, ends and reaps went before it.                       *)
(***************************************************************************)
THEOREM ExclusiveStarts ==
  ASSUME StartedOnce
  PROVE  Spec => StartsAlone
<1>1. Init => TypeOK /\ IndexInv
  BY InitTyped, IndexInit
<1>2. TypeOK /\ IndexInv /\ [Next]_vars => (TypeOK /\ IndexInv)'
  BY NextTyped, IndexNext
<1>3. TypeOK /\ IndexInv =>
        [\A s \in Sessions :
           SessionStart(s, FALSE) => \A r \in Siblings(s) : ~Active(r)']_vars
  BY StartCloses
<1> QED
  BY <1>1, <1>2, <1>3, PTL DEF Spec, StartsAlone

-----------------------------------------------------------------------------
(***************************************************************************)
(* One chain per entry.                                                    *)
(***************************************************************************)
LEMMA ChainInit == Init => ChainInv
<1> SUFFICES ASSUME Init PROVE ChainInv
  OBVIOUS
<1>1. built = {} /\ trace = <<>> /\ \A t \in Threads : pc[t] = "idle"
  BY DEF Init
<1>2. \A h \in Handles : Of(h) = {} /\ entries[h].last = NoId
  BY <1>1 DEF Init, Of, Unborn
<1>3. EndsKnown
  BY <1>2 DEF EndsKnown, Ends
<1>4. Exclusive /\ PendingIdsAreFresh /\ BuildsOnTheEnd /\ Underway
  BY <1>1 DEF Exclusive, PendingIdsAreFresh, Pending, BuildsOnTheEnd, Underway, Flying
<1>5. OneChain
  BY <1>1 DEF OneChain
<1> QED
  BY <1>1, <1>3, <1>4, <1>5 DEF ChainInv

\* A step that builds nothing and writes nothing leaves the events as they are.
LEMMA EventsStay ==
  ASSUME UNCHANGED built
  PROVE  /\ \A h \in Handles : Of(h)' = Of(h)
         /\ \A e \in built : Before(e)' = Before(e)
  BY DEF Of, Before

LEMMA ChainStays ==
  ASSUME UNCHANGED <<built, trace>>, OneChain
  PROVE  OneChain'
<1>1. \A e \in built : Before(e)' = Before(e)
  BY EventsStay
<1> QED
  BY <1>1 DEF OneChain

LEMMA EndsStay ==
  ASSUME UNCHANGED built, EndsKnown,
         \A h \in Handles : entries'[h].last = entries[h].last
  PROVE  EndsKnown'
<1>1. \A h \in Handles : Of(h)' = Of(h)
  BY EventsStay
<1> QED
  BY <1>1 DEF EndsKnown

\* So does one in which no event reaches the sink.
LEMMA UnderwayStays ==
  ASSUME UNCHANGED <<built, trace>>, Underway,
         \A t \in Threads : Flying(t)' => Flying(t) /\ mem'[t] = mem[t]
  PROVE  Underway'
<1>1. built' = built /\ trace' = trace
  OBVIOUS
<1> QED
  BY <1>1 DEF Underway

\* Closing an entry, or its growing idle, leaves every entry's chain alone.
LEMMA CountersStay ==
  ASSUME NEW f \in [Handles -> Entry], NEW h \in Handles, NEW g,
         \/ g = [f EXCEPT ![h] = [f[h] EXCEPT !.state = "CLOSED"]]
         \/ g = [f EXCEPT ![h] = [f[h] EXCEPT !.idle = TRUE]]
  PROVE  \A e \in Handles : /\ g[e].seq  = f[e].seq
                             /\ g[e].last = f[e].last
                             /\ g[e].lock = f[e].lock
<1>1. f[h] \in Entry
  OBVIOUS
<1>2. /\ g[h].seq = f[h].seq /\ g[h].last = f[h].last /\ g[h].lock = f[h].lock
  BY <1>1 DEF Entry
<1>3. \A e \in Handles \ {h} : g[e] = f[e]
  OBVIOUS
<1> QED
  BY <1>2, <1>3

\* Steps that no emission takes part in.
LEMMA ChainLifecycle ==
  ASSUME TypeOK, ChainInv, TypeOK',
         UNCHANGED <<pc, mem, trace, nextId, built>>,
         created' >= created,
         \A e \in Handles :
           /\ e \in 1..created => /\ entries'[e].seq  = entries[e].seq
                                 /\ entries'[e].last = entries[e].last
                                 /\ entries'[e].lock = entries[e].lock
           /\ entries'[e].last \in {entries[e].last, NoId}
  PROVE  ChainInv'
<1>1. \A t \in Threads : pc[t] # "idle" =>
        /\ mem[t].entry \in 1..created
        /\ mem[t].entry \in Handles
  BY ConstantsAssumption DEF TypeOK, Handles
<1>2. Exclusive'
  BY <1>1 DEF ChainInv, Exclusive
<1>3. PendingIdsAreFresh'
  BY DEF ChainInv, PendingIdsAreFresh, Pending
<1>4. BuildsOnTheEnd'
  BY <1>1 DEF ChainInv, BuildsOnTheEnd
<1>5. ASSUME NEW e \in built PROVE Sealed(e)'
  <2>1. e.entry \in 1..created /\ e.entry \in Handles /\ Sealed(e)
    BY DEF ChainInv, Sealed, TypeOK, Event
  <2> QED
    BY <2>1 DEF Sealed, Pending, TypeOK
<1>6. EndsKnown'
  <2>1. \A h \in Handles : Of(h)' = Of(h)
    BY EventsStay
  <2>2. \A h \in Handles : h \notin 1..created => Of(h) = {}
    BY DEF ChainInv, Sealed, Of
  <2>3. ASSUME NEW h \in Handles PROVE Ends(Of(h), entries'[h].last)
    <3>1. Ends(Of(h), entries[h].last)
      BY DEF ChainInv, EndsKnown
    <3>2. CASE h \in 1..created
      BY <3>1, <3>2
    <3>3. CASE h \notin 1..created
      BY <3>1, <3>3, <2>2 DEF Ends
    <3> QED
      BY <3>2, <3>3
  <2> QED
    BY <2>1, <2>3 DEF EndsKnown
<1>7. Underway'
  BY UnderwayStays DEF ChainInv, Flying
<1>8. OneChain'
  BY ChainStays DEF ChainInv
<1> QED
  BY <1>2, <1>3, <1>4, <1>5, <1>6, <1>7, <1>8 DEF ChainInv

LEMMA LifecycleChains ==
  ASSUME TypeOK, ChainInv, TypeOK',
         \/ \E s \in Sessions : \E c \in Modes : SessionStart(s, c)
         \/ \E s \in Sessions : SessionEnd(s)
         \/ Reap
         \/ \E h \in Handles : TimePasses(h)
  PROVE  ChainInv'
<1>1. CASE \E s \in Sessions : \E c \in Modes : SessionStart(s, c)
  <2>1. PICK s \in Sessions, c \in Modes : SessionStart(s, c)
    BY <1>1
  <2> DEFINE h == created + 1
  <2>2. \A e \in Handles \ {h} :
          /\ entries'[e].seq  = entries[e].seq
          /\ entries'[e].last = entries[e].last
          /\ entries'[e].lock = entries[e].lock
    <3>1. \A e \in Handles \ {h} : entries'[e] = Closed(e) \/ entries'[e] = entries[e]
      BY <2>1 DEF SessionStart
    <3>2. \A e \in Handles : /\ Closed(e).seq  = entries[e].seq
                              /\ Closed(e).last = entries[e].last
                              /\ Closed(e).lock = entries[e].lock
      BY DEF Closed, TypeOK, Entry
    <3> HIDE DEF h
    <3> QED
      BY <3>1, <3>2
  <2>3. h \in Handles => entries'[h].last = NoId
    BY <2>1 DEF SessionStart, Unborn
  <2>4. created' >= created /\ h \notin 1..created
    <3>1. created \in Nat
      BY ConstantsAssumption DEF TypeOK
    <3>2. created' = h
      BY <2>1 DEF SessionStart
    <3> QED
      BY <3>1, <3>2
  <2>5. UNCHANGED <<pc, mem, trace, nextId, built>>
    BY <2>1 DEF SessionStart
  <2> HIDE DEF h
  <2> QED
    BY <2>2, <2>3, <2>4, <2>5, ChainLifecycle
<1>2. CASE \E s \in Sessions : SessionEnd(s)
  <2>1. PICK s \in Sessions : SessionEnd(s)
    BY <1>2
  <2>2. UNCHANGED <<pc, mem, trace, nextId, built>> /\ created' >= created
    BY <2>1 DEF SessionEnd, TypeOK
  <2>3. /\ sessions[s] \in Handles
        /\ entries' = [entries EXCEPT ![sessions[s]] =
                         [entries[sessions[s]] EXCEPT !.state = "CLOSED"]]
    BY <2>1, ConstantsAssumption
    DEF SessionEnd, Active, Closed, TypeOK, Handles, NoEntry
  <2>4. \A e \in Handles : /\ entries'[e].seq  = entries[e].seq
                            /\ entries'[e].last = entries[e].last
                            /\ entries'[e].lock = entries[e].lock
    BY <2>3, CountersStay DEF TypeOK
  <2> QED
    BY <2>2, <2>4, ChainLifecycle
<1>3. CASE ReaperScan
  <2>1. UNCHANGED <<pc, mem, trace, nextId, built, entries>> /\ created' >= created
    BY <1>3 DEF ReaperScan, registry, TypeOK
  <2> QED
    BY <2>1, ChainLifecycle
<1>4. CASE \E h \in Handles : ReaperClose(h)
  <2>1. PICK h \in Handles : ReaperClose(h)
    BY <1>4
  <2>2. UNCHANGED <<pc, mem, trace, nextId, built>> /\ created' >= created
    BY <2>1 DEF ReaperClose, TypeOK
  <2>3. entries' = [entries EXCEPT ![h] = [entries[h] EXCEPT !.state = "CLOSED"]]
    BY <2>1 DEF ReaperClose, Closed
  <2>4. \A e \in Handles : /\ entries'[e].seq  = entries[e].seq
                            /\ entries'[e].last = entries[e].last
                            /\ entries'[e].lock = entries[e].lock
    BY <2>3, CountersStay DEF TypeOK
  <2> QED
    BY <2>2, <2>4, ChainLifecycle
<1>5. CASE \E h \in Handles : TimePasses(h)
  <2>1. PICK h \in Handles : TimePasses(h)
    BY <1>5
  <2>2. UNCHANGED <<pc, mem, trace, nextId, built>> /\ created' >= created
    BY <2>1 DEF TimePasses, registry, TypeOK
  <2>3. entries' = [entries EXCEPT ![h] = [entries[h] EXCEPT !.idle = TRUE]]
    BY <2>1 DEF TimePasses, TypeOK
  <2>4. \A e \in Handles : /\ entries'[e].seq  = entries[e].seq
                            /\ entries'[e].last = entries[e].last
                            /\ entries'[e].lock = entries[e].lock
    BY <2>3, CountersStay DEF TypeOK
  <2> QED
    BY <2>2, <2>4, ChainLifecycle
<1> QED
  BY <1>1, <1>2, <1>3, <1>4, <1>5 DEF Reap

LEMMA AcquireChains ==
  ASSUME TypeOK, ChainInv, TypeOK',
         NEW t \in Threads, NEW s \in Sessions, AcquireSequence(t, s)
  PROVE  ChainInv'
<1>1. /\ UNCHANGED <<entries, created, trace, built>>
      /\ nextId' = nextId + 1 /\ nextId \in Nat
      /\ pc[t] = "idle" /\ pc'[t] = "lock" /\ mem'[t].id = nextId
      /\ \A u \in Threads \ {t} : pc'[u] = pc[u] /\ mem'[u] = mem[u]
  BY DEF AcquireSequence, TypeOK, Blank, registry
<1>2. Exclusive'
  BY <1>1 DEF ChainInv, Exclusive
<1>3. PendingIdsAreFresh'
  <2>1. \A u \in Threads : mem[u].id \in Nat
    BY DEF TypeOK, Event
  <2>2. nextId # NoId
    BY DEF TypeOK
  <2> QED
    BY <1>1, <2>1, <2>2 DEF ChainInv, PendingIdsAreFresh, Pending
<1>4. BuildsOnTheEnd'
  BY <1>1 DEF ChainInv, BuildsOnTheEnd
<1>5. ASSUME NEW e \in built PROVE Sealed(e)'
  <2>1. e.id \in Nat /\ Sealed(e)
    BY DEF TypeOK, Event, ChainInv
  <2> QED
    BY <1>1, <2>1 DEF Sealed, Pending
<1>6. EndsKnown'
  BY <1>1, EndsStay DEF ChainInv
<1>7. Underway'
  BY <1>1, UnderwayStays DEF ChainInv, Flying
<1>8. OneChain'
  BY <1>1, ChainStays DEF ChainInv
<1> QED
  BY <1>1, <1>2, <1>3, <1>4, <1>5, <1>6, <1>7, <1>8 DEF ChainInv

LEMMA EnterChains ==
  ASSUME TypeOK, ChainInv, TypeOK', NEW t \in Threads, Enter(t)
  PROVE  ChainInv'
<1> DEFINE h == mem[t].entry
<1>h. h \in Handles
  BY DEF TypeOK, Event
<1>1. /\ UNCHANGED <<created, trace, mem, nextId, built>>
      /\ pc[t] = "lock" /\ pc'[t] = "number"
      /\ \A u \in Threads \ {t} : pc'[u] = pc[u]
      /\ \A e \in Handles : entries'[e].seq = entries[e].seq /\ entries'[e].last = entries[e].last
      /\ \A e \in Handles \ {h} : entries'[e].lock = entries[e].lock
      /\ entries[h].lock = NoThread /\ entries'[h].lock = t
  BY <1>h DEF Enter, LockFree, TypeOK, Entry, registry
<1>2. \A u \in Threads : mem[u].entry \in Handles /\ u # NoThread
  BY ConstantsAssumption DEF TypeOK, Event
<1>3. Exclusive'
  BY <1>1, <1>2 DEF ChainInv, Exclusive
<1>4. PendingIdsAreFresh'
  BY <1>1 DEF ChainInv, PendingIdsAreFresh, Pending
<1>5. BuildsOnTheEnd'
  BY <1>1, <1>2 DEF ChainInv, BuildsOnTheEnd
<1>6. ASSUME NEW e \in built PROVE Sealed(e)'
  <2>1. e.entry \in Handles /\ Sealed(e)
    BY DEF TypeOK, Event, ChainInv
  <2> QED
    BY <1>1, <2>1 DEF Sealed, Pending
<1>7. EndsKnown'
  BY <1>1, EndsStay DEF ChainInv
<1>8. Underway'
  BY <1>1, UnderwayStays DEF ChainInv, Flying
<1>9. OneChain'
  BY <1>1, ChainStays DEF ChainInv
<1> QED
  BY <1>1, <1>3, <1>4, <1>5, <1>6, <1>7, <1>8, <1>9 DEF ChainInv

LEMMA NumberChains ==
  ASSUME TypeOK, ChainInv, TypeOK', NEW t \in Threads, NextSequence(t)
  PROVE  ChainInv'
<1> DEFINE h == mem[t].entry
           n == entries[h].seq + 1
           l == entries[h].last
<1>h. h \in Handles /\ entries[h].seq \in Nat /\ l \in Nat
  BY DEF TypeOK, Event, Entry
<1>n. n \in Nat /\ n > entries[h].seq
  BY <1>h
<1>x. /\ entries' = [entries EXCEPT ![h] = [entries[h] EXCEPT !.seq = n]]
      /\ mem' = [mem EXCEPT ![t] = [mem[t] EXCEPT !.seq = n, !.prev = l]]
  BY DEF NextSequence, TypeOK
<1> HIDE DEF n
<1>1. /\ UNCHANGED <<created, trace, nextId, built>>
      /\ pc[t] = "number" /\ pc'[t] = "build"
      /\ \A u \in Threads \ {t} : pc'[u] = pc[u] /\ mem'[u] = mem[u]
      /\ \A e \in Handles : entries'[e].lock = entries[e].lock /\ entries'[e].last = entries[e].last
      /\ \A e \in Handles \ {h} : entries'[e].seq = entries[e].seq
  <2>1. /\ UNCHANGED <<created, trace, nextId, built>>
        /\ pc[t] = "number" /\ pc' = [pc EXCEPT ![t] = "build"]
    BY DEF NextSequence, registry
  <2>2. \A u \in Threads \ {t} : mem'[u] = mem[u]
    BY <1>x DEF TypeOK
  <2>3. /\ \A e \in Handles : entries'[e].lock = entries[e].lock /\ entries'[e].last = entries[e].last
        /\ \A e \in Handles \ {h} : entries'[e].seq = entries[e].seq
    <3>1. entries[h] \in Entry /\ entries \in [Handles -> Entry]
      BY <1>h DEF TypeOK
    <3>2. entries'[h] = [entries[h] EXCEPT !.seq = n]
      BY <1>h, <1>x, <3>1
    <3>3. \A e \in Handles \ {h} : entries'[e] = entries[e]
      BY <1>x, <3>1
    <3>4. entries'[h].lock = entries[h].lock /\ entries'[h].last = entries[h].last
      BY <3>1, <3>2 DEF Entry
    <3> HIDE DEF h
    <3> QED
      BY <3>3, <3>4
  <2> QED
    BY <2>1, <2>2, <2>3 DEF TypeOK
<1>2. entries'[h].seq = n
  BY <1>h, <1>x DEF TypeOK, Entry
<1>3. /\ mem'[t].entry = h /\ mem'[t].id = mem[t].id
      /\ mem'[t].seq = n /\ mem'[t].prev = l
  BY <1>x DEF TypeOK, Event
<1>4. \A u \in Threads : mem[u].entry \in Handles
  BY DEF TypeOK, Event
<1>5. Exclusive'
  BY <1>1, <1>3, <1>4 DEF ChainInv, Exclusive
<1>6. PendingIdsAreFresh'
  BY <1>1, <1>3 DEF ChainInv, PendingIdsAreFresh, Pending
<1>7. BuildsOnTheEnd'
  <2>1. \A u \in Threads \ {t} : pc[u] = "build" => mem[u].entry # h
    BY <1>1 DEF ChainInv, Exclusive
  <2> QED
    BY <1>1, <1>2, <1>3, <1>4, <2>1, <1>h DEF ChainInv, BuildsOnTheEnd
<1>8. ASSUME NEW e \in built PROVE Sealed(e)'
  <2>1. e.entry \in Handles /\ e.seq \in Nat /\ Sealed(e)
    BY DEF TypeOK, Event, ChainInv
  <2>2. e.seq <= entries'[e.entry].seq
    <3>1. e.seq <= entries[e.entry].seq
      BY <2>1 DEF Sealed
    <3>2. CASE e.entry = h
      BY <3>1, <3>2, <1>h, <1>n, <1>2, <2>1
    <3>3. CASE e.entry # h
      BY <3>1, <3>3, <1>1, <2>1
    <3> QED
      BY <3>2, <3>3
  <2>3. \A u \in Threads : Pending(u)' => e.id # mem'[u].id
    BY <1>1, <1>3, <2>1 DEF Sealed, Pending
  <2>4. \A u \in Threads : pc'[u] = "build" /\ mem'[u].entry = e.entry => e.seq < mem'[u].seq
    <3>1. e.entry = h => e.seq < n
      BY <1>h, <1>n, <2>1 DEF Sealed
    <3> QED
      BY <1>1, <1>3, <2>1, <3>1 DEF Sealed
  <2> QED
    BY <1>1, <2>1, <2>2, <2>3, <2>4 DEF Sealed
<1>9. EndsKnown'
  BY <1>1, EndsStay DEF ChainInv
<1>10. Underway'
  BY <1>1, UnderwayStays DEF ChainInv, Flying
<1>11. OneChain'
  BY <1>1, ChainStays DEF ChainInv
<1> QED
  BY <1>1, <1>5, <1>6, <1>7, <1>8, <1>9, <1>10, <1>11 DEF ChainInv

(***************************************************************************)
(* Built: the event has a number above those of all events of its entry,   *)
(* and its predecessor was the last of them.                               *)
(***************************************************************************)
LEMMA BuiltChains ==
  ASSUME TypeOK, ChainInv, TypeOK', NEW t \in Threads, Built(t)
  PROVE  ChainInv'
<1>m. PICK m \in Event : m = mem[t]
  BY DEF TypeOK
<1>p. PICK h \in Handles : h = m.entry
  BY <1>m DEF Event
<1>h. /\ entries[h].seq \in Nat /\ entries[h].last \in Nat
      /\ m.seq \in Nat /\ m.id \in Nat /\ nextId \in Nat
  BY DEF TypeOK, Event, Entry
<1>1. /\ UNCHANGED <<created, trace, mem, nextId>>
      /\ built' = built \cup {m}
      /\ pc[t] = "build" /\ pc'[t] = "touch"
      /\ \A u \in Threads \ {t} : pc'[u] = pc[u]
      /\ \A e \in Handles : entries'[e].seq = entries[e].seq
      /\ \A e \in Handles \ {h} : entries'[e] = entries[e]
      /\ entries'[h].last = m.id
  BY SMTT(40), <1>m, <1>p DEF Built, TypeOK, Entry, registry
<1>2. \A u \in Threads : mem[u] \in Event /\ mem[u].entry \in Handles
  BY DEF TypeOK, Event
<1>3. \A e \in built : e.entry \in Handles /\ e.seq \in Nat /\ e.id \in Nat
  BY DEF TypeOK, Event
<1>4. \A u \in Threads \ {t} : pc[u] \in {"number", "build"} => mem[u].entry # h
  BY <1>m, <1>p, <1>1 DEF ChainInv, Exclusive
<1>5. /\ m.seq = entries[h].seq /\ m.prev = entries[h].last
      /\ m.id < nextId /\ h \in 1..created
  BY <1>m, <1>p, <1>1 DEF ChainInv, BuildsOnTheEnd, PendingIdsAreFresh, Pending, TypeOK
<1>6. \A e \in built : e.id # m.id /\ (e.entry = h => e.seq < m.seq)
  BY <1>m, <1>p, <1>1 DEF ChainInv, Sealed, Pending
<1>7. m \notin built
  BY <1>6
<1>8. Exclusive'
  BY <1>1, <1>2, <1>4 DEF ChainInv, Exclusive
<1>9. PendingIdsAreFresh'
  BY <1>1 DEF ChainInv, PendingIdsAreFresh, Pending
<1>10. BuildsOnTheEnd'
  BY <1>1, <1>2, <1>4 DEF ChainInv, BuildsOnTheEnd
<1>11. ASSUME NEW e \in built' PROVE Sealed(e)'
  <2>1. CASE e \in built
    <3>1. Sealed(e)
      BY <2>1 DEF ChainInv
    <3> QED
      BY <1>1, <1>3, <2>1, <3>1 DEF Sealed, Pending
  <2>2. CASE e = m
    <3>1. \A u \in Threads : Pending(u)' => u # t /\ Pending(u) /\ m.id # mem[u].id
      BY <1>m, <1>1 DEF ChainInv, PendingIdsAreFresh, Pending
    <3>2. \A u \in Threads : pc'[u] = "build" => mem[u].entry # h
      BY <1>1, <1>4
    <3> QED
      BY <1>p, <1>h, <1>1, <1>5, <2>2, <3>1, <3>2 DEF Sealed
  <2> QED
    BY <1>1, <2>1, <2>2
<1>12. EndsKnown'
  <2>1. \A g \in Handles \ {h} : Of(g)' = Of(g)
    BY <1>1, <1>p DEF Of
  <2>2. Of(h)' = Of(h) \cup {m}
    BY <1>1, <1>p DEF Of
  <2>3. \A g \in Of(h)' : g.seq <= m.seq
    BY <1>3, <1>6, <1>h, <2>2 DEF Of
  <2>4. Ends(Of(h)', m.id)
    BY <2>2, <2>3 DEF Ends
  <2> QED
    BY <1>1, <2>1, <2>4 DEF ChainInv, EndsKnown
<1>13. \A e \in built : Before(e)' = Before(e)
  <2>1. \A e \in built : ~(m.entry = e.entry /\ m.seq < e.seq)
    BY <1>3, <1>6, <1>h, <1>p
  <2> QED
    BY <1>1, <2>1 DEF Before
<1>14. Before(m)' = Of(h)
  <2>1. ~(m.seq < m.seq)
    BY <1>h
  <2> QED
    BY <1>1, <1>6, <1>p, <2>1 DEF Before, Of
<1>15. OneChain'
  <2>1. (\A e, f \in built : e # f => Apart(e, f))'
    <3>1. \A e \in built : Apart(e, m) /\ Apart(m, e)
      BY <1>3, <1>6, <1>h, <1>p DEF Apart
    <3> QED
      BY <1>1, <3>1 DEF ChainInv, OneChain
  <2>2. (\A e \in built : Ends(Before(e), e.prev))'
    <3>1. Ends(Of(h), m.prev)
      BY <1>5 DEF ChainInv, EndsKnown
    <3>2. \A e \in built : Ends(Before(e), e.prev)
      BY DEF ChainInv, OneChain
    <3> QED
      BY <1>1, <1>13, <1>14, <3>1, <3>2
  <2> QED
    BY <1>1, <2>1, <2>2 DEF ChainInv, OneChain
<1>16. Underway'
  <2>1. \A u \in Threads : Flying(u)' => u = t \/ Flying(u)
    BY <1>1 DEF Flying
  <2>2. \A i \in DOMAIN trace : trace[i] # m
    BY <1>7 DEF ChainInv, OneChain
  <2>3. \A u \in Threads : Flying(u) => mem[u] \in built /\ mem[u] # m
    BY <1>7 DEF ChainInv, Underway
  <2>4. mem'[t] = m /\ \A u \in Threads : mem'[u] = mem[u]
    BY <1>1, <1>m
  <2> QED
    BY <1>1, <2>1, <2>2, <2>3, <2>4 DEF ChainInv, Underway
<1> QED
  BY <1>8, <1>9, <1>10, <1>11, <1>12, <1>15, <1>16 DEF ChainInv

LEMMA InvalidChains ==
  ASSUME TypeOK, ChainInv, TypeOK', NEW t \in Threads, Invalid(t)
  PROVE  ChainInv'
<1> DEFINE h == mem[t].entry
<1>h. h \in Handles
  BY DEF TypeOK, Event
<1>1. /\ UNCHANGED <<created, trace, nextId, built>>
      /\ pc[t] = "build" /\ pc'[t] = "idle"
      /\ \A u \in Threads \ {t} : pc'[u] = pc[u] /\ mem'[u] = mem[u]
      /\ \A e \in Handles : entries'[e].seq = entries[e].seq /\ entries'[e].last = entries[e].last
      /\ \A e \in Handles \ {h} : entries'[e] = entries[e]
  BY <1>h DEF Invalid, AfterFailure, TypeOK, Entry, registry
<1>2. \A u \in Threads : mem[u].entry \in Handles
  BY DEF TypeOK, Event
<1>3. \A u \in Threads \ {t} : pc[u] \in {"number", "build"} => mem[u].entry # h
  BY <1>1 DEF ChainInv, Exclusive
<1>4. Exclusive'
  BY <1>1, <1>2, <1>3 DEF ChainInv, Exclusive
<1>5. PendingIdsAreFresh'
  BY <1>1 DEF ChainInv, PendingIdsAreFresh, Pending
<1>6. BuildsOnTheEnd'
  BY <1>1, <1>2, <1>3 DEF ChainInv, BuildsOnTheEnd
<1>7. ASSUME NEW e \in built PROVE Sealed(e)'
  <2>1. e.entry \in Handles /\ Sealed(e)
    BY DEF TypeOK, Event, ChainInv
  <2> QED
    BY <1>1, <2>1 DEF Sealed, Pending
<1>8. EndsKnown'
  BY <1>1, EndsStay DEF ChainInv
<1>9. Underway'
  BY <1>1, UnderwayStays DEF ChainInv, Flying
<1>10. OneChain'
  BY <1>1, ChainStays DEF ChainInv
<1> QED
  BY <1>1, <1>4, <1>5, <1>6, <1>7, <1>8, <1>9, <1>10 DEF ChainInv

LEMMA TouchChains ==
  ASSUME TypeOK, ChainInv, TypeOK', NEW t \in Threads, Touch(t)
  PROVE  ChainInv'
<1>1. /\ UNCHANGED <<created, trace, mem, nextId, built>>
      /\ pc[t] = "touch" /\ pc'[t] = "write"
      /\ \A u \in Threads \ {t} : pc'[u] = pc[u]
  BY DEF Touch, TypeOK, registry
<1>2. \A e \in Handles : /\ entries'[e].seq  = entries[e].seq
                          /\ entries'[e].last = entries[e].last
                          /\ entries'[e].lock = entries[e].lock
  BY SMTT(30) DEF Touch, TypeOK, Entry
<1>3. \A u \in Threads : mem[u].entry \in Handles
  BY DEF TypeOK, Event
<1>4. Exclusive' /\ PendingIdsAreFresh' /\ BuildsOnTheEnd'
  BY <1>1, <1>2, <1>3 DEF ChainInv, Exclusive, PendingIdsAreFresh, Pending, BuildsOnTheEnd
<1>5. ASSUME NEW e \in built PROVE Sealed(e)'
  <2>1. e.entry \in Handles /\ Sealed(e)
    BY DEF TypeOK, Event, ChainInv
  <2> QED
    BY <1>1, <1>2, <2>1 DEF Sealed, Pending
<1>6. EndsKnown'
  BY <1>1, <1>2, EndsStay DEF ChainInv
<1>7. Underway'
  BY <1>1, UnderwayStays DEF ChainInv, Flying
<1>8. OneChain'
  BY <1>1, ChainStays DEF ChainInv
<1> QED
  BY <1>1, <1>4, <1>5, <1>6, <1>7, <1>8 DEF ChainInv

LEMMA WriteChains ==
  ASSUME TypeOK, ChainInv, TypeOK', NEW t \in Threads, WriteEvent(t)
  PROVE  ChainInv'
<1>1. /\ UNCHANGED <<entries, created, nextId, built>>
      /\ pc[t] = "write" /\ pc'[t] = "idle"
      /\ \A u \in Threads \ {t} : pc'[u] = pc[u] /\ mem'[u] = mem[u]
      /\ trace' = Append(trace, mem[t]) \/ trace' = trace
  BY DEF WriteEvent, TypeOK, registry
<1>2. trace \in Seq(Event) /\ \A u \in Threads : mem[u] \in Event
  BY DEF TypeOK
<1>3. Exclusive' /\ PendingIdsAreFresh' /\ BuildsOnTheEnd'
  BY <1>1 DEF ChainInv, Exclusive, PendingIdsAreFresh, Pending, BuildsOnTheEnd
<1>4. ASSUME NEW e \in built PROVE Sealed(e)'
  <2>1. Sealed(e)
    BY DEF ChainInv
  <2> QED
    BY <1>1, <2>1 DEF Sealed, Pending
<1>5. EndsKnown'
  BY <1>1, EndsStay DEF ChainInv
<1>6. \A u \in Threads : Flying(u)' => u # t /\ Flying(u) /\ mem'[u] = mem[u]
  BY <1>1 DEF Flying
<1>7. Flying(t)
  BY <1>1 DEF Flying
<1>8. CASE trace' = trace
  <2>1. Underway'
    BY <1>1, <1>6, <1>8, UnderwayStays DEF ChainInv
  <2>2. OneChain'
    BY <1>1, <1>8, ChainStays DEF ChainInv
  <2> QED
    BY <1>1, <1>3, <1>4, <1>5, <2>1, <2>2 DEF ChainInv
<1>9. CASE trace' = Append(trace, mem[t])
  <2> DEFINE n == Len(trace)
  <2>1. n \in Nat /\ DOMAIN trace = 1..n /\ DOMAIN trace' = 1..(n + 1)
    BY <1>2, <1>9
  <2>2. \A i \in DOMAIN trace' :
          (i \in DOMAIN trace /\ trace'[i] = trace[i]) \/ (i = n + 1 /\ trace'[i] = mem[t])
    BY <1>2, <1>9, <2>1
  <2> HIDE DEF n
  <2>3. mem[t] \in built /\ \A i \in DOMAIN trace : trace[i] # mem[t]
    BY <1>7 DEF ChainInv, Underway
  <2>4. Underway'
    <3>1. ASSUME NEW u \in Threads, Flying(u)'
          PROVE  mem'[u] \in built /\ \A i \in DOMAIN trace' : trace'[i] # mem'[u]
      <4>1. u # t /\ Flying(u) /\ mem'[u] = mem[u]
        BY <1>6, <3>1
      <4>2. mem[u] # mem[t] /\ mem[u] \in built /\ \A i \in DOMAIN trace : trace[i] # mem[u]
        BY <4>1, <1>7 DEF ChainInv, Underway
      <4> QED
        BY <4>1, <4>2, <2>2
    <3>2. ASSUME NEW u \in Threads, NEW v \in Threads, u # v, Flying(u)', Flying(v)'
          PROVE  mem'[u] # mem'[v]
      BY <3>2, <1>6 DEF ChainInv, Underway
    <3> QED
      BY <1>1, <3>1, <3>2 DEF Underway
  <2>5. OneChain'
    <3>1. \A e \in built : Before(e)' = Before(e)
      BY <1>1, EventsStay
    <3>2. \A i \in DOMAIN trace' : trace'[i] \in built
      BY <2>2, <2>3 DEF ChainInv, OneChain
    <3>3. \A i, j \in DOMAIN trace' : i # j => trace'[i] # trace'[j]
      BY <2>2, <2>3 DEF ChainInv, OneChain
    <3> QED
      BY <1>1, <3>1, <3>2, <3>3 DEF ChainInv, OneChain
  <2> QED
    BY <1>1, <1>3, <1>4, <1>5, <2>4, <2>5 DEF ChainInv
<1> QED
  BY <1>1, <1>8, <1>9

LEMMA ChainNext ==
  ASSUME TypeOK, ChainInv, TypeOK', [Next]_vars
  PROVE  ChainInv'
<1>1. CASE Next
  BY <1>1, LifecycleChains, AcquireChains, EnterChains, NumberChains, BuiltChains,
     InvalidChains, TouchChains, WriteChains DEF Next, Emit
<1>2. CASE UNCHANGED vars
  <2>1. /\ UNCHANGED <<pc, mem, trace, nextId, built, entries, created>>
        /\ created \in Nat
    BY <1>2, ConstantsAssumption DEF vars, registry, TypeOK
  <2> QED
    BY <2>1, ChainLifecycle
<1> QED
  BY <1>1, <1>2

(***************************************************************************)
(* Whatever the number of threads and of sessions, and whatever starts,    *)
(* ends or reaps them in between, the events built for an entry form one   *)
(* chain in the order of their numbers, and the trace holds none twice.    *)
(***************************************************************************)
THEOREM Chained == Spec => []OneChain
<1>1. Init => TypeOK /\ ChainInv
  BY InitTyped, ChainInit
<1>2. TypeOK /\ ChainInv /\ [Next]_vars => (TypeOK /\ ChainInv)'
  BY NextTyped, ChainNext
<1>3. ChainInv => OneChain
  BY DEF ChainInv
<1> QED
  BY <1>1, <1>2, <1>3, PTL DEF Spec
=============================================================================
