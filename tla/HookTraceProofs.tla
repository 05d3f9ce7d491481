-------------------------- MODULE HookTraceProofs ---------------------------
(***************************************************************************)
(* Theorems about HookTrace, for any number of processes, sessions, turns  *)
(* and invocations and any budget of faults the theorem does not exclude.  *)
(***************************************************************************)
EXTENDS HookTrace, SequenceTheorems, WellFoundedInduction, TLAPS

-----------------------------------------------------------------------------
(***************************************************************************)
(* What the lines of a session and the last of them are, for traces of any *)
(* length.                                                                 *)
(***************************************************************************)
Less == {r \in Nat \X Nat : r[1] < r[2]}

LEMMA LessWellFounded == IsWellFoundedOn(Less, Nat)
  <1>1. OpToRel(<, Nat) = Less
    BY DEF OpToRel, Less
  <1> QED
    BY <1>1, NatLessThanWellFounded

LEMMA HasMaximum ==
  ASSUME NEW n \in Nat, NEW T \in SUBSET (1..n), T # {}
  PROVE  \E i \in T : \A j \in T : j <= i
  <1> DEFINE D == {n - i : i \in T}
  <1>1. D \subseteq Nat /\ D # {}
    <2>1. \A i \in T : n - i \in Nat
      OBVIOUS
    <2>2. PICK i \in T : TRUE
      OBVIOUS
    <2>3. n - i \in D
      BY <2>2
    <2> QED
      BY <2>1, <2>3
  <1>2. PICK d \in D : \A e \in D : <<e, d>> \notin Less
    BY <1>1, LessWellFounded, WFMin
  <1>3. PICK i \in T : d = n - i
    BY <1>2
  <1>4. \A j \in T : j <= i
    <2> TAKE j \in T
    <2>1. n - j \in D /\ n - j \in Nat /\ d \in Nat
      BY <1>1
    <2>2. ~ (n - j < d)
      BY <1>2, <2>1 DEF Less
    <2> QED
      BY <1>3, <2>2
  <1> QED
    BY <1>4

(***************************************************************************)
(* The scan of a session with events finds its last one.                   *)
(***************************************************************************)
LEMMA LastOfIsLast ==
  ASSUME NEW L, NEW log \in Seq(L), NEW s, LinesOf(log, s) # {}
  PROVE  /\ LastOf(log, s) \in 1..Len(log)
         /\ log[LastOf(log, s)].sess = s
         /\ \A j \in LinesOf(log, s) : j <= LastOf(log, s)
  <1>1. Len(log) \in Nat /\ DOMAIN log = 1..Len(log)
    OBVIOUS
  <1>2. LinesOf(log, s) \in SUBSET (1..Len(log))
    BY <1>1 DEF LinesOf
  <1>3. \E i \in LinesOf(log, s) : \A j \in LinesOf(log, s) : j <= i
    BY <1>1, <1>2, HasMaximum
  <1>4. /\ LastOf(log, s) \in LinesOf(log, s)
        /\ \A j \in LinesOf(log, s) : j <= LastOf(log, s)
    BY <1>3 DEF LastOf
  <1> QED
    BY <1>1, <1>4 DEF LinesOf

(***************************************************************************)
(* There is only one last line.                                            *)
(***************************************************************************)
LEMMA LastOfUnique ==
  ASSUME NEW L, NEW log \in Seq(L), NEW s, NEW i \in LinesOf(log, s),
         \A j \in LinesOf(log, s) : j <= i
  PROVE  LastOf(log, s) = i
  <1>1. /\ LastOf(log, s) \in LinesOf(log, s) 
        /\ \A j \in LinesOf(log, s) : j <= LastOf(log, s)
    BY LastOfIsLast DEF LinesOf
  <1>2. LastOf(log, s) <= i /\ i <= LastOf(log, s)
    BY <1>1
  <1>3. LinesOf(log, s) \subseteq Nat
    BY DEF LinesOf
  <1> QED
    BY <1>1, <1>2, <1>3

(***************************************************************************)
(* An append makes the new line the last of its session and leaves the     *)
(* lines of the others alone.                                              *)
(***************************************************************************)
LEMMA AppendLines ==
  ASSUME NEW L, NEW log \in Seq(L), NEW e \in L, NEW s
  PROVE  LinesOf(Append(log, e), s) =
           IF e.sess = s THEN LinesOf(log, s) \cup {Len(log) + 1} ELSE LinesOf(log, s)
  <1>1. /\ Append(log, e) \in Seq(L)
        /\ Len(Append(log, e)) = Len(log) + 1
        /\ \A i \in 1..Len(log) : Append(log, e)[i] = log[i]
        /\ Append(log, e)[Len(log) + 1] = e
        /\ Len(log) \in Nat
    OBVIOUS
  <1>2. DOMAIN Append(log, e) = 1..(Len(log) + 1) /\ DOMAIN log = 1..Len(log)
    BY <1>1
  <1>3. \A i : i \in 1..(Len(log) + 1) <=> i \in 1..Len(log) \/ i = Len(log) + 1
    BY <1>1
  <1>4. ~(Len(log) + 1 \in 1..Len(log))
    BY <1>1
  <1> QED
    BY <1>1, <1>2, <1>3, <1>4 DEF LinesOf

-----------------------------------------------------------------------------
(***************************************************************************)
(* The pieces of data the actions store have their types.                  *)
(***************************************************************************)
LEMMA BlankType == Blank \in Memory
  BY ConstantsAssumption DEF Blank, Memory, HookKinds, NoParse, NoId

LEMMA GarbageType == Garbage \in Line
  BY DEF Garbage, Line, NoTurn, NoId

LEMMA HandlerEventsType ==
  ASSUME NEW k \in HookKinds
  PROVE  HandlerEvents[k] \in Seq(EventTypes)
  <1>1. /\ <<"SCOPE", "CTX">> \in Seq(EventTypes)
        /\ <<"SCOPE", "CTX", "MEM">> \in Seq(EventTypes)
        /\ <<"CTX">> \in Seq(EventTypes)
        /\ <<"DECL">> \in Seq(EventTypes)
        /\ <<>> \in Seq(EventTypes)
    BY DEF EventTypes
  <1>2. k \in {"Pre", "PreMem", "Post", "End", "Other", "Declare"}
    BY DEF HookKinds
  <1>3. CASE k = "Pre"
    BY <1>1, <1>3 DEF HandlerEvents
  <1>4. CASE k = "PreMem"
    BY <1>1, <1>4 DEF HandlerEvents
  <1>5. CASE k = "Post"
    BY <1>1, <1>5 DEF HandlerEvents
  <1>6. CASE k = "End"
    BY <1>1, <1>6 DEF HandlerEvents
  <1>7. CASE k = "Other"
    BY <1>1, <1>7 DEF HandlerEvents
  <1>8. CASE k = "Declare"
    BY <1>1, <1>8 DEF HandlerEvents
  <1> QED
    BY <1>2, <1>3, <1>4, <1>5, <1>6, <1>7, <1>8

LEMMA OpeningType ==
  ASSUME NEW k \in HookKinds
  PROVE  SessionOpening \o HandlerEvents[k] \in Seq(EventTypes)
  <1>1. SessionOpening \in Seq(EventTypes)
    BY DEF SessionOpening, EventTypes
  <1> QED
    BY <1>1, HandlerEventsType, ConcatProperties

(***************************************************************************)
(* A process that chains another event, with or without an id, and what it *)
(* has left to emit, stays well typed.                                     *)
(***************************************************************************)
LEMMA NextMemoryType ==
  ASSUME NEW m \in Memory, NEW l \in Nat, NEW td \in Seq(EventTypes),
         NEW b \in SUBSET Turns, NEW nw \in SUBSET Turns
  PROVE  /\ [m EXCEPT !.seq = m.seq + 1, !.last = l, !.todo = td] \in Memory
         /\ [m EXCEPT !.seq = m.seq + 1, !.todo = td] \in Memory
         /\ [m EXCEPT !.seq = m.seq + 1, !.batch = b] \in Memory
         /\ [m EXCEPT !.seq = m.seq + 1, !.last = l, !.batch = b, !.newly = nw] \in Memory
  <1> DEFINE q == m.seq + 1
  <1>1. q \in Nat
    BY DEF Memory
  <1> HIDE DEF q
  <1>2. /\ [m EXCEPT !.seq = q, !.last = l, !.todo = td] \in Memory
        /\ [m EXCEPT !.seq = q, !.todo = td] \in Memory
        /\ [m EXCEPT !.seq = q, !.batch = b] \in Memory
        /\ [m EXCEPT !.seq = q, !.last = l, !.batch = b, !.newly = nw] \in Memory
    BY <1>1 DEF Memory
  <1> QED
    BY <1>2 DEF q

LEMMA FaultType ==
  ASSUME faults \in [FaultKinds -> Nat], NEW f \in FaultKinds, Fault(f)
  PROVE  faults' \in [FaultKinds -> Nat]
  BY DEF Fault

LEMMA EmittableType == \A n : Emittable(n) \in SUBSET Turns
  BY DEF Emittable

LEMMA ResumedType ==
  ASSUME TypeOK, NEW s \in Sessions, Resumable(s)
  PROVE  ResumedState(s) \in [seq : Nat, id : Nat]
  <1>1. sidecar[s] \in Entry
    BY DEF TypeOK
  <1>2. sink[Scan(s)] \in Line
    BY LastOfIsLast DEF TypeOK, Scan, Resumable
  <1> QED
    BY <1>1, <1>2 DEF ResumedState, ScannedState, Entry, Line

LEMMA ScannedType ==
  ASSUME TypeOK, NEW s \in Sessions, Resumable(s)
  PROVE  ScannedState(s) \in [seq : Nat, id : Nat]
  <1>1. sink[Scan(s)] \in Line
    BY LastOfIsLast DEF TypeOK, Scan, Resumable
  <1> QED
    BY <1>1 DEF ScannedState, Line

(***************************************************************************)
(* What a process may do with the lock: pick its session up, open it as a  *)
(* new one, or give up a declaration.  A failing read shows in faults.     *)
(***************************************************************************)
Enters(p) == lock' = p /\ pc' = [pc EXCEPT ![p] = "emit"]

PicksUpAt(p, st) ==
  /\ Resumable(mem[p].sess)
  /\ \/ st = ResumedState(mem[p].sess)
     \/ st = ScannedState(mem[p].sess) /\ Fault("read")
  /\ mem' = [mem EXCEPT ![p] = [mem[p] EXCEPT !.seq = st.seq, !.last = st.id,
                                   !.todo = HandlerEvents[mem[p].kind]]]
  /\ Enters(p)

Opens(p) ==
  /\ ~Resumable(mem[p].sess) \/ Fault("read")
  /\ mem[p].kind # "Declare"
  /\ mem' = [mem EXCEPT ![p] = [mem[p] EXCEPT
                !.todo = SessionOpening \o HandlerEvents[mem[p].kind]]]
  /\ Enters(p)

GivesUp(p) ==
  /\ mem[p].kind = "Declare"
  /\ mem' = [mem EXCEPT ![p] = Blank]
  /\ pc' = [pc EXCEPT ![p] = "idle"]
  /\ UNCHANGED lock

LEMMA AcquireMoves ==
  ASSUME TypeOK, NEW p \in Procs, Acquire(p)
  PROVE  /\ pc[p] = "wait" /\ lock = NoProc
         /\ mem[p] \in Memory /\ mem[p].sess \in Sessions /\ mem[p].kind \in HookKinds
         /\ UNCHANGED <<disk, transcript, answered, nextId, invoked, used>>
         /\ UNCHANGED faults \/ Fault("read")
         /\ \/ \E st \in [seq : Nat, id : Nat] : PicksUpAt(p, st)
            \/ Opens(p)
            \/ GivesUp(p)
  <1>1. /\ pc[p] = "wait" /\ lock = NoProc
        /\ mem[p] \in Memory /\ mem[p].sess \in Sessions /\ mem[p].kind \in HookKinds
        /\ UNCHANGED <<disk, transcript, answered, nextId, invoked, used>>
        /\ UNCHANGED faults \/ Fault("read")
    BY DEF Acquire, LockFree, TypeOK, Memory
  <1>2. ASSUME NEW st, Resumable(mem[p].sess), ResumeAt(p, mem[p].kind, st),
               \/ st = ResumedState(mem[p].sess)
               \/ st = ScannedState(mem[p].sess) /\ Fault("read")
        PROVE  \E t \in [seq : Nat, id : Nat] : PicksUpAt(p, t)
    <2>1. st \in [seq : Nat, id : Nat]
      BY <1>1, <1>2, ResumedType, ScannedType
    <2>2. PicksUpAt(p, st)
      BY <1>1, <1>2 DEF ResumeAt, PicksUpAt, Enters, TypeOK
    <2> QED
      BY <2>1, <2>2
  <1>3. ASSUME StartAnew(p, mem[p].kind), ~Resumable(mem[p].sess) \/ Fault("read")
        PROVE  Opens(p) \/ GivesUp(p)
    BY <1>1, <1>3 DEF StartAnew, Opens, GivesUp, Enters, TypeOK
  <1> DEFINE Resumption == \E t \in [seq : Nat, id : Nat] : PicksUpAt(p, t)
  <1>4. Resumption \/ Opens(p) \/ GivesUp(p)
    <2> HIDE DEF Resumption
    <2>1. \/ Resumable(mem[p].sess) /\ ResumeAt(p, mem[p].kind, ResumedState(mem[p].sess))
          \/ /\ Resumable(mem[p].sess) /\ Fault("read")
             /\ ResumeAt(p, mem[p].kind, ScannedState(mem[p].sess))
          \/ /\ StartAnew(p, mem[p].kind)
             /\ ~Resumable(mem[p].sess) \/ Fault("read")
      BY DEF Acquire
    <2>2. CASE Resumable(mem[p].sess) /\ ResumeAt(p, mem[p].kind, ResumedState(mem[p].sess))
      <3> DEFINE st == ResumedState(mem[p].sess)
      <3>1. /\ Resumable(mem[p].sess) /\ ResumeAt(p, mem[p].kind, st)
            /\ \/ st = ResumedState(mem[p].sess)
               \/ st = ScannedState(mem[p].sess) /\ Fault("read")
        BY <2>2
      <3> HIDE DEF st
      <3> QED
        BY <1>2, <3>1 DEF Resumption
    <2>3. CASE /\ Resumable(mem[p].sess) /\ Fault("read")
               /\ ResumeAt(p, mem[p].kind, ScannedState(mem[p].sess))
      <3> DEFINE st == ScannedState(mem[p].sess)
      <3>1. /\ Resumable(mem[p].sess) /\ ResumeAt(p, mem[p].kind, st)
            /\ \/ st = ResumedState(mem[p].sess)
               \/ st = ScannedState(mem[p].sess) /\ Fault("read")
        BY <2>3
      <3> HIDE DEF st
      <3> QED
        BY <1>2, <3>1 DEF Resumption
    <2> QED
      BY <1>3, <2>1, <2>2, <2>3
  <1> QED
    BY <1>1, <1>4

LEMMA ChainedType ==
  ASSUME TypeOK, NEW p \in Procs, NEW type \in EventTypes,
         NEW turn \in Turns \cup {NoTurn}
  PROVE  Chained(p, type, turn) \in Line
  <1>1. mem[p] \in Memory
    BY DEF TypeOK
  <1>2. nextId \in Nat
    BY DEF TypeOK
  <1> QED
    BY <1>1, <1>2 DEF Chained, Memory, Line

LEMMA SinkType ==
  ASSUME TypeOK
  PROVE  /\ sink \in Seq(Line) /\ Len(sink) \in Nat /\ DOMAIN sink = 1..Len(sink)
         /\ \A i \in DOMAIN sink :
              sink[i] \in Line /\ sink[i].seq \in Nat /\ sink[i].id \in Nat
  <1>1. sink \in Seq(Line)
    BY DEF TypeOK
  <1>2. \A i \in DOMAIN sink : sink[i] \in Line
    BY <1>1
  <1>3. \A l \in Line : l.seq \in Nat /\ l.id \in Nat
    BY DEF Line
  <1> QED
    BY <1>1, <1>2, <1>3

LEMMA WriteType ==
  ASSUME TypeOK, NEW line \in Line, Write(line)
  PROVE  /\ sink' \in Seq(Line)
         /\ open' \in BOOLEAN
         /\ faults' \in [FaultKinds -> Nat]
         /\ nextId' \in Nat \ {NoId}
  <1>1. sink \in Seq(Line) /\ Append(sink, line) \in Seq(Line)
    BY DEF TypeOK
  <1>2. Append(sink, Garbage) \in Seq(Line)
    BY GarbageType DEF TypeOK
  <1>3. sink' \in Seq(Line) /\ open' \in BOOLEAN
    BY <1>1, <1>2 DEF TypeOK, Write
  <1>4. faults' \in [FaultKinds -> Nat]
    BY FaultType DEF TypeOK, Write, FaultKinds
  <1>5. nextId' \in Nat \ {NoId}
    BY DEF TypeOK, Write, NoId
  <1> QED
    BY <1>3, <1>4, <1>5

LEMMA TypeInit == Init => TypeOK
  <1> SUFFICES ASSUME Init PROVE TypeOK
    OBVIOUS
  <1>1. /\ sink \in Seq(Line)
        /\ mem \in [Procs -> Memory]
        /\ pc \in [Procs -> States]
        /\ \A p \in Procs : pc[p] = "idle"
    BY BlankType DEF Init, States
  <1>2. sidecar \in [Sessions -> Entry]
    BY DEF Init, NoEntry, Entry, NoId
  <1>3. /\ transcript \in [Sessions -> 0..MaxTurns]
        /\ invoked \in 0..MaxInvocations
        /\ nextId \in Nat \ {NoId}
    BY ConstantsAssumption DEF Init, NoId
  <1>4. faults \in [FaultKinds -> Nat]
    BY DEF Init
  <1> QED
    BY <1>1, <1>2, <1>3, <1>4 DEF Init, TypeOK

LEMMA TypeNext == TypeOK /\ [Next]_vars => TypeOK'
  <1> SUFFICES ASSUME TypeOK, [Next]_vars
               PROVE  TypeOK'
    OBVIOUS
  <1> USE ConstantsAssumption
  <1>1. ASSUME NEW p \in Procs, NEW s \in Sessions, NEW k \in Kinds, Launch(p, s, k)
        PROVE  TypeOK'
    <2>1. /\ [Blank EXCEPT !.kind = k, !.sess = s] \in Memory
          /\ [Blank EXCEPT !.kind = k, !.sess = s, !.carried = transcript[s]] \in Memory
      <3>1. transcript[s] \in 0..NoParse /\ k \in HookKinds
        BY DEF TypeOK, NoParse
      <3> QED
        BY <3>1, BlankType DEF Memory
    <2>2. PICK m \in Memory : m.sess = s /\ mem' = [mem EXCEPT ![p] = m]
      <3>1. /\ [Blank EXCEPT !.kind = k, !.sess = s].sess = s
            /\ [Blank EXCEPT !.kind = k, !.sess = s, !.carried = transcript[s]].sess = s
        BY DEF Blank
      <3> QED
        BY <1>1, <2>1, <3>1 DEF Launch
    <2>3. /\ pc' \in [Procs -> States]
          /\ \A q \in Procs \ {p} : pc'[q] = pc[q]
      BY <1>1 DEF Launch, TypeOK, States
    <2>4. invoked' \in 0..MaxInvocations
      BY <1>1 DEF Launch, TypeOK
    <2>5. faults' \in [FaultKinds -> Nat]
      BY <1>1, FaultType DEF Launch, TypeOK, FaultKinds
    <2>6. used' \in SUBSET Sessions
      BY <1>1 DEF Launch, TypeOK
    <2>7. \A q \in Procs : pc'[q] # "idle" => mem'[q].sess \in Sessions
      BY <2>2, <2>3 DEF TypeOK
    <2>8. mem' \in [Procs -> Memory]
      BY <2>2 DEF TypeOK
    <2> QED
      BY <1>1, <2>3, <2>4, <2>5, <2>6, <2>7, <2>8 DEF Launch, TypeOK, disk
  <1>2. ASSUME NEW p \in Procs, NEW s \in Sessions, GateEmpty(p, s)
        PROVE  TypeOK'
    BY <1>2 DEF GateEmpty, TypeOK, disk
  <1>3. ASSUME NEW p \in Procs, Open(p)
        PROVE  TypeOK'
    BY <1>3 DEF Open, TypeOK, States
  <1>4. ASSUME NEW p \in Procs, Acquire(p)
        PROVE  TypeOK'
    <2>1. /\ pc[p] = "wait" /\ mem[p] \in Memory /\ mem[p].sess \in Sessions
          /\ mem[p].kind \in HookKinds
          /\ UNCHANGED <<disk, transcript, answered, nextId, invoked, used>>
          /\ faults' \in [FaultKinds -> Nat]
      BY <1>4, AcquireMoves, FaultType DEF TypeOK, FaultKinds
    <2>2. ASSUME NEW m \in Memory, mem' = [mem EXCEPT ![p] = m], m.sess \in Sessions,
                 Enters(p)
          PROVE  TypeOK'
      <3>1. mem' \in [Procs -> Memory] /\ mem'[p].sess \in Sessions
        BY <2>2 DEF TypeOK
      <3>2. pc' \in [Procs -> States] /\ lock' \in Procs \cup {NoProc}
        BY <2>2 DEF Enters, TypeOK, States
      <3>3. \A q \in Procs : pc'[q] # "idle" => mem'[q].sess \in Sessions
        BY <2>2, <3>1 DEF Enters, TypeOK
      <3> QED
        BY <2>1, <3>1, <3>2, <3>3 DEF TypeOK, disk
    <2>3. ASSUME NEW st \in [seq : Nat, id : Nat], PicksUpAt(p, st)
          PROVE  TypeOK'
      <3> DEFINE m == [mem[p] EXCEPT !.seq = st.seq, !.last = st.id,
                                     !.todo = HandlerEvents[mem[p].kind]]
      <3>1. HandlerEvents[mem[p].kind] \in Seq(EventTypes)
        BY <2>1, HandlerEventsType
      <3>2. m \in Memory /\ m.sess = mem[p].sess
        BY <2>1, <3>1 DEF Memory
      <3>3. mem' = [mem EXCEPT ![p] = m] /\ Enters(p)
        BY <2>3 DEF PicksUpAt
      <3> HIDE DEF m
      <3> QED
        BY <2>1, <2>2, <3>2, <3>3
    <2>4. ASSUME Opens(p)
          PROVE  TypeOK'
      <3> DEFINE m == [mem[p] EXCEPT !.todo = SessionOpening \o HandlerEvents[mem[p].kind]]
      <3>1. SessionOpening \o HandlerEvents[mem[p].kind] \in Seq(EventTypes)
        BY <2>1, OpeningType
      <3>2. m \in Memory /\ m.sess = mem[p].sess
        BY <2>1, <3>1 DEF Memory
      <3>3. mem' = [mem EXCEPT ![p] = m] /\ Enters(p)
        BY <2>4 DEF Opens
      <3> HIDE DEF m
      <3> QED
        BY <2>1, <2>2, <3>2, <3>3
    <2>5. ASSUME GivesUp(p)
          PROVE  TypeOK'
      <3>1. mem' \in [Procs -> Memory] /\ pc' \in [Procs -> States] /\ UNCHANGED lock
        BY <2>5, BlankType DEF GivesUp, TypeOK, States
      <3>2. \A q \in Procs : pc'[q] # "idle" => mem'[q].sess \in Sessions
        BY <2>5 DEF GivesUp, TypeOK
      <3> QED
        BY <2>1, <3>1, <3>2 DEF TypeOK, disk
    <2> QED
      BY <1>4, <2>3, <2>4, <2>5, AcquireMoves
  <1>5. ASSUME NEW p \in Procs, EmitEvent(p)
        PROVE  TypeOK'
    <2>1. mem[p] \in Memory
      BY DEF TypeOK
    <2>2. /\ Head(mem[p].todo) \in EventTypes
          /\ Tail(mem[p].todo) \in Seq(EventTypes)
      BY <1>5, <2>1, HeadTailProperties DEF EmitEvent, Memory
    <2>3. Chained(p, Head(mem[p].todo), NoTurn) \in Line
      BY <2>2, ChainedType
    <2>4. /\ sink' \in Seq(Line) /\ open' \in BOOLEAN
          /\ faults' \in [FaultKinds -> Nat] /\ nextId' \in Nat \ {NoId}
      BY <1>5, <2>3, WriteType DEF EmitEvent
    <2>5. [mem[p] EXCEPT !.seq = @ + 1, !.last = nextId, !.todo = Tail(@)] \in Memory
      BY <2>1, <2>2, NextMemoryType DEF TypeOK
    <2>6. mem' = [mem EXCEPT ![p] =
              [mem[p] EXCEPT !.seq = @ + 1, !.last = nextId, !.todo = Tail(@)]]
      BY <1>5 DEF EmitEvent, TypeOK
    <2>7. /\ mem' \in [Procs -> Memory]
          /\ \A q \in Procs : mem'[q].sess = mem[q].sess
      BY <2>5, <2>6 DEF TypeOK, Memory
    <2> QED
      BY <1>5, <2>4, <2>7 DEF EmitEvent, Write, TypeOK
  <1>6. ASSUME NEW p \in Procs, ParseTranscript(p)
        PROVE  TypeOK'
    <2>1. mem[p] \in Memory
      BY DEF TypeOK
    <2>2. PICK b \in SUBSET Turns : mem' = [mem EXCEPT ![p] = [mem[p] EXCEPT !.batch = b]]
      BY <1>6, EmittableType DEF ParseTranscript, Unreported, TypeOK
    <2>3. [mem[p] EXCEPT !.batch = b] \in Memory
      BY <2>1 DEF Memory
    <2>4. /\ mem' \in [Procs -> Memory]
          /\ \A q \in Procs : mem'[q].sess = mem[q].sess
      BY <2>1, <2>2, <2>3 DEF TypeOK, Memory
    <2>5. pc' \in [Procs -> States] /\ \A q \in Procs : pc'[q] # "idle" => pc[q] # "idle"
      BY <1>6 DEF ParseTranscript, TypeOK, States
    <2>6. faults' \in [FaultKinds -> Nat]
      BY <1>6, FaultType DEF ParseTranscript, TypeOK, FaultKinds
    <2> QED
      BY <1>6, <2>4, <2>5, <2>6 DEF ParseTranscript, TypeOK, disk
  <1>7. ASSUME NEW p \in Procs, NEW t \in Turns, EmitTurn(p, t)
        PROVE  TypeOK'
    <2>1. mem[p] \in Memory
      BY DEF TypeOK
    <2>2. Chained(p, "TURN", t) \in Line
      BY ChainedType DEF EventTypes
    <2>3. /\ sink' \in Seq(Line) /\ open' \in BOOLEAN
          /\ faults' \in [FaultKinds -> Nat] /\ nextId' \in Nat \ {NoId}
      BY <1>7, <2>2, WriteType DEF EmitTurn
    <2>4. [mem[p] EXCEPT !.seq = @ + 1, !.last = nextId, !.batch = @ \ {t},
                         !.newly = @ \cup {t}] \in Memory
      <3>1. /\ nextId \in Nat
            /\ mem[p].batch \ {t} \in SUBSET Turns
            /\ mem[p].newly \cup {t} \in SUBSET Turns
            /\ mem[p].todo \in Seq(EventTypes)
        BY <2>1 DEF Memory, TypeOK
      <3> QED
        BY <2>1, <3>1, NextMemoryType
    <2>5. mem' = [mem EXCEPT ![p] =
              [mem[p] EXCEPT !.seq = @ + 1, !.last = nextId, !.batch = @ \ {t},
                             !.newly = @ \cup {t}]]
      BY <1>7 DEF EmitTurn, TypeOK
    <2>6. /\ mem' \in [Procs -> Memory]
          /\ \A q \in Procs : mem'[q].sess = mem[q].sess
      BY <2>4, <2>5 DEF TypeOK, Memory
    <2> QED
      BY <1>7, <2>3, <2>6 DEF EmitTurn, Write, TypeOK
  <1>8. ASSUME NEW p \in Procs, BuildFails(p)
        PROVE  TypeOK'
    <2>1. faults' \in [FaultKinds -> Nat]
      BY <1>8, FaultType DEF BuildFails, FaultKinds, TypeOK
    <2>2. mem[p] \in Memory
      BY DEF TypeOK
    <2>3. CASE pc[p] = "emit" /\ mem[p].todo # <<>> /\ ~GivesUpWhenInvalid(p)
      <3>1. Tail(mem[p].todo) \in Seq(EventTypes)
        BY <2>2, <2>3, HeadTailProperties DEF Memory
      <3>2. [mem[p] EXCEPT !.seq = @ + 1, !.todo = Tail(@)] \in Memory
        BY <2>2, <3>1, NextMemoryType
      <3>3. /\ mem' = [mem EXCEPT ![p] = [mem[p] EXCEPT !.seq = @ + 1, !.todo = Tail(@)]]
            /\ UNCHANGED <<pc, lock>>
        BY <1>8, <2>3 DEF BuildFails, TypeOK
      <3>4. /\ mem' \in [Procs -> Memory]
            /\ \A q \in Procs : mem'[q].sess = mem[q].sess
        BY <3>2, <3>3 DEF TypeOK, Memory
      <3> QED
        BY <1>8, <2>1, <3>3, <3>4 DEF BuildFails, TypeOK, disk
    <2>4. CASE pc[p] = "batch"
      <3>1. PICK t \in Turns :
              mem' = [mem EXCEPT ![p] = [mem[p] EXCEPT !.seq = @ + 1, !.batch = @ \ {t}]]
        BY <1>8, <2>4 DEF BuildFails, TypeOK
      <3>2. [mem[p] EXCEPT !.seq = @ + 1, !.batch = @ \ {t}] \in Memory
        <4>1. mem[p].batch \ {t} \in SUBSET Turns /\ mem[p].todo \in Seq(EventTypes)
          BY <2>2 DEF Memory
        <4> QED
          BY <2>2, <4>1, NextMemoryType
      <3>3. /\ mem' \in [Procs -> Memory]
            /\ \A q \in Procs : mem'[q].sess = mem[q].sess
        BY <3>1, <3>2 DEF TypeOK, Memory
      <3>4. UNCHANGED <<pc, lock>>
        BY <1>8, <2>4 DEF BuildFails
      <3> QED
        BY <1>8, <2>1, <3>3, <3>4 DEF BuildFails, TypeOK, disk
    <2>5. CASE pc[p] = "emit" /\ mem[p].todo # <<>> /\ GivesUpWhenInvalid(p)
      <3>1. /\ mem' = [mem EXCEPT ![p] = Blank]
            /\ pc' = [pc EXCEPT ![p] = "idle"]
            /\ lock' = NoProc
        BY <1>8, <2>5 DEF BuildFails
      <3>2. /\ mem' \in [Procs -> Memory]
            /\ pc' \in [Procs -> States]
            /\ \A q \in Procs : pc'[q] # "idle" => mem'[q].sess \in Sessions
        BY <3>1, BlankType DEF TypeOK, States
      <3> QED
        BY <1>8, <2>1, <3>1, <3>2 DEF BuildFails, TypeOK, disk
    <2> QED
      BY <1>8, <2>3, <2>4, <2>5 DEF BuildFails
  <1>9. ASSUME NEW p \in Procs, RecordTurns(p)
        PROVE  TypeOK'
    <2>1. mem[p] \in Memory /\ mem[p].sess \in Sessions
      BY <1>9 DEF TypeOK, RecordTurns
    <2>2. Merged(p) \in SUBSET Turns
      BY <2>1 DEF Merged, Memory, TypeOK
    <2>3. emitted' \in [Sessions -> SUBSET Turns]
      BY <1>9, <2>1, <2>2 DEF RecordTurns, TypeOK
    <2>4. faults' \in [FaultKinds -> Nat]
      BY <1>9, FaultType DEF RecordTurns, FaultKinds, TypeOK
    <2>5. /\ pc' \in [Procs -> States]
          /\ \A q \in Procs : pc'[q] # "idle" => pc[q] # "idle"
      BY <1>9 DEF RecordTurns, TypeOK, States
    <2> QED
      BY <1>9, <2>3, <2>4, <2>5 DEF RecordTurns, TypeOK
  <1>10. ASSUME NEW p \in Procs, Refresh(p)
         PROVE  TypeOK'
    <2>1. mem[p] \in Memory
      BY DEF TypeOK
    <2>2. [seq |-> mem[p].seq, id |-> mem[p].last, off |-> LastLine] \in Entry
      BY <2>1 DEF Entry, Memory, LastLine, TypeOK
    <2>3. sidecar' \in [Sessions -> Entry]
      BY <1>10, <2>2 DEF Refresh, TypeOK
    <2>4. faults' \in [FaultKinds -> Nat]
      BY <1>10, FaultType DEF Refresh, FaultKinds, TypeOK
    <2>5. /\ mem' \in [Procs -> Memory]
          /\ pc' \in [Procs -> States]
          /\ \A q \in Procs : pc'[q] # "idle" => mem'[q].sess \in Sessions
      BY <1>10, BlankType DEF Refresh, TypeOK, States
    <2>6. answered' \in SUBSET Nat
      BY <1>10, <2>1 DEF Refresh, Memory, TypeOK
    <2> QED
      BY <1>10, <2>3, <2>4, <2>5, <2>6 DEF Refresh, TypeOK
  <1>11. ASSUME NEW p \in Procs, Crash(p)
         PROVE  TypeOK'
    <2>1. /\ mem' \in [Procs -> Memory]
          /\ pc' \in [Procs -> States]
          /\ \A q \in Procs : pc'[q] # "idle" => mem'[q].sess \in Sessions
      BY <1>11, BlankType DEF Crash, TypeOK, States
    <2>2. faults' \in [FaultKinds -> Nat]
      BY <1>11, FaultType DEF Crash, FaultKinds, TypeOK
    <2> QED
      BY <1>11, <2>1, <2>2 DEF Crash, TypeOK, FreedFrom, disk
  <1>12. ASSUME LoseSidecar
         PROVE  TypeOK'
    <2>1. faults' \in [FaultKinds -> Nat]
      BY <1>12, FaultType DEF LoseSidecar, FaultKinds, TypeOK
    <2>2. NoEntry \in Entry
      BY DEF NoEntry, Entry, NoId
    <2> QED
      BY <1>12, <2>1, <2>2 DEF LoseSidecar, TypeOK
  <1>13. ASSUME NEW s \in Sessions, FlushTurn(s)
         PROVE  TypeOK'
    BY <1>13 DEF FlushTurn, TypeOK, disk
  <1>14. CASE UNCHANGED vars
    BY <1>14 DEF vars, disk, TypeOK
  <1> QED
    BY <1>1, <1>2, <1>3, <1>4, <1>5, <1>6, <1>7, <1>8, <1>9, <1>10, <1>11, <1>12,
       <1>13, <1>14 DEF Next, Step, Finished

(***************************************************************************)
(* Type correctness of every reachable state, under every fault.           *)
(***************************************************************************)
THEOREM Typing == Spec => []TypeOK
  BY TypeInit, TypeNext, PTL DEF Spec

-----------------------------------------------------------------------------
(***************************************************************************)
(* The flock is held by exactly the process that is between its resumption *)
(* and its sidecar refresh.                                                *)
(***************************************************************************)
InCritical(p) == pc[p] \in {"emit", "batch", "refresh"}

OneHolder == \A p \in Procs : InCritical(p) <=> lock = p

(***************************************************************************)
(* What each kind of process may still do there: a declaration appends one *)
(* event, and only a SessionEnd reaches the token batch.                   *)
(***************************************************************************)
Shape ==
  \A p \in Procs : InCritical(p) =>
    /\ mem[p].kind = "Declare" => mem[p].todo \in {<<>>, HandlerEvents.Declare}
    /\ pc[p] = "batch" => mem[p].kind = "End"

LEMMA HolderInit == Init => OneHolder /\ Shape
  BY ConstantsAssumption DEF Init, OneHolder, Shape, InCritical

LEMMA HolderNext == TypeOK /\ OneHolder /\ Shape /\ [Next]_vars => (OneHolder /\ Shape)'
  <1> SUFFICES ASSUME TypeOK, OneHolder, Shape, [Next]_vars
               PROVE  (OneHolder /\ Shape)'
    OBVIOUS
  <1> USE ConstantsAssumption DEF OneHolder, Shape, InCritical
  <1>1. ASSUME NEW p \in Procs, NEW s \in Sessions, NEW k \in Kinds, Launch(p, s, k)
        PROVE  (OneHolder /\ Shape)'
    BY <1>1 DEF Launch, TypeOK
  <1>2. ASSUME NEW p \in Procs, NEW s \in Sessions, GateEmpty(p, s)
        PROVE  (OneHolder /\ Shape)'
    BY <1>2 DEF GateEmpty
  <1>3. ASSUME NEW p \in Procs, Open(p)
        PROVE  (OneHolder /\ Shape)'
    BY <1>3 DEF Open, TypeOK
  <1>4. ASSUME NEW p \in Procs, Acquire(p)
        PROVE  (OneHolder /\ Shape)'
    <2>0. lock = NoProc /\ pc[p] = "wait" /\ mem[p] \in Memory
      BY <1>4, AcquireMoves
    <2>1. ASSUME NEW m, mem' = [mem EXCEPT ![p] = m], Enters(p), m.kind = mem[p].kind,
                 m.kind = "Declare" => m.todo = HandlerEvents.Declare
          PROVE  (OneHolder /\ Shape)'
      <3>1. OneHolder'
        BY <2>0, <2>1 DEF Enters, TypeOK
      <3>2. \A q \in Procs \ {p} : ~InCritical(q)'
        BY <2>0, <2>1, <3>1 DEF Enters, TypeOK
      <3>3. pc'[p] = "emit" /\ mem'[p] = m
        BY <2>1 DEF Enters, TypeOK
      <3> QED
        BY <2>1, <3>1, <3>2, <3>3
    <2>2. ASSUME NEW st \in [seq : Nat, id : Nat], PicksUpAt(p, st)
          PROVE  (OneHolder /\ Shape)'
      <3> DEFINE m == [mem[p] EXCEPT !.seq = st.seq, !.last = st.id,
                                     !.todo = HandlerEvents[mem[p].kind]]
      <3>1. m.kind = mem[p].kind /\ m.todo = HandlerEvents[mem[p].kind]
        BY <2>0 DEF Memory
      <3>2. mem' = [mem EXCEPT ![p] = m] /\ Enters(p)
        BY <2>2 DEF PicksUpAt
      <3> HIDE DEF m
      <3> QED
        BY <2>1, <3>1, <3>2
    <2>3. ASSUME Opens(p)
          PROVE  (OneHolder /\ Shape)'
      <3> DEFINE m == [mem[p] EXCEPT !.todo = SessionOpening \o HandlerEvents[mem[p].kind]]
      <3>1. m.kind = mem[p].kind /\ m.kind # "Declare"
        BY <2>0, <2>3 DEF Memory, Opens
      <3>2. mem' = [mem EXCEPT ![p] = m] /\ Enters(p)
        BY <2>3 DEF Opens
      <3> HIDE DEF m
      <3> QED
        BY <2>1, <3>1, <3>2
    <2>4. ASSUME GivesUp(p)
          PROVE  (OneHolder /\ Shape)'
      <3>1. /\ \A q \in Procs \ {p} : pc'[q] = pc[q] /\ mem'[q] = mem[q]
            /\ pc'[p] = "idle" /\ UNCHANGED lock
        BY <2>4 DEF GivesUp, TypeOK
      <3> QED
        BY <2>0, <3>1
    <2> QED
      BY <1>4, <2>2, <2>3, <2>4, AcquireMoves
  <1>5. ASSUME NEW p \in Procs, EmitEvent(p)
        PROVE  (OneHolder /\ Shape)'
    <2>1. mem[p] \in Memory
      BY DEF TypeOK
    <2>2. mem[p].kind = "Declare" => Tail(mem[p].todo) = <<>>
      <3>1. mem[p].kind = "Declare" => mem[p].todo = <<"DECL">>
        BY <1>5 DEF EmitEvent, HandlerEvents
      <3>2. Tail(<<"DECL">>) = <<>>
        OBVIOUS
      <3> QED
        BY <3>1, <3>2
    <2>3. mem' = [mem EXCEPT ![p] =
              [mem[p] EXCEPT !.seq = @ + 1, !.last = nextId, !.todo = Tail(@)]]
      BY <1>5 DEF EmitEvent, TypeOK
    <2>4. mem'[p].kind = mem[p].kind /\ mem'[p].todo = Tail(mem[p].todo)
      BY <2>1, <2>3 DEF TypeOK, Memory
    <2>5. UNCHANGED <<pc, lock>> /\ pc[p] = "emit"
      BY <1>5 DEF EmitEvent, Write
    <2> QED
      BY <2>2, <2>3, <2>4, <2>5 DEF TypeOK
  <1>6. ASSUME NEW p \in Procs, ParseTranscript(p)
        PROVE  (OneHolder /\ Shape)'
    BY <1>6, SMTT(30) DEF ParseTranscript, TypeOK, Memory
  <1>7. ASSUME NEW p \in Procs, NEW t \in Turns, EmitTurn(p, t)
        PROVE  (OneHolder /\ Shape)'
    BY <1>7 DEF EmitTurn, Write, TypeOK, Memory
  <1>8. ASSUME NEW p \in Procs, BuildFails(p)
        PROVE  (OneHolder /\ Shape)'
    <2>1. mem[p] \in Memory
      BY DEF TypeOK
    <2>2. CASE pc[p] = "emit" /\ mem[p].todo # <<>> /\ ~GivesUpWhenInvalid(p)
      <3>1. /\ mem' = [mem EXCEPT ![p] = [mem[p] EXCEPT !.seq = @ + 1, !.todo = Tail(@)]]
            /\ UNCHANGED <<pc, lock>>
        BY <1>8, <2>2 DEF BuildFails, TypeOK
      <3>2. mem'[p].kind = mem[p].kind /\ mem[p].kind # "Declare"
        BY <2>1, <2>2, <3>1 DEF TypeOK, Memory, GivesUpWhenInvalid
      <3> QED
        BY <2>2, <3>1, <3>2 DEF TypeOK
    <2>3. CASE pc[p] = "batch"
      <3>1. PICK t \in Turns :
              mem' = [mem EXCEPT ![p] = [mem[p] EXCEPT !.seq = @ + 1, !.batch = @ \ {t}]]
        BY <1>8, <2>3 DEF BuildFails, TypeOK
      <3>2. mem'[p].kind = mem[p].kind /\ mem'[p].todo = mem[p].todo
        BY <2>1, <3>1 DEF TypeOK, Memory
      <3>3. UNCHANGED <<pc, lock>>
        BY <1>8, <2>3 DEF BuildFails
      <3> QED
        BY <3>1, <3>2, <3>3 DEF TypeOK
    <2>4. CASE pc[p] = "emit" /\ mem[p].todo # <<>> /\ GivesUpWhenInvalid(p)
      <3>1. /\ pc' = [pc EXCEPT ![p] = "idle"] /\ lock' = NoProc
            /\ mem' = [mem EXCEPT ![p] = Blank]
        BY <1>8, <2>4 DEF BuildFails
      <3>2. lock = p /\ \A q \in Procs \ {p} : ~InCritical(q)
        BY <2>4 DEF OneHolder, InCritical
      <3> QED
        BY <3>1, <3>2, <2>4 DEF OneHolder, Shape, InCritical, TypeOK
    <2> QED
      BY <1>8, <2>2, <2>3, <2>4 DEF BuildFails
  <1>9. ASSUME NEW p \in Procs, RecordTurns(p)
        PROVE  (OneHolder /\ Shape)'
    BY <1>9 DEF RecordTurns, TypeOK
  <1>10. ASSUME NEW p \in Procs, Refresh(p)
         PROVE  (OneHolder /\ Shape)'
    BY <1>10 DEF Refresh, ReadyToRefresh, TypeOK
  <1>11. ASSUME NEW p \in Procs, Crash(p)
         PROVE  (OneHolder /\ Shape)'
    BY <1>11 DEF Crash, FreedFrom, TypeOK
  <1>12. CASE LoseSidecar \/ (\E s \in Sessions : FlushTurn(s)) \/ UNCHANGED vars
    BY <1>12 DEF LoseSidecar, FlushTurn, vars
  <1> QED
    BY <1>1, <1>2, <1>3, <1>4, <1>5, <1>6, <1>7, <1>8, <1>9, <1>10, <1>11, <1>12
    DEF Next, Step, Finished

LEMMA Holder == Spec => [](TypeOK /\ OneHolder /\ Shape)
  BY TypeInit, TypeNext, HolderInit, HolderNext, PTL DEF Spec

(***************************************************************************)
(* Two hook processes are never both between their resumption and their    *)
(* refresh, also when holders are killed.                                  *)
(***************************************************************************)
MutualExclusion ==
  \A p, q \in Procs : InCritical(p) /\ InCritical(q) => p = q

THEOREM Exclusion == Spec => []MutualExclusion
  <1>1. OneHolder => MutualExclusion
    BY DEF OneHolder, MutualExclusion
  <1> QED
    BY <1>1, Holder, PTL

-----------------------------------------------------------------------------
(***************************************************************************)
(* NoFork.  It rests on what makes the sidecar safe to trust: an entry     *)
(* that matches the sink names the session's LAST line - except while the  *)
(* holder of the lock has appended to that session and not yet refreshed,  *)
(* when nobody else can look (Dirty).  And the holder's own count is never *)
(* behind the file, however many of its writes were lost.                  *)
(***************************************************************************)
Current(s) ==
  Hit(s) => \A j \in DOMAIN sink : sink[j].sess = s => j <= sidecar[s].off

Dirty(s) ==
  \E p \in Procs : /\ InCritical(p) /\ mem[p].sess = s /\ mem[p].last # NoId
                   /\ ~(mem[p].kind = "Declare" /\ mem[p].todo # <<>>)

SidecarSafe == \A s \in Sessions : Current(s) \/ Dirty(s)

Ahead ==
  \A p \in Procs : InCritical(p) =>
    \A i \in DOMAIN sink : sink[i].sess = mem[p].sess => sink[i].seq <= mem[p].seq

ForkInv == Forkless /\ SidecarSafe /\ Ahead

(***************************************************************************)
(* Nobody dirties a session while the lock is free; the holder dirties no  *)
(* session but its own.                                                    *)
(***************************************************************************)
LEMMA FreeIsClean ==
  ASSUME OneHolder, lock = NoProc, NEW s
  PROVE  ~Dirty(s)
  BY ConstantsAssumption DEF OneHolder, Dirty

LEMMA HolderDirties ==
  ASSUME OneHolder, NEW p \in Procs, lock = p, NEW s, Dirty(s)
  PROVE  /\ mem[p].sess = s /\ mem[p].last # NoId
         /\ ~(mem[p].kind = "Declare" /\ mem[p].todo # <<>>)
  BY DEF OneHolder, Dirty

(***************************************************************************)
(* One write by the holder, whatever becomes of it.                        *)
(***************************************************************************)
LEMMA WriteKeeps ==
  ASSUME TypeOK, OneHolder, ForkInv,
         NEW p \in Procs, InCritical(p),
         NEW line \in Line, line.sess = mem[p].sess, line.seq = mem[p].seq + 1,
         Write(line),
         mem'[p].sess = mem[p].sess, mem'[p].seq = mem[p].seq + 1, mem'[p].last # NoId,
         ~(mem'[p].kind = "Declare" /\ mem'[p].todo # <<>>)
  PROVE  ForkInv'
  <1>1. /\ lock = p /\ mem[p] \in Memory /\ mem[p].sess \in Sessions
        /\ mem[p].seq \in Nat /\ mem[p].seq + 1 \in Nat
    BY DEF OneHolder, InCritical, TypeOK, Memory
  <1>2. UNCHANGED <<pc, lock, sidecar>>
    BY DEF Write
  <1>3. \A q \in Procs : InCritical(q)' => q = p
    BY <1>1, <1>2 DEF OneHolder, InCritical
  <1>4. PICK new \in Line : /\ new.sess = mem[p].sess => new.seq = mem[p].seq + 1
                           /\ new.sess \in {mem[p].sess, NoSession}
                           /\ sink' \in {sink, Append(sink, new)}
    <2>1. CASE sink' \in {sink, Append(sink, line)}
      BY <2>1
    <2>2. CASE sink' = Append(sink, Garbage)
      BY <1>1, <2>2, GarbageType, ConstantsAssumption DEF Garbage
    <2> QED
      BY <2>1, <2>2 DEF Write
  <1>5. /\ sink \in Seq(Line) /\ Len(sink) \in Nat /\ DOMAIN sink = 1..Len(sink)
        /\ \A i \in DOMAIN sink : sink[i] \in Line /\ sink[i].seq \in Nat
    BY SinkType
  <1>6. /\ \A i \in DOMAIN sink : i \in DOMAIN sink' /\ sink'[i] = sink[i]
        /\ \A i \in DOMAIN sink' : \/ i \in DOMAIN sink
                                  \/ /\ i = Len(sink) + 1 /\ sink'[i] = new
                                     /\ \A j \in DOMAIN sink' : j <= i
    BY <1>4, <1>5
  <1>7. \A i \in DOMAIN sink : sink[i].sess = mem[p].sess => sink[i].seq <= mem[p].seq
    BY DEF ForkInv, Ahead
  <1>8. Forkless'
    <2> SUFFICES ASSUME NEW i \in DOMAIN sink', NEW j \in DOMAIN sink', i < j,
                        sink'[i].sess = sink'[j].sess, sink'[i].sess # NoSession
                 PROVE  sink'[i].seq < sink'[j].seq
      BY DEF Forkless
    <2>1. CASE i \in DOMAIN sink /\ j \in DOMAIN sink
      BY <1>6, <2>1 DEF ForkInv, Forkless
    <2>2. CASE j \notin DOMAIN sink
      <3>1. j = Len(sink) + 1 /\ sink'[j] = new
        BY <1>6, <2>2
      <3>2. i \in DOMAIN sink
        BY <1>5, <1>6, <3>1
      <3>3. new.sess = mem[p].sess /\ new.seq = mem[p].seq + 1
        BY <1>4, <3>1
      <3>4. sink[i].seq <= mem[p].seq /\ sink[i].seq \in Nat /\ sink'[i] = sink[i]
        BY <1>5, <1>6, <1>7, <3>1, <3>2, <3>3
      <3> QED
        BY <1>1, <3>1, <3>3, <3>4
    <2>3. CASE i \notin DOMAIN sink
      BY <1>5, <1>6, <2>3
    <2> QED
      BY <2>1, <2>2, <2>3
  <1>9. Ahead'
    <2> SUFFICES ASSUME NEW i \in DOMAIN sink', sink'[i].sess = mem[p].sess
                 PROVE  sink'[i].seq <= mem[p].seq + 1
      BY <1>3 DEF Ahead
    <2>1. CASE i \in DOMAIN sink
      BY <1>1, <1>5, <1>6, <1>7, <2>1
    <2>2. CASE i \notin DOMAIN sink
      BY <1>1, <1>4, <1>6, <2>2
    <2> QED
      BY <2>1, <2>2
  <1>10. SidecarSafe'
    <2> SUFFICES ASSUME NEW s \in Sessions
                 PROVE  Current(s)' \/ Dirty(s)'
      BY DEF SidecarSafe
    <2>1. CASE s = mem[p].sess
      <3>1. InCritical(p)'
        BY <1>2 DEF InCritical
      <3> QED
        BY <2>1, <3>1 DEF Dirty
    <2>2. CASE s # mem[p].sess
      <3>1. Current(s)
        BY <1>1, <2>2, HolderDirties DEF ForkInv, SidecarSafe
      <3>2. new.sess # s
        BY <1>4, <2>2, ConstantsAssumption
      <3>3. Hit(s)' => Hit(s)
        BY <1>2, <1>6, <3>2 DEF Hit
      <3> QED
        BY <1>2, <1>6, <3>1, <3>2, <3>3 DEF Current
    <2> QED
      BY <2>1, <2>2
  <1> QED
    BY <1>8, <1>9, <1>10 DEF ForkInv

(***************************************************************************)
(* Every fact about the chain of a resumed process comes from this one:    *)
(* what it resumes at is at least as far as any line of its session.       *)
(***************************************************************************)
LEMMA ResumedIsLatest ==
  ASSUME TypeOK, Forkless, NEW s \in Sessions, Current(s), Resumable(s)
  PROVE  \A i \in DOMAIN sink : sink[i].sess = s => sink[i].seq <= ResumedState(s).seq
  <1> SUFFICES ASSUME NEW i \in DOMAIN sink, sink[i].sess = s
               PROVE  sink[i].seq <= ResumedState(s).seq
    OBVIOUS
  <1>1. /\ sink \in Seq(Line) /\ DOMAIN sink \subseteq Nat
        /\ \A j \in DOMAIN sink : sink[j].seq \in Nat
    BY SinkType
  <1>2. s # NoSession
    BY ConstantsAssumption
  <1>3. PICK k \in DOMAIN sink : /\ sink[k].sess = s /\ i <= k
                                /\ ResumedState(s).seq = sink[k].seq
    <2>1. CASE Hit(s)
      BY <2>1 DEF Hit, Current, ResumedState
    <2>2. CASE ~Hit(s)
      <3>1. i \in LinesOf(sink, s)
        BY DEF LinesOf
      <3>2. /\ Scan(s) \in DOMAIN sink /\ sink[Scan(s)].sess = s /\ i <= Scan(s)
        BY <1>1, <3>1, LastOfIsLast DEF Scan
      <3> QED
        BY <2>2, <3>2 DEF ResumedState, ScannedState
    <2> QED
      BY <2>1, <2>2
  <1>4. CASE i = k
    BY <1>1, <1>3, <1>4
  <1>5. CASE i < k
    BY <1>1, <1>2, <1>3, <1>5 DEF Forkless
  <1> QED
    BY <1>1, <1>3, <1>4, <1>5

LEMMA ForkInit == Init => ForkInv
  BY DEF Init, ForkInv, Forkless, SidecarSafe, Current, Hit, Ahead, InCritical

(***************************************************************************)
(* A step that leaves the files alone, and the memory of the processes in  *)
(* the critical section too but for counts that grow.                      *)
(***************************************************************************)
LEMMA QuietKeeps ==
  ASSUME TypeOK, ForkInv, UNCHANGED <<sink, sidecar>>,
         \A q \in Procs : InCritical(q) <=> InCritical(q)',
         \A q \in Procs : InCritical(q) =>
           /\ mem'[q].sess = mem[q].sess /\ mem'[q].last = mem[q].last
           /\ mem'[q].kind = mem[q].kind
           /\ mem'[q].todo = mem[q].todo \/ mem[q].kind # "Declare"
           /\ mem'[q].seq \in {mem[q].seq, mem[q].seq + 1}
  PROVE  ForkInv'
  <1>1. Forkless'
    BY DEF ForkInv, Forkless
  <1>2. SidecarSafe'
    <2> SUFFICES ASSUME NEW s \in Sessions
                 PROVE  Current(s)' \/ Dirty(s)'
      BY DEF SidecarSafe
    <2>1. CASE Current(s)
      BY <2>1 DEF Current, Hit
    <2>2. CASE Dirty(s)
      BY <2>2 DEF Dirty
    <2> QED
      BY <2>1, <2>2 DEF ForkInv, SidecarSafe
  <1>3. Ahead'
    <2> SUFFICES ASSUME NEW q \in Procs, InCritical(q), NEW i \in DOMAIN sink,
                        sink[i].sess = mem[q].sess
                 PROVE  sink[i].seq <= mem'[q].seq
      BY DEF Ahead
    <2>1. sink[i].seq <= mem[q].seq
      BY DEF ForkInv, Ahead
    <2>2. sink[i].seq \in Nat /\ mem[q].seq \in Nat
      BY SinkType DEF TypeOK, Memory
    <2>3. CASE mem'[q].seq = mem[q].seq
      BY <2>1, <2>3
    <2>4. CASE mem'[q].seq = mem[q].seq + 1
      BY <2>1, <2>2, <2>4
    <2> QED
      BY <2>3, <2>4
  <1> QED
    BY <1>1, <1>2, <1>3 DEF ForkInv

LEMMA ForkNext ==
  ASSUME TypeOK, OneHolder, Shape, ForkInv, [Next]_vars,
         ~Fault("crash"), ~Fault("sidecar"), ~Fault("read")
  PROVE  ForkInv'
  <1>1. ASSUME NEW p \in Procs, NEW s \in Sessions, NEW k \in Kinds, Launch(p, s, k)
        PROVE  ForkInv'
    <2>1. /\ UNCHANGED <<sink, sidecar>>
          /\ ~InCritical(p) /\ ~InCritical(p)'
          /\ \A q \in Procs \ {p} : mem'[q] = mem[q] /\ pc'[q] = pc[q]
      BY <1>1 DEF Launch, InCritical, TypeOK, disk
    <2> QED
      BY <2>1, QuietKeeps DEF InCritical
  <1>2. ASSUME NEW p \in Procs, NEW s \in Sessions, GateEmpty(p, s)
        PROVE  ForkInv'
    BY <1>2, QuietKeeps DEF GateEmpty, disk, InCritical
  <1>3. ASSUME NEW p \in Procs, Open(p)
        PROVE  ForkInv'
    <2>1. /\ UNCHANGED <<sink, sidecar, mem>>
          /\ ~InCritical(p) /\ ~InCritical(p)'
          /\ \A q \in Procs \ {p} : pc'[q] = pc[q]
      BY <1>3 DEF Open, InCritical, TypeOK
    <2> QED
      BY <2>1, QuietKeeps DEF InCritical
  <1>4. ASSUME NEW p \in Procs, Acquire(p)
        PROVE  ForkInv'
    <2>1. /\ UNCHANGED <<sink, sidecar>> /\ lock = NoProc
          /\ \A q \in Procs : ~InCritical(q)
          /\ \A q \in Procs \ {p} : ~InCritical(q)'
      <3>1. lock = NoProc /\ UNCHANGED <<sink, sidecar>> /\ \A q \in Procs : ~InCritical(q)
        BY <1>4, AcquireMoves, ConstantsAssumption DEF OneHolder, InCritical, disk
      <3>2. \A q \in Procs \ {p} : pc'[q] = pc[q]
        BY ZenonT(60), <1>4, AcquireMoves DEF PicksUpAt, Opens, GivesUp, Enters, TypeOK
      <3> QED
        BY <3>1, <3>2 DEF InCritical
    <2>2. \A s \in Sessions : Current(s)
      BY <2>1, FreeIsClean DEF ForkInv, SidecarSafe
    <2>3. Forkless' /\ SidecarSafe'
      BY <2>1, <2>2 DEF ForkInv, Forkless, SidecarSafe, Current, Hit
    <2>4. Ahead'
      <3> SUFFICES ASSUME InCritical(p)', NEW i \in DOMAIN sink, sink[i].sess = mem'[p].sess
                   PROVE  sink[i].seq <= mem'[p].seq
        BY <2>1 DEF Ahead
      <3>1. mem[p] \in Memory /\ mem[p].sess \in Sessions
        BY <1>4, AcquireMoves
      <3>2. ASSUME NEW st \in [seq : Nat, id : Nat], PicksUpAt(p, st)
            PROVE  sink[i].seq <= mem'[p].seq
        <4>1. /\ Resumable(mem[p].sess) /\ st = ResumedState(mem[p].sess)
              /\ mem' = [mem EXCEPT ![p] = [mem[p] EXCEPT !.seq = st.seq, !.last = st.id,
                                               !.todo = HandlerEvents[mem[p].kind]]]
          BY <3>2 DEF PicksUpAt
        <4>2. mem'[p].sess = mem[p].sess /\ mem'[p].seq = st.seq
          BY <3>1, <4>1 DEF TypeOK, Memory
        <4> QED
          BY <2>2, <3>1, <4>1, <4>2, ResumedIsLatest DEF ForkInv
      <3>3. ASSUME Opens(p)
            PROVE  FALSE
        <4>1. /\ ~Resumable(mem[p].sess)
              /\ mem' = [mem EXCEPT ![p] = [mem[p] EXCEPT
                           !.todo = SessionOpening \o HandlerEvents[mem[p].kind]]]
          BY <3>3 DEF Opens
        <4>2. mem'[p].sess = mem[p].sess
          BY <3>1, <4>1 DEF TypeOK, Memory
        <4> QED
          BY <4>1, <4>2 DEF Resumable, LinesOf
      <3>4. ASSUME GivesUp(p)
            PROVE  FALSE
        BY <3>4 DEF GivesUp, InCritical, TypeOK
      <3> QED
        BY <1>4, <3>2, <3>3, <3>4, AcquireMoves
    <2> QED
      BY <2>3, <2>4 DEF ForkInv
  <1>5. ASSUME NEW p \in Procs, EmitEvent(p)
        PROVE  ForkInv'
    <2> DEFINE line == Chained(p, Head(mem[p].todo), NoTurn)
    <2>1. InCritical(p) /\ mem[p] \in Memory /\ nextId \in Nat \ {NoId}
      BY <1>5 DEF EmitEvent, InCritical, TypeOK
    <2>2. Head(mem[p].todo) \in EventTypes
      BY <1>5, <2>1, HeadTailProperties DEF EmitEvent, Memory
    <2>3. /\ line \in Line /\ line.sess = mem[p].sess /\ line.seq = mem[p].seq + 1
      BY <2>2, ChainedType DEF Chained
    <2>4. mem' = [mem EXCEPT ![p] =
              [mem[p] EXCEPT !.seq = @ + 1, !.last = nextId, !.todo = Tail(@)]]
      BY <1>5 DEF EmitEvent, TypeOK
    <2>5. /\ mem'[p].sess = mem[p].sess /\ mem'[p].kind = mem[p].kind
          /\ mem'[p].seq = mem[p].seq + 1
          /\ mem'[p].last = nextId /\ mem'[p].todo = Tail(mem[p].todo)
      BY <2>1, <2>4 DEF TypeOK, Memory
    <2>6. mem[p].kind = "Declare" => Tail(mem[p].todo) = <<>>
      <3>1. mem[p].kind = "Declare" => mem[p].todo = <<"DECL">>
        BY <1>5, <2>1 DEF EmitEvent, HandlerEvents, Shape
      <3>2. Tail(<<"DECL">>) = <<>>
        OBVIOUS
      <3> QED
        BY <3>1, <3>2
    <2>7. Write(line)
      BY <1>5 DEF EmitEvent
    <2> HIDE DEF line
    <2> QED
      BY <2>1, <2>3, <2>5, <2>6, <2>7, WriteKeeps
  <1>6. ASSUME NEW p \in Procs, ParseTranscript(p)
        PROVE  ForkInv'
    <2>1. mem[p] \in Memory
      BY DEF TypeOK
    <2>2. PICK b : mem' = [mem EXCEPT ![p] = [mem[p] EXCEPT !.batch = b]]
      BY <1>6 DEF ParseTranscript, TypeOK
    <2>3. /\ mem'[p].sess = mem[p].sess /\ mem'[p].kind = mem[p].kind
          /\ mem'[p].seq = mem[p].seq
          /\ mem'[p].last = mem[p].last /\ mem'[p].todo = mem[p].todo
      BY <2>1, <2>2 DEF TypeOK, Memory
    <2>4. /\ UNCHANGED <<sink, sidecar>>
          /\ InCritical(p) /\ InCritical(p)'
          /\ \A q \in Procs \ {p} : mem'[q] = mem[q] /\ pc'[q] = pc[q]
      BY <1>6, <2>2 DEF ParseTranscript, InCritical, TypeOK, disk
    <2> QED
      BY <2>3, <2>4, QuietKeeps DEF InCritical
  <1>7. ASSUME NEW p \in Procs, NEW t \in Turns, EmitTurn(p, t)
        PROVE  ForkInv'
    <2> DEFINE line == Chained(p, "TURN", t)
    <2>1. /\ InCritical(p) /\ mem[p] \in Memory /\ nextId \in Nat \ {NoId}
          /\ mem[p].kind = "End"
      BY <1>7 DEF EmitTurn, InCritical, TypeOK, Shape
    <2>2. /\ line \in Line /\ line.sess = mem[p].sess /\ line.seq = mem[p].seq + 1
      BY ChainedType DEF Chained, EventTypes
    <2>3. mem' = [mem EXCEPT ![p] =
              [mem[p] EXCEPT !.seq = @ + 1, !.last = nextId, !.batch = @ \ {t},
                             !.newly = @ \cup {t}]]
      BY <1>7 DEF EmitTurn, TypeOK
    <2>4. /\ mem'[p].sess = mem[p].sess /\ mem'[p].kind = mem[p].kind
          /\ mem'[p].seq = mem[p].seq + 1 /\ mem'[p].last = nextId
      BY <2>1, <2>3 DEF TypeOK, Memory
    <2>5. Write(line)
      BY <1>7 DEF EmitTurn
    <2> HIDE DEF line
    <2> QED
      BY <2>1, <2>2, <2>4, <2>5, WriteKeeps
  <1>8. ASSUME NEW p \in Procs, BuildFails(p)
        PROVE  ForkInv'
    <2>1. mem[p] \in Memory /\ UNCHANGED <<sink, sidecar>>
      BY <1>8 DEF BuildFails, TypeOK, disk
    <2>2. CASE pc[p] = "emit" /\ mem[p].todo # <<>> /\ ~GivesUpWhenInvalid(p)
      <3>1. /\ mem' = [mem EXCEPT ![p] = [mem[p] EXCEPT !.seq = @ + 1, !.todo = Tail(@)]]
            /\ UNCHANGED pc
        BY <1>8, <2>2 DEF BuildFails, TypeOK
      <3>2. /\ mem'[p].sess = mem[p].sess /\ mem'[p].kind = mem[p].kind
            /\ mem'[p].seq = mem[p].seq + 1 /\ mem'[p].last = mem[p].last
            /\ \A q \in Procs \ {p} : mem'[q] = mem[q]
        BY <2>1, <3>1 DEF TypeOK, Memory
      <3>3. mem[p].kind # "Declare"
        BY <2>2 DEF GivesUpWhenInvalid
      <3> QED
        BY <2>1, <3>1, <3>2, <3>3, QuietKeeps DEF InCritical
    <2>3. CASE pc[p] = "batch"
      <3>1. PICK t \in Turns :
              mem' = [mem EXCEPT ![p] = [mem[p] EXCEPT !.seq = @ + 1, !.batch = @ \ {t}]]
        BY <1>8, <2>3 DEF BuildFails, TypeOK
      <3>2. /\ mem'[p].sess = mem[p].sess /\ mem'[p].kind = mem[p].kind
            /\ mem'[p].seq = mem[p].seq + 1 /\ mem'[p].last = mem[p].last
            /\ mem'[p].todo = mem[p].todo
            /\ \A q \in Procs \ {p} : mem'[q] = mem[q]
        BY <2>1, <3>1 DEF TypeOK, Memory
      <3>3. UNCHANGED pc
        BY <1>8, <2>3 DEF BuildFails
      <3> QED
        BY <2>1, <3>2, <3>3, QuietKeeps DEF InCritical
    <2>4. CASE pc[p] = "emit" /\ mem[p].todo # <<>> /\ GivesUpWhenInvalid(p)
      <3>1. lock = p /\ mem[p].kind = "Declare"
        BY <2>4 DEF OneHolder, InCritical, GivesUpWhenInvalid
      <3>2. \A s \in Sessions : Current(s)
        BY <2>4, <3>1, HolderDirties DEF ForkInv, SidecarSafe
      <3>3. \A q \in Procs : ~InCritical(q)'
        BY <1>8, <2>4, <3>1 DEF BuildFails, OneHolder, InCritical, TypeOK
      <3> QED
        BY <2>1, <3>2, <3>3
        DEF ForkInv, Forkless, SidecarSafe, Current, Hit, Ahead
    <2> QED
      BY <1>8, <2>2, <2>3, <2>4 DEF BuildFails
  <1>9. ASSUME NEW p \in Procs, RecordTurns(p)
        PROVE  ForkInv'
    <2>1. /\ UNCHANGED <<sink, sidecar, mem>>
          /\ InCritical(p) /\ InCritical(p)'
          /\ \A q \in Procs \ {p} : pc'[q] = pc[q]
      BY <1>9 DEF RecordTurns, InCritical, TypeOK
    <2> QED
      BY <2>1, QuietKeeps DEF InCritical
  <1>10. ASSUME NEW p \in Procs, Refresh(p)
         PROVE  ForkInv'
    <2>1. /\ lock = p /\ UNCHANGED sink /\ mem[p].sess \in Sessions
          /\ \A q \in Procs : ~InCritical(q)'
      BY <1>10 DEF Refresh, ReadyToRefresh, OneHolder, InCritical, TypeOK
    <2>2. Forkless' /\ Ahead'
      BY <2>1 DEF ForkInv, Forkless, Ahead
    <2>3. SidecarSafe'
      <3> SUFFICES ASSUME NEW s \in Sessions
                   PROVE  Current(s)'
        BY DEF SidecarSafe
      <3>1. CASE s # mem[p].sess
        <4>1. Current(s)
          BY <2>1, <3>1, HolderDirties DEF ForkInv, SidecarSafe
        <4>2. sidecar'[s] = sidecar[s]
          BY <1>10, <2>1, <3>1 DEF Refresh, TypeOK
        <4> QED
          BY <2>1, <4>1, <4>2 DEF Current, Hit
      <3>2. CASE s = mem[p].sess /\ mem[p].last = NoId
        <4>1. Current(s)
          BY <2>1, <3>2, HolderDirties DEF ForkInv, SidecarSafe
        <4>2. sidecar'[s] = sidecar[s]
          BY <1>10, <3>2 DEF Refresh
        <4> QED
          BY <2>1, <4>1, <4>2 DEF Current, Hit
      <3>3. CASE s = mem[p].sess /\ mem[p].last # NoId
        <4>2. sidecar'[s].off = LastLine
          BY <1>10, <3>3 DEF Refresh, TypeOK
        <4>3. Hit(s)' => LastLine \in DOMAIN sink
          BY <2>1, <4>2 DEF Hit
        <4>4. LastLine \in DOMAIN sink => \A j \in DOMAIN sink : j <= LastLine
          BY SinkType DEF LastLine
        <4> QED
          BY <2>1, <4>2, <4>3, <4>4 DEF Current
      <3> QED
        BY <3>1, <3>2, <3>3
    <2> QED
      BY <2>2, <2>3 DEF ForkInv
  <1>11. ASSUME NEW p \in Procs, Crash(p)
         PROVE  ForkInv'
    BY <1>11 DEF Crash
  <1>12. CASE LoseSidecar
    <2>1. UNCHANGED <<sink, pc, mem>> /\ \A s \in Sessions : sidecar'[s].off = 0
      BY <1>12 DEF LoseSidecar, NoEntry
    <2>2. 0 \notin DOMAIN sink
      BY SinkType
    <2>3. \A s \in Sessions : ~Hit(s)'
      BY <2>1, <2>2 DEF Hit
    <2> QED
      BY <2>1, <2>3 DEF ForkInv, Forkless, SidecarSafe, Current, Ahead, InCritical
  <1>13. CASE (\E s \in Sessions : FlushTurn(s)) \/ UNCHANGED vars
    BY <1>13, QuietKeeps DEF FlushTurn, vars, disk, InCritical
  <1> QED
    BY <1>1, <1>2, <1>3, <1>4, <1>5, <1>6, <1>7, <1>8, <1>9, <1>10, <1>11, <1>12,
       <1>13 DEF Next, Step, Finished

(***************************************************************************)
(* Faults are counted and never forgotten.                                 *)
(***************************************************************************)
LEMMA FaultsAreCounted ==
  ASSUME TypeOK, [Next]_vars, NEW kinds \in SUBSET FaultKinds, Spared(kinds)'
  PROVE  /\ Spared(kinds)
         /\ \A f \in kinds : ~Fault(f)
  <1>1. faults' = faults \/ \E f \in FaultKinds : Fault(f)
    <2> DEFINE Counted == faults' = faults \/ \E f \in FaultKinds : Fault(f)
    <2>1. ASSUME NEW p \in Procs, NEW s \in Sessions, NEW k \in Kinds,
                 Launch(p, s, k)
          PROVE  Counted
      BY <2>1 DEF Launch, FaultKinds
    <2>2. ASSUME NEW p \in Procs, NEW s \in Sessions, GateEmpty(p, s)
          PROVE  Counted
      BY <2>2 DEF GateEmpty
    <2>3. ASSUME NEW l, Write(l)
          PROVE  Counted
      BY <2>3 DEF Write, FaultKinds
    <2>4. ASSUME NEW p \in Procs, Step(p)
          PROVE  Counted
      <3>1. CASE Open(p) \/ Acquire(p) \/ ParseTranscript(p)
        BY <3>1 DEF Open, Acquire, ParseTranscript, FaultKinds
      <3>2. CASE EmitEvent(p) \/ \E t \in Turns : EmitTurn(p, t)
        BY <3>2, <2>3 DEF EmitEvent, EmitTurn
      <3>3. CASE RecordTurns(p) \/ Refresh(p)
        BY <3>3 DEF RecordTurns, Refresh, FaultKinds
      <3> QED
        BY <2>4, <3>1, <3>2, <3>3 DEF Step
    <2>5. ASSUME NEW p \in Procs, BuildFails(p) \/ Crash(p)
          PROVE  Counted
      BY <2>5 DEF BuildFails, Crash, FaultKinds
    <2>6. CASE LoseSidecar \/ (\E s \in Sessions : FlushTurn(s)) \/ UNCHANGED vars
      BY <2>6 DEF LoseSidecar, FlushTurn, vars, FaultKinds
    <2> QED
      BY <2>1, <2>2, <2>4, <2>5, <2>6 DEF Next, Finished
  <1>2. \A f \in FaultKinds : faults[f] \in Nat
    BY DEF TypeOK
  <1>3. \A f \in kinds : faults'[f] = 0 /\ f \in FaultKinds
    BY DEF Spared
  <1>4. ASSUME NEW f \in kinds, Fault(f)
        PROVE  FALSE
    BY <1>2, <1>3, <1>4 DEF Fault, TypeOK
  <1>5. ASSUME NEW f \in kinds
        PROVE  faults[f] = 0
    BY <1>1, <1>2, <1>3, <1>4 DEF Fault, TypeOK
  <1> QED
    BY <1>4, <1>5 DEF Spared

(***************************************************************************)
(* Until a process is killed, a sidecar update fails or a read does, no    *)
(* sequence number is issued twice in a session, however many writes are   *)
(* lost, torn or rejected and however often the sidecar is deleted.        *)
(***************************************************************************)
THEOREM NeverForks == Spec => []NoFork
  <1> DEFINE Kept == Spared({"crash", "sidecar", "read"}) => ForkInv
  <1>1. Kept => NoFork
    BY DEF ForkInv, NoFork
  <1>2. Init => Kept
    BY ForkInit
  <1>3. TypeOK /\ OneHolder /\ Shape /\ Kept /\ [Next]_vars => Kept'
    <2> SUFFICES ASSUME TypeOK, OneHolder, Shape, Kept, [Next]_vars,
                        Spared({"crash", "sidecar", "read"})'
                 PROVE  ForkInv'
      OBVIOUS
    <2>1. /\ Spared({"crash", "sidecar", "read"})
          /\ ~Fault("crash") /\ ~Fault("sidecar") /\ ~Fault("read")
      <3>1. {"crash", "sidecar", "read"} \in SUBSET FaultKinds
        BY DEF FaultKinds
      <3> QED
        BY <3>1, FaultsAreCounted
    <2> QED
      BY <2>1, ForkNext
  <1> QED
    BY <1>1, <1>2, <1>3, Holder, PTL DEF Spec

-----------------------------------------------------------------------------
(***************************************************************************)
(* What a step does to the file and to the process that takes it, field by *)
(* field.                                                                  *)
(***************************************************************************)
LEMMA WriteEffect ==
  ASSUME TypeOK, NEW line \in Line, Write(line)
  PROVE  /\ \A i \in DOMAIN sink : i \in DOMAIN sink' /\ sink'[i] = sink[i]
         /\ \A i \in DOMAIN sink' :
              \/ i \in DOMAIN sink
              \/ /\ i = Len(sink) + 1 /\ sink'[i] \in {line, Garbage}
                 /\ i \notin DOMAIN sink /\ \A j \in DOMAIN sink' : j <= i
         /\ ~open /\ ~Fault("drop") /\ ~Fault("tear") =>
              /\ ~open' /\ Len(sink) + 1 \in DOMAIN sink'
              /\ sink'[Len(sink) + 1] = line
              /\ DOMAIN sink = 1..Len(sink) /\ Len(sink) \in Nat
         /\ UNCHANGED <<exists, sidecar, emitted, transcript, lock, pc, answered, used>>
  <1>1. sink \in Seq(Line) /\ Garbage \in Line
    BY GarbageType DEF TypeOK
  <1>2. sink' \in {sink, Append(sink, line), Append(sink, Garbage)}
    BY DEF Write
  <1>3. ASSUME NEW e \in Line
        PROVE  /\ Len(sink) \in Nat /\ DOMAIN sink = 1..Len(sink)
               /\ DOMAIN Append(sink, e) = 1..(Len(sink) + 1)
               /\ \A i \in 1..Len(sink) : Append(sink, e)[i] = sink[i]
               /\ Append(sink, e)[Len(sink) + 1] = e
    BY <1>1
  <1>4. /\ Len(sink) \in Nat /\ DOMAIN sink = 1..Len(sink)
        /\ DOMAIN sink' \in {1..Len(sink), 1..(Len(sink) + 1)}
        /\ \A i \in 1..Len(sink) : sink'[i] = sink[i]
        /\ Len(sink) + 1 \in DOMAIN sink' => sink'[Len(sink) + 1] \in {line, Garbage}
    <2>1. CASE sink' = sink
      BY <1>3, <2>1, GarbageType
    <2>2. CASE sink' = Append(sink, line)
      BY <1>3, <2>2
    <2>3. CASE sink' = Append(sink, Garbage)
      BY <1>1, <1>3, <2>3
    <2> QED
      BY <1>2, <2>1, <2>2, <2>3
  <1>5. \A i \in DOMAIN sink' : \/ i \in DOMAIN sink
                               \/ /\ i = Len(sink) + 1 /\ i \notin DOMAIN sink
                                  /\ \A j \in DOMAIN sink' : j <= i
    BY <1>4
  <1>6. ~open /\ ~Fault("drop") /\ ~Fault("tear") => ~open' /\ sink' = Append(sink, line)
    BY DEF Write
  <1>7. UNCHANGED <<exists, sidecar, emitted, transcript, lock, pc, answered, used>>
    BY DEF Write
  <1> QED
    BY <1>3, <1>4, <1>5, <1>6, <1>7

(***************************************************************************)
(* Process p writes one more event and remembers it as the end of its      *)
(* chain; what it has left to do, and its turns, are for the caller.       *)
(***************************************************************************)
Emits(p, line) ==
  /\ InCritical(p) /\ line \in Line /\ Write(line)
  /\ line.sess = mem[p].sess /\ line.seq = mem[p].seq + 1
  /\ line.prev = mem[p].last /\ line.id = nextId
  /\ mem'[p].sess = mem[p].sess /\ mem'[p].kind = mem[p].kind
  /\ mem'[p].seq = mem[p].seq + 1 /\ mem'[p].last = nextId
  /\ \A q \in Procs \ {p} : mem'[q] = mem[q]
  /\ UNCHANGED pc

LEMMA EmitEventEffect ==
  ASSUME TypeOK, NEW p \in Procs, EmitEvent(p)
  PROVE  /\ pc[p] = "emit" /\ mem[p].todo # <<>>
         /\ Emits(p, Chained(p, Head(mem[p].todo), NoTurn))
         /\ mem'[p].todo = Tail(mem[p].todo)
         /\ mem'[p].newly = mem[p].newly /\ mem'[p].batch = mem[p].batch
  <1>1. InCritical(p) /\ mem[p] \in Memory
    BY DEF EmitEvent, InCritical, TypeOK
  <1>2. Head(mem[p].todo) \in EventTypes
    BY <1>1, HeadTailProperties DEF EmitEvent, Memory
  <1> DEFINE line == Chained(p, Head(mem[p].todo), NoTurn)
  <1>3. /\ line \in Line /\ line.sess = mem[p].sess /\ line.seq = mem[p].seq + 1
        /\ line.prev = mem[p].last /\ line.id = nextId
    BY <1>2, ChainedType DEF Chained
  <1>4. mem' = [mem EXCEPT ![p] =
            [mem[p] EXCEPT !.seq = @ + 1, !.last = nextId, !.todo = Tail(@)]]
    BY DEF EmitEvent, TypeOK
  <1>5. /\ mem'[p].sess = mem[p].sess /\ mem'[p].kind = mem[p].kind
        /\ mem'[p].seq = mem[p].seq + 1
        /\ mem'[p].last = nextId /\ mem'[p].todo = Tail(mem[p].todo)
        /\ mem'[p].newly = mem[p].newly /\ mem'[p].batch = mem[p].batch
        /\ \A q \in Procs \ {p} : mem'[q] = mem[q]
    BY <1>1, <1>4 DEF TypeOK, Memory
  <1>6. Write(line) /\ pc[p] = "emit" /\ mem[p].todo # <<>>
    BY DEF EmitEvent
  <1>7. UNCHANGED pc
    BY <1>6 DEF Write
  <1> HIDE DEF line
  <1>8. Emits(p, line)
    BY <1>1, <1>3, <1>5, <1>6, <1>7 DEF Emits
  <1> QED
    BY <1>5, <1>6, <1>8 DEF line

LEMMA EmitTurnEffect ==
  ASSUME TypeOK, NEW p \in Procs, NEW t \in Turns, EmitTurn(p, t)
  PROVE  /\ pc[p] = "batch" /\ t \in mem[p].batch
         /\ Emits(p, Chained(p, "TURN", t))
         /\ mem'[p].todo = mem[p].todo
         /\ mem'[p].newly = mem[p].newly \cup {t}
         /\ mem'[p].batch = mem[p].batch \ {t}
  <1>1. InCritical(p) /\ mem[p] \in Memory
    BY DEF EmitTurn, InCritical, TypeOK
  <1> DEFINE line == Chained(p, "TURN", t)
  <1>2. /\ line \in Line /\ line.sess = mem[p].sess /\ line.seq = mem[p].seq + 1
        /\ line.prev = mem[p].last /\ line.id = nextId
    BY ChainedType DEF Chained, EventTypes
  <1>3. mem' = [mem EXCEPT ![p] =
            [mem[p] EXCEPT !.seq = @ + 1, !.last = nextId, !.batch = @ \ {t},
                           !.newly = @ \cup {t}]]
    BY DEF EmitTurn, TypeOK
  <1>4. /\ mem'[p].sess = mem[p].sess /\ mem'[p].kind = mem[p].kind
        /\ mem'[p].seq = mem[p].seq + 1
        /\ mem'[p].last = nextId /\ mem'[p].todo = mem[p].todo
        /\ mem'[p].newly = mem[p].newly \cup {t} /\ mem'[p].batch = mem[p].batch \ {t}
        /\ \A q \in Procs \ {p} : mem'[q] = mem[q]
    BY <1>1, <1>3 DEF TypeOK, Memory
  <1>5. Write(line) /\ pc[p] = "batch" /\ t \in mem[p].batch
    BY DEF EmitTurn, NextTurn
  <1>6. UNCHANGED pc
    BY <1>5 DEF Write
  <1> HIDE DEF line
  <1>7. Emits(p, line)
    BY <1>1, <1>2, <1>4, <1>5, <1>6 DEF Emits
  <1> QED
    BY <1>4, <1>5, <1>7 DEF line

(***************************************************************************)
(* The lock is taken: nobody is in the critical section before, and only   *)
(* the new holder after.                                                   *)
(***************************************************************************)
LEMMA AcquireEffect ==
  ASSUME TypeOK, OneHolder, NEW p \in Procs, Acquire(p)
  PROVE  /\ pc[p] = "wait" /\ UNCHANGED disk /\ UNCHANGED answered
         /\ \A q \in Procs : ~InCritical(q)
         /\ \A q \in Procs \ {p} : ~InCritical(q)' /\ mem'[q] = mem[q] /\ pc'[q] = pc[q]
         /\ InCritical(p)' =>
              /\ pc'[p] = "emit"
              /\ mem'[p].sess = mem[p].sess /\ mem'[p].kind = mem[p].kind
              /\ mem'[p].newly = mem[p].newly
              /\ \/ /\ mem'[p].todo = HandlerEvents[mem[p].kind]
                    /\ Resumable(mem[p].sess)
                    /\ \E st \in {ResumedState(mem[p].sess), ScannedState(mem[p].sess)} :
                         mem'[p].seq = st.seq /\ mem'[p].last = st.id
                 \/ /\ ~Resumable(mem[p].sess) \/ Fault("read")
                    /\ mem[p].kind # "Declare"
                    /\ mem'[p].seq = mem[p].seq /\ mem'[p].last = mem[p].last
                    /\ mem'[p].todo = SessionOpening \o HandlerEvents[mem[p].kind]
  <1>1. /\ mem[p] \in Memory /\ pc[p] = "wait" /\ lock = NoProc
        /\ UNCHANGED disk /\ UNCHANGED answered
        /\ \A q \in Procs : ~InCritical(q)
    BY AcquireMoves, ConstantsAssumption DEF OneHolder
  <1>2. \A q \in Procs \ {p} : mem'[q] = mem[q] /\ pc'[q] = pc[q]
    <2>1. ASSUME NEW m, NEW x, mem' = [mem EXCEPT ![p] = m], pc' = [pc EXCEPT ![p] = x]
          PROVE  \A q \in Procs \ {p} : mem'[q] = mem[q] /\ pc'[q] = pc[q]
      BY <2>1 DEF TypeOK
    <2>2. CASE \E st \in [seq : Nat, id : Nat] : PicksUpAt(p, st)
      <3>1. PICK st \in [seq : Nat, id : Nat] : PicksUpAt(p, st)
        BY <2>2
      <3> DEFINE m == [mem[p] EXCEPT !.seq = st.seq, !.last = st.id,
                                     !.todo = HandlerEvents[mem[p].kind]]
      <3>2. mem' = [mem EXCEPT ![p] = m] /\ pc' = [pc EXCEPT ![p] = "emit"]
        BY <3>1 DEF PicksUpAt, Enters
      <3> HIDE DEF m
      <3> QED
        BY <2>1, <3>2
    <2>3. CASE Opens(p)
      <3> DEFINE m == [mem[p] EXCEPT !.todo = SessionOpening \o HandlerEvents[mem[p].kind]]
      <3>1. mem' = [mem EXCEPT ![p] = m] /\ pc' = [pc EXCEPT ![p] = "emit"]
        BY <2>3 DEF Opens, Enters
      <3> HIDE DEF m
      <3> QED
        BY <2>1, <3>1
    <2>4. CASE GivesUp(p)
      BY <2>1, <2>4 DEF GivesUp
    <2> QED
      BY AcquireMoves, <2>2, <2>3, <2>4
  <1>3. ASSUME NEW st \in [seq : Nat, id : Nat], PicksUpAt(p, st)
        PROVE  /\ pc'[p] = "emit"
               /\ mem'[p].sess = mem[p].sess /\ mem'[p].kind = mem[p].kind
               /\ mem'[p].newly = mem[p].newly
               /\ mem'[p].seq = st.seq /\ mem'[p].last = st.id
               /\ mem'[p].todo = HandlerEvents[mem[p].kind]
               /\ Resumable(mem[p].sess)
               /\ st \in {ResumedState(mem[p].sess), ScannedState(mem[p].sess)}
    <2>1. mem' = [mem EXCEPT ![p] = [mem[p] EXCEPT !.seq = st.seq, !.last = st.id,
                                       !.todo = HandlerEvents[mem[p].kind]]]
      BY <1>3 DEF PicksUpAt
    <2>2. /\ mem'[p].sess = mem[p].sess /\ mem'[p].kind = mem[p].kind
          /\ mem'[p].newly = mem[p].newly
          /\ mem'[p].seq = st.seq /\ mem'[p].last = st.id
          /\ mem'[p].todo = HandlerEvents[mem[p].kind]
      BY <1>1, <2>1 DEF TypeOK, Memory
    <2> QED
      BY <1>3, <2>2 DEF PicksUpAt, Enters, TypeOK
  <1>4. ASSUME Opens(p)
        PROVE  /\ pc'[p] = "emit"
               /\ mem'[p].sess = mem[p].sess /\ mem'[p].kind = mem[p].kind
               /\ mem'[p].newly = mem[p].newly
               /\ mem'[p].seq = mem[p].seq /\ mem'[p].last = mem[p].last
               /\ mem'[p].todo = SessionOpening \o HandlerEvents[mem[p].kind]
    <2>1. mem' = [mem EXCEPT ![p] = [mem[p] EXCEPT
                    !.todo = SessionOpening \o HandlerEvents[mem[p].kind]]]
      BY <1>4 DEF Opens
    <2>2. /\ mem'[p].sess = mem[p].sess /\ mem'[p].kind = mem[p].kind
          /\ mem'[p].newly = mem[p].newly
          /\ mem'[p].seq = mem[p].seq /\ mem'[p].last = mem[p].last
          /\ mem'[p].todo = SessionOpening \o HandlerEvents[mem[p].kind]
      BY <1>1, <2>1 DEF TypeOK, Memory
    <2> QED
      BY <1>4, <2>2 DEF Opens, Enters, TypeOK
  <1>5. ASSUME GivesUp(p)
        PROVE  ~InCritical(p)'
    BY <1>5 DEF GivesUp, TypeOK, InCritical
  <1>6. \A q \in Procs \ {p} : ~InCritical(q)'
    BY <1>1, <1>2 DEF InCritical
  <1> QED
    BY <1>1, <1>2, <1>3, <1>4, <1>5, <1>6, AcquireMoves DEF Opens

(***************************************************************************)
(* Process p moves on inside the critical section without a write: it      *)
(* parses the transcript, skips an event that is not valid, or records its *)
(* turns.                                                                  *)
(***************************************************************************)
Works(p) ==
  /\ InCritical(p) /\ InCritical(p)'
  /\ mem'[p].sess = mem[p].sess /\ mem'[p].kind = mem[p].kind
  /\ mem'[p].last = mem[p].last /\ mem'[p].newly = mem[p].newly
  /\ \A q \in Procs \ {p} : mem'[q] = mem[q] /\ pc'[q] = pc[q]
  /\ UNCHANGED <<sink, open, answered>>

LEMMA ParseEffect ==
  ASSUME TypeOK, NEW p \in Procs, ParseTranscript(p)
  PROVE  /\ Works(p) /\ pc[p] = "emit" /\ pc'[p] = "batch" /\ UNCHANGED emitted
         /\ mem[p].todo = <<>> /\ mem'[p].todo = <<>> /\ mem'[p].seq = mem[p].seq
         /\ mem'[p].batch \cap emitted[mem[p].sess] = {} \/ Fault("read")
  <1>1. mem[p] \in Memory
    BY DEF TypeOK
  <1>2. PICK b : /\ mem' = [mem EXCEPT ![p] = [mem[p] EXCEPT !.batch = b]]
                 /\ b \cap emitted[mem[p].sess] = {} \/ Fault("read")
    <2>1. \A n : Unreported(mem[p].sess, n) \cap emitted[mem[p].sess] = {}
      BY DEF Unreported
    <2>2. ASSUME NEW b, mem' = [mem EXCEPT ![p].batch = b]
          PROVE  mem' = [mem EXCEPT ![p] = [mem[p] EXCEPT !.batch = b]]
      BY <2>2 DEF TypeOK
    <2>3. \E b : /\ mem' = [mem EXCEPT ![p].batch = b]
                 /\ b \cap emitted[mem[p].sess] = {} \/ Fault("read")
      BY <2>1 DEF ParseTranscript
    <2> QED
      BY <2>2, <2>3
  <1>3. /\ mem'[p].sess = mem[p].sess /\ mem'[p].kind = mem[p].kind
        /\ mem'[p].seq = mem[p].seq /\ mem'[p].last = mem[p].last
        /\ mem'[p].todo = mem[p].todo /\ mem'[p].newly = mem[p].newly
        /\ mem'[p].batch = b
        /\ \A q \in Procs \ {p} : mem'[q] = mem[q]
    BY <1>1, <1>2 DEF TypeOK, Memory
  <1>4. /\ pc[p] = "emit" /\ pc'[p] = "batch" /\ mem[p].todo = <<>>
        /\ \A q \in Procs \ {p} : pc'[q] = pc[q]
        /\ UNCHANGED <<sink, open, emitted, answered>>
    BY DEF ParseTranscript, TypeOK, disk
  <1> QED
    BY <1>2, <1>3, <1>4 DEF Works, InCritical

(***************************************************************************)
(* An event that is not valid is skipped by a hook, and ends a declaration.*)
(***************************************************************************)
LEMMA SkipEffect ==
  ASSUME TypeOK, OneHolder, Shape, NEW p \in Procs, BuildFails(p)
  PROVE  /\ Fault("invalid") /\ InCritical(p) /\ UNCHANGED <<sink, open, emitted, answered>>
         /\ \/ /\ Works(p) /\ UNCHANGED pc /\ mem'[p].seq = mem[p].seq + 1
               /\ mem[p].kind # "Declare"
               /\ \/ /\ pc[p] = "emit" /\ mem[p].todo # <<>>
                     /\ mem'[p].todo = Tail(mem[p].todo)
                     /\ mem'[p].batch = mem[p].batch
                  \/ /\ pc[p] = "batch" /\ mem'[p].todo = mem[p].todo
                     /\ mem'[p].batch \subseteq mem[p].batch
            \/ /\ mem[p].kind = "Declare" /\ pc[p] = "emit"
               /\ \A q \in Procs : ~InCritical(q)'
               /\ \A q \in Procs \ {p} : mem'[q] = mem[q] /\ pc'[q] = pc[q]
               /\ pc'[p] = "idle"
  <1>1. /\ mem[p] \in Memory /\ Fault("invalid")
        /\ UNCHANGED <<sink, open, emitted, answered>>
    BY DEF BuildFails, TypeOK, disk
  <1>2. CASE pc[p] = "emit" /\ mem[p].todo # <<>> /\ ~GivesUpWhenInvalid(p)
    <2>1. /\ mem' = [mem EXCEPT ![p] = [mem[p] EXCEPT !.seq = @ + 1, !.todo = Tail(@)]]
          /\ UNCHANGED pc
      BY <1>2 DEF BuildFails, TypeOK
    <2>2. /\ mem'[p].sess = mem[p].sess /\ mem'[p].kind = mem[p].kind
          /\ mem'[p].seq = mem[p].seq + 1 /\ mem'[p].last = mem[p].last
          /\ mem'[p].todo = Tail(mem[p].todo) /\ mem'[p].newly = mem[p].newly
          /\ mem'[p].batch = mem[p].batch
          /\ \A q \in Procs \ {p} : mem'[q] = mem[q]
      BY <1>1, <2>1 DEF TypeOK, Memory
    <2> QED
      BY <1>1, <1>2, <2>1, <2>2 DEF Works, InCritical, GivesUpWhenInvalid
  <1>3. CASE pc[p] = "batch"
    <2>1. PICK t \in Turns :
            mem' = [mem EXCEPT ![p] = [mem[p] EXCEPT !.seq = @ + 1, !.batch = @ \ {t}]]
      BY <1>3 DEF BuildFails, TypeOK
    <2>2. /\ mem'[p].sess = mem[p].sess /\ mem'[p].kind = mem[p].kind
          /\ mem'[p].seq = mem[p].seq + 1 /\ mem'[p].last = mem[p].last
          /\ mem'[p].todo = mem[p].todo /\ mem'[p].newly = mem[p].newly
          /\ mem'[p].batch \subseteq mem[p].batch
          /\ \A q \in Procs \ {p} : mem'[q] = mem[q]
      BY <1>1, <2>1 DEF TypeOK, Memory
    <2>3. UNCHANGED pc /\ mem[p].kind # "Declare"
      BY <1>3 DEF BuildFails, Shape, InCritical
    <2> QED
      BY <1>1, <1>3, <2>2, <2>3 DEF Works, InCritical
  <1>4. CASE pc[p] = "emit" /\ mem[p].todo # <<>> /\ GivesUpWhenInvalid(p)
    <2>1. /\ pc' = [pc EXCEPT ![p] = "idle"]
          /\ mem' = [mem EXCEPT ![p] = Blank]
      BY <1>4 DEF BuildFails
    <2>2. lock = p /\ \A q \in Procs \ {p} : ~InCritical(q)
      BY <1>4 DEF OneHolder, InCritical
    <2> QED
      BY <1>1, <1>4, <2>1, <2>2 DEF InCritical, GivesUpWhenInvalid, TypeOK
  <1> QED
    BY <1>2, <1>3, <1>4 DEF BuildFails

LEMMA RecordEffect ==
  ASSUME TypeOK, NEW p \in Procs, RecordTurns(p)
  PROVE  /\ Works(p) /\ pc[p] = "batch" /\ pc'[p] = "refresh" /\ UNCHANGED mem
         /\ \A s \in Sessions :
              /\ emitted[s] \subseteq emitted'[s]
              /\ emitted'[s] \subseteq
                   IF s = mem[p].sess THEN emitted[s] \cup mem[p].newly ELSE emitted[s]
         /\ Fault("sidecar") \/ mem[p].newly \subseteq emitted'[mem[p].sess]
  <1>1. /\ pc[p] = "batch" /\ pc'[p] = "refresh" /\ UNCHANGED mem
        /\ \A q \in Procs \ {p} : pc'[q] = pc[q]
        /\ UNCHANGED <<sink, open, answered>> /\ mem[p].sess \in Sessions
    BY DEF RecordTurns, TypeOK
  <1>2. Works(p)
    BY <1>1 DEF Works, InCritical
  <1>3. \/ emitted' = [emitted EXCEPT ![mem[p].sess] = emitted[mem[p].sess] \cup mem[p].newly]
        \/ Fault("sidecar") /\ UNCHANGED emitted
    BY DEF RecordTurns, Merged
  <1> QED
    BY <1>1, <1>2, <1>3 DEF TypeOK

(***************************************************************************)
(* Every other step leaves the file, and the processes in the critical     *)
(* section that stay there, alone.                                         *)
(***************************************************************************)
Settled ==
  /\ UNCHANGED <<sink, open>>
  /\ \A q \in Procs : InCritical(q)' => InCritical(q) /\ mem'[q] = mem[q] /\ pc'[q] = pc[q]

LEMMA SettledSteps ==
  ASSUME TypeOK, OneHolder
  PROVE  /\ \A p \in Procs, s \in Sessions, k \in Kinds : Launch(p, s, k) => Settled
         /\ \A p \in Procs, s \in Sessions : GateEmpty(p, s) => Settled
         /\ \A p \in Procs : Open(p) \/ Refresh(p) \/ Crash(p) => Settled
         /\ LoseSidecar \/ (\E s \in Sessions : FlushTurn(s)) \/ UNCHANGED vars => Settled
  <1>1. ASSUME NEW p \in Procs, NEW s \in Sessions, NEW k \in Kinds, Launch(p, s, k)
        PROVE  Settled
    BY <1>1 DEF Launch, Settled, InCritical, TypeOK, disk
  <1>2. ASSUME NEW p \in Procs, NEW s \in Sessions, GateEmpty(p, s)
        PROVE  Settled
    BY <1>2 DEF GateEmpty, Settled, InCritical, disk
  <1>3. ASSUME NEW p \in Procs, Open(p)
        PROVE  Settled
    BY <1>3 DEF Open, Settled, InCritical, TypeOK
  <1>4. ASSUME NEW p \in Procs, Refresh(p)
        PROVE  Settled
    BY <1>4 DEF Refresh, Settled, InCritical, TypeOK
  <1>5. ASSUME NEW p \in Procs, Crash(p)
        PROVE  Settled
    BY <1>5 DEF Crash, Settled, InCritical, TypeOK, disk
  <1>6. LoseSidecar \/ (\E s \in Sessions : FlushTurn(s)) \/ UNCHANGED vars => Settled
    BY DEF LoseSidecar, FlushTurn, vars, disk, Settled, InCritical
  <1> QED
    BY <1>1, <1>2, <1>3, <1>4, <1>5, <1>6

LEMMA ActionCases ==
  ASSUME TypeOK, OneHolder, [Next]_vars
  PROVE  \/ Settled
         \/ \E p \in Procs : \/ Acquire(p) \/ EmitEvent(p) \/ ParseTranscript(p)
                             \/ BuildFails(p) \/ RecordTurns(p)
         \/ \E p \in Procs, t \in Turns : EmitTurn(p, t)
  BY SettledSteps DEF Next, Step, Finished

-----------------------------------------------------------------------------
(***************************************************************************)
(* What a process has on its agenda: no turn, and a registration only as   *)
(* the first of its events.  Turns are for the batch alone.  Before the    *)
(* lock it remembers no event.                                             *)
(***************************************************************************)
Orderly(todo) ==
  \A i \in DOMAIN todo : todo[i] # "TURN" /\ (todo[i] = "REG" => i = 1)

Agenda ==
  \A p \in Procs : InCritical(p) =>
    /\ Orderly(mem[p].todo)
    /\ pc[p] # "emit" => mem[p].todo = <<>>
    /\ pc[p] = "emit" => mem[p].newly = {}

Fresh ==
  \A p \in Procs : pc[p] \in {"open", "wait"} =>
    mem[p].seq = 0 /\ mem[p].last = NoId /\ mem[p].newly = {}

Opening(p) == mem[p].todo # <<>> /\ Head(mem[p].todo) = "REG"

(***************************************************************************)
(* Who is about to register a session starts its chain, and, unless a read *)
(* has failed, finds nothing of the session in the file.                   *)
(***************************************************************************)
Unregistered ==
  \A p \in Procs : InCritical(p) /\ Opening(p) =>
    /\ mem[p].seq = 0 /\ mem[p].last = NoId
    /\ Spared({"read"}) => ~Resumable(mem[p].sess)

(***************************************************************************)
(* The handlers' events are in order, and so are they after an opening.    *)
(***************************************************************************)
LEMMA HandlersAreOrderly ==
  ASSUME NEW k \in HookKinds
  PROVE  /\ Orderly(HandlerEvents[k])
         /\ \A i \in DOMAIN HandlerEvents[k] : HandlerEvents[k][i] # "REG"
         /\ Orderly(SessionOpening \o HandlerEvents[k])
         /\ SessionOpening \o HandlerEvents[k] # <<>>
         /\ Head(SessionOpening \o HandlerEvents[k]) = "REG"
  <1> DEFINE h == HandlerEvents[k]
  <1>1. h \in Seq(EventTypes) /\ \A i \in DOMAIN h : h[i] \notin {"REG", "TURN"}
    <2>1. /\ HandlerEvents.Pre = <<"SCOPE", "CTX">>
          /\ HandlerEvents.PreMem = <<"SCOPE", "CTX", "MEM">>
          /\ HandlerEvents.Post = <<"CTX">>
          /\ HandlerEvents.End = <<>>
          /\ HandlerEvents.Other = <<>>
          /\ HandlerEvents.Declare = <<"DECL">>
      BY DEF HandlerEvents
    <2>2. h \in {<<"SCOPE", "CTX">>, <<"SCOPE", "CTX", "MEM">>, <<"CTX">>, <<>>, <<"DECL">>}
      BY <2>1 DEF HookKinds
    <2> QED
      BY <2>2, HandlerEventsType
  <1> HIDE DEF h
  <1>2. /\ SessionOpening \in Seq(EventTypes) /\ Len(SessionOpening) = 2
        /\ SessionOpening[1] = "REG" /\ SessionOpening[2] = "INTENT"
    BY DEF SessionOpening, EventTypes
  <1>3. /\ SessionOpening \o h \in Seq(EventTypes)
        /\ Len(SessionOpening \o h) = 2 + Len(h) /\ Len(h) \in Nat
        /\ (SessionOpening \o h)[1] = "REG" /\ (SessionOpening \o h)[2] = "INTENT"
        /\ \A i \in 3..(2 + Len(h)) : (SessionOpening \o h)[i] = h[i - 2] /\ i - 2 \in DOMAIN h
    <2> DEFINE o == SessionOpening
    <2>1. o \in Seq(EventTypes) /\ Len(o) = 2 /\ o[1] = "REG" /\ o[2] = "INTENT"
      BY <1>2
    <2> HIDE DEF o
    <2>2. /\ o \o h \in Seq(EventTypes) /\ Len(o \o h) = 2 + Len(h) /\ Len(h) \in Nat
          /\ \A i \in 1..(2 + Len(h)) : (o \o h)[i] = IF i <= 2 THEN o[i] ELSE h[i - 2]
      <3>1. /\ o \o h \in Seq(EventTypes)
            /\ Len(o \o h) = Len(o) + Len(h)
            /\ \A i \in 1 .. Len(o) + Len(h) :
                 (o \o h)[i] = IF i <= Len(o) THEN o[i] ELSE h[i - Len(o)]
        BY <1>1, <2>1, ConcatProperties
      <3> QED
        BY <1>1, <2>1, <3>1
    <2>3. /\ 1 \in 1..(2 + Len(h)) /\ 2 \in 1..(2 + Len(h))
          /\ \A i \in 3..(2 + Len(h)) :
               i \in 1..(2 + Len(h)) /\ ~(i <= 2) /\ i - 2 \in DOMAIN h
      BY <1>1, <2>2
    <2> QED
      BY <2>1, <2>2, <2>3 DEF o
  <1>4. Orderly(SessionOpening \o h)
    <2> SUFFICES ASSUME NEW i \in 1..(2 + Len(h))
                 PROVE  /\ (SessionOpening \o h)[i] # "TURN"
                        /\ (SessionOpening \o h)[i] = "REG" => i = 1
      BY <1>3 DEF Orderly
    <2>1. CASE i \in {1, 2}
      BY <1>3, <2>1
    <2>2. CASE i \in 3..(2 + Len(h))
      BY <1>1, <1>3, <2>2
    <2> QED
      BY <1>3, <2>1, <2>2
  <1>5. SessionOpening \o h # <<>> /\ Head(SessionOpening \o h) = "REG"
    BY <1>3
  <1> QED
    BY <1>1, <1>4, <1>5 DEF Orderly, h

LEMMA TailIsOrderly ==
  ASSUME NEW todo \in Seq(EventTypes), todo # <<>>, Orderly(todo)
  PROVE  /\ Orderly(Tail(todo)) /\ Head(todo) # "TURN"
         /\ Tail(todo) # <<>> => Head(Tail(todo)) # "REG"
  <1>1. /\ Tail(todo) \in Seq(EventTypes) /\ Len(Tail(todo)) = Len(todo) - 1
        /\ Len(todo) \in Nat \ {0} /\ Head(todo) = todo[1] /\ 1 \in DOMAIN todo
        /\ \A i \in DOMAIN Tail(todo) :
             Tail(todo)[i] = todo[i + 1] /\ i + 1 \in DOMAIN todo /\ i + 1 # 1
    OBVIOUS
  <1>2. \A i \in DOMAIN Tail(todo) : Tail(todo)[i] \notin {"TURN", "REG"}
    BY <1>1 DEF Orderly
  <1>3. Tail(todo) # <<>> => Head(Tail(todo)) = Tail(todo)[1] /\ 1 \in DOMAIN Tail(todo)
    BY <1>1
  <1> QED
    BY <1>1, <1>2, <1>3 DEF Orderly

LEMMA PlanInit == Init => Agenda /\ Fresh /\ Unregistered
  BY DEF Init, Agenda, Fresh, Unregistered, InCritical

LEMMA PlanNext ==
  ASSUME TypeOK, OneHolder, Shape, Agenda, Fresh, Unregistered, [Next]_vars
  PROVE  (Agenda /\ Fresh /\ Unregistered)'
  <1> DEFINE Plan == Agenda /\ Fresh /\ Unregistered
  <1>0. Spared({"read"})' => Spared({"read"}) /\ ~Fault("read")
    <2>1. {"read"} \in SUBSET FaultKinds
      BY DEF FaultKinds
    <2> QED
      BY <2>1, FaultsAreCounted
  <1>1. ASSUME Settled
        PROVE  Agenda' /\ Unregistered'
    BY <1>0, <1>1 DEF Settled, Agenda, Unregistered, Opening, Resumable, LinesOf, InCritical
  <1>2. ASSUME NEW p \in Procs, Works(p), Fresh, mem'[p].todo = <<>>
        PROVE  Fresh' /\ Unregistered'
    BY <1>2 DEF Works, Fresh, Unregistered, Opening, Resumable, LinesOf, InCritical, OneHolder
  <1>3. ASSUME NEW p \in Procs, NEW s \in Sessions, NEW k \in Kinds, Launch(p, s, k)
        PROVE  Plan'
    <2>2. mem'[p].seq = 0 /\ mem'[p].last = NoId /\ mem'[p].newly = {}
      BY ZenonT(60), <1>3 DEF Launch, TypeOK, Blank
    <2>3. \A q \in Procs \ {p} : mem'[q] = mem[q] /\ pc'[q] = pc[q]
      BY <1>3 DEF Launch, TypeOK
    <2>4. Fresh'
      BY <2>2, <2>3 DEF Fresh
    <2> QED
      BY <1>1, <1>3, <2>4, SettledSteps
  <1>4. ASSUME NEW p \in Procs, NEW s \in Sessions, GateEmpty(p, s)
        PROVE  Plan'
    <2>1. Fresh'
      BY <1>4 DEF GateEmpty, Fresh
    <2> QED
      BY <1>1, <1>4, <2>1, SettledSteps
  <1>5. ASSUME NEW p \in Procs, Open(p) \/ Refresh(p) \/ Crash(p)
        PROVE  Plan'
    <2>1. Fresh'
      <3>1. CASE Open(p)
        BY <3>1 DEF Open, Fresh, TypeOK
      <3>2. CASE Refresh(p)
        BY <3>2 DEF Refresh, Fresh, TypeOK
      <3>3. CASE Crash(p)
        BY <3>3 DEF Crash, Fresh, TypeOK
      <3> QED
        BY <1>5, <3>1, <3>2, <3>3
    <2> QED
      BY <1>1, <1>5, <2>1, SettledSteps
  <1>6. ASSUME NEW p \in Procs, Acquire(p)
        PROVE  Plan'
    <2>1. mem[p] \in Memory /\ mem[p].kind \in HookKinds
      BY DEF TypeOK, Memory
    <2>2. Fresh'
      <3>1. pc'[p] \notin {"open", "wait"}
        BY <1>6, AcquireMoves DEF PicksUpAt, Opens, GivesUp, Enters, TypeOK
      <3> QED
        BY <1>6, <3>1, AcquireEffect DEF Fresh
    <2>3. CASE ~InCritical(p)'
      <3>1. \A q \in Procs : ~InCritical(q)'
        BY <1>6, <2>3, AcquireEffect
      <3> QED
        BY <2>2, <3>1 DEF Agenda, Unregistered, InCritical
    <2>4. CASE InCritical(p)'
      <3>1. /\ pc'[p] = "emit" /\ mem'[p].newly = {} /\ UNCHANGED sink
            /\ \A q \in Procs \ {p} : ~InCritical(q)'
            /\ mem'[p].sess = mem[p].sess
        BY <1>6, <2>4, AcquireEffect DEF Fresh, disk
      <3>2. CASE mem'[p].todo = HandlerEvents[mem[p].kind]
        <4>1. mem'[p].todo \in Seq(EventTypes) /\ Orderly(mem'[p].todo)
          BY <2>1, <3>2, HandlersAreOrderly, HandlerEventsType
        <4>2. ~Opening(p)'
          <5>1. mem'[p].todo # <<>> => Head(mem'[p].todo) = mem'[p].todo[1] /\ 1 \in DOMAIN mem'[p].todo
            BY <4>1
          <5> QED
            BY <2>1, <3>2, <5>1, HandlersAreOrderly DEF Opening
        <4> QED
          BY <2>2, <3>1, <4>1, <4>2 DEF Agenda, Unregistered, InCritical, Orderly
      <3>3. CASE /\ ~Resumable(mem[p].sess) \/ Fault("read")
                 /\ mem'[p].seq = mem[p].seq /\ mem'[p].last = mem[p].last
                 /\ mem'[p].todo = SessionOpening \o HandlerEvents[mem[p].kind]
        <4>1. Orderly(mem'[p].todo)
          BY <2>1, <3>3, HandlersAreOrderly
        <4>2. mem'[p].seq = 0 /\ mem'[p].last = NoId
          BY <1>6, <3>3, AcquireEffect DEF Fresh
        <4>3. Spared({"read"})' => LinesOf(sink', mem'[p].sess) = {}
          BY <1>0, <3>1, <3>3 DEF Resumable, LinesOf
        <4>4. Agenda'
          BY <3>1, <4>1 DEF Agenda, InCritical, Orderly
        <4>5. Unregistered'
          BY <3>1, <4>2, <4>3 DEF Unregistered, InCritical, Resumable
        <4> QED
          BY <2>2, <4>4, <4>5
      <3> QED
        BY <1>6, <2>4, <3>2, <3>3, AcquireEffect
    <2> QED
      BY <2>3, <2>4
  <1>7. ASSUME NEW p \in Procs, EmitEvent(p)
        PROVE  Plan'
    <2>1. /\ pc[p] = "emit" /\ mem[p].todo # <<>> /\ UNCHANGED pc
          /\ mem'[p].todo = Tail(mem[p].todo) /\ mem'[p].newly = mem[p].newly
          /\ \A q \in Procs \ {p} : mem'[q] = mem[q]
      BY <1>7, EmitEventEffect DEF Emits
    <2>2. /\ Orderly(Tail(mem[p].todo)) /\ ~Opening(p)'
      <3>1. mem[p].todo \in Seq(EventTypes) /\ Orderly(mem[p].todo)
        BY <2>1 DEF TypeOK, Memory, Agenda, InCritical
      <3> QED
        BY <2>1, <3>1, TailIsOrderly DEF Opening
    <2>3. \A q \in Procs \ {p} : ~InCritical(q) /\ ~InCritical(q)'
      BY <2>1 DEF OneHolder, InCritical
    <2>4. Agenda'
      BY <2>1, <2>2, <2>3 DEF Agenda, InCritical
    <2>5. Fresh' /\ Unregistered'
      BY <2>1, <2>2, <2>3 DEF Fresh, Unregistered
    <2> QED
      BY <2>4, <2>5
  <1>8. ASSUME NEW p \in Procs, NEW t \in Turns, EmitTurn(p, t)
        PROVE  Plan'
    <2>1. /\ pc[p] = "batch" /\ UNCHANGED pc /\ mem'[p].todo = mem[p].todo
          /\ \A q \in Procs \ {p} : mem'[q] = mem[q]
      BY <1>8, EmitTurnEffect DEF Emits
    <2>2. mem'[p].todo = <<>> /\ ~Opening(p)'
      BY <2>1 DEF Agenda, InCritical, Opening
    <2>3. \A q \in Procs \ {p} : ~InCritical(q) /\ ~InCritical(q)'
      BY <2>1 DEF OneHolder, InCritical
    <2>4. Agenda'
      BY <2>1, <2>2, <2>3 DEF Agenda, InCritical, Orderly
    <2>5. Fresh' /\ Unregistered'
      BY <2>1, <2>2, <2>3 DEF Fresh, Unregistered
    <2> QED
      BY <2>4, <2>5
  <1>9. ASSUME NEW p \in Procs, ParseTranscript(p)
        PROVE  Plan'
    <2>1. /\ Works(p) /\ pc[p] = "emit" /\ pc'[p] = "batch" /\ mem'[p].todo = <<>>
      BY <1>9, ParseEffect
    <2>2. Agenda'
      BY <2>1 DEF Works, Agenda, InCritical, Orderly, OneHolder
    <2> QED
      BY <1>2, <2>1, <2>2
  <1>10. ASSUME NEW p \in Procs, BuildFails(p)
         PROVE  Plan'
    <2>1. CASE ~InCritical(p)'
      <3>1. /\ \A q \in Procs : ~InCritical(q)'
            /\ \A q \in Procs \ {p} : mem'[q] = mem[q] /\ pc'[q] = pc[q]
            /\ pc'[p] = "idle"
        BY <1>10, <2>1, SkipEffect DEF Works
      <3> QED
        BY <3>1 DEF Agenda, Fresh, Unregistered, InCritical
    <2>2. CASE InCritical(p)'
      <3>1. /\ Works(p) /\ UNCHANGED pc
            /\ \/ /\ pc[p] = "emit" /\ mem[p].todo # <<>>
                  /\ mem'[p].todo = Tail(mem[p].todo)
               \/ pc[p] = "batch" /\ mem'[p].todo = mem[p].todo
        BY <1>10, <2>2, SkipEffect
      <3>2. /\ Orderly(mem'[p].todo) /\ ~Opening(p)'
            /\ pc[p] = "batch" => mem'[p].todo = <<>>
        <4>1. mem[p].todo \in Seq(EventTypes) /\ Orderly(mem[p].todo)
          BY <3>1 DEF TypeOK, Memory, Agenda, Works
        <4> QED
          BY <3>1, <4>1, TailIsOrderly DEF Opening, Agenda, Works
      <3>3. \A q \in Procs \ {p} : ~InCritical(q) /\ ~InCritical(q)'
        BY <3>1 DEF Works, OneHolder, InCritical
      <3>4. Agenda'
        BY <3>1, <3>2, <3>3 DEF Works, Agenda, InCritical, Orderly
      <3>5. Fresh' /\ Unregistered'
        BY <3>1, <3>2, <3>3 DEF Works, Fresh, Unregistered, InCritical
      <3> QED
        BY <3>4, <3>5
    <2> QED
      BY <2>1, <2>2
  <1>11. ASSUME NEW p \in Procs, RecordTurns(p)
         PROVE  Plan'
    <2>1. /\ Works(p) /\ pc[p] = "batch" /\ pc'[p] = "refresh" /\ UNCHANGED mem
      BY <1>11, RecordEffect
    <2>2. mem'[p].todo = <<>>
      BY <2>1 DEF Agenda, InCritical
    <2>3. Agenda'
      BY <2>1, <2>2 DEF Works, Agenda, InCritical, Orderly, OneHolder
    <2> QED
      BY <1>2, <2>1, <2>2, <2>3
  <1>12. CASE LoseSidecar \/ (\E s \in Sessions : FlushTurn(s)) \/ UNCHANGED vars
    <2>1. Fresh'
      BY <1>12 DEF LoseSidecar, FlushTurn, vars, Fresh
    <2> QED
      BY <1>1, <1>12, <2>1, SettledSteps
  <1> QED
    BY <1>3, <1>4, <1>5, <1>6, <1>7, <1>8, <1>9, <1>10, <1>11, <1>12
    DEF Next, Step, Finished

LEMMA Planned == Spec => [](TypeOK /\ OneHolder /\ Shape /\ Agenda /\ Fresh /\ Unregistered)
  <1>1. TypeOK /\ OneHolder /\ Shape /\ Agenda /\ Fresh /\ Unregistered /\ [Next]_vars
          => (Agenda /\ Fresh /\ Unregistered)'
    BY PlanNext
  <1> QED
    BY <1>1, PlanInit, Holder, PTL DEF Spec

-----------------------------------------------------------------------------
(***************************************************************************)
(* ResumedFaithfully.  A session is registered by a process that found     *)
(* nothing of it under the lock, so nobody has registered it before,       *)
(* whatever has failed since.  And the holder's memory of the end of its   *)
(* chain names an event in the file (Anchored) as long as every event it   *)
(* builds is written.                                                      *)
(***************************************************************************)
Anchored(p) ==
  \E i \in DOMAIN sink : /\ sink[i].sess = mem[p].sess
                         /\ sink[i].id = mem[p].last /\ sink[i].seq = mem[p].seq

Hangs(j) ==
  /\ ~(sink[j].type = "REG" /\ sink[j].seq = 1 /\ sink[j].prev = NoId)
  /\ ~\E i \in 1..(j - 1) : Continues(sink[j], sink[i])

LinkedInv ==
  /\ ~open
  /\ \A j \in DOMAIN sink : ~Hangs(j)
  /\ \A p \in Procs : InCritical(p) => Opening(p) \/ Anchored(p)

LEMMA OneRegistrationNext ==
  ASSUME TypeOK, OneHolder, Shape, Agenda, Unregistered, RegisteredOnce, Spared({"read"}),
         [Next]_vars
  PROVE  RegisteredOnce'
  <1>1. CASE UNCHANGED sink
    BY <1>1 DEF RegisteredOnce
  <1>2. ASSUME NEW p \in Procs, NEW line, Emits(p, line),
               line.type = "REG" => ~Resumable(line.sess)
        PROVE  RegisteredOnce'
    <2>1. line \in Line /\ Write(line)
      BY <1>2 DEF Emits
    <2> SUFFICES ASSUME NEW i \in DOMAIN sink', NEW j \in DOMAIN sink',
                        sink'[i].type = "REG", sink'[j].type = "REG",
                        sink'[i].sess = sink'[j].sess
                 PROVE  i = j
      BY DEF RegisteredOnce
    <2>2. ASSUME NEW n \in DOMAIN sink', n \notin DOMAIN sink, sink'[n].type = "REG"
          PROVE  n = Len(sink) + 1 /\ \A k \in DOMAIN sink : sink[k].sess # sink'[n].sess
      <3>1. n = Len(sink) + 1 /\ sink'[n] \in {line, Garbage}
        BY <2>1, <2>2, WriteEffect
      <3>2. sink'[n] = line
        BY <2>2, <3>1 DEF Garbage
      <3> QED
        BY <1>2, <2>2, <3>1, <3>2 DEF Resumable, LinesOf
    <2>3. \A k \in DOMAIN sink : k \in DOMAIN sink' /\ sink'[k] = sink[k]
      BY <2>1, WriteEffect
    <2> QED
      BY <2>2, <2>3 DEF RegisteredOnce
  <1>3. ASSUME NEW p \in Procs, EmitEvent(p)
        PROVE  RegisteredOnce'
    <2> DEFINE line == Chained(p, Head(mem[p].todo), NoTurn)
    <2>1. pc[p] = "emit" /\ mem[p].todo # <<>> /\ Emits(p, line)
      BY <1>3, EmitEventEffect
    <2>2. line.type = Head(mem[p].todo) /\ line.sess = mem[p].sess
      BY DEF Chained
    <2> HIDE DEF line
    <2>3. line.type = "REG" => ~Resumable(line.sess)
      BY <2>1, <2>2 DEF Unregistered, Opening, InCritical
    <2> QED
      BY <1>2, <2>1, <2>3
  <1>4. ASSUME NEW p \in Procs, NEW t \in Turns, EmitTurn(p, t)
        PROVE  RegisteredOnce'
    <2>1. Emits(p, Chained(p, "TURN", t))
      BY <1>4, EmitTurnEffect
    <2>2. Chained(p, "TURN", t).type = "TURN"
      BY DEF Chained
    <2> QED
      BY <1>2, <2>1, <2>2
  <1> QED
    BY <1>1, <1>3, <1>4, ActionCases, AcquireEffect, SkipEffect, ParseEffect, RecordEffect
    DEF Settled, Works, disk

(***************************************************************************)
(* Where a session resumes is the end of one of its events.                *)
(***************************************************************************)
LEMMA ResumedIsWritten ==
  ASSUME TypeOK, NEW s \in Sessions, Resumable(s),
         NEW st \in {ResumedState(s), ScannedState(s)}
  PROVE  \E i \in DOMAIN sink : /\ sink[i].sess = s
                                /\ sink[i].id = st.id
                                /\ sink[i].seq = st.seq
  <1>1. CASE Hit(s) /\ st = ResumedState(s)
    <2>1. /\ sidecar[s].off \in DOMAIN sink
          /\ sink[sidecar[s].off].sess = s
          /\ sink[sidecar[s].off].id = st.id
          /\ sink[sidecar[s].off].seq = st.seq
      BY <1>1 DEF Hit, ResumedState
    <2> QED
      BY <2>1
  <1>2. CASE st = ScannedState(s)
    <2>1. sink \in Seq(Line) /\ DOMAIN sink = 1..Len(sink)
      BY SinkType
    <2>2. Scan(s) \in DOMAIN sink /\ sink[Scan(s)].sess = s
      BY <2>1, LastOfIsLast DEF Scan, Resumable
    <2>3. sink[Scan(s)].id = st.id /\ sink[Scan(s)].seq = st.seq
      BY <1>2 DEF ScannedState
    <2> QED
      BY <2>2, <2>3
  <1> QED
    BY <1>1, <1>2 DEF ResumedState

LEMMA LinkedInvNext ==
  ASSUME TypeOK, OneHolder, Shape, Agenda, Unregistered, LinkedInv, [Next]_vars,
         ~Fault("drop"), ~Fault("tear"), ~Fault("invalid")
  PROVE  LinkedInv'
  <1>1. UNCHANGED sink => \A j \in DOMAIN sink' : ~Hangs(j)'
    BY DEF LinkedInv, Hangs
  <1>2. CASE Settled
    BY <1>1, <1>2 DEF Settled, LinkedInv, Opening, Anchored
  <1>3. ASSUME NEW p \in Procs, Works(p), ~Opening(p), ~Opening(p)',
               mem'[p].seq = mem[p].seq
        PROVE  LinkedInv'
    <2>1. /\ UNCHANGED <<sink, open>> /\ InCritical(p)
          /\ \A q \in Procs : InCritical(q)' => q = p
      BY <1>3 DEF Works, OneHolder, InCritical
    <2>2. Anchored(p)'
      BY <1>3, <2>1 DEF Works, LinkedInv, Anchored
    <2> QED
      BY <1>1, <2>1, <2>2 DEF LinkedInv
  <1>4. ASSUME NEW p \in Procs, ParseTranscript(p) \/ RecordTurns(p)
        PROVE  LinkedInv'
    <2>1. CASE ParseTranscript(p)
      BY <1>3, <2>1, ParseEffect DEF Opening
    <2>2. CASE RecordTurns(p)
      <3>1. Works(p) /\ pc[p] = "batch" /\ UNCHANGED mem
        BY <2>2, RecordEffect
      <3>2. ~Opening(p) /\ ~Opening(p)'
        BY <3>1 DEF Works, Agenda, Opening
      <3> QED
        BY <1>3, <3>1, <3>2
    <2> QED
      BY <1>4, <2>1, <2>2
  <1>5. ASSUME NEW p \in Procs, Acquire(p)
        PROVE  LinkedInv'
    <2>1. UNCHANGED <<sink, open>> /\ \A q \in Procs \ {p} : ~InCritical(q)'
      BY <1>5, AcquireEffect DEF disk
    <2>2. ASSUME InCritical(p)'
          PROVE  Opening(p)' \/ Anchored(p)'
      <3>1. mem[p].sess \in Sessions /\ mem[p].kind \in HookKinds
        BY <1>5, AcquireEffect DEF TypeOK, Memory
      <3>2. ASSUME NEW st \in {ResumedState(mem[p].sess), ScannedState(mem[p].sess)},
                   Resumable(mem[p].sess), mem'[p].seq = st.seq, mem'[p].last = st.id
            PROVE  Anchored(p)'
        <4>1. mem'[p].sess = mem[p].sess
          BY <1>5, <2>2, AcquireEffect
        <4> QED
          BY <2>1, <3>1, <3>2, <4>1, ResumedIsWritten DEF Anchored
      <3>3. ASSUME mem'[p].todo = SessionOpening \o HandlerEvents[mem[p].kind]
            PROVE  Opening(p)'
        <4>1. mem'[p].todo # <<>> /\ Head(mem'[p].todo) = "REG"
          BY <3>1, <3>3, HandlersAreOrderly
        <4> QED
          BY <4>1 DEF Opening
      <3> QED
        BY <1>5, <2>2, <3>2, <3>3, AcquireEffect
    <2> QED
      BY <1>1, <2>1, <2>2 DEF LinkedInv
  <1>6. ASSUME NEW p \in Procs, BuildFails(p)
        PROVE  FALSE
    BY <1>6, SkipEffect
  <1>7. ASSUME NEW p \in Procs, NEW line, Emits(p, line), ~Opening(p)',
               \/ Anchored(p)
               \/ line.type = "REG" /\ line.seq = 1 /\ line.prev = NoId
        PROVE  LinkedInv'
    <2> DEFINE n == Len(sink) + 1
    <2>1. line \in Line /\ Write(line) /\ ~open
      BY <1>7 DEF Emits, LinkedInv
    <2>2. /\ ~open' /\ n \in DOMAIN sink' /\ sink'[n] = line
          /\ DOMAIN sink = 1..Len(sink) /\ Len(sink) \in Nat
          /\ \A i \in DOMAIN sink : i \in DOMAIN sink' /\ sink'[i] = sink[i]
          /\ \A i \in DOMAIN sink' : i \in DOMAIN sink \/ i = n
      BY <2>1, WriteEffect
    <2>3. \A q \in Procs : InCritical(q)' => q = p
      BY <1>7 DEF Emits, OneHolder, InCritical
    <2>4. Anchored(p)'
      BY <1>7, <2>2 DEF Emits, Anchored
    <2>5. ASSUME NEW j \in DOMAIN sink'
          PROVE  ~Hangs(j)'
      <3>1. CASE j \in DOMAIN sink
        <4>1. ~Hangs(j) /\ sink'[j] = sink[j]
          BY <2>2, <3>1 DEF LinkedInv
        <4>2. \A i \in 1..(j - 1) : i \in DOMAIN sink /\ sink'[i] = sink[i]
          BY <2>2, <3>1
        <4> QED
          BY <4>1, <4>2 DEF Hangs
      <3>2. CASE j = n
        <4>1. CASE Anchored(p)
          <5>1. PICK i \in DOMAIN sink : /\ sink[i].sess = mem[p].sess
                                         /\ sink[i].id = mem[p].last
                                         /\ sink[i].seq = mem[p].seq
            BY <4>1 DEF Anchored
          <5>2. i \in 1..(n - 1) /\ Continues(sink'[n], sink'[i])
            BY <1>7, <2>2, <5>1 DEF Emits, Continues
          <5> HIDE DEF n
          <5> QED
            BY <3>2, <5>2 DEF Hangs
        <4>2. CASE line.type = "REG" /\ line.seq = 1 /\ line.prev = NoId
          BY <2>2, <3>2, <4>2 DEF Hangs
        <4> QED
          BY <1>7, <4>1, <4>2
      <3> QED
        BY <2>2, <3>1, <3>2
    <2> QED
      BY <2>2, <2>3, <2>4, <2>5 DEF LinkedInv
  <1>8. ASSUME NEW p \in Procs, EmitEvent(p)
        PROVE  LinkedInv'
    <2> DEFINE line == Chained(p, Head(mem[p].todo), NoTurn)
    <2>1. /\ pc[p] = "emit" /\ mem[p].todo # <<>> /\ Emits(p, line)
          /\ mem'[p].todo = Tail(mem[p].todo)
      BY <1>8, EmitEventEffect
    <2>2. /\ line.type = Head(mem[p].todo) /\ line.seq = mem[p].seq + 1
          /\ line.prev = mem[p].last
      BY DEF Chained
    <2> HIDE DEF line
    <2>3. InCritical(p) /\ mem[p].todo \in Seq(EventTypes) /\ Orderly(mem[p].todo)
      BY <2>1 DEF TypeOK, Memory, Agenda, InCritical
    <2>4. ~Opening(p)'
      BY <2>1, <2>3, TailIsOrderly DEF Opening
    <2>5. Anchored(p) \/ (line.type = "REG" /\ line.seq = 1 /\ line.prev = NoId)
      BY <2>1, <2>2, <2>3 DEF LinkedInv, Unregistered, Opening
    <2> QED
      BY <1>7, <2>1, <2>4, <2>5
  <1>9. ASSUME NEW p \in Procs, NEW t \in Turns, EmitTurn(p, t)
        PROVE  LinkedInv'
    <2>1. /\ pc[p] = "batch" /\ Emits(p, Chained(p, "TURN", t))
          /\ mem'[p].todo = mem[p].todo
      BY <1>9, EmitTurnEffect
    <2>2. ~Opening(p) /\ ~Opening(p)' /\ InCritical(p)
      BY <2>1 DEF Agenda, InCritical, Opening
    <2> QED
      BY <1>7, <2>1, <2>2 DEF LinkedInv
  <1> QED
    BY <1>2, <1>4, <1>5, <1>6, <1>8, <1>9, ActionCases

(***************************************************************************)
(* Until a read fails, a session registers once, whatever else fails; and  *)
(* until a write fails or an event is rejected, every event continues one  *)
(* that is already on disk or registers its session, although processes    *)
(* are killed, reads fail, and sidecars go stale or are lost.              *)
(***************************************************************************)
THEOREM Resumes == Spec => []ResumedFaithfully
  <1> DEFINE Written == {"drop", "tear", "invalid"}
             Read == {"read"}
             Kept == (Spared(Read) => RegisteredOnce) /\ (Spared(Written) => LinkedInv)
  <1>1. TypeOK /\ Kept => ResumedFaithfully
    <2> SUFFICES ASSUME TypeOK, Kept, Spared(Written), NEW j \in DOMAIN sink
                 PROVE  \/ sink[j].type = "REG" /\ sink[j].seq = 1 /\ sink[j].prev = NoId
                        \/ \E i \in 1..(j - 1) : Continues(sink[j], sink[i])
      BY DEF ResumedFaithfully, ChainsOntoWritten, OneRegistration
    <2> QED
      BY DEF LinkedInv, Hangs
  <1>2. Init => Kept
    BY DEF Init, RegisteredOnce, LinkedInv, InCritical
  <1>3. /\ TypeOK /\ OneHolder /\ Shape /\ Agenda /\ Fresh /\ Unregistered
        /\ Kept /\ [Next]_vars
        => Kept'
    <2> SUFFICES ASSUME TypeOK, OneHolder, Shape, Agenda, Unregistered, Kept, [Next]_vars
                 PROVE  Kept'
      OBVIOUS
    <2>1. ASSUME Spared(Read)'
          PROVE  RegisteredOnce'
      <3>1. Read \in SUBSET FaultKinds
        BY DEF FaultKinds
      <3>2. Spared(Read)
        BY <2>1, <3>1, FaultsAreCounted
      <3> QED
        BY <3>2, OneRegistrationNext
    <2>2. ASSUME Spared(Written)'
          PROVE  LinkedInv'
      <3>1. Written \in SUBSET FaultKinds
        BY DEF FaultKinds
      <3>2. Spared(Written) /\ ~Fault("drop") /\ ~Fault("tear") /\ ~Fault("invalid")
        BY <2>2, <3>1, FaultsAreCounted
      <3> QED
        BY <3>2, LinkedInvNext
    <2> QED
      BY <2>1, <2>2
  <1> QED
    BY <1>1, <1>2, <1>3, Planned, PTL DEF Spec

-----------------------------------------------------------------------------
(***************************************************************************)
(* SaysWhatItWrote.  Until a write fails, what the holder of the lock      *)
(* remembers to have written is in the file: the turns it is about to      *)
(* record, and the declaration it is about to answer with.                 *)
(***************************************************************************)
Answerable(a) == \E i \in DOMAIN sink : sink[i].id = a /\ sink[i].type = "DECL"

WrittenInv ==
  /\ ~open
  /\ \A s \in Sessions : \A t \in emitted[s] : Reported(s, t)
  /\ \A a \in answered : Answerable(a)
  /\ \A p \in Procs : InCritical(p) =>
       /\ \A t \in mem[p].newly : Reported(mem[p].sess, t)
       /\ mem[p].kind = "Declare" /\ mem[p].todo = <<>> => Answerable(mem[p].last)

LEMMA WrittenInvNext ==
  ASSUME TypeOK, OneHolder, Shape, Agenda, Fresh, WrittenInv, [Next]_vars,
         ~Fault("drop"), ~Fault("tear")
  PROVE  WrittenInv'
  <1>1. ASSUME \A i \in DOMAIN sink : i \in DOMAIN sink' /\ sink'[i] = sink[i]
        PROVE  /\ \A s, t : Reported(s, t) => Reported(s, t)'
               /\ \A a : Answerable(a) => Answerable(a)'
    BY <1>1 DEF Reported, Answerable
  <1>2. ASSUME Settled
        PROVE  /\ ~open'
               /\ \A s, t : Reported(s, t) => Reported(s, t)'
               /\ \A a : Answerable(a) => Answerable(a)'
               /\ \A p \in Procs : InCritical(p)' =>
                    /\ \A t \in mem'[p].newly : Reported(mem[p].sess, t)'
                    /\ mem'[p].kind = "Declare" /\ mem'[p].todo = <<>>
                         => Answerable(mem[p].last)'
    BY <1>1, <1>2 DEF Settled, WrittenInv
  <1>3. CASE Settled /\ UNCHANGED <<emitted, answered>>
    BY <1>2, <1>3 DEF WrittenInv
  <1>4. ASSUME NEW p \in Procs, Works(p), UNCHANGED emitted,
               mem'[p].kind = "Declare" /\ mem'[p].todo = <<>> => mem[p].todo = <<>>
        PROVE  WrittenInv'
    <2>1. UNCHANGED <<sink, open, answered>> /\ \A q \in Procs : InCritical(q)' => q = p
      BY <1>4 DEF Works, OneHolder, InCritical
    <2>2. /\ \A s, t : Reported(s, t) => Reported(s, t)'
          /\ \A a : Answerable(a) => Answerable(a)'
      BY <1>1, <2>1
    <2>3. /\ \A t \in mem'[p].newly : Reported(mem[p].sess, t)'
          /\ mem'[p].kind = "Declare" /\ mem'[p].todo = <<>> => Answerable(mem[p].last)'
      BY <1>4, <2>2 DEF Works, WrittenInv
    <2> QED
      BY <1>4, <2>1, <2>2, <2>3 DEF WrittenInv
  <1>5. ASSUME NEW p \in Procs, NEW line, Emits(p, line),
               \A t \in mem'[p].newly :
                 t \in mem[p].newly \/ (line.type = "TURN" /\ line.turn = t),
               mem'[p].kind = "Declare" /\ mem'[p].todo = <<>> => line.type = "DECL"
        PROVE  WrittenInv'
    <2> DEFINE n == Len(sink) + 1
    <2>1. line \in Line /\ Write(line) /\ ~open
      BY <1>5 DEF Emits, WrittenInv
    <2>2. /\ ~open' /\ n \in DOMAIN sink' /\ sink'[n] = line
          /\ \A i \in DOMAIN sink : i \in DOMAIN sink' /\ sink'[i] = sink[i]
          /\ UNCHANGED <<emitted, answered>>
      BY <2>1, WriteEffect
    <2> HIDE DEF n
    <2>3. /\ \A s, t : Reported(s, t) => Reported(s, t)'
          /\ \A a : Answerable(a) => Answerable(a)'
      BY <1>1, <2>2
    <2>4. \A q \in Procs : InCritical(q)' => q = p
      BY <1>5 DEF Emits, OneHolder, InCritical
    <2>5. \A t \in mem'[p].newly : Reported(mem[p].sess, t)'
      <3>1. ASSUME NEW t, line.type = "TURN", line.turn = t
            PROVE  Reported(mem[p].sess, t)'
        BY <1>5, <2>2, <3>1 DEF Emits, Reported
      <3>2. ASSUME NEW t \in mem[p].newly
            PROVE  Reported(mem[p].sess, t)'
        BY <1>5, <2>3, <3>2 DEF Emits, WrittenInv
      <3> QED
        BY <1>5, <3>1, <3>2 DEF Emits
    <2>6. mem'[p].kind = "Declare" /\ mem'[p].todo = <<>> => Answerable(mem[p].last)'
      BY <1>5, <2>2 DEF Emits, Answerable
    <2> QED
      BY <2>2, <2>3, <2>4, <2>5, <2>6 DEF WrittenInv
  <1>6. ASSUME NEW p \in Procs, Acquire(p)
        PROVE  WrittenInv'
    <2>1. UNCHANGED <<sink, open, emitted, answered>> /\ \A q \in Procs \ {p} : ~InCritical(q)'
      BY <1>6, AcquireEffect DEF disk
    <2>2. ASSUME InCritical(p)'
          PROVE  mem'[p].newly = {} /\ ~(mem'[p].kind = "Declare" /\ mem'[p].todo = <<>>)
      <3>1. mem'[p].newly = {}
        BY <1>6, <2>2, AcquireEffect DEF Fresh
      <3>2. mem'[p].kind = "Declare" => mem'[p].todo = HandlerEvents.Declare
        BY <1>6, <2>2, AcquireEffect
      <3>3. HandlerEvents.Declare # <<>>
        BY DEF HandlerEvents
      <3> QED
        BY <3>1, <3>2, <3>3
    <2>3. /\ \A s, t : Reported(s, t) => Reported(s, t)'
          /\ \A a : Answerable(a) => Answerable(a)'
      BY <1>1, <2>1
    <2> QED
      BY <2>1, <2>2, <2>3 DEF WrittenInv
  <1>7. ASSUME NEW p \in Procs, EmitEvent(p)
        PROVE  WrittenInv'
    <2> DEFINE line == Chained(p, Head(mem[p].todo), NoTurn)
    <2>1. /\ Emits(p, line) /\ mem[p].todo # <<>> /\ mem'[p].newly = mem[p].newly
          /\ line.type = Head(mem[p].todo)
      BY <1>7, EmitEventEffect DEF Chained
    <2> HIDE DEF line
    <2>2. mem'[p].kind = "Declare" => line.type = "DECL"
      <3>1. mem'[p].kind = "Declare" => mem[p].todo = <<"DECL">>
        BY <2>1 DEF Emits, Shape, HandlerEvents
      <3>2. Head(<<"DECL">>) = "DECL"
        OBVIOUS
      <3> QED
        BY <2>1, <3>1, <3>2
    <2> QED
      BY <1>5, <2>1, <2>2
  <1>8. ASSUME NEW p \in Procs, NEW t \in Turns, EmitTurn(p, t)
        PROVE  WrittenInv'
    <2> DEFINE line == Chained(p, "TURN", t)
    <2>1. /\ Emits(p, line) /\ pc[p] = "batch" /\ mem'[p].newly = mem[p].newly \cup {t}
          /\ line.type = "TURN" /\ line.turn = t
      BY <1>8, EmitTurnEffect DEF Chained
    <2> HIDE DEF line
    <2>2. mem'[p].kind # "Declare"
      BY <2>1 DEF Emits, Shape
    <2> QED
      BY <1>5, <2>1, <2>2
  <1>9. ASSUME NEW p \in Procs, ParseTranscript(p)
        PROVE  WrittenInv'
    BY <1>4, <1>9, ParseEffect
  <1>10. ASSUME NEW p \in Procs, BuildFails(p)
         PROVE  WrittenInv'
    <2>1. CASE Works(p) /\ mem[p].kind # "Declare"
      BY <1>4, <1>10, <2>1, SkipEffect DEF Works
    <2>2. CASE \A q \in Procs : ~InCritical(q)'
      <3>1. UNCHANGED <<sink, open, emitted, answered>>
        BY <1>10, SkipEffect
      <3> QED
        BY <1>1, <2>2, <3>1 DEF WrittenInv
    <2> QED
      BY <1>10, <2>1, <2>2, SkipEffect
  <1>11. ASSUME NEW p \in Procs, RecordTurns(p)
         PROVE  WrittenInv'
    <2>1. /\ Works(p) /\ UNCHANGED mem
          /\ \A s \in Sessions : emitted'[s] \subseteq
               IF s = mem[p].sess THEN emitted[s] \cup mem[p].newly ELSE emitted[s]
      BY <1>11, RecordEffect
    <2>2. UNCHANGED <<sink, open, answered>> /\ \A q \in Procs : InCritical(q)' => q = p
      BY <2>1 DEF Works, OneHolder, InCritical
    <2>3. /\ \A s, t : Reported(s, t) => Reported(s, t)'
          /\ \A a : Answerable(a) => Answerable(a)'
      BY <1>1, <2>2
    <2>4. \A t \in mem[p].newly : Reported(mem[p].sess, t)'
      BY <2>1, <2>3 DEF Works, WrittenInv
    <2>5. \A s \in Sessions : \A t \in emitted'[s] : Reported(s, t)'
      BY <2>1, <2>3, <2>4 DEF WrittenInv
    <2> QED
      BY <2>1, <2>2, <2>3, <2>4, <2>5 DEF Works, WrittenInv
  <1>12. ASSUME NEW p \in Procs, Refresh(p)
         PROVE  WrittenInv'
    <2>1. /\ InCritical(p) /\ UNCHANGED emitted /\ mem[p].todo = <<>>
          /\ answered' \subseteq IF mem[p].kind = "Declare"
                                 THEN answered \cup {mem[p].last} ELSE answered
      BY <1>12 DEF Refresh, ReadyToRefresh, InCritical, Agenda
    <2>2. \A a \in answered' : Answerable(a)
      BY <2>1 DEF WrittenInv
    <2>3. Settled
      BY <1>12, SettledSteps
    <2> QED
      BY <1>2, <2>1, <2>2, <2>3 DEF WrittenInv
  <1>13. CASE LoseSidecar
    <2>1. (\A s \in Sessions : emitted'[s] = {}) /\ UNCHANGED answered
      BY <1>13 DEF LoseSidecar
    <2>2. Settled
      BY <1>13, SettledSteps
    <2> QED
      BY <1>2, <2>1, <2>2 DEF WrittenInv
  <1>14. ASSUME NEW p \in Procs, NEW s \in Sessions, NEW k \in Kinds,
                Launch(p, s, k)
         PROVE  WrittenInv'
    <2>1. UNCHANGED <<emitted, answered>>
      BY <1>14 DEF Launch, disk
    <2> QED
      BY <1>3, <1>14, <2>1, SettledSteps
  <1>15. ASSUME NEW p \in Procs, NEW s \in Sessions, GateEmpty(p, s)
         PROVE  WrittenInv'
    <2>1. UNCHANGED <<emitted, answered>>
      BY <1>15 DEF GateEmpty, disk
    <2> QED
      BY <1>3, <1>15, <2>1, SettledSteps
  <1>16. ASSUME NEW p \in Procs, Open(p) \/ Crash(p)
         PROVE  WrittenInv'
    <2>1. UNCHANGED <<emitted, answered>>
      BY <1>16 DEF Open, Crash, disk
    <2> QED
      BY <1>3, <1>16, <2>1, SettledSteps
  <1>17. CASE (\E s \in Sessions : FlushTurn(s)) \/ UNCHANGED vars
    <2>1. UNCHANGED <<emitted, answered>>
      BY <1>17 DEF FlushTurn, vars, disk
    <2> QED
      BY <1>3, <1>17, <2>1, SettledSteps
  <1> QED
    BY <1>6, <1>7, <1>8, <1>9, <1>10, <1>11, <1>12, <1>13, <1>14, <1>15, <1>16, <1>17
    DEF Next, Step, Finished

(***************************************************************************)
(* A turn that is in the file has been recorded, or its writer holds the   *)
(* lock and remembers it; a batch holds no turn of either kind, and is     *)
(* recorded before the lock is given up.                                   *)
(***************************************************************************)
Remembered(s, t) == \E p \in Procs : InCritical(p) /\ mem[p].sess = s /\ t \in mem[p].newly

IsTurn(i, s, t) == sink[i].type = "TURN" /\ sink[i].sess = s /\ sink[i].turn = t

OnceInv ==
  /\ \A i, j \in DOMAIN sink :
       (/\ sink[i].type = "TURN" /\ sink[j].type = "TURN"
        /\ sink[i].sess = sink[j].sess /\ sink[i].turn = sink[j].turn) => i = j
  /\ \A i \in DOMAIN sink : sink[i].type = "TURN" =>
       /\ sink[i].sess \in Sessions
       /\ sink[i].turn \in emitted[sink[i].sess] \/ Remembered(sink[i].sess, sink[i].turn)
  /\ \A p \in Procs :
       /\ pc[p] = "batch" => mem[p].batch \cap (emitted[mem[p].sess] \cup mem[p].newly) = {}
       /\ pc[p] = "refresh" => mem[p].newly \subseteq emitted[mem[p].sess]

LEMMA OnceInvNext ==
  ASSUME TypeOK, OneHolder, Shape, Agenda, Fresh, OnceInv, [Next]_vars,
         ~Fault("crash"), ~Fault("sidecar"), ~Fault("lose"), ~Fault("read")
  PROVE  OnceInv'
  <1>1. ASSUME UNCHANGED sink,
               \A s \in Sessions : \A t : t \in emitted[s] \/ Remembered(s, t)
                                       => t \in emitted'[s] \/ Remembered(s, t)',
               \A p \in Procs :
                 /\ pc'[p] = "batch" =>
                      mem'[p].batch \cap (emitted'[mem'[p].sess] \cup mem'[p].newly) = {}
                 /\ pc'[p] = "refresh" => mem'[p].newly \subseteq emitted'[mem'[p].sess]
        PROVE  OnceInv'
    BY <1>1 DEF OnceInv
  <1>2. ASSUME Settled, UNCHANGED emitted,
               \A p \in Procs : InCritical(p) /\ ~InCritical(p)' =>
                  mem[p].newly \subseteq emitted[mem[p].sess]
        PROVE  OnceInv'
    <2>1. ASSUME NEW s \in Sessions, NEW t, Remembered(s, t)
          PROVE  t \in emitted'[s] \/ Remembered(s, t)'
      <3>1. PICK p \in Procs : InCritical(p) /\ mem[p].sess = s /\ t \in mem[p].newly
        BY <2>1 DEF Remembered
      <3>2. CASE InCritical(p)'
        BY <1>2, <3>1, <3>2 DEF Settled, Remembered
      <3>3. CASE ~InCritical(p)'
        BY <1>2, <3>1, <3>3
      <3> QED
        BY <3>2, <3>3
    <2>2. ASSUME NEW p \in Procs, pc'[p] \in {"batch", "refresh"}
          PROVE  mem'[p] = mem[p] /\ pc'[p] = pc[p]
      BY <1>2, <2>2 DEF Settled, InCritical
    <2> QED
      BY <1>1, <1>2, <2>1, <2>2 DEF Settled, OnceInv
  <1>3. ASSUME NEW p \in Procs, Works(p),
               \A s \in Sessions : emitted[s] \subseteq emitted'[s],
               pc'[p] = "batch" =>
                 mem'[p].batch \cap (emitted'[mem[p].sess] \cup mem[p].newly) = {},
               pc'[p] = "refresh" => mem[p].newly \subseteq emitted'[mem[p].sess]
        PROVE  OnceInv'
    <2>1. \A q \in Procs : InCritical(q)' => q = p
      BY <1>3 DEF Works, OneHolder, InCritical
    <2>2. \A q \in Procs : InCritical(q) => q = p
      BY <1>3 DEF Works, OneHolder
    <2>3. ASSUME NEW s \in Sessions, NEW t, Remembered(s, t)
          PROVE  Remembered(s, t)'
      BY <1>3, <2>2, <2>3 DEF Works, Remembered
    <2>4. \A q \in Procs : pc'[q] \in {"batch", "refresh"} => q = p
      BY <2>1 DEF InCritical
    <2> QED
      BY <1>1, <1>3, <2>3, <2>4 DEF Works
  <1>4. ASSUME NEW p \in Procs, Acquire(p)
        PROVE  OnceInv'
    <2>1. /\ UNCHANGED <<sink, emitted>> /\ \A q \in Procs : ~InCritical(q)
          /\ \A q \in Procs \ {p} : ~InCritical(q)'
          /\ InCritical(p)' => pc'[p] = "emit"
      BY <1>4, AcquireEffect DEF disk
    <2>2. \A s, t : ~Remembered(s, t)
      BY <2>1 DEF Remembered
    <2>3. \A q \in Procs : pc'[q] \notin {"batch", "refresh"}
      BY <2>1 DEF InCritical
    <2> QED
      BY <1>1, <2>1, <2>2, <2>3
  <1>5. ASSUME NEW p \in Procs, NEW line, Emits(p, line),
               mem[p].newly \subseteq mem'[p].newly,
               pc[p] # "refresh",
               pc[p] = "batch" =>
                 mem'[p].batch \cap (emitted[mem[p].sess] \cup mem'[p].newly) = {},
               line.type = "TURN" =>
                 /\ line.turn \in mem'[p].newly
                 /\ line.turn \notin emitted[mem[p].sess] \cup mem[p].newly
        PROVE  OnceInv'
    <2>1. /\ line \in Line /\ Write(line) /\ InCritical(p) /\ UNCHANGED pc
          /\ line.sess = mem[p].sess /\ mem'[p].sess = mem[p].sess
          /\ \A q \in Procs \ {p} : mem'[q] = mem[q]
      BY <1>5 DEF Emits
    <2>2. mem[p].sess \in Sessions
      BY <2>1 DEF TypeOK, InCritical
    <2>3. /\ \A q \in Procs : InCritical(q) => q = p
          /\ \A q \in Procs : InCritical(q)' => q = p
      BY <2>1 DEF OneHolder, InCritical
    <2>4. \A s, t : Remembered(s, t) => Remembered(s, t)'
      BY <1>5, <2>1, <2>3 DEF Remembered, InCritical
    <2>5. /\ \A i \in DOMAIN sink : i \in DOMAIN sink' /\ sink'[i] = sink[i]
          /\ UNCHANGED emitted
      BY <2>1, WriteEffect
    <2>6. ASSUME NEW n \in DOMAIN sink', n \notin DOMAIN sink, sink'[n].type = "TURN"
          PROVE  sink'[n] = line /\ n = Len(sink) + 1
      <3>1. n = Len(sink) + 1 /\ sink'[n] \in {line, Garbage}
        BY <2>1, <2>6, WriteEffect
      <3> QED
        BY <2>6, <3>1 DEF Garbage
    <2>7. line.type = "TURN" => Remembered(line.sess, line.turn)'
      BY <1>5, <2>1 DEF Remembered, InCritical
    <2>8. ASSUME NEW i \in DOMAIN sink, sink[i].type = "TURN", line.type = "TURN",
                 sink[i].sess = line.sess
          PROVE  sink[i].turn # line.turn
      <3>1. sink[i].turn \in emitted[mem[p].sess] \/ Remembered(mem[p].sess, sink[i].turn)
        BY <2>1, <2>8 DEF OnceInv
      <3>2. Remembered(mem[p].sess, sink[i].turn) => sink[i].turn \in mem[p].newly
        BY <2>3 DEF Remembered
      <3> QED
        BY <1>5, <2>8, <3>1, <3>2
    <2>9. \A i \in DOMAIN sink' : sink'[i].type = "TURN" =>
            /\ sink'[i].sess \in Sessions
            /\ \/ sink'[i].turn \in emitted'[sink'[i].sess]
               \/ Remembered(sink[i].sess, sink[i].turn)'
      <3> SUFFICES ASSUME NEW i \in DOMAIN sink', sink'[i].type = "TURN"
                   PROVE  /\ sink'[i].sess \in Sessions
                          /\ \/ sink'[i].turn \in emitted'[sink'[i].sess]
                             \/ Remembered(sink[i].sess, sink[i].turn)'
        OBVIOUS
      <3>1. CASE i \in DOMAIN sink
        BY <2>4, <2>5, <3>1 DEF OnceInv
      <3>2. CASE i \notin DOMAIN sink
        BY <2>1, <2>2, <2>6, <2>7, <3>2
      <3> QED
        BY <3>1, <3>2
    <2>10. \A i, j \in DOMAIN sink' :
             (/\ sink'[i].type = "TURN" /\ sink'[j].type = "TURN"
              /\ sink'[i].sess = sink'[j].sess /\ sink'[i].turn = sink'[j].turn) => i = j
      BY <2>5, <2>6, <2>8 DEF OnceInv
    <2>11. \A q \in Procs :
             /\ pc'[q] = "batch" =>
                  mem'[q].batch \cap (emitted'[mem'[q].sess] \cup mem'[q].newly) = {}
             /\ pc'[q] = "refresh" => mem'[q].newly \subseteq emitted'[mem'[q].sess]
      BY <1>5, <2>1, <2>3, <2>5 DEF InCritical
    <2> QED
      BY <2>9, <2>10, <2>11 DEF OnceInv
  <1>6. ASSUME NEW p \in Procs, EmitEvent(p)
        PROVE  OnceInv'
    <2> DEFINE line == Chained(p, Head(mem[p].todo), NoTurn)
    <2>1. /\ Emits(p, line) /\ mem[p].todo # <<>> /\ mem'[p].newly = mem[p].newly
          /\ pc[p] = "emit" /\ line.type = Head(mem[p].todo)
      BY <1>6, EmitEventEffect DEF Chained
    <2> HIDE DEF line
    <2>2. line.type # "TURN"
      <3>1. mem[p].todo \in Seq(EventTypes) /\ Orderly(mem[p].todo)
        BY <2>1 DEF TypeOK, Memory, Agenda, InCritical
      <3> QED
        BY <2>1, <3>1, TailIsOrderly
    <2> QED
      BY <1>5, <2>1, <2>2
  <1>7. ASSUME NEW p \in Procs, NEW t \in Turns, EmitTurn(p, t)
        PROVE  OnceInv'
    <2> DEFINE line == Chained(p, "TURN", t)
    <2>1. /\ Emits(p, line) /\ pc[p] = "batch" /\ t \in mem[p].batch
          /\ mem'[p].newly = mem[p].newly \cup {t} /\ mem'[p].batch = mem[p].batch \ {t}
          /\ line.type = "TURN" /\ line.turn = t
      BY <1>7, EmitTurnEffect DEF Chained
    <2> HIDE DEF line
    <2>2. mem[p].batch \cap (emitted[mem[p].sess] \cup mem[p].newly) = {}
      BY <2>1 DEF OnceInv
    <2> QED
      BY <1>5, <2>1, <2>2
  <1>8. ASSUME NEW p \in Procs, ParseTranscript(p)
        PROVE  OnceInv'
    <2>1. /\ Works(p) /\ UNCHANGED emitted /\ pc[p] = "emit" /\ pc'[p] = "batch"
          /\ mem'[p].batch \cap emitted[mem[p].sess] = {}
      BY <1>8, ParseEffect
    <2>2. mem[p].newly = {}
      BY <2>1 DEF Works, Agenda
    <2> QED
      BY <1>3, <2>1, <2>2
  <1>9. ASSUME NEW p \in Procs, BuildFails(p)
        PROVE  OnceInv'
    <2>1. CASE InCritical(p)'
      <3>1. Works(p) /\ UNCHANGED emitted /\ UNCHANGED pc
        BY <1>9, <2>1, SkipEffect
      <3>2. /\ pc[p] \in {"emit", "batch"}
            /\ pc[p] = "batch" => mem'[p].batch \subseteq mem[p].batch
        BY <1>9, <2>1, SkipEffect
      <3>3. pc[p] = "batch" => mem[p].batch \cap (emitted[mem[p].sess] \cup mem[p].newly) = {}
        BY DEF OnceInv
      <3> QED
        BY <1>3, <3>1, <3>2, <3>3
    <2>2. CASE ~InCritical(p)'
      <3>1. /\ UNCHANGED <<sink, open, emitted>> /\ pc[p] = "emit"
            /\ \A q \in Procs : ~InCritical(q)'
        BY <1>9, <2>2, SkipEffect DEF Works
      <3>2. \A q \in Procs : InCritical(q) => mem[q].newly = {}
        BY <3>1 DEF OneHolder, InCritical, Agenda
      <3> QED
        BY <1>2, <3>1, <3>2 DEF Settled
    <2> QED
      BY <2>1, <2>2
  <1>10. ASSUME NEW p \in Procs, RecordTurns(p)
         PROVE  OnceInv'
    <2>1. /\ Works(p) /\ pc'[p] = "refresh"
          /\ \A s \in Sessions : emitted[s] \subseteq emitted'[s]
          /\ mem[p].newly \subseteq emitted'[mem[p].sess]
      BY <1>10, RecordEffect
    <2> QED
      BY <1>3, <2>1
  <1>11. ASSUME NEW p \in Procs, Refresh(p)
         PROVE  OnceInv'
    <2>1. /\ UNCHANGED emitted /\ InCritical(p) /\ pc[p] \in {"emit", "refresh"}
      BY <1>11 DEF Refresh, ReadyToRefresh, InCritical
    <2>2. mem[p].newly \subseteq emitted[mem[p].sess]
      BY <2>1 DEF OnceInv, Agenda
    <2>3. \A q \in Procs : InCritical(q) => q = p
      BY <2>1 DEF OneHolder
    <2> QED
      BY <1>2, <1>11, <2>1, <2>2, <2>3, SettledSteps
  <1>12. ASSUME NEW p \in Procs, NEW s \in Sessions, NEW k \in Kinds, Launch(p, s, k)
         PROVE  OnceInv'
    <2>1. UNCHANGED emitted /\ \A q \in Procs : InCritical(q) => InCritical(q)'
      BY <1>12 DEF Launch, disk, InCritical, TypeOK
    <2> QED
      BY <1>2, <1>12, <2>1, SettledSteps
  <1>13. ASSUME NEW p \in Procs, NEW s \in Sessions, GateEmpty(p, s)
         PROVE  OnceInv'
    <2>1. UNCHANGED emitted /\ \A q \in Procs : InCritical(q) => InCritical(q)'
      BY <1>13 DEF GateEmpty, disk, InCritical
    <2> QED
      BY <1>2, <1>13, <2>1, SettledSteps
  <1>14. ASSUME NEW p \in Procs, Open(p)
         PROVE  OnceInv'
    <2>1. UNCHANGED emitted /\ \A q \in Procs : InCritical(q) => InCritical(q)'
      BY <1>14 DEF Open, InCritical, TypeOK
    <2> QED
      BY <1>2, <1>14, <2>1, SettledSteps
  <1>15. CASE (\E s \in Sessions : FlushTurn(s)) \/ UNCHANGED vars
    <2>1. UNCHANGED emitted /\ \A q \in Procs : InCritical(q) => InCritical(q)'
      BY <1>15 DEF FlushTurn, vars, disk, InCritical
    <2> QED
      BY <1>2, <1>15, <2>1, SettledSteps
  <1>16. (\A p \in Procs : ~Crash(p)) /\ ~LoseSidecar
    BY DEF Crash, LoseSidecar
  <1> QED
    BY <1>4, <1>6, <1>7, <1>8, <1>9, <1>10, <1>11, <1>12, <1>13, <1>14, <1>15, <1>16
    DEF Next, Step, Finished

(***************************************************************************)
(* What the hook records as emitted and answers as declared is in the      *)
(* file until a write fails; and no turn is in it twice, however often     *)
(* SessionEnd fires, until a process is killed or a record is lost or not  *)
(* read.                                                                   *)
(***************************************************************************)
THEOREM SaysTruly == Spec => []SaysWhatItWrote
  <1> DEFINE Torn == {"drop", "tear"}
             Lost == {"crash", "sidecar", "lose", "read"}
             Kept == (Spared(Torn) => WrittenInv) /\ (Spared(Lost) => OnceInv)
  <1>1. Kept => SaysWhatItWrote
    <2>1. WrittenInv => (\A s \in Sessions : \A t \in emitted[s] : Reported(s, t)) /\ Declared
      BY DEF WrittenInv, Declared, Answerable
    <2>2. (Spared(Lost) => OnceInv) => TurnsAtMostOnce
      BY DEF OnceInv, TurnsAtMostOnce
    <2> QED
      BY <2>1, <2>2 DEF SaysWhatItWrote, RecordedTurnsWereWritten, AnsweredIsDeclared
  <1>2. Init => Kept
    BY DEF Init, WrittenInv, OnceInv, InCritical
  <1>3. /\ TypeOK /\ OneHolder /\ Shape /\ Agenda /\ Fresh /\ Unregistered
        /\ Kept /\ [Next]_vars
        => Kept'
    <2> SUFFICES ASSUME TypeOK, OneHolder, Shape, Agenda, Fresh, Kept, [Next]_vars
                 PROVE  Kept'
      OBVIOUS
    <2>1. Torn \in SUBSET FaultKinds /\ Lost \in SUBSET FaultKinds
      BY DEF FaultKinds
    <2>2. ASSUME Spared(Torn)'
          PROVE  WrittenInv'
      <3>1. Spared(Torn) /\ ~Fault("drop") /\ ~Fault("tear")
        BY <2>1, <2>2, FaultsAreCounted
      <3> QED
        BY <3>1, WrittenInvNext
    <2>3. ASSUME Spared(Lost)'
          PROVE  OnceInv'
      <3>1. /\ Spared(Lost) /\ ~Fault("crash") /\ ~Fault("sidecar")
            /\ ~Fault("lose") /\ ~Fault("read")
        BY <2>1, <2>3, FaultsAreCounted
      <3> QED
        BY <3>1, OnceInvNext
    <2> QED
      BY <2>2, <2>3
  <1> QED
    BY <1>1, <1>2, <1>3, Planned, PTL DEF Spec

-----------------------------------------------------------------------------
(***************************************************************************)
(* NoGhostTrace.  With a file of its own a session has something to show   *)
(* as soon as a process of it is past the gate, and the file exists only   *)
(* once one was.                                                           *)
(***************************************************************************)
Live(s) == s \in used \/ 1..transcript[s] \ SilentTurns # {}

Begun == exists \/ sink # <<>> \/ \E p \in Procs : pc[p] # "idle"

LEMMA LiveIsForever ==
  ASSUME TypeOK, [Next]_vars, NEW s \in Sessions, Live(s)
  PROVE  Live(s)'
  <1>1. used \subseteq used' /\ transcript[s] <= transcript'[s]
    <2>1. transcript[s] \in Nat
      BY DEF TypeOK
    <2>2. ASSUME NEW p \in Procs, NEW r \in Sessions, NEW k \in Kinds, Launch(p, r, k)
          PROVE  used \subseteq used' /\ transcript'[s] = transcript[s]
      BY <2>2 DEF Launch
    <2>3. ASSUME NEW p \in Procs, Step(p) \/ BuildFails(p) \/ Crash(p)
          PROVE  used' = used /\ transcript'[s] = transcript[s]
      BY <2>3 DEF Step, Open, Acquire, EmitEvent, ParseTranscript, EmitTurn, Write,
                  RecordTurns, Refresh, BuildFails, Crash
    <2>4. ASSUME NEW r \in Sessions, FlushTurn(r)
          PROVE  used' = used /\ transcript[s] <= transcript'[s]
      BY <2>1, <2>4 DEF FlushTurn, TypeOK
    <2>5. ASSUME NEW p \in Procs, NEW r \in Sessions, GateEmpty(p, r)
          PROVE  used' = used /\ transcript'[s] = transcript[s]
      BY <2>5 DEF GateEmpty
    <2>6. LoseSidecar \/ UNCHANGED vars => used' = used /\ transcript'[s] = transcript[s]
      BY DEF LoseSidecar, vars
    <2> QED
      BY <2>1, <2>2, <2>3, <2>4, <2>5, <2>6 DEF Next, Finished
  <1>2. transcript[s] \in Nat /\ transcript'[s] \in Nat
    BY TypeNext DEF TypeOK
  <1>3. 1..transcript[s] \subseteq 1..transcript'[s]
    BY <1>1, <1>2
  <1> QED
    BY <1>1, <1>3 DEF Live

LEMMA BegunIsLive ==
  ASSUME \A s, t \in Sessions : s = t,
         TypeOK, Begun => \A s \in Sessions : Live(s), [Next]_vars, ~Fault("stat")
  PROVE  Begun' => \A s \in Sessions : Live(s)'
  <1>1. CASE Begun
    BY <1>1, LiveIsForever
  <1>2. ASSUME ~Begun, NEW p \in Procs, NEW s \in Sessions, NEW k \in Kinds, Launch(p, s, k)
        PROVE  \A r \in Sessions : Live(r)'
    <2>1. ~exists
      BY <1>2 DEF Begun
    <2>2. CASE k \notin {"End", "Declare"}
      <3>1. s \in used'
        BY <1>2, <2>2 DEF Launch
      <3> QED
        BY <3>1 DEF Live
    <2>3. CASE k = "End"
      <3>1. Emittable(transcript[s]) # {}
        BY <1>2, <2>1, <2>3 DEF Launch, Gated
      <3>2. PICK t \in Turns : t <= transcript[s] /\ t \notin SilentTurns
        BY <3>1 DEF Emittable
      <3>3. transcript[s] \in Nat
        BY DEF TypeOK
      <3>4. t \in 1..transcript[s] \ SilentTurns
        BY ConstantsAssumption, <3>2, <3>3 DEF Turns
      <3>5. Live(s)
        BY <3>4 DEF Live
      <3> QED
        BY <3>5, LiveIsForever
    <2>4. k # "Declare"
      BY <1>2, <2>1 DEF Launch
    <2> QED
      BY <2>2, <2>3, <2>4
  <1>3. ASSUME ~Begun, NEW p \in Procs, Step(p) \/ BuildFails(p) \/ Crash(p)
        PROVE  FALSE
    <2>1. pc[p] = "idle"
      BY <1>3 DEF Begun
    <2> QED
      BY <1>3, <2>1 DEF Step, Open, Acquire, EmitEvent, ParseTranscript, EmitTurn,
                        RecordTurns, Refresh, ReadyToRefresh, BuildFails, Crash
  <1>4. ASSUME NEW p \in Procs, NEW s \in Sessions, GateEmpty(p, s)
        PROVE  Begun' => Begun
    BY <1>4 DEF GateEmpty, Begun, disk
  <1>5. LoseSidecar \/ (\E s \in Sessions : FlushTurn(s)) \/ UNCHANGED vars => (Begun' => Begun)
    BY DEF LoseSidecar, FlushTurn, vars, disk, Begun
  <1> QED
    BY <1>1, <1>2, <1>3, <1>4, <1>5 DEF Next, Finished

(***************************************************************************)
(* A session that has a file of its own, and only ever ended without a     *)
(* turn to report, leaves no event in it, also when processes are killed.  *)
(***************************************************************************)
THEOREM NoGhosts ==
  ASSUME \A s, t \in Sessions : s = t
  PROVE  Spec => []NoGhostTrace
  <1> DEFINE Kept == Spared({"stat"}) => (Begun => \A s \in Sessions : Live(s))
  <1>1. TypeOK /\ Kept => NoGhostTrace
    <2> SUFFICES ASSUME TypeOK, Kept, Spared({"stat"}), NEW s \in Sessions,
                        LinesOf(sink, s) # {}
                 PROVE  Live(s)
      BY DEF NoGhostTrace, Live
    <2>1. sink # <<>>
      BY DEF LinesOf
    <2> QED
      BY <2>1 DEF Begun
  <1>2. Init => Kept
    BY DEF Init, Begun
  <1>3. TypeOK /\ Kept /\ [Next]_vars => Kept'
    <2> SUFFICES ASSUME TypeOK, Kept, [Next]_vars, Spared({"stat"})'
                 PROVE  Begun' => \A s \in Sessions : Live(s)'
      OBVIOUS
    <2>1. {"stat"} \in SUBSET FaultKinds
      BY DEF FaultKinds
    <2>2. Spared({"stat"}) /\ ~Fault("stat")
      BY <2>1, FaultsAreCounted
    <2> QED
      BY <2>2, BegunIsLive
  <1> QED
    BY <1>1, <1>2, <1>3, Typing, PTL DEF Spec
-----------------------------------------------------------------------------
(***************************************************************************)
(* HookTrace implements TraceChain: with working files and live processes  *)
(* every step either extends a session's chain in the file or leaves the   *)
(* file alone, for any number of processes and sessions.                   *)
(***************************************************************************)
(***************************************************************************)
(* Nothing but deletions of the sidecar and unreadable transcripts strikes.*)
(***************************************************************************)
Reliable ==
  /\ MaxFaults["crash"] = 0 /\ MaxFaults["sidecar"] = 0 /\ MaxFaults["read"] = 0
  /\ MaxFaults["drop"] = 0 /\ MaxFaults["tear"] = 0 /\ MaxFaults["invalid"] = 0

(***************************************************************************)
(* What the holder remembers is exactly where its session's chain ends in  *)
(* the file; a session without lines is about to be registered, and is not *)
(* registered again.                                                       *)
(***************************************************************************)
NoReg(todo) == \A i \in DOMAIN todo : todo[i] # "REG"

AtEnd(p) ==
  LET s == mem[p].sess IN
  IF LinesOf(sink, s) = {}
  THEN /\ pc[p] = "emit" /\ mem[p].seq = 0 /\ mem[p].last = NoId
       /\ mem[p].todo # <<>> /\ Head(mem[p].todo) = "REG" /\ NoReg(Tail(mem[p].todo))
  ELSE /\ mem[p].seq  = sink[LastOf(sink, s)].seq
       /\ mem[p].last = sink[LastOf(sink, s)].id
       /\ NoReg(mem[p].todo)

HolderAtEnd == \A p \in Procs : InCritical(p) => AtEnd(p)

Blanked == \A p \in Procs : pc[p] \in {"open", "wait"} =>
                              mem[p].seq = 0 /\ mem[p].last = NoId

ChainInv ==
  /\ ~open
  /\ \A i \in DOMAIN sink : sink[i].id < nextId
  /\ Blanked
  /\ HolderAtEnd

(***************************************************************************)
(* What TypeOK and the invariants of HookTraceProofs say together.         *)
(***************************************************************************)
Base == TypeOK /\ OneHolder /\ Shape /\ ForkInv

LEMMA NoRegTodo ==
  ASSUME NEW k \in HookKinds
  PROVE  /\ NoReg(HandlerEvents[k])
         /\ SessionOpening \o HandlerEvents[k] # <<>>
         /\ Head(SessionOpening \o HandlerEvents[k]) = "REG"
         /\ NoReg(Tail(SessionOpening \o HandlerEvents[k]))
  <1> DEFINE h == HandlerEvents[k]
             o == SessionOpening \o h
  <1>1. NoReg(h)
    <2>1. /\ NoReg(<<"SCOPE", "CTX">>) /\ NoReg(<<"SCOPE", "CTX", "MEM">>)
          /\ NoReg(<<"CTX">>) /\ NoReg(<<"DECL">>) /\ NoReg(<<>>)
      BY DEF NoReg
    <2>2. k \in {"Pre", "PreMem", "Post", "End", "Other", "Declare"}
      BY DEF HookKinds
    <2> QED
      BY <2>1, <2>2 DEF HandlerEvents
  <1>2. h \in Seq(EventTypes) /\ SessionOpening \in Seq(EventTypes)
    BY HandlerEventsType DEF SessionOpening, EventTypes
  <1> HIDE DEF h
  <1>3. /\ Len(SessionOpening) = 2
        /\ SessionOpening[1] = "REG" /\ SessionOpening[2] = "INTENT"
    BY DEF SessionOpening
  <1>4. /\ o \in Seq(EventTypes) /\ Len(o) = 2 + Len(h)
        /\ o[1] = "REG" /\ o[2] = "INTENT"
        /\ \A i \in 1..Len(h) : o[i + 2] = h[i]
    <2>1. /\ o \in Seq(EventTypes)
          /\ Len(o) = Len(SessionOpening) + Len(h)
          /\ \A i \in 1 .. Len(SessionOpening) + Len(h) :
               o[i] = IF i <= Len(SessionOpening) THEN SessionOpening[i]
                      ELSE h[i - Len(SessionOpening)]
      BY <1>2, ConcatProperties
    <2>2. Len(h) \in Nat
      BY <1>2
    <2> HIDE DEF o
    <2>3. /\ Len(o) = 2 + Len(h)
          /\ \A i \in 1 .. 2 + Len(h) :
               o[i] = IF i <= 2 THEN SessionOpening[i] ELSE h[i - 2]
      BY <1>3, <2>1
    <2>4. o[1] = "REG" /\ o[2] = "INTENT"
      BY <1>3, <2>2, <2>3
    <2>5. ASSUME NEW i \in 1..Len(h)
          PROVE  o[i + 2] = h[i]
      <3>1. i + 2 \in 1 .. 2 + Len(h) /\ ~(i + 2 <= 2) /\ (i + 2) - 2 = i
        BY <2>2
      <3> QED
        BY <2>3, <3>1
    <2> QED
      BY <2>1, <2>3, <2>4, <2>5
  <1> HIDE DEF o
  <1>5. o # <<>> /\ Head(o) = "REG" /\ Tail(o) \in Seq(EventTypes)
        /\ Len(Tail(o)) = 1 + Len(h) /\ \A i \in 1..Len(Tail(o)) : Tail(o)[i] = o[i + 1]
    BY <1>2, <1>4, HeadTailProperties
  <1>6. ASSUME NEW i \in DOMAIN Tail(o)
        PROVE  Tail(o)[i] # "REG"
    <2>1. i \in 1..(1 + Len(h)) /\ Len(h) \in Nat
      BY <1>2, <1>5, <1>6
    <2>2. CASE i = 1
      BY <1>4, <1>5, <2>1, <2>2
    <2>3. CASE i # 1
      <3>1. i - 1 \in 1..Len(h) /\ (i - 1) + 2 = i + 1
        BY <2>1, <2>3
      <3>2. o[i + 1] = h[i - 1]
        BY <1>4, <3>1
      <3> QED
        BY <1>1, <1>2, <1>5, <2>1, <3>1, <3>2 DEF NoReg, h
    <2> QED
      BY <2>2, <2>3
  <1> QED
    BY <1>1, <1>5, <1>6 DEF NoReg, o, h

(***************************************************************************)
(* A process resumes exactly at its session's last line.                   *)
(***************************************************************************)
LEMMA ResumedAtEnd ==
  ASSUME TypeOK, NEW s \in Sessions, Current(s), Resumable(s)
  PROVE  /\ ResumedState(s).seq = sink[LastOf(sink, s)].seq
         /\ ResumedState(s).id  = sink[LastOf(sink, s)].id
  <1>1. CASE Hit(s)
    <2>1. sidecar[s].off \in LinesOf(sink, s)
      BY <1>1 DEF Hit, LinesOf
    <2>2. \A j \in LinesOf(sink, s) : j <= sidecar[s].off
      BY <1>1 DEF Current, LinesOf
    <2>3. LastOf(sink, s) = sidecar[s].off
      BY <2>1, <2>2, LastOfUnique DEF TypeOK
    <2> QED
      BY <1>1, <2>3 DEF Hit, ResumedState
  <1>2. CASE ~Hit(s)
    BY <1>2 DEF ResumedState, ScannedState, Scan
  <1> QED
    BY <1>1, <1>2

(***************************************************************************)
(* A write that cannot fail extends the abstract trace, and leaves the     *)
(* writer at its end.                                                      *)
(***************************************************************************)
LEMMA WriteExtends ==
  ASSUME Reliable, Base, ChainInv,
         NEW p \in Procs, InCritical(p),
         NEW type \in EventTypes, NEW turn \in Turns \cup {NoTurn},
         Write(Chained(p, type, turn)),
         LinesOf(sink, mem[p].sess) = {} <=> type = "REG",
         mem'[p].sess = mem[p].sess, mem'[p].seq = mem[p].seq + 1, mem'[p].last = nextId,
         NoReg(mem'[p].todo),
         \A q \in Procs \ {p} : mem'[q] = mem[q]
  PROVE  TC!Extend /\ ChainInv'
  <1> DEFINE line == Chained(p, type, turn)
             s == mem[p].sess
  <1>1. /\ line \in Line /\ line.sess = s /\ line.type = type /\ line.seq = mem[p].seq + 1
        /\ line.prev = mem[p].last /\ line.id = nextId
    BY ChainedType DEF Chained, Base
  <1>2. sink' = Append(sink, line) /\ ~open' /\ nextId' = nextId + 1
    BY DEF Write, Fault, Reliable, Base, TypeOK, FaultKinds, ChainInv
  <1>3. /\ sink \in Seq(Line) /\ Len(sink) \in Nat /\ DOMAIN sink = 1..Len(sink)
        /\ s \in Sessions /\ nextId \in Nat /\ mem[p].seq \in Nat
    BY SinkType DEF Base, TypeOK, InCritical, Memory
  <1>4. AtEnd(p)
    BY DEF ChainInv, HolderAtEnd
  <1> HIDE DEF line
  <1>5. /\ sink' \in Seq(Line) /\ Len(sink') = Len(sink) + 1
        /\ DOMAIN sink' = 1..(Len(sink) + 1)
        /\ \A i \in 1..Len(sink) : sink'[i] = sink[i]
        /\ sink'[Len(sink) + 1] = line
    BY <1>1, <1>2, <1>3
  <1>6. TC!Extend
    <2>1. /\ TC!LinesOf(sink, s) = LinesOf(sink, s)
          /\ TC!LastOf(sink, s) = LastOf(sink, s)
          /\ TC!NoId = NoId
      BY DEF TC!LinesOf, LinesOf, TC!LastOf, LastOf, TC!NoId, NoId
    <2>2. \A i \in DOMAIN sink : sink[i].id # line.id
      <3>1. ASSUME NEW i \in DOMAIN sink
            PROVE  sink[i].id # nextId
        <4>1. sink[i].id \in Nat
          BY SinkType DEF Base
        <4>2. sink[i].id < nextId
          BY DEF ChainInv
        <4> QED
          BY <1>3, <4>1, <4>2
      <3> QED
        BY <1>1, <3>1
    <2>3. CASE LinesOf(sink, s) = {}
      <3>1. line.type = "REG" /\ line.seq = 1 /\ line.prev = NoId
        BY <1>1, <1>4, <2>3 DEF AtEnd
      <3>2. TC!Follows(line, sink)
        BY <1>1, <2>1, <2>2, <2>3, <3>1 DEF TC!Follows
      <3> QED
        BY <1>2, <1>5, <3>2 DEF TC!Extend
    <2>4. CASE LinesOf(sink, s) # {}
      <3>1. /\ line.type # "REG"
            /\ line.seq = sink[LastOf(sink, s)].seq + 1
            /\ line.prev = sink[LastOf(sink, s)].id
        BY <1>1, <1>4, <2>4 DEF AtEnd
      <3>2. TC!Follows(line, sink)
        BY <1>1, <2>1, <2>2, <2>4, <3>1 DEF TC!Follows
      <3> QED
        BY <1>2, <1>5, <3>2 DEF TC!Extend
    <2> QED
      BY <2>3, <2>4
  <1>7. \A i \in DOMAIN sink' : sink'[i].id < nextId'
    <2> SUFFICES ASSUME NEW i \in DOMAIN sink'
                 PROVE  sink'[i].id < nextId + 1
      BY <1>2
    <2>1. CASE i \in 1..Len(sink)
      <3>1. sink[i].id < nextId /\ sink[i].id \in Nat
        BY <1>3, <2>1, SinkType DEF ChainInv, Base
      <3> QED
        BY <1>3, <1>5, <2>1, <3>1
    <2>2. CASE i = Len(sink) + 1
      BY <1>1, <1>3, <1>5, <2>2
    <2> QED
      BY <1>3, <1>5, <2>1, <2>2
  <1>8. HolderAtEnd'
    <2>1. LinesOf(sink', s) = LinesOf(sink, s) \cup {Len(sink) + 1}
      BY <1>1, <1>2, <1>3, AppendLines
    <2>2. \A j \in LinesOf(sink', s) : j <= Len(sink) + 1
      BY <1>3, <1>5 DEF LinesOf
    <2>3. LastOf(sink', s) = Len(sink) + 1
      BY <1>5, <2>1, <2>2, LastOfUnique
    <2>4. sink'[LastOf(sink', s)].seq = mem[p].seq + 1 /\ sink'[LastOf(sink', s)].id = nextId
      BY <1>1, <1>5, <2>3
    <2>5. AtEnd(p)'
      BY <2>1, <2>4 DEF AtEnd
    <2>6. \A q \in Procs : InCritical(q)' => q = p
      BY DEF Base, OneHolder, InCritical, Write
    <2> QED
      BY <2>5, <2>6 DEF HolderAtEnd
  <1>9. Blanked'
    BY DEF ChainInv, Blanked, Write, InCritical
  <1> QED
    BY <1>2, <1>6, <1>7, <1>8, <1>9 DEF ChainInv

LEMMA ChainInit == Init => ChainInv
  BY DEF Init, ChainInv, Blanked, HolderAtEnd, InCritical

(***************************************************************************)
(* A step that leaves the file, and what the holder remembers, alone.      *)
(***************************************************************************)
LEMMA QuietStutters ==
  ASSUME ChainInv, UNCHANGED <<sink, open, nextId>>,
         \A q \in Procs : InCritical(q)' =>
           /\ InCritical(q)
           /\ mem'[q].sess = mem[q].sess /\ mem'[q].last = mem[q].last
           /\ mem'[q].todo = mem[q].todo /\ mem'[q].seq = mem[q].seq
           /\ pc'[q] = pc[q] \/ LinesOf(sink, mem[q].sess) # {},
         Blanked'
  PROVE  UNCHANGED sink /\ ChainInv'
  <1>1. HolderAtEnd'
    <2> SUFFICES ASSUME NEW q \in Procs, InCritical(q)'
                 PROVE  AtEnd(q)'
      BY DEF HolderAtEnd
    <2>1. AtEnd(q)
      BY DEF ChainInv, HolderAtEnd
    <2> QED
      BY <2>1 DEF AtEnd
  <1> QED
    BY <1>1 DEF ChainInv

LEMMA ChainStep ==
  Reliable /\ Base /\ ChainInv /\ [Next]_vars => [TC!Extend]_sink /\ ChainInv'
  <1> SUFFICES ASSUME Reliable, Base, ChainInv, [Next]_vars
               PROVE  (TC!Extend \/ UNCHANGED sink) /\ ChainInv'
    OBVIOUS
  <1> DEFINE Goal == (TC!Extend \/ UNCHANGED sink) /\ ChainInv'
  <1>t. TypeOK
    BY DEF Base
  <1>1. ASSUME NEW p \in Procs, NEW s \in Sessions, NEW k \in Kinds, Launch(p, s, k)
        PROVE  Goal
    <2>1. /\ UNCHANGED <<sink, open, nextId>>
          /\ ~InCritical(p)'
          /\ \A q \in Procs \ {p} : mem'[q] = mem[q] /\ pc'[q] = pc[q]
      BY <1>1, <1>t DEF Launch, InCritical, TypeOK, disk
    <2>2. mem'[p].seq = 0 /\ mem'[p].last = NoId
      <3>1. \/ mem'[p] = [Blank EXCEPT !.kind = k, !.sess = s]
            \/ mem'[p] = [Blank EXCEPT !.kind = k, !.sess = s, !.carried = transcript[s]]
        BY <1>1, <1>t DEF Launch, TypeOK
      <3> QED
        BY <3>1 DEF Blank
    <2>3. Blanked'
      BY <2>1, <2>2 DEF ChainInv, Blanked
    <2> QED
      BY <2>1, <2>3, QuietStutters DEF InCritical
  <1>2. ASSUME NEW p \in Procs, NEW s \in Sessions, GateEmpty(p, s)
        PROVE  Goal
    BY <1>2, QuietStutters DEF GateEmpty, disk, InCritical, ChainInv, Blanked
  <1>3. ASSUME NEW p \in Procs, Open(p)
        PROVE  Goal
    <2>1. /\ UNCHANGED <<sink, open, nextId, mem>>
          /\ ~InCritical(p)' /\ pc[p] = "open"
          /\ \A q \in Procs \ {p} : pc'[q] = pc[q]
      BY <1>3, <1>t DEF Open, InCritical, TypeOK
    <2>2. Blanked'
      BY <2>1 DEF ChainInv, Blanked
    <2> QED
      BY <2>1, <2>2, QuietStutters DEF InCritical
  <1>4. ASSUME NEW p \in Procs, Acquire(p)
        PROVE  Goal
    <2>1. /\ UNCHANGED <<sink, open, nextId>> /\ lock = NoProc /\ pc[p] = "wait"
          /\ \A q \in Procs \ {p} : ~InCritical(q)' /\ mem'[q] = mem[q] /\ pc'[q] = pc[q]
          /\ pc'[p] \in {"idle", "emit"} /\ ~Fault("read")
      <3>1. UNCHANGED <<sink, open, nextId>> /\ lock = NoProc /\ pc[p] = "wait"
        BY <1>4, <1>t, AcquireMoves DEF disk
      <3>2. pc'[p] \in {"idle", "emit"}
        BY <1>4, <1>t, AcquireMoves DEF PicksUpAt, Opens, GivesUp, Enters, TypeOK
      <3>3. ~Fault("read")
        BY <1>t DEF Reliable, Fault, TypeOK, FaultKinds
      <3> QED
        BY <1>4, <1>t, <3>1, <3>2, <3>3, AcquireEffect DEF Base
    <2>2. Blanked'
      BY <2>1 DEF ChainInv, Blanked
    <2>3. mem[p].seq = 0 /\ mem[p].last = NoId
      BY <2>1 DEF ChainInv, Blanked
    <2>4. ASSUME InCritical(p)'
          PROVE  AtEnd(p)'
      <3> DEFINE s == mem[p].sess
                 k == mem[p].kind
      <3>1. mem[p] \in Memory /\ s \in Sessions /\ k \in HookKinds
        BY <1>4, <1>t, AcquireMoves
      <3>2. ASSUME NEW st \in [seq : Nat, id : Nat], PicksUpAt(p, st)
            PROVE  AtEnd(p)'
        <4>1. /\ mem' = [mem EXCEPT ![p] = [mem[p] EXCEPT !.seq = st.seq, !.last = st.id,
                                             !.todo = HandlerEvents[k]]]
              /\ Resumable(s) /\ st = ResumedState(s)
          BY <2>1, <3>2 DEF PicksUpAt
        <4>2. Current(s)
          BY <2>1, <3>1, FreeIsClean DEF Base, ForkInv, SidecarSafe
        <4> HIDE DEF s, k
        <4>3. /\ mem'[p].sess = s /\ mem'[p].seq = st.seq
              /\ mem'[p].last = st.id /\ mem'[p].todo = HandlerEvents[k]
          BY <3>1, <4>1, <1>t DEF TypeOK, Memory, s
        <4>4. LinesOf(sink, s) # {}
          BY <4>1 DEF Resumable
        <4>5. NoReg(mem'[p].todo)
          BY <3>1, <4>3, NoRegTodo
        <4>6. /\ mem'[p].seq  = sink[LastOf(sink, s)].seq
              /\ mem'[p].last = sink[LastOf(sink, s)].id
          BY <3>1, <4>1, <4>2, <4>3, <1>t, ResumedAtEnd
        <4> QED
          BY <2>1, <4>3, <4>4, <4>5, <4>6 DEF AtEnd
      <3>3. ASSUME Opens(p)
            PROVE  AtEnd(p)'
        <4>1. /\ mem' = [mem EXCEPT ![p] = [mem[p] EXCEPT
                           !.todo = SessionOpening \o HandlerEvents[k]]]
              /\ ~Resumable(s)
          BY <2>1, <3>3 DEF Opens
        <4> HIDE DEF s, k
        <4>2. /\ mem'[p].sess = s /\ mem'[p].seq = 0 /\ mem'[p].last = NoId
              /\ mem'[p].todo = SessionOpening \o HandlerEvents[k]
          BY <2>3, <3>1, <4>1, <1>t DEF TypeOK, Memory, s
        <4>3. /\ mem'[p].todo # <<>> /\ Head(mem'[p].todo) = "REG"
              /\ NoReg(Tail(mem'[p].todo))
          BY <3>1, <4>2, NoRegTodo
        <4>4. LinesOf(sink, s) = {} /\ pc'[p] = "emit"
          BY <2>1, <2>4, <4>1 DEF Resumable, InCritical
        <4> QED
          BY <2>1, <4>2, <4>3, <4>4 DEF AtEnd
      <3>4. ~GivesUp(p)
        BY <2>4, <1>t DEF GivesUp, InCritical, TypeOK
      <3> QED
        BY <1>4, <1>t, <3>2, <3>3, <3>4, AcquireMoves
    <2>5. HolderAtEnd'
      BY <2>1, <2>4 DEF HolderAtEnd
    <2> QED
      BY <2>1, <2>2, <2>5 DEF ChainInv
  <1>5. ASSUME NEW p \in Procs, EmitEvent(p)
        PROVE  Goal
    <2> DEFINE ty == Head(mem[p].todo)
    <2>1. /\ InCritical(p) /\ mem[p] \in Memory /\ mem[p].todo # <<>>
          /\ mem[p].todo \in Seq(EventTypes)
      BY <1>5, <1>t DEF EmitEvent, InCritical, TypeOK, Memory
    <2>2. /\ ty \in EventTypes /\ ty = mem[p].todo[1] /\ 1 \in DOMAIN mem[p].todo
          /\ Tail(mem[p].todo) \in Seq(EventTypes)
          /\ Len(mem[p].todo) \in Nat /\ Len(Tail(mem[p].todo)) = Len(mem[p].todo) - 1
          /\ \A i \in 1..Len(Tail(mem[p].todo)) : Tail(mem[p].todo)[i] = mem[p].todo[i + 1]
      BY <2>1, HeadTailProperties
    <2>3. mem' = [mem EXCEPT ![p] =
              [mem[p] EXCEPT !.seq = @ + 1, !.last = nextId, !.todo = Tail(@)]]
      BY <1>5, <1>t DEF EmitEvent, TypeOK
    <2>4. /\ mem'[p].sess = mem[p].sess /\ mem'[p].seq = mem[p].seq + 1
          /\ mem'[p].last = nextId /\ mem'[p].todo = Tail(mem[p].todo)
          /\ \A q \in Procs \ {p} : mem'[q] = mem[q]
      BY <2>1, <2>3, <1>t DEF TypeOK, Memory
    <2>5. AtEnd(p)
      BY <2>1 DEF ChainInv, HolderAtEnd
    <2>6. LinesOf(sink, mem[p].sess) = {} <=> ty = "REG"
      BY <2>2, <2>5 DEF AtEnd, NoReg
    <2>7. NoReg(Tail(mem[p].todo))
      <3>1. CASE LinesOf(sink, mem[p].sess) = {}
        BY <2>5, <3>1 DEF AtEnd
      <3>2. CASE LinesOf(sink, mem[p].sess) # {}
        <4>1. NoReg(mem[p].todo)
          BY <2>5, <3>2 DEF AtEnd
        <4>2. ASSUME NEW i \in DOMAIN Tail(mem[p].todo)
              PROVE  Tail(mem[p].todo)[i] # "REG"
          <5>1. i \in 1..Len(Tail(mem[p].todo)) /\ i + 1 \in DOMAIN mem[p].todo
            BY <2>1, <2>2
          <5> QED
            BY <2>2, <4>1, <5>1 DEF NoReg
        <4> QED
          BY <4>2 DEF NoReg
      <3> QED
        BY <3>1, <3>2
    <2>8. Write(Chained(p, ty, NoTurn))
      BY <1>5 DEF EmitEvent
    <2> HIDE DEF ty
    <2> QED
      BY <2>1, <2>2, <2>4, <2>6, <2>7, <2>8, WriteExtends
  <1>6. ASSUME NEW p \in Procs, ParseTranscript(p)
        PROVE  Goal
    <2>1. mem[p] \in Memory
      BY <1>t DEF TypeOK
    <2>2. PICK b : mem' = [mem EXCEPT ![p] = [mem[p] EXCEPT !.batch = b]]
      BY <1>6, <1>t DEF ParseTranscript, TypeOK
    <2>3. /\ mem'[p].sess = mem[p].sess /\ mem'[p].seq = mem[p].seq
          /\ mem'[p].last = mem[p].last /\ mem'[p].todo = mem[p].todo
      BY <2>1, <2>2, <1>t DEF TypeOK, Memory
    <2>4. /\ UNCHANGED <<sink, open, nextId>>
          /\ InCritical(p) /\ mem[p].todo = <<>> /\ pc'[p] = "batch"
          /\ \A q \in Procs \ {p} : mem'[q] = mem[q] /\ pc'[q] = pc[q]
      BY <1>6, <2>2, <1>t DEF ParseTranscript, InCritical, TypeOK, disk
    <2>5. LinesOf(sink, mem[p].sess) # {}
      BY <2>4 DEF ChainInv, HolderAtEnd, AtEnd
    <2>6. Blanked'
      BY <2>4 DEF ChainInv, Blanked
    <2> QED
      BY <2>3, <2>4, <2>5, <2>6, QuietStutters DEF InCritical
  <1>7. ASSUME NEW p \in Procs, NEW t \in Turns, EmitTurn(p, t)
        PROVE  Goal
    <2>1. InCritical(p) /\ mem[p] \in Memory /\ pc[p] = "batch"
      BY <1>7, <1>t DEF EmitTurn, InCritical, TypeOK
    <2>2. mem' = [mem EXCEPT ![p] =
              [mem[p] EXCEPT !.seq = @ + 1, !.last = nextId, !.batch = @ \ {t},
                             !.newly = @ \cup {t}]]
      BY <1>7, <1>t DEF EmitTurn, TypeOK
    <2>3. /\ mem'[p].sess = mem[p].sess /\ mem'[p].seq = mem[p].seq + 1
          /\ mem'[p].last = nextId /\ mem'[p].todo = mem[p].todo
          /\ \A q \in Procs \ {p} : mem'[q] = mem[q]
      BY <2>1, <2>2, <1>t DEF TypeOK, Memory
    <2>4. LinesOf(sink, mem[p].sess) # {} /\ NoReg(mem[p].todo)
      BY <2>1 DEF ChainInv, HolderAtEnd, AtEnd
    <2>5. Write(Chained(p, "TURN", t)) /\ "TURN" \in EventTypes
      BY <1>7 DEF EmitTurn, EventTypes
    <2> QED
      BY <2>1, <2>3, <2>4, <2>5, WriteExtends
  <1>8. ASSUME NEW p \in Procs, BuildFails(p)
        PROVE  Goal
    BY <1>8, <1>t DEF BuildFails, Fault, Reliable, TypeOK, FaultKinds
  <1>9. ASSUME NEW p \in Procs, RecordTurns(p)
        PROVE  Goal
    <2>1. /\ UNCHANGED <<sink, open, nextId, mem>>
          /\ pc[p] = "batch" /\ InCritical(p) /\ pc'[p] = "refresh"
          /\ \A q \in Procs \ {p} : pc'[q] = pc[q]
      BY <1>9, <1>t DEF RecordTurns, InCritical, TypeOK
    <2>2. LinesOf(sink, mem[p].sess) # {}
      BY <2>1 DEF ChainInv, HolderAtEnd, AtEnd
    <2>3. Blanked'
      BY <2>1 DEF ChainInv, Blanked
    <2> QED
      BY <2>1, <2>2, <2>3, QuietStutters DEF InCritical
  <1>10. ASSUME NEW p \in Procs, Refresh(p)
         PROVE  Goal
    <2>1. /\ UNCHANGED <<sink, open, nextId>> /\ pc'[p] = "idle"
          /\ \A q \in Procs \ {p} : mem'[q] = mem[q] /\ pc'[q] = pc[q]
      BY <1>10, <1>t DEF Refresh, InCritical, TypeOK
    <2>2. Blanked'
      BY <2>1 DEF ChainInv, Blanked
    <2> QED
      BY <2>1, <2>2, QuietStutters DEF InCritical
  <1>11. ASSUME NEW p \in Procs, Crash(p)
         PROVE  Goal
    BY <1>11, <1>t DEF Crash, Fault, Reliable, TypeOK, FaultKinds
  <1>12. CASE LoseSidecar \/ (\E s \in Sessions : FlushTurn(s)) \/ UNCHANGED vars
    BY <1>12, QuietStutters
    DEF LoseSidecar, FlushTurn, vars, disk, InCritical, ChainInv, Blanked
  <1> QED
    BY <1>1, <1>2, <1>3, <1>4, <1>5, <1>6, <1>7, <1>8, <1>9, <1>10, <1>11, <1>12
    DEF Next, Step, Finished

(***************************************************************************)
(* The hook processes, their lock and their sidecar together keep the      *)
(* promise of TraceChain: the sidecar is advisory, and no interleaving of  *)
(* processes or deletion of the sidecar shows in the trace.                *)
(***************************************************************************)
THEOREM Implements ==
  ASSUME Reliable
  PROVE  Spec => Chain
  <1>1. Init => TC!Init
    BY DEF Init, TC!Init
  <1>2. Init => ChainInv /\ ForkInv
    BY ChainInit, ForkInit
  <1>3. TypeOK /\ OneHolder /\ Shape /\ ForkInv /\ [Next]_vars => ForkInv'
    <2>1. TypeOK => ~Fault("crash") /\ ~Fault("sidecar") /\ ~Fault("read")
      BY DEF Reliable, Fault, TypeOK, FaultKinds
    <2> QED
      BY <2>1, ForkNext
  <1>4. /\ TypeOK /\ OneHolder /\ Shape /\ ForkInv /\ ChainInv /\ [Next]_vars
        => [TC!Extend]_sink /\ ChainInv'
    BY ChainStep DEF Base
  <1> QED
    BY <1>1, <1>2, <1>3, <1>4, Holder, PTL DEF Spec, Chain, TC!Spec
=============================================================================
