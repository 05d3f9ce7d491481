------------------------ MODULE StickyBindingProofs -------------------------
(***************************************************************************)
(* Theorems about StickyBinding, for any number of processes, sessions,    *)
(* sinks and profiles, any resolution files, and any budget of edits and   *)
(* of the faults a theorem does not exclude.                               *)
(*                                                                         *)
(* The inductive invariant (IInv) rests on the lock: one process at a time *)
(* is under way in a session (Exclusive), so what it read of the binding   *)
(* and of the registration still holds when it records and writes          *)
(* (NotGoverned, Marked).  What is about to be bound has an intact         *)
(* snapshot (IntactInv).  From these follow that a session stays under its *)
(* profile (StickyInv), that without an edit nothing else could be         *)
(* resolved (Steady), and that a change is told (ToldInv), once per fault  *)
(* (WarnInv).                                                              *)
(***************************************************************************)
EXTENDS StickyBinding, FiniteSetTheorems, WellFoundedInduction, TLAPS

-----------------------------------------------------------------------------
(***************************************************************************)
(* The first matching binding is one of the resolution file's.             *)
(***************************************************************************)
Less == {r \in Nat \X Nat : r[1] < r[2]}

LEMMA HasMinimum ==
  ASSUME NEW T \in SUBSET Nat, T # {}
  PROVE  Min(T) \in T
  <1>1. IsWellFoundedOn(Less, Nat)
    <2>1. OpToRel(<, Nat) = Less
      BY DEF OpToRel, Less
    <2> QED
      BY <2>1, NatLessThanWellFounded
  <1>2. PICK i \in T : \A j \in T : <<j, i>> \notin Less
    BY <1>1, WFMin
  <1>3. ASSUME NEW j \in T PROVE i <= j
    <2>1. i \in Nat /\ j \in Nat
      OBVIOUS
    <2>2. ~(j < i)
      BY <1>2, <2>1 DEF Less
    <2> QED
      BY <2>1, <2>2
  <1> QED
    BY <1>3 DEF Min

LEMMA FirstMatchInFile ==
  ASSUME TypeOK
  PROVE  /\ bindings \in Seq([pattern : Patterns, file : Files])
         /\ FirstMatch # 0 => bindings[FirstMatch] \in [pattern : Patterns, file : Files]
  <1>1. bindings \in Seq([pattern : Patterns, file : Files])
    BY BindingAssumption DEF TypeOK
  <1> DEFINE T == {i \in 1..Len(bindings) : bindings[i].pattern \in Matching}
  <1>2. FirstMatch = IF T # {} THEN Min(T) ELSE 0
    BY DEF FirstMatch, SelectInSeq
  <1>3. T \in SUBSET Nat /\ T \subseteq DOMAIN bindings
    BY <1>1
  <1>4. T # {} => Min(T) \in T
    BY <1>3, HasMinimum
  <1>5. \A i \in DOMAIN bindings : bindings[i] \in [pattern : Patterns, file : Files]
    <2>1. ASSUME NEW S, bindings \in Seq(S) PROVE \A i \in DOMAIN bindings : bindings[i] \in S
      BY <2>1
    <2> QED
      BY <1>1, <2>1
  <1> HIDE DEF T
  <1> QED
    BY <1>1, <1>2, <1>3, <1>4, <1>5

-----------------------------------------------------------------------------
(***************************************************************************)
(* Types                                                                   *)
(***************************************************************************)
LEMMA NoEntryType == NoEntry \in Bound /\ Blank \in Memory
  BY DEF NoEntry, Bound, Blank, Memory, Sources, Markers

LEMMA FaultType ==
  ASSUME TypeOK, NEW f \in FaultKinds, Fault(f)
  PROVE  /\ faults' \in [FaultKinds -> Nat] /\ faults'[f] = faults[f] + 1
         /\ \A g \in FaultKinds \ {f} : faults'[g] = faults[g]
  BY DEF Fault, TypeOK

LEMMA MarkerType ==
  ASSUME NEW s, NEW b
  PROVE  Marker(s, b) \in Markers \ {"absent"}
  BY DEF Marker, Markers

(***************************************************************************)
(* What a process takes with it, field by field.                           *)
(***************************************************************************)
LEMMA MemoryFields ==
  ASSUME NEW m \in Memory
  PROVE  /\ m.sess \in Sessions \cup {NoSession} /\ m.release \in {"old", "new"}
         /\ m.file \in Files \cup {NoFile} /\ m.bound \in Bound
         /\ m.bound.profile \in Profiles \cup {NoProfile} /\ m.bound.source \in Sources
         /\ m.bound.pattern \in Patterns \cup {NoPattern} /\ m.bound.marker \in Markers
  BY DEF Memory, Bound

(***************************************************************************)
(* Only p moves.                                                           *)
(***************************************************************************)
Alone(p) ==
  /\ mem' = [q \in Procs |-> mem'[q]]
  /\ \A q \in Procs \ {p} : mem'[q] = mem[q] /\ pc'[q] = pc[q]

LEMMA LaunchEffect ==
  ASSUME TypeOK, NEW p \in Procs, NEW s \in Sessions, Launch(p, s)
  PROVE  /\ pc[p] = "idle" /\ pc'[p] = "wait" /\ Alone(p)
         /\ mem'[p] = [Blank EXCEPT !.sess = s, !.release = release]
         /\ mem'[p] \in Memory /\ mem'[p].sess = s /\ mem'[p].release = release
  <1>1. /\ pc[p] = "idle" /\ pc'[p] = "wait" /\ Alone(p)
        /\ mem'[p] = [Blank EXCEPT !.sess = s, !.release = release]
    BY DEF Launch, Goto, TypeOK, Alone
  <1>2. [Blank EXCEPT !.sess = s, !.release = release] \in Memory
    BY NoEntryType DEF TypeOK, Memory
  <1>3. /\ [Blank EXCEPT !.sess = s, !.release = release].sess = s
        /\ [Blank EXCEPT !.sess = s, !.release = release].release = release
    BY DEF Blank
  <1> QED
    BY <1>1, <1>2, <1>3

LEMMA RehydrateEffect ==
  ASSUME TypeOK, NEW p \in Procs, Rehydrate(p)
  PROVE  LET s == mem[p].sess IN
         /\ pc[p] = "rehydrate" /\ Alone(p) /\ mem'[p] \in Memory
         /\ mem'[p].sess = s /\ mem'[p].release = mem[p].release
         /\ \/ /\ Governs(s, binding[s], mem[p].release) /\ UNCHANGED faults
               /\ mem'[p].bound = binding[s] /\ pc'[p] = "emit"
            \/ /\ Rebuilds(binding[s], mem[p].release) /\ Fault("read")
               /\ mem'[p].bound = binding[s] /\ pc'[p] = "emit"
            \/ /\ ~Governs(s, binding[s], mem[p].release) /\ UNCHANGED faults
               /\ mem'[p] = mem[p] /\ pc'[p] = "match"
  <1> DEFINE s == mem[p].sess
  <1>1. mem[p] \in Memory /\ s \in Sessions /\ binding[s] \in Bound /\ pc[p] = "rehydrate"
    BY DEF Rehydrate, TypeOK
  <1>2. ASSUME mem' = [mem EXCEPT ![p].bound = binding[s]], Goto(p, "emit")
        PROVE  /\ Alone(p) /\ mem'[p] \in Memory
               /\ mem'[p].sess = s /\ mem'[p].release = mem[p].release
               /\ mem'[p].bound = binding[s] /\ pc'[p] = "emit"
    <2>1. mem' = [mem EXCEPT ![p] = [mem[p] EXCEPT !.bound = binding[s]]]
      BY <1>2 DEF TypeOK
    <2>2. pc' = [pc EXCEPT ![p] = "emit"]
      BY <1>2 DEF Goto
    <2>3. /\ mem'[p] \in Memory
          /\ mem'[p].sess = s /\ mem'[p].release = mem[p].release
          /\ mem'[p].bound = binding[s]
      BY <1>1, <2>1 DEF TypeOK, Memory
    <2> QED
      BY <2>1, <2>2, <2>3 DEF TypeOK, Alone
  <1>3. CASE Governs(s, binding[s], mem[p].release) /\ UNCHANGED faults
    BY <1>1, <1>2, <1>3 DEF Rehydrate
  <1>4. CASE Rebuilds(binding[s], mem[p].release) /\ Fault("read") /\ mem' = [mem EXCEPT ![p].bound = binding[s]]
              /\ Goto(p, "emit")
    BY <1>1, <1>2, <1>4
  <1>5. CASE ~Governs(s, binding[s], mem[p].release) /\ UNCHANGED <<mem, faults>> /\ Goto(p, "match")
    BY <1>1, <1>5 DEF Goto, TypeOK, Alone
  <1> QED
    BY <1>3, <1>4, <1>5 DEF Rehydrate

LEMMA MatchEffect ==
  ASSUME TypeOK, NEW p \in Procs, MatchBinding(p)
  PROVE  /\ pc[p] = "match" /\ Alone(p) /\ mem'[p] \in Memory
         /\ mem'[p].sess = mem[p].sess /\ mem'[p].release = mem[p].release
         /\ \/ FirstMatch = 0 /\ pc'[p] = "default" /\ mem'[p] = mem[p]
            \/ /\ FirstMatch # 0 /\ pc'[p] = "load"
               /\ mem'[p].file = bindings[FirstMatch].file
  <1>1. mem[p] \in Memory /\ mem[p].bound \in Bound
    BY DEF TypeOK, Memory
  <1>2. CASE FirstMatch = 0
    BY <1>1, <1>2 DEF MatchBinding, Goto, TypeOK, Alone
  <1>3. CASE FirstMatch # 0
    <2> DEFINE b == bindings[FirstMatch]
    <2>1. b.pattern \in Patterns /\ b.file \in Files
      BY <1>3, FirstMatchInFile
    <2>2. /\ mem' = [mem EXCEPT ![p] =
               [mem[p] EXCEPT !.file = b.file, !.bound = [mem[p].bound EXCEPT !.pattern = b.pattern]]]
          /\ pc' = [pc EXCEPT ![p] = "load"] /\ pc[p] = "match"
      BY <1>1, <1>3 DEF MatchBinding, Goto, TypeOK, Memory
    <2> HIDE DEF b
    <2>3. [mem[p].bound EXCEPT !.pattern = b.pattern] \in Bound
      BY <1>1, <2>1 DEF Bound
    <2>4. /\ mem'[p] \in Memory /\ mem'[p].file = b.file
          /\ mem'[p].sess = mem[p].sess /\ mem'[p].release = mem[p].release
      BY <1>1, <2>1, <2>2, <2>3 DEF TypeOK, Memory
    <2> QED
      BY <1>3, <2>2, <2>4 DEF TypeOK, Alone, b
  <1> QED
    BY <1>2, <1>3

(***************************************************************************)
(* A resolution is marked by what it says, whatever its mark was before.   *)
(***************************************************************************)
LEMMA Remarked ==
  ASSUME NEW s, NEW b \in Bound, NEW m
  PROVE  /\ [b EXCEPT !.marker = m].profile = b.profile
         /\ [b EXCEPT !.marker = m].source = b.source
         /\ [b EXCEPT !.marker = m].pattern = b.pattern
         /\ [b EXCEPT !.marker = m].marker = m
         /\ Marker(s, [b EXCEPT !.marker = m]) = Marker(s, b)
  <1>1. /\ [b EXCEPT !.marker = m].profile = b.profile
        /\ [b EXCEPT !.marker = m].source = b.source
        /\ [b EXCEPT !.marker = m].pattern = b.pattern
        /\ [b EXCEPT !.marker = m].marker = m
    BY DEF Bound
  <1> DEFINE b2 == [b EXCEPT !.marker = m]
  <1> HIDE DEF b2
  <1>2. ASSUME b2.profile = b.profile, b2.source = b.source, b2.pattern = b.pattern
        PROVE  Marker(s, b2) = Marker(s, b)
    BY <1>2 DEF Marker, Agrees
  <1> QED
    BY <1>1, <1>2 DEF b2

(***************************************************************************)
(* Both ways of resolving end alike: the process holds the resolution,     *)
(* marked by how it compares with the registration, and warns if it must.  *)
(***************************************************************************)
Decides(p) ==
  LET s == mem[p].sess IN
  /\ Alone(p) /\ mem'[p] \in Memory
  /\ mem'[p].sess = s /\ mem'[p].release = mem[p].release
  /\ \/ mem'[p].bound.marker = Marker(s, mem'[p].bound) /\ UNCHANGED faults
     \/ mem'[p].bound.marker = "fresh" /\ Fault("read")
  /\ warnings' = [warnings EXCEPT ![s] =
                    IF mem'[p].bound.marker = "reresolve" THEN @ + 1 ELSE @]
  /\ pc'[p] = IF mem'[p].bound.profile = NoProfile THEN "record" ELSE "snapshot"

LEMMA EnterEffect ==
  ASSUME TypeOK, NEW p \in Procs, NEW fresh \in Bound, NEW m \in Markers, Enter(p, fresh, m)
  PROVE  /\ Alone(p) /\ mem'[p] \in Memory
         /\ mem'[p].sess = mem[p].sess /\ mem'[p].release = mem[p].release
         /\ mem'[p].bound.profile = fresh.profile /\ mem'[p].bound.marker = m
         /\ Marker(mem[p].sess, mem'[p].bound) = Marker(mem[p].sess, fresh)
         /\ warnings' = [warnings EXCEPT ![mem[p].sess] = IF m = "reresolve" THEN @ + 1 ELSE @]
         /\ pc'[p] = IF fresh.profile = NoProfile THEN "record" ELSE "snapshot"
  <1> DEFINE b == [fresh EXCEPT !.marker = m]
  <1>1. /\ mem' = [mem EXCEPT ![p] = [mem[p] EXCEPT !.bound = b]]
        /\ warnings' = [warnings EXCEPT ![mem[p].sess] = IF m = "reresolve" THEN @ + 1 ELSE @]
        /\ pc' = [pc EXCEPT ![p] = IF fresh.profile = NoProfile THEN "record" ELSE "snapshot"]
    BY DEF Enter, Goto, TypeOK
  <1>2. /\ b \in Bound /\ b.profile = fresh.profile /\ b.marker = m
        /\ Marker(mem[p].sess, b) = Marker(mem[p].sess, fresh)
    <2>1. /\ b.profile = fresh.profile /\ b.marker = m
          /\ Marker(mem[p].sess, b) = Marker(mem[p].sess, fresh)
      BY Remarked
    <2>2. b \in Bound
      BY DEF Bound
    <2> QED
      BY <2>1, <2>2
  <1> HIDE DEF b
  <1>3. /\ mem'[p] \in Memory /\ mem'[p].sess = mem[p].sess
        /\ mem'[p].release = mem[p].release /\ mem'[p].bound = b
    BY <1>1, <1>2 DEF TypeOK, Memory
  <1>4. Alone(p)
    BY <1>1 DEF TypeOK, Alone
  <1>5. pc'[p] = IF fresh.profile = NoProfile THEN "record" ELSE "snapshot"
    BY <1>1 DEF TypeOK
  <1> QED
    BY <1>1, <1>2, <1>3, <1>4, <1>5

LEMMA ResolveEffect ==
  ASSUME TypeOK, NEW p \in Procs, NEW fresh \in Bound, Resolve(p, fresh)
  PROVE  Decides(p) /\ mem'[p].bound.profile = fresh.profile
  <1> DEFINE m == Marker(mem[p].sess, fresh)
  <1>1. m \in Markers /\ "fresh" \in Markers
    BY MarkerType DEF Markers
  <1>2. CASE Enter(p, fresh, m) /\ UNCHANGED faults
    <2> HIDE DEF m
    <2>1. mem'[p].bound.marker = m
      BY <1>1, <1>2, EnterEffect
    <2>2. Marker(mem[p].sess, mem'[p].bound) = m
      BY <1>1, <1>2, EnterEffect DEF m
    <2> QED
      BY <1>1, <1>2, <2>1, <2>2, EnterEffect DEF Decides
  <1>3. CASE Enter(p, fresh, "fresh") /\ Fault("read")
    BY <1>1, <1>3, EnterEffect DEF Decides
  <1> QED
    BY <1>2, <1>3 DEF Resolve

LEMMA LoadBoundEffect ==
  ASSUME TypeOK, NEW p \in Procs, LoadBound(p)
  PROVE  /\ pc[p] = "load"
         /\ \/ /\ Ready(content[mem[p].file], mem[p].release)
               /\ Decides(p) /\ mem'[p].bound.profile = content[mem[p].file]
            \/ /\ ~Ready(content[mem[p].file], mem[p].release)
               /\ pc'[p] = "default" /\ Alone(p) /\ UNCHANGED <<mem, warnings, faults>>
  <1> DEFINE c == content[mem[p].file]
             fresh == [mem[p].bound EXCEPT !.profile = c, !.source = "bound"]
  <1>1. pc[p] = "load"
    BY DEF LoadBound
  <1>2. CASE Ready(c, mem[p].release)
    <2>1. Resolve(p, fresh)
      BY <1>2 DEF LoadBound
    <2>2. c \in Profiles /\ mem[p].bound \in Bound
      BY <1>2 DEF Ready, TypeOK, Memory
    <2> HIDE DEF c
    <2>3. fresh \in Bound /\ fresh.profile = c
      BY <2>2 DEF Bound, Sources
    <2> HIDE DEF fresh
    <2>4. Decides(p) /\ mem'[p].bound.profile = c
      BY <2>1, <2>3, ResolveEffect
    <2> QED
      BY <1>1, <1>2, <2>4 DEF c
  <1>3. CASE ~Ready(c, mem[p].release)
    BY <1>1, <1>3 DEF LoadBound, Goto, TypeOK, Alone
  <1> QED
    BY <1>2, <1>3

LEMMA LoadDefaultEffect ==
  ASSUME TypeOK, NEW p \in Procs, LoadDefault(p)
  PROVE  /\ pc[p] = "default" /\ Decides(p)
         /\ mem'[p].bound.profile =
              IF Ready(content[DefaultFile], mem[p].release) THEN content[DefaultFile]
              ELSE NoProfile
  <1> DEFINE c       == content[DefaultFile]
             matched == mem[p].bound.pattern # NoPattern
             loaded  == Ready(c, mem[p].release)
             chosen  == IF loaded THEN c ELSE NoProfile
             source  == CASE matched -> "degraded"
                          [] loaded /\ ~matched -> "default"
                          [] OTHER -> "none"
             fresh   == [mem[p].bound EXCEPT !.profile = chosen, !.source = source]
  <1>1. pc[p] = "default" /\ Resolve(p, fresh)
    BY DEF LoadDefault
  <1>2. chosen \in Profiles \cup {NoProfile}
    BY DEF Ready
  <1>3. source \in Sources
    BY DEF Sources
  <1>4. mem[p].bound \in Bound
    BY DEF TypeOK, Memory
  <1> HIDE DEF chosen, source
  <1>5. fresh \in Bound /\ fresh.profile = chosen
    BY <1>2, <1>3, <1>4 DEF Bound
  <1> HIDE DEF fresh
  <1>6. Decides(p) /\ mem'[p].bound.profile = chosen
    BY <1>1, <1>5, ResolveEffect
  <1> QED
    BY <1>1, <1>6 DEF chosen

(***************************************************************************)
(* A step that moves p to another state, and touches no memory.            *)
(***************************************************************************)
Moves(p, state) ==
  pc'[p] = state /\ UNCHANGED mem /\ Alone(p)

LEMMA AcquireEffect ==
  ASSUME TypeOK, NEW p \in Procs, Acquire(p)
  PROVE  /\ pc[p] = "wait" /\ Moves(p, "rehydrate")
         /\ lock[Sink(p)] = NoProc /\ lock' = [lock EXCEPT ![Sink(p)] = p]
  BY DEF Acquire, LockFree, Goto, TypeOK, Alone, Moves

LEMMA CheckEffect ==
  ASSUME TypeOK, NEW p \in Procs, CheckSnapshot(p)
  PROVE  /\ pc[p] = "snapshot"
         /\ Moves(p, IF snapshots[mem[p].bound.profile] = "intact" THEN "record" ELSE "write")
  BY DEF CheckSnapshot, Goto, TypeOK, Alone, Moves

LEMMA WriteEffect ==
  ASSUME TypeOK, NEW p \in Procs, WriteSnapshot(p)
  PROVE  /\ pc[p] = "write"
         /\ \/ /\ Moves(p, "verify") /\ UNCHANGED faults
               /\ snapshots' = [snapshots EXCEPT ![mem[p].bound.profile] = "intact"]
            \/ /\ Moves(p, "verify") /\ Fault("short")
               /\ snapshots' = [snapshots EXCEPT ![mem[p].bound.profile] = "corrupt"]
            \/ Moves(p, "emit") /\ Fault("space") /\ UNCHANGED snapshots
  BY DEF WriteSnapshot, Goto, TypeOK, Alone, Moves, AfterWriteError

LEMMA VerifyEffect ==
  ASSUME TypeOK, NEW p \in Procs, VerifySnapshot(p)
  PROVE  /\ pc[p] = "verify"
         /\ Moves(p, IF snapshots[mem[p].bound.profile] = "intact" THEN "record" ELSE "emit")
  BY DEF VerifySnapshot, Goto, TypeOK, Alone, Moves

LEMMA RecordEffect ==
  ASSUME TypeOK, NEW p \in Procs, RecordBinding(p)
  PROVE  /\ pc[p] = "record" /\ Moves(p, "emit")
         /\ \/ /\ binding' = [binding EXCEPT ![mem[p].sess] = mem[p].bound]
               /\ UNCHANGED faults
            \/ Fault("record") /\ UNCHANGED binding
  BY DEF RecordBinding, Goto, TypeOK, Alone, Moves

(***************************************************************************)
(* Of an exit, by the last event or by a kill.                             *)
(***************************************************************************)
Leaves(p) == pc'[p] = "idle" /\ mem'[p] = Blank /\ Alone(p)

(***************************************************************************)
(* A process under way holds the lock of its sink, so sessions of one sink *)
(* are never resolved side by side.                                        *)
(***************************************************************************)
Holds(p) == pc[p] \notin {"idle", "wait"}

Exclusive == \A p \in Procs : Holds(p) => lock[Sink(p)] = p

LEMMA LeaveEffect ==
  ASSUME TypeOK, Exclusive, NEW p \in Procs, EmitEvent(p) \/ Crash(p)
  PROVE  /\ Leaves(p) /\ pc[p] # "idle"
         /\ \A k \in Sinks : lock'[k] \in {lock[k], NoProc}
         /\ \A k \in Sinks : lock[k] # p => lock'[k] = lock[k]
  <1>1. CASE EmitEvent(p)
    <2>1. mem[p].sess \in Sessions /\ Sink(p) \in Sinks /\ lock[Sink(p)] = p
      BY <1>1, BindingAssumption DEF EmitEvent, TypeOK, Sink, Exclusive, Holds
    <2> QED
      BY <1>1, <2>1 DEF EmitEvent, Goto, TypeOK, Leaves, Alone
  <1>2. CASE Crash(p)
    BY <1>2 DEF Crash, Goto, TypeOK, Leaves, Alone
  <1> QED
    BY <1>1, <1>2

LEMMA EventType ==
  ASSUME TypeOK, NEW p \in Procs, NEW type \in {"REG", "EVENT"}
  PROVE  /\ EventOf(p, type) \in Line
         /\ EventOf(p, type).profile = mem[p].bound.profile
         /\ Agrees(mem[p].bound, EventOf(p, type))
  <1> DEFINE b == mem[p].bound
  <1>1. /\ b.profile \in Profiles \cup {NoProfile} /\ b.source \in Sources
        /\ b.pattern \in Patterns \cup {NoPattern}
    BY MemoryFields DEF TypeOK
  <1> HIDE DEF b
  <1>2. /\ Provenance(b) \in Sources \cup {"unrecorded"}
        /\ Provenance(b) # "unrecorded" => Provenance(b) = b.source
    BY <1>1 DEF Provenance, Sources
  <1>3. EventOf(p, type) =
          [type |-> type, profile |-> b.profile,
           source |-> IF type = "REG" THEN Provenance(b) ELSE "unrecorded",
           pattern |-> IF type = "REG" /\ Provenance(b) # "unrecorded" THEN b.pattern ELSE NoPattern]
    BY DEF EventOf, b
  <1>4. /\ EventOf(p, type) \in Line
        /\ EventOf(p, type).profile = b.profile
        /\ Agrees(b, EventOf(p, type))
    BY <1>1, <1>2, <1>3 DEF Line, Agrees
  <1> QED
    BY <1>4 DEF b

(***************************************************************************)
(* Memory keeps its type when only p's changes, to a memory.               *)
(***************************************************************************)
LEMMA AloneType ==
  ASSUME TypeOK, NEW p \in Procs, Alone(p), mem'[p] \in Memory,
         pc'[p] # "idle" => mem'[p].sess \in Sessions
  PROVE  /\ mem' \in [Procs -> Memory]
         /\ \A q \in Procs : pc'[q] # "idle" => mem'[q].sess \in Sessions
  <1>1. ASSUME NEW q \in Procs
        PROVE  mem'[q] \in Memory /\ (pc'[q] # "idle" => mem'[q].sess \in Sessions)
    BY DEF TypeOK, Alone
  <1> QED
    BY <1>1 DEF Alone

(***************************************************************************)
(* Type correctness.                                                       *)
(***************************************************************************)
LEMMA TypeStep ==
  ASSUME TypeOK, Exclusive, [Next]_vars
  PROVE  TypeOK'
  <1>a. ASSUME NEW p \in Procs, NEW s \in Sessions, Launch(p, s)
        PROVE  TypeOK'
    <2>1. Alone(p) /\ mem'[p] \in Memory /\ mem'[p].sess = s
      BY <1>a, LaunchEffect
    <2>2. pc' \in [Procs -> States]
      BY <1>a DEF Launch, Goto, TypeOK, States
    <2>3. /\ mem' \in [Procs -> Memory]
          /\ \A q \in Procs : pc'[q] # "idle" => mem'[q].sess \in Sessions
      BY <2>1, AloneType
    <2> QED
      BY <1>a, <2>2, <2>3, BindingAssumption DEF Launch, TypeOK, config
  <1>c. ASSUME NEW p \in Procs, Acquire(p)
        PROVE  TypeOK'
    BY <1>c DEF Acquire, Goto, TypeOK, config, States
  <1>d. ASSUME NEW p \in Procs, Rehydrate(p)
        PROVE  TypeOK'
    <2>1. mem[p].sess \in Sessions
      BY <1>d DEF Rehydrate, TypeOK
    <2>2. Alone(p) /\ mem'[p] \in Memory /\ mem'[p].sess = mem[p].sess
      BY <1>d, RehydrateEffect
    <2>3. pc' \in [Procs -> States]
      BY <1>d DEF Rehydrate, Goto, TypeOK, States
    <2>4. /\ mem' \in [Procs -> Memory]
          /\ \A q \in Procs : pc'[q] # "idle" => mem'[q].sess \in Sessions
      BY <2>1, <2>2, AloneType
    <2>9. faults' \in [FaultKinds -> Nat]
      BY <1>d, FaultType DEF Rehydrate, TypeOK, FaultKinds
    <2> QED
      BY <1>d, <2>2, <2>3, <2>4, <2>9 DEF Rehydrate, TypeOK, config
  <1>e. ASSUME NEW p \in Procs, MatchBinding(p)
        PROVE  TypeOK'
    <2>1. mem[p].sess \in Sessions
      BY <1>e DEF MatchBinding, TypeOK
    <2>2. Alone(p) /\ mem'[p] \in Memory /\ mem'[p].sess = mem[p].sess
      BY <1>e, MatchEffect
    <2>3. pc' \in [Procs -> States]
      BY <1>e DEF MatchBinding, Goto, TypeOK, States
    <2>4. /\ mem' \in [Procs -> Memory]
          /\ \A q \in Procs : pc'[q] # "idle" => mem'[q].sess \in Sessions
      BY <2>1, <2>2, AloneType
    <2> QED
      BY <1>e, <2>2, <2>3, <2>4 DEF MatchBinding, TypeOK, config
  <1>f. ASSUME NEW p \in Procs, LoadBound(p)
        PROVE  TypeOK'
    <2>1. mem[p].sess \in Sessions
      BY <1>f DEF LoadBound, TypeOK
    <2>2. /\ Alone(p) /\ mem'[p] \in Memory /\ mem'[p].sess = mem[p].sess
          /\ warnings' \in [Sessions -> Nat]
      <3>1. CASE Decides(p)
        BY <2>1, <3>1 DEF TypeOK, Decides
      <3>2. CASE Alone(p) /\ UNCHANGED <<mem, warnings>>
        BY <3>2 DEF TypeOK
      <3> QED
        BY <1>f, <3>1, <3>2, LoadBoundEffect
    <2>3. pc' \in [Procs -> States]
      BY <1>f DEF LoadBound, Resolve, Enter, Goto, TypeOK, States
    <2>4. /\ mem' \in [Procs -> Memory]
          /\ \A q \in Procs : pc'[q] # "idle" => mem'[q].sess \in Sessions
      BY <2>1, <2>2, AloneType
    <2>9. faults' \in [FaultKinds -> Nat]
      BY <1>f, LoadBoundEffect, FaultType DEF Decides, TypeOK, FaultKinds
    <2> QED
      BY <1>f, <2>2, <2>3, <2>4, <2>9 DEF LoadBound, TypeOK, config
  <1>g. ASSUME NEW p \in Procs, LoadDefault(p)
        PROVE  TypeOK'
    <2>1. mem[p].sess \in Sessions
      BY <1>g DEF LoadDefault, TypeOK
    <2> Decides(p)
      BY <1>g, LoadDefaultEffect
    <2>2. /\ Alone(p) /\ mem'[p] \in Memory /\ mem'[p].sess = mem[p].sess
          /\ warnings' \in [Sessions -> Nat]
      BY <2>1 DEF TypeOK, Decides
    <2>3. pc' \in [Procs -> States]
      BY <1>g DEF LoadDefault, Resolve, Enter, Goto, TypeOK, States
    <2>4. /\ mem' \in [Procs -> Memory]
          /\ \A q \in Procs : pc'[q] # "idle" => mem'[q].sess \in Sessions
      BY <2>1, <2>2, AloneType
    <2>9. faults' \in [FaultKinds -> Nat]
      BY <1>g, LoadDefaultEffect, FaultType DEF Decides, TypeOK, FaultKinds
    <2> QED
      BY <1>g, <2>2, <2>3, <2>4, <2>9 DEF LoadDefault, TypeOK, config
  <1>h. ASSUME NEW p \in Procs, CheckSnapshot(p)
        PROVE  TypeOK'
    BY <1>h DEF CheckSnapshot, Goto, TypeOK, config, States
  <1>i. ASSUME NEW p \in Procs, WriteSnapshot(p)
        PROVE  TypeOK'
    <2>1. faults' \in [FaultKinds -> Nat]
      BY <1>i, FaultType DEF WriteSnapshot, TypeOK, FaultKinds
    <2>2. pc' \in [Procs -> States] /\ pc[p] # "idle" /\ (pc'[p] # "idle") /\ UNCHANGED mem
          /\ \A q \in Procs : pc'[q] # "idle" => mem'[q].sess \in Sessions
      BY <1>i DEF WriteSnapshot, Goto, TypeOK, States, AfterWriteError
    <2>3. snapshots' \in [Profiles -> {"absent", "intact", "corrupt"}]
      BY <1>i DEF WriteSnapshot, TypeOK
    <2> QED
      BY <1>i, <2>1, <2>2, <2>3 DEF WriteSnapshot, TypeOK, config
  <1>j. ASSUME NEW p \in Procs, VerifySnapshot(p)
        PROVE  TypeOK'
    BY <1>j DEF VerifySnapshot, Goto, TypeOK, config, States
  <1>k. ASSUME NEW p \in Procs, RecordBinding(p)
        PROVE  TypeOK'
    <2>1. faults' \in [FaultKinds -> Nat]
      BY <1>k, FaultType DEF RecordBinding, TypeOK, FaultKinds
    <2>2. binding' \in [Sessions -> Bound]
      BY <1>k DEF RecordBinding, TypeOK, Memory
    <2> QED
      BY <1>k, <2>1, <2>2 DEF RecordBinding, Goto, TypeOK, config, States
  <1>l. ASSUME NEW p \in Procs, Register(p)
        PROVE  TypeOK'
    <2>1. trace' \in [Sessions -> Seq(Line)]
      BY <1>l, EventType DEF Register, TypeOK
    <2>2. faults' \in [FaultKinds -> Nat]
      BY <1>l, FaultType DEF Register, TypeOK, FaultKinds
    <2>3. pc' \in [Procs -> States] /\ pc[p] # "idle" /\ UNCHANGED mem
          /\ \A q \in Procs : pc'[q] # "idle" => mem'[q].sess \in Sessions
      BY <1>l DEF Register, Goto, TypeOK, States
    <2> QED
      BY <1>l, <2>1, <2>2, <2>3 DEF Register, TypeOK, config
  <1>m. ASSUME NEW p \in Procs, EmitEvent(p)
        PROVE  TypeOK'
    <2>1. trace' \in [Sessions -> Seq(Line)]
      BY <1>m, EventType DEF EmitEvent, TypeOK
    <2>2. lock' \in [Sinks -> Procs \cup {NoProc}]
      BY <1>m DEF EmitEvent, TypeOK
    <2>3. /\ pc' \in [Procs -> States] /\ mem' \in [Procs -> Memory]
          /\ \A q \in Procs : pc'[q] # "idle" => mem'[q].sess \in Sessions
      BY <1>m, LeaveEffect, NoEntryType DEF EmitEvent, Goto, TypeOK, Leaves, Alone, States
    <2> QED
      BY <1>m, <2>1, <2>2, <2>3 DEF EmitEvent, TypeOK, config
  <1>n. ASSUME NEW p \in Procs, Crash(p)
        PROVE  TypeOK'
    <2>1. faults' \in [FaultKinds -> Nat]
      BY <1>n, FaultType DEF Crash, TypeOK, FaultKinds
    <2>2. lock' \in [Sinks -> Procs \cup {NoProc}]
      BY <1>n DEF Crash, TypeOK
    <2>3. /\ pc' \in [Procs -> States] /\ mem' \in [Procs -> Memory]
          /\ \A q \in Procs : pc'[q] # "idle" => mem'[q].sess \in Sessions
      BY <1>n, LeaveEffect, NoEntryType DEF Crash, Goto, TypeOK, Leaves, Alone, States
    <2> QED
      BY <1>n, <2>1, <2>2, <2>3 DEF Crash, TypeOK, config
  <1>o. ASSUME Edit
        PROVE  TypeOK'
    <2>1. edits' \in 0..MaxEdits
      BY <1>o, BindingAssumption DEF Edit, TypeOK
    <2>2. bindings' \in BindingLists /\ content' \in [Files -> Profiles \cup {Unloadable}]
      BY <1>o DEF Edit, TypeOK
    <2> QED
      BY <1>o, <2>1, <2>2 DEF Edit, TypeOK
  <1>p. ASSUME Upgrade
        PROVE  TypeOK'
    <2>1. faults' \in [FaultKinds -> Nat]
      BY <1>p, FaultType DEF Upgrade, TypeOK, FaultKinds
    <2> QED
      BY <1>p, <2>1 DEF Upgrade, TypeOK
  <1>q. ASSUME NEW k \in Sinks, LoseSidecar(k)
        PROVE  TypeOK'
    <2>1. faults' \in [FaultKinds -> Nat]
      BY <1>q, FaultType DEF LoseSidecar, TypeOK, FaultKinds
    <2>2. binding' \in [Sessions -> Bound]
      BY <1>q, NoEntryType DEF LoseSidecar, TypeOK
    <2> QED
      BY <1>q, <2>1, <2>2 DEF LoseSidecar, TypeOK, config
  <1>r. ASSUME NEW c \in Profiles, Damage(c)
        PROVE  TypeOK'
    <2>1. faults' \in [FaultKinds -> Nat]
      BY <1>r, FaultType DEF Damage, TypeOK, FaultKinds
    <2>2. snapshots' \in [Profiles -> {"absent", "intact", "corrupt"}]
      BY <1>r DEF Damage, TypeOK
    <2> QED
      BY <1>r, <2>1, <2>2 DEF Damage, TypeOK, config
  <1>s. CASE UNCHANGED vars
    BY <1>s DEF vars, config, TypeOK
  <1> QED
    BY <1>a, <1>c, <1>d, <1>e, <1>f, <1>g, <1>h, <1>i, <1>j, <1>k, <1>l, <1>m, <1>n,
       <1>o, <1>p, <1>q, <1>r, <1>s DEF Next

-----------------------------------------------------------------------------
(***************************************************************************)
(* The steps of Next, sorted by what they leave alone.  A step of Works    *)
(* settles under which profile p goes on; one of Writes adds p's line.     *)
(***************************************************************************)
Works(p) ==
  \/ Rehydrate(p) \/ MatchBinding(p) \/ LoadBound(p) \/ LoadDefault(p)
  \/ CheckSnapshot(p) \/ WriteSnapshot(p) \/ VerifySnapshot(p) \/ RecordBinding(p)

Emitting == {"emit", "event"}

Writes(p) == Register(p) \/ EmitEvent(p)

Outside ==
  \/ Edit \/ Upgrade \/ (\E k \in Sinks : LoseSidecar(k)) \/ (\E c \in Profiles : Damage(c))
  \/ UNCHANGED vars

LEMMA StepCases ==
  ASSUME [Next]_vars
  PROVE  \/ \E p \in Procs, s \in Sessions : Launch(p, s)
         \/ \E p \in Procs : Acquire(p) \/ Works(p) \/ Writes(p) \/ Crash(p)
         \/ Outside
  BY DEF Next, Works, Writes, Outside

LEMMA WorksFrame ==
  ASSUME TypeOK, NEW p \in Procs, Works(p)
  PROVE  /\ Holds(p) /\ pc'[p] \notin {"idle", "wait"} /\ Alone(p)
         /\ mem[p].sess \in Sessions
         /\ mem'[p].sess = mem[p].sess /\ mem'[p].release = mem[p].release
         /\ UNCHANGED <<config, trace, lock, edits, invoked>>
  <1>1. mem[p].sess \in Sessions
    BY DEF Works, Rehydrate, MatchBinding, LoadBound, LoadDefault, CheckSnapshot,
           WriteSnapshot, VerifySnapshot, RecordBinding, TypeOK
  <1>2. UNCHANGED <<config, trace, lock, edits, invoked>>
    BY DEF Works, Rehydrate, MatchBinding, LoadBound, LoadDefault, CheckSnapshot,
           WriteSnapshot, VerifySnapshot, RecordBinding
  <1>3. CASE Rehydrate(p)
    BY <1>1, <1>2, <1>3, RehydrateEffect DEF Holds
  <1>4. CASE MatchBinding(p)
    BY <1>1, <1>2, <1>4, MatchEffect DEF Holds
  <1>5. CASE LoadBound(p)
    BY <1>1, <1>2, <1>5, LoadBoundEffect DEF Holds, Decides
  <1>6. CASE LoadDefault(p)
    BY <1>1, <1>2, <1>6, LoadDefaultEffect DEF Holds, Decides
  <1>7. CASE CheckSnapshot(p)
    BY <1>1, <1>2, <1>7, CheckEffect DEF Holds, Moves
  <1>8. CASE WriteSnapshot(p)
    BY <1>1, <1>2, <1>8, WriteEffect DEF Holds, Moves
  <1>9. CASE VerifySnapshot(p)
    BY <1>1, <1>2, <1>9, VerifyEffect DEF Holds, Moves
  <1>10. CASE RecordBinding(p)
    BY <1>1, <1>2, <1>10, RecordEffect DEF Holds, Moves
  <1> QED
    BY <1>3, <1>4, <1>5, <1>6, <1>7, <1>8, <1>9, <1>10 DEF Works

\* Only a registration leads to the state after it.
LEMMA NeverEvent ==
  ASSUME TypeOK, NEW p \in Procs, Works(p)
  PROVE  pc'[p] # "event"
  BY RehydrateEffect, MatchEffect, LoadBoundEffect, LoadDefaultEffect, CheckEffect, WriteEffect,
     VerifyEffect, RecordEffect DEF Works, Decides, Moves

(***************************************************************************)
(* A line goes to the end of its session's trace and says the profile its  *)
(* process works under; the first is the registration.                     *)
(***************************************************************************)
LEMMA WritesEffect ==
  ASSUME TypeOK, NEW p \in Procs, Writes(p)
  PROVE  LET s == mem[p].sess IN
         /\ s \in Sessions /\ pc[p] \in Emitting /\ Alone(p)
         /\ \/ pc'[p] = "event" /\ mem'[p] = mem[p]
            \/ pc'[p] = "idle" /\ mem'[p] = Blank
         /\ \A t \in Sessions \ {s} : trace'[t] = trace[t]
         /\ trace'[s] # <<>>
         /\ trace[s] # <<>> => Head(trace'[s]) = Head(trace[s])
         /\ trace[s] = <<>> => Agrees(mem[p].bound, Head(trace'[s]))
         /\ \A i \in DOMAIN trace'[s] :
              \/ i \in DOMAIN trace[s] /\ trace'[s][i] = trace[s][i]
              \/ trace'[s][i].profile = mem[p].bound.profile
         /\ UNCHANGED <<config, snapshots, binding, warnings, invoked, edits>>
         /\ UNCHANGED faults \/ Fault("read")
  <1> DEFINE s == mem[p].sess
  <1>1. s \in Sessions /\ trace[s] \in Seq(Line) /\ pc[p] \in Emitting
    BY DEF Writes, Register, EmitEvent, Emitting, TypeOK
  <1>2. ASSUME NEW e \in Line, trace' = [trace EXCEPT ![s] = Append(trace[s], e)],
               e.profile = mem[p].bound.profile, Agrees(mem[p].bound, e)
        PROVE  /\ \A t \in Sessions \ {s} : trace'[t] = trace[t]
               /\ trace'[s] # <<>>
               /\ trace[s] # <<>> => Head(trace'[s]) = Head(trace[s])
               /\ trace[s] = <<>> => Agrees(mem[p].bound, Head(trace'[s]))
               /\ \A i \in DOMAIN trace'[s] :
                    \/ i \in DOMAIN trace[s] /\ trace'[s][i] = trace[s][i]
                    \/ trace'[s][i].profile = mem[p].bound.profile
    <2> HIDE DEF s
    <2>1. /\ trace'[s] = Append(trace[s], e)
          /\ \A t \in Sessions \ {s} : trace'[t] = trace[t]
      BY <1>1, <1>2 DEF TypeOK
    <2>2. ASSUME NEW old \in Seq(Line)
          PROVE  /\ Append(old, e) # <<>>
                 /\ old # <<>> => Head(Append(old, e)) = Head(old)
                 /\ old = <<>> => Head(Append(old, e)) = e
                 /\ \A i \in DOMAIN Append(old, e) :
                      (i \in DOMAIN old /\ Append(old, e)[i] = old[i]) \/ Append(old, e)[i] = e
      OBVIOUS
    <2> QED
      BY <1>1, <1>2, <2>1, <2>2
  <1>3. CASE Register(p)
    <2>1. /\ Alone(p) /\ pc'[p] = "event" /\ mem'[p] = mem[p]
          /\ UNCHANGED <<config, snapshots, binding, warnings, invoked, edits>>
          /\ UNCHANGED faults \/ Fault("read")
      BY <1>1, <1>3 DEF Register, Goto, TypeOK, Alone
    <2>2. trace' = [trace EXCEPT ![s] = Append(trace[s], EventOf(p, "REG"))]
      BY <1>1, <1>3 DEF Register
    <2> QED
      BY <1>1, <1>2, <2>1, <2>2, EventType
  <1>4. CASE EmitEvent(p)
    <2>1. /\ Alone(p) /\ pc'[p] = "idle" /\ mem'[p] = Blank
          /\ UNCHANGED <<config, snapshots, binding, warnings, invoked, edits, faults>>
      BY <1>1, <1>4 DEF EmitEvent, Goto, TypeOK, Alone
    <2>2. trace' = [trace EXCEPT ![s] = Append(trace[s], EventOf(p, "EVENT"))]
      BY <1>1, <1>4 DEF EmitEvent
    <2> QED
      BY <1>1, <1>2, <2>1, <2>2, EventType
  <1> QED
    BY <1>3, <1>4 DEF Writes

LEMMA OutsideFrame ==
  ASSUME Outside
  PROVE  UNCHANGED <<trace, lock, pc, mem, warnings, invoked>>
  BY DEF Outside, Edit, Upgrade, LoseSidecar, Damage, vars

LEMMA Bystanders ==
  ASSUME TypeOK, Exclusive, NEW p \in Procs, NEW q \in Procs, Holds(p), Holds(q),
         mem[q].sess = mem[p].sess
  PROVE  q = p
  BY DEF Exclusive, Sink

(***************************************************************************)
(* The lock of a sink is held by whoever is under way there.               *)
(***************************************************************************)
LEMMA ExclusiveStep ==
  ASSUME TypeOK, Exclusive, [Next]_vars
  PROVE  Exclusive'
  <1>1. ASSUME NEW p \in Procs, NEW s \in Sessions, Launch(p, s)
        PROVE  Exclusive'
    <2>1. pc'[p] = "wait" /\ Alone(p) /\ UNCHANGED lock
      BY <1>1, LaunchEffect DEF Launch
    <2> QED
      BY <2>1 DEF Exclusive, Holds, Sink, Alone
  <1>2. ASSUME NEW p \in Procs, Acquire(p)
        PROVE  Exclusive'
    <2>1. /\ Alone(p) /\ UNCHANGED mem /\ mem[p].sess \in Sessions
          /\ lock[Sink(p)] = NoProc /\ lock' = [lock EXCEPT ![Sink(p)] = p]
      BY <1>2, AcquireEffect DEF Moves, TypeOK
    <2>2. Sink(p) \in Sinks
      BY <2>1, BindingAssumption DEF Sink
    <2>3. lock'[Sink(p)] = p /\ \A k \in Sinks \ {Sink(p)} : lock'[k] = lock[k]
      BY <2>1, <2>2 DEF TypeOK
    <2>4. ASSUME NEW q \in Procs, q # p, Holds(q)'
          PROVE  lock'[SinkOf[mem[q].sess]] = q
      <3>1. Holds(q) /\ lock[Sink(q)] = q /\ mem[q].sess \in Sessions
        BY <2>1, <2>4 DEF Holds, Alone, Exclusive, TypeOK
      <3>2. Sink(q) \in Sinks /\ Sink(q) # Sink(p)
        BY <2>1, <3>1, BindingAssumption DEF Sink
      <3> QED
        BY <2>3, <3>1, <3>2 DEF Sink
    <2> QED
      BY <2>1, <2>3, <2>4 DEF Exclusive, Sink
  <1>3. ASSUME NEW p \in Procs, Works(p)
        PROVE  Exclusive'
    <2>1. /\ Holds(p) /\ Alone(p) /\ mem'[p].sess = mem[p].sess /\ UNCHANGED lock
      BY <1>3, WorksFrame
    <2> QED
      BY <2>1 DEF Exclusive, Holds, Sink, Alone
  <1>4. ASSUME NEW p \in Procs, Register(p)
        PROVE  Exclusive'
    BY <1>4 DEF Register, Goto, Exclusive, Holds, Sink, TypeOK
  <1>5. ASSUME NEW p \in Procs, EmitEvent(p) \/ Crash(p)
        PROVE  Exclusive'
    <2>1. /\ pc'[p] = "idle" /\ Alone(p)
          /\ \A k \in Sinks : lock[k] # p => lock'[k] = lock[k]
      BY <1>5, LeaveEffect DEF Leaves
    <2>2. ASSUME NEW q \in Procs, q # p, Holds(q)'
          PROVE  lock'[SinkOf[mem[q].sess]] = q
      <3>1. Holds(q) /\ lock[Sink(q)] = q /\ mem[q].sess \in Sessions
        BY <2>1, <2>2 DEF Holds, Alone, Exclusive, TypeOK
      <3>2. Sink(q) \in Sinks
        BY <3>1, BindingAssumption DEF Sink
      <3> QED
        BY <2>1, <2>2, <3>1, <3>2 DEF Sink
    <2> QED
      BY <2>1, <2>2 DEF Exclusive, Sink, Holds, Alone
  <1>6. CASE Outside
    BY <1>6, OutsideFrame DEF Exclusive, Holds, Sink
  <1> QED
    BY <1>1, <1>2, <1>3, <1>4, <1>5, <1>6, StepCases DEF Writes

(***************************************************************************)
(* Processes run the new release only after an upgrade.                    *)
(***************************************************************************)
Releases ==
  /\ release = "new" => faults["upgrade"] > 0
  /\ \A p \in Procs : mem[p].release = "new" => release = "new"

LEMMA FaultsGrow ==
  ASSUME TypeOK, Exclusive, [Next]_vars
  PROVE  /\ \A f \in FaultKinds : faults'[f] \in Nat /\ faults[f] \in Nat /\ faults'[f] >= faults[f]
         /\ \A K \in SUBSET FaultKinds : Spared(K)' => Spared(K)
  <1>1. \A f \in FaultKinds : faults'[f] \in Nat /\ faults[f] \in Nat
    BY TypeStep DEF TypeOK
  <1>2. (\E f \in FaultKinds : Fault(f)) \/ UNCHANGED faults
    BY DEF Next, Launch, Acquire, Rehydrate, MatchBinding, LoadBound, LoadDefault, Resolve,
           CheckSnapshot, WriteSnapshot, VerifySnapshot, RecordBinding, Register, EmitEvent, Crash,
           Edit, Upgrade, LoseSidecar, Damage, vars, FaultKinds
  <1>3. \A f \in FaultKinds : faults'[f] >= faults[f]
    <2>1. ASSUME NEW f \in FaultKinds, Fault(f)
          PROVE  \A g \in FaultKinds : faults'[g] >= faults[g]
      BY <1>1, <2>1, FaultType
    <2> QED
      BY <1>1, <1>2, <2>1
  <1> QED
    BY <1>1, <1>3 DEF Spared

LEMMA ReleasesStep ==
  ASSUME TypeOK, Exclusive, Releases, [Next]_vars
  PROVE  Releases'
  <1>1. release' = release \/ Upgrade
    BY DEF Next, Launch, Acquire, Rehydrate, MatchBinding, LoadBound, LoadDefault, CheckSnapshot,
           WriteSnapshot, VerifySnapshot, RecordBinding, Register, EmitEvent, Crash, Edit, Upgrade,
           LoseSidecar, Damage, vars, config
  <1>2. Upgrade => release' = "new" /\ faults'["upgrade"] > 0
    <2>1. "upgrade" \in FaultKinds /\ faults["upgrade"] \in Nat
      BY DEF TypeOK, FaultKinds
    <2>2. Fault("upgrade") => faults'["upgrade"] = faults["upgrade"] + 1
      BY <2>1, FaultType
    <2> QED
      BY <2>1, <2>2 DEF Upgrade
  <1>3. release' = "new" => faults'["upgrade"] > 0
    BY <1>1, <1>2, FaultsGrow DEF Releases, FaultKinds
  <1>4. ASSUME NEW q \in Procs
        PROVE  mem'[q].release \in {mem[q].release, "old", release}
    <2>1. ASSUME NEW p \in Procs, NEW s \in Sessions, Launch(p, s)
          PROVE  mem'[q].release \in {mem[q].release, "old", release}
      BY <2>1, LaunchEffect DEF Alone
    <2>2. ASSUME NEW p \in Procs, Works(p)
          PROVE  mem'[q].release \in {mem[q].release, "old", release}
      BY <2>2, WorksFrame DEF Alone
    <2>3. ASSUME NEW p \in Procs, EmitEvent(p) \/ Crash(p)
          PROVE  mem'[q].release \in {mem[q].release, "old", release}
      BY <2>3, LeaveEffect DEF Leaves, Alone, Blank
    <2>4. ASSUME UNCHANGED mem
          PROVE  mem'[q].release \in {mem[q].release, "old", release}
      BY <2>4
    <2> QED
      BY <2>1, <2>2, <2>3, <2>4, StepCases, OutsideFrame DEF Writes, Acquire, Register
  <1>5. release = "new" => release' = "new"
    BY <1>1 DEF Upgrade
  <1> QED
    BY <1>3, <1>4, <1>5 DEF Releases

-----------------------------------------------------------------------------
(***************************************************************************)
(* A profile stays rebuildable from the moment its snapshot is verified,   *)
(* in the hands of the process that will bind it and in every binding.     *)
(***************************************************************************)
Decided   == {"snapshot", "write", "verify", "record"}
Resolving == {"match", "load", "default"} \cup Decided

Intact(c) == c # NoProfile => snapshots[c] = "intact"

IntactInv ==
  Spared({"damage", "short"}) =>
    /\ \A s \in Sessions : Intact(binding[s].profile)
    /\ \A p \in Procs : pc[p] \in {"verify", "record"} => Intact(mem[p].bound.profile)

\* What is decided carries the mark that compares it with the registration.
Marked ==
  \A p \in Procs : pc[p] \in Decided =>
    /\ Spared({"read"}) => mem[p].bound.marker = Marker(mem[p].sess, mem[p].bound)
    /\ pc[p] # "record" => mem[p].bound.profile # NoProfile

(***************************************************************************)
(* A fault that strikes is counted.                                        *)
(***************************************************************************)
LEMMA Strikes ==
  ASSUME TypeOK, NEW f \in FaultKinds, Fault(f)
  PROVE  faults'[f] # 0
  <1>1. faults'[f] = faults[f] + 1 /\ faults[f] \in Nat
    BY FaultType DEF TypeOK
  <1> QED
    BY <1>1

LEMMA MarkedStep ==
  ASSUME TypeOK, Exclusive, Marked, [Next]_vars
  PROVE  Marked'
  <1> SUFFICES ASSUME NEW q \in Procs, pc'[q] \in Decided
               PROVE  /\ Spared({"read"})' => mem'[q].bound.marker = Marker(mem[q].sess, mem[q].bound)'
                      /\ pc'[q] # "record" => mem'[q].bound.profile # NoProfile
    BY DEF Marked
  <1>0. Spared({"read"})' => Spared({"read"}) /\ ~Fault("read")
    BY FaultsGrow, Strikes DEF Spared, FaultKinds
  <1>1. ASSUME NEW s, s = mem[q].sess, mem'[q].sess = s, trace'[s] = trace[s]
        PROVE  Marker(mem[q].sess, mem[q].bound)' = Marker(s, mem'[q].bound)
    BY <1>1 DEF Marker, Registered, Registration, Agrees
  <1>2. ASSUME mem'[q] = mem[q], pc[q] \in Decided, pc'[q] = pc[q] \/ mem[q].bound.profile # NoProfile,
               trace'[mem[q].sess] = trace[mem[q].sess]
        PROVE  /\ Spared({"read"})' => mem'[q].bound.marker = Marker(mem[q].sess, mem[q].bound)'
               /\ pc'[q] # "record" => mem'[q].bound.profile # NoProfile
    <2>1. Marker(mem[q].sess, mem[q].bound)' = Marker(mem[q].sess, mem[q].bound)
      BY <1>1, <1>2
    <2> QED
      BY <1>0, <1>2, <2>1 DEF Marked
  <1>3. ASSUME NEW p \in Procs, Crash(p) \/ Acquire(p) \/ (\E t \in Sessions : Launch(p, t))
        PROVE  /\ Spared({"read"})' => mem'[q].bound.marker = Marker(mem[q].sess, mem[q].bound)'
               /\ pc'[q] # "record" => mem'[q].bound.profile # NoProfile
    <2>1. pc'[p] \in {"idle", "wait", "rehydrate"} /\ Alone(p)
      BY <1>3, LeaveEffect, AcquireEffect, LaunchEffect DEF Moves, Leaves
    <2>2. UNCHANGED trace
      BY <1>3 DEF Crash, Acquire, Launch
    <2>3. p # q /\ mem'[q] = mem[q] /\ pc'[q] = pc[q]
      BY <2>1 DEF Alone, Decided
    <2> QED
      BY <1>2, <2>2, <2>3
  <1>4. ASSUME NEW p \in Procs, Works(p), p # q
        PROVE  /\ Spared({"read"})' => mem'[q].bound.marker = Marker(mem[q].sess, mem[q].bound)'
               /\ pc'[q] # "record" => mem'[q].bound.profile # NoProfile
    <2>1. Alone(p) /\ UNCHANGED trace
      BY <1>4, WorksFrame
    <2> QED
      BY <1>2, <1>4, <2>1 DEF Alone
  <1>5. ASSUME Works(q)
        PROVE  /\ Spared({"read"})' => mem'[q].bound.marker = Marker(mem[q].sess, mem[q].bound)'
               /\ pc'[q] # "record" => mem'[q].bound.profile # NoProfile
    <2>1. UNCHANGED trace /\ mem'[q].sess = mem[q].sess
      BY <1>5, WorksFrame
    <2>2. CASE Rehydrate(q) \/ MatchBinding(q)
      BY <2>2, RehydrateEffect, MatchEffect DEF Decided
    <2>3. CASE LoadBound(q) \/ LoadDefault(q)
      <3>1. Decides(q)
        BY <2>3, LoadBoundEffect, LoadDefaultEffect DEF Decided
      <3>2. Marker(mem[q].sess, mem[q].bound)' = Marker(mem[q].sess, mem'[q].bound)
        BY <1>1, <2>1
      <3>3. pc'[q] # "record" => mem'[q].bound.profile # NoProfile
        BY <3>1 DEF Decides
      <3>4. Spared({"read"})' => mem'[q].bound.marker = Marker(mem[q].sess, mem'[q].bound)
        BY <1>0, <3>1 DEF Decides
      <3> QED
        BY <3>2, <3>3, <3>4
    <2>4. CASE CheckSnapshot(q) \/ WriteSnapshot(q) \/ VerifySnapshot(q) \/ RecordBinding(q)
      <3>1. UNCHANGED mem /\ pc[q] \in Decided \ {"record"}
        BY <2>4, CheckEffect, WriteEffect, VerifyEffect, RecordEffect DEF Decided, Moves
      <3> QED
        BY <1>2, <2>1, <3>1 DEF Marked
    <2> QED
      BY <1>5, <2>2, <2>3, <2>4 DEF Works
  <1>6. ASSUME NEW p \in Procs, Writes(p)
        PROVE  /\ Spared({"read"})' => mem'[q].bound.marker = Marker(mem[q].sess, mem[q].bound)'
               /\ pc'[q] # "record" => mem'[q].bound.profile # NoProfile
    <2>1. /\ pc[p] \in Emitting /\ pc'[p] \in {"event", "idle"} /\ Alone(p)
          /\ \A t \in Sessions : t # mem[p].sess => trace'[t] = trace[t]
      BY <1>6, WritesEffect
    <2>2. q # p /\ Holds(p) /\ mem'[q] = mem[q] /\ pc'[q] = pc[q] /\ Holds(q)
      BY <2>1 DEF Alone, Holds, Decided, Emitting
    <2>3. mem[q].sess \in Sessions /\ mem[q].sess # mem[p].sess
      BY <2>2, Bystanders DEF TypeOK, Holds
    <2> QED
      BY <1>2, <2>1, <2>2, <2>3
  <1>7. CASE Outside
    <2>1. UNCHANGED <<mem, pc, trace>>
      BY <1>7, OutsideFrame
    <2> QED
      BY <1>2, <2>1
  <1> QED
    BY <1>3, <1>4, <1>5, <1>6, <1>7, StepCases

LEMMA IntactStep ==
  ASSUME TypeOK, Exclusive, Marked, IntactInv, [Next]_vars
  PROVE  IntactInv'
  <1> SUFFICES ASSUME Spared({"damage", "short"})'
               PROVE  /\ \A s \in Sessions : Intact(binding[s].profile)'
                      /\ \A p \in Procs : pc'[p] \in {"verify", "record"} =>
                           Intact(mem[p].bound.profile)'
    BY DEF IntactInv
  <1>0. /\ \A s \in Sessions : Intact(binding[s].profile)
        /\ \A p \in Procs : pc[p] \in {"verify", "record"} => Intact(mem[p].bound.profile)
    BY FaultsGrow DEF IntactInv, FaultKinds
  <1>1. ~Fault("damage") /\ ~Fault("short")
    BY Strikes DEF Spared, FaultKinds
  <1>2. ASSUME NEW p \in Procs, NEW s \in Sessions, Launch(p, s)
        PROVE  /\ \A t \in Sessions : Intact(binding[t].profile)'
               /\ \A q \in Procs : pc'[q] \in {"verify", "record"} => Intact(mem[q].bound.profile)'
    <2>1. pc'[p] = "wait" /\ Alone(p) /\ UNCHANGED <<binding, snapshots>>
      BY <1>2, LaunchEffect DEF Launch
    <2> QED
      BY <1>0, <2>1 DEF Intact, Alone
  <1>3. ASSUME NEW p \in Procs, Acquire(p)
        PROVE  /\ \A t \in Sessions : Intact(binding[t].profile)'
               /\ \A q \in Procs : pc'[q] \in {"verify", "record"} => Intact(mem[q].bound.profile)'
    <2>1. pc'[p] = "rehydrate" /\ Alone(p) /\ UNCHANGED <<binding, snapshots>>
      BY <1>3, AcquireEffect DEF Acquire, Moves
    <2> QED
      BY <1>0, <2>1 DEF Intact, Alone
  <1>4. ASSUME NEW p \in Procs, Works(p)
        PROVE  /\ \A t \in Sessions : Intact(binding[t].profile)'
               /\ \A q \in Procs : pc'[q] \in {"verify", "record"} => Intact(mem[q].bound.profile)'
    <2>1. Alone(p) /\ mem[p].sess \in Sessions
      BY <1>4, WorksFrame
    <2>2. \A c : Intact(c) /\ (c = NoProfile \/ c \in Profiles) => Intact(c)'
      <3>1. CASE WriteSnapshot(p)
        BY <1>1, <3>1, WriteEffect DEF Intact, TypeOK
      <3>2. CASE ~WriteSnapshot(p)
        <4>1. UNCHANGED snapshots
          BY <1>4, <3>2 DEF Works, Rehydrate, MatchBinding, LoadBound, LoadDefault, CheckSnapshot,
                            VerifySnapshot, RecordBinding
        <4> QED
          BY <4>1 DEF Intact
      <3> QED
        BY <3>1, <3>2
    <2>3. pc'[p] \in {"verify", "record"} => Intact(mem[p].bound.profile)'
      <3>1. CASE Rehydrate(p) \/ MatchBinding(p)
        BY <3>1, RehydrateEffect, MatchEffect
      <3>2. CASE LoadBound(p) \/ LoadDefault(p)
        BY <3>2, LoadBoundEffect, LoadDefaultEffect DEF Decides, Intact
      <3>3. CASE CheckSnapshot(p) \/ VerifySnapshot(p) \/ RecordBinding(p)
        <4>1. pc'[p] \in {"verify", "record"} =>
                snapshots[mem[p].bound.profile] = "intact" /\ UNCHANGED <<mem, snapshots>>
          BY <3>3, CheckEffect, VerifyEffect, RecordEffect
             DEF Moves, CheckSnapshot, VerifySnapshot
        <4> QED
          BY <4>1 DEF Intact
      <3>4. CASE WriteSnapshot(p)
        <4>1. mem[p].bound.profile \in Profiles
          BY <3>4, WriteEffect, MemoryFields DEF Marked, Decided, TypeOK
        <4> QED
          BY <1>1, <3>4, <4>1, WriteEffect DEF Moves, Intact, TypeOK
      <3> QED
        BY <1>4, <3>1, <3>2, <3>3, <3>4 DEF Works
    <2>4. \A q \in Procs : q # p /\ pc'[q] \in {"verify", "record"} => Intact(mem[q].bound.profile)'
      <3>1. \A q \in Procs : mem[q].bound.profile \in Profiles \cup {NoProfile}
        BY MemoryFields DEF TypeOK
      <3>2. \A q \in Procs : q # p => mem'[q] = mem[q] /\ pc'[q] = pc[q]
        BY <2>1 DEF Alone
      <3>3. \A c : c \in Profiles \cup {NoProfile} /\ Intact(c) => Intact(c)'
        BY <2>2
      <3>4. ASSUME NEW q \in Procs, q # p, pc'[q] \in {"verify", "record"}
            PROVE  Intact(mem[q].bound.profile)'
        <4>1. Intact(mem[q].bound.profile)
          BY <1>0, <3>2, <3>4
        <4> QED
          BY <3>1, <3>2, <3>3, <3>4, <4>1 DEF Intact
      <3> QED
        BY <3>4
    <2>5. ASSUME NEW t \in Sessions
          PROVE  Intact(binding[t].profile)'
      <3>1. binding[t].profile \in Profiles \cup {NoProfile} /\ Intact(binding[t].profile)
        BY <1>0 DEF TypeOK, Bound
      <3>2. CASE binding'[t] = binding[t]
        BY <2>2, <3>1, <3>2 DEF Intact
      <3>3. CASE RecordBinding(p) /\ binding'[t] = mem[p].bound
        BY <1>0, <3>3, RecordEffect DEF Intact, RecordBinding
      <3> QED
        BY <1>4, <3>2, <3>3 DEF Works, Rehydrate, MatchBinding, LoadBound, LoadDefault,
           CheckSnapshot, WriteSnapshot, VerifySnapshot, RecordBinding, TypeOK
    <2> QED
      BY <2>3, <2>4, <2>5
  <1>5. ASSUME NEW p \in Procs, Writes(p) \/ Crash(p)
        PROVE  /\ \A t \in Sessions : Intact(binding[t].profile)'
               /\ \A q \in Procs : pc'[q] \in {"verify", "record"} => Intact(mem[q].bound.profile)'
    <2>1. /\ pc'[p] \in {"event", "idle"} /\ Alone(p)
      BY <1>5, WritesEffect, LeaveEffect DEF Leaves
    <2>2. UNCHANGED <<binding, snapshots>>
      BY <1>5 DEF Writes, Register, EmitEvent, Crash
    <2> QED
      BY <1>0, <2>1, <2>2 DEF Intact, Alone
  <1>6. CASE Outside
    <2>1. UNCHANGED <<pc, mem, snapshots>>
      BY <1>1, <1>6, OutsideFrame DEF Outside, Edit, Upgrade, LoseSidecar, Damage, vars
    <2>2. \A s \in Sessions : binding'[s] \in {binding[s], NoEntry}
      BY <1>6 DEF Outside, Edit, Upgrade, LoseSidecar, Damage, vars, TypeOK
    <2>3. NoEntry.profile = NoProfile
      BY DEF NoEntry
    <2> QED
      BY <1>0, <2>1, <2>2, <2>3 DEF Intact
  <1> QED
    BY <1>2, <1>3, <1>4, <1>5, <1>6, StepCases

(***************************************************************************)
(* Whoever resolves does so because the binding does not govern, and no    *)
(* other process gives the session one meanwhile.                          *)
(***************************************************************************)
NotGoverned ==
  Spared({"damage", "short", "upgrade"}) =>
    \A p \in Procs : pc[p] \in Resolving => ~Governs(mem[p].sess, binding[mem[p].sess], release)

\* Without an upgrade every process runs the release it was launched with.
LEMMA OldRelease ==
  ASSUME TypeOK, Releases, faults["upgrade"] = 0
  PROVE  release = "old" /\ \A p \in Procs : mem[p].release = "old"
  <1>1. release = "old"
    BY DEF Releases, TypeOK
  <1>2. \A p \in Procs : mem[p].release \in {"old", "new"}
    BY MemoryFields DEF TypeOK
  <1> QED
    BY <1>1, <1>2 DEF Releases

LEMMA NotGovernedStep ==
  ASSUME TypeOK, Exclusive, Marked, IntactInv, Releases, NotGoverned, [Next]_vars
  PROVE  NotGoverned'
  <1> SUFFICES ASSUME Spared({"damage", "short", "upgrade"})',
                      NEW q \in Procs, pc'[q] \in Resolving
               PROVE  ~Governs(mem[q].sess, binding[mem[q].sess], release)'
    BY DEF NotGoverned
  <1> DEFINE s == mem[q].sess
  <1>1. /\ Spared({"damage", "short", "upgrade"}) /\ Spared({"damage", "short"})
        /\ ~Fault("damage") /\ ~Fault("short") /\ ~Fault("upgrade")
    BY FaultsGrow, Strikes DEF FaultKinds, Spared
  <1>2. release = "old" /\ mem[q].release = "old"
    BY <1>1, OldRelease DEF Spared
  <1>3. /\ \A r \in Procs : pc[r] \in Resolving => ~Governs(mem[r].sess, binding[mem[r].sess], release)
        /\ \A t \in Sessions : Intact(binding[t].profile)
    BY <1>1 DEF NotGoverned, IntactInv
  <1>4. ASSUME NEW p \in Procs, Works(p), p = q
        PROVE  ~Governs(mem[q].sess, binding[mem[q].sess], release)'
    <2>1. /\ mem'[q].sess = s /\ s \in Sessions /\ UNCHANGED <<config, trace>>
      BY <1>4, WorksFrame
    <2>2. pc[q] \in Resolving \/ Rehydrate(q)
      BY <1>4 DEF Works, MatchBinding, LoadBound, LoadDefault, CheckSnapshot,
             WriteSnapshot, VerifySnapshot, RecordBinding, Resolving, Decided
    <2>3. ~Governs(s, binding[s], release)
      BY <1>2, <1>3, <1>4, <2>2, RehydrateEffect DEF Resolving, Decided
    <2>4. UNCHANGED binding
      BY <1>4, RecordEffect DEF Works, Rehydrate, MatchBinding, LoadBound, LoadDefault, CheckSnapshot,
         WriteSnapshot, VerifySnapshot, Resolving, Decided, Moves
    <2>5. ~Rebuilds(binding[s], release) => ~Rebuilds(binding[s], release)'
      <3>1. Intact(binding[s].profile)
        BY <1>3, <2>1
      <3> QED
        BY <2>1, <2>4, <3>1 DEF Rebuilds, Ready, Intact, config
    <2> QED
      BY <2>1, <2>3, <2>4, <2>5 DEF Governs, Registered, Registration, Agrees
  <1>5. ASSUME pc[q] \in Resolving, mem'[q] = mem[q], s \in Sessions, trace'[s] = trace[s],
               binding'[s] \in {binding[s], NoEntry}, UNCHANGED release
        PROVE  ~Governs(mem[q].sess, binding[mem[q].sess], release)'
    <2>1. ~Governs(s, binding[s], release) /\ Intact(binding[s].profile)
      BY <1>3, <1>5
    <2> QED
      BY <1>5, <2>1 DEF Governs, Rebuilds, Ready, Intact, Registered, Registration, Agrees
  <1>6. ASSUME NEW p \in Procs, p # q, Holds(p), Alone(p)
        PROVE  /\ pc[q] \in Resolving /\ mem'[q] = mem[q] /\ s \in Sessions
               /\ mem[p].sess # s
    <2>1. pc[q] \in Resolving /\ mem'[q] = mem[q] /\ Holds(q)
      BY <1>6 DEF Alone, Holds, Resolving, Decided
    <2> QED
      BY <1>6, <2>1, Bystanders DEF TypeOK, Holds
  <1>7. ASSUME NEW p \in Procs, Works(p), p # q
        PROVE  ~Governs(mem[q].sess, binding[mem[q].sess], release)'
    <2>1. Holds(p) /\ Alone(p) /\ UNCHANGED <<config, trace>>
      BY <1>7, WorksFrame
    <2>2. \A t \in Sessions : t # mem[p].sess => binding'[t] = binding[t]
      BY <1>7, RecordEffect DEF Works, Rehydrate, MatchBinding, LoadBound, LoadDefault,
         CheckSnapshot, WriteSnapshot, VerifySnapshot, RecordBinding, TypeOK
    <2> QED
      BY <1>5, <1>6, <1>7, <2>1, <2>2 DEF config
  <1>8. ASSUME NEW p \in Procs, Writes(p)
        PROVE  ~Governs(mem[q].sess, binding[mem[q].sess], release)'
    <2>1. /\ Holds(p) /\ Alone(p) /\ pc'[p] \in {"event", "idle"} /\ UNCHANGED <<config, binding>>
          /\ \A t \in Sessions \ {mem[p].sess} : trace'[t] = trace[t]
      BY <1>8, WritesEffect DEF Holds, Emitting
    <2>2. p # q
      BY <2>1 DEF Resolving, Decided
    <2> QED
      BY <1>5, <1>6, <2>1, <2>2 DEF config
  <1>9. ASSUME NEW p \in Procs, Crash(p) \/ Acquire(p) \/ (\E t \in Sessions : Launch(p, t))
        PROVE  ~Governs(mem[q].sess, binding[mem[q].sess], release)'
    <2>1. pc'[p] \in {"idle", "wait", "rehydrate"} /\ Alone(p)
      BY <1>9, LeaveEffect, AcquireEffect, LaunchEffect DEF Moves, Leaves
    <2>2. UNCHANGED <<trace, binding, release>>
      BY <1>9 DEF Crash, Acquire, Launch, config
    <2>3. p # q /\ mem'[q] = mem[q] /\ pc[q] \in Resolving
      BY <2>1 DEF Alone, Resolving, Decided
    <2>4. s \in Sessions
      BY <2>3 DEF TypeOK, Resolving, Decided
    <2> QED
      BY <1>5, <2>2, <2>3, <2>4
  <1>10. CASE Outside
    <2>1. UNCHANGED <<pc, mem, trace>> /\ s \in Sessions /\ pc[q] \in Resolving
      BY <1>10, OutsideFrame DEF TypeOK, Resolving, Decided
    <2>2. UNCHANGED release /\ \A t \in Sessions : binding'[t] \in {binding[t], NoEntry}
      BY <1>1, <1>10 DEF Outside, Edit, Upgrade, LoseSidecar, Damage, vars, config, TypeOK
    <2> QED
      BY <1>5, <2>1, <2>2
  <1> QED
    BY <1>4, <1>7, <1>8, <1>9, <1>10, StepCases

-----------------------------------------------------------------------------
(***************************************************************************)
(* Short of kills, the binding of a registered session says what its       *)
(* registration says, whoever resolves finds none registered, and every    *)
(* line so far names the same profile.                                     *)
(***************************************************************************)
Bonded(s) ==
  Registered(s) =>
    /\ binding[s] # NoEntry /\ Agrees(binding[s], Registration(s))
    /\ \A i \in DOMAIN trace[s] : ~Strays(s, i)

AtEase(p) ==
  /\ pc[p] \in Resolving => ~Registered(mem[p].sess)
  /\ pc[p] \in Emitting => binding[mem[p].sess] = mem[p].bound /\ mem[p].bound # NoEntry

StickyInv ==
  Spared(FaultKinds \ {"crash"}) =>
    (\A s \in Sessions : Bonded(s)) /\ (\A p \in Procs : AtEase(p))

\* Nothing of p's, and nothing it looks at, has changed.
Untouched(p) ==
  /\ mem'[p] = mem[p] /\ pc'[p] = pc[p]
  /\ trace'[mem[p].sess] = trace[mem[p].sess] /\ binding'[mem[p].sess] = binding[mem[p].sess]

(***************************************************************************)
(* A step under way in one session touches no process of another one.      *)
(***************************************************************************)
LEMMA OthersUntouched ==
  ASSUME TypeOK, Exclusive, NEW p \in Procs, Holds(p), Alone(p),
         \A t \in Sessions : t # mem[p].sess => trace'[t] = trace[t] /\ binding'[t] = binding[t],
         NEW q \in Procs, q # p, Holds(q)
  PROVE  Untouched(q) /\ mem[q].sess \in Sessions /\ mem[q].sess # mem[p].sess
  <1>1. mem[q].sess \in Sessions /\ mem[q].sess # mem[p].sess
    BY Bystanders DEF TypeOK, Holds
  <1> QED
    BY <1>1 DEF Untouched, Alone

LEMMA WorksLocal ==
  ASSUME TypeOK, NEW p \in Procs, Works(p)
  PROVE  \A t \in Sessions : t # mem[p].sess => trace'[t] = trace[t] /\ binding'[t] = binding[t]
  BY DEF Works, Rehydrate, MatchBinding, LoadBound, LoadDefault, CheckSnapshot,
         WriteSnapshot, VerifySnapshot, RecordBinding, TypeOK

LEMMA StickyStep ==
  ASSUME TypeOK, Exclusive, Releases, Marked, IntactInv, StickyInv, [Next]_vars
  PROVE  StickyInv'
  <1> SUFFICES ASSUME Spared(FaultKinds \ {"crash"})'
               PROVE  (\A s \in Sessions : Bonded(s)') /\ (\A p \in Procs : AtEase(p)')
    BY DEF StickyInv
  <1>1. /\ Spared(FaultKinds \ {"crash"})
        /\ \A f \in FaultKinds \ {"crash"} : ~Fault(f)
    BY FaultsGrow, Strikes DEF FaultKinds, Spared
  <1>2. /\ \A s \in Sessions : Bonded(s)
        /\ \A p \in Procs : AtEase(p)
    BY <1>1 DEF StickyInv
  <1>3. /\ release = "old" /\ \A p \in Procs : mem[p].release = "old"
        /\ \A s \in Sessions : Intact(binding[s].profile)
        /\ \A p \in Procs : pc[p] \in {"verify", "record"} => Intact(mem[p].bound.profile)
    <2>1. faults["upgrade"] = 0 /\ Spared({"damage", "short"})
      BY <1>1 DEF Spared, FaultKinds
    <2> QED
      BY <2>1, OldRelease DEF IntactInv
  <1>4. ASSUME NEW s \in Sessions, trace'[s] = trace[s], binding'[s] = binding[s]
        PROVE  Bonded(s)'
    <2>1. Bonded(s)
      BY <1>2
    <2> QED
      BY <1>4, <2>1 DEF Bonded, Registered, Registration, Agrees, Strays
  <1>5. ASSUME NEW q \in Procs, Untouched(q)
        PROVE  AtEase(q)'
    <2>1. AtEase(q)
      BY <1>2
    <2> QED
      BY <1>5, <2>1 DEF AtEase, Untouched, Registered
  <1>6. ASSUME NEW q \in Procs, ~Holds(q)'
        PROVE  AtEase(q)'
    BY <1>6 DEF AtEase, Holds, Resolving, Decided, Emitting
  <1>7. ASSUME NEW p \in Procs, NEW t \in Sessions, Launch(p, t)
        PROVE  (\A s \in Sessions : Bonded(s)') /\ (\A q \in Procs : AtEase(q)')
    <2>1. pc'[p] = "wait" /\ Alone(p) /\ UNCHANGED <<trace, binding>>
      BY <1>7, LaunchEffect DEF Launch
    <2> QED
      BY <1>4, <1>5, <1>6, <2>1 DEF Holds, Untouched, Alone
  <1>8. ASSUME NEW p \in Procs, Acquire(p)
        PROVE  (\A s \in Sessions : Bonded(s)') /\ (\A q \in Procs : AtEase(q)')
    <2>1. pc'[p] = "rehydrate" /\ Alone(p) /\ UNCHANGED <<trace, binding>>
      BY <1>8, AcquireEffect DEF Acquire, Moves
    <2>2. AtEase(p)'
      BY <2>1 DEF AtEase, Resolving, Decided, Emitting
    <2> QED
      BY <1>4, <1>5, <2>1, <2>2 DEF Untouched, Alone
  <1>9. ASSUME NEW p \in Procs, Works(p)
        PROVE  (\A s \in Sessions : Bonded(s)') /\ (\A q \in Procs : AtEase(q)')
    <2> DEFINE s == mem[p].sess
    <2>1. /\ Holds(p) /\ Alone(p) /\ s \in Sessions /\ mem'[p].sess = s
          /\ UNCHANGED <<trace, lock>> /\ pc'[p] \notin {"idle", "wait"}
      BY <1>9, WorksFrame
    <2>2. \A t \in Sessions : t # s => trace'[t] = trace[t] /\ binding'[t] = binding[t]
      BY <1>9, WorksLocal
    <2>3. \A q \in Procs : q # p => AtEase(q)'
      BY <1>5, <1>6, <2>1, <2>2, OthersUntouched DEF Holds, Alone
    <2>4. AtEase(p)' /\ \A t \in Sessions : t = s => Bonded(t)'
      <3>1. CASE Rehydrate(p)
        <4>1. UNCHANGED <<binding, trace>> /\ ~Fault("read")
          BY <1>1, <3>1 DEF Rehydrate, FaultKinds
        <4>2. CASE Governs(s, binding[s], mem[p].release)
          <5>1. binding[s] # NoEntry
            BY <4>2 DEF Governs, Rebuilds
          <5> QED
            BY <1>4, <2>1, <3>1, <4>1, <4>2, <5>1, RehydrateEffect
               DEF AtEase, Resolving, Decided, Emitting
        <4>3. CASE ~Governs(s, binding[s], mem[p].release)
          <5>1. binding[s].profile \in Profiles \cup {NoProfile} /\ Intact(binding[s].profile)
            BY <1>3, <2>1 DEF TypeOK, Bound
          <5>2. ~Registered(s)
            <6>1. Bonded(s) /\ mem[p].release = "old"
              BY <1>2, <1>3, <2>1
            <6> QED
              BY <4>3, <5>1, <6>1 DEF Bonded, Governs, Rebuilds, Intact, Ready
          <5> QED
            BY <1>4, <2>1, <3>1, <4>1, <4>3, <5>2, RehydrateEffect DEF AtEase, Registered, Emitting
        <4> QED
          BY <4>2, <4>3
      <3>2. CASE pc[p] \in Resolving /\ pc'[p] # "emit"
        <4>1. UNCHANGED binding
          BY <1>9, <3>2, RecordEffect DEF Works, Rehydrate, MatchBinding, LoadBound, LoadDefault,
             CheckSnapshot, WriteSnapshot, VerifySnapshot, Moves
        <4>2. ~Registered(s)
          BY <1>2, <3>2 DEF AtEase
        <4> QED
          BY <1>4, <1>9, <2>1, <3>2, <4>1, <4>2, NeverEvent DEF AtEase, Registered, Emitting
      <3>3. CASE pc[p] \in Resolving /\ pc'[p] = "emit"
        <4>1. ~Registered(s)
          BY <1>2, <3>3 DEF AtEase
        <4>2. RecordBinding(p) /\ binding' = [binding EXCEPT ![s] = mem[p].bound] /\ UNCHANGED mem
          <5>1. ~WriteSnapshot(p)
            BY <1>1, <3>3, WriteEffect DEF Moves, FaultKinds
          <5>2. ~VerifySnapshot(p)
            <6>1. VerifySnapshot(p) => Intact(mem[p].bound.profile) /\ mem[p].bound.profile # NoProfile
              BY <1>3, VerifyEffect DEF Marked, Decided
            <6> QED
              BY <3>3, <6>1, VerifyEffect DEF Moves, Intact
          <5>3. RecordBinding(p)
            BY <1>9, <3>3, <5>1, <5>2, RehydrateEffect, MatchEffect, LoadBoundEffect,
               LoadDefaultEffect, CheckEffect DEF Works, Moves, Decides, Resolving, Decided
          <5> QED
            BY <1>1, <5>3, RecordEffect DEF Moves, FaultKinds
        <4>3. mem[p].bound # NoEntry
          <5>1. mem[p].bound.marker = Marker(s, mem[p].bound)
            BY <1>1, <4>2, RecordEffect DEF Marked, Decided, Spared, FaultKinds
          <5> QED
            BY <5>1, MarkerType DEF NoEntry
        <4>4. binding'[s] = mem[p].bound
          BY <2>1, <4>2 DEF TypeOK
        <4> QED
          BY <2>1, <3>3, <4>1, <4>2, <4>3, <4>4
             DEF AtEase, Bonded, Registered, Resolving, Decided, Emitting
      <3> QED
        BY <1>9, <3>1, <3>2, <3>3 DEF Works, MatchBinding, LoadBound, LoadDefault, CheckSnapshot,
           WriteSnapshot, VerifySnapshot, RecordBinding, Resolving, Decided
    <2> QED
      BY <1>4, <2>2, <2>3, <2>4
  <1>10. ASSUME NEW p \in Procs, Writes(p)
         PROVE  (\A s \in Sessions : Bonded(s)') /\ (\A q \in Procs : AtEase(q)')
    <2> DEFINE s == mem[p].sess
               b == mem[p].bound
    <2>1. /\ s \in Sessions /\ pc[p] \in Emitting /\ Holds(p) /\ Alone(p) /\ UNCHANGED binding
          /\ \A t \in Sessions : t # s => trace'[t] = trace[t] /\ binding'[t] = binding[t]
      BY <1>10, WritesEffect DEF Holds, Emitting
    <2>2. binding[s] = b /\ b # NoEntry /\ Bonded(s)
      BY <1>2, <2>1 DEF AtEase
    <2>3. ASSUME NEW t \in Sessions, t = s
          PROVE  Bonded(t)'
      <3>1. /\ trace[t] # <<>> => Head(trace'[t]) = Head(trace[t])
            /\ trace[t] = <<>> => Agrees(b, Head(trace'[t]))
            /\ \A i \in DOMAIN trace'[t] :
                 \/ i \in DOMAIN trace[t] /\ trace'[t][i] = trace[t][i]
                 \/ trace'[t][i].profile = b.profile
        BY <1>10, <2>3, WritesEffect
      <3>2. Agrees(b, Head(trace'[t])) /\ b.profile = Head(trace'[t]).profile
        BY <2>2, <2>3, <3>1 DEF Bonded, Registered, Registration, Agrees
      <3>3. ASSUME NEW i \in DOMAIN trace'[t]
            PROVE  trace'[t][i].profile = Head(trace'[t]).profile
        <4>1. CASE trace[t] = <<>>
          BY <3>1, <3>2, <4>1
        <4>2. CASE trace[t] # <<>>
          BY <2>2, <2>3, <3>1, <3>2, <4>2 DEF Bonded, Registered, Registration, Strays
        <4> QED
          BY <4>1, <4>2
      <3>4. binding'[t] = b
        BY <2>1, <2>2, <2>3
      <3> HIDE DEF b, s
      <3> QED
        BY <2>2, <3>2, <3>3, <3>4 DEF Bonded, Registered, Registration, Agrees, Strays
    <2>4. AtEase(p)'
      <3>1. \/ pc'[p] = "event" /\ mem'[p] = mem[p]
            \/ pc'[p] = "idle"
        BY <1>10, WritesEffect
      <3> QED
        BY <2>1, <2>2, <3>1 DEF AtEase, Resolving, Decided, Emitting
    <2>5. \A q \in Procs : q # p => AtEase(q)'
      BY <1>5, <1>6, <2>1, OthersUntouched DEF Holds, Alone
    <2> QED
      BY <1>4, <2>1, <2>3, <2>4, <2>5
  <1>11. ASSUME NEW p \in Procs, Crash(p)
         PROVE  (\A s \in Sessions : Bonded(s)') /\ (\A q \in Procs : AtEase(q)')
    <2>1. pc'[p] = "idle" /\ Alone(p) /\ UNCHANGED <<trace, binding>>
      BY <1>11, LeaveEffect DEF Crash, Leaves
    <2> QED
      BY <1>4, <1>5, <1>6, <2>1 DEF Holds, Untouched, Alone
  <1>12. CASE Outside
    <2>1. UNCHANGED <<pc, mem, trace>>
      BY <1>12, OutsideFrame
    <2>2. UNCHANGED binding
      BY <1>1, <1>12 DEF Outside, Edit, Upgrade, LoseSidecar, Damage, vars, FaultKinds
    <2> QED
      BY <1>4, <1>5, <2>1, <2>2 DEF Untouched
  <1> QED
    BY <1>7, <1>8, <1>9, <1>10, <1>11, <1>12, StepCases

-----------------------------------------------------------------------------
(***************************************************************************)
(* While nothing is edited and the release stays, every process resolves   *)
(* to the same profile, and so does whatever was recorded of it.           *)
(***************************************************************************)
FirstBound == content[bindings[FirstMatch].file]

Resolved ==
  IF FirstMatch # 0 /\ Ready(FirstBound, "old") THEN FirstBound
  ELSE IF Ready(content[DefaultFile], "old") THEN content[DefaultFile] ELSE NoProfile

SteadySession(s) ==
  /\ \A i \in DOMAIN trace[s] : trace[s][i].profile = Resolved
  /\ binding[s] # NoEntry => binding[s].profile = Resolved

SteadyProcess(p) ==
  /\ pc[p] \in Decided \cup Emitting => mem[p].bound.profile = Resolved
  /\ pc[p] = "load" => FirstMatch # 0 /\ mem[p].file = bindings[FirstMatch].file
  /\ pc[p] = "default" => ~(FirstMatch # 0 /\ Ready(FirstBound, "old"))

Steady ==
  edits = 0 /\ release = "old" =>
    (\A s \in Sessions : SteadySession(s)) /\ (\A p \in Procs : SteadyProcess(p))

LEMMA SteadyStep ==
  ASSUME TypeOK, Exclusive, Releases, Steady, [Next]_vars
  PROVE  Steady'
  <1> SUFFICES ASSUME edits' = 0, release' = "old"
               PROVE  (\A s \in Sessions : SteadySession(s)') /\ (\A p \in Procs : SteadyProcess(p)')
    BY DEF Steady
  <1>1. UNCHANGED <<config, edits>> /\ edits = 0 /\ release = "old"
    <2>1. UNCHANGED <<config, edits>> \/ Edit \/ Upgrade
      BY ZenonT(60) DEF Next, Launch, Acquire, Rehydrate, MatchBinding, LoadBound, LoadDefault, CheckSnapshot,
             WriteSnapshot, VerifySnapshot, RecordBinding, Register, EmitEvent, Crash, LoseSidecar,
             Damage, vars, config
    <2>2. edits \in Nat
      BY BindingAssumption DEF TypeOK
    <2>3. ~Edit /\ ~Upgrade
      BY <2>2 DEF Edit, Upgrade
    <2> QED
      BY <2>1, <2>3 DEF config
  <1>2. /\ \A s \in Sessions : SteadySession(s)
        /\ \A p \in Procs : SteadyProcess(p)
    BY <1>1 DEF Steady
  <1>3. \A p \in Procs : mem[p].release = "old"
    BY <1>1, MemoryFields DEF TypeOK, Releases
  <1>4. FirstMatch' = FirstMatch /\ FirstBound' = FirstBound /\ Resolved' = Resolved
    <2>1. FirstMatch' = FirstMatch
      BY <1>1 DEF FirstMatch, SelectInSeq, config
    <2> QED
      BY <1>1, <2>1 DEF FirstBound, Resolved, Ready, config
  <1>5. ASSUME NEW s \in Sessions, trace'[s] = trace[s], binding'[s] \in {binding[s], NoEntry}
        PROVE  SteadySession(s)'
    <2>1. SteadySession(s)
      BY <1>2
    <2> QED
      BY <1>4, <1>5, <2>1 DEF SteadySession
  <1>6. ASSUME NEW q \in Procs, mem'[q] = mem[q], pc'[q] = pc[q]
        PROVE  SteadyProcess(q)'
    <2>1. SteadyProcess(q)
      BY <1>2
    <2>2. bindings' = bindings /\ Ready(FirstBound, "old")' = Ready(FirstBound, "old")
      BY <1>1, <1>4 DEF Ready, config
    <2> QED
      BY <1>4, <1>6, <2>1, <2>2 DEF SteadyProcess
  <1>7. ASSUME NEW q \in Procs, pc'[q] \in {"idle", "wait", "rehydrate"}
        PROVE  SteadyProcess(q)'
    BY <1>7 DEF SteadyProcess, Decided, Emitting
  <1>8. ASSUME NEW p \in Procs, Crash(p) \/ Acquire(p) \/ (\E t \in Sessions : Launch(p, t))
        PROVE  (\A s \in Sessions : SteadySession(s)') /\ (\A q \in Procs : SteadyProcess(q)')
    <2>1. pc'[p] \in {"idle", "wait", "rehydrate"} /\ Alone(p)
      BY <1>8, LeaveEffect, AcquireEffect, LaunchEffect DEF Moves, Leaves
    <2>2. UNCHANGED <<trace, binding>>
      BY <1>8 DEF Crash, Acquire, Launch
    <2> QED
      BY <1>5, <1>6, <1>7, <2>1, <2>2 DEF Alone
  <1>9. ASSUME NEW p \in Procs, Works(p)
        PROVE  (\A s \in Sessions : SteadySession(s)') /\ (\A q \in Procs : SteadyProcess(q)')
    <2>1. Alone(p) /\ mem[p].sess \in Sessions /\ UNCHANGED trace
      BY <1>9, WorksFrame
    <2>2. SteadyProcess(p) /\ mem[p].release = "old"
      BY <1>2, <1>3
    <2>3. ASSUME NEW t \in Sessions
          PROVE  SteadySession(t)'
      <3>1. CASE binding'[t] = binding[t]
        BY <1>5, <2>1, <3>1
      <3>2. CASE RecordBinding(p) /\ binding'[t] = mem[p].bound
        <4>1. mem[p].bound.profile = Resolved
          BY <2>2, <3>2, RecordEffect DEF SteadyProcess, Decided, Emitting
        <4>2. SteadySession(t)
          BY <1>2
        <4> QED
          BY <1>4, <2>1, <3>2, <4>1, <4>2 DEF SteadySession
      <3> QED
        BY <1>9, <3>1, <3>2 DEF Works, Rehydrate, MatchBinding, LoadBound, LoadDefault,
           CheckSnapshot, WriteSnapshot, VerifySnapshot, RecordBinding, TypeOK
    <2>4. SteadyProcess(p)'
      <3>1. CASE Rehydrate(p)
        <4>1. /\ Governs(mem[p].sess, binding[mem[p].sess], mem[p].release) =>
                   Rebuilds(binding[mem[p].sess], mem[p].release)
              /\ Rebuilds(binding[mem[p].sess], mem[p].release) =>
                   binding[mem[p].sess].profile = Resolved
          BY <1>2, <2>1 DEF Governs, Rebuilds, SteadySession
        <4> QED
          BY <1>4, <3>1, <4>1, RehydrateEffect DEF SteadyProcess, Decided, Emitting
      <3>2. CASE MatchBinding(p)
        BY <1>1, <1>4, <3>2, MatchEffect DEF SteadyProcess, Decided, Emitting, config
      <3>3. CASE LoadBound(p)
        <4>1. FirstMatch # 0 /\ content[mem[p].file] = FirstBound
          BY <2>2, <3>3, LoadBoundEffect DEF SteadyProcess, FirstBound
        <4>2. CASE Ready(FirstBound, "old")
          <5>1. mem'[p].bound.profile = Resolved
            BY <2>2, <3>3, <4>1, <4>2, LoadBoundEffect DEF Resolved
          <5>2. pc'[p] \in Decided
            BY <2>2, <3>3, <4>1, <4>2, LoadBoundEffect DEF Decides, Decided
          <5> QED
            BY <1>4, <5>1, <5>2 DEF SteadyProcess, Decided, Emitting
        <4>3. CASE ~Ready(FirstBound, "old")
          <5>1. pc'[p] = "default"
            BY <2>2, <3>3, <4>1, <4>3, LoadBoundEffect
          <5>2. ~Ready(FirstBound, "old")'
            BY <1>4, <4>3 DEF Ready
          <5> QED
            BY <5>1, <5>2 DEF SteadyProcess, Decided, Emitting
        <4> QED
          BY <4>2, <4>3
      <3>4. CASE LoadDefault(p)
        <4>1. mem'[p].bound.profile = Resolved
          BY <2>2, <3>4, LoadDefaultEffect DEF SteadyProcess, Resolved
        <4>2. pc'[p] \in Decided
          BY <3>4, LoadDefaultEffect DEF Decides, Decided
        <4> QED
          BY <1>4, <4>1, <4>2 DEF SteadyProcess, Decided, Emitting
      <3>5. CASE CheckSnapshot(p) \/ WriteSnapshot(p) \/ VerifySnapshot(p) \/ RecordBinding(p)
        <4>1. pc[p] \in Decided /\ pc'[p] \in Decided \cup Emitting /\ UNCHANGED mem
          BY <3>5, CheckEffect, WriteEffect, VerifyEffect, RecordEffect DEF Moves, Decided, Emitting
        <4> QED
          BY <1>4, <2>2, <4>1 DEF SteadyProcess, Decided, Emitting
      <3> QED
        BY <1>9, <3>1, <3>2, <3>3, <3>4, <3>5 DEF Works
    <2> QED
      BY <1>6, <2>1, <2>3, <2>4 DEF Alone
  <1>10. ASSUME NEW p \in Procs, Writes(p)
         PROVE  (\A s \in Sessions : SteadySession(s)') /\ (\A q \in Procs : SteadyProcess(q)')
    <2>1. pc[p] \in Emitting /\ Alone(p) /\ UNCHANGED binding
      BY <1>10, WritesEffect
    <2>2. mem[p].bound.profile = Resolved
      BY <1>2, <2>1 DEF SteadyProcess
    <2>3. \A t \in Sessions : t # mem[p].sess => SteadySession(t)'
      BY <1>5, <1>10, <2>1, WritesEffect
    <2>4. \A t \in Sessions : t = mem[p].sess => SteadySession(t)'
      BY <1>2, <1>4, <1>10, <2>1, <2>2, WritesEffect DEF SteadySession
    <2>5. SteadyProcess(p)'
      <3>1. \/ pc'[p] = "event" /\ mem'[p] = mem[p]
            \/ pc'[p] = "idle"
        BY <1>10, WritesEffect
      <3> QED
        BY <1>4, <1>7, <2>2, <3>1 DEF SteadyProcess, Decided, Emitting
    <2> QED
      BY <1>6, <2>1, <2>3, <2>4, <2>5 DEF Alone
  <1>11. CASE Outside
    <2>1. UNCHANGED <<pc, mem, trace>>
      BY <1>11, OutsideFrame
    <2>2. \A s \in Sessions : binding'[s] \in {binding[s], NoEntry}
      BY <1>11 DEF Outside, Edit, Upgrade, LoseSidecar, Damage, vars, TypeOK
    <2> QED
      BY <1>5, <1>6, <2>1, <2>2
  <1> QED
    BY <1>8, <1>9, <1>10, <1>11, StepCases

(***************************************************************************)
(* Until a session is warned of, each of its stray events is accounted for *)
(* by a read that failed, and so is whoever is about to write another one; *)
(* a binding known to disagree with the registration has been warned of.   *)
(***************************************************************************)
StrayIn(lines) ==
  {i \in DOMAIN lines : lines[i].type = "EVENT" /\ lines[i].profile # Head(lines).profile}

Silent(s) == Cardinality(StrayIn(trace[s]))

Underway(p) == pc[p] \in Decided \cup Emitting

Differs(p) ==
  LET s == mem[p].sess IN Registered(s) /\ mem[p].bound.profile # Registration(s).profile

ToldSession(s) ==
  /\ binding[s].marker = "reresolve" => warnings[s] > 0
  /\ warnings[s] = 0 => Silent(s) <= faults["read"]

ToldProcess(p) ==
  LET s == mem[p].sess IN
  Underway(p) =>
    /\ mem[p].bound.marker = "reresolve" => warnings[s] > 0
    /\ Differs(p) /\ warnings[s] = 0 => Silent(s) + 1 <= faults["read"]

ToldInv == (\A s \in Sessions : ToldSession(s)) /\ (\A p \in Procs : ToldProcess(p))

LEMMA StrayCount ==
  ASSUME NEW q \in Seq(Line)
  PROVE  /\ Cardinality(StrayIn(q)) \in Nat
         /\ \A e \in Line :
              \/ Cardinality(StrayIn(Append(q, e))) <= Cardinality(StrayIn(q))
              \/ /\ q # <<>> /\ e.type = "EVENT" /\ e.profile # Head(q).profile
                 /\ Cardinality(StrayIn(Append(q, e))) = Cardinality(StrayIn(q)) + 1
  <1>1. ASSUME NEW r \in Seq(Line)
        PROVE  IsFiniteSet(StrayIn(r)) /\ Cardinality(StrayIn(r)) \in Nat
    <2>1. IsFiniteSet(1..Len(r))
      BY FS_Interval
    <2>2. StrayIn(r) \subseteq 1..Len(r)
      BY DEF StrayIn
    <2> QED
      BY <2>1, <2>2, FS_Subset, FS_CardinalityType
  <1>2. ASSUME NEW e \in Line
        PROVE  \/ Cardinality(StrayIn(Append(q, e))) <= Cardinality(StrayIn(q))
               \/ /\ q # <<>> /\ e.type = "EVENT" /\ e.profile # Head(q).profile
                  /\ Cardinality(StrayIn(Append(q, e))) = Cardinality(StrayIn(q)) + 1
    <2>1. /\ Append(q, e) \in Seq(Line) /\ DOMAIN Append(q, e) = DOMAIN q \cup {Len(q) + 1}
          /\ Append(q, e)[Len(q) + 1] = e /\ Len(q) + 1 \notin DOMAIN q
          /\ \A i \in DOMAIN q : Append(q, e)[i] = q[i]
          /\ q = <<>> => Head(Append(q, e)) = e /\ DOMAIN q = {}
          /\ q # <<>> => Head(Append(q, e)) = Head(q)
      OBVIOUS
    <2> DEFINE count == Cardinality(StrayIn(q))
    <2>5. count \in Nat
      BY <1>1
    <2>2. CASE q = <<>>
      <3>1. StrayIn(Append(q, e)) = {} /\ StrayIn(q) = {}
        BY <2>1, <2>2 DEF StrayIn
      <3>2. Cardinality(StrayIn(Append(q, e))) = count
        BY <3>1
      <3> QED
        BY <2>5, <3>2
    <2>3. CASE q # <<>> /\ e.type = "EVENT" /\ e.profile # Head(q).profile
      <3>1. /\ StrayIn(Append(q, e)) = StrayIn(q) \cup {Len(q) + 1}
            /\ Len(q) + 1 \notin StrayIn(q)
        BY <2>1, <2>3 DEF StrayIn
      <3> QED
        BY <1>1, <2>3, <3>1, FS_AddElement
    <2>4. CASE q # <<>> /\ ~(e.type = "EVENT" /\ e.profile # Head(q).profile)
      <3>1. StrayIn(Append(q, e)) = StrayIn(q)
        BY <2>1, <2>4 DEF StrayIn
      <3> QED
        BY <1>1, <3>1
    <2> QED
      BY <2>2, <2>3, <2>4
  <1> QED
    BY <1>1, <1>2

(***************************************************************************)
(* What a line adds to the stray events: at most itself, and then the      *)
(* process is done.                                                        *)
(***************************************************************************)
LEMMA WritesCount ==
  ASSUME TypeOK, NEW p \in Procs, Writes(p), NEW s, s = mem[p].sess
  PROVE  /\ Silent(s) \in Nat /\ Silent(s)' \in Nat
         /\ \/ Silent(s)' <= Silent(s)
            \/ Silent(s)' = Silent(s) + 1 /\ Differs(p) /\ pc'[p] = "idle"
  <1>1. s \in Sessions /\ trace[s] \in Seq(Line)
    BY WritesEffect DEF TypeOK
  <1>2. ASSUME NEW e \in Line, trace' = [trace EXCEPT ![s] = Append(trace[s], e)],
               e.profile = mem[p].bound.profile, e.type = "EVENT" => pc'[p] = "idle"
        PROVE  /\ Silent(s) \in Nat /\ Silent(s)' \in Nat
               /\ \/ Silent(s)' <= Silent(s)
                  \/ Silent(s)' = Silent(s) + 1 /\ Differs(p) /\ pc'[p] = "idle"
    <2>1. trace'[s] = Append(trace[s], e) /\ trace'[s] \in Seq(Line)
      BY <1>1, <1>2 DEF TypeOK
    <2>2. Cardinality(StrayIn(trace[s])) \in Nat /\ Cardinality(StrayIn(trace'[s])) \in Nat
      BY <1>1, <2>1, StrayCount
    <2>3. \/ Cardinality(StrayIn(trace'[s])) <= Cardinality(StrayIn(trace[s]))
          \/ /\ trace[s] # <<>> /\ e.type = "EVENT" /\ e.profile # Head(trace[s]).profile
             /\ Cardinality(StrayIn(trace'[s])) = Cardinality(StrayIn(trace[s])) + 1
      BY <1>1, <2>1, StrayCount
    <2>4. Silent(s) = Cardinality(StrayIn(trace[s])) /\ Silent(s)' = Cardinality(StrayIn(trace'[s]))
      BY DEF Silent, StrayIn
    <2>5. trace[s] # <<>> /\ e.profile # Head(trace[s]).profile => Differs(p)
      BY <1>2 DEF Differs, Registered, Registration
    <2> QED
      BY <1>2, <2>2, <2>3, <2>4, <2>5
  <1>3. CASE Register(p)
    <2>1. /\ trace' = [trace EXCEPT ![s] = Append(trace[s], EventOf(p, "REG"))]
          /\ EventOf(p, "REG").type = "REG"
      BY <1>1, <1>3 DEF Register, EventOf
    <2> QED
      BY <1>2, <2>1, EventType
  <1>4. CASE EmitEvent(p)
    <2>1. /\ trace' = [trace EXCEPT ![s] = Append(trace[s], EventOf(p, "EVENT"))]
          /\ pc'[p] = "idle"
      BY <1>1, <1>4 DEF EmitEvent, Goto, TypeOK
    <2> QED
      BY <1>2, <2>1, EventType
  <1> QED
    BY <1>3, <1>4 DEF Writes

LEMMA WarningsGrow ==
  ASSUME TypeOK, Exclusive, [Next]_vars
  PROVE  \A s \in Sessions : warnings'[s] \in Nat /\ (warnings[s] > 0 => warnings'[s] > 0)
  <1>1. warnings' \in [Sessions -> Nat] /\ warnings \in [Sessions -> Nat]
    BY TypeStep DEF TypeOK
  <1>2. CASE UNCHANGED warnings
    BY <1>1, <1>2
  <1>3. ASSUME NEW p \in Procs, Decides(p)
        PROVE  \A s \in Sessions : warnings[s] > 0 => warnings'[s] > 0
    BY <1>1, <1>3 DEF Decides
  <1>4. UNCHANGED warnings \/ \E p \in Procs : LoadBound(p) \/ LoadDefault(p)
    BY DEF Next, Launch, Acquire, Rehydrate, MatchBinding, CheckSnapshot,
           WriteSnapshot, VerifySnapshot, RecordBinding, Register, EmitEvent, Crash, Edit, Upgrade,
           LoseSidecar, Damage, vars
  <1>5. ASSUME NEW p \in Procs, LoadBound(p) \/ LoadDefault(p)
        PROVE  UNCHANGED warnings \/ Decides(p)
    BY <1>5, LoadBoundEffect, LoadDefaultEffect
  <1> QED
    BY <1>1, <1>2, <1>3, <1>4, <1>5

LEMMA ToldStep ==
  ASSUME TypeOK, Exclusive, Marked, ToldInv, [Next]_vars
  PROVE  ToldInv'
  <1> SUFFICES (\A s \in Sessions : ToldSession(s)') /\ (\A q \in Procs : ToldProcess(q)')
    BY DEF ToldInv
  <1>1. /\ \A s \in Sessions : ToldSession(s)
        /\ \A p \in Procs : ToldProcess(p)
    BY DEF ToldInv
  <1>2. \A s \in Sessions : /\ warnings[s] \in Nat /\ warnings'[s] \in Nat
                            /\ warnings[s] > 0 => warnings'[s] > 0
                            /\ Silent(s) \in Nat
    BY WarningsGrow, StrayCount DEF TypeOK, Silent
  <1>3. faults["read"] \in Nat /\ faults'["read"] \in Nat /\ faults'["read"] >= faults["read"]
    BY FaultsGrow DEF FaultKinds
  <1>4. \A s : trace'[s] = trace[s] => Silent(s)' = Silent(s)
    BY DEF Silent, StrayIn
  <1>5. ASSUME NEW s \in Sessions, trace'[s] = trace[s], binding'[s] \in {binding[s], NoEntry}
        PROVE  ToldSession(s)'
    <2>1. ToldSession(s) /\ NoEntry.marker = "absent" /\ Silent(s)' = Silent(s)
      BY <1>1, <1>4, <1>5 DEF NoEntry
    <2>2. binding'[s].marker = "reresolve" => warnings'[s] > 0
      BY <1>2, <1>5, <2>1 DEF ToldSession
    <2>3. warnings'[s] = 0 => Silent(s)' <= faults'["read"]
      BY <1>2, <1>3, <2>1 DEF ToldSession
    <2> QED
      BY <2>2, <2>3 DEF ToldSession
  <1>6. ASSUME NEW q \in Procs, mem'[q] = mem[q], Underway(q), trace'[mem[q].sess] = trace[mem[q].sess]
        PROVE  ToldProcess(q)'
    <2> DEFINE s == mem[q].sess
    <2>1. ToldProcess(q) /\ s \in Sessions /\ Silent(s)' = Silent(s)
      BY <1>1, <1>4, <1>6 DEF TypeOK, Underway, Decided, Emitting
    <2>2. Differs(q)' = Differs(q)
      BY <1>6 DEF Differs, Registered, Registration
    <2>3. mem'[q].bound.marker = "reresolve" => warnings'[s] > 0
      BY <1>2, <1>6, <2>1 DEF ToldProcess
    <2>4. Differs(q)' /\ warnings'[s] = 0 => Silent(s)' + 1 <= faults'["read"]
      BY <1>2, <1>3, <1>6, <2>1, <2>2 DEF ToldProcess
    <2> QED
      BY <1>6, <2>3, <2>4 DEF ToldProcess
  <1>7. ASSUME NEW q \in Procs, ~Underway(q)'
        PROVE  ToldProcess(q)'
    BY <1>7 DEF ToldProcess
  <1>8. ASSUME NEW p \in Procs, Crash(p) \/ Acquire(p) \/ (\E t \in Sessions : Launch(p, t))
        PROVE  (\A s \in Sessions : ToldSession(s)') /\ (\A q \in Procs : ToldProcess(q)')
    <2>1. pc'[p] \in {"idle", "wait", "rehydrate"} /\ Alone(p)
      BY <1>8, LeaveEffect, AcquireEffect, LaunchEffect DEF Moves, Leaves
    <2>2. UNCHANGED <<trace, binding>>
      BY <1>8 DEF Crash, Acquire, Launch
    <2>3. ToldProcess(p)'
      BY <1>7, <2>1 DEF Underway, Decided, Emitting
    <2>4. ASSUME NEW q \in Procs, q # p
          PROVE  ToldProcess(q)'
      BY <1>6, <1>7, <2>1, <2>2, <2>4 DEF Alone, Underway
    <2> QED
      BY <1>5, <2>2, <2>3, <2>4
  <1>9. ASSUME NEW p \in Procs, Works(p)
        PROVE  (\A s \in Sessions : ToldSession(s)') /\ (\A q \in Procs : ToldProcess(q)')
    <2>0. PICK s \in Sessions : s = mem[p].sess
      BY <1>9, WorksFrame
    <2>1. Alone(p) /\ mem'[p].sess = s /\ UNCHANGED trace
      BY <1>9, <2>0, WorksFrame
    <2>2. ToldProcess(p) /\ ToldSession(s) /\ Silent(s)' = Silent(s)
      BY <1>1, <1>4, <2>1
    <2>3. ASSUME NEW t \in Sessions
          PROVE  ToldSession(t)'
      <3>1. CASE binding'[t] = binding[t]
        BY <1>5, <2>1, <3>1
      <3>2. CASE RecordBinding(p) /\ t = s /\ binding'[t] = mem[p].bound
        <4>1. mem[p].bound.marker = "reresolve" => warnings'[t] > 0
          BY <1>2, <2>0, <2>2, <3>2, RecordEffect DEF ToldProcess, Underway, Decided
        <4>2. warnings'[t] = 0 => Silent(t)' <= faults'["read"]
          BY <1>2, <1>3, <2>2, <3>2 DEF ToldSession
        <4> QED
          BY <3>2, <4>1, <4>2 DEF ToldSession
      <3> QED
        BY <1>9, <2>0, <3>1, <3>2 DEF Works, Rehydrate, MatchBinding, LoadBound, LoadDefault,
           CheckSnapshot, WriteSnapshot, VerifySnapshot, RecordBinding, TypeOK
    <2>4. ASSUME Fault("read"), mem'[p].bound.marker = "reresolve" => warnings'[s] > 0
          PROVE  ToldProcess(p)'
      <3>1. faults'["read"] = faults["read"] + 1
        BY <2>4, FaultType DEF FaultKinds
      <3>2. warnings'[s] = 0 => Silent(s)' + 1 <= faults'["read"]
        BY <1>2, <1>3, <2>2, <3>1 DEF ToldSession
      <3> QED
        BY <2>1, <2>4, <3>2 DEF ToldProcess
    <2>5. ASSUME Differs(p)' => mem'[p].bound.marker = "reresolve",
                 mem'[p].bound.marker = "reresolve" => warnings'[s] > 0
          PROVE  ToldProcess(p)'
      BY <1>2, <2>1, <2>5 DEF ToldProcess
    <2>6. Differs(p)' = (Registered(s) /\ mem'[p].bound.profile # Registration(s).profile)
      BY <2>1 DEF Differs, Registered, Registration
    <2>7. ToldProcess(p)'
      <3>1. CASE Rehydrate(p)
        <4>1. /\ mem'[p].bound = binding[s] => (mem'[p].bound.marker = "reresolve" => warnings'[s] > 0)
              /\ Governs(s, binding[s], mem[p].release) =>
                   (Registered(s) /\ binding[s].profile # Registration(s).profile =>
                      binding[s].marker = "reresolve")
          BY <1>2, <2>1, <2>2 DEF Governs, Agrees, ToldSession
        <4>2. pc'[p] = "match" => ~Underway(p)'
          BY DEF Underway, Decided, Emitting
        <4> QED
            BY <1>7, <2>0, <2>4, <2>5, <2>6, <3>1, <4>1, <4>2, RehydrateEffect
      <3>2. CASE Decides(p)
        <4>1. mem'[p].bound.marker = "reresolve" => warnings'[s] > 0
          BY <1>2, <2>0, <2>1, <3>2 DEF Decides, TypeOK
        <4>2. CASE mem'[p].bound.marker = Marker(s, mem'[p].bound)
          <5>1. Registered(s) /\ mem'[p].bound.profile # Registration(s).profile =>
                  mem'[p].bound.marker = "reresolve"
            BY <4>2 DEF Marker, Agrees
          <5> QED
            BY <2>5, <2>6, <4>1, <5>1
        <4>3. CASE Fault("read")
          BY <2>4, <4>1, <4>3
        <4> QED
          BY <2>0, <3>2, <4>2, <4>3 DEF Decides
      <3>3. CASE pc'[p] \notin Decided \cup Emitting
        BY <1>7, <3>3 DEF Underway
      <3>4. CASE CheckSnapshot(p) \/ WriteSnapshot(p) \/ VerifySnapshot(p) \/ RecordBinding(p)
        <4>1. pc[p] \in Decided /\ UNCHANGED mem
          BY <3>4, CheckEffect, WriteEffect, VerifyEffect, RecordEffect DEF Moves, Decided
        <4> QED
          BY <1>6, <2>1, <4>1 DEF Underway
      <3> QED
        BY <1>9, <3>1, <3>2, <3>3, <3>4, MatchEffect, LoadBoundEffect, LoadDefaultEffect
           DEF Works, Decided, Emitting
    <2>8. ASSUME NEW q \in Procs, q # p
          PROVE  ToldProcess(q)'
      BY <1>6, <1>7, <2>1, <2>8 DEF Alone, Underway
    <2> QED
      BY <2>3, <2>7, <2>8
  <1>10. ASSUME NEW p \in Procs, Writes(p)
         PROVE  (\A s \in Sessions : ToldSession(s)') /\ (\A q \in Procs : ToldProcess(q)')
    <2>0. PICK s \in Sessions : s = mem[p].sess
      BY <1>10, WritesEffect
    <2>1. /\ pc[p] \in Emitting /\ Holds(p) /\ Alone(p) /\ UNCHANGED <<binding, warnings>>
          /\ Underway(p)
          /\ \A t \in Sessions : t # s => trace'[t] = trace[t] /\ binding'[t] = binding[t]
      BY <1>10, <2>0, WritesEffect DEF Holds, Emitting, Underway
    <2>2. ToldProcess(p) /\ ToldSession(s)
      BY <1>1, <2>1
    <2>3. /\ Silent(s)' \in Nat
          /\ \/ Silent(s)' <= Silent(s)
             \/ Silent(s)' = Silent(s) + 1 /\ Differs(p) /\ pc'[p] = "idle"
      BY <1>10, <2>0, WritesCount
    <2>4. ASSUME NEW t \in Sessions, t = s
          PROVE  ToldSession(t)'
      <3>1. warnings'[s] = 0 => Silent(s)' <= faults'["read"]
        BY <1>2, <1>3, <2>0, <2>1, <2>2, <2>3 DEF ToldProcess, ToldSession
      <3> QED
        BY <2>1, <2>2, <2>4, <3>1 DEF ToldSession
    <2>5. ToldProcess(p)'
      <3>1. CASE pc'[p] = "event" /\ mem'[p] = mem[p]
        <4>1. Silent(s)' <= Silent(s)
          BY <2>3, <3>1
        <4>2. Differs(p)' => Differs(p)
          <5>1. /\ trace[s] # <<>> => Head(trace'[s]) = Head(trace[s])
                /\ trace[s] = <<>> => Head(trace'[s]).profile = mem[p].bound.profile
            BY <1>10, <2>0, WritesEffect DEF Agrees
          <5> QED
            BY <2>0, <3>1, <5>1 DEF Differs, Registered, Registration
        <4>3. Differs(p)' /\ warnings'[s] = 0 => Silent(s)' + 1 <= faults'["read"]
          BY <1>2, <1>3, <2>0, <2>1, <2>2, <2>3, <4>1, <4>2 DEF ToldProcess
        <4>4. mem'[p].bound.marker = "reresolve" => warnings'[s] > 0
          BY <2>0, <2>1, <2>2, <3>1 DEF ToldProcess
        <4> QED
          BY <2>0, <3>1, <4>3, <4>4 DEF ToldProcess
      <3>2. CASE pc'[p] = "idle"
        BY <1>7, <3>2 DEF Underway, Decided, Emitting
      <3> QED
        BY <1>10, <3>1, <3>2, WritesEffect
    <2>6. ASSUME NEW q \in Procs, q # p
          PROVE  ToldProcess(q)'
      <3>1. CASE Underway(q)
        <4>1. Holds(q)
          BY <3>1 DEF Holds, Underway, Decided, Emitting
        <4> QED
          BY <1>6, <2>0, <2>1, <2>6, <3>1, <4>1, OthersUntouched DEF Untouched
      <3>2. CASE ~Underway(q)
        BY <1>7, <2>1, <2>6, <3>2 DEF Alone, Underway
      <3> QED
        BY <3>1, <3>2
    <2> QED
      BY <1>5, <2>1, <2>4, <2>5, <2>6
  <1>11. CASE Outside
    <2>1. UNCHANGED <<pc, mem, trace>>
      BY <1>11, OutsideFrame
    <2>2. \A s \in Sessions : binding'[s] \in {binding[s], NoEntry}
      BY <1>11 DEF Outside, Edit, Upgrade, LoseSidecar, Damage, vars, TypeOK
    <2>3. ASSUME NEW q \in Procs
          PROVE  ToldProcess(q)'
      BY <1>6, <1>7, <2>1 DEF Underway
    <2> QED
      BY <1>5, <2>1, <2>2, <2>3
  <1> QED
    BY <1>8, <1>9, <1>10, <1>11, StepCases

-----------------------------------------------------------------------------
(***************************************************************************)
(* Each warning is paid for: a session is only resolved again after its    *)
(* sidecar was lost or a kill kept its binding from being recorded.        *)
(***************************************************************************)
Budgeted == faults["lose"] + faults["crash"]

Paid(s) ==
  /\ warnings[s] <= Budgeted
  /\ ~Registered(s) => warnings[s] = 0
  /\ Registered(s) => \/ Governs(s, binding[s], release)
                      \/ warnings[s] < Budgeted
                      \/ \E p \in Procs : pc[p] \in Decided /\ mem[p].sess = s

Ensured(p) ==
  LET s == mem[p].sess IN
  pc[p] \in Emitting /\ ~Registered(s) =>
    (binding[s] = mem[p].bound /\ Rebuilds(mem[p].bound, release)) \/ Budgeted > 0

WarnInv ==
  Spared(FaultKinds \ {"crash", "lose"}) =>
    (\A s \in Sessions : Paid(s)) /\ (\A p \in Procs : Ensured(p))

LEMMA Costs ==
  ASSUME TypeOK, Fault("lose") \/ Fault("crash")
  PROVE  Budgeted' > Budgeted
  <1>1. "lose" \in FaultKinds /\ "crash" \in FaultKinds
    BY DEF FaultKinds
  <1>2. faults["lose"] \in Nat /\ faults["crash"] \in Nat
    BY <1>1 DEF TypeOK
  <1>3. CASE Fault("lose")
    <2>1. faults'["lose"] = faults["lose"] + 1 /\ faults'["crash"] = faults["crash"]
      BY <1>1, <1>3, FaultType
    <2> QED
      BY <1>2, <2>1 DEF Budgeted
  <1>4. CASE Fault("crash")
    <2>1. faults'["crash"] = faults["crash"] + 1 /\ faults'["lose"] = faults["lose"]
      BY <1>1, <1>4, FaultType
    <2> QED
      BY <1>2, <2>1 DEF Budgeted
  <1> QED
    BY <1>3, <1>4

LEMMA WarnStep ==
  ASSUME TypeOK, Exclusive, Releases, Marked, IntactInv, NotGoverned, WarnInv, [Next]_vars
  PROVE  WarnInv'
  <1> SUFFICES ASSUME Spared(FaultKinds \ {"crash", "lose"})'
               PROVE  (\A s \in Sessions : Paid(s)') /\ (\A p \in Procs : Ensured(p)')
    BY DEF WarnInv
  <1>1. /\ Spared(FaultKinds \ {"crash", "lose"})
        /\ \A f \in FaultKinds \ {"crash", "lose"} : ~Fault(f)
    BY FaultsGrow, Strikes DEF FaultKinds, Spared
  <1>2. /\ \A s \in Sessions : Paid(s)
        /\ \A p \in Procs : Ensured(p)
    BY <1>1 DEF WarnInv
  <1>3. /\ \A s \in Sessions : Intact(binding[s].profile)
        /\ \A p \in Procs : pc[p] \in {"verify", "record"} => Intact(mem[p].bound.profile)
        /\ \A p \in Procs : pc[p] \in Resolving => ~Governs(mem[p].sess, binding[mem[p].sess], release)
        /\ faults["upgrade"] = 0
    BY <1>1 DEF IntactInv, NotGoverned, Spared, FaultKinds
  <1>4. release = "old" /\ \A p \in Procs : mem[p].release = "old"
    BY <1>3, OldRelease
  <1>5. release' = "old"
    <2>1. faults'["upgrade"] = 0
      BY DEF Spared, FaultKinds
    <2> QED
      BY <2>1, TypeStep, ReleasesStep DEF Releases, TypeOK
  <1>6. /\ Budgeted \in Nat /\ Budgeted' \in Nat /\ Budgeted' >= Budgeted
        /\ \A s \in Sessions : warnings[s] \in Nat
    <2>1. /\ "lose" \in FaultKinds /\ "crash" \in FaultKinds
          /\ \A s \in Sessions : warnings[s] \in Nat
      BY DEF FaultKinds, TypeOK
    <2>2. \A f \in {"lose", "crash"} : faults[f] \in Nat /\ faults'[f] \in Nat /\ faults'[f] >= faults[f]
      BY <2>1, FaultsGrow
    <2> QED
      BY <2>1, <2>2 DEF Budgeted
  <1>7. \A c \in Profiles : snapshots[c] = "intact" => snapshots'[c] = "intact"
    <2>1. ASSUME NEW p \in Procs, WriteSnapshot(p)
          PROVE  \A c \in Profiles : snapshots[c] = "intact" => snapshots'[c] = "intact"
      BY <1>1, <2>1, WriteEffect DEF TypeOK, FaultKinds
    <2>2. (\E p \in Procs : WriteSnapshot(p)) \/ (\E c \in Profiles : Damage(c)) \/ UNCHANGED snapshots
      BY DEF Next, Launch, Acquire, Rehydrate, MatchBinding, LoadBound, LoadDefault, CheckSnapshot,
             VerifySnapshot, RecordBinding, Register, EmitEvent, Crash, Edit, Upgrade,
             LoseSidecar, vars
    <2> QED
      BY <1>1, <2>1, <2>2 DEF Damage, FaultKinds
  <1>8. \A e \in Bound : Rebuilds(e, release) => Rebuilds(e, release)'
    BY <1>4, <1>5, <1>7 DEF Rebuilds, Ready, Bound
  <1>9. ASSUME NEW s \in Sessions, binding'[s] = binding[s], Governs(s, binding[s], release),
               Registered(s), Registered(s)', Registration(s)' = Registration(s)
        PROVE  Governs(s, binding[s], release)'
    <2>1. binding[s] \in Bound /\ Rebuilds(binding[s], release)
      BY <1>9 DEF TypeOK, Governs
    <2>2. Rebuilds(binding[s], release)'
      BY <1>8, <1>9, <2>1 DEF Rebuilds
    <2> QED
      BY <1>9, <2>2 DEF Governs, Agrees
  <1>10. ASSUME NEW s \in Sessions, warnings'[s] = warnings[s],
                trace'[s] = trace[s], binding'[s] = binding[s],
                \A q \in Procs : pc[q] \in Decided /\ mem[q].sess = s =>
                  \/ pc'[q] \in Decided /\ mem'[q].sess = s
                  \/ Budgeted' > Budgeted
         PROVE  Paid(s)'
    <2>1. Paid(s)
      BY <1>2
    <2>2. Registered(s)' = Registered(s) /\ Registration(s)' = Registration(s)
      BY <1>10 DEF Registered, Registration
    <2>3. ASSUME Registered(s)
          PROVE  \/ Governs(s, binding[s], release)'
                 \/ warnings'[s] < Budgeted'
                 \/ \E p \in Procs : pc'[p] \in Decided /\ mem'[p].sess = s
      <3>1. CASE Governs(s, binding[s], release)
        BY <1>9, <1>10, <2>2, <2>3, <3>1
      <3>2. CASE warnings[s] < Budgeted
        BY <1>6, <1>10, <3>2
      <3>3. CASE \E p \in Procs : pc[p] \in Decided /\ mem[p].sess = s
        BY <1>6, <1>10, <2>1, <3>3 DEF Paid
      <3> QED
        BY <2>1, <2>3, <3>1, <3>2, <3>3 DEF Paid
    <2> QED
      BY <1>6, <1>10, <2>1, <2>2, <2>3 DEF Paid
  <1>11. ASSUME NEW q \in Procs, Untouched(q)
         PROVE  Ensured(q)'
    <2>1. Ensured(q) /\ (pc[q] \in Emitting => mem[q].sess \in Sessions) /\ mem[q].bound \in Bound
      BY <1>2 DEF TypeOK, Memory, Emitting
    <2>2. Rebuilds(mem[q].bound, release) => Rebuilds(mem[q].bound, release)'
      BY <1>8, <1>11, <2>1 DEF Rebuilds, Untouched
    <2> QED
      BY <1>6, <1>11, <2>1, <2>2 DEF Ensured, Untouched, Registered
  <1>12. ASSUME NEW q \in Procs, pc'[q] \notin Emitting \/ Budgeted' > 0
         PROVE  Ensured(q)'
    BY <1>12 DEF Ensured
  <1>13. ASSUME NEW p \in Procs, Acquire(p) \/ (\E t \in Sessions : Launch(p, t))
         PROVE  (\A s \in Sessions : Paid(s)') /\ (\A q \in Procs : Ensured(q)')
    <2>1. pc[p] \in {"idle", "wait"} /\ pc'[p] \in {"wait", "rehydrate"} /\ Alone(p)
      BY <1>13, AcquireEffect, LaunchEffect DEF Moves
    <2>2. UNCHANGED <<trace, binding, warnings>>
      BY <1>13 DEF Acquire, Launch
    <2>3. \A s \in Sessions : Paid(s)'
      BY <1>10, <2>1, <2>2 DEF Alone, Decided
    <2> QED
      BY <1>11, <1>12, <2>1, <2>2, <2>3 DEF Alone, Untouched, Emitting
  <1>14. ASSUME NEW p \in Procs, Crash(p)
         PROVE  (\A s \in Sessions : Paid(s)') /\ (\A q \in Procs : Ensured(q)')
    <2>1. UNCHANGED <<trace, binding, warnings>> /\ Fault("crash")
      BY <1>14 DEF Crash
    <2>2. Budgeted' > Budgeted
      BY <2>1, Costs
    <2> QED
      BY <1>6, <1>10, <1>12, <2>1, <2>2
  <1>15. ASSUME NEW p \in Procs, Writes(p)
         PROVE  (\A s \in Sessions : Paid(s)') /\ (\A q \in Procs : Ensured(q)')
    <2>1. /\ pc[p] \in Emitting /\ pc'[p] \in {"event", "idle"} /\ Holds(p) /\ Alone(p)
          /\ UNCHANGED <<binding, warnings>> /\ mem[p].sess \in Sessions
          /\ \A t \in Sessions : t # mem[p].sess => trace'[t] = trace[t] /\ binding'[t] = binding[t]
      BY <1>15, WritesEffect DEF Holds, Emitting
    <2>2. \A q \in Procs : pc[q] \in Decided => pc'[q] \in Decided /\ mem'[q].sess = mem[q].sess
      BY <2>1 DEF Alone, Decided, Emitting
    <2>3. \A t \in Sessions : t # mem[p].sess => Paid(t)'
      BY <1>10, <2>1, <2>2
    <2>4. ASSUME NEW t \in Sessions, t = mem[p].sess
          PROVE  Paid(t)' /\ Registered(t)'
      <3>1. /\ Registered(t)'
            /\ Registered(t) => Registration(t)' = Registration(t)
            /\ ~Registered(t) => Agrees(mem[p].bound, Registration(t)')
        BY <1>15, <2>4, WritesEffect DEF Registered, Registration
      <3>2. Paid(t) /\ Ensured(p)
        BY <1>2
      <3>3. CASE Registered(t)
        <4>1. Governs(t, binding[t], release) => Governs(t, binding[t], release)'
          BY <1>9, <2>1, <3>1, <3>3
        <4> QED
          BY <1>6, <2>1, <2>2, <3>1, <3>2, <3>3, <4>1 DEF Paid
      <3>4. CASE ~Registered(t)
        <4>1. CASE binding[t] = mem[p].bound /\ Rebuilds(mem[p].bound, release)
          <5>1. Rebuilds(binding[t], release)'
            BY <1>8, <2>1, <4>1 DEF Rebuilds, TypeOK
          <5>2. Governs(t, binding[t], release)'
            BY <2>1, <3>1, <3>4, <4>1, <5>1 DEF Governs, Agrees
          <5> QED
            BY <1>6, <2>1, <3>1, <3>2, <3>4, <5>2 DEF Paid
        <4>2. CASE Budgeted > 0
          BY <1>6, <2>1, <3>1, <3>2, <3>4, <4>2 DEF Paid
        <4> QED
          BY <2>1, <2>4, <3>2, <3>4, <4>1, <4>2 DEF Ensured
      <3> QED
        BY <3>1, <3>3, <3>4
    <2>5. Ensured(p)'
      <3>1. trace'[mem[p].sess] # <<>> /\ (pc'[p] = "event" => mem'[p] = mem[p])
        BY <1>15, WritesEffect
      <3> QED
        BY <2>1, <3>1 DEF Ensured, Registered, Emitting
    <2>6. \A q \in Procs : q # p => Ensured(q)'
      BY <1>11, <1>12, <2>1, OthersUntouched DEF Holds, Alone, Emitting
    <2> QED
      BY <2>3, <2>4, <2>5, <2>6
  <1>16. ASSUME NEW p \in Procs, Works(p)
         PROVE  (\A s \in Sessions : Paid(s)') /\ (\A q \in Procs : Ensured(q)')
    <2>1. /\ Holds(p) /\ Alone(p) /\ mem[p].sess \in Sessions /\ mem'[p].sess = mem[p].sess
          /\ UNCHANGED trace
      BY <1>16, WorksFrame
    <2>2. \A t \in Sessions : t # mem[p].sess => trace'[t] = trace[t] /\ binding'[t] = binding[t]
      BY <1>16, WorksLocal
    <2>3. \A q \in Procs : q # p => Ensured(q)'
      BY <1>11, <1>12, <2>1, <2>2, OthersUntouched DEF Holds, Alone, Emitting
    <2>4. \A t \in Sessions : t # mem[p].sess => warnings'[t] = warnings[t]
      <3>1. CASE UNCHANGED warnings
        BY <3>1
      <3>2. CASE Decides(p)
        BY <2>1, <3>2 DEF Decides, TypeOK
      <3> QED
        BY <1>16, <3>1, <3>2, LoadBoundEffect, LoadDefaultEffect DEF Works, Rehydrate, MatchBinding,
           CheckSnapshot, WriteSnapshot, VerifySnapshot, RecordBinding
    <2>5. ASSUME NEW t \in Sessions, t # mem[p].sess
          PROVE  Paid(t)'
      BY <1>10, <2>1, <2>2, <2>4, <2>5 DEF Alone
    <2>6. ASSUME NEW t \in Sessions, t = mem[p].sess
          PROVE  Paid(t)' /\ Ensured(p)'
      <3>1. CASE Rehydrate(p)
        <4> ~Fault("read")
          BY <1>1 DEF FaultKinds
        <4>1. Paid(t)'
          BY <1>10, <2>1, <2>6, <3>1 DEF Rehydrate, Alone, Decided
        <4>2. CASE Governs(t, binding[t], mem[p].release)
          <5>1. /\ mem'[p].bound = binding[t] /\ binding'[t] = binding[t]
                /\ Rebuilds(binding[t], release)
            BY <1>4, <2>6, <3>1, <4>2, RehydrateEffect DEF Governs, Rehydrate
          <5>2. Rebuilds(mem[p].bound, release)'
            BY <1>8, <2>1, <5>1 DEF Rebuilds, TypeOK
          <5> QED
            BY <2>1, <2>6, <4>1, <5>1, <5>2 DEF Ensured
        <4>3. CASE ~Governs(t, binding[t], mem[p].release)
          BY <1>12, <2>6, <3>1, <4>1, <4>3, RehydrateEffect DEF Emitting
        <4> QED
          BY <4>2, <4>3
      <3>2. CASE Decides(p) /\ (LoadBound(p) \/ LoadDefault(p))
        <4>1. /\ UNCHANGED binding /\ pc[p] \in {"load", "default"}
              /\ pc'[p] \in Decided /\ mem'[p].sess = t
          BY <2>6, <3>2 DEF LoadBound, LoadDefault, Decides, Decided
        <4>2. \A q \in Procs : pc[q] \in Decided => mem[q].sess # t
          <5>1. \A q \in Procs : pc[q] \in Decided => Holds(q) /\ q # p
            BY <4>1 DEF Decided, Holds
          <5> QED
            BY <2>1, <2>6, <5>1, Bystanders
        <4>3. /\ warnings'[t] = IF mem'[p].bound.marker = "reresolve" THEN warnings[t] + 1 ELSE warnings[t]
              /\ mem'[p].bound.marker = "reresolve" => Registered(t)
          BY <2>1, <2>6, <3>2 DEF Decides, Marker, TypeOK
        <4>4. Registered(t) => warnings[t] < Budgeted
          BY <1>2, <1>3, <2>6, <4>1, <4>2 DEF Paid, Resolving
        <4>5. Paid(t) /\ Registered(t)' = Registered(t)
          BY <1>2, <2>1 DEF Registered
        <4>6. Paid(t)'
          BY <1>6, <4>1, <4>3, <4>4, <4>5 DEF Paid
        <4>7. Ensured(p)'
          BY <1>12, <4>1 DEF Decided, Emitting
        <4> QED
          BY <4>6, <4>7
      <3>3. CASE ~Rehydrate(p) /\ UNCHANGED warnings /\ pc'[p] # "emit"
        <4>1. UNCHANGED binding /\ (pc[p] \in Decided => pc'[p] \in Decided)
          BY <1>16, <3>3, MatchEffect, LoadBoundEffect, LoadDefaultEffect, CheckEffect, WriteEffect,
             VerifyEffect, RecordEffect DEF Works, MatchBinding, LoadBound, LoadDefault,
             CheckSnapshot, WriteSnapshot, VerifySnapshot, RecordBinding, Moves, Decides, Decided
        <4>2. Paid(t)'
          BY <1>10, <2>1, <3>3, <4>1 DEF Alone
        <4> QED
          BY <1>12, <1>16, <3>3, <4>2, NeverEvent DEF Emitting
      <3>4. CASE ~Rehydrate(p) /\ pc'[p] = "emit"
        <4>1. RecordBinding(p)
          <5>1. ~WriteSnapshot(p)
            BY <1>1, <3>4, WriteEffect DEF Moves, FaultKinds
          <5>2. VerifySnapshot(p) => Intact(mem[p].bound.profile) /\ mem[p].bound.profile # NoProfile
            BY <1>3, VerifyEffect DEF Marked, Decided
          <5>3. ~VerifySnapshot(p)
            BY <3>4, <5>2, VerifyEffect DEF Moves, Intact
          <5> QED
            BY <1>16, <3>4, <5>1, <5>3, MatchEffect, LoadBoundEffect, LoadDefaultEffect, CheckEffect
               DEF Works, Moves, Decides
        <4>2. /\ binding'[t] = mem[p].bound /\ UNCHANGED <<mem, warnings, snapshots>>
          BY <1>1, <2>1, <2>6, <4>1, RecordEffect DEF RecordBinding, TypeOK, FaultKinds
        <4>3. /\ mem[p].bound.marker = Marker(t, mem[p].bound) /\ mem[p].bound # NoEntry
              /\ Intact(mem[p].bound.profile)
              /\ mem[p].bound.profile \in Profiles \cup {NoProfile}
          <5>1. mem[p].bound.marker = Marker(t, mem[p].bound) /\ Intact(mem[p].bound.profile)
            BY <1>1, <1>3, <2>6, <4>1, RecordEffect DEF Marked, Decided, Spared, FaultKinds
          <5> QED
            BY <5>1, MarkerType, MemoryFields DEF NoEntry, TypeOK
        <4>4. Rebuilds(mem[p].bound, release)'
          BY <1>5, <4>2, <4>3 DEF Rebuilds, Ready, Intact
        <4>5. Registered(t) => Governs(t, binding[t], release)'
          BY <2>1, <4>2, <4>3, <4>4 DEF Governs, Rebuilds, Marker, Registered, Registration, Agrees
        <4>6. Paid(t)'
          BY <1>2, <1>6, <2>1, <4>2, <4>5 DEF Paid, Registered
        <4>7. Ensured(p)'
          BY <2>1, <2>6, <4>2, <4>4 DEF Ensured
        <4> QED
          BY <4>6, <4>7
      <3> QED
        BY <1>16, <3>1, <3>2, <3>3, <3>4, LoadBoundEffect, LoadDefaultEffect DEF Works, MatchBinding,
           CheckSnapshot, WriteSnapshot, VerifySnapshot, RecordBinding
    <2> QED
      BY <2>1, <2>3, <2>5, <2>6
  <1>17. CASE Outside
    <2>1. UNCHANGED <<pc, mem, trace, warnings>>
      BY <1>17, OutsideFrame
    <2>2. CASE UNCHANGED binding
      BY <1>10, <1>11, <2>1, <2>2 DEF Untouched
    <2>3. CASE Fault("lose")
      <3>1. Budgeted' > Budgeted
        BY <2>3, Costs
      <3> QED
        BY <1>2, <1>6, <1>12, <2>1, <3>1 DEF Paid, Registered
    <2> QED
      BY <1>17, <2>2, <2>3 DEF Outside, Edit, Upgrade, LoseSidecar, Damage, vars
  <1> QED
    BY <1>13, <1>14, <1>15, <1>16, <1>17, StepCases

-----------------------------------------------------------------------------
(***************************************************************************)
(* The inductive invariant, and what follows from it.                      *)
(***************************************************************************)
IInv ==
  /\ TypeOK /\ Exclusive /\ Releases /\ Marked /\ IntactInv /\ NotGoverned
  /\ StickyInv /\ Steady /\ ToldInv /\ WarnInv

LEMMA Initially == Init => IInv
  <1> SUFFICES ASSUME Init PROVE IInv
    OBVIOUS
  <1>1. TypeOK
    BY BindingAssumption, NoEntryType DEF Init, TypeOK, Blank, States
  <1>2. \A p \in Procs : pc[p] = "idle" /\ mem[p] = Blank
    BY DEF Init
  <1>3. \A s \in Sessions : trace[s] = <<>> /\ binding[s] = NoEntry /\ warnings[s] = 0
    BY DEF Init
  <1>4. release = "old" /\ Budgeted = 0
    BY DEF Init, FaultKinds, Budgeted
  <1>5. NoEntry.profile = NoProfile /\ NoEntry.marker = "absent" /\ Blank.release = "old"
    BY DEF NoEntry, Blank
  <1>6. Exclusive /\ Releases /\ Marked
    BY <1>2, <1>4, <1>5 DEF Exclusive, Releases, Marked, Holds, Decided
  <1>7. IntactInv /\ NotGoverned
    BY <1>2, <1>3, <1>5 DEF IntactInv, NotGoverned, Intact, Resolving, Decided
  <1>8. StickyInv
    BY <1>2, <1>3 DEF StickyInv, Bonded, AtEase, Registered, Resolving, Decided, Emitting
  <1>9. Steady
    BY <1>2, <1>3 DEF Steady, SteadySession, SteadyProcess, Decided, Emitting
  <1>10. ToldInv
    <2>1. \A s \in Sessions : StrayIn(trace[s]) = {}
      BY <1>3 DEF StrayIn
    <2>2. Cardinality({}) = 0 /\ faults["read"] = 0
      BY FS_EmptySet DEF Init, FaultKinds
    <2>3. \A s \in Sessions : ToldSession(s)
      <3> SUFFICES ASSUME NEW s \in Sessions PROVE ToldSession(s)
        OBVIOUS
      <3>1. binding[s].marker = "absent" /\ Silent(s) = 0
        BY <1>3, <1>5, <2>1, <2>2 DEF Silent
      <3>2. Silent(s) <= faults["read"]
        BY <2>2, <3>1
      <3> QED
        BY <3>1, <3>2 DEF ToldSession
    <2>4. \A p \in Procs : ToldProcess(p)
      BY <1>2 DEF ToldProcess, Underway, Decided, Emitting
    <2> QED
      BY <2>3, <2>4 DEF ToldInv
  <1>11. WarnInv
    BY <1>2, <1>3, <1>4 DEF WarnInv, Paid, Ensured, Registered, Decided, Emitting
  <1> QED
    BY <1>1, <1>6, <1>7, <1>8, <1>9, <1>10, <1>11 DEF IInv

LEMMA Inductive == IInv /\ [Next]_vars => IInv'
  BY TypeStep, ExclusiveStep, ReleasesStep, MarkedStep, IntactStep, NotGovernedStep, StickyStep,
     SteadyStep, ToldStep, WarnStep DEF IInv

LEMMA Invariant == Spec => []IInv
  BY Initially, Inductive, PTL DEF Spec

(***************************************************************************)
(* However the configuration is edited and whoever is killed, a session    *)
(* stays under the profile it was registered with, whose snapshot is       *)
(* intact, until the faults StaysBound names                               *)
(* (_establish_or_rehydrate_binding, ensure_profile_snapshot).             *)
(***************************************************************************)
THEOREM Stays == Spec => []StaysBound
  <1>1. ASSUME IInv, Spared(FaultKinds \ {"crash"}), NEW s \in Sessions, NEW i \in DOMAIN trace[s]
        PROVE  ~Strays(s, i)
    <2>1. Registered(s)
      BY <1>1 DEF IInv, TypeOK, Registered
    <2> QED
      BY <1>1, <2>1 DEF IInv, StickyInv, Bonded
  <1>2. IInv => StaysBound
    BY <1>1 DEF IInv, StaysBound, Sticky, BoundIsIntact, IntactInv, Intact
  <1> QED
    BY <1>2, Invariant, PTL

(***************************************************************************)
(* With every fault allowed, no event comes under another profile than its *)
(* session's registration without an edit or an upgrade; before the        *)
(* session is warned of, no more events do than reads of the trace failed  *)
(* (_recover_binding); and a lost sidecar or a kill costs one warning.     *)
(***************************************************************************)
THEOREM Tells == Spec => []ChangesAreTold
  <1>1. ASSUME IInv, NEW s \in Sessions, NEW i \in DOMAIN trace[s], Strays(s, i)
        PROVE  edits > 0 \/ release = "new"
    <2>1. edits \in Nat /\ release \in {"old", "new"} /\ trace[s] \in Seq(Line)
      BY <1>1, BindingAssumption DEF IInv, TypeOK
    <2>2. Registration(s) = trace[s][1] /\ 1 \in DOMAIN trace[s]
      BY <1>1, <2>1 DEF Registration
    <2>3. ~(edits = 0 /\ release = "old")
      BY <1>1, <2>2 DEF IInv, Steady, SteadySession, Strays
    <2> QED
      BY <2>1, <2>3
  <1>2. ASSUME IInv, NEW s \in Sessions, warnings[s] = 0
        PROVE  Cardinality(StrayEvents(s)) <= faults["read"]
    <2>1. StrayEvents(s) = StrayIn(trace[s])
      BY DEF StrayEvents, StrayIn, Strays, Registration
    <2> QED
      BY <1>2, <2>1 DEF IInv, ToldInv, ToldSession, Silent
  <1>3. IInv => NeverSilent
    BY <1>1, <1>2 DEF NeverSilent
  <1>4. IInv => WarnedOnce
    BY DEF IInv, WarnInv, Paid, Budgeted, WarnedOnce
  <1> QED
    BY <1>3, <1>4, Invariant, PTL DEF ChangesAreTold

(***************************************************************************)
(* While profiles stay rebuildable, no step replaces a binding that        *)
(* governs, however many processes of the session wait (sink_lock).        *)
(***************************************************************************)
THEOREM Keeps == Spec => KeepsGoverning
  <1>1. ASSUME IInv, [Next]_vars, NEW s \in Sessions,
               Spared({"damage", "short", "upgrade"}), Governs(s, binding[s], release)
        PROVE  binding'[s] \in {binding[s], NoEntry}
    <2>1. ASSUME NEW p \in Procs, RecordBinding(p)
          PROVE  binding'[s] = binding[s]
      <3>1. mem[p].sess # s
        BY <1>1, <2>1, RecordEffect DEF IInv, NotGoverned, Resolving, Decided
      <3> QED
        BY <1>1, <2>1, <3>1 DEF RecordBinding, IInv, TypeOK
    <2>2. ASSUME NEW k \in Sinks, LoseSidecar(k)
          PROVE  binding'[s] \in {binding[s], NoEntry}
      BY <1>1, <2>2 DEF LoseSidecar
    <2>3. \/ UNCHANGED binding \/ \E p \in Procs : RecordBinding(p)
          \/ \E k \in Sinks : LoseSidecar(k)
      BY <1>1 DEF Next, Launch, Acquire, Rehydrate, MatchBinding, LoadBound, LoadDefault,
         CheckSnapshot, WriteSnapshot, VerifySnapshot, Register, EmitEvent, Crash, Edit, Upgrade,
         Damage, vars
    <2> QED
      BY <2>1, <2>2, <2>3
  <1>2. IInv /\ [Next]_vars =>
          [\A s \in Sessions :
             Spared({"damage", "short", "upgrade"}) /\ Governs(s, binding[s], release)
               => binding'[s] \in {binding[s], NoEntry}]_vars
    BY <1>1
  <1> QED
    BY <1>2, Invariant, PTL DEF Spec, KeepsGoverning
=============================================================================
