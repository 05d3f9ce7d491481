-------------------------- MODULE GovernedRunProofs --------------------------
(***************************************************************************)
(* Theorems about GovernedRun, for any number of runs, through any of the  *)
(* three integrations, with any tool calls, declarations and profiles, and *)
(* any number of steps.                                                    *)
(*                                                                         *)
(* Each of the properties says of every event that it was judged by what   *)
(* its own session had said before.  GoodAt is that, of one event; an      *)
(* event that has been built stays good (Frame), so the work is in the new *)
(* ones.  The code does not look at the history: it looks at a cache entry *)
(* and a failure counter.  Base, Past and Counts say what these must tell  *)
(* of the history, Knows puts the first two together, and the inductive    *)
(* invariant IInv says that of every open run they do (OpenKnown).  From   *)
(* what is known each kind of event is judged and what is known goes on    *)
(* (OpensStep, ScopeStep, ContextStep, PlainKnows); events of other        *)
(* sessions change nothing of it (OthersKnow).  A hook has no memory: it   *)
(* is a process of which there are no events (HookFresh), and what it      *)
(* reads back from the trace is what the others keep (ReadsBack).          *)
(***************************************************************************)
EXTENDS GovernedRun, SequenceTheorems, FiniteSetTheorems, WellFoundedInduction, TLAPS

-----------------------------------------------------------------------------
(***************************************************************************)
(* The least and the greatest of a set of numbers.                         *)
(***************************************************************************)
Less == {r \in Nat \X Nat : r[1] < r[2]}

LEMMA Least ==
  ASSUME NEW T \in SUBSET Nat, T # {}
  PROVE  \E i \in T : \A j \in T : i <= j
  <1>1. OpToRel(<, Nat) = Less
    BY DEF OpToRel, Less
  <1>2. IsWellFoundedOn(Less, Nat)
    BY <1>1, NatLessThanWellFounded
  <1>3. PICK i \in T : \A j \in T : <<j, i>> \notin Less
    BY <1>2, WFMin
  <1>4. ASSUME NEW j \in T PROVE i <= j
    <2>1. i \in Nat /\ j \in Nat
      OBVIOUS
    <2>2. ~(j < i)
      BY <1>3, <2>1 DEF Less
    <2> QED
      BY <2>1, <2>2
  <1> QED
    BY <1>4

LEMMA MinIn ==
  ASSUME NEW T \in SUBSET Nat, T # {}
  PROVE  Min(T) \in T /\ \A j \in T : Min(T) <= j
  BY Least DEF Min

LEMMA MaxIn ==
  ASSUME NEW m \in Nat, NEW s \in SUBSET (1..m), s # {}
  PROVE  Max(s) \in s /\ \A j \in s : j <= Max(s)
  <1> DEFINE T == {m - i : i \in s}
  <1>1. T \in SUBSET Nat /\ T # {}
    <2>1. \A i \in s : m - i \in Nat
      OBVIOUS
    <2> QED
      BY <2>1
  <1>2. PICK a \in T : \A b \in T : a <= b
    BY <1>1, Least
  <1>3. PICK i \in s : a = m - i
    BY <1>2
  <1>4. \A j \in s : j \in Nat /\ j <= i
    <2>1. ASSUME NEW j \in s PROVE j \in Nat /\ j <= i
      <3>1. m - j \in T /\ j \in 1..m /\ i \in 1..m
        BY <1>3
      <3>2. m - i <= m - j
        BY <1>2, <1>3, <3>1
      <3> QED
        BY <3>1, <3>2
    <2> QED
      BY <2>1
  <1>5. i \in s /\ \A j \in s : i >= j
    BY <1>3, <1>4
  <1>6. \A k \in s : (\A j \in s : k >= j) => k = i
    BY <1>4, <1>5
  <1>7. Max(s) = i
    BY <1>5, <1>6 DEF Max
  <1> QED
    BY <1>4, <1>7

\* What was just appended is the latest.
LEMMA MaxNew ==
  ASSUME NEW n \in Nat, NEW T \in SUBSET (1..n)
  PROVE  Max(T \cup {n + 1}) = n + 1
  <1> DEFINE S == T \cup {n + 1}
  <1>0. n + 1 \in Nat
    OBVIOUS
  <1>1. S \in SUBSET (1..(n + 1)) /\ S # {} /\ n + 1 \in S
    OBVIOUS
  <1>2. Max(S) \in S /\ n + 1 <= Max(S)
    <2> HIDE DEF S
    <2> QED
      BY <1>0, <1>1, MaxIn
  <1>3. Max(S) \in 1..(n + 1)
    BY <1>1, <1>2
  <1> QED
    BY <1>2, <1>3

-----------------------------------------------------------------------------
(***************************************************************************)
(* Types.                                                                  *)
(***************************************************************************)
SomeCalls == ToolCalls([domain : Domains, action : Actions, destructive : STRING])

EventTypes ==
  {"AGENT_REGISTERED", "INTENT_DECLARED", "SCOPE_ASSERTED", "CONTEXT_SNAPSHOT",
   "MEMORY_WRITE_ATTEMPT", "TURN", "GOVERNANCE_ERROR"}

Flags ==
  {"AGENT_UNREGISTERED", "INTENT_MISSING", "SCOPE_OPERATION_UNEXPECTED", "SCOPE_INTENT_MISMATCH",
   "TASK_BOUNDARY_CROSSED", "HIGH_CONSEQUENCE_DETECTED", "CONTEXT_UNCLASSIFIED",
   "SENSITIVITY_ESCALATION", "MEMORY_WRITE_CANDIDATE", "MEMORY_WRITE_UNCLASSIFIED"}

Policies == {"POL-001", "POL-002", "POL-003", "POL-004", "POL-005"}

EventRecords ==
  [run : Runs, type : EventTypes, flags : SUBSET Flags, violations : SUBSET Policies, process : Nat,
   op : Operations \cup {"none"}, target : Targets \cup {NoPrior}, call : SomeCalls \cup {NoPrior},
   objective : BOOLEAN, hints : SUBSET Hints, explicit : BOOLEAN, classes : SUBSET STRING,
   at : Nat, fate : {"none", "stdout", "written", "lost"},
   severity : {"none", "warning", "degraded"}]

LEMMA MaxTierType ==
  ASSUME NEW classes
  PROVE  MaxTier(classes) \in Nat
  <1> DEFINE T == {0} \cup {k \in DOMAIN SensitivityTiers : SensitivityTiers[k] \in classes}
  <1>1. DOMAIN SensitivityTiers = 1..5
    BY DEF SensitivityTiers
  <1>2. CASE T = {0}
    <2>1. Max({0}) = 0
      BY DEF Max
    <2> QED
      BY <1>2, <2>1 DEF MaxTier
  <1>3. CASE T # {0}
    <2> DEFINE R == T \ {0}
    <2>1. R \in SUBSET (1..5) /\ R # {}
      BY <1>1, <1>3
    <2>2. Max(R) \in R /\ \A j \in R : j <= Max(R)
      <3> HIDE DEF R
      <3> QED
        BY <2>1, MaxIn
    <2>3. T = R \cup {0} /\ R \subseteq 1..5
      BY <2>1
    <2>4. \E x \in T : \A y \in T : x >= y
      <3>1. \A y \in T : Max(R) >= y
        BY <2>2, <2>3
      <3> QED
        BY <2>2, <2>3, <3>1
    <2>5. Max(T) \in T
      BY <2>4 DEF Max
    <2> QED
      BY <1>1, <2>5 DEF MaxTier
  <1> QED
    BY <1>2, <1>3

LEMMA DirType ==
  ASSUME NEW t \in Targets, NEW depth \in Nat \ {0}
  PROVE  /\ ExtractDir(t, depth) \in Seq(STRING) \cup {<<"shell">>, NoPrior}
         /\ ExtractFileExt(t) \in STRING \cup {NoPrior}
  <1>1. t.parts \in Seq(STRING) /\ (t.ext => t.parts # <<>>)
    BY DEF Targets
  <1>2. Len(t.parts) \in Nat /\ \A k \in 1..Len(t.parts) : t.parts[k] \in STRING
    BY <1>1, ElementOfSeq, LenProperties
  <1>3. t.parts # <<>> => Len(t.parts) >= 1
    BY <1>1, <1>2, EmptySeq
  <1> DEFINE m == IF depth < Len(t.parts) THEN depth ELSE Len(t.parts)
  <1>4. m \in Nat /\ m <= Len(t.parts)
    BY <1>2
  <1>5. SubSeq(t.parts, 1, m) \in Seq(STRING)
    <2>1. \A k \in 1..m : t.parts[k] \in STRING
      BY <1>2, <1>4
    <2> QED
      BY <1>4, <2>1, SubSeqProperties
  <1>7. t.ext => t.parts[Len(t.parts)] \in STRING
    BY <1>1, <1>2, <1>3
  <1> QED
    BY <1>5, <1>7 DEF ExtractDir, ExtractFileExt, Last

LEMMA ViewDepth ==
  ASSUME NEW p \in ProfileFiles
  PROVE  View(Merge(p)).depth \in Nat \ {0}
  <1> DEFINE b == Merge(p).boundary
  <1>1. p.boundary \in [kind : {"mapping"}, signals : Lists(STRING), gap : Numbers, depth : Numbers,
                        onMatch : STRING] \cup Opaque
    BY DEF ProfileFiles
  <1>2. b = MergedBoundary(p.boundary)
    BY DEF Merge
  <1>3. View(Merge(p)).depth =
          IF b.kind = "mapping" THEN CheckedNumber(b.depth, TRUE, 1, 2) ELSE 2
    BY DEF View
  <1>4. CASE p.boundary.kind = "missing"
    BY <1>2, <1>3, <1>4 DEF MergedBoundary, Defaults, CheckedNumber
  <1>5. CASE p.boundary.kind = "mapping"
    <2>1. p.boundary \in [kind : {"mapping"}, signals : Lists(STRING), gap : Numbers, depth : Numbers,
                        onMatch : STRING]
      BY <1>1, <1>5 DEF Opaque
    <2>2. b.depth = Supplied(p.boundary.depth, Defaults.boundary.depth)
      BY <1>2, <1>5, <2>1 DEF MergedBoundary
    <2>3. b.depth.kind = "int" => b.depth.n \in Int
      BY <2>1, <2>2 DEF Supplied, Defaults, Numbers, Opaque
    <2> QED
      BY <1>3, <2>3 DEF CheckedNumber
  <1>6. CASE p.boundary.kind # "missing" /\ p.boundary.kind # "mapping"
    <2>1. b = p.boundary
      BY <1>2, <1>6 DEF MergedBoundary
    <2>2. b.kind # "mapping"
      BY <1>6, <2>1
    <2>3. View(Merge(p)).depth = 2
      BY <1>3, <2>2
    <2> QED
      BY <2>3
  <1> QED
    BY <1>4, <1>5, <1>6

LEMMA CallType ==
  ASSUME NEW c \in SomeCalls, adapter \in {"mcp", "pydantic", "hook"}
  PROVE  /\ Seen(c) \in SomeCalls
         /\ adapter = "hook" => Seen(c).classes = {} /\ Seen(c).explicit = FALSE
  <1> DEFINE plain == [c EXCEPT !.effects = {}]
  <1>1. c.tool \in Targets /\ plain \in SomeCalls /\ plain.tool = c.tool
    BY DEF SomeCalls, ToolCalls
  <1>2. ASSUME NEW d \in SomeCalls
        PROVE  /\ Unclassified(d) \in SomeCalls
               /\ Unclassified(d).classes = {} /\ Unclassified(d).explicit = FALSE
    BY DEF SomeCalls, ToolCalls, Unclassified
  <1>3. ASSUME NEW d \in SomeCalls
        PROVE  [d EXCEPT !.op = "READ", !.target = c.tool] \in SomeCalls
    <2> DEFINE e == [d EXCEPT !.op = "READ"]
    <2>1. e \in SomeCalls
      BY DEF SomeCalls, ToolCalls, Operations
    <2> HIDE DEF e
    <2>2. [e EXCEPT !.target = c.tool] \in SomeCalls
      BY <1>1, <2>1 DEF SomeCalls, ToolCalls
    <2> QED
      BY <2>2 DEF e
  <1>4. CASE adapter = "hook"
    <2>1. Seen(c) = Unclassified(c)
      BY <1>4 DEF Seen
    <2> QED
      BY <1>2, <2>1
  <1>5. CASE adapter # "hook" /\ HasMetadata(c)
    <2>1. Seen(c) = plain
      BY <1>5 DEF Seen
    <2> QED
      BY <1>1, <1>5, <2>1
  <1>6. CASE adapter = "mcp" /\ ~HasMetadata(c)
    <2>1. Seen(c) = Unclassified(plain)
      BY <1>6 DEF Seen
    <2> QED
      BY <1>1, <1>2, <1>6, <2>1
  <1>7. CASE adapter = "pydantic" /\ ~HasMetadata(c)
    <2>1. Seen(c) = [Unclassified(plain) EXCEPT !.op = "READ", !.target = c.tool]
      BY <1>7 DEF Seen
    <2>2. Unclassified(plain) \in SomeCalls
      BY <1>1, <1>2
    <2> QED
      BY <1>3, <1>7, <2>1, <2>2
  <1> QED
    BY <1>4, <1>5, <1>6, <1>7

LEMMA EntryType ==
  ASSUME NEW entry \in Entries
  PROVE  /\ entry # NoEntry
         /\ \A objective \in BOOLEAN, hints \in SUBSET Hints :
              WithBaseline(entry, objective, hints) \in Entries
         /\ \A classes : WithTier(entry, classes) \in Entries
  <1>1. entry # NoEntry
    BY EntryAssumption
  <1>2. ASSUME NEW objective \in BOOLEAN, NEW hints \in SUBSET Hints
        PROVE  WithBaseline(entry, objective, hints) \in Entries
    BY DEF WithBaseline, Entries
  <1>3. ASSUME NEW classes PROVE WithTier(entry, classes) \in Entries
    BY <1>1, MaxTierType DEF WithTier, Entries
  <1> QED
    BY <1>1, <1>2, <1>3

LEMMA NewEntryType == NewEntry \in Entries
  BY DEF NewEntry, Entries

\* What the code finds in a scope, and the entry that follows.
LEMMA ScopeType ==
  ASSUME NEW w, w.depth \in Nat \ {0}, NEW gov \in BOOLEAN, NEW entry \in Entries, NEW call \in SomeCalls,
         NEW now \in Nat
  PROVE  LET found == ScopeFindings(gov, w, entry, call, now)
         IN /\ found.flags \in SUBSET Flags /\ found.violations \in SUBSET Policies
            /\ found.entry \in Entries
            /\ found.entry.set = entry.set /\ found.entry.objective = entry.objective
            /\ found.entry.hints = entry.hints /\ found.entry.tier = entry.tier
  <1> DEFINE base == EvalScope(entry, call)
             found == ScopeFindings(gov, w, entry, call, now)
             applied == ApplyProfile(w, entry, call, now, base)
             marked == IF "POL-001" \in base.violations /\ Remembered(w.demand, call)
                         THEN [entry EXCEPT !.fired = TRUE] ELSE entry
  <1>1. entry # NoEntry
    BY EntryType
  <1>2. base.flags \in SUBSET Flags /\ base.violations \in SUBSET Policies
    BY DEF EvalScope, If, Flags, Policies
  <1>3. marked \in Entries
        /\ marked.set = entry.set /\ marked.objective = entry.objective
        /\ marked.hints = entry.hints /\ marked.tier = entry.tier
    BY DEF Entries
  <1>4. marked # NoEntry
    BY <1>3, EntryType
  <1>5. applied.entry = WithActivity(w, marked, call, now)
    BY <1>1 DEF ApplyProfile
  <1> DEFINE act == [op |-> call.op, at |-> now, dir |-> ExtractDir(call.target, w.depth),
                     ext |-> ExtractFileExt(call.target)]
  <1>6. act \in Activities
    <2>1. call.op \in Operations /\ call.target \in Targets
      BY DEF SomeCalls, ToolCalls
    <2> QED
      BY <2>1, DirType DEF Activities
  <1>7. applied.entry = IF w.signals = {} THEN marked ELSE [marked EXCEPT !.last = act]
    BY <1>4, <1>5 DEF WithActivity
  <1>8. [marked EXCEPT !.last = act] \in Entries
        /\ [marked EXCEPT !.last = act].set = entry.set
        /\ [marked EXCEPT !.last = act].objective = entry.objective
        /\ [marked EXCEPT !.last = act].hints = entry.hints
        /\ [marked EXCEPT !.last = act].tier = entry.tier
    <2> HIDE DEF marked, act
    <2> QED
      BY <1>3, <1>6 DEF Entries
  <1>9. applied.flags \in SUBSET Flags /\ applied.violations \in SUBSET Policies
    BY <1>2 DEF ApplyProfile, If, Flags
  <1>10. found = IF gov THEN applied
                 ELSE [flags |-> base.flags, violations |-> base.violations, entry |-> entry]
    BY DEF ScopeFindings
  <1> HIDE DEF found, applied, base, marked, act
  <1>11. CASE gov
    BY <1>3, <1>7, <1>8, <1>9, <1>10, <1>11 DEF found
  <1>12. CASE ~gov
    BY <1>2, <1>10, <1>12 DEF found
  <1> QED
    BY <1>11, <1>12

LEMMA ContextType ==
  ASSUME NEW entry \in Entries, NEW classes, NEW explicit \in BOOLEAN, NEW authorized \in BOOLEAN
  PROVE  LET found == EvalContext(entry, classes, explicit, authorized)
         IN /\ found.flags \in SUBSET Flags /\ found.violations \in SUBSET Policies
            /\ found.entry \in Entries
            /\ found.entry = [entry EXCEPT !.tier = MaxTier(classes)]
  <1>1. entry # NoEntry /\ WithTier(entry, classes) \in Entries
    BY EntryType
  <1>2. WithTier(entry, classes) = [entry EXCEPT !.tier = MaxTier(classes)]
    BY <1>1 DEF WithTier
  <1> QED
    BY <1>1, <1>2 DEF EvalContext, If, Flags, Policies

-----------------------------------------------------------------------------
(***************************************************************************)
(* The state.                                                              *)
(***************************************************************************)
StateType ==
  /\ adapter \in Adapters /\ profile \in Profiles /\ governed \in BOOLEAN
  /\ shared \in BOOLEAN /\ up \in BOOLEAN
  /\ view = View(Merge(profile))
  /\ phase \in [Runs -> {"idle", "open", "closed", "failed"}]
  /\ manager \in [Runs -> {"none", "active", "closed"}]
  /\ cache \in [Runs -> Entries \cup {NoEntry}]
  /\ flying \in [Runs -> SUBSET [id : Nat, call : SomeCalls]]
  /\ failures \in [Runs -> Nat]
  /\ events \in Seq(EventRecords)
  /\ claims \subseteq Runs /\ critical \subseteq Runs
  /\ spent \in [steps : Nat, others : Nat]
  /\ clock \in Nat /\ clock <= spent.others /\ spent.others <= MaxOthers[adapter]

\* What an integration never does.
Modes ==
  /\ shared => adapter = "hook"
  /\ adapter = "hook" => \A r \in Runs : phase[r] = "idle"
  /\ adapter # "mcp" => claims = {}

LEMMA ViewType ==
  ASSUME StateType
  PROVE  view.depth \in Nat \ {0} /\ adapter \in {"mcp", "pydantic", "hook"}
  BY RunAssumption, ViewDepth DEF StateType

-----------------------------------------------------------------------------
(***************************************************************************)
(* What is built.                                                          *)
(***************************************************************************)
Process == IF adapter = "hook" THEN spent.steps + 1 ELSE 0

LEMMA EventType ==
  ASSUME StateType, NEW r \in Runs, NEW type \in EventTypes, NEW found,
         found.flags \in SUBSET Flags, found.violations \in SUBSET Policies
  PROVE  LET e == Event(r, type, found)
         IN /\ e \in EventRecords
            /\ e.run = r /\ e.type = type /\ e.process = Process /\ ~e.explicit
            /\ e.violations = found.violations /\ e.flags = found.flags /\ e.at = clock
  BY DEF StateType, Event, EventRecords, Process

LEMMA RegistrationType ==
  ASSUME StateType, NEW r \in Runs
  PROVE  LET e == Registration(r)
         IN /\ e \in EventRecords
            /\ e.run = r /\ e.type = "AGENT_REGISTERED" /\ e.process = Process /\ ~e.explicit
  <1> DEFINE found == EvalRegistration(FALSE)
  <1>1. found.flags \in SUBSET Flags /\ found.violations \in SUBSET Policies
    BY DEF EvalRegistration, If
  <1>2. "AGENT_REGISTERED" \in EventTypes
    BY DEF EventTypes
  <1> HIDE DEF found
  <1>3. LET e == Event(r, "AGENT_REGISTERED", found)
        IN /\ e \in EventRecords
           /\ e.run = r /\ e.type = "AGENT_REGISTERED" /\ e.process = Process /\ ~e.explicit
    BY <1>1, <1>2, EventType
  <1> QED
    BY <1>3 DEF found, Registration

LEMMA IntentType ==
  ASSUME StateType, NEW r \in Runs, NEW explicit \in BOOLEAN, NEW objective \in BOOLEAN,
         NEW hints \in SUBSET Hints
  PROVE  LET e == Intent(r, explicit, objective, hints)
         IN /\ e \in EventRecords
            /\ e.run = r /\ e.type = "INTENT_DECLARED" /\ e.process = Process
            /\ e.explicit = explicit /\ e.objective = objective /\ e.hints = hints
  <1> DEFINE b == Event(r, "INTENT_DECLARED", EvalIntent(explicit))
  <1>1. EvalIntent(explicit).flags \in SUBSET Flags
        /\ EvalIntent(explicit).violations \in SUBSET Policies
    BY DEF EvalIntent, If, Flags
  <1>2. "INTENT_DECLARED" \in EventTypes
    BY DEF EventTypes
  <1>3. b \in EventRecords /\ b.run = r /\ b.type = "INTENT_DECLARED" /\ b.process = Process
    BY <1>1, <1>2, EventType
  <1> HIDE DEF b
  <1>4. Intent(r, explicit, objective, hints) =
          [b EXCEPT !.explicit = explicit, !.objective = objective, !.hints = hints]
    BY DEF Intent, b
  <1> QED
    BY <1>3, <1>4 DEF EventRecords

LEMMA ScopeEventType ==
  ASSUME StateType, NEW r \in Runs, NEW call \in SomeCalls, NEW found,
         found.flags \in SUBSET Flags, found.violations \in SUBSET Policies
  PROVE  LET e == Scope(r, call, found)
         IN /\ e \in EventRecords
            /\ e.run = r /\ e.type = "SCOPE_ASSERTED" /\ e.process = Process /\ ~e.explicit
            /\ e.op = call.op /\ e.target = call.target /\ e.call = call /\ e.at = clock
            /\ e.flags = found.flags /\ e.violations = found.violations
  <1> DEFINE b == Event(r, "SCOPE_ASSERTED", found)
  <1>2. "SCOPE_ASSERTED" \in EventTypes
    BY DEF EventTypes
  <1>3. b \in EventRecords /\ b.run = r /\ b.type = "SCOPE_ASSERTED" /\ b.process = Process
        /\ b.flags = found.flags /\ b.violations = found.violations /\ b.at = clock
        /\ ~b.explicit
    BY <1>2, EventType
  <1>4. call.op \in Operations /\ call.target \in Targets
    BY DEF SomeCalls, ToolCalls
  <1> HIDE DEF b
  <1>5. Scope(r, call, found) = [b EXCEPT !.op = call.op, !.target = call.target, !.call = call]
    BY DEF Scope, b
  <1> QED
    BY <1>3, <1>4, <1>5 DEF EventRecords

LEMMA ContextEventType ==
  ASSUME StateType, NEW r \in Runs, NEW call, call.explicit \in BOOLEAN,
         call.classes \in SUBSET STRING, NEW found,
         found.flags \in SUBSET Flags, found.violations \in SUBSET Policies
  PROVE  LET e == Context(r, call, found)
         IN /\ e \in EventRecords
            /\ e.run = r /\ e.type = "CONTEXT_SNAPSHOT" /\ e.process = Process
            /\ e.classes = call.classes
            /\ e.flags = found.flags /\ e.violations = found.violations
  <1> DEFINE b == Event(r, "CONTEXT_SNAPSHOT", found)
  <1>2. "CONTEXT_SNAPSHOT" \in EventTypes
    BY DEF EventTypes
  <1>3. b \in EventRecords /\ b.run = r /\ b.type = "CONTEXT_SNAPSHOT" /\ b.process = Process
        /\ b.flags = found.flags /\ b.violations = found.violations
    BY <1>2, EventType
  <1> HIDE DEF b
  <1>5. Context(r, call, found) = [b EXCEPT !.explicit = call.explicit, !.classes = call.classes]
    BY DEF Context, b
  <1> QED
    BY <1>3, <1>5 DEF EventRecords

LEMMA PlainType ==
  ASSUME StateType, NEW r \in Runs
  PROVE  /\ \A call \in SomeCalls :
              LET e == Memory(r, call) IN
              e \in EventRecords /\ e.run = r /\ e.type = "MEMORY_WRITE_ATTEMPT" /\ e.process = Process
         /\ LET e == TurnEvent(r) IN
            e \in EventRecords /\ e.run = r /\ e.type = "TURN" /\ e.process = Process
         /\ LET e == Error(r) IN
            e \in EventRecords /\ e.run = r /\ e.type = "GOVERNANCE_ERROR" /\ e.process = Process
  <1>1. {"MEMORY_WRITE_ATTEMPT", "TURN", "GOVERNANCE_ERROR"} \subseteq EventTypes
    BY DEF EventTypes
  <1>2. ASSUME NEW c, NEW k
        PROVE  EvalMemory(c, k).flags \in SUBSET Flags /\ EvalMemory(c, k).violations \in SUBSET Policies
    BY DEF EvalMemory, If, Flags, Policies
  <1>3. ASSUME NEW type \in {"TURN", "GOVERNANCE_ERROR"}
        PROVE  LET e == Event(r, type, [flags |-> {}, violations |-> {}]) IN
               e \in EventRecords /\ e.run = r /\ e.type = type /\ e.process = Process
    <2> DEFINE none == [flags |-> {}, violations |-> {}]
    <2>1. none.flags \in SUBSET Flags /\ none.violations \in SUBSET Policies
      OBVIOUS
    <2> HIDE DEF none
    <2>2. LET e == Event(r, type, none) IN
          e \in EventRecords /\ e.run = r /\ e.type = type /\ e.process = Process
      BY <1>1, <2>1, EventType
    <2> QED
      BY <2>2 DEF none
  <1>4. ASSUME NEW call \in SomeCalls
        PROVE  LET e == Memory(r, call) IN
               e \in EventRecords /\ e.run = r /\ e.type = "MEMORY_WRITE_ATTEMPT" /\ e.process = Process
    <2> DEFINE found == EvalMemory(call.explicit, call.explicit /\ call.retained)
    <2>1. found.flags \in SUBSET Flags /\ found.violations \in SUBSET Policies
      BY <1>2
    <2> HIDE DEF found
    <2>2. LET e == Event(r, "MEMORY_WRITE_ATTEMPT", found) IN
          e \in EventRecords /\ e.run = r /\ e.type = "MEMORY_WRITE_ATTEMPT" /\ e.process = Process
      BY <1>1, <2>1, EventType
    <2> QED
      BY <2>2 DEF found, Memory
  <1> QED
    BY <1>3, <1>4 DEF TurnEvent, Error

-----------------------------------------------------------------------------
(***************************************************************************)
(* What a history says.  h is a history, n how much of it has happened; r  *)
(* is a run, p a process.                                                  *)
(***************************************************************************)
Of(h, n, r, p) == {j \in 1..n : h[j].run = r /\ h[j].process = p}
OfType(h, n, r, p, type) == {j \in Of(h, n, r, p) : h[j].type = type}

Heard(h, n, r, sh) ==
  {j \in 1..n : /\ sh \/ h[j].run = r
                /\ h[j].type = "INTENT_DECLARED" /\ h[j].explicit /\ h[j].fate = "written"}

BasisOf(h, n, r, p, sh) ==
  LET here     == OfType(h, n, r, p, "INTENT_DECLARED")
      declared == IF here # {} THEN here ELSE Heard(h, n, r, sh)
  IN IF declared = {} THEN Nothing ELSE h[Min(declared)]

AccusedAt(h, i, sh, gov, w) ==
  LET b == BasisOf(h, i - 1, h[i].run, h[i].process, sh)
      earlier == \E j \in OfType(h, i - 1, h[i].run, h[i].process, "SCOPE_ASSERTED") :
                   h[j].op \in Mutating /\ "POL-001" \in h[j].violations
      outside == \/ h[i].op \in Mutating /\ ~b.objective
                 \/ \A t \in b.hints : h[i].target \notin Covers[t]
      tolerated == /\ gov
                   /\ \/ w.demand = "never"
                      \/ w.demand = "first_write" /\ h[i].op \in Mutating /\ earlier
  IN h[i].type = "SCOPE_ASSERTED" =>
       (("POL-001" \in h[i].violations) <=> outside /\ ~tolerated)

LastOf(e, w) ==
  [op |-> e.op, at |-> e.at, dir |-> ExtractDir(e.target, w.depth),
   ext |-> ExtractFileExt(e.target)]

BoundaryAt(h, i, gov, w) ==
  LET before == OfType(h, i - 1, h[i].run, h[i].process, "SCOPE_ASSERTED")
  IN h[i].type = "SCOPE_ASSERTED" =>
       (("TASK_BOUNDARY_CROSSED" \in h[i].flags) <=>
          gov /\ before # {} /\ Crosses(w, LastOf(h[Max(before)], w), h[i].call, h[i].at))

RuledAt(h, i, gov, w) ==
  h[i].type = "SCOPE_ASSERTED" =>
    /\ h[i].call \in SomeCalls
    /\ ("HIGH_CONSEQUENCE_DETECTED" \in h[i].flags) <=> gov /\ HighConsequence(w, h[i].call)

EscalationAt(h, i, cl) ==
  LET before == OfType(h, i - 1, h[i].run, h[i].process, "CONTEXT_SNAPSHOT")
      rises  == before # {} /\ MaxTier(h[Max(before)].classes) < MaxTier(h[i].classes)
  IN h[i].type = "CONTEXT_SNAPSHOT" =>
       /\ ("SENSITIVITY_ESCALATION" \in h[i].flags) <=> rises
       /\ ("POL-005" \in h[i].violations) <=> rises /\ h[i].run \notin cl

Sinking(h, n, r, p) == {j \in Of(h, n, r, p) : h[j].fate # "stdout"}
LastLost(h, S) == \E b \in S : h[b].fate = "lost" /\ \A j \in S : j <= b
TwoLost(h, S) ==
  \E a, b \in S : a < b /\ (\A j \in S : j > a => j = b) /\ h[a].fate = "lost" /\ h[b].fate = "lost"

SeverityAt(h, i) ==
  h[i].fate = "lost" =>
    ((h[i].severity = "degraded") <=> TwoLost(h, Sinking(h, i - 1, h[i].run, h[i].process)))

GoodAt(h, i, sh, gov, w, cl) ==
  /\ AccusedAt(h, i, sh, gov, w) /\ BoundaryAt(h, i, gov, w) /\ RuledAt(h, i, gov, w)
  /\ EscalationAt(h, i, cl) /\ SeverityAt(h, i)

(***************************************************************************)
(* What a cache entry and a failure counter must say of the history: the   *)
(* session's declaration (Base), its last events (Past), its losses.       *)
(***************************************************************************)
Base(h, n, r, p, sh, entry) ==
  LET b == BasisOf(h, n, r, p, sh)
  IN /\ entry.objective = b.objective /\ entry.hints = b.hints
     /\ ~entry.set => ~b.objective /\ b.hints = {}

Past(h, n, r, p, gov, w, entry) ==
  LET scopes == OfType(h, n, r, p, "SCOPE_ASSERTED")
      contexts == OfType(h, n, r, p, "CONTEXT_SNAPSHOT")
  IN /\ gov /\ w.demand = "first_write" =>
          (entry.fired <=> \E j \in scopes : h[j].op \in Mutating /\ "POL-001" \in h[j].violations)
     /\ gov /\ w.signals # {} =>
          entry.last = IF scopes = {} THEN NoPrior ELSE LastOf(h[Max(scopes)], w)
     /\ entry.tier = IF contexts = {} THEN NoPrior ELSE MaxTier(h[Max(contexts)].classes)

Counts(h, n, r, p, c) ==
  /\ c >= 1 <=> LastLost(h, Sinking(h, n, r, p))
  /\ c >= 2 <=> TwoLost(h, Sinking(h, n, r, p))

\* Histories that agree so far say the same.
LEMMA SameOf ==
  ASSUME NEW h, NEW g, NEW n \in Nat, \A j \in 1..n : h[j] = g[j], NEW m \in Int, m <= n,
         NEW r, NEW p, NEW type
  PROVE  /\ OfType(h, m, r, p, type) = OfType(g, m, r, p, type)
         /\ OfType(h, m, r, p, type) \in SUBSET (1..n)
  <1>1. \A j \in 1..m : j \in 1..n /\ h[j] = g[j]
    OBVIOUS
  <1> QED
    BY <1>1 DEF Of, OfType, Heard, Sinking

LEMMA SameHeard ==
  ASSUME NEW h, NEW g, NEW n \in Nat, \A j \in 1..n : h[j] = g[j], NEW m \in Int, m <= n,
         NEW r, NEW sh \in BOOLEAN
  PROVE  /\ Heard(h, m, r, sh) = Heard(g, m, r, sh)
         /\ Heard(h, m, r, sh) \in SUBSET (1..n)
  <1>1. \A j \in 1..m : j \in 1..n /\ h[j] = g[j]
    OBVIOUS
  <1> QED
    BY <1>1 DEF Of, OfType, Heard, Sinking

LEMMA SameSinking ==
  ASSUME NEW h, NEW g, NEW n \in Nat, \A j \in 1..n : h[j] = g[j], NEW m \in Int, m <= n,
         NEW r, NEW p
  PROVE  /\ Sinking(h, m, r, p) = Sinking(g, m, r, p)
         /\ Sinking(h, m, r, p) \in SUBSET (1..n)
  <1>1. \A j \in 1..m : j \in 1..n /\ h[j] = g[j]
    OBVIOUS
  <1> QED
    BY <1>1 DEF Of, OfType, Heard, Sinking

LEMMA SameBasis ==
  ASSUME NEW h, NEW g, NEW n \in Nat, \A j \in 1..n : h[j] = g[j], NEW m \in Int, m <= n,
         NEW r, NEW p, NEW sh \in BOOLEAN
  PROVE  BasisOf(h, m, r, p, sh) = BasisOf(g, m, r, p, sh)
  <1> DEFINE here == OfType(h, m, r, p, "INTENT_DECLARED")
             declared == IF here # {} THEN here ELSE Heard(h, m, r, sh)
  <1>1. here = OfType(g, m, r, p, "INTENT_DECLARED") /\ Heard(h, m, r, sh) = Heard(g, m, r, sh)
        /\ here \in SUBSET (1..n) /\ Heard(h, m, r, sh) \in SUBSET (1..n)
    <2> DEFINE type == "INTENT_DECLARED"
    <2> HIDE DEF type
    <2>1. /\ OfType(h, m, r, p, type) = OfType(g, m, r, p, type)
          /\ OfType(h, m, r, p, type) \in SUBSET (1..n)
      BY SameOf
    <2>2. /\ Heard(h, m, r, sh) = Heard(g, m, r, sh)
          /\ Heard(h, m, r, sh) \in SUBSET (1..n)
      BY SameHeard
    <2> QED
      BY <2>1, <2>2 DEF type
  <1>2. declared # {} => Min(declared) \in 1..n
    <2>1. declared \in SUBSET (1..n) /\ declared \in SUBSET Nat
      BY <1>1
    <2> HIDE DEF declared
    <2> QED
      BY <2>1, MinIn
  <1>3. BasisOf(h, m, r, p, sh) = IF declared = {} THEN Nothing ELSE h[Min(declared)]
    BY DEF BasisOf
  <1>4. BasisOf(g, m, r, p, sh) = IF declared = {} THEN Nothing ELSE g[Min(declared)]
    BY <1>1 DEF BasisOf
  <1> HIDE DEF declared
  <1> QED
    BY <1>2, <1>3, <1>4

LEMMA SameType ==
  ASSUME NEW h, NEW g, NEW n \in Nat, \A j \in 1..n : h[j] = g[j], NEW m \in Int, m <= n,
         NEW r, NEW p, NEW type
  PROVE  /\ OfType(h, m, r, p, type) = OfType(g, m, r, p, type)
         /\ \A j \in OfType(h, m, r, p, type) : h[j] = g[j]
         /\ OfType(h, m, r, p, type) # {} =>
              h[Max(OfType(h, m, r, p, type))] = g[Max(OfType(h, m, r, p, type))]
  <1> DEFINE T == OfType(h, m, r, p, type)
  <1>1. T = OfType(g, m, r, p, type) /\ T \in SUBSET (1..n)
    BY SameOf
  <1>2. T # {} => Max(T) \in T
    <2> HIDE DEF T
    <2> QED
      BY <1>1, MaxIn
  <1> HIDE DEF T
  <1>3. T # {} => h[Max(T)] = g[Max(T)]
    BY <1>1, <1>2
  <1> QED
    BY <1>1, <1>3 DEF T

LEMMA Frame ==
  ASSUME NEW h, NEW g, NEW i \in Nat, i >= 1, \A j \in 1..i : h[j] = g[j],
         NEW sh \in BOOLEAN, NEW gov \in BOOLEAN, NEW w, NEW cl, GoodAt(h, i, sh, gov, w, cl)
  PROVE  GoodAt(g, i, sh, gov, w, cl)
  <1> DEFINE r == h[i].run  p == h[i].process
  <1>1. h[i] = g[i] /\ i - 1 \in Int /\ i - 1 <= i
    OBVIOUS
  <1>2. BasisOf(h, i - 1, r, p, sh) = BasisOf(g, i - 1, r, p, sh)
    BY <1>1, SameBasis
  <1>3. ASSUME NEW type
        PROVE  LET T == OfType(h, i - 1, r, p, type)
               IN /\ T = OfType(g, i - 1, r, p, type)
                  /\ \A j \in T : h[j] = g[j]
                  /\ T # {} => h[Max(T)] = g[Max(T)]
    BY <1>1, SameType
  <1>4. /\ OfType(h, i - 1, r, p, "SCOPE_ASSERTED") = OfType(g, i - 1, r, p, "SCOPE_ASSERTED")
        /\ \A j \in OfType(h, i - 1, r, p, "SCOPE_ASSERTED") : h[j] = g[j]
        /\ OfType(h, i - 1, r, p, "SCOPE_ASSERTED") # {} =>
             h[Max(OfType(h, i - 1, r, p, "SCOPE_ASSERTED"))]
               = g[Max(OfType(h, i - 1, r, p, "SCOPE_ASSERTED"))]
    BY <1>3
  <1>5. /\ OfType(h, i - 1, r, p, "CONTEXT_SNAPSHOT") = OfType(g, i - 1, r, p, "CONTEXT_SNAPSHOT")
        /\ OfType(h, i - 1, r, p, "CONTEXT_SNAPSHOT") # {} =>
             h[Max(OfType(h, i - 1, r, p, "CONTEXT_SNAPSHOT"))]
               = g[Max(OfType(h, i - 1, r, p, "CONTEXT_SNAPSHOT"))]
    BY <1>3
  <1>6. /\ Sinking(h, i - 1, r, p) = Sinking(g, i - 1, r, p)
        /\ \A j \in Sinking(h, i - 1, r, p) : h[j] = g[j]
    BY <1>1, SameSinking
  <1>7. AccusedAt(g, i, sh, gov, w)
    BY <1>1, <1>2, <1>4 DEF GoodAt, AccusedAt
  <1>8. BoundaryAt(g, i, gov, w) /\ RuledAt(g, i, gov, w)
    BY <1>1, <1>4 DEF GoodAt, BoundaryAt, RuledAt
  <1>9. EscalationAt(g, i, cl)
    BY <1>1, <1>5 DEF GoodAt, EscalationAt
  <1>10. SeverityAt(g, i)
    BY <1>1, <1>6 DEF GoodAt, SeverityAt, TwoLost
  <1> QED
    BY <1>7, <1>8, <1>9, <1>10 DEF GoodAt

LEMMA BaseFrame ==
  ASSUME NEW h, NEW g, NEW n \in Nat, \A j \in 1..n : h[j] = g[j],
         NEW r, NEW p, NEW sh \in BOOLEAN, NEW entry, Base(h, n, r, p, sh, entry)
  PROVE  Base(g, n, r, p, sh, entry)
  <1>1. n \in Int /\ n <= n
    OBVIOUS
  <1>2. BasisOf(h, n, r, p, sh) = BasisOf(g, n, r, p, sh)
    BY <1>1, SameBasis
  <1> QED
    BY <1>2 DEF Base

LEMMA PastFrame ==
  ASSUME NEW h, NEW g, NEW n \in Nat, \A j \in 1..n : h[j] = g[j],
         NEW r, NEW p, NEW gov \in BOOLEAN, NEW w, NEW entry, Past(h, n, r, p, gov, w, entry)
  PROVE  Past(g, n, r, p, gov, w, entry)
  <1>1. n \in Int /\ n <= n
    OBVIOUS
  <1>2. ASSUME NEW type
        PROVE  LET T == OfType(h, n, r, p, type)
               IN /\ T = OfType(g, n, r, p, type)
                  /\ \A j \in T : h[j] = g[j]
                  /\ T # {} => h[Max(T)] = g[Max(T)]
    BY <1>1, SameType
  <1> QED
    BY <1>2 DEF Past

LEMMA CountsFrame ==
  ASSUME NEW h, NEW g, NEW n \in Nat, \A j \in 1..n : h[j] = g[j],
         NEW r, NEW p, NEW c, Counts(h, n, r, p, c)
  PROVE  Counts(g, n, r, p, c)
  <1>1. n \in Int /\ n <= n
    OBVIOUS
  <1>2. /\ Sinking(h, n, r, p) = Sinking(g, n, r, p)
        /\ \A j \in Sinking(h, n, r, p) : h[j] = g[j]
    BY <1>1, SameSinking
  <1> QED
    BY <1>2 DEF Counts, LastLost, TwoLost

-----------------------------------------------------------------------------
(***************************************************************************)
(* One more event.                                                         *)
(***************************************************************************)
\* A set with one more member.
With(S, k) == S \cup {k}

LEMMA GrowOther ==
  ASSUME NEW h, NEW n \in Nat, NEW r, NEW p, NEW type,
         ~(h[n + 1].run = r /\ h[n + 1].process = p /\ h[n + 1].type = type)
  PROVE  OfType(h, n + 1, r, p, type) = OfType(h, n, r, p, type)
  <1>1. 1..(n + 1) = (1..n) \cup {n + 1} /\ n + 1 \notin 1..n
    OBVIOUS
  <1> QED
    BY <1>1 DEF OfType, Of

LEMMA GrowMine ==
  ASSUME NEW h, NEW n \in Nat, NEW r, NEW p, NEW type,
         h[n + 1].run = r, h[n + 1].process = p, h[n + 1].type = type
  PROVE  OfType(h, n + 1, r, p, type) = With(OfType(h, n, r, p, type), n + 1)
  <1>1. 1..(n + 1) = (1..n) \cup {n + 1} /\ n + 1 \notin 1..n
    OBVIOUS
  <1> QED
    BY <1>1 DEF OfType, Of, With

LEMMA GrowSinking ==
  ASSUME NEW h, NEW n \in Nat, NEW r, NEW p
  PROVE  /\ Sinking(h, n + 1, r, p) =
              IF h[n + 1].run = r /\ h[n + 1].process = p /\ h[n + 1].fate # "stdout"
              THEN With(Sinking(h, n, r, p), n + 1) ELSE Sinking(h, n, r, p)
         /\ Sinking(h, n, r, p) \in SUBSET (1..n)
  <1>1. 1..(n + 1) = (1..n) \cup {n + 1} /\ n + 1 \notin 1..n
    OBVIOUS
  <1> QED
    BY <1>1 DEF Sinking, Of, With

LEMMA GrowHeard ==
  ASSUME NEW h, NEW n \in Nat, NEW r, NEW sh \in BOOLEAN,
         h[n + 1].type # "INTENT_DECLARED" \/ ~(sh \/ h[n + 1].run = r)
  PROVE  Heard(h, n + 1, r, sh) = Heard(h, n, r, sh)
  <1>1. 1..(n + 1) = (1..n) \cup {n + 1} /\ n + 1 \notin 1..n
    OBVIOUS
  <1> QED
    BY <1>1 DEF Heard

\* What says nothing of a session's tool calls leaves its entry right.
LEMMA PastKeeps ==
  ASSUME NEW h, NEW n \in Nat, NEW r, NEW p, NEW gov \in BOOLEAN, NEW w, NEW entry,
         Past(h, n, r, p, gov, w, entry),
         \/ h[n + 1].run # r \/ h[n + 1].process # p
         \/ h[n + 1].type # "SCOPE_ASSERTED" /\ h[n + 1].type # "CONTEXT_SNAPSHOT"
  PROVE  Past(h, n + 1, r, p, gov, w, entry)
  <1>1. OfType(h, n + 1, r, p, "SCOPE_ASSERTED") = OfType(h, n, r, p, "SCOPE_ASSERTED")
        /\ OfType(h, n + 1, r, p, "CONTEXT_SNAPSHOT") = OfType(h, n, r, p, "CONTEXT_SNAPSHOT")
    BY GrowOther
  <1> QED
    BY <1>1 DEF Past

LEMMA BaseKeeps ==
  ASSUME NEW h, NEW n \in Nat, NEW r, NEW p, NEW sh \in BOOLEAN, NEW entry, Base(h, n, r, p, sh, entry),
         h[n + 1].type # "INTENT_DECLARED" \/ (h[n + 1].run # r /\ ~sh)
  PROVE  Base(h, n + 1, r, p, sh, entry)
  <1>1. OfType(h, n + 1, r, p, "INTENT_DECLARED") = OfType(h, n, r, p, "INTENT_DECLARED")
    BY GrowOther
  <1>2. Heard(h, n + 1, r, sh) = Heard(h, n, r, sh)
    BY GrowHeard
  <1> QED
    BY <1>1, <1>2 DEF Base, BasisOf

\* A session's first declaration in a process is the one it is judged by.
LEMMA Opens ==
  ASSUME NEW h, NEW n \in Nat, NEW r, NEW p, NEW sh \in BOOLEAN, NEW entry,
         OfType(h, n, r, p, "INTENT_DECLARED") = {},
         h[n + 1].run = r, h[n + 1].process = p, h[n + 1].type = "INTENT_DECLARED",
         entry.set, entry.objective = h[n + 1].objective, entry.hints = h[n + 1].hints
  PROVE  Base(h, n + 1, r, p, sh, entry)
  <1>1. OfType(h, n + 1, r, p, "INTENT_DECLARED") = {n + 1}
    <2>1. OfType(h, n + 1, r, p, "INTENT_DECLARED")
            = With(OfType(h, n, r, p, "INTENT_DECLARED"), n + 1)
      BY GrowMine
    <2> QED
      BY <2>1 DEF With
  <1>2. Min({n + 1}) = n + 1
    BY DEF Min
  <1>3. BasisOf(h, n + 1, r, p, sh) = h[n + 1]
    BY <1>1, <1>2 DEF BasisOf
  <1> QED
    BY <1>3 DEF Base

LEMMA CountsNext ==
  ASSUME NEW h, NEW n \in Nat, NEW r, NEW p, NEW c \in Nat, NEW d \in Nat,
         Counts(h, n, r, p, c),
         \/ /\ h[n + 1].run # r \/ h[n + 1].process # p \/ h[n + 1].fate = "stdout"
            /\ d = c
         \/ /\ h[n + 1].run = r /\ h[n + 1].process = p
            /\ h[n + 1].fate = "written" /\ d = 0
         \/ /\ h[n + 1].run = r /\ h[n + 1].process = p
            /\ h[n + 1].fate = "lost" /\ d = c + 1
  PROVE  Counts(h, n + 1, r, p, d)
  <1> DEFINE S == Sinking(h, n, r, p)
             T == Sinking(h, n + 1, r, p)
  <1>1. S \in SUBSET (1..n)
    BY GrowSinking
  <1>2. T = IF h[n + 1].run = r /\ h[n + 1].process = p /\ h[n + 1].fate # "stdout"
            THEN S \cup {n + 1} ELSE S
    BY GrowSinking DEF With
  <1>3. (c >= 1 <=> LastLost(h, S)) /\ (c >= 2 <=> TwoLost(h, S))
    BY DEF Counts
  <1> HIDE DEF S, T
  <1>4. SUFFICES (d >= 1 <=> LastLost(h, T)) /\ (d >= 2 <=> TwoLost(h, T))
    BY DEF Counts, T
  <1>5. CASE T = S /\ d = c
    BY <1>3, <1>5
  <1>6. CASE T = S \cup {n + 1} /\ h[n + 1].fate = "written" /\ d = 0
    <2>1. ~LastLost(h, T)
      <3>1. ASSUME NEW b \in T, \A j \in T : j <= b PROVE b = n + 1
        BY <1>1, <1>6, <3>1
      <3> QED
        BY <1>6, <3>1 DEF LastLost
    <2>2. ~TwoLost(h, T)
      <3>1. ASSUME NEW a \in T, NEW b \in T, a < b, \A j \in T : j > a => j = b PROVE b = n + 1
        BY <1>1, <1>6, <3>1
      <3> QED
        BY <1>6, <3>1 DEF TwoLost
    <2> QED
      BY <1>6, <2>1, <2>2
  <1>7. CASE T = S \cup {n + 1} /\ h[n + 1].fate = "lost" /\ d = c + 1
    <2>1. LastLost(h, T)
      BY <1>1, <1>7 DEF LastLost
    <2>2. ASSUME LastLost(h, S) PROVE TwoLost(h, T)
      <3>1. PICK b \in S : h[b].fate = "lost" /\ \A j \in S : j <= b
        BY <2>2 DEF LastLost
      <3>2. b \in T /\ n + 1 \in T /\ b < n + 1 /\ \A j \in T : j > b => j = n + 1
        BY <1>1, <1>7, <3>1
      <3> QED
        BY <1>7, <3>1, <3>2 DEF TwoLost
    <2>3. ASSUME TwoLost(h, T) PROVE LastLost(h, S)
      <3>1. PICK a \in T, b \in T : /\ a < b /\ (\A j \in T : j > a => j = b)
                                    /\ h[a].fate = "lost" /\ h[b].fate = "lost"
        BY <2>3 DEF TwoLost
      <3>2. b = n + 1 /\ a \in S /\ \A j \in S : j <= a
        BY <1>1, <1>7, <3>1
      <3> QED
        BY <3>1, <3>2 DEF LastLost
    <2> QED
      BY <1>3, <1>7, <2>1, <2>2, <2>3
  <1> QED
    BY <1>2, <1>5, <1>6, <1>7

-----------------------------------------------------------------------------
(***************************************************************************)
(* A tool call and a tool's result are judged by what came before.         *)
(***************************************************************************)
LEMMA ScopeJudged ==
  ASSUME NEW h, NEW n \in Nat, NEW r, NEW p, NEW sh \in BOOLEAN, NEW gov \in BOOLEAN, NEW w, NEW entry \in Entries,
         NEW call \in SomeCalls, NEW now \in Nat, w.depth \in Nat \ {0},
         Base(h, n, r, p, sh, entry), Past(h, n, r, p, gov, w, entry),
         h[n + 1].run = r, h[n + 1].process = p, h[n + 1].type = "SCOPE_ASSERTED",
         h[n + 1].op = call.op, h[n + 1].target = call.target, h[n + 1].call = call,
         h[n + 1].at = now,
         h[n + 1].flags = ScopeFindings(gov, w, entry, call, now).flags,
         h[n + 1].violations = ScopeFindings(gov, w, entry, call, now).violations
  PROVE  /\ AccusedAt(h, n + 1, sh, gov, w) /\ BoundaryAt(h, n + 1, gov, w) /\ RuledAt(h, n + 1, gov, w)
         /\ Base(h, n + 1, r, p, sh, ScopeFindings(gov, w, entry, call, now).entry)
         /\ Past(h, n + 1, r, p, gov, w, ScopeFindings(gov, w, entry, call, now).entry)
  <1>a. /\ ScopeFindings(gov, w, entry, call, now).entry.set = entry.set
        /\ ScopeFindings(gov, w, entry, call, now).entry.objective = entry.objective
        /\ ScopeFindings(gov, w, entry, call, now).entry.hints = entry.hints
        /\ ScopeFindings(gov, w, entry, call, now).entry.tier = entry.tier
    BY ScopeType
  <1> DEFINE base == EvalScope(entry, call)
             found == ScopeFindings(gov, w, entry, call, now)
             applied == ApplyProfile(w, entry, call, now, base)
             scopes == OfType(h, n, r, p, "SCOPE_ASSERTED")
             earlier == \E j \in scopes : h[j].op \in Mutating /\ "POL-001" \in h[j].violations
             b == BasisOf(h, n, r, p, sh)
             outside == \/ call.op \in Mutating /\ ~b.objective
                        \/ \A t \in b.hints : call.target \notin Covers[t]
  <1>0. (n + 1) - 1 = n
    OBVIOUS
  <1>1. entry # NoEntry
    BY EntryType
  <1>2. "POL-001" \in base.violations <=> outside
    BY <1>1 DEF EvalScope, If, Unexpected, Mismatch, Baseline, Base
  <1>3. "TASK_BOUNDARY_CROSSED" \notin base.flags /\ "HIGH_CONSEQUENCE_DETECTED" \notin base.flags
    BY DEF EvalScope, If
  <1>4. found = IF gov THEN applied
                ELSE [flags |-> base.flags, violations |-> base.violations, entry |-> entry]
    BY DEF ScopeFindings
  <1>5. applied.violations =
          IF "POL-001" \in base.violations /\ Withdrawn(w.demand, entry, call)
          THEN base.violations \ {"POL-001"} ELSE base.violations
    BY DEF ApplyProfile
  <1>6. applied.flags = base.flags \cup If(Crosses(w, entry.last, call, now), "TASK_BOUNDARY_CROSSED")
                          \cup If(HighConsequence(w, call), "HIGH_CONSEQUENCE_DETECTED")
    BY <1>1 DEF ApplyProfile
  <1> DEFINE marked == IF "POL-001" \in base.violations /\ Remembered(w.demand, call)
                         THEN [entry EXCEPT !.fired = TRUE] ELSE entry
  <1>7. marked \in Entries /\ marked.last = entry.last
    BY DEF Entries
  <1>8. applied.entry = IF w.signals = {} THEN marked
                        ELSE [marked EXCEPT !.last = LastOf(h[n + 1], w)]
    <2>1. marked # NoEntry
      BY <1>7, EntryType
    <2>2. applied.entry = WithActivity(w, marked, call, now)
      BY <1>1 DEF ApplyProfile
    <2> QED
      BY <2>1, <2>2 DEF WithActivity, LastOf
  <1>9. /\ found.entry.set = entry.set /\ found.entry.objective = entry.objective
        /\ found.entry.hints = entry.hints /\ found.entry.tier = entry.tier
    BY <1>a
  <1>10. gov => found.entry.fired = marked.fired
                /\ (w.signals # {} => found.entry.last = LastOf(h[n + 1], w))
    <2>1. [marked EXCEPT !.last = LastOf(h[n + 1], w)].fired = marked.fired
          /\ [marked EXCEPT !.last = LastOf(h[n + 1], w)].last = LastOf(h[n + 1], w)
      <3> HIDE DEF marked
      <3> QED
        BY <1>7 DEF Entries
    <2> HIDE DEF marked, applied, found
    <2> QED
      BY <1>4, <1>8, <2>1
  <1>11. marked.fired <=> entry.fired \/ ("POL-001" \in base.violations /\ Remembered(w.demand, call))
    BY DEF Entries
  <1>12. gov /\ w.demand = "first_write" => (entry.fired <=> earlier)
    BY DEF Past
  <1> HIDE DEF found, applied, base, marked
  <1>13. "POL-001" \in found.violations <=>
           outside /\ ~(gov /\ (\/ w.demand = "never"
                                \/ w.demand = "first_write" /\ call.op \in Mutating /\ earlier))
    <2>1. CASE ~gov
      BY <1>2, <1>4, <2>1
    <2>2. CASE gov
      BY <1>1, <1>2, <1>4, <1>5, <1>12, <2>2 DEF Withdrawn
    <2> QED
      BY <2>1, <2>2
  <1>14. AccusedAt(h, n + 1, sh, gov, w)
    BY <1>0, <1>13 DEF AccusedAt, found
  <1>15. BoundaryAt(h, n + 1, gov, w)
    <2>1. CASE ~gov
      BY <1>3, <1>4, <2>1 DEF BoundaryAt, found
    <2>2. CASE gov
      <3>1. "TASK_BOUNDARY_CROSSED" \in h[n + 1].flags <=> Crosses(w, entry.last, call, now)
        BY <1>3, <1>4, <1>6, <2>2 DEF If, found
      <3>2. CASE w.signals = {}
        BY <3>1, <3>2 DEF BoundaryAt, Crosses
      <3>3. CASE w.signals # {}
        <4>1. entry.last = IF scopes = {} THEN NoPrior ELSE LastOf(h[Max(scopes)], w)
          BY <2>2, <3>3 DEF Past
        <4>2. Crosses(w, entry.last, call, now) <=>
                scopes # {} /\ Crosses(w, LastOf(h[Max(scopes)], w), call, now)
          BY <4>1 DEF Crosses
        <4> QED
          BY <1>0, <2>2, <3>1, <4>2 DEF BoundaryAt
      <3> QED
        BY <3>2, <3>3
    <2> QED
      BY <2>1, <2>2
  <1>16. RuledAt(h, n + 1, gov, w)
    BY <1>3, <1>4, <1>6 DEF RuledAt, If, found
  <1>17. Base(h, n + 1, r, p, sh, found.entry)
    <2>1. Base(h, n + 1, r, p, sh, entry)
      BY BaseKeeps
    <2> QED
      BY <1>9, <2>1 DEF Base
  <1>18. /\ OfType(h, n + 1, r, p, "SCOPE_ASSERTED") = scopes \cup {n + 1}
         /\ OfType(h, n + 1, r, p, "CONTEXT_SNAPSHOT") = OfType(h, n, r, p, "CONTEXT_SNAPSHOT")
         /\ scopes \in SUBSET (1..n)
    <2>1. /\ OfType(h, n + 1, r, p, "SCOPE_ASSERTED") = With(scopes, n + 1)
          /\ OfType(h, n + 1, r, p, "CONTEXT_SNAPSHOT") = OfType(h, n, r, p, "CONTEXT_SNAPSHOT")
      BY GrowMine, GrowOther
    <2>2. scopes \in SUBSET (1..n)
      BY DEF OfType, Of
    <2> QED
      BY <2>1, <2>2 DEF With
  <1>19. Past(h, n + 1, r, p, gov, w, found.entry)
    <2>1. Max(scopes \cup {n + 1}) = n + 1
      <3> HIDE DEF scopes
      <3> QED
        BY <1>18, MaxNew
    <2>2. gov /\ w.signals # {} => found.entry.last = LastOf(h[n + 1], w)
      BY <1>10
    <2>3. ASSUME gov, w.demand = "first_write"
          PROVE  found.entry.fired <=>
                   \E j \in scopes \cup {n + 1} : h[j].op \in Mutating /\ "POL-001" \in h[j].violations
      <3>1. found.entry.fired <=> earlier \/ (outside /\ call.op \in Mutating)
        BY <1>2, <1>10, <1>11, <1>12, <2>3 DEF Remembered
      <3>2. "POL-001" \in h[n + 1].violations <=> outside /\ ~(call.op \in Mutating /\ earlier)
        BY <1>13, <2>3 DEF found
      <3> QED
        BY <3>1, <3>2
    <2> QED
      BY <1>9, <1>18, <2>1, <2>2, <2>3 DEF Past
  <1> QED
    BY <1>14, <1>15, <1>16, <1>17, <1>19 DEF found

LEMMA ContextJudged ==
  ASSUME NEW h, NEW n \in Nat, NEW r, NEW p, NEW sh \in BOOLEAN, NEW gov \in BOOLEAN, NEW w, NEW cl, NEW entry \in Entries,
         NEW classes, NEW explicit \in BOOLEAN, NEW authorized \in BOOLEAN, authorized <=> r \in cl,
         Base(h, n, r, p, sh, entry), Past(h, n, r, p, gov, w, entry),
         h[n + 1].run = r, h[n + 1].process = p, h[n + 1].type = "CONTEXT_SNAPSHOT",
         h[n + 1].classes = classes,
         h[n + 1].flags = EvalContext(entry, classes, explicit, authorized).flags,
         h[n + 1].violations = EvalContext(entry, classes, explicit, authorized).violations
  PROVE  /\ EscalationAt(h, n + 1, cl)
         /\ Base(h, n + 1, r, p, sh, EvalContext(entry, classes, explicit, authorized).entry)
         /\ Past(h, n + 1, r, p, gov, w, EvalContext(entry, classes, explicit, authorized).entry)
  <1>a. EvalContext(entry, classes, explicit, authorized).entry = [entry EXCEPT !.tier = MaxTier(classes)]
    BY ContextType
  <1> DEFINE found == EvalContext(entry, classes, explicit, authorized)
             contexts == OfType(h, n, r, p, "CONTEXT_SNAPSHOT")
             rises == contexts # {} /\ MaxTier(h[Max(contexts)].classes) < MaxTier(classes)
  <1>0. (n + 1) - 1 = n
    OBVIOUS
  <1>1. entry # NoEntry
    BY EntryType
  <1>2. entry.tier = IF contexts = {} THEN NoPrior ELSE MaxTier(h[Max(contexts)].classes)
    BY DEF Past
  <1>3. (entry.tier # NoPrior /\ MaxTier(classes) > entry.tier) <=> rises
    <2>1. CASE contexts = {}
      BY <1>2, <2>1
    <2>2. CASE contexts # {}
      <3>1. entry.tier \in Nat /\ entry.tier # NoPrior /\ MaxTier(classes) \in Nat
        BY <1>2, <2>2, MaxTierType, EntryAssumption
      <3> QED
        BY <1>2, <2>2, <3>1
    <2> QED
      BY <2>1, <2>2
  <1>4. ("SENSITIVITY_ESCALATION" \in found.flags) <=> rises
    BY <1>1, <1>3 DEF EvalContext, If
  <1>5. ("POL-005" \in found.violations) <=> rises /\ r \notin cl
    BY <1>1, <1>3 DEF EvalContext, If
  <1>6. found.entry = [entry EXCEPT !.tier = MaxTier(classes)]
    BY <1>a
  <1> HIDE DEF found
  <1>7. EscalationAt(h, n + 1, cl)
    BY <1>0, <1>4, <1>5 DEF EscalationAt, found
  <1>8. /\ found.entry.set = entry.set /\ found.entry.objective = entry.objective
        /\ found.entry.hints = entry.hints /\ found.entry.tier = MaxTier(classes)
        /\ found.entry.fired = entry.fired /\ found.entry.last = entry.last
    BY <1>6 DEF Entries
  <1>9. Base(h, n + 1, r, p, sh, found.entry)
    <2>1. Base(h, n + 1, r, p, sh, entry)
      BY BaseKeeps
    <2> QED
      BY <1>8, <2>1 DEF Base
  <1>10. /\ OfType(h, n + 1, r, p, "CONTEXT_SNAPSHOT") = contexts \cup {n + 1}
         /\ OfType(h, n + 1, r, p, "SCOPE_ASSERTED") = OfType(h, n, r, p, "SCOPE_ASSERTED")
         /\ contexts \in SUBSET (1..n)
    <2>1. /\ OfType(h, n + 1, r, p, "CONTEXT_SNAPSHOT") = With(contexts, n + 1)
          /\ OfType(h, n + 1, r, p, "SCOPE_ASSERTED") = OfType(h, n, r, p, "SCOPE_ASSERTED")
      BY GrowMine, GrowOther
    <2>2. contexts \in SUBSET (1..n)
      BY DEF OfType, Of
    <2> QED
      BY <2>1, <2>2 DEF With
  <1>11. Max(contexts \cup {n + 1}) = n + 1
    <2> HIDE DEF contexts
    <2> QED
      BY <1>10, MaxNew
  <1>12. Past(h, n + 1, r, p, gov, w, found.entry)
    BY <1>8, <1>10, <1>11 DEF Past
  <1> QED
    BY <1>7, <1>9, <1>12 DEF found

-----------------------------------------------------------------------------
(***************************************************************************)
(* The properties, from the events of which all this holds.                *)
(***************************************************************************)
Goods(h, sh, gov, w, cl) == \A i \in 1..Len(h) : GoodAt(h, i, sh, gov, w, cl)

LEMMA SaidAccused ==
  ASSUME StateType, Goods(events, shared, governed, view, claims)
  PROVE  AccusedJustly
  <1>1. DOMAIN events = 1..Len(events)
    BY DEF StateType
  <1>2. SUFFICES ASSUME NEW i \in 1..Len(events), events[i].type = "SCOPE_ASSERTED"
                 PROVE  ("POL-001" \in events[i].violations) <=> OutOfIntent(i) /\ ~Tolerated(i)
    BY <1>1 DEF AccusedJustly, Tagged
  <1> DEFINE r == events[i].run  p == events[i].process
  <1>3. AccusedAt(events, i, shared, governed, view)
    BY DEF Goods, GoodAt
  <1>4. \A type : Tagged(InProcess(i), type) = OfType(events, i - 1, r, p, type)
    BY DEF Tagged, InProcess, Own, OfType, Of
  <1>5. {j \in Tagged(IF shared THEN 1..(i - 1) ELSE Own(i), "INTENT_DECLARED") :
           events[j].explicit /\ events[j].fate = "written"}
          = Heard(events, i - 1, r, shared)
    BY DEF Tagged, Own, Heard
  <1>6. Basis(i) = BasisOf(events, i - 1, r, p, shared)
    BY <1>4, <1>5 DEF Basis, BasisOf
  <1> QED
    BY <1>2, <1>3, <1>4, <1>6 DEF AccusedAt, OutOfIntent, Tolerated

LEMMA SaidCompared ==
  ASSUME StateType, Goods(events, shared, governed, view, claims)
  PROVE  ComparedWithOwnPast
  <1>1. DOMAIN events = 1..Len(events)
    BY DEF StateType
  <1>2. ASSUME NEW i \in 1..Len(events), NEW type
        PROVE  Before(i, type) = OfType(events, i - 1, events[i].run, events[i].process, type)
    BY DEF Before, Tagged, InProcess, Own, OfType, Of
  <1>3. BoundaryMatches
    <2>1. SUFFICES ASSUME NEW i \in 1..Len(events), events[i].type = "SCOPE_ASSERTED"
                   PROVE  ("TASK_BOUNDARY_CROSSED" \in events[i].flags) <=>
                            /\ governed /\ Before(i, "SCOPE_ASSERTED") # {}
                            /\ Crossed(events[Max(Before(i, "SCOPE_ASSERTED"))], events[i])
      BY <1>1 DEF BoundaryMatches, Tagged
    <2>2. BoundaryAt(events, i, governed, view)
      BY DEF Goods, GoodAt
    <2> QED
      BY <1>2, <2>1, <2>2 DEF BoundaryAt, Crossed, LastOf
  <1>4. EscalationMatches
    <2>1. SUFFICES ASSUME NEW i \in 1..Len(events), events[i].type = "CONTEXT_SNAPSHOT"
                   PROVE  LET earlier == Before(i, "CONTEXT_SNAPSHOT")
                              rises   == /\ earlier # {}
                                         /\ MaxTier(events[Max(earlier)].classes) < MaxTier(events[i].classes)
                          IN /\ ("SENSITIVITY_ESCALATION" \in events[i].flags) <=> rises
                             /\ ("POL-005" \in events[i].violations) <=> rises /\ events[i].run \notin claims
      BY <1>1 DEF EscalationMatches, Tagged
    <2>2. EscalationAt(events, i, claims)
      BY DEF Goods, GoodAt
    <2> QED
      BY <1>2, <2>1, <2>2 DEF EscalationAt
  <1> QED
    BY <1>3, <1>4 DEF ComparedWithOwnPast

LEMMA SaidSeverity ==
  ASSUME StateType, Goods(events, shared, governed, view, claims)
  PROVE  SeverityTellsOutage
  <1>1. DOMAIN events = 1..Len(events)
    BY DEF StateType
  <1>2. SUFFICES ASSUME NEW i \in 1..Len(events), events[i].fate = "lost"
                 PROVE  (events[i].severity = "degraded") <=>
                          TwoLost(events, {j \in InProcess(i) : events[j].fate # "stdout"})
    BY <1>1 DEF SeverityTellsOutage, TwoLost
  <1>3. SeverityAt(events, i)
    BY DEF Goods, GoodAt
  <1>4. {j \in InProcess(i) : events[j].fate # "stdout"}
          = Sinking(events, i - 1, events[i].run, events[i].process)
    BY DEF InProcess, Own, Sinking, Of
  <1> QED
    BY <1>2, <1>3, <1>4 DEF SeverityAt

-----------------------------------------------------------------------------
(***************************************************************************)
(* The profile.                                                            *)
(***************************************************************************)
LEMMA MembersIn ==
  ASSUME NEW S, NEW s \in Seq(S)
  PROVE  /\ ToSet(s) = {s[k] : k \in 1..Len(s)} /\ ToSet(s) \subseteq S
         /\ s = <<>> <=> ToSet(s) = {}
         /\ DOMAIN s = 1..Len(s)
  <1>1. DOMAIN s = 1..Len(s) /\ Len(s) \in Nat /\ \A k \in 1..Len(s) : s[k] \in S
    BY ElementOfSeq, LenProperties
  <1>2. s = <<>> <=> Len(s) = 0
    BY EmptySeq
  <1>3. Len(s) = 0 <=> ToSet(s) = {}
    <2>1. ToSet(s) = {s[k] : k \in 1..Len(s)}
      BY <1>1 DEF ToSet
    <2>2. Len(s) # 0 => 1 \in 1..Len(s)
      BY <1>1
    <2>3. Len(s) = 0 => 1..Len(s) = {}
      OBVIOUS
    <2> QED
      BY <2>1, <2>2, <2>3
  <1> QED
    BY <1>1, <1>2, <1>3 DEF ToSet

\* The rules of a merged profile are rules, or its section is not a list.
LEMMA MergedRules ==
  ASSUME NEW f \in ProfileFiles, Merge(f).risk.kind = "mapping", Merge(f).risk.rules.kind = "list"
  PROVE  Merge(f).risk.rules.entries \in Seq(RuleEntries)
  <1>1. f.risk \in [kind : {"mapping"}, tools : Lists(STRING), rules : Lists(RuleEntries), onMatch : STRING]
                   \cup Opaque
    BY DEF ProfileFiles
  <1>2. Merge(f).risk = MergedRisk(f.risk)
    BY DEF Merge
  <1>3. CASE f.risk.kind = "missing"
    <2>1. Merge(f).risk.rules.entries = <<>>
      BY <1>2, <1>3 DEF MergedRisk, Defaults
    <2> QED
      BY <2>1
  <1>4. CASE f.risk.kind = "mapping"
    <2>1. f.risk \in [kind : {"mapping"}, tools : Lists(STRING), rules : Lists(RuleEntries), onMatch : STRING]
      BY <1>1, <1>4 DEF Opaque
    <2>2. Merge(f).risk.rules = Supplied(f.risk.rules, Defaults.risk.rules)
      BY <1>2, <1>4, <2>1 DEF MergedRisk
    <2>3. Defaults.risk.rules.entries \in Seq(RuleEntries)
      <3>1. Defaults.risk.rules.entries = <<>>
        BY DEF Defaults
      <3> QED
        BY <3>1, EmptySeq
    <2>4. f.risk.rules.kind = "list" => f.risk.rules.entries \in Seq(RuleEntries)
      BY <2>1 DEF Lists, Opaque
    <2> QED
      BY <2>2, <2>3, <2>4 DEF Supplied
  <1>5. CASE f.risk.kind # "missing" /\ f.risk.kind # "mapping"
    BY <1>2, <1>5 DEF MergedRisk
  <1> QED
    BY <1>3, <1>4, <1>5

\* A rule that can run is met by an effect when the rule as written is; one that
\* cannot is met by none.
LEMMA RuleMeets ==
  ASSUME NEW rule \in RuleEntries, NEW e \in [domain : Domains, action : Actions, destructive : STRING]
  PROVE  LET meets == /\ Meets(rule.domain, e.domain) /\ Meets(rule.action, e.action)
                      /\ rule.destructive \in {"missing", e.destructive}
             v == ViewOfRule(rule)
         IN /\ meets <=> /\ e.domain \in v.domains /\ e.action \in v.actions
                         /\ v.destructive \in {"missing", e.destructive}
            /\ meets => ~Empty(rule.domain) /\ ~Empty(rule.action)
  <1>1. ASSUME NEW v \in Predicates, NEW vocabulary, NEW word \in vocabulary
        PROVE  (Meets(v, word) <=> word \in Allowed(v, vocabulary)) /\ (Meets(v, word) => ~Empty(v))
    <2>1. v.kind # "missing" => v.members \in Seq(STRING)
      BY DEF Predicates
    <2>2. v.kind # "missing" => (v.members = <<>> <=> ToSet(v.members) = {})
      BY <2>1, MembersIn
    <2> QED
      BY <2>2 DEF Meets, Allowed, Empty
  <1>2. rule.domain \in Predicates /\ rule.action \in Predicates
    BY DEF RuleEntries
  <1>3. e.domain \in Domains /\ e.action \in Actions
    OBVIOUS
  <1>4. /\ Meets(rule.domain, e.domain) <=> e.domain \in Allowed(rule.domain, Domains)
        /\ Meets(rule.action, e.action) <=> e.action \in Allowed(rule.action, Actions)
        /\ Meets(rule.domain, e.domain) => ~Empty(rule.domain)
        /\ Meets(rule.action, e.action) => ~Empty(rule.action)
    BY <1>1, <1>2, <1>3
  <1> QED
    BY <1>4 DEF ViewOfRule

LEMMA SaidRules ==
  ASSUME StateType, Goods(events, shared, governed, view, claims)
  PROVE  RulesGovern
  <1>1. DOMAIN events = 1..Len(events)
    BY DEF StateType
  <1> DEFINE Authored(i) ==
               \E rule \in AuthoredRules, e \in events[i].call.effects :
                 /\ Meets(rule.domain, e.domain) /\ Meets(rule.action, e.action)
                 /\ rule.destructive \in {"missing", e.destructive}
             Met(i) == \E rule \in view.rules : RuleMatches(rule, events[i].call.effects)
             risk == Merge(profile).risk
             listed == risk.kind = "mapping" /\ risk.rules.kind = "list"
             rules == ToSet(risk.rules.entries)
  <1>2. profile \in ProfileFiles
    BY RunAssumption DEF StateType
  <1>3. listed => rules \subseteq RuleEntries
    BY <1>2, MergedRules, MembersIn
  <1>4. view.rules = IF listed THEN {ViewOfRule(r) : r \in {s \in rules : RunnableRule(s)}} ELSE {}
    BY DEF StateType, View, RulesView
  <1>5. AuthoredRules = IF listed THEN {s \in rules : ~Reported(s)} ELSE {}
    BY DEF AuthoredRules
  <1> HIDE DEF listed, rules, risk
  <1>6. ASSUME NEW i \in 1..Len(events), events[i].call \in SomeCalls
        PROVE  Authored(i) <=> Met(i)
    <2> DEFINE effects == events[i].call.effects
    <2>1. effects \subseteq [domain : Domains, action : Actions, destructive : STRING]
      BY <1>6 DEF SomeCalls, ToolCalls
    <2> HIDE DEF effects
    <2>2. ASSUME NEW rule \in AuthoredRules, NEW e \in effects,
                 Meets(rule.domain, e.domain), Meets(rule.action, e.action),
                 rule.destructive \in {"missing", e.destructive}
          PROVE  Met(i)
      <3>1. listed /\ rule \in rules /\ rule \in RuleEntries /\ ~Reported(rule)
        BY <1>3, <1>5
      <3>2. e \in [domain : Domains, action : Actions, destructive : STRING]
        BY <2>1
      <3>3. /\ e.domain \in ViewOfRule(rule).domains /\ e.action \in ViewOfRule(rule).actions
            /\ ViewOfRule(rule).destructive \in {"missing", e.destructive}
            /\ ~Empty(rule.domain) /\ ~Empty(rule.action)
        BY <2>2, <3>1, <3>2, RuleMeets
      <3>4. ViewOfRule(rule) \in view.rules
        BY <1>4, <3>1, <3>3 DEF RunnableRule
      <3>5. RuleMatches(ViewOfRule(rule), effects)
        BY <3>3 DEF RuleMatches
      <3> QED
        BY <3>4, <3>5 DEF effects
    <2>3. ASSUME NEW v \in view.rules, RuleMatches(v, effects)
          PROVE  Authored(i)
      <3>1. PICK rule \in rules : v = ViewOfRule(rule) /\ RunnableRule(rule) /\ listed
        BY <1>4
      <3>2. rule \in RuleEntries /\ rule \in AuthoredRules
        BY <1>3, <1>5, <3>1 DEF RunnableRule
      <3>3. PICK e \in effects : /\ e.domain \in v.domains /\ e.action \in v.actions
                                 /\ v.destructive \in {"missing", e.destructive}
        BY <2>3 DEF RuleMatches
      <3>4. e \in [domain : Domains, action : Actions, destructive : STRING]
        BY <2>1
      <3>5. /\ Meets(rule.domain, e.domain) /\ Meets(rule.action, e.action)
            /\ rule.destructive \in {"missing", e.destructive}
        BY <3>1, <3>2, <3>3, <3>4, RuleMeets
      <3> QED
        BY <3>2, <3>5 DEF effects
    <2> QED
      BY <2>2, <2>3 DEF effects
  <1>7. SUFFICES ASSUME NEW i \in 1..Len(events), events[i].type = "SCOPE_ASSERTED"
                 PROVE  ("HIGH_CONSEQUENCE_DETECTED" \in events[i].flags) <=>
                          governed /\ (view.patterns \cap events[i].call.patterns # {} \/ Authored(i))
    BY <1>1 DEF RulesGovern, Tagged
  <1>8. RuledAt(events, i, governed, view)
    BY DEF Goods, GoodAt
  <1> QED
    BY <1>6, <1>7, <1>8 DEF RuledAt, HighConsequence

LEMMA MergedBoundaryType ==
  ASSUME NEW f \in ProfileFiles, Merge(f).boundary.kind = "mapping"
  PROVE  /\ Merge(f).boundary.gap \in Numbers /\ Merge(f).boundary.depth \in Numbers
         /\ Merge(f).boundary.signals.kind = "list" =>
              Merge(f).boundary.signals.entries \in Seq(STRING)
  <1>1. f.boundary \in [kind : {"mapping"}, signals : Lists(STRING), gap : Numbers, depth : Numbers,
                        onMatch : STRING] \cup Opaque
    BY DEF ProfileFiles
  <1>2. Merge(f).boundary = MergedBoundary(f.boundary)
    BY DEF Merge
  <1>3. CASE f.boundary.kind = "missing"
    <2>1. Merge(f).boundary = Defaults.boundary
      BY <1>2, <1>3 DEF MergedBoundary
    <2>2. Defaults.boundary.gap \in Numbers /\ Defaults.boundary.depth \in Numbers
      BY DEF Defaults, Numbers
    <2>3. Defaults.boundary.signals.entries = <<>>
      BY DEF Defaults
    <2> QED
      BY <2>1, <2>2, <2>3, EmptySeq
  <1>4. CASE f.boundary.kind = "mapping"
    <2>1. f.boundary \in [kind : {"mapping"}, signals : Lists(STRING), gap : Numbers, depth : Numbers,
                        onMatch : STRING]
      BY <1>1, <1>4 DEF Opaque
    <2>2. /\ Merge(f).boundary.signals = Supplied(f.boundary.signals, Defaults.boundary.signals)
          /\ Merge(f).boundary.gap = Supplied(f.boundary.gap, Defaults.boundary.gap)
          /\ Merge(f).boundary.depth = Supplied(f.boundary.depth, Defaults.boundary.depth)
      BY <1>2, <1>4, <2>1 DEF MergedBoundary
    <2>3. Defaults.boundary.gap \in Numbers /\ Defaults.boundary.depth \in Numbers
      BY DEF Defaults, Numbers
    <2>4. Defaults.boundary.signals.entries \in Seq(STRING)
      <3>1. Defaults.boundary.signals.entries = <<>>
        BY DEF Defaults
      <3> QED
        BY <3>1, EmptySeq
    <2>5. f.boundary.signals.kind = "list" => f.boundary.signals.entries \in Seq(STRING)
      BY <2>1 DEF Lists, Opaque
    <2>6. f.boundary.gap \in Numbers /\ f.boundary.depth \in Numbers
      BY <2>1
    <2> QED
      BY <2>2, <2>3, <2>4, <2>5, <2>6 DEF Supplied
  <1>5. CASE f.boundary.kind # "missing" /\ f.boundary.kind # "mapping"
    BY <1>2, <1>5 DEF MergedBoundary
  <1> QED
    BY <1>3, <1>4, <1>5

LEMMA SaidAccepted == AcceptedIsKept
  <1>1. SUFFICES ASSUME NEW file \in Files, Admitted(Merge(file)), Merge(file).boundary.kind = "mapping"
                 PROVE  LET p == Merge(file)
                            b == p.boundary
                        IN /\ b.gap.kind \in {"int", "float"} => View(p).gap = b.gap.n
                           /\ b.depth.kind = "int" => View(p).depth = b.depth.n
                           /\ b.depth.kind \in {"int", "missing", "null"}
                           /\ b.signals.kind = "list" => View(p).signals = ToSet(b.signals.entries)
    BY DEF AcceptedIsKept
  <1> DEFINE p == Merge(file)
             b == Merge(file).boundary
  <1>2. file \in ProfileFiles
    BY RunAssumption
  <1>3. b.gap \in Numbers /\ b.depth \in Numbers
    BY <1>1, <1>2, MergedBoundaryType
  <1>4. BoundaryErrors(b) = {}
    BY <1>1 DEF Admitted, Errors
  <1>5. ~BadNumber(b.gap, FALSE, 0) /\ ~BadNumber(b.depth, TRUE, 1) /\ ~HasBadEntry(b.signals)
    BY <1>1, <1>4 DEF BoundaryErrors, Absent
  <1>6. /\ View(p).gap = CheckedNumber(b.gap, FALSE, 0, 300)
        /\ View(p).depth = CheckedNumber(b.depth, TRUE, 1, 2)
        /\ View(p).signals = CheckedList(b.signals)
    BY <1>1 DEF View
  <1>7. b.gap.kind \in {"int", "float"} => CheckedNumber(b.gap, FALSE, 0, 300) = b.gap.n
    <2>1. b.gap.kind \in {"int", "float"} => b.gap.n \in Int
      BY <1>3 DEF Numbers, Opaque
    <2> QED
      BY <1>5, <2>1 DEF BadNumber, CheckedNumber, Absent
  <1>8. /\ b.depth.kind = "int" => CheckedNumber(b.depth, TRUE, 1, 2) = b.depth.n
        /\ b.depth.kind \in {"int", "missing", "null"}
    <2>1. b.depth.kind \in {"int", "float"} => b.depth.n \in Int
      BY <1>3 DEF Numbers, Opaque
    <2> QED
      BY <1>5, <2>1 DEF BadNumber, CheckedNumber, Absent
  <1>9. b.signals.kind = "list" => CheckedList(b.signals) = ToSet(b.signals.entries)
    BY <1>5 DEF CheckedList, HasBadEntry
  <1> QED
    BY <1>6, <1>7, <1>8, <1>9

\* Rules with one canonical form are one rule at runtime.
LEMMA RulesAgree ==
  ASSUME NEW r \in RuleEntries, NEW q \in RuleEntries, CanonicalRule(r) = CanonicalRule(q)
  PROVE  /\ ViewOfRule(r) = ViewOfRule(q)
         /\ RunnableRule(r) <=> RunnableRule(q)
  <1>1. /\ r.mapping = q.mapping /\ r.stray = q.stray /\ r.destructive = q.destructive
        /\ CanonicalMembers(r.domain) = CanonicalMembers(q.domain)
        /\ CanonicalMembers(r.action) = CanonicalMembers(q.action)
    <2>1. /\ CanonicalRule(r).mapping = r.mapping /\ CanonicalRule(r).stray = r.stray
          /\ CanonicalRule(r).destructive = r.destructive
          /\ CanonicalRule(r).domain = CanonicalMembers(r.domain)
          /\ CanonicalRule(r).action = CanonicalMembers(r.action)
      BY DEF CanonicalRule, RuleEntries
    <2>2. /\ CanonicalRule(q).mapping = q.mapping /\ CanonicalRule(q).stray = q.stray
          /\ CanonicalRule(q).destructive = q.destructive
          /\ CanonicalRule(q).domain = CanonicalMembers(q.domain)
          /\ CanonicalRule(q).action = CanonicalMembers(q.action)
      BY DEF CanonicalRule, RuleEntries
    <2> QED
      BY <2>1, <2>2
  <1>2. ASSUME NEW v \in Predicates, NEW u \in Predicates, CanonicalMembers(v) = CanonicalMembers(u),
               NEW vocabulary
        PROVE  /\ Allowed(v, vocabulary) = Allowed(u, vocabulary)
               /\ Empty(v) <=> Empty(u)
               /\ Foreign(v, vocabulary) <=> Foreign(u, vocabulary)
    <2>1. /\ v.kind = u.kind
          /\ v.kind # "missing" => ToSet(v.members) = ToSet(u.members)
      BY <1>2 DEF CanonicalMembers
    <2>2. /\ v.kind # "missing" => v.members \in Seq(STRING)
          /\ u.kind # "missing" => u.members \in Seq(STRING)
      BY DEF Predicates
    <2>3. ASSUME NEW s \in Seq(STRING)
          PROVE  (\E k \in DOMAIN s : s[k] \notin vocabulary) <=> ~(ToSet(s) \subseteq vocabulary)
      BY DEF ToSet
    <2>4. Foreign(v, vocabulary) <=> v.kind # "missing" /\ ~(ToSet(v.members) \subseteq vocabulary)
      BY <2>2, <2>3 DEF Foreign, MembersOf
    <2>5. Foreign(u, vocabulary) <=> u.kind # "missing" /\ ~(ToSet(u.members) \subseteq vocabulary)
      BY <2>2, <2>3 DEF Foreign, MembersOf
    <2>6. Allowed(v, vocabulary) = Allowed(u, vocabulary)
      BY <2>1 DEF Allowed
    <2>7. Empty(v) <=> Empty(u)
      <3>1. v.kind # "missing" => (v.members = <<>> <=> ToSet(v.members) = {})
        BY <2>2, MembersIn
      <3>2. u.kind # "missing" => (u.members = <<>> <=> ToSet(u.members) = {})
        BY <2>2, MembersIn
      <3> QED
        BY <2>1, <3>1, <3>2 DEF Empty
    <2> QED
      BY <2>1, <2>4, <2>5, <2>6, <2>7
  <1>3. r.domain \in Predicates /\ q.domain \in Predicates /\ r.action \in Predicates
        /\ q.action \in Predicates
    BY DEF RuleEntries
  <1>4. /\ Allowed(r.domain, Domains) = Allowed(q.domain, Domains)
        /\ Empty(r.domain) <=> Empty(q.domain)
        /\ Foreign(r.domain, Domains) <=> Foreign(q.domain, Domains)
    BY <1>1, <1>2, <1>3
  <1>5. /\ Allowed(r.action, Actions) = Allowed(q.action, Actions)
        /\ Empty(r.action) <=> Empty(q.action)
        /\ Foreign(r.action, Actions) <=> Foreign(q.action, Actions)
    BY <1>1, <1>2, <1>3
  <1>6. ViewOfRule(r) = ViewOfRule(q)
    BY <1>1, <1>4, <1>5 DEF ViewOfRule
  <1>7. RunnableRule(r) <=> RunnableRule(q)
    BY <1>1, <1>4, <1>5 DEF RunnableRule, Reported
  <1> QED
    BY <1>6, <1>7

LEMMA RisksAgree ==
  ASSUME NEW f \in ProfileFiles, NEW g \in ProfileFiles,
         CanonicalRisk(Merge(f).risk) = CanonicalRisk(Merge(g).risk)
  PROVE  /\ View(Merge(f)).patterns = View(Merge(g)).patterns
         /\ View(Merge(f)).rules = View(Merge(g)).rules
  <1> DEFINE s == Merge(f).risk
             t == Merge(g).risk
             empty(u) == Absent(u.kind) \/ (u.kind = "list" /\ u.entries = <<>>)
             form(u) == IF empty(u) THEN [kind |-> "missing", entries |-> {}] ELSE CanonicalRules(u)
  <1>1. ASSUME NEW h \in ProfileFiles
        PROVE  /\ Merge(h).risk.kind # "mapping" =>
                    CanonicalRisk(Merge(h).risk).kind = Merge(h).risk.kind
               /\ Merge(h).risk.kind = "mapping" =>
                    /\ CanonicalRisk(Merge(h).risk).kind = "mapping"
                    /\ CanonicalRisk(Merge(h).risk).tools = Merge(h).risk.tools
                    /\ CanonicalRisk(Merge(h).risk).rules = form(Merge(h).risk.rules)
    <2> DEFINE u == Merge(h).risk
    <2>1. h.risk \in [kind : {"mapping"}, tools : Lists(STRING), rules : Lists(RuleEntries), onMatch : STRING]
                     \cup Opaque
      BY DEF ProfileFiles
    <2>2. u = MergedRisk(h.risk)
      BY DEF Merge
    <2>3. u.kind = "mapping" =>
            [u EXCEPT !.rules = form(@)].kind = "mapping"
            /\ [u EXCEPT !.rules = form(@)].tools = u.tools
            /\ [u EXCEPT !.rules = form(@)].rules = form(u.rules)
      <3> HIDE DEF form
      <3>1. CASE h.risk.kind = "missing"
        BY <2>2, <3>1 DEF MergedRisk, Defaults
      <3>2. CASE h.risk.kind = "mapping"
        <4>1. h.risk \in [kind : {"mapping"}, tools : Lists(STRING), rules : Lists(RuleEntries), onMatch : STRING]
          BY <2>1, <3>2 DEF Opaque
        <4> QED
          BY <2>2, <3>2, <4>1 DEF MergedRisk
      <3>3. CASE h.risk.kind # "missing" /\ h.risk.kind # "mapping"
        BY <2>2, <3>3 DEF MergedRisk
      <3> QED
        BY <3>1, <3>2, <3>3
    <2>4. CanonicalRisk(u) = IF u.kind # "mapping" THEN [kind |-> u.kind]
                             ELSE [u EXCEPT !.rules = form(@)]
      BY DEF CanonicalRisk
    <2> HIDE DEF form, u
    <2> QED
      BY <2>3, <2>4 DEF u
  <1>2. s.kind = "mapping" <=> t.kind = "mapping"
    <2> HIDE DEF form
    <2>1. /\ s.kind # "mapping" => CanonicalRisk(s).kind = s.kind
          /\ s.kind = "mapping" => CanonicalRisk(s).kind = "mapping"
      BY <1>1
    <2>2. /\ t.kind # "mapping" => CanonicalRisk(t).kind = t.kind
          /\ t.kind = "mapping" => CanonicalRisk(t).kind = "mapping"
      BY <1>1
    <2> QED
      BY <2>1, <2>2
  <1>3. s.kind = "mapping" => s.tools = t.tools /\ form(s.rules) = form(t.rules)
    <2> HIDE DEF form
    <2>1. s.kind = "mapping" => CanonicalRisk(s).tools = s.tools /\ CanonicalRisk(s).rules = form(s.rules)
      BY <1>1
    <2>2. t.kind = "mapping" => CanonicalRisk(t).tools = t.tools /\ CanonicalRisk(t).rules = form(t.rules)
      BY <1>1
    <2> QED
      BY <1>2, <2>1, <2>2
  <1>4. /\ s.kind = "mapping" /\ s.rules.kind = "list" => s.rules.entries \in Seq(RuleEntries)
        /\ t.kind = "mapping" /\ t.rules.kind = "list" => t.rules.entries \in Seq(RuleEntries)
    BY MergedRules
  <1>5. ASSUME NEW u, u.kind = "list" => u.entries \in Seq(RuleEntries)
        PROVE  /\ form(u).kind # "list" => RulesView(u) = {}
               /\ form(u).kind = "list" =>
                    /\ u.kind = "list" /\ ToSet(u.entries) \subseteq RuleEntries
                    /\ form(u).entries = {CanonicalRule(r) : r \in ToSet(u.entries)}
    <2>1. u.kind = "list" => ToSet(u.entries) \subseteq RuleEntries
      BY <1>5, MembersIn
    <2>2. u.kind = "list" /\ u.entries = <<>> => ToSet(u.entries) = {}
      BY <1>5, MembersIn
    <2> QED
      BY <2>1, <2>2 DEF CanonicalRules, RulesView, Absent
  <1>6. ASSUME s.kind = "mapping" PROVE RulesView(s.rules) = RulesView(t.rules)
    <2> DEFINE S == ToSet(s.rules.entries)
               T == ToSet(t.rules.entries)
    <2>0. form(s.rules) = form(t.rules)
      BY <1>3, <1>6
    <2>1. CASE form(s.rules).kind # "list"
      <3> HIDE DEF form
      <3>1. RulesView(s.rules) = {}
        BY <1>4, <1>5, <1>6, <2>1
      <3>2. RulesView(t.rules) = {}
        BY <1>2, <1>4, <1>5, <1>6, <2>0, <2>1
      <3> QED
        BY <3>1, <3>2
    <2>2. CASE form(s.rules).kind = "list"
      <3> HIDE DEF form
      <3>1. s.rules.kind = "list" /\ S \subseteq RuleEntries
            /\ form(s.rules).entries = {CanonicalRule(r) : r \in S}
        BY <1>4, <1>5, <1>6, <2>2
      <3>2. t.rules.kind = "list" /\ T \subseteq RuleEntries
            /\ form(t.rules).entries = {CanonicalRule(r) : r \in T}
        BY <1>2, <1>4, <1>5, <1>6, <2>0, <2>2
      <3>3. {CanonicalRule(r) : r \in S} = {CanonicalRule(r) : r \in T}
        BY <2>0, <3>1, <3>2
      <3>4. /\ RulesView(s.rules) = {ViewOfRule(r) : r \in {q \in S : RunnableRule(q)}}
            /\ RulesView(t.rules) = {ViewOfRule(r) : r \in {q \in T : RunnableRule(q)}}
        BY <3>1, <3>2 DEF RulesView
      <3> HIDE DEF S, T
      <3>5. ASSUME NEW r \in S, RunnableRule(r)
            PROVE  \E q \in T : RunnableRule(q) /\ ViewOfRule(q) = ViewOfRule(r)
        <4>1. PICK q \in T : CanonicalRule(r) = CanonicalRule(q)
          BY <3>3
        <4> QED
          BY <3>1, <3>2, <3>5, <4>1, RulesAgree
      <3>6. ASSUME NEW r \in T, RunnableRule(r)
            PROVE  \E q \in S : RunnableRule(q) /\ ViewOfRule(q) = ViewOfRule(r)
        <4>1. PICK q \in S : CanonicalRule(r) = CanonicalRule(q)
          BY <3>3
        <4> QED
          BY <3>1, <3>2, <3>6, <4>1, RulesAgree
      <3>7. {ViewOfRule(r) : r \in {q \in S : RunnableRule(q)}}
              = {ViewOfRule(r) : r \in {q \in T : RunnableRule(q)}}
        BY <3>5, <3>6
      <3> QED
        BY <3>4, <3>7
    <2> QED
      BY <2>1, <2>2
  <1>7. CASE s.kind = "mapping"
    <2>1. t.kind = "mapping" /\ s.tools = t.tools /\ RulesView(s.rules) = RulesView(t.rules)
      BY <1>2, <1>3, <1>6, <1>7
    <2> QED
      BY <1>7, <2>1 DEF View
  <1>8. CASE s.kind # "mapping"
    BY <1>2, <1>8 DEF View
  <1> QED
    BY <1>7, <1>8

LEMMA SaidFingerprint == FingerprintDecides
  <1>1. SUFFICES ASSUME NEW f \in Files, NEW g \in Files, Canonical(Merge(f)) = Canonical(Merge(g))
                 PROVE  View(Merge(f)) = View(Merge(g))
    BY DEF FingerprintDecides
  <1>2. f \in ProfileFiles /\ g \in ProfileFiles
    BY RunAssumption
  <1>3. ASSUME NEW h \in ProfileFiles
        PROVE  /\ Canonical(Merge(h)).intent = Merge(h).intent
               /\ Canonical(Merge(h)).boundary = Merge(h).boundary
               /\ Canonical(Merge(h)).risk = CanonicalRisk(Merge(h).risk)
    BY DEF Canonical, Merge
  <1>4. /\ Merge(f).intent = Merge(g).intent /\ Merge(f).boundary = Merge(g).boundary
        /\ CanonicalRisk(Merge(f).risk) = CanonicalRisk(Merge(g).risk)
    BY <1>1, <1>2, <1>3
  <1>5. View(Merge(f)).patterns = View(Merge(g)).patterns /\ View(Merge(f)).rules = View(Merge(g)).rules
    BY <1>2, <1>4, RisksAgree
  <1>6. /\ View(Merge(f)).demand = View(Merge(g)).demand /\ View(Merge(f)).signals = View(Merge(g)).signals
        /\ View(Merge(f)).gap = View(Merge(g)).gap /\ View(Merge(f)).depth = View(Merge(g)).depth
    BY <1>4 DEF View
  <1>7. \A p : View(p) = [demand |-> View(p).demand, signals |-> View(p).signals, gap |-> View(p).gap,
                         depth |-> View(p).depth, patterns |-> View(p).patterns,
                         rules |-> View(p).rules]
    BY DEF View
  <1> QED
    BY <1>5, <1>6, <1>7

-----------------------------------------------------------------------------
(***************************************************************************)
(* Writing.  A written event is the one that was built, with its fate.     *)
(***************************************************************************)
Alike(a, e) ==
  /\ a.run = e.run /\ a.type = e.type /\ a.process = e.process /\ a.flags = e.flags
  /\ a.violations = e.violations /\ a.op = e.op /\ a.target = e.target /\ a.call = e.call
  /\ a.objective = e.objective /\ a.hints = e.hints /\ a.explicit = e.explicit
  /\ a.classes = e.classes /\ a.at = e.at

\* The history h goes on with es after its first n events.
Holds(h, n, es) == \A k \in 1..Len(es) : Alike(h[n + k], es[k])

OwnEvents(es, r) ==
  es \in Seq(EventRecords) /\ \A k \in 1..Len(es) : es[k].run = r /\ es[k].process = Process

LEMMA OwnOne ==
  ASSUME NEW r, NEW e \in EventRecords, e.run = r, e.process = Process
  PROVE  OwnEvents(<<e>>, r) /\ Len(<<e>>) = 1
  BY DEF OwnEvents

LEMMA OwnConcat ==
  ASSUME NEW r, NEW a, NEW b, OwnEvents(a, r), OwnEvents(b, r)
  PROVE  OwnEvents(a \o b, r) /\ Len(a \o b) = Len(a) + Len(b)
  <1>1. a \in Seq(EventRecords) /\ b \in Seq(EventRecords)
    BY DEF OwnEvents
  <1>2. /\ a \o b \in Seq(EventRecords) /\ Len(a \o b) = Len(a) + Len(b)
        /\ \A k \in 1..Len(a) + Len(b) :
             (a \o b)[k] = IF k <= Len(a) THEN a[k] ELSE b[k - Len(a)]
    BY <1>1, ConcatProperties
  <1>3. Len(a) \in Nat /\ Len(b) \in Nat
    BY <1>1, LenProperties
  <1>4. ASSUME NEW k \in 1..Len(a \o b)
        PROVE  (a \o b)[k].run = r /\ (a \o b)[k].process = Process
    <2>1. CASE k <= Len(a)
      <3>1. k \in 1..Len(a) /\ (a \o b)[k] = a[k]
        BY <1>2, <1>3, <2>1
      <3> QED
        BY <3>1 DEF OwnEvents
    <2>2. CASE ~(k <= Len(a))
      <3>1. k - Len(a) \in 1..Len(b) /\ (a \o b)[k] = b[k - Len(a)]
        BY <1>2, <1>3, <2>2
      <3> QED
        BY <3>1 DEF OwnEvents
    <2> QED
      BY <2>1, <2>2
  <1> QED
    BY <1>2, <1>4 DEF OwnEvents

LEMMA HoldsConcat ==
  ASSUME NEW r, NEW a, NEW b, OwnEvents(a, r), OwnEvents(b, r), NEW h, NEW n \in Nat,
         Holds(h, n, a \o b)
  PROVE  Holds(h, n, a) /\ Holds(h, n + Len(a), b)
  <1>1. a \in Seq(EventRecords) /\ b \in Seq(EventRecords)
    BY DEF OwnEvents
  <1>2. /\ Len(a \o b) = Len(a) + Len(b)
        /\ \A k \in 1..Len(a) + Len(b) :
             (a \o b)[k] = IF k <= Len(a) THEN a[k] ELSE b[k - Len(a)]
    BY <1>1, ConcatProperties
  <1>3. Len(a) \in Nat /\ Len(b) \in Nat
    BY <1>1, LenProperties
  <1>4. ASSUME NEW k \in 1..Len(a) PROVE Alike(h[n + k], a[k])
    <2>1. k \in 1..Len(a \o b) /\ (a \o b)[k] = a[k]
      BY <1>2, <1>3
    <2> QED
      BY <2>1 DEF Holds
  <1>5. ASSUME NEW k \in 1..Len(b) PROVE Alike(h[n + Len(a) + k], b[k])
    <2>1. Len(a) + k \in 1..Len(a \o b)
      BY <1>2, <1>3
    <2>2. (a \o b)[Len(a) + k] = b[k]
      <3>1. ~(Len(a) + k <= Len(a)) /\ Len(a) + k - Len(a) = k
        BY <1>3
      <3> QED
        BY <1>2, <2>1, <3>1
    <2>3. n + (Len(a) + k) = n + Len(a) + k
      BY <1>3
    <2> QED
      BY <2>1, <2>2, <2>3 DEF Holds
  <1> QED
    BY <1>4, <1>5 DEF Holds

LEMMA HoldsOne ==
  ASSUME NEW h, NEW n \in Nat, NEW e, Holds(h, n, <<e>>)
  PROVE  Alike(h[n + 1], e)
  BY DEF Holds

LEMMA SunkNext ==
  ASSUME NEW es, NEW k \in Nat
  PROVE  /\ Sunk(es, 0) = 0
         /\ Sunk(es, k) \in Nat
         /\ Sunk(es, k + 1) = IF es[k + 1].type = "GOVERNANCE_ERROR" THEN Sunk(es, k)
                              ELSE Sunk(es, k) + 1
  <1> DEFINE S(n) == {j \in 1..n : es[j].type # "GOVERNANCE_ERROR"}
  <1>1. S(0) = {}
    OBVIOUS
  <1>2. IsFiniteSet(S(k)) /\ Cardinality(S(k)) \in Nat
    <2>1. IsFiniteSet(1..k)
      BY FS_Interval
    <2>2. S(k) \subseteq 1..k
      OBVIOUS
    <2> HIDE DEF S
    <2> QED
      BY <2>1, <2>2, FS_Subset, FS_CardinalityType
  <1>3. S(k + 1) = (IF es[k + 1].type = "GOVERNANCE_ERROR" THEN S(k) ELSE S(k) \cup {k + 1})
        /\ k + 1 \notin S(k)
    <2>1. 1..(k + 1) = (1..k) \cup {k + 1} /\ k + 1 \notin 1..k
      OBVIOUS
    <2> QED
      BY <2>1
  <1>4. Cardinality({}) = 0
    BY FS_EmptySet
  <1> HIDE DEF S
  <1>5. Cardinality(S(k) \cup {k + 1}) = Cardinality(S(k)) + 1
    BY <1>2, <1>3, FS_AddElement
  <1> QED
    BY <1>1, <1>2, <1>3, <1>4, <1>5 DEF Sunk, S

\* The counter a process of r starts from.
Inherited(r) == IF adapter = "hook" THEN 0 ELSE failures[r]

LEMMA WroteType ==
  ASSUME StateType, NEW r \in Runs, NEW es, OwnEvents(es, r), Write(r, es)
  PROVE  /\ events' \in Seq(EventRecords) /\ Len(events') = Len(events) + Len(es)
         /\ \A j \in 1..Len(events) : events[j] = events'[j]
         /\ \A k \in 1..Len(es) :
              /\ Alike(events'[Len(events) + k], es[k])
              /\ events'[Len(events) + k].fate =
                   IF es[k].type = "GOVERNANCE_ERROR" THEN "stdout" ELSE IF up THEN "written" ELSE "lost"
              /\ events'[Len(events) + k].severity =
                   IF es[k].type = "GOVERNANCE_ERROR" \/ up THEN "none"
                   ELSE Severity(Inherited(r) + Sunk(es, k))
  <1> DEFINE w == Written(es, Inherited(r))
  <1>1. es \in Seq(EventRecords) /\ events \in Seq(EventRecords)
    BY DEF OwnEvents, StateType
  <1>2. Len(es) \in Nat /\ DOMAIN es = 1..Len(es) /\ Len(events) \in Nat
        /\ \A k \in 1..Len(es) : es[k] \in EventRecords
    BY <1>1, LenProperties, ElementOfSeq
  <1>3. ASSUME NEW k \in 1..Len(es)
        PROVE  /\ w[k] \in EventRecords /\ Alike(w[k], es[k])
               /\ w[k].fate = IF es[k].type = "GOVERNANCE_ERROR" THEN "stdout"
                              ELSE IF up THEN "written" ELSE "lost"
               /\ w[k].severity = IF es[k].type = "GOVERNANCE_ERROR" \/ up THEN "none"
                                  ELSE Severity(Inherited(r) + Sunk(es, k))
    <2> DEFINE fate == IF es[k].type = "GOVERNANCE_ERROR" THEN "stdout"
                       ELSE IF up THEN "written" ELSE "lost"
               severity == IF es[k].type = "GOVERNANCE_ERROR" \/ up THEN "none"
                           ELSE Severity(Inherited(r) + Sunk(es, k))
    <2>1. fate \in {"none", "stdout", "written", "lost"} /\ severity \in {"none", "warning", "degraded"}
      BY DEF Severity
    <2>2. w[k] = [es[k] EXCEPT !.fate = fate, !.severity = severity]
      BY <1>2 DEF Written
    <2>3. es[k] \in EventRecords
      BY <1>2
    <2> HIDE DEF w, fate, severity
    <2>4. w[k] \in EventRecords /\ w[k].fate = fate /\ w[k].severity = severity
      BY <2>1, <2>2, <2>3 DEF EventRecords
    <2>5. Alike(w[k], es[k])
      BY <2>2, <2>3 DEF Alike, EventRecords
    <2> QED
      BY <2>4, <2>5 DEF fate, severity
  <1>4. w \in Seq(EventRecords) /\ Len(w) = Len(es)
    <2>1. w = [k \in 1..Len(es) |-> w[k]]
      BY <1>2 DEF Written
    <2> HIDE DEF w
    <2>2. w \in [1..Len(es) -> EventRecords]
      BY <1>3, <2>1
    <2>3. w \in Seq(EventRecords)
      BY <1>2, <2>2, SeqDef
    <2> QED
      BY <1>2, <2>1, <2>2, <2>3, LenProperties
  <1>5. events' = events \o w
    BY DEF Write, Inherited
  <1> HIDE DEF w
  <1>6. /\ events \o w \in Seq(EventRecords) /\ Len(events \o w) = Len(events) + Len(w)
        /\ \A k \in 1..Len(events) + Len(w) :
             (events \o w)[k] = IF k <= Len(events) THEN events[k] ELSE w[k - Len(events)]
    BY <1>1, <1>4, ConcatProperties
  <1>7. \A j \in 1..Len(events) : events[j] = events'[j]
    BY <1>2, <1>4, <1>5, <1>6
  <1>8. ASSUME NEW k \in 1..Len(es) PROVE events'[Len(events) + k] = w[k]
    <2>1. Len(events) + k \in 1..Len(events) + Len(w) /\ ~(Len(events) + k <= Len(events))
          /\ Len(events) + k - Len(events) = k
      BY <1>2, <1>4
    <2> QED
      BY <1>5, <1>6, <2>1
  <1> QED
    BY <1>3, <1>4, <1>5, <1>6, <1>7, <1>8

LEMMA WroteCounts ==
  ASSUME StateType, NEW r \in Runs, NEW es, OwnEvents(es, r), Write(r, es),
         Counts(events, Len(events), r, Process, Inherited(r))
  PROVE  /\ Counts(events', Len(events'), r, Process, Counted(Inherited(r), Sunk(es, Len(es))))
         /\ \A i \in (Len(events) + 1)..Len(events') : SeverityAt(events', i)
  <1> DEFINE L == Len(events)
             h == events'
             b == Inherited(r)
             C(k) == Counted(b, Sunk(es, k))
             G(k) == Counts(h, L + k, r, Process, C(k))
  <1>1. /\ L \in Nat /\ b \in Nat /\ Len(es) \in Nat
    BY LenProperties DEF StateType, OwnEvents, Inherited
  <1>2. /\ Len(h) = L + Len(es)
        /\ \A j \in 1..L : events[j] = h[j]
        /\ \A k \in 1..Len(es) :
              /\ Alike(h[L + k], es[k])
              /\ h[L + k].fate =
                   IF es[k].type = "GOVERNANCE_ERROR" THEN "stdout" ELSE IF up THEN "written" ELSE "lost"
              /\ h[L + k].severity =
                   IF es[k].type = "GOVERNANCE_ERROR" \/ up THEN "none"
                   ELSE Severity(b + Sunk(es, k))
    BY WroteType
  <1>3. ASSUME NEW k \in 1..Len(es)
        PROVE  h[L + k].run = r /\ h[L + k].process = Process
    BY <1>2 DEF OwnEvents, Alike
  <1>4. G(0)
    <2>1. Counts(h, L, r, Process, b)
      <3> HIDE DEF h, L, b
      <3>1. Counts(events, L, r, Process, b)
        BY DEF L, b
      <3>2. \A j \in 1..L : events[j] = h[j]
        BY <1>2
      <3> QED
        BY <1>1, <3>1, <3>2, CountsFrame
    <2>2. C(0) = b /\ L + 0 = L
      BY <1>1, SunkNext DEF Counted
    <2> QED
      BY <2>1, <2>2
  <1>5. ASSUME NEW k \in 0..(Len(es) - 1), G(k) PROVE G(k + 1)
    <2>1. k \in Nat /\ k + 1 \in 1..Len(es) /\ L + k \in Nat /\ L + (k + 1) = L + k + 1
      BY <1>1
    <2>2. /\ Sunk(es, k) \in Nat /\ Sunk(es, k + 1) \in Nat
          /\ Sunk(es, k + 1) = IF es[k + 1].type = "GOVERNANCE_ERROR" THEN Sunk(es, k)
                               ELSE Sunk(es, k) + 1
      BY <2>1, SunkNext
    <2>3. C(k) \in Nat /\ C(k + 1) \in Nat
      BY <1>1, <2>2 DEF Counted
    <2>4. /\ h[L + k + 1].run = r /\ h[L + k + 1].process = Process
          /\ h[L + k + 1].fate = IF es[k + 1].type = "GOVERNANCE_ERROR" THEN "stdout"
                                 ELSE IF up THEN "written" ELSE "lost"
      BY <1>2, <1>3, <2>1
    <2>5. \/ h[L + k + 1].fate = "stdout" /\ C(k + 1) = C(k)
          \/ h[L + k + 1].fate = "written" /\ C(k + 1) = 0
          \/ h[L + k + 1].fate = "lost" /\ C(k + 1) = C(k) + 1
      BY <1>1, <2>2, <2>4 DEF Counted
    <2>6. Counts(h, L + k, r, Process, C(k))
      BY <1>5
    <2> HIDE DEF h, L, C
    <2>7. Counts(h, L + k + 1, r, Process, C(k + 1))
      BY <2>1, <2>3, <2>4, <2>5, <2>6, CountsNext
    <2> QED
      BY <2>1, <2>7
  <1>6. \A k \in 0..Len(es) : G(k)
    <2> DEFINE T == {k \in 0..Len(es) : ~G(k)}
    <2>1. SUFFICES ASSUME T # {} PROVE FALSE
      OBVIOUS
    <2>2. T \in SUBSET Nat
      BY <1>1
    <2> HIDE DEF G
    <2>3. PICK k \in T : \A j \in T : k <= j
      <3> HIDE DEF T
      <3> QED
        BY <2>1, <2>2, Least
    <2>4. k # 0 /\ k \in 0..Len(es)
      BY <1>4
    <2>5. k - 1 \in 0..(Len(es) - 1) /\ k - 1 + 1 = k
      BY <1>1, <2>4
    <2>6. G(k - 1)
      BY <1>1, <2>3, <2>5
    <2>7. G(k - 1 + 1)
      BY <1>5, <2>5, <2>6
    <2> QED
      BY <2>5, <2>7
  <1>7. ASSUME NEW i \in (L + 1)..Len(h) PROVE SeverityAt(h, i)
    <2> DEFINE k == i - L - 1
    <2>1. k \in 0..Len(es) /\ k \in Nat /\ k + 1 \in 1..Len(es) /\ L + (k + 1) = i /\ i - 1 = L + k
      BY <1>1, <1>2
    <2>2. Counts(h, i - 1, r, Process, C(k))
      BY <1>6, <2>1
    <2>3. /\ Sunk(es, k) \in Nat
          /\ Sunk(es, k + 1) = IF es[k + 1].type = "GOVERNANCE_ERROR" THEN Sunk(es, k)
                               ELSE Sunk(es, k) + 1
      BY <2>1, SunkNext
    <2>4. /\ h[i].run = r /\ h[i].process = Process
          /\ h[i].fate =
               IF es[k + 1].type = "GOVERNANCE_ERROR" THEN "stdout" ELSE IF up THEN "written" ELSE "lost"
          /\ h[i].severity =
               IF es[k + 1].type = "GOVERNANCE_ERROR" \/ up THEN "none"
               ELSE Severity(b + Sunk(es, k + 1))
      <3> HIDE DEF h, k
      <3> QED
        BY <1>2, <1>3, <2>1
    <2>5. ASSUME h[i].fate = "lost"
          PROVE  (h[i].severity = "degraded") <=> C(k) >= 2
      <3>1. h[i].severity = Severity(b + (Sunk(es, k) + 1)) /\ ~up
        BY <2>3, <2>4, <2>5
      <3> QED
        BY <1>1, <2>3, <3>1 DEF Severity, Counted
    <2>6. C(k) >= 2 <=> TwoLost(h, Sinking(h, i - 1, h[i].run, h[i].process))
      BY <2>2, <2>4 DEF Counts
    <2> QED
      BY <2>5, <2>6 DEF SeverityAt
  <1>8. Len(es) \in 0..Len(es)
    BY <1>1
  <1>9. Counts(h, Len(h), r, Process, C(Len(es)))
    BY <1>2, <1>6, <1>8
  <1> QED
    BY <1>7, <1>9

-----------------------------------------------------------------------------
(***************************************************************************)
(* Events in sequence.  What an event says is judged, and what is known of *)
(* the session follows it.                                                 *)
(***************************************************************************)
Judged(h, i, sh, gov, w, cl) ==
  AccusedAt(h, i, sh, gov, w) /\ BoundaryAt(h, i, gov, w) /\ RuledAt(h, i, gov, w) /\ EscalationAt(h, i, cl)

Knows(h, n, r, p, sh, gov, w, entry) ==
  entry \in Entries /\ Base(h, n, r, p, sh, entry) /\ Past(h, n, r, p, gov, w, entry)

LEMMA PlainJudged ==
  ASSUME NEW h, NEW n \in Nat, NEW sh \in BOOLEAN, NEW gov \in BOOLEAN, NEW w, NEW cl,
         h[n + 1].type # "SCOPE_ASSERTED" /\ h[n + 1].type # "CONTEXT_SNAPSHOT"
  PROVE  Judged(h, n + 1, sh, gov, w, cl)
  BY DEF Judged, AccusedAt, BoundaryAt, RuledAt, EscalationAt

LEMMA PlainKnows ==
  ASSUME NEW h, NEW n \in Nat, NEW r, NEW p, NEW sh \in BOOLEAN, NEW gov \in BOOLEAN, NEW w, NEW entry,
         h[n + 1].type # "SCOPE_ASSERTED" /\ h[n + 1].type # "CONTEXT_SNAPSHOT",
         h[n + 1].type # "INTENT_DECLARED",
         Knows(h, n, r, p, sh, gov, w, entry)
  PROVE  Knows(h, n + 1, r, p, sh, gov, w, entry)
  <1>1. Base(h, n, r, p, sh, entry) /\ Past(h, n, r, p, gov, w, entry) /\ entry \in Entries
    BY DEF Knows
  <1>2. Base(h, n + 1, r, p, sh, entry)
    BY <1>1, BaseKeeps
  <1>3. Past(h, n + 1, r, p, gov, w, entry)
    BY <1>1, PastKeeps
  <1> QED
    BY <1>1, <1>2, <1>3 DEF Knows

\* Of a session or a process that has said nothing there is nothing to know.
LEMMA Fresh ==
  ASSUME NEW h, NEW n, NEW r, NEW p, Of(h, n, r, p) = {}
  PROVE  /\ \A type : OfType(h, n, r, p, type) = {}
         /\ Sinking(h, n, r, p) = {}
         /\ Counts(h, n, r, p, 0)
  BY DEF OfType, Sinking, Counts, LastLost, TwoLost

LEMMA FreshPast ==
  ASSUME NEW h, NEW n, NEW r, NEW p, NEW gov \in BOOLEAN, NEW w, Of(h, n, r, p) = {}
  PROVE  Past(h, n, r, p, gov, w, NewEntry)
  BY Fresh DEF Past, NewEntry

LEMMA OpensStep ==
  ASSUME StateType, NEW h, NEW n \in Nat, NEW r \in Runs, Of(h, n, r, Process) = {},
         NEW explicit \in BOOLEAN, NEW objective \in BOOLEAN, NEW hints \in SUBSET Hints,
         Alike(h[n + 1], Registration(r)), Alike(h[n + 2], Intent(r, explicit, objective, hints))
  PROVE  /\ \A cl : Judged(h, n + 1, shared, governed, view, cl) /\ Judged(h, n + 2, shared, governed, view, cl)
         /\ Knows(h, n + 2, r, Process, shared, governed, view, WithBaseline(NewEntry, objective, hints))
         /\ WithBaseline(NewEntry, objective, hints).set
  <1> DEFINE p == Process
             e == WithBaseline(NewEntry, objective, hints)
  <1>1. shared \in BOOLEAN /\ governed \in BOOLEAN
    BY DEF StateType
  <1>2. h[n + 1].type = "AGENT_REGISTERED"
    BY RegistrationType DEF Alike
  <1>3. /\ h[n + 2].run = r /\ h[n + 2].process = p /\ h[n + 2].type = "INTENT_DECLARED"
        /\ h[n + 2].objective = objective /\ h[n + 2].hints = hints
    BY IntentType DEF Alike
  <1>4. n + 1 \in Nat /\ n + 1 + 1 = n + 2
    OBVIOUS
  <1>5. ASSUME NEW cl PROVE Judged(h, n + 1, shared, governed, view, cl)
    BY <1>1, <1>2, PlainJudged
  <1>6. ASSUME NEW cl PROVE Judged(h, n + 2, shared, governed, view, cl)
    <2>1. Judged(h, n + 1 + 1, shared, governed, view, cl)
      BY <1>1, <1>3, <1>4, PlainJudged
    <2> QED
      BY <1>4, <2>1
  <1>7. e \in Entries /\ e.set /\ e.objective = objective /\ e.hints = hints
        /\ e.fired = NewEntry.fired /\ e.last = NewEntry.last /\ e.tier = NewEntry.tier
    <2>1. NewEntry # NoEntry /\ NewEntry \in Entries /\ ~NewEntry.set
      BY NewEntryType, EntryType DEF NewEntry
    <2>2. e = [NewEntry EXCEPT !.set = TRUE, !.objective = objective, !.hints = hints]
      BY <2>1 DEF WithBaseline
    <2> QED
      BY <2>1, <2>2 DEF Entries
  <1>8. OfType(h, n + 1, r, p, "INTENT_DECLARED") = {}
    <2>1. OfType(h, n, r, p, "INTENT_DECLARED") = {}
      BY Fresh
    <2>2. OfType(h, n + 1, r, p, "INTENT_DECLARED") = OfType(h, n, r, p, "INTENT_DECLARED")
      BY <1>2, GrowOther
    <2> QED
      BY <2>1, <2>2
  <1>9. Base(h, n + 1 + 1, r, p, shared, e)
    <2> HIDE DEF e, p
    <2> QED
      BY <1>1, <1>3, <1>4, <1>7, <1>8, Opens
  <1>10. Past(h, n + 1 + 1, r, p, governed, view, e)
    <2>1. Past(h, n, r, p, governed, view, NewEntry)
      BY <1>1, FreshPast
    <2>2. Past(h, n, r, p, governed, view, e)
      BY <1>7, <2>1 DEF Past
    <2> HIDE DEF e, p
    <2>3. Past(h, n + 1, r, p, governed, view, e)
      BY <1>1, <1>2, <2>2, PastKeeps
    <2> QED
      BY <1>1, <1>3, <1>4, <2>3, PastKeeps
  <1> QED
    BY <1>4, <1>5, <1>6, <1>7, <1>9, <1>10 DEF Knows

LEMMA ScopeStep ==
  ASSUME StateType, NEW h, NEW n \in Nat, NEW r \in Runs, NEW call \in SomeCalls, NEW entry,
         Knows(h, n, r, Process, shared, governed, view, entry),
         Alike(h[n + 1], Scope(r, call, Asserted(entry, call)))
  PROVE  /\ \A cl : Judged(h, n + 1, shared, governed, view, cl)
         /\ Knows(h, n + 1, r, Process, shared, governed, view, Asserted(entry, call).entry)
         /\ Asserted(entry, call).entry.set = entry.set
  <1> DEFINE p == Process
             found == ScopeFindings(governed, view, entry, call, clock)
  <1>1. shared \in BOOLEAN /\ governed \in BOOLEAN /\ clock \in Nat
    BY DEF StateType
  <1>2. view.depth \in Nat \ {0}
    BY ViewType
  <1>3. entry \in Entries /\ Base(h, n, r, p, shared, entry) /\ Past(h, n, r, p, governed, view, entry)
    BY DEF Knows
  <1>4. /\ found.flags \in SUBSET Flags /\ found.violations \in SUBSET Policies
        /\ found.entry \in Entries /\ found.entry.set = entry.set
    BY <1>1, <1>2, <1>3, ScopeType
  <1>5. /\ h[n + 1].run = r /\ h[n + 1].process = p /\ h[n + 1].type = "SCOPE_ASSERTED"
        /\ h[n + 1].op = call.op /\ h[n + 1].target = call.target /\ h[n + 1].call = call
        /\ h[n + 1].at = clock
        /\ h[n + 1].flags = found.flags /\ h[n + 1].violations = found.violations
    <2> HIDE DEF found, p
    <2>1. Alike(h[n + 1], Scope(r, call, found))
      BY DEF found, Asserted
    <2> QED
      BY <1>4, <2>1, ScopeEventType DEF Alike, p
  <1>6. /\ AccusedAt(h, n + 1, shared, governed, view) /\ BoundaryAt(h, n + 1, governed, view)
        /\ RuledAt(h, n + 1, governed, view)
        /\ Base(h, n + 1, r, p, shared, ScopeFindings(governed, view, entry, call, clock).entry)
        /\ Past(h, n + 1, r, p, governed, view, ScopeFindings(governed, view, entry, call, clock).entry)
    <2> HIDE DEF p
    <2> QED
      BY <1>1, <1>2, <1>3, <1>5, ScopeJudged
  <1>7. \A cl : EscalationAt(h, n + 1, cl)
    BY <1>5 DEF EscalationAt
  <1> QED
    BY <1>4, <1>6, <1>7 DEF Judged, Knows, Asserted

LEMMA ContextStep ==
  ASSUME NEW h, NEW n \in Nat, NEW r \in Runs, NEW call, NEW cl, NEW authorized \in BOOLEAN, NEW entry,
         StateType, call.explicit \in BOOLEAN, call.classes \in SUBSET STRING, authorized <=> r \in cl,
         Knows(h, n, r, Process, shared, governed, view, entry),
         Alike(h[n + 1], Context(r, call, EvalContext(entry, call.classes, call.explicit, authorized)))
  PROVE  /\ Judged(h, n + 1, shared, governed, view, cl)
         /\ Knows(h, n + 1, r, Process, shared, governed, view,
                  EvalContext(entry, call.classes, call.explicit, authorized).entry)
         /\ EvalContext(entry, call.classes, call.explicit, authorized).entry.set = entry.set
  <1> DEFINE p == Process
             classes == call.classes
             explicit == call.explicit
             found == EvalContext(entry, classes, explicit, authorized)
  <1>1. shared \in BOOLEAN /\ governed \in BOOLEAN /\ explicit \in BOOLEAN
    BY DEF StateType
  <1>3. entry \in Entries /\ Base(h, n, r, p, shared, entry) /\ Past(h, n, r, p, governed, view, entry)
    BY DEF Knows
  <1>4. /\ found.flags \in SUBSET Flags /\ found.violations \in SUBSET Policies
        /\ found.entry \in Entries /\ found.entry = [entry EXCEPT !.tier = MaxTier(classes)]
    <2> HIDE DEF classes, explicit
    <2> QED
      BY <1>1, <1>3, ContextType
  <1>5. /\ h[n + 1].run = r /\ h[n + 1].process = p /\ h[n + 1].type = "CONTEXT_SNAPSHOT"
        /\ h[n + 1].classes = classes
        /\ h[n + 1].flags = found.flags /\ h[n + 1].violations = found.violations
    <2> HIDE DEF found, p
    <2>1. Alike(h[n + 1], Context(r, call, found))
      BY DEF found
    <2> QED
      BY <1>4, <2>1, ContextEventType DEF Alike, p
  <1>6. /\ EscalationAt(h, n + 1, cl)
        /\ Base(h, n + 1, r, p, shared, EvalContext(entry, classes, explicit, authorized).entry)
        /\ Past(h, n + 1, r, p, governed, view, EvalContext(entry, classes, explicit, authorized).entry)
    <2> HIDE DEF p, classes, explicit
    <2> QED
      BY <1>1, <1>3, <1>5, ContextJudged
  <1>7. AccusedAt(h, n + 1, shared, governed, view) /\ BoundaryAt(h, n + 1, governed, view)
        /\ RuledAt(h, n + 1, governed, view)
    BY <1>5 DEF AccusedAt, BoundaryAt, RuledAt
  <1>8. found.entry.set = entry.set
    <2> HIDE DEF found
    <2> QED
      BY <1>3, <1>4 DEF Entries
  <1> QED
    BY <1>4, <1>6, <1>7, <1>8 DEF Judged, Knows

-----------------------------------------------------------------------------
(***************************************************************************)
(* The inductive invariant.                                                *)
(***************************************************************************)
\* A run that is over or has not begun holds nothing.
Kept ==
  \A r \in Runs :
    /\ flying[r] # {} => phase[r] = "open"
    /\ phase[r] \in {"closed", "idle"} => manager[r] # "active" /\ cache[r] = NoEntry
    /\ phase[r] = "idle" => failures[r] = 0

\* Whose events there are.
Told ==
  \A i \in 1..Len(events) :
    /\ events[i].type = "INTENT_DECLARED" /\ events[i].explicit => events[i].objective
    /\ adapter = "hook" => events[i].process <= spent.steps
    /\ adapter # "hook" => events[i].process = 0 /\ phase[events[i].run] \in {"open", "closed"}

\* The entry and the counter of an open run say what happened to it.
OpenKnown ==
  \A r \in Runs : phase[r] = "open" =>
    /\ cache[r].set /\ Knows(events, Len(events), r, 0, shared, governed, view, cache[r])
    /\ Counts(events, Len(events), r, 0, failures[r])

IInv ==
  /\ StateType /\ Modes /\ Kept /\ Told /\ OpenKnown
  /\ Goods(events, shared, governed, view, claims)

LEMMA OthersOf ==
  ASSUME NEW h, NEW n \in Nat, NEW m \in Nat, n <= m, NEW q, NEW p,
         \A i \in (n + 1)..m : h[i].run # q
  PROVE  Of(h, m, q, p) = Of(h, n, q, p)
  <1>1. 1..m = (1..n) \cup ((n + 1)..m)
    OBVIOUS
  <1> QED
    BY <1>1 DEF Of

LEMMA OthersHeard ==
  ASSUME NEW h, NEW n \in Nat, NEW m \in Nat, n <= m, NEW q, NEW sh \in BOOLEAN, ~sh,
         \A i \in (n + 1)..m : h[i].run # q
  PROVE  Heard(h, m, q, sh) = Heard(h, n, q, sh)
  <1>1. 1..m = (1..n) \cup ((n + 1)..m)
    OBVIOUS
  <1> QED
    BY <1>1 DEF Heard

LEMMA OthersKnow ==
  ASSUME NEW h, NEW n \in Nat, NEW m \in Nat, n <= m, NEW q, NEW p,
         NEW sh \in BOOLEAN, ~sh, NEW gov \in BOOLEAN, NEW w, NEW entry,
         \A i \in (n + 1)..m : h[i].run # q, Knows(h, n, q, p, sh, gov, w, entry)
  PROVE  Knows(h, m, q, p, sh, gov, w, entry)
  <1>0. Of(h, m, q, p) = Of(h, n, q, p)
    BY OthersOf
  <1>1. \A type : OfType(h, m, q, p, type) = OfType(h, n, q, p, type)
    BY <1>0 DEF OfType
  <1>2. Heard(h, m, q, sh) = Heard(h, n, q, sh)
    BY OthersHeard
  <1>3. Base(h, n, q, p, sh, entry) => Base(h, m, q, p, sh, entry)
    BY <1>1, <1>2 DEF Base, BasisOf
  <1>4. Past(h, n, q, p, gov, w, entry) => Past(h, m, q, p, gov, w, entry)
    BY <1>1 DEF Past
  <1> QED
    BY <1>3, <1>4 DEF Knows

LEMMA KnowsFrame ==
  ASSUME NEW h, NEW g, NEW n \in Nat, NEW r, NEW p, NEW sh \in BOOLEAN, NEW gov \in BOOLEAN,
         NEW w, NEW entry, \A j \in 1..n : h[j] = g[j], Knows(h, n, r, p, sh, gov, w, entry)
  PROVE  Knows(g, n, r, p, sh, gov, w, entry)
  <1>1. Base(h, n, r, p, sh, entry) /\ Past(h, n, r, p, gov, w, entry) /\ entry \in Entries
    BY DEF Knows
  <1>2. Base(g, n, r, p, sh, entry)
    BY <1>1, BaseFrame
  <1>3. Past(g, n, r, p, gov, w, entry)
    BY <1>1, PastFrame
  <1> QED
    BY <1>1, <1>2, <1>3 DEF Knows

\* The events there were, and the new ones.
LEMMA GoodsGrow ==
  ASSUME NEW h, NEW g, NEW sh \in BOOLEAN, NEW gov \in BOOLEAN, NEW w, NEW cl, NEW dl,
         Len(h) \in Nat, Len(g) \in Nat, Len(h) <= Len(g), \A j \in 1..Len(h) : h[j] = g[j],
         Goods(h, sh, gov, w, cl), \A i \in 1..Len(h) : h[i].run \in cl <=> h[i].run \in dl,
         \A i \in (Len(h) + 1)..Len(g) : Judged(g, i, sh, gov, w, dl) /\ SeverityAt(g, i)
  PROVE  Goods(g, sh, gov, w, dl)
  <1>1. ASSUME NEW i \in 1..Len(h) PROVE GoodAt(g, i, sh, gov, w, dl)
    <2>1. GoodAt(h, i, sh, gov, w, cl)
      BY DEF Goods
    <2>2. GoodAt(h, i, sh, gov, w, dl)
      BY <2>1 DEF GoodAt, EscalationAt
    <2>3. i \in Nat /\ i >= 1 /\ \A j \in 1..i : h[j] = g[j]
      OBVIOUS
    <2> QED
      BY <2>2, <2>3, Frame
  <1>2. ASSUME NEW i \in (Len(h) + 1)..Len(g) PROVE GoodAt(g, i, sh, gov, w, dl)
    BY DEF GoodAt, Judged
  <1>3. 1..Len(g) = (1..Len(h)) \cup ((Len(h) + 1)..Len(g))
    OBVIOUS
  <1> QED
    BY <1>1, <1>2, <1>3 DEF Goods

LEMMA Continues ==
  ASSUME IInv, adapter # "hook", NEW r \in Runs, NEW es, OwnEvents(es, r), Write(r, es),
         UNCHANGED fixed, phase[r] \in {"idle", "open"}, phase' = [phase EXCEPT ![r] = "open"],
         NEW entry, entry.set, cache' = [cache EXCEPT ![r] = entry],
         Knows(events', Len(events'), r, 0, shared, governed, view, entry),
         \A i \in (Len(events) + 1)..Len(events') : Judged(events', i, shared, governed, view, claims'),
         \A k \in 1..Len(es) : es[k].type = "INTENT_DECLARED" /\ es[k].explicit => es[k].objective,
         \A i \in 1..Len(events) : events[i].run \in claims <=> events[i].run \in claims'
  PROVE  /\ Goods(events', shared', governed', view', claims') /\ Told' /\ OpenKnown'
         /\ events' \in Seq(EventRecords) /\ failures' \in [Runs -> Nat]
         /\ \A q \in Runs : q # r => failures'[q] = failures[q]
  <1> DEFINE L == Len(events)
             M == Len(events')
  <1>1. /\ StateType /\ Modes /\ Kept /\ Told /\ OpenKnown
        /\ Goods(events, shared, governed, view, claims)
    BY DEF IInv
  <1>2. /\ shared \in BOOLEAN /\ ~shared /\ governed \in BOOLEAN /\ Process = 0 /\ L \in Nat
        /\ Inherited(r) = failures[r] /\ failures \in [Runs -> Nat] /\ Len(es) \in Nat
        /\ phase \in [Runs -> {"idle", "open", "closed", "failed"}]
        /\ cache \in [Runs -> Entries \cup {NoEntry}]
        /\ \A i \in 1..L : events[i] \in EventRecords
    BY <1>1, LenProperties, ElementOfSeq DEF StateType, Modes, Process, Inherited, OwnEvents
  <1>3. /\ events' \in Seq(EventRecords) /\ M = L + Len(es)
        /\ \A j \in 1..L : events[j] = events'[j]
        /\ \A k \in 1..Len(es) : Alike(events'[L + k], es[k])
    BY <1>1, WroteType
  <1>4. M \in Nat /\ L <= M
    BY <1>2, <1>3
  <1>5. Counts(events, L, r, Process, Inherited(r))
    <2>1. CASE phase[r] = "open"
      BY <1>1, <1>2, <2>1 DEF OpenKnown
    <2>2. CASE phase[r] = "idle"
      <3>1. Of(events, L, r, 0) = {}
        BY <1>1, <2>2 DEF Of, Told
      <3>2. failures[r] = 0
        BY <1>1, <2>2 DEF Kept
      <3> QED
        BY <1>2, <3>1, <3>2, Fresh
    <2> QED
      BY <2>1, <2>2
  <1>6. /\ Counts(events', M, r, 0, Counted(failures[r], Sunk(es, Len(es))))
        /\ \A i \in (L + 1)..M : SeverityAt(events', i)
    BY <1>1, <1>2, <1>5, WroteCounts
  <1>7. failures' = [failures EXCEPT ![r] = Counted(failures[r], Sunk(es, Len(es)))]
    BY <1>2 DEF Write, Inherited
  <1>8. Counted(failures[r], Sunk(es, Len(es))) \in Nat
    <2>1. Sunk(es, Len(es)) \in Nat
      BY <1>2, SunkNext
    <2> QED
      BY <1>2, <2>1 DEF Counted
  <1>9. Goods(events', shared, governed, view, claims')
    <2>1. \A i \in (L + 1)..M : Judged(events', i, shared, governed, view, claims') /\ SeverityAt(events', i)
      BY <1>6
    <2>2. /\ Len(events) \in Nat /\ Len(events') \in Nat /\ Len(events) <= Len(events')
          /\ \A j \in 1..Len(events) : events[j] = events'[j]
          /\ shared \in BOOLEAN /\ governed \in BOOLEAN
      BY <1>2, <1>3, <1>4
    <2>3. Goods(events, shared, governed, view, claims)
      BY <1>1
    <2> QED
      BY <2>1, <2>2, <2>3, GoodsGrow
  <1>10. ASSUME NEW i \in (L + 1)..M
         PROVE  /\ events'[i].run = r /\ events'[i].process = 0
                /\ events'[i].type = "INTENT_DECLARED" /\ events'[i].explicit => events'[i].objective
    <2> DEFINE k == i - L
    <2>1. k \in 1..Len(es) /\ L + k = i
      BY <1>2, <1>3
    <2>2. Alike(events'[i], es[k])
      BY <1>3, <2>1
    <2>3. es[k].run = r /\ es[k].process = 0
      BY <1>2, <2>1 DEF OwnEvents
    <2> HIDE DEF k
    <2> QED
      BY <2>1, <2>2, <2>3 DEF Alike
  <1>11. 1..M = (1..L) \cup ((L + 1)..M)
    BY <1>2, <1>4
  <1>12. /\ phase'[r] = "open" /\ cache'[r] = entry
         /\ failures'[r] = Counted(failures[r], Sunk(es, Len(es)))
         /\ \A q \in Runs : q # r => /\ phase'[q] = phase[q] /\ cache'[q] = cache[q]
                                     /\ failures'[q] = failures[q]
    BY <1>2, <1>7
  <1>13. Told'
    <2>1. ASSUME NEW i \in 1..L
          PROVE  /\ events'[i].type = "INTENT_DECLARED" /\ events'[i].explicit => events'[i].objective
                 /\ events'[i].process = 0 /\ phase'[events'[i].run] \in {"open", "closed"}
      <3>1. events'[i] = events[i] /\ events[i].run \in Runs
        BY <1>2, <1>3 DEF EventRecords
      <3> QED
        BY <1>1, <1>12, <3>1 DEF Told
    <2>2. adapter' = adapter
      BY DEF fixed
    <2> HIDE DEF L, M
    <2>3. \A i \in 1..M :
             /\ events'[i].type = "INTENT_DECLARED" /\ events'[i].explicit => events'[i].objective
             /\ events'[i].process = 0 /\ phase'[events'[i].run] \in {"open", "closed"}
      BY <1>10, <1>11, <1>12, <2>1
    <2> QED
      BY <2>2, <2>3 DEF Told, M
  <1>14. OpenKnown'
    <2>1. ASSUME NEW q \in Runs, phase'[q] = "open", q # r
          PROVE  /\ cache[q].set /\ Knows(events', M, q, 0, shared, governed, view, cache[q])
                 /\ Counts(events', M, q, 0, failures[q])
      <3>1. /\ cache[q].set /\ Knows(events, L, q, 0, shared, governed, view, cache[q])
            /\ Counts(events, L, q, 0, failures[q])
        BY <1>1, <1>12, <2>1 DEF OpenKnown
      <3>2. \A i \in (L + 1)..M : events'[i].run # q
        BY <1>10, <2>1
      <3> HIDE DEF L, M
      <3>3. Knows(events', L, q, 0, shared, governed, view, cache[q])
        <4>1. L \in Nat /\ shared \in BOOLEAN /\ governed \in BOOLEAN
              /\ \A j \in 1..L : events[j] = events'[j]
          BY <1>2, <1>3
        <4> QED
          BY <3>1, <4>1, KnowsFrame
      <3>4. Knows(events', M, q, 0, shared, governed, view, cache[q])
        BY <1>2, <1>4, <3>2, <3>3, OthersKnow
      <3>5. Counts(events', L, q, 0, failures[q])
        BY <1>2, <1>3, <3>1, CountsFrame
      <3>6. Of(events', M, q, 0) = Of(events', L, q, 0)
        BY <1>2, <1>4, <3>2, OthersOf
      <3>7. Counts(events', M, q, 0, failures[q])
        BY <3>5, <3>6 DEF Counts, Sinking
      <3> QED
        BY <3>1, <3>4, <3>7
    <2>2. /\ entry.set /\ Knows(events', M, r, 0, shared, governed, view, entry)
          /\ Counts(events', M, r, 0, failures'[r])
      BY <1>6, <1>12
    <2>3. shared' = shared /\ governed' = governed /\ view' = view
      BY DEF fixed
    <2> QED
      BY <1>12, <2>1, <2>2, <2>3 DEF OpenKnown
  <1>15. failures' \in [Runs -> Nat]
    BY <1>2, <1>7, <1>8
  <1> QED
    BY <1>3, <1>9, <1>12, <1>13, <1>14, <1>15 DEF fixed

-----------------------------------------------------------------------------
(***************************************************************************)
(* A session opens.                                                        *)
(***************************************************************************)
LEMMA OwnTwo ==
  ASSUME NEW r, NEW a \in EventRecords, NEW b \in EventRecords,
         a.run = r, a.process = Process, b.run = r, b.process = Process
  PROVE  OwnEvents(<<a, b>>, r) /\ Len(<<a, b>>) = 2
  BY DEF OwnEvents

LEMMA HoldsTwo ==
  ASSUME NEW h, NEW n \in Nat, NEW a, NEW b, Holds(h, n, <<a, b>>)
  PROVE  Alike(h[n + 1], a) /\ Alike(h[n + 2], b)
  BY DEF Holds

\* No event claims an intent it has not.
Honest(es) == \A k \in 1..Len(es) : es[k].type = "INTENT_DECLARED" /\ es[k].explicit => es[k].objective

LEMMA HonestConcat ==
  ASSUME NEW r, NEW a, NEW b, OwnEvents(a, r), OwnEvents(b, r), Honest(a), Honest(b)
  PROVE  Honest(a \o b)
  <1>1. a \in Seq(EventRecords) /\ b \in Seq(EventRecords)
    BY DEF OwnEvents
  <1>2. /\ Len(a \o b) = Len(a) + Len(b)
        /\ \A k \in 1..Len(a) + Len(b) :
             (a \o b)[k] = IF k <= Len(a) THEN a[k] ELSE b[k - Len(a)]
    BY <1>1, ConcatProperties
  <1>3. Len(a) \in Nat /\ Len(b) \in Nat
    BY <1>1, LenProperties
  <1>4. ASSUME NEW k \in 1..Len(a \o b), (a \o b)[k].type = "INTENT_DECLARED", (a \o b)[k].explicit
        PROVE  (a \o b)[k].objective
    <2>1. CASE k <= Len(a)
      <3>1. k \in 1..Len(a) /\ (a \o b)[k] = a[k]
        BY <1>2, <1>3, <2>1
      <3> QED
        BY <1>4, <3>1 DEF Honest
    <2>2. CASE ~(k <= Len(a))
      <3>1. k - Len(a) \in 1..Len(b) /\ (a \o b)[k] = b[k - Len(a)]
        BY <1>2, <1>3, <2>2
      <3> QED
        BY <1>4, <3>1 DEF Honest
    <2> QED
      BY <2>1, <2>2
  <1> QED
    BY <1>4 DEF Honest

LEMMA HonestOne ==
  ASSUME NEW e, e.type # "INTENT_DECLARED"
  PROVE  Honest(<<e>>)
  BY DEF Honest

LEMMA OpeningOwn ==
  ASSUME StateType, NEW r \in Runs, NEW d, d.objective \in BOOLEAN, d.hints \in SUBSET Hints
  PROVE  OwnEvents(Opening(r, d), r) /\ Len(Opening(r, d)) = 2 /\ Honest(Opening(r, d))
  <1> DEFINE a == Registration(r)
             objective == d.objective
             hints == Effective(d)
             b == Intent(r, objective, objective, hints)
  <1>1. objective \in BOOLEAN /\ hints \in SUBSET Hints
    BY DEF Effective
  <1>2. a \in EventRecords /\ a.run = r /\ a.type = "AGENT_REGISTERED" /\ a.process = Process
    BY RegistrationType
  <1>3. b \in EventRecords /\ b.run = r /\ b.process = Process
        /\ b.explicit = objective /\ b.objective = objective
    <2> HIDE DEF objective, hints
    <2> QED
      BY <1>1, IntentType
  <1>4. Opening(r, d) = <<a, b>>
    BY DEF Opening
  <1> HIDE DEF a, b
  <1>5. OwnEvents(<<a, b>>, r) /\ Len(<<a, b>>) = 2
    BY <1>2, <1>3, OwnTwo
  <1>6. Honest(<<a, b>>)
    BY <1>2, <1>3 DEF Honest
  <1> QED
    BY <1>4, <1>5, <1>6

LEMMA OpeningSaid ==
  ASSUME StateType, NEW h, NEW n \in Nat, NEW r \in Runs, NEW d, d.objective \in BOOLEAN,
         d.hints \in SUBSET Hints, Of(h, n, r, Process) = {}, Holds(h, n, Opening(r, d))
  PROVE  /\ \A cl : Judged(h, n + 1, shared, governed, view, cl) /\ Judged(h, n + 2, shared, governed, view, cl)
         /\ Knows(h, n + 2, r, Process, shared, governed, view, Opened(d))
         /\ Opened(d).set
  <1> DEFINE objective == d.objective
             hints == Effective(d)
  <1>1. objective \in BOOLEAN /\ hints \in SUBSET Hints
    BY DEF Effective
  <1>2. Holds(h, n, <<Registration(r), Intent(r, objective, objective, hints)>>)
    BY DEF Opening
  <1>3. Alike(h[n + 1], Registration(r)) /\ Alike(h[n + 2], Intent(r, objective, objective, hints))
    BY <1>2, HoldsTwo
  <1>4. Opened(d) = WithBaseline(NewEntry, objective, hints)
    BY DEF Opened
  <1> HIDE DEF objective, hints
  <1> QED
    BY <1>1, <1>3, <1>4, OpensStep

\* An idle run has no events.
LEMMA IdleFresh ==
  ASSUME IInv, adapter # "hook", NEW r \in Runs, phase[r] = "idle", NEW h,
         \A j \in 1..Len(events) : events[j] = h[j]
  PROVE  Of(h, Len(events), r, Process) = {}
  BY DEF Of, IInv, Told

LEMMA SpendSteps ==
  ASSUME StateType, Spend("steps")
  PROVE  /\ spent' \in [steps : Nat, others : Nat]
         /\ spent'.others = spent.others /\ spent'.steps = spent.steps + 1
  BY DEF StateType, Spend

LEMMA SpendOthers ==
  ASSUME StateType, Spend("others")
  PROVE  /\ spent' \in [steps : Nat, others : Nat]
         /\ spent'.others = spent.others + 1 /\ spent'.steps = spent.steps
  BY DEF StateType, Spend

LEMMA StartMcpKeeps ==
  ASSUME IInv, NEW r \in Runs, NEW d \in Declarations, StartMcp(r, d)
  PROVE  IInv'
  <1> DEFINE es == Opening(r, d)
             L == Len(events)
             entry == Opened(d)
  <1>1. /\ StateType /\ Modes /\ Kept /\ Told
        /\ d.objective \in BOOLEAN /\ d.hints \in SUBSET Hints
    BY RunAssumption DEF IInv
  <1>2. adapter = "mcp" /\ phase[r] = "idle" /\ Write(r, es) /\ UNCHANGED fixed
        /\ phase' = [phase EXCEPT ![r] = "open"] /\ cache' = [cache EXCEPT ![r] = entry]
        /\ claims' = (IF d.claimed THEN claims \cup {r} ELSE claims)
    BY DEF StartMcp
  <1>3. OwnEvents(es, r) /\ Len(es) = 2 /\ Honest(es)
    BY <1>1, OpeningOwn
  <1> HIDE DEF es, entry
  <1>4. /\ Len(events') = L + 2 /\ \A j \in 1..L : events[j] = events'[j]
        /\ Holds(events', L, es)
    BY <1>1, <1>2, <1>3, WroteType DEF Holds
  <1>5. L \in Nat /\ Process = 0
    BY <1>1, <1>2, LenProperties DEF StateType, Process
  <1>6. Of(events', L, r, Process) = {}
    BY <1>2, <1>4, IdleFresh
  <1>7. /\ \A cl : Judged(events', L + 1, shared, governed, view, cl)
                   /\ Judged(events', L + 2, shared, governed, view, cl)
        /\ Knows(events', L + 2, r, Process, shared, governed, view, entry) /\ entry.set
    BY <1>1, <1>4, <1>5, <1>6, OpeningSaid DEF es, entry
  <1>8. \A i \in (L + 1)..Len(events') : Judged(events', i, shared, governed, view, claims')
    BY <1>4, <1>5, <1>7
  <1>9. Knows(events', Len(events'), r, 0, shared, governed, view, entry)
    BY <1>4, <1>5, <1>7
  <1>10. \A i \in 1..L : events[i].run \in claims <=> events[i].run \in claims'
    <2>1. \A i \in 1..L : events[i].run # r
      BY <1>1, <1>2 DEF Told
    <2> QED
      BY <1>2, <2>1
  <1>11. /\ Goods(events', shared', governed', view', claims') /\ Told' /\ OpenKnown'
         /\ events' \in Seq(EventRecords) /\ failures' \in [Runs -> Nat]
         /\ \A q \in Runs : q # r => failures'[q] = failures[q]
    BY <1>2, <1>3, <1>7, <1>8, <1>9, <1>10, Continues DEF Honest
  <1>12. entry \in Entries
    BY <1>7 DEF Knows
  <1>13. StateType'
    <2>1. cache' \in [Runs -> Entries \cup {NoEntry}] /\ phase' \in [Runs -> {"idle", "open", "closed", "failed"}]
      BY <1>1, <1>2, <1>12 DEF StateType
    <2>2. manager' \in [Runs -> {"none", "active", "closed"}]
      BY <1>1 DEF StartMcp, StateType
    <2>3. Spend("steps") /\ UNCHANGED <<fixed, flying, critical, up, clock>>
      BY DEF StartMcp
    <2>4. spent' \in [steps : Nat, others : Nat] /\ spent'.others = spent.others
      BY <1>1, <2>3, SpendSteps
    <2>5. claims' \subseteq Runs
      BY <1>1, <1>2 DEF StateType
    <2> QED
      BY <1>1, <1>11, <2>1, <2>2, <2>3, <2>4, <2>5 DEF StateType, fixed
  <1>14. Modes'
    BY <1>1, <1>2 DEF Modes, fixed
  <1>15. Kept'
    BY <1>1, <1>2, <1>11 DEF StartMcp, Kept, StateType
  <1> QED
    BY <1>11, <1>13, <1>14, <1>15 DEF IInv

\* At most one event, of the kind no comparison is about.
Aside(t, r) ==
  OwnEvents(t, r) /\ Len(t) \in {0, 1}
  /\ \A k \in 1..Len(t) : t[k].type \in {"MEMORY_WRITE_ATTEMPT", "TURN", "GOVERNANCE_ERROR"}

LEMMA AsideOne ==
  ASSUME NEW r, NEW e \in EventRecords, e.run = r, e.process = Process,
         e.type \in {"MEMORY_WRITE_ATTEMPT", "TURN", "GOVERNANCE_ERROR"}
  PROVE  Aside(<<e>>, r) /\ Honest(<<e>>)
  BY OwnOne DEF Aside, Honest

LEMMA AsideNone ==
  ASSUME NEW r
  PROVE  Aside(<<>>, r) /\ Honest(<<>>)
  <1>1. Len(<<>>) = 0 /\ <<>> \in Seq(EventRecords)
    OBVIOUS
  <1> QED
    BY <1>1 DEF Aside, OwnEvents, Honest

LEMMA AsideJudged ==
  ASSUME NEW r, NEW t, NEW h, NEW n \in Nat, NEW sh \in BOOLEAN, NEW gov \in BOOLEAN, NEW w, NEW cl,
         Aside(t, r), Holds(h, n, t), NEW i \in (n + 1)..(n + Len(t))
  PROVE  Judged(h, i, sh, gov, w, cl)
  <1>1. i = n + 1 /\ 1 \in 1..Len(t)
    BY DEF Aside
  <1>2. h[n + 1].type # "SCOPE_ASSERTED" /\ h[n + 1].type # "CONTEXT_SNAPSHOT"
    BY <1>1 DEF Aside, Holds, Alike
  <1>3. Judged(h, n + 1, sh, gov, w, cl)
    BY <1>2, PlainJudged
  <1> QED
    BY <1>1, <1>3

LEMMA AsideKnows ==
  ASSUME NEW r, NEW t, NEW h, NEW n \in Nat, NEW q, NEW p, NEW sh \in BOOLEAN, NEW gov \in BOOLEAN, NEW w,
         NEW entry, Aside(t, r), Holds(h, n, t), Knows(h, n, q, p, sh, gov, w, entry)
  PROVE  Knows(h, n + Len(t), q, p, sh, gov, w, entry)
  <1>1. CASE Len(t) = 0
    <2>1. n + Len(t) = n
      BY <1>1
    <2> QED
      BY <2>1
  <1>2. CASE Len(t) = 1
    <2>1. 1 \in 1..Len(t)
      BY <1>2
    <2>2. h[n + 1].type # "SCOPE_ASSERTED" /\ h[n + 1].type # "CONTEXT_SNAPSHOT"
          /\ h[n + 1].type # "INTENT_DECLARED"
      BY <2>1 DEF Aside, Holds, Alike
    <2>3. Knows(h, n + 1, q, p, sh, gov, w, entry)
      BY <2>2, PlainKnows
    <2> QED
      BY <1>2, <2>3
  <1> QED
    BY <1>1, <1>2 DEF Aside

LEMMA OpenPydanticKeeps ==
  ASSUME IInv, NEW r \in Runs, NEW d \in Declarations, OpenPydantic(r, d)
  PROVE  IInv'
  <1> DEFINE c == InForce(d)
             a == Opening(r, c)
             t == IF d.rejected THEN <<Error(r)>> ELSE <<>>
             es == a \o t
             L == Len(events)
             entry == Opened(c)
  <1>1. /\ StateType /\ Modes /\ Kept /\ Told
        /\ c.objective \in BOOLEAN /\ c.hints \in SUBSET Hints
    BY RunAssumption DEF IInv, InForce, Nothing
  <1>2. adapter = "pydantic" /\ phase[r] = "idle" /\ Write(r, es) /\ UNCHANGED fixed
        /\ phase' = [phase EXCEPT ![r] = "open"] /\ cache' = [cache EXCEPT ![r] = entry]
        /\ claims' = claims
    BY DEF OpenPydantic
  <1>3. OwnEvents(a, r) /\ Len(a) = 2 /\ Honest(a)
    <2> HIDE DEF c
    <2> QED
      BY <1>1, OpeningOwn
  <1>4. Aside(t, r) /\ Honest(t)
    <2>1. Error(r) \in EventRecords /\ Error(r).run = r /\ Error(r).type = "GOVERNANCE_ERROR"
          /\ Error(r).process = Process
      BY <1>1, PlainType
    <2>2. Aside(<<Error(r)>>, r) /\ Honest(<<Error(r)>>)
      BY <2>1, AsideOne
    <2> QED
      BY <2>2, AsideNone
  <1> HIDE DEF entry, a, c, t
  <1>5. OwnEvents(t, r) /\ Len(t) \in Nat
    BY <1>4 DEF Aside
  <1>6. OwnEvents(es, r) /\ Len(es) = 2 + Len(t) /\ Honest(es)
    BY <1>3, <1>4, <1>5, OwnConcat, HonestConcat
  <1>7. /\ Len(events') = L + Len(es) /\ \A j \in 1..L : events[j] = events'[j]
        /\ Holds(events', L, es)
    BY <1>1, <1>2, <1>6, WroteType DEF Holds
  <1>8. L \in Nat /\ L + 2 \in Nat /\ Process = 0 /\ shared \in BOOLEAN /\ governed \in BOOLEAN
    BY <1>1, <1>2, LenProperties DEF StateType, Process
  <1>9. Holds(events', L, a) /\ Holds(events', L + 2, t)
    BY <1>3, <1>5, <1>7, <1>8, HoldsConcat
  <1>10. Of(events', L, r, Process) = {}
    BY <1>2, <1>7, IdleFresh
  <1>11. /\ \A cl : Judged(events', L + 1, shared, governed, view, cl)
                    /\ Judged(events', L + 2, shared, governed, view, cl)
         /\ Knows(events', L + 2, r, Process, shared, governed, view, entry) /\ entry.set
    <2>1. Holds(events', L, Opening(r, c)) /\ c.objective \in BOOLEAN /\ c.hints \in SUBSET Hints
      BY <1>1, <1>9 DEF a
    <2>2. StateType /\ L \in Nat
      BY <1>1, <1>8
    <2> HIDE DEF L
    <2>3. /\ \A cl : Judged(events', L + 1, shared, governed, view, cl)
                     /\ Judged(events', L + 2, shared, governed, view, cl)
          /\ Knows(events', L + 2, r, Process, shared, governed, view, Opened(c)) /\ Opened(c).set
      BY <1>10, <2>1, <2>2, OpeningSaid
    <2> QED
      BY <2>3 DEF entry
  <1>12. ASSUME NEW i \in (L + 2 + 1)..(L + 2 + Len(t)) PROVE Judged(events', i, shared, governed, view, claims')
    BY <1>4, <1>8, <1>9, AsideJudged
  <1>13. ASSUME NEW i \in (L + 1)..Len(events') PROVE Judged(events', i, shared, governed, view, claims')
    <2>1. i = L + 1 \/ i = L + 2 \/ i \in (L + 2 + 1)..(L + 2 + Len(t))
      BY <1>5, <1>6, <1>7, <1>8
    <2> QED
      BY <1>11, <1>12, <2>1
  <1>14. Knows(events', L + 2 + Len(t), r, Process, shared, governed, view, entry)
    BY <1>4, <1>8, <1>9, <1>11, AsideKnows
  <1>15. Knows(events', Len(events'), r, 0, shared, governed, view, entry)
    <2>1. Len(events') = L + 2 + Len(t)
      BY <1>5, <1>6, <1>7, <1>8
    <2> QED
      BY <1>8, <1>14, <2>1
  <1> HIDE DEF es
  <1>16. /\ Goods(events', shared', governed', view', claims') /\ Told' /\ OpenKnown'
         /\ events' \in Seq(EventRecords) /\ failures' \in [Runs -> Nat]
         /\ \A q \in Runs : q # r => failures'[q] = failures[q]
    BY <1>2, <1>6, <1>11, <1>13, <1>15, Continues DEF Honest
  <1>17. entry \in Entries
    BY <1>11 DEF Knows
  <1>18. StateType'
    <2>1. cache' \in [Runs -> Entries \cup {NoEntry}] /\ phase' \in [Runs -> {"idle", "open", "closed", "failed"}]
      BY <1>1, <1>2, <1>17 DEF StateType
    <2>2. manager' \in [Runs -> {"none", "active", "closed"}]
      BY <1>1 DEF OpenPydantic, StateType
    <2>3. Spend("steps") /\ UNCHANGED <<fixed, flying, critical, up, clock, claims>>
      BY DEF OpenPydantic
    <2>4. spent' \in [steps : Nat, others : Nat] /\ spent'.others = spent.others
      BY <1>1, <2>3, SpendSteps
    <2> QED
      BY <1>1, <1>16, <2>1, <2>2, <2>3, <2>4 DEF StateType, fixed
  <1>19. Modes'
    BY <1>1, <1>2 DEF Modes, fixed
  <1>20. Kept'
    BY <1>1, <1>2, <1>16 DEF OpenPydantic, Kept, StateType
  <1> QED
    BY <1>16, <1>18, <1>19, <1>20 DEF IInv

-----------------------------------------------------------------------------
(***************************************************************************)
(* An open session goes on.                                                *)
(***************************************************************************)
LEMMA KnownThen ==
  ASSUME IInv, NEW r \in Runs, phase[r] = "open", NEW h,
         \A j \in 1..Len(events) : events[j] = h[j]
  PROVE  /\ adapter # "hook" /\ Process = 0 /\ cache[r].set /\ cache[r] \in Entries
         /\ Knows(h, Len(events), r, Process, shared, governed, view, cache[r])
  <1>1. StateType /\ Modes /\ OpenKnown
    BY DEF IInv
  <1>2. adapter # "hook" /\ Process = 0
    BY <1>1 DEF Modes, Process
  <1>3. cache[r].set /\ Knows(events, Len(events), r, 0, shared, governed, view, cache[r])
    BY <1>1 DEF OpenKnown
  <1>4. Len(events) \in Nat /\ shared \in BOOLEAN /\ governed \in BOOLEAN
    BY <1>1, LenProperties DEF StateType
  <1>5. Knows(h, Len(events), r, 0, shared, governed, view, cache[r])
    BY <1>3, <1>4, KnowsFrame
  <1> QED
    BY <1>2, <1>3, <1>5 DEF Knows

LEMMA SameOpen ==
  ASSUME StateType, NEW r \in Runs, phase[r] = "open", phase' = phase
  PROVE  phase' = [phase EXCEPT ![r] = "open"]
  BY DEF StateType

LEMMA StartCallKeeps ==
  ASSUME IInv, NEW r \in Runs, NEW c \in Calls, StartCall(r, c)
  PROVE  IInv'
  <1> DEFINE call == Seen(c)
             found == Asserted(cache[r], call)
             e == Scope(r, call, found)
             t == IF adapter = "pydantic" /\ c.metadata \in {"rejected", "partial"}
                  THEN <<Error(r)>> ELSE <<>>
             es == t \o <<e>>
             L == Len(events)
             entry == found.entry
  <1>1. /\ StateType /\ Modes /\ Kept /\ Told
    BY DEF IInv
  <1>2. adapter # "hook" /\ phase[r] = "open" /\ Write(r, es) /\ UNCHANGED fixed
        /\ phase' = phase /\ cache' = [cache EXCEPT ![r] = entry]
        /\ claims' = claims
        /\ flying' = [flying EXCEPT ![r] = @ \cup {[id |-> spent.steps, call |-> call]}]
    BY DEF StartCall
  <1>3. call \in SomeCalls
    <2>1. c \in SomeCalls /\ adapter \in {"mcp", "pydantic", "hook"}
      BY <1>1, RunAssumption DEF SomeCalls, StateType
    <2> QED
      BY <2>1, CallType
  <1>4. Aside(t, r) /\ Honest(t)
    <2>1. Error(r) \in EventRecords /\ Error(r).run = r /\ Error(r).type = "GOVERNANCE_ERROR"
          /\ Error(r).process = Process
      BY <1>1, PlainType
    <2>2. Aside(<<Error(r)>>, r) /\ Honest(<<Error(r)>>)
      BY <2>1, AsideOne
    <2> QED
      BY <2>2, AsideNone
  <1> HIDE DEF call, t
  <1>5. OwnEvents(t, r) /\ Len(t) \in Nat
    BY <1>4 DEF Aside
  <1>6. e \in EventRecords /\ e.run = r /\ e.process = Process /\ e.type = "SCOPE_ASSERTED"
    <2>1. cache[r] \in Entries
      BY <1>2, KnownThen
    <2>2. found = ScopeFindings(governed, view, cache[r], call, clock)
      BY DEF Asserted
    <2>3. view.depth \in Nat \ {0} /\ governed \in BOOLEAN /\ clock \in Nat
      BY <1>1, ViewType DEF StateType
    <2>4. found.flags \in SUBSET Flags /\ found.violations \in SUBSET Policies
      BY <1>3, <2>1, <2>2, <2>3, ScopeType
    <2> HIDE DEF found
    <2> QED
      BY <1>1, <1>3, <2>4, ScopeEventType
  <1> HIDE DEF found, e
  <1>7. OwnEvents(<<e>>, r) /\ Len(<<e>>) = 1 /\ Honest(<<e>>)
    BY <1>6, OwnOne, HonestOne
  <1>8. OwnEvents(es, r) /\ Len(es) = Len(t) + 1 /\ Honest(es)
    BY <1>4, <1>5, <1>7, OwnConcat, HonestConcat
  <1>9. /\ Len(events') = L + Len(es) /\ \A j \in 1..L : events[j] = events'[j]
        /\ Holds(events', L, es)
    BY <1>1, <1>2, <1>8, WroteType DEF Holds
  <1>10. L \in Nat /\ L + Len(t) \in Nat /\ shared \in BOOLEAN /\ governed \in BOOLEAN
    BY <1>1, <1>5, LenProperties DEF StateType
  <1>11. Holds(events', L, t) /\ Holds(events', L + Len(t), <<e>>)
    BY <1>5, <1>7, <1>9, <1>10, HoldsConcat
  <1>12. Alike(events'[L + Len(t) + 1], e)
    BY <1>10, <1>11, HoldsOne
  <1>13. /\ Process = 0 /\ cache[r].set
         /\ Knows(events', L, r, Process, shared, governed, view, cache[r])
    BY <1>2, <1>9, KnownThen
  <1>14. Knows(events', L + Len(t), r, Process, shared, governed, view, cache[r])
    BY <1>4, <1>10, <1>11, <1>13, AsideKnows
  <1>15. /\ \A cl : Judged(events', L + Len(t) + 1, shared, governed, view, cl)
         /\ Knows(events', L + Len(t) + 1, r, Process, shared, governed, view, entry)
         /\ entry.set = cache[r].set
    <2>1. Alike(events'[L + Len(t) + 1], Scope(r, call, Asserted(cache[r], call)))
      BY <1>12 DEF e, found
    <2> HIDE DEF L
    <2>2. /\ \A cl : Judged(events', L + Len(t) + 1, shared, governed, view, cl)
          /\ Knows(events', L + Len(t) + 1, r, Process, shared, governed, view, Asserted(cache[r], call).entry)
          /\ Asserted(cache[r], call).entry.set = cache[r].set
      BY <1>1, <1>3, <1>10, <1>14, <2>1, ScopeStep
    <2> QED
      BY <2>2 DEF found
  <1>16. ASSUME NEW i \in (L + 1)..(L + Len(t)) PROVE Judged(events', i, shared, governed, view, claims')
    BY <1>4, <1>10, <1>11, AsideJudged
  <1>17. ASSUME NEW i \in (L + 1)..Len(events') PROVE Judged(events', i, shared, governed, view, claims')
    <2>1. i = L + Len(t) + 1 \/ i \in (L + 1)..(L + Len(t))
      BY <1>5, <1>8, <1>9, <1>10
    <2> QED
      BY <1>15, <1>16, <2>1
  <1>18. Knows(events', Len(events'), r, 0, shared, governed, view, entry)
    <2>1. Len(events') = L + Len(t) + 1
      BY <1>5, <1>8, <1>9, <1>10
    <2> QED
      BY <1>13, <1>15, <2>1
  <1> HIDE DEF es, entry
  <1>19. phase' = [phase EXCEPT ![r] = "open"]
    BY <1>1, <1>2, SameOpen
  <1>20. /\ Goods(events', shared', governed', view', claims') /\ Told' /\ OpenKnown'
         /\ events' \in Seq(EventRecords) /\ failures' \in [Runs -> Nat]
         /\ \A q \in Runs : q # r => failures'[q] = failures[q]
    BY <1>2, <1>8, <1>13, <1>15, <1>17, <1>18, <1>19, Continues DEF Honest
  <1>21. entry \in Entries
    BY <1>15 DEF Knows
  <1>22. StateType'
    <2>1. cache' \in [Runs -> Entries \cup {NoEntry}]
      BY <1>1, <1>2, <1>21 DEF StateType
    <2>2. flying' \in [Runs -> SUBSET [id : Nat, call : SomeCalls]]
      <3>1. [id |-> spent.steps, call |-> call] \in [id : Nat, call : SomeCalls]
        BY <1>1, <1>3 DEF StateType
      <3> QED
        BY <1>1, <1>2, <3>1 DEF StateType
    <2>3. Spend("steps") /\ UNCHANGED <<fixed, phase, claims, manager, critical, up, clock>>
      BY DEF StartCall
    <2>4. spent' \in [steps : Nat, others : Nat] /\ spent'.others = spent.others
      BY <1>1, <2>3, SpendSteps
    <2> QED
      BY <1>1, <1>20, <2>1, <2>2, <2>3, <2>4 DEF StateType, fixed
  <1>23. Modes'
    BY <1>1, <1>2 DEF Modes, fixed
  <1>24. Kept'
    BY <1>1, <1>2, <1>20 DEF StartCall, Kept, StateType
  <1> QED
    BY <1>20, <1>22, <1>23, <1>24 DEF IInv

LEMMA FinishCallKeeps ==
  ASSUME IInv, NEW r \in Runs, NEW f \in flying[r], FinishCall(r, f)
  PROVE  IInv'
  <1> DEFINE call == f.call
             authorized == r \in claims
             found == EvalContext(cache[r], call.classes, call.explicit, authorized)
             e == Context(r, call, found)
             t == IF adapter = "mcp" /\ call.store THEN <<Memory(r, call)>> ELSE <<>>
             es == <<e>> \o t
             L == Len(events)
             entry == found.entry
  <1>1. /\ StateType /\ Modes /\ Kept /\ Told
    BY DEF IInv
  <1>2. phase[r] = "open" /\ Write(r, es) /\ UNCHANGED fixed
        /\ phase' = phase /\ cache' = [cache EXCEPT ![r] = entry]
        /\ claims' = claims
        /\ flying' = [flying EXCEPT ![r] = @ \ {f}]
    BY <1>1 DEF FinishCall, Kept
  <1>3. call \in SomeCalls /\ call.explicit \in BOOLEAN /\ call.classes \in SUBSET STRING
        /\ authorized \in BOOLEAN
    <2>1. call \in SomeCalls
      BY <1>1 DEF StateType
    <2> QED
      BY <2>1 DEF SomeCalls, ToolCalls
  <1>4. Aside(t, r) /\ Honest(t)
    <2>1. Memory(r, call) \in EventRecords /\ Memory(r, call).run = r
          /\ Memory(r, call).type = "MEMORY_WRITE_ATTEMPT" /\ Memory(r, call).process = Process
      BY <1>1, <1>3, PlainType
    <2>2. Aside(<<Memory(r, call)>>, r) /\ Honest(<<Memory(r, call)>>)
      BY <2>1, AsideOne
    <2> QED
      BY <2>2, AsideNone
  <1>a. authorized <=> r \in claims'
    BY <1>2
  <1> HIDE DEF call, t, authorized
  <1>5. OwnEvents(t, r) /\ Len(t) \in Nat
    BY <1>4 DEF Aside
  <1>6. e \in EventRecords /\ e.run = r /\ e.process = Process /\ e.type = "CONTEXT_SNAPSHOT"
    <2>1. cache[r] \in Entries
      BY <1>2, KnownThen
    <2>2. found.flags \in SUBSET Flags /\ found.violations \in SUBSET Policies
      BY <1>3, <2>1, ContextType
    <2> HIDE DEF found
    <2> QED
      BY <1>1, <1>3, <2>2, ContextEventType
  <1> HIDE DEF found, e
  <1>7. OwnEvents(<<e>>, r) /\ Len(<<e>>) = 1 /\ Honest(<<e>>)
    BY <1>6, OwnOne, HonestOne
  <1>8. OwnEvents(es, r) /\ Len(es) = 1 + Len(t) /\ Honest(es)
    BY <1>4, <1>5, <1>7, OwnConcat, HonestConcat
  <1>9. /\ Len(events') = L + Len(es) /\ \A j \in 1..L : events[j] = events'[j]
        /\ Holds(events', L, es)
    BY <1>1, <1>2, <1>8, WroteType DEF Holds
  <1>10. L \in Nat /\ L + 1 \in Nat /\ shared \in BOOLEAN /\ governed \in BOOLEAN
    BY <1>1, <1>5, LenProperties DEF StateType
  <1>11. Holds(events', L, <<e>>) /\ Holds(events', L + 1, t)
    BY <1>5, <1>7, <1>9, <1>10, HoldsConcat
  <1>12. Alike(events'[L + 1], e)
    BY <1>10, <1>11, HoldsOne
  <1>13. /\ adapter # "hook" /\ Process = 0 /\ cache[r].set
         /\ Knows(events', L, r, Process, shared, governed, view, cache[r])
    BY <1>2, <1>9, KnownThen
  <1>15. /\ Judged(events', L + 1, shared, governed, view, claims')
         /\ Knows(events', L + 1, r, Process, shared, governed, view, entry)
         /\ entry.set = cache[r].set
    <2>1. Alike(events'[L + 1], Context(r, call, EvalContext(cache[r], call.classes, call.explicit, authorized)))
      BY <1>12 DEF e, found
    <2> HIDE DEF L
    <2>2. /\ StateType /\ L \in Nat /\ call.explicit \in BOOLEAN /\ call.classes \in SUBSET STRING
          /\ authorized \in BOOLEAN /\ (authorized <=> r \in claims')
          /\ Knows(events', L, r, Process, shared, governed, view, cache[r])
      BY <1>1, <1>3, <1>a, <1>10, <1>13
    <2>3. Judged(events', L + 1, shared, governed, view, claims')
      BY <2>2, <2>1, ContextStep
    <2>4. /\ Knows(events', L + 1, r, Process, shared, governed, view,
                   EvalContext(cache[r], call.classes, call.explicit, authorized).entry)
          /\ EvalContext(cache[r], call.classes, call.explicit, authorized).entry.set = cache[r].set
      BY <2>2, <2>1, ContextStep
    <2> QED
      BY <2>3, <2>4 DEF found
  <1>16. ASSUME NEW i \in (L + 1 + 1)..(L + 1 + Len(t)) PROVE Judged(events', i, shared, governed, view, claims')
    BY <1>4, <1>10, <1>11, AsideJudged
  <1>17. ASSUME NEW i \in (L + 1)..Len(events') PROVE Judged(events', i, shared, governed, view, claims')
    <2>1. i = L + 1 \/ i \in (L + 1 + 1)..(L + 1 + Len(t))
      BY <1>5, <1>8, <1>9, <1>10
    <2> QED
      BY <1>15, <1>16, <2>1
  <1>18. Knows(events', Len(events'), r, 0, shared, governed, view, entry)
    <2>1. Len(events') = L + 1 + Len(t)
      BY <1>5, <1>8, <1>9, <1>10
    <2>2. Knows(events', L + 1 + Len(t), r, Process, shared, governed, view, entry)
      BY <1>4, <1>10, <1>11, <1>15, AsideKnows
    <2> QED
      BY <1>13, <2>1, <2>2
  <1> HIDE DEF es, entry
  <1>19. phase' = [phase EXCEPT ![r] = "open"]
    BY <1>1, <1>2, SameOpen
  <1>20. /\ Goods(events', shared', governed', view', claims') /\ Told' /\ OpenKnown'
         /\ events' \in Seq(EventRecords) /\ failures' \in [Runs -> Nat]
         /\ \A q \in Runs : q # r => failures'[q] = failures[q]
    BY <1>2, <1>8, <1>13, <1>15, <1>17, <1>18, <1>19, Continues DEF Honest
  <1>21. entry \in Entries
    BY <1>15 DEF Knows
  <1>22. StateType'
    <2>1. cache' \in [Runs -> Entries \cup {NoEntry}]
      BY <1>1, <1>2, <1>21 DEF StateType
    <2>2. flying' \in [Runs -> SUBSET [id : Nat, call : SomeCalls]]
      BY <1>1, <1>2 DEF StateType
    <2>3. UNCHANGED <<fixed, phase, claims, manager, critical, up, clock, spent>>
      BY DEF FinishCall
    <2> QED
      BY <1>1, <1>20, <2>1, <2>2, <2>3 DEF StateType, fixed
  <1>23. Modes'
    BY <1>1, <1>2 DEF Modes, fixed
  <1>24. Kept'
    BY <1>1, <1>2, <1>20 DEF FinishCall, Kept, StateType
  <1> QED
    BY <1>20, <1>22, <1>23, <1>24 DEF IInv

LEMMA ModelTurnKeeps ==
  ASSUME IInv, NEW r \in Runs, ModelTurn(r)
  PROVE  IInv'
  <1> DEFINE t == <<TurnEvent(r)>>
             L == Len(events)
             entry == cache[r]
  <1>1. /\ StateType /\ Modes /\ Kept /\ Told
    BY DEF IInv
  <1>2. adapter # "hook" /\ phase[r] = "open" /\ Write(r, t) /\ UNCHANGED fixed
        /\ phase' = phase /\ cache' = cache /\ claims' = claims
    BY DEF ModelTurn
  <1>3. Aside(t, r) /\ Honest(t)
    BY <1>1, PlainType, AsideOne
  <1> HIDE DEF t
  <1>4. OwnEvents(t, r) /\ Len(t) \in Nat
    BY <1>3 DEF Aside
  <1>5. /\ Len(events') = L + Len(t) /\ \A j \in 1..L : events[j] = events'[j]
        /\ Holds(events', L, t)
    BY <1>1, <1>2, <1>4, WroteType DEF Holds
  <1>6. L \in Nat /\ shared \in BOOLEAN /\ governed \in BOOLEAN
    BY <1>1, LenProperties DEF StateType
  <1>7. /\ Process = 0 /\ entry.set
        /\ Knows(events', L, r, Process, shared, governed, view, entry)
    BY <1>2, <1>5, KnownThen
  <1>8. ASSUME NEW i \in (L + 1)..Len(events') PROVE Judged(events', i, shared, governed, view, claims')
    <2>1. i \in (L + 1)..(L + Len(t))
      BY <1>5
    <2> QED
      BY <1>3, <1>5, <1>6, <2>1, AsideJudged
  <1>9. Knows(events', Len(events'), r, 0, shared, governed, view, entry)
    <2>1. Knows(events', L + Len(t), r, Process, shared, governed, view, entry)
      BY <1>3, <1>5, <1>6, <1>7, AsideKnows
    <2> QED
      BY <1>5, <1>7, <2>1
  <1>10. phase' = [phase EXCEPT ![r] = "open"]
    BY <1>1, <1>2, SameOpen
  <1>11. cache' = [cache EXCEPT ![r] = entry]
    BY <1>1, <1>2 DEF StateType
  <1> HIDE DEF entry
  <1>12. /\ Goods(events', shared', governed', view', claims') /\ Told' /\ OpenKnown'
         /\ events' \in Seq(EventRecords) /\ failures' \in [Runs -> Nat]
         /\ \A q \in Runs : q # r => failures'[q] = failures[q]
    BY <1>2, <1>3, <1>4, <1>7, <1>8, <1>9, <1>10, <1>11, Continues DEF Honest
  <1>13. StateType'
    <2>1. Spend("others") /\ spent.others < MaxOthers[adapter]
          /\ UNCHANGED <<fixed, phase, claims, manager, cache, flying, critical, up, clock>>
      BY DEF ModelTurn
    <2>2. spent' \in [steps : Nat, others : Nat] /\ spent'.others = spent.others + 1
      BY <1>1, <2>1, SpendOthers
    <2>3. MaxOthers[adapter] \in Nat
      BY <1>1, RunAssumption DEF StateType
    <2>4. spent.others \in Nat /\ clock <= spent'.others /\ spent'.others <= MaxOthers[adapter]
      BY <1>1, <2>1, <2>2, <2>3 DEF StateType
    <2> QED
      BY <1>1, <1>12, <2>1, <2>2, <2>4 DEF StateType, fixed
  <1>14. Modes'
    BY <1>1, <1>2 DEF Modes, fixed
  <1>15. Kept'
    BY <1>1, <1>2, <1>12 DEF ModelTurn, Kept, StateType
  <1> QED
    BY <1>12, <1>13, <1>14, <1>15 DEF IInv

-----------------------------------------------------------------------------
(***************************************************************************)
(* Steps that write nothing.                                               *)
(***************************************************************************)
LEMMA OpenFailsKeeps ==
  ASSUME IInv, NEW r \in Runs, OpenFails(r)
  PROVE  IInv'
  <1>1. /\ StateType /\ Modes /\ Kept /\ Told /\ OpenKnown
        /\ Goods(events, shared, governed, view, claims)
    BY DEF IInv
  <1>2. /\ adapter = "pydantic" /\ phase[r] = "idle" /\ phase' = [phase EXCEPT ![r] = "failed"]
        /\ manager' = [manager EXCEPT ![r] = "active"] /\ Spend("steps")
        /\ UNCHANGED <<fixed, claims, cache, flying, failures, events, critical, up, clock>>
    BY DEF OpenFails
  <1>3. spent' \in [steps : Nat, others : Nat] /\ spent'.others = spent.others
    BY <1>1, <1>2, SpendSteps
  <1>4. StateType'
    BY <1>1, <1>2, <1>3 DEF StateType, fixed
  <1>5. Modes'
    BY <1>1, <1>2 DEF Modes, fixed
  <1>6. Kept'
    BY <1>1, <1>2 DEF Kept, StateType
  <1>7. \A q \in Runs : q # r => phase'[q] = phase[q]
    BY <1>1, <1>2 DEF StateType
  <1>8. Told'
    <2>1. \A i \in 1..Len(events) : events[i].run \in Runs
      <3>1. \A i \in 1..Len(events) : events[i] \in EventRecords
        BY <1>1, ElementOfSeq DEF StateType
      <3> QED
        BY <3>1 DEF EventRecords
    <2>2. \A i \in 1..Len(events) : events[i].run # r
      BY <1>1, <1>2 DEF Told
    <2> QED
      BY <1>1, <1>2, <1>7, <2>1, <2>2 DEF Told, fixed
  <1>9. OpenKnown'
    <2>1. phase'[r] = "failed"
      BY <1>1, <1>2 DEF StateType
    <2> QED
      BY <1>1, <1>2, <1>7, <2>1 DEF OpenKnown, fixed
  <1>10. Goods(events', shared', governed', view', claims')
    BY <1>1, <1>2 DEF fixed
  <1> QED
    BY <1>4, <1>5, <1>6, <1>8, <1>9, <1>10 DEF IInv

LEMMA CloseKeeps ==
  ASSUME IInv, NEW r \in Runs, Close(r)
  PROVE  IInv'
  <1>1. /\ StateType /\ Modes /\ Kept /\ Told /\ OpenKnown
        /\ Goods(events, shared, governed, view, claims)
    BY DEF IInv
  <1>2. /\ phase[r] = "open" /\ flying[r] = {} /\ phase' = [phase EXCEPT ![r] = "closed"]
        /\ manager' = [manager EXCEPT ![r] = "closed"] /\ cache' = [cache EXCEPT ![r] = NoEntry]
        /\ critical' \in {critical, critical \cup {r}}
        /\ failures' = (IF adapter = "mcp" THEN [failures EXCEPT ![r] = 0] ELSE failures)
        /\ UNCHANGED <<fixed, claims, flying, events, up, clock, spent>>
    BY DEF Close
  <1>3. \A q \in Runs : q # r => /\ phase'[q] = phase[q] /\ cache'[q] = cache[q]
                                 /\ failures'[q] = failures[q] /\ manager'[q] = manager[q]
    BY <1>1, <1>2 DEF StateType
  <1>4. phase'[r] = "closed" /\ cache'[r] = NoEntry /\ manager'[r] = "closed"
    BY <1>1, <1>2 DEF StateType
  <1>5. StateType'
    <2>1. failures' \in [Runs -> Nat] /\ critical' \subseteq Runs
      BY <1>1, <1>2 DEF StateType
    <2> QED
      BY <1>1, <1>2, <2>1 DEF StateType, fixed
  <1>6. Modes'
    <2>1. adapter # "hook"
      BY <1>1, <1>2 DEF Modes
    <2> QED
      BY <1>1, <1>2, <2>1 DEF Modes, fixed
  <1>7. Kept'
    BY <1>1, <1>2, <1>3, <1>4 DEF Kept
  <1>8. Told'
    <2>1. \A i \in 1..Len(events) : events[i].run \in Runs
      <3>1. \A i \in 1..Len(events) : events[i] \in EventRecords
        BY <1>1, ElementOfSeq DEF StateType
      <3> QED
        BY <3>1 DEF EventRecords
    <2> QED
      BY <1>1, <1>2, <1>3, <1>4, <2>1 DEF Told, fixed
  <1>9. OpenKnown'
    BY <1>1, <1>2, <1>3, <1>4 DEF OpenKnown, fixed
  <1>10. Goods(events', shared', governed', view', claims')
    BY <1>1, <1>2 DEF fixed
  <1> QED
    BY <1>5, <1>6, <1>7, <1>8, <1>9, <1>10 DEF IInv

LEMMA FailCallKeeps ==
  ASSUME IInv, NEW r \in Runs, NEW f \in flying[r], FailCall(r, f)
  PROVE  IInv'
  <1>1. /\ StateType /\ Modes /\ Kept /\ Told /\ OpenKnown
        /\ Goods(events, shared, governed, view, claims)
    BY DEF IInv
  <1>2. /\ flying' = [flying EXCEPT ![r] = @ \ {f}]
        /\ UNCHANGED <<fixed, phase, claims, manager, cache, failures, events, critical, up, clock, spent>>
    BY DEF FailCall
  <1>3. StateType' /\ Kept'
    BY <1>1, <1>2 DEF StateType, Kept, fixed
  <1> QED
    BY <1>1, <1>2, <1>3 DEF IInv, Modes, Told, OpenKnown, fixed

\* Time passes, or the sink's state changes.
LEMMA OtherKeeps ==
  ASSUME IInv, Tick \/ SinkFlips
  PROVE  IInv'
  <1>1. /\ StateType /\ Modes /\ Kept /\ Told /\ OpenKnown
        /\ Goods(events, shared, governed, view, claims)
    BY DEF IInv
  <1>2. /\ spent.others < MaxOthers[adapter] /\ Spend("others")
        /\ UNCHANGED <<fixed, phase, claims, manager, cache, flying, failures, events, critical>>
        /\ \/ clock' = clock + 1 /\ up' = up
           \/ clock' = clock /\ up' = ~up
    BY DEF Tick, SinkFlips
  <1>3. /\ spent' \in [steps : Nat, others : Nat]
        /\ spent'.others = spent.others + 1 /\ spent'.steps = spent.steps
    BY <1>1, <1>2, SpendOthers
  <1>4. StateType'
    <2>1. MaxOthers[adapter] \in Nat /\ spent.others \in Nat /\ clock \in Nat /\ clock <= spent.others
      BY <1>1, RunAssumption DEF StateType
    <2>2. clock' \in Nat /\ clock' <= spent'.others /\ spent'.others <= MaxOthers[adapter]
      BY <1>2, <1>3, <2>1
    <2>3. up' \in BOOLEAN
      BY <1>1, <1>2 DEF StateType
    <2> QED
      BY <1>1, <1>2, <1>3, <2>2, <2>3 DEF StateType, fixed
  <1>5. Told'
    BY <1>1, <1>2, <1>3 DEF Told, fixed
  <1> QED
    BY <1>1, <1>2, <1>4, <1>5 DEF IInv, Modes, Kept, OpenKnown, fixed


-----------------------------------------------------------------------------
(***************************************************************************)
(* A hook is a process of its own.                                         *)
(***************************************************************************)
LEMMA HookFresh ==
  ASSUME IInv, adapter = "hook", NEW r \in Runs, NEW h,
         \A j \in 1..Len(events) : events[j] = h[j]
  PROVE  Of(h, Len(events), r, Process) = {}
  <1>1. Process = spent.steps + 1 /\ spent.steps \in Nat
    BY DEF IInv, StateType, Process
  <1>2. \A j \in 1..Len(events) : events[j].process \in Nat
    <2>1. \A j \in 1..Len(events) : events[j] \in EventRecords
      BY ElementOfSeq DEF IInv, StateType
    <2> QED
      BY <2>1 DEF EventRecords
  <1>3. \A j \in 1..Len(events) : events[j].process # Process
    BY <1>1, <1>2 DEF IInv, Told
  <1> QED
    BY <1>3 DEF Of

LEMMA HookContinues ==
  ASSUME IInv, NEW r \in Runs, NEW es, OwnEvents(es, r), Honest(es), HookWrites(r, es),
         \A i \in (Len(events) + 1)..Len(events') : Judged(events', i, shared, governed, view, claims)
  PROVE  IInv'
  <1> DEFINE L == Len(events)
             M == Len(events')
  <1>1. /\ StateType /\ Modes /\ Kept /\ Told /\ OpenKnown
        /\ Goods(events, shared, governed, view, claims)
    BY DEF IInv
  <1>2. /\ adapter = "hook" /\ Write(r, es) /\ Spend("steps")
        /\ UNCHANGED <<fixed, phase, claims, manager, cache, flying, critical, up, clock>>
    BY DEF HookWrites
  <1>3. /\ spent' \in [steps : Nat, others : Nat]
        /\ spent'.others = spent.others /\ spent'.steps = spent.steps + 1
    BY <1>1, <1>2, SpendSteps
  <1>4. /\ shared \in BOOLEAN /\ governed \in BOOLEAN /\ Process = spent.steps + 1 /\ L \in Nat
        /\ spent.steps \in Nat /\ Inherited(r) = 0 /\ Len(es) \in Nat
        /\ \A i \in 1..L : events[i] \in EventRecords
    BY <1>1, <1>2, LenProperties, ElementOfSeq DEF StateType, Process, Inherited, OwnEvents
  <1>5. /\ events' \in Seq(EventRecords) /\ M = L + Len(es)
        /\ \A j \in 1..L : events[j] = events'[j]
        /\ \A k \in 1..Len(es) : Alike(events'[L + k], es[k])
    BY <1>1, <1>2, WroteType
  <1>6. M \in Nat /\ L <= M
    BY <1>4, <1>5
  <1>7. Counts(events, L, r, Process, Inherited(r))
    <2>1. Of(events, L, r, Process) = {}
      BY <1>2, HookFresh
    <2> QED
      BY <1>4, <2>1, Fresh
  <1>8. \A i \in (L + 1)..M : SeverityAt(events', i)
    BY <1>1, <1>2, <1>7, WroteCounts
  <1>9. Goods(events', shared, governed, view, claims)
    <2>1. \A i \in (L + 1)..M : Judged(events', i, shared, governed, view, claims) /\ SeverityAt(events', i)
      BY <1>8
    <2>2. /\ Len(events) \in Nat /\ Len(events') \in Nat /\ Len(events) <= Len(events')
          /\ \A j \in 1..Len(events) : events[j] = events'[j]
          /\ \A i \in 1..Len(events) : events[i].run \in claims <=> events[i].run \in claims
      BY <1>4, <1>5, <1>6
    <2> QED
      BY <1>1, <1>4, <2>1, <2>2, GoodsGrow
  <1>10. ASSUME NEW i \in (L + 1)..M
         PROVE  /\ events'[i].process = Process
                /\ events'[i].type = "INTENT_DECLARED" /\ events'[i].explicit => events'[i].objective
    <2> DEFINE k == i - L
    <2>1. k \in 1..Len(es) /\ L + k = i
      BY <1>4, <1>5
    <2>2. Alike(events'[i], es[k])
      BY <1>5, <2>1
    <2>3. es[k].process = Process
      BY <2>1 DEF OwnEvents
    <2> HIDE DEF k
    <2> QED
      BY <2>1, <2>2, <2>3 DEF Alike, Honest
  <1>11. 1..M = (1..L) \cup ((L + 1)..M)
    BY <1>4, <1>6
  <1>12. Told'
    <2>1. ASSUME NEW i \in 1..L
          PROVE  /\ events'[i].type = "INTENT_DECLARED" /\ events'[i].explicit => events'[i].objective
                 /\ events'[i].process <= spent'.steps
      <3>1. events'[i] = events[i] /\ events[i].process \in Nat
        BY <1>4, <1>5 DEF EventRecords
      <3>2. events[i].process <= spent.steps
        BY <1>1, <1>2 DEF Told
      <3> QED
        BY <1>1, <1>3, <1>4, <3>1, <3>2 DEF Told
    <2>2. adapter' = "hook"
      BY <1>2 DEF fixed
    <2> HIDE DEF L, M
    <2>3. \A i \in 1..M :
             /\ events'[i].type = "INTENT_DECLARED" /\ events'[i].explicit => events'[i].objective
             /\ events'[i].process <= spent'.steps
      BY <1>3, <1>4, <1>10, <1>11, <2>1
    <2> QED
      BY <2>2, <2>3 DEF Told, M
  <1>13. failures' = [failures EXCEPT ![r] = 0]
    BY <1>2 DEF Write
  <1>14. StateType'
    <2>1. failures' \in [Runs -> Nat]
      BY <1>1, <1>13 DEF StateType
    <2> QED
      BY <1>1, <1>2, <1>3, <1>5, <2>1 DEF StateType, fixed
  <1>15. Modes'
    BY <1>1, <1>2 DEF Modes, fixed
  <1>16. Kept'
    BY <1>1, <1>2, <1>13 DEF Kept, StateType
  <1>17. OpenKnown'
    BY <1>1, <1>2 DEF OpenKnown, Modes
  <1>18. Goods(events', shared', governed', view', claims')
    BY <1>2, <1>9 DEF fixed
  <1> QED
    BY <1>12, <1>14, <1>15, <1>16, <1>17, <1>18 DEF IInv

LEMMA ArrivalOwn ==
  ASSUME StateType, NEW r \in Runs
  PROVE  /\ OwnEvents(Arrival(r).events, r) /\ Honest(Arrival(r).events)
         /\ Len(Arrival(r).events) \in Nat
  <1> DEFINE a == Registration(r)
             b == Intent(r, FALSE, FALSE, HookHints)
  <1>1. CASE Resumed(r)
    <2>1. Arrival(r).events = <<>>
      BY <1>1 DEF Arrival
    <2>2. Aside(<<>>, r) /\ Honest(<<>>) /\ Len(<<>>) = 0
      BY AsideNone
    <2> QED
      BY <2>1, <2>2 DEF Aside
  <1>2. CASE ~Resumed(r)
    <2>1. a \in EventRecords /\ a.run = r /\ a.type = "AGENT_REGISTERED" /\ a.process = Process
      BY RegistrationType
    <2>2. b \in EventRecords /\ b.run = r /\ b.process = Process /\ ~b.explicit
      <3> DEFINE no == FALSE
                 hints == HookHints
      <3>1. no \in BOOLEAN /\ hints \in SUBSET Hints
        BY DEF HookHints
      <3> HIDE DEF no, hints
      <3>2. LET e == Intent(r, no, no, hints)
            IN e \in EventRecords /\ e.run = r /\ e.process = Process /\ e.explicit = no
        BY <3>1, IntentType
      <3> QED
        BY <3>2 DEF no, hints
    <2>3. Arrival(r).events = <<a, b>>
      BY <1>2 DEF Arrival
    <2> HIDE DEF a, b
    <2>4. OwnEvents(<<a, b>>, r) /\ Len(<<a, b>>) = 2
      BY <2>1, <2>2, OwnTwo
    <2>5. Honest(<<a, b>>)
      BY <2>1, <2>2 DEF Honest
    <2> QED
      BY <2>3, <2>4, <2>5
  <1> QED
    BY <1>1, <1>2

\* A process reads back what its session has declared, or registers it.
LEMMA ReadsBack ==
  ASSUME IInv, adapter = "hook", NEW r \in Runs, NEW h,
         \A j \in 1..Len(events) : events[j] = h[j]
  PROVE  Knows(h, Len(events), r, Process, shared, governed, view, Rehydrated(r))
  <1> DEFINE L == Len(events)
             D == DeclaredIn(r)
             entry == Rehydrated(r)
  <1>1. /\ StateType /\ Told /\ shared \in BOOLEAN /\ governed \in BOOLEAN
        /\ L \in Nat /\ DOMAIN events = 1..L
        /\ \A i \in 1..L : events[i] \in EventRecords
    BY LenProperties, ElementOfSeq DEF IInv, StateType
  <1>2. Of(h, L, r, Process) = {}
    BY HookFresh
  <1>3. D = Heard(h, L, r, shared) /\ D \in SUBSET Nat /\ D \in SUBSET (1..L)
    BY <1>1 DEF DeclaredIn, Heard
  <1>4. BasisOf(h, L, r, Process, shared) = IF D = {} THEN Nothing ELSE h[Min(D)]
    <2>1. OfType(h, L, r, Process, "INTENT_DECLARED") = {}
      BY <1>2 DEF OfType
    <2> QED
      BY <1>3, <2>1 DEF BasisOf
  <1>5. Past(h, L, r, Process, governed, view, NewEntry)
    BY <1>1, <1>2, FreshPast
  <1>6. CASE D = {}
    <2>1. entry = NewEntry
      BY <1>6 DEF Rehydrated
    <2>2. Base(h, L, r, Process, shared, NewEntry)
      BY <1>4, <1>6 DEF Base, NewEntry, Nothing
    <2> QED
      BY <1>5, <2>1, <2>2, NewEntryType DEF Knows
  <1>7. CASE D # {}
    <2> DEFINE k == Min(D)
    <2>1. k \in D
      <3> HIDE DEF D
      <3> QED
        BY <1>3, <1>7, MinIn
    <2>2. k \in 1..L /\ events[k] = h[k] /\ events[k].hints \in SUBSET Hints
          /\ events[k].objective = TRUE
      <3>1. k \in 1..L
        BY <1>3, <2>1
      <3> HIDE DEF k
      <3>2. events[k].type = "INTENT_DECLARED" /\ events[k].explicit
        BY <2>1 DEF DeclaredIn
      <3>3. events[k] \in EventRecords /\ events[k].objective
        BY <1>1, <3>1, <3>2 DEF Told
      <3> QED
        BY <3>1, <3>3 DEF EventRecords
    <2>3. entry = WithBaseline(NewEntry, TRUE, events[k].hints)
      BY <1>7 DEF Rehydrated
    <2>4. NewEntry # NoEntry
      BY NewEntryType, EntryType
    <2>5. /\ entry.set = TRUE /\ entry.objective = TRUE /\ entry.hints = events[k].hints
          /\ entry.fired = NewEntry.fired /\ entry.last = NewEntry.last /\ entry.tier = NewEntry.tier
      <3> HIDE DEF k
      <3> QED
        BY <2>3, <2>4 DEF WithBaseline, NewEntry
    <2>6. entry \in Entries
      <3> DEFINE yes == TRUE
                 hints == events[k].hints
      <3>1. yes \in BOOLEAN /\ hints \in SUBSET Hints
        BY <2>2
      <3> HIDE DEF yes, hints
      <3>2. WithBaseline(NewEntry, yes, hints) \in Entries
        BY <3>1, NewEntryType, EntryType
      <3> QED
        BY <2>3, <3>2 DEF yes, hints
    <2>7. Base(h, L, r, Process, shared, entry)
      <3>1. BasisOf(h, L, r, Process, shared) = h[k]
        BY <1>4, <1>7
      <3> HIDE DEF k, entry
      <3> QED
        BY <2>2, <2>5, <3>1 DEF Base
    <2>8. Past(h, L, r, Process, governed, view, entry)
      <3> HIDE DEF k, entry
      <3> QED
        BY <1>5, <2>5 DEF Past
    <2> QED
      BY <2>6, <2>7, <2>8 DEF Knows
  <1> QED
    BY <1>6, <1>7

LEMMA Arrives ==
  ASSUME IInv, adapter = "hook", NEW r \in Runs, NEW h,
         \A j \in 1..Len(events) : events[j] = h[j], Holds(h, Len(events), Arrival(r).events)
  PROVE  /\ \A cl : \A i \in (Len(events) + 1)..(Len(events) + Len(Arrival(r).events)) :
              Judged(h, i, shared, governed, view, cl)
         /\ Knows(h, Len(events) + Len(Arrival(r).events), r, Process, shared, governed, view,
                  Arrival(r).entry)
  <1> DEFINE L == Len(events)
  <1>1. StateType /\ L \in Nat /\ shared \in BOOLEAN /\ governed \in BOOLEAN
    BY LenProperties DEF IInv, StateType
  <1>2. CASE Resumed(r)
    <2>1. Arrival(r).events = <<>> /\ Arrival(r).entry = Rehydrated(r)
      BY <1>2 DEF Arrival
    <2>2. L + Len(Arrival(r).events) = L
      BY <1>1, <2>1
    <2>3. Knows(h, L, r, Process, shared, governed, view, Rehydrated(r))
      BY ReadsBack
    <2>4. (L + 1)..L = {}
      BY <1>1
    <2> QED
      BY <2>1, <2>2, <2>3, <2>4
  <1>3. CASE ~Resumed(r)
    <2> DEFINE no == FALSE
               hints == HookHints
    <2>1. /\ Arrival(r).events = <<Registration(r), Intent(r, no, no, hints)>>
          /\ Arrival(r).entry = WithBaseline(NewEntry, no, hints)
      BY <1>3 DEF Arrival
    <2>2. no \in BOOLEAN /\ hints \in SUBSET Hints
      BY DEF HookHints
    <2>3. Of(h, L, r, Process) = {}
      BY HookFresh
    <2> HIDE DEF no, hints, L
    <2>4. Len(Arrival(r).events) = 2
      BY <2>1
    <2>5. Holds(h, L, <<Registration(r), Intent(r, no, no, hints)>>)
      BY <2>1 DEF L
    <2>6. Alike(h[L + 1], Registration(r)) /\ Alike(h[L + 2], Intent(r, no, no, hints))
      BY <1>1, <2>5, HoldsTwo
    <2>7. \A cl : Judged(h, L + 1, shared, governed, view, cl) /\ Judged(h, L + 2, shared, governed, view, cl)
      BY <1>1, <2>2, <2>3, <2>6, OpensStep
    <2>8. Knows(h, L + 2, r, Process, shared, governed, view, WithBaseline(NewEntry, no, hints))
      BY <1>1, <2>2, <2>3, <2>6, OpensStep
    <2>9. \A i \in (L + 1)..(L + 2) : i = L + 1 \/ i = L + 2
      BY <1>1
    <2>10. \A cl : \A i \in (L + 1)..(L + 2) : Judged(h, i, shared, governed, view, cl)
      BY <2>7, <2>9
    <2> QED
      BY <2>1, <2>4, <2>8, <2>10 DEF L
  <1> QED
    BY <1>2, <1>3

LEMMA ArrivalEntry ==
  ASSUME IInv, adapter = "hook", NEW r \in Runs
  PROVE  Arrival(r).entry \in Entries
  <1>1. CASE Resumed(r)
    <2>1. Knows(events, Len(events), r, Process, shared, governed, view, Rehydrated(r))
      BY ReadsBack
    <2> QED
      BY <1>1, <2>1 DEF Arrival, Knows
  <1>2. CASE ~Resumed(r)
    <2> DEFINE no == FALSE
               hints == HookHints
    <2>1. Arrival(r).entry = WithBaseline(NewEntry, no, hints) /\ no \in BOOLEAN /\ hints \in SUBSET Hints
      BY <1>2 DEF Arrival, HookHints
    <2> HIDE DEF no, hints
    <2> QED
      BY <2>1, NewEntryType, EntryType
  <1> QED
    BY <1>1, <1>2

\* What a hook writes, and what is known where its own event comes.
LEMMA ArrivesWith ==
  ASSUME IInv, adapter = "hook", NEW r \in Runs, NEW h,
         \A j \in 1..Len(events) : events[j] = h[j],
         NEW t, OwnEvents(t, r), Holds(h, Len(events), Arrival(r).events \o t)
  PROVE  LET n == Len(events) + Len(Arrival(r).events)
         IN /\ n \in Nat
            /\ Holds(h, n, t)
            /\ \A cl : \A i \in (Len(events) + 1)..n : Judged(h, i, shared, governed, view, cl)
            /\ Knows(h, n, r, Process, shared, governed, view, Arrival(r).entry)
  <1> DEFINE a == Arrival(r).events
  <1>1. StateType /\ Len(events) \in Nat
    BY LenProperties DEF IInv, StateType
  <1>2. OwnEvents(a, r) /\ Len(a) \in Nat
    BY <1>1, ArrivalOwn
  <1>3. Holds(h, Len(events), a) /\ Holds(h, Len(events) + Len(a), t)
    <2> HIDE DEF a
    <2>1. Holds(h, Len(events), a \o t)
      BY DEF a
    <2> QED
      BY <1>1, <1>2, <2>1, HoldsConcat
  <1>4. Len(events) + Len(a) \in Nat
    BY <1>1, <1>2
  <1>5. /\ \A cl : \A i \in (Len(events) + 1)..(Len(events) + Len(a)) : Judged(h, i, shared, governed, view, cl)
        /\ Knows(h, Len(events) + Len(a), r, Process, shared, governed, view, Arrival(r).entry)
    BY <1>3, Arrives
  <1> QED
    BY <1>3, <1>4, <1>5

LEMMA SessionEndKeeps ==
  ASSUME IInv, NEW r \in Runs, SessionEnd(r)
  PROVE  IInv'
  <1> DEFINE a == Arrival(r).events
             t == <<TurnEvent(r)>>
             es == a \o t
             L == Len(events)
             n == L + Len(a)
  <1>1. StateType /\ HookWrites(r, es) /\ adapter = "hook" /\ Write(r, es)
    BY DEF SessionEnd, HookWrites, IInv
  <1>2. OwnEvents(a, r) /\ Len(a) \in Nat /\ Honest(a)
    BY <1>1, ArrivalOwn
  <1>3. Aside(t, r) /\ Honest(t)
    BY <1>1, PlainType, AsideOne
  <1> HIDE DEF t
  <1>4. OwnEvents(t, r) /\ Len(t) \in Nat
    BY <1>3 DEF Aside
  <1>5. OwnEvents(es, r) /\ Len(es) = Len(a) + Len(t) /\ Honest(es)
    <2> HIDE DEF a
    <2> QED
      BY <1>2, <1>3, <1>4, OwnConcat, HonestConcat
  <1>6. /\ Len(events') = L + Len(es) /\ \A j \in 1..L : events[j] = events'[j]
        /\ Holds(events', L, es)
    <2> HIDE DEF es
    <2> QED
      BY <1>1, <1>5, WroteType DEF Holds
  <1>7. /\ n \in Nat /\ Holds(events', n, t)
        /\ \A cl : \A i \in (L + 1)..n : Judged(events', i, shared, governed, view, cl)
    BY <1>1, <1>4, <1>6, ArrivesWith
  <1>8. L \in Nat /\ shared \in BOOLEAN /\ governed \in BOOLEAN
    BY <1>1, LenProperties DEF StateType
  <1> HIDE DEF n
  <1>9. ASSUME NEW i \in (n + 1)..(n + Len(t)) PROVE Judged(events', i, shared, governed, view, claims)
    BY <1>3, <1>7, <1>8, AsideJudged
  <1> HIDE DEF a, es
  <1>10. \A i \in (L + 1)..Len(events') : i \in (L + 1)..n \/ i \in (n + 1)..(n + Len(t))
    BY <1>2, <1>4, <1>5, <1>6, <1>7, <1>8 DEF n
  <1>11. \A i \in (L + 1)..Len(events') : Judged(events', i, shared, governed, view, claims)
    BY <1>7, <1>9, <1>10
  <1> QED
    BY <1>1, <1>5, <1>11, HookContinues

LEMMA DeclareKeeps ==
  ASSUME IInv, NEW r \in Runs, NEW d \in Declarations, Declare(r, d)
  PROVE  IInv'
  <1> DEFINE yes == TRUE
             hints == d.hints
             e == Intent(r, yes, yes, hints)
             es == <<e>>
             L == Len(events)
  <1>1. StateType /\ HookWrites(r, es) /\ adapter = "hook" /\ Write(r, es)
    BY DEF Declare, HookWrites, IInv
  <1>2. e \in EventRecords /\ e.run = r /\ e.process = Process /\ e.type = "INTENT_DECLARED"
        /\ e.explicit = yes /\ e.objective = yes
    <2>1. yes \in BOOLEAN /\ hints \in SUBSET Hints
      BY RunAssumption
    <2> HIDE DEF yes, hints
    <2> QED
      BY <1>1, <2>1, IntentType
  <1> HIDE DEF e
  <1>3. OwnEvents(es, r) /\ Len(es) = 1
    BY <1>2, OwnOne
  <1>4. Honest(es)
    BY <1>2 DEF Honest
  <1> HIDE DEF es
  <1>5. /\ Len(events') = L + Len(es) /\ \A j \in 1..L : events[j] = events'[j]
        /\ Holds(events', L, es)
    BY <1>1, <1>3, WroteType DEF Holds
  <1>6. L \in Nat /\ shared \in BOOLEAN /\ governed \in BOOLEAN
    BY <1>1, LenProperties DEF StateType
  <1>7. events'[L + 1].type = "INTENT_DECLARED"
    <2>1. Alike(events'[L + 1], e)
      BY <1>5, <1>6, HoldsOne DEF es
    <2> QED
      BY <1>2, <2>1 DEF Alike
  <1>8. Judged(events', L + 1, shared, governed, view, claims)
    <2>1. events'[L + 1].type # "SCOPE_ASSERTED" /\ events'[L + 1].type # "CONTEXT_SNAPSHOT"
      BY <1>7
    <2> HIDE DEF L
    <2> QED
      BY <1>6, <2>1, PlainJudged
  <1>9. \A i \in (L + 1)..Len(events') : Judged(events', i, shared, governed, view, claims)
    BY <1>3, <1>5, <1>6, <1>8
  <1> QED
    BY <1>1, <1>3, <1>4, <1>9, HookContinues

\* The snapshot a hook takes of a result it does not classify.
LEMMA PostToolUseKeeps ==
  ASSUME IInv, NEW r \in Runs, PostToolUse(r)
  PROVE  IInv'
  <1> DEFINE a == Arrival(r).events
             entry == Arrival(r).entry
             authorized == FALSE
             call == Blank
             found == EvalContext(entry, call.classes, call.explicit, authorized)
             e == Context(r, call, found)
             t == <<e>>
             es == a \o t
             L == Len(events)
             n == L + Len(a)
  <1>1. StateType /\ HookWrites(r, es) /\ adapter = "hook" /\ Write(r, es) /\ claims = {}
    BY DEF PostToolUse, HookWrites, IInv, Blank, Modes
  <1>2. OwnEvents(a, r) /\ Len(a) \in Nat /\ Honest(a)
    BY <1>1, ArrivalOwn
  <1>3. /\ call.explicit \in BOOLEAN /\ call.classes \in SUBSET STRING /\ authorized \in BOOLEAN
        /\ (authorized <=> r \in claims)
    BY <1>1 DEF Blank
  <1>4. entry \in Entries
    BY <1>1, ArrivalEntry
  <1> HIDE DEF call, authorized, entry
  <1>5. e \in EventRecords /\ e.run = r /\ e.process = Process /\ e.type = "CONTEXT_SNAPSHOT"
    <2>1. found.flags \in SUBSET Flags /\ found.violations \in SUBSET Policies
      BY <1>3, <1>4, ContextType
    <2> HIDE DEF found
    <2> QED
      BY <1>1, <1>3, <2>1, ContextEventType
  <1> HIDE DEF found, e
  <1>6. OwnEvents(t, r) /\ Len(t) = 1 /\ Honest(t)
    BY <1>5, OwnOne, HonestOne
  <1>7. OwnEvents(es, r) /\ Len(es) = Len(a) + 1 /\ Honest(es)
    <2> HIDE DEF a, t
    <2>1. OwnEvents(a, r) /\ OwnEvents(t, r) /\ Honest(a) /\ Honest(t)
      BY <1>2, <1>6
    <2>2. OwnEvents(a \o t, r) /\ Len(a \o t) = Len(a) + Len(t)
      BY <2>1, OwnConcat
    <2>3. Honest(a \o t)
      BY <2>1, HonestConcat
    <2> QED
      BY <1>6, <2>2, <2>3
  <1> HIDE DEF t
  <1>8. /\ Len(events') = L + Len(es) /\ \A j \in 1..L : events[j] = events'[j]
        /\ Holds(events', L, es)
    <2> HIDE DEF es
    <2> QED
      BY <1>1, <1>7, WroteType DEF Holds
  <1>9. /\ n \in Nat /\ Holds(events', n, t)
        /\ \A cl : \A i \in (L + 1)..n : Judged(events', i, shared, governed, view, cl)
        /\ Knows(events', n, r, Process, shared, governed, view, entry)
    BY <1>1, <1>6, <1>8, ArrivesWith DEF entry
  <1> HIDE DEF n, a, es
  <1>10. Alike(events'[n + 1], Context(r, call, EvalContext(entry, call.classes, call.explicit, authorized)))
    BY <1>9, HoldsOne DEF t, e, found
  <1>11. Judged(events', n + 1, shared, governed, view, claims)
    BY <1>1, <1>3, <1>9, <1>10, ContextStep
  <1>12. \A i \in (L + 1)..Len(events') : i \in (L + 1)..n \/ i = n + 1
    <2>1. L \in Nat
      BY <1>1, LenProperties DEF StateType
    <2>2. Len(events') = n + 1
      BY <1>2, <1>7, <1>8, <2>1 DEF n
    <2> QED
      BY <1>9, <2>1, <2>2
  <1>13. \A i \in (L + 1)..Len(events') : Judged(events', i, shared, governed, view, claims)
    BY <1>9, <1>11, <1>12
  <1> QED
    BY <1>1, <1>7, <1>13, HookContinues

LEMMA PreToolUseKeeps ==
  ASSUME IInv, NEW r \in Runs, NEW c \in Calls, PreToolUse(r, c)
  PROVE  IInv'
  <1> DEFINE a == Arrival(r).events
             entry == Arrival(r).entry
             call == Seen(c)
             authorized == FALSE
             found == Asserted(entry, call)
             after == found.entry
             told == EvalContext(after, call.classes, call.explicit, authorized)
             x == Scope(r, call, found)
             y == Context(r, call, told)
             t == <<x, y>>
             m == IF call.store /\ call.op \in {"WRITE", "DELETE"} THEN <<Memory(r, call)>> ELSE <<>>
             b == a \o t
             es == b \o m
             L == Len(events)
             n == L + Len(a)
  <1>1. StateType /\ adapter = "hook" /\ claims = {}
    BY DEF PreToolUse, HookWrites, IInv, Modes
  <1>2. call \in SomeCalls /\ call.classes = {} /\ call.explicit = FALSE
    <2>1. c \in SomeCalls /\ adapter \in {"mcp", "pydantic", "hook"}
      BY <1>1, RunAssumption DEF SomeCalls
    <2> QED
      BY <1>1, <2>1, CallType
  <1>3. told = EvalContext(after, {}, FALSE, FALSE)
    BY <1>2
  <1>4. HookWrites(r, es) /\ Write(r, es)
    BY <1>3 DEF PreToolUse, HookWrites
  <1>5. /\ call.explicit \in BOOLEAN /\ call.classes \in SUBSET STRING /\ authorized \in BOOLEAN
        /\ (authorized <=> r \in claims)
    BY <1>1, <1>2
  <1>6. OwnEvents(a, r) /\ Len(a) \in Nat /\ Honest(a)
    BY <1>1, ArrivalOwn
  <1>7. entry \in Entries
    BY <1>1, ArrivalEntry
  <1>8. Aside(m, r) /\ Honest(m)
    <2>1. Memory(r, call) \in EventRecords /\ Memory(r, call).run = r
          /\ Memory(r, call).type = "MEMORY_WRITE_ATTEMPT" /\ Memory(r, call).process = Process
      <3> HIDE DEF call
      <3> QED
        BY <1>1, <1>2, PlainType
    <2>2. Aside(<<Memory(r, call)>>, r) /\ Honest(<<Memory(r, call)>>)
      <3> HIDE DEF call
      <3> QED
        BY <2>1, AsideOne
    <2> QED
      BY <2>2, AsideNone
  <1> HIDE DEF call, authorized, entry, m
  <1>9. /\ found.flags \in SUBSET Flags /\ found.violations \in SUBSET Policies
        /\ after \in Entries
    <2>1. found = ScopeFindings(governed, view, entry, call, clock)
      BY DEF Asserted
    <2>2. view.depth \in Nat \ {0} /\ governed \in BOOLEAN /\ clock \in Nat
      BY <1>1, ViewType DEF StateType
    <2> QED
      BY <1>2, <1>7, <2>1, <2>2, ScopeType
  <1>10. x \in EventRecords /\ x.run = r /\ x.process = Process /\ x.type = "SCOPE_ASSERTED"
    <2> HIDE DEF found
    <2> QED
      BY <1>1, <1>2, <1>9, ScopeEventType
  <1> HIDE DEF found, after, x
  <1>11. y \in EventRecords /\ y.run = r /\ y.process = Process /\ y.type = "CONTEXT_SNAPSHOT"
    <2>1. told.flags \in SUBSET Flags /\ told.violations \in SUBSET Policies
      BY <1>5, <1>9, ContextType
    <2> HIDE DEF told
    <2> QED
      BY <1>1, <1>5, <2>1, ContextEventType
  <1> HIDE DEF told, y
  <1>12. OwnEvents(t, r) /\ Len(t) = 2
    BY <1>10, <1>11, OwnTwo
  <1>13. Honest(t)
    BY <1>10, <1>11 DEF Honest
  <1> HIDE DEF t
  <1>14. OwnEvents(m, r) /\ Len(m) \in Nat
    BY <1>8 DEF Aside
  <1>15. OwnEvents(b, r) /\ Len(b) = Len(a) + 2 /\ Honest(b)
    <2> HIDE DEF a
    <2>1. OwnEvents(a \o t, r) /\ Len(a \o t) = Len(a) + Len(t)
      BY <1>6, <1>12, OwnConcat
    <2>2. Honest(a \o t)
      BY <1>6, <1>12, <1>13, HonestConcat
    <2> QED
      BY <1>12, <2>1, <2>2
  <1>16. OwnEvents(es, r) /\ Len(es) = Len(b) + Len(m) /\ Honest(es)
    <2> HIDE DEF b
    <2> QED
      BY <1>8, <1>14, <1>15, OwnConcat, HonestConcat
  <1>17. L \in Nat /\ shared \in BOOLEAN /\ governed \in BOOLEAN
    BY <1>1, LenProperties DEF StateType
  <1>18. /\ Len(events') = L + Len(es) /\ \A j \in 1..L : events[j] = events'[j]
         /\ Holds(events', L, es)
    <2> HIDE DEF es
    <2> QED
      BY <1>1, <1>4, <1>16, WroteType DEF Holds
  <1>19. Holds(events', L, b) /\ Holds(events', L + Len(b), m)
    <2> HIDE DEF b
    <2> QED
      BY <1>14, <1>15, <1>17, <1>18, HoldsConcat
  <1>20. /\ n \in Nat /\ Holds(events', n, t)
         /\ \A cl : \A i \in (L + 1)..n : Judged(events', i, shared, governed, view, cl)
         /\ Knows(events', n, r, Process, shared, governed, view, entry)
    BY <1>1, <1>12, <1>18, <1>19, ArrivesWith DEF entry
  <1>21. L + Len(b) = n + 2 /\ n + 2 \in Nat /\ n + 1 \in Nat /\ n + 1 + 1 = n + 2
         /\ Len(events') = n + 2 + Len(m)
    BY <1>6, <1>14, <1>15, <1>16, <1>17, <1>18
  <1> HIDE DEF n, a, b, es, L
  <1>22. Alike(events'[n + 1], x) /\ Alike(events'[n + 2], y)
    BY <1>20, HoldsTwo DEF t
  <1>23. /\ Judged(events', n + 1, shared, governed, view, claims)
         /\ Knows(events', n + 1, r, Process, shared, governed, view, after)
    <2>1. Alike(events'[n + 1], Scope(r, call, Asserted(entry, call)))
      BY <1>22 DEF x, found
    <2>2. /\ Judged(events', n + 1, shared, governed, view, claims)
          /\ Knows(events', n + 1, r, Process, shared, governed, view, Asserted(entry, call).entry)
      BY <1>1, <1>2, <1>20, <2>1, ScopeStep
    <2> QED
      BY <2>2 DEF after, found
  <1>24. Judged(events', n + 2, shared, governed, view, claims)
    <2>1. Alike(events'[n + 1 + 1],
                Context(r, call, EvalContext(after, call.classes, call.explicit, authorized)))
      BY <1>21, <1>22 DEF y, told
    <2>2. Judged(events', n + 1 + 1, shared, governed, view, claims)
      BY <1>1, <1>5, <1>21, <1>23, <2>1, ContextStep
    <2> QED
      BY <1>21, <2>2
  <1>25. ASSUME NEW i \in (n + 2 + 1)..(n + 2 + Len(m)) PROVE Judged(events', i, shared, governed, view, claims)
    <2>1. Holds(events', n + 2, m)
      BY <1>19, <1>21
    <2> QED
      BY <1>8, <1>17, <1>21, <2>1, AsideJudged
  <1>26. \A i \in (L + 1)..Len(events') :
           i \in (L + 1)..n \/ i = n + 1 \/ i = n + 2 \/ i \in (n + 2 + 1)..(n + 2 + Len(m))
    BY <1>14, <1>17, <1>20, <1>21
  <1>27. \A i \in (L + 1)..Len(events') : Judged(events', i, shared, governed, view, claims)
    BY <1>20, <1>23, <1>24, <1>25, <1>26
  <1> QED
    BY <1>4, <1>16, <1>27, HookContinues DEF L

-----------------------------------------------------------------------------
(***************************************************************************)
(* Every behaviour.                                                        *)
(***************************************************************************)
LEMMA InitKnown ==
  ASSUME Init
  PROVE  IInv
  <1>1. events = <<>> /\ Len(<<>>) = 0 /\ 1..0 = {} /\ <<>> \in Seq(EventRecords)
    BY DEF Init
  <1>2. StateType
    <2>1. governed \in BOOLEAN
      BY DEF Init, IsGoverned, Usable, Admitted
    <2>2. shared \in BOOLEAN
      BY RunAssumption DEF Init
    <2>3. /\ adapter \in Adapters /\ profile \in Profiles /\ up \in BOOLEAN
          /\ view = View(Merge(profile))
      BY DEF Init
    <2>4. /\ phase \in [Runs -> {"idle", "open", "closed", "failed"}]
          /\ manager \in [Runs -> {"none", "active", "closed"}]
          /\ cache \in [Runs -> Entries \cup {NoEntry}]
          /\ flying \in [Runs -> SUBSET [id : Nat, call : SomeCalls]]
          /\ failures \in [Runs -> Nat] /\ claims \subseteq Runs /\ critical \subseteq Runs
      BY DEF Init
    <2>5. spent \in [steps : Nat, others : Nat] /\ spent.others = 0 /\ clock = 0
      BY DEF Init
    <2>6. MaxOthers[adapter] \in Nat
      BY <2>3, RunAssumption
    <2> QED
      BY <1>1, <2>1, <2>2, <2>3, <2>4, <2>5, <2>6 DEF StateType
  <1>3. Modes
    BY DEF Init, Modes
  <1>4. Kept
    BY DEF Init, Kept
  <1>5. Told /\ Goods(events, shared, governed, view, claims)
    BY <1>1 DEF Told, Goods
  <1>6. OpenKnown
    BY DEF Init, OpenKnown
  <1> QED
    BY <1>2, <1>3, <1>4, <1>5, <1>6 DEF IInv

LEMMA NextKeeps ==
  ASSUME IInv, Next
  PROVE  IInv'
  <1>1. ASSUME NEW r \in Runs, NEW d \in Declarations, StartMcp(r, d) \/ OpenPydantic(r, d) \/ Declare(r, d)
        PROVE  IInv'
    BY <1>1, StartMcpKeeps, OpenPydanticKeeps, DeclareKeeps
  <1>2. ASSUME NEW r \in Runs, OpenFails(r) \/ Close(r) \/ ModelTurn(r) \/ PostToolUse(r) \/ SessionEnd(r)
        PROVE  IInv'
    BY <1>2, OpenFailsKeeps, CloseKeeps, ModelTurnKeeps, PostToolUseKeeps, SessionEndKeeps
  <1>3. ASSUME NEW r \in Runs, NEW c \in Calls, StartCall(r, c) \/ PreToolUse(r, c)
        PROVE  IInv'
    BY <1>3, StartCallKeeps, PreToolUseKeeps
  <1>4. ASSUME NEW r \in Runs, NEW f \in flying[r], FinishCall(r, f) \/ FailCall(r, f)
        PROVE  IInv'
    BY <1>4, FinishCallKeeps, FailCallKeeps
  <1>5. ASSUME Tick \/ SinkFlips PROVE IInv'
    BY <1>5, OtherKeeps
  <1> QED
    BY <1>1, <1>2, <1>3, <1>4, <1>5 DEF Next

LEMMA StutterKeeps ==
  ASSUME IInv, UNCHANGED vars
  PROVE  IInv'
  BY DEF IInv, StateType, Modes, Kept, Told, OpenKnown, vars

LEMMA Invariance == Spec => []IInv
  <1>1. IInv /\ [Next]_vars => IInv'
    BY NextKeeps, StutterKeeps
  <1> QED
    BY <1>1, InitKnown, PTL DEF Spec

LEMMA SaidSound ==
  ASSUME IInv
  PROVE  StateIsSound
  <1>1. StateType /\ Kept /\ OpenKnown
    BY DEF IInv
  <1>2. ASSUME NEW r \in Runs, phase[r] = "open" PROVE cache[r] # NoEntry /\ cache[r].set
    <2>1. cache[r].set /\ cache[r] \in Entries
      BY <1>1, <1>2 DEF OpenKnown, Knows
    <2> QED
      BY <2>1, EntryType
  <1>3. clock \in 0..MaxOthers[adapter]
    <2>1. MaxOthers[adapter] \in Nat
      BY <1>1, RunAssumption DEF StateType
    <2> QED
      BY <1>1, <2>1 DEF StateType
  <1>4. TypeOK
    BY <1>1, <1>2, <1>3 DEF TypeOK, StateType, Kept
  <1>5. NothingLeaks
    <2>1. ASSUME NEW r \in Runs, phase[r] \in {"closed", "idle"}
          PROVE  manager[r] # "active" /\ cache[r] = NoEntry /\ flying[r] = {}
      BY <1>1, <2>1 DEF Kept
    <2> QED
      BY <2>1 DEF NothingLeaks
  <1> QED
    BY <1>4, <1>5 DEF StateIsSound

\* In every state reached, of any number of runs through any integration, the
\* state has its type, and a run that is over holds neither a session, nor a
\* cache entry, nor a running tool.
THEOREM Sound == Spec => []StateIsSound
  <1>1. IInv => StateIsSound
    BY SaidSound
  <1> QED
    BY <1>1, Invariance, PTL

\* No tool call is accused that the first declared intent of its own session
\* covers, and none outside it escapes unless the profile tolerates it.
THEOREM Accuses == Spec => []AccusedJustly
  <1>1. IInv => AccusedJustly
    BY SaidAccused DEF IInv
  <1> QED
    BY <1>1, Invariance, PTL

\* A boundary or an escalation is flagged by comparison with the previous event
\* of the same session and process, never with another's.
THEOREM Compares == Spec => []ComparedWithOwnPast
  <1>1. IInv => ComparedWithOwnPast
    BY SaidCompared DEF IInv
  <1> QED
    BY <1>1, Invariance, PTL

\* An event lost says "degraded" exactly when it is the third loss in a row of
\* its own session and process.
THEOREM TellsOutage == Spec => []SeverityTellsOutage
  <1>1. IInv => SeverityTellsOutage
    BY SaidSeverity DEF IInv
  <1> QED
    BY <1>1, Invariance, PTL

\* The rules of the profile govern as they were written, an admitted profile is
\* used whole, and two of one fingerprint govern alike.
THEOREM Decides == Spec => []ProfileDecides
  <1>1. IInv => RulesGovern
    BY SaidRules DEF IInv
  <1>2. AcceptedIsKept /\ FingerprintDecides
    BY SaidAccepted, SaidFingerprint
  <1>3. IInv => ProfileDecides
    BY <1>1, <1>2 DEF ProfileDecides
  <1> QED
    BY <1>3, Invariance, PTL
=============================================================================
