------------------------------ MODULE GovernedRun ------------------------------
(***************************************************************************)
(* Agent runs under governance, through one of three integrations that     *)
(* drive the same event builder, cache, session manager and sink:          *)
(*                                                                         *)
(*   "mcp"       a proxy around one client: one call at a time, and a new   *)
(*               session force-closes its agent's other one;               *)
(*   "pydantic"  a capability: concurrent runs, parallel tool calls and     *)
(*               model turns between them;                                 *)
(*   "hook"      a process per event of Claude Code: its cache lives for    *)
(*               one event, and the intent baseline is read back from the  *)
(*               trace.  (The races between hooks are HookTrace's.)        *)
(*                                                                         *)
(* `events` is the history of what was built, in order, with what became   *)
(* of each event; the properties compare what an event says with it.       *)
(***************************************************************************)
EXTENDS ProfileChecks, EventPolicy

CONSTANTS
  Runs,
  Adapters,      \* which integrations this instance covers
  Profiles,      \* profile files, as ProfileChecks describes them: those that govern
  Files,         \* a run, and those that are only compared
  Sharing,       \* whether hooks may share one trace file
  Calls,         \* tool calls the agent may make
  Declarations,  \* what a run may declare
  MaxSteps,      \* bound of each integration, and of hooks sharing a file:
                 \* sessions opened and calls made
  MaxOthers      \* and of model turns, ticks and flips of the sink

ASSUME RunAssumption ==
  /\ Adapters \subseteq {"mcp", "pydantic", "hook"} /\ \A a \in Adapters : MaxOthers[a] \in Nat
  /\ Sharing \subseteq BOOLEAN
  /\ Profiles \cup Files \subseteq ProfileFiles
  /\ Calls \subseteq ToolCalls([domain : Domains, action : Actions, destructive : STRING])
  /\ Declarations \subseteq
       [objective : BOOLEAN, hints : SUBSET Hints, claimed : BOOLEAN, rejected : BOOLEAN]

VARIABLES
  adapter, profile, shared,  \* fixed: shared is one trace file for all hooks
  governed, view,            \* what became of the profile; fixed as well
  phase,     \* of each run: "idle", "open", "closed" or "failed"
  claims,    \* runs with an owner claim
  manager,   \* [Runs -> {"none", "active", "closed"}]
  cache,     \* [Runs -> cache entries]
  flying,    \* [Runs -> calls whose tool is running]
  failures,  \* SinkWriter._consecutive_failures
  events, critical,  \* the history; runs closed with "Sink unreachable"
  up,        \* whether the sink takes writes
  clock, spent       \* time and the uses of each bound

vars == <<adapter, profile, governed, view, shared, phase, claims, manager, cache, flying, failures, events,
          critical, up, clock, spent>>
fixed == <<adapter, profile, governed, view, shared>>

StepsLeft == spent.steps < MaxSteps[IF shared THEN "sharing" ELSE adapter]

\* Whether the profile governs: each integration has its own door.
IsGoverned ==
  IF adapter = "pydantic" THEN Usable(Merge(profile)) ELSE Admitted(Merge(profile))

Init ==
  /\ adapter \in Adapters
  /\ profile \in Profiles
  /\ governed = IsGoverned
  /\ view = View(Merge(profile))
  /\ shared \in {s \in Sharing : s => adapter = "hook"}
  /\ phase = [r \in Runs |-> "idle"]
  /\ claims = {}
  /\ manager = [r \in Runs |-> "none"]
  /\ cache = [r \in Runs |-> NoEntry]
  /\ flying = [r \in Runs |-> {}]
  /\ failures = [r \in Runs |-> 0]
  /\ events = <<>>
  /\ critical = {}
  /\ up \in BOOLEAN
  /\ clock = 0
  /\ spent = [steps |-> 0, others |-> 0]

Spend(what) == spent' = [spent EXCEPT ![what] = @ + 1]

-----------------------------------------------------------------------------
(***************************************************************************)
(* Events and the sink                                                     *)
(***************************************************************************)
\* An event before it is written.
Event(r, type, found) ==
  [run |-> r, type |-> type, flags |-> found.flags, violations |-> found.violations,
   process |-> IF adapter = "hook" THEN spent.steps + 1 ELSE 0,
   op |-> "none", target |-> NoPrior, call |-> NoPrior, objective |-> FALSE, hints |-> {},
   explicit |-> FALSE, classes |-> {}, at |-> clock, fate |-> "none", severity |-> "none"]

Registration(r) == Event(r, "AGENT_REGISTERED", EvalRegistration(FALSE))

Intent(r, explicit, objective, hints) ==
  [Event(r, "INTENT_DECLARED", EvalIntent(explicit)) EXCEPT
     !.explicit = explicit, !.objective = objective, !.hints = hints]

Scope(r, call, found) ==
  [Event(r, "SCOPE_ASSERTED", found) EXCEPT !.op = call.op, !.target = call.target, !.call = call]

Context(r, call, found) ==
  [Event(r, "CONTEXT_SNAPSHOT", found) EXCEPT !.explicit = call.explicit, !.classes = call.classes]

Memory(r, call) ==
  Event(r, "MEMORY_WRITE_ATTEMPT", EvalMemory(call.explicit, call.explicit /\ call.retained))

TurnEvent(r) == Event(r, "TURN", [flags |-> {}, violations |-> {}])
Error(r) == Event(r, "GOVERNANCE_ERROR", [flags |-> {}, violations |-> {}])

\* Of Severity: one failure late.
SeverityLate(failed) == IF failed > 3 THEN "degraded" ELSE "warning"

\* _escalate_severity.
Severity(failed) == IF failed >= 3 THEN "degraded" ELSE "warning"

\* The counter after `sunk` writes to the sink.
Counted(before, sunk) == IF sunk = 0 THEN before ELSE IF up THEN 0 ELSE before + sunk

\* How many of the first n events do.
Sunk(es, n) == Cardinality({k \in 1..n : es[k].type # "GOVERNANCE_ERROR"})

\* SinkWriter.write of each event in turn; an error event goes to stdout and
\* does not touch the counter.
Written(es, before) ==
  [k \in DOMAIN es |->
     [es[k] EXCEPT !.fate = IF es[k].type = "GOVERNANCE_ERROR" THEN "stdout"
                            ELSE IF up THEN "written" ELSE "lost",
                   !.severity = IF es[k].type = "GOVERNANCE_ERROR" \/ up THEN "none"
                                ELSE Severity(before + Sunk(es, k))]]

\* A hook's counter lives as long as its process.
Write(r, es) ==
  LET before == IF adapter = "hook" THEN 0 ELSE failures[r]
  IN /\ events' = events \o Written(es, before)
     /\ failures' = [failures EXCEPT ![r] = IF adapter = "hook" THEN 0
                                            ELSE Counted(before, Sunk(es, Len(es)))]

-----------------------------------------------------------------------------
(***************************************************************************)
(* Sessions in one process                                                 *)
(***************************************************************************)
Nothing == [objective |-> FALSE, hints |-> {}, claimed |-> FALSE, rejected |-> FALSE]

\* A declaration that is not one leaves no hints either.
Effective(d) == IF d.objective THEN d.hints ELSE {}

\* The baseline the opening events leave behind.
Opened(d) == WithBaseline(NewEntry, d.objective, Effective(d))

\* Those events.
Opening(r, d) == <<Registration(r), Intent(r, d.objective, d.objective, Effective(d))>>

\* _start: session_start is exclusive for the agent of all these runs.
StartMcp(r, d) ==
  /\ adapter = "mcp" /\ phase[r] = "idle" /\ ~d.rejected
  /\ StepsLeft
  /\ phase' = [phase EXCEPT ![r] = "open"]
  /\ claims' = IF d.claimed THEN claims \cup {r} ELSE claims
  /\ manager' = [q \in Runs |-> IF q = r THEN "active"
                                ELSE IF manager[q] = "active" THEN "closed" ELSE manager[q]]
  /\ cache' = [cache EXCEPT ![r] = Opened(d)]
  /\ Write(r, Opening(r, d))
  /\ Spend("steps")
  /\ UNCHANGED <<fixed, flying, critical, up, clock>>

\* The declaration of a run: valid metadata, or what construction gave.
InForce(d) == IF d.rejected THEN Nothing ELSE d

\* _open_session: concurrent sessions, and a report of rejected metadata.
OpenPydantic(r, d) ==
  /\ adapter = "pydantic" /\ phase[r] = "idle"
  /\ StepsLeft
  /\ phase' = [phase EXCEPT ![r] = "open"]
  /\ manager' = [manager EXCEPT ![r] = "active"]
  /\ cache' = [cache EXCEPT ![r] = Opened(InForce(d))]
  /\ Write(r, Opening(r, InForce(d)) \o (IF d.rejected THEN <<Error(r)>> ELSE <<>>))
  /\ Spend("steps")
  /\ UNCHANGED <<fixed, claims, flying, critical, up, clock>>

\* The directory of the trace cannot be made: the session was started before
\* that, and nothing ends it.
OpenFails(r) ==
  /\ adapter = "pydantic" /\ phase[r] = "idle" /\ StepsLeft
  /\ phase' = [phase EXCEPT ![r] = "failed"]
  /\ manager' = [manager EXCEPT ![r] = "active"]
  /\ Spend("steps")
  /\ UNCHANGED <<fixed, claims, cache, flying, failures, events, critical, up, clock>>

\* (Mutant of Close.)
CloseKeepsCache(r) ==
  /\ phase[r] = "open" /\ flying[r] = {}
  /\ phase' = [phase EXCEPT ![r] = "closed"]
  /\ manager' = [manager EXCEPT ![r] = "closed"]
  /\ UNCHANGED <<fixed, claims, cache, flying, failures, events, critical, up, clock, spent>>

\* _end and _close_session; only the first reports an outage.
Close(r) ==
  /\ phase[r] = "open" /\ flying[r] = {}
  /\ phase' = [phase EXCEPT ![r] = "closed"]
  /\ manager' = [manager EXCEPT ![r] = "closed"]
  /\ cache' = [cache EXCEPT ![r] = NoEntry]
  /\ critical' = IF adapter = "mcp" /\ failures[r] >= 3 THEN critical \cup {r} ELSE critical
  /\ failures' = IF adapter = "mcp" THEN [failures EXCEPT ![r] = 0] ELSE failures
  /\ UNCHANGED <<fixed, claims, flying, events, up, clock, spent>>

-----------------------------------------------------------------------------
(***************************************************************************)
(* Tool calls and model turns in one process                               *)
(***************************************************************************)
Unclassified(call) == [call EXCEPT !.classes = {}, !.explicit = FALSE]
HasMetadata(call) == call.metadata \in {"good", "partial"}

\* What the integration makes of a call: mcp takes the operation from the
\* tool's name and the classes from its hook; pydantic takes both from the
\* metadata, and a call without is a READ; the shell classifier is Claude
\* Code's alone.
Seen(call) ==
  LET plain == [call EXCEPT !.effects = {}]
  IN CASE adapter = "hook" -> Unclassified(call)
       [] adapter # "hook" /\ HasMetadata(call) -> plain
       [] adapter = "mcp" /\ ~HasMetadata(call) -> Unclassified(plain)
       [] adapter = "pydantic" /\ ~HasMetadata(call) ->
            [Unclassified(plain) EXCEPT !.op = "READ", !.target = call.tool]

\* build_scope_asserted.
Asserted(entry, call) == ScopeFindings(governed, view, entry, call, clock)

\* Before the tool runs: send_tool_call, wrap_tool_execute.
StartCall(r, c) ==
  LET call  == Seen(c)
      found == Asserted(cache[r], call)
      bad   == adapter = "pydantic" /\ c.metadata \in {"rejected", "partial"}
  IN /\ adapter # "hook" /\ phase[r] = "open"
     /\ StepsLeft
     /\ adapter = "mcp" => flying[r] = {}
     /\ flying' = [flying EXCEPT ![r] = @ \cup {[id |-> spent.steps, call |-> call]}]
     /\ cache' = [cache EXCEPT ![r] = found.entry]
     /\ Write(r, (IF bad THEN <<Error(r)>> ELSE <<>>) \o <<Scope(r, call, found)>>)
     /\ Spend("steps")
     /\ UNCHANGED <<fixed, phase, claims, manager, critical, up, clock>>

\* After it: the snapshot, and for mcp the write to a persistence target.
FinishCall(r, f) ==
  LET found == EvalContext(cache[r], f.call.classes, f.call.explicit, r \in claims)
  IN /\ flying' = [flying EXCEPT ![r] = @ \ {f}]
     /\ cache' = [cache EXCEPT ![r] = found.entry]
     /\ Write(r, <<Context(r, f.call, found)>> \o
                  (IF adapter = "mcp" /\ f.call.store THEN <<Memory(r, f.call)>> ELSE <<>>))
     /\ UNCHANGED <<fixed, phase, claims, manager, critical, up, clock, spent>>

\* The tool raises: nothing more is said of the call.
FailCall(r, f) ==
  /\ flying' = [flying EXCEPT ![r] = @ \ {f}]
  /\ UNCHANGED <<fixed, phase, claims, manager, cache, failures, events, critical, up, clock, spent>>

\* Of ModelTurn: the snapshot of a turn is one like any other.
ModelTurnAsContext(r) ==
  /\ adapter = "pydantic" /\ phase[r] = "open"
  /\ spent.others < MaxOthers[adapter]
  /\ cache' = [cache EXCEPT ![r] = WithTier(@, {})]
  /\ Write(r, <<TurnEvent(r)>>)
  /\ Spend("others")
  /\ UNCHANGED <<fixed, phase, claims, manager, flying, critical, up, clock>>

\* after_model_request: build_token_snapshot leaves the cache alone.
ModelTurn(r) ==
  /\ adapter = "pydantic" /\ phase[r] = "open"
  /\ spent.others < MaxOthers[adapter]
  /\ Write(r, <<TurnEvent(r)>>)
  /\ Spend("others")
  /\ UNCHANGED <<fixed, phase, claims, manager, cache, flying, critical, up, clock>>

-----------------------------------------------------------------------------
(***************************************************************************)
(* Hooks: one process per event                                            *)
(***************************************************************************)
\* The trace knows the session.
Resumed(r) == \E k \in DOMAIN events : events[k].run = r /\ events[k].fate = "written"

\* The declarations in the session's trace file.
DeclaredIn(r) ==
  {k \in DOMAIN events : /\ events[k].type = "INTENT_DECLARED" /\ events[k].explicit
                         /\ events[k].fate = "written"
                         /\ shared \/ events[k].run = r}

\* Of Rehydrated: the last declaration counts.
RehydratedLast(r) ==
  IF DeclaredIn(r) = {} THEN NewEntry
  ELSE LET k == Max(DeclaredIn(r)) IN WithBaseline(NewEntry, TRUE, events[k].hints)

\* _first_declared_intent, and the baseline it gives a fresh cache.
Rehydrated(r) ==
  IF DeclaredIn(r) = {} THEN NewEntry
  ELSE LET k == Min(DeclaredIn(r)) IN WithBaseline(NewEntry, TRUE, events[k].hints)

\* The scope hint of a session that has declared nothing.
HookHints == {"coding_agent.observe"} \cap Hints

\* What every hook does first: register a session it does not know.
Arrival(r) ==
  IF Resumed(r) THEN [entry |-> Rehydrated(r), events |-> <<>>]
  ELSE [entry  |-> WithBaseline(NewEntry, FALSE, HookHints),
        events |-> <<Registration(r), Intent(r, FALSE, FALSE, HookHints)>>]

\* The caller's phase and memory end with the process.
HookWrites(r, es) ==
  /\ adapter = "hook" /\ StepsLeft
  /\ Write(r, es)
  /\ Spend("steps")
  /\ UNCHANGED <<fixed, phase, claims, manager, cache, flying, critical, up, clock>>

Blank == [explicit |-> FALSE, classes |-> {}]

\* _emit_pre_tool.
PreToolUse(r, c) ==
  LET arrival == Arrival(r)
      call    == Seen(c)
      found   == Asserted(arrival.entry, call)
      told    == EvalContext(found.entry, {}, FALSE, FALSE)
  IN HookWrites(r, arrival.events \o <<Scope(r, call, found), Context(r, call, told)>> \o
                   (IF call.store /\ call.op \in {"WRITE", "DELETE"}
                      THEN <<Memory(r, call)>> ELSE <<>>))

\* _emit_post_tool.
PostToolUse(r) ==
  HookWrites(r, Arrival(r).events \o
                <<Context(r, Blank, EvalContext(Arrival(r).entry, {}, FALSE, FALSE))>>)

\* A SessionEnd with a turn to report (the other cases are HookTrace's).
SessionEnd(r) == HookWrites(r, Arrival(r).events \o <<TurnEvent(r)>>)

\* emit_intent_declaration: for a session the trace knows.
Declare(r, d) ==
  /\ Resumed(r) /\ d.objective
  /\ HookWrites(r, <<Intent(r, TRUE, TRUE, d.hints)>>)

-----------------------------------------------------------------------------
\* Time passes between calls (a hook process does not live long enough to see
\* it); the disk or the collector fails and recovers.
Tick ==
  /\ adapter # "hook"
  /\ spent.others < MaxOthers[adapter]
  /\ clock' = clock + 1
  /\ Spend("others")
  /\ UNCHANGED <<fixed, phase, claims, manager, cache, flying, failures, events, critical, up>>

SinkFlips ==
  /\ spent.others < MaxOthers[adapter]
  /\ up' = ~up
  /\ Spend("others")
  /\ UNCHANGED <<fixed, phase, claims, manager, cache, flying, failures, events, critical, clock>>

Next ==
  \/ \E r \in Runs, d \in Declarations : StartMcp(r, d) \/ OpenPydantic(r, d) \/ Declare(r, d)
  \/ \E r \in Runs : OpenFails(r) \/ Close(r) \/ ModelTurn(r) \/ PostToolUse(r) \/ SessionEnd(r)
  \/ \E r \in Runs, c \in Calls : StartCall(r, c) \/ PreToolUse(r, c)
  \/ \E r \in Runs : \E f \in flying[r] : FinishCall(r, f) \/ FailCall(r, f)
  \/ Tick
  \/ SinkFlips

Spec == Init /\ [][Next]_vars

-----------------------------------------------------------------------------
(***************************************************************************)
(* Properties                                                              *)
(***************************************************************************)
\* Earlier events of the same session, and those of the same process.
Own(i) == {j \in 1..(i - 1) : events[j].run = events[i].run}
InProcess(i) == {j \in Own(i) : events[j].process = events[i].process}
Tagged(S, type) == {j \in S : events[j].type = type}

\* The phases and entries are what the actions below expect of them: an open
\* run has a cache entry with a baseline, and only it has tools running.
TypeOK ==
  /\ adapter \in Adapters /\ profile \in Profiles /\ governed \in BOOLEAN /\ shared \in BOOLEAN /\ up \in BOOLEAN
  /\ phase \in [Runs -> {"idle", "open", "closed", "failed"}]
  /\ manager \in [Runs -> {"none", "active", "closed"}]
  /\ failures \in [Runs -> Nat] /\ clock \in 0..MaxOthers[adapter]
  /\ claims \subseteq Runs /\ critical \subseteq Runs
  /\ \A r \in Runs : flying[r] # {} => phase[r] = "open"
  /\ \A r \in Runs : phase[r] = "open" => cache[r] # NoEntry /\ cache[r].set

\* The intent a session has declared when event i is built: its process's
\* first, or else the first one that reached its trace.  Where hooks share a
\* file that is the first of the file, whoever declared it.
Basis(i) ==
  LET here == Tagged(InProcess(i), "INTENT_DECLARED")
      read == {j \in Tagged(IF shared THEN 1..(i - 1) ELSE Own(i), "INTENT_DECLARED") :
                 events[j].explicit /\ events[j].fate = "written"}
      declared == IF here # {} THEN here ELSE read
  IN IF declared = {} THEN Nothing ELSE events[Min(declared)]

OutOfIntent(i) ==
  \/ events[i].op \in Mutating /\ ~Basis(i).objective
  \/ \A h \in Basis(i).hints : events[i].target \notin Covers[h]

\* What the operator's profile tolerates.
Tolerated(i) ==
  /\ governed
  /\ \/ view.demand = "never"
     \/ /\ view.demand = "first_write"
        /\ events[i].op \in Mutating
        /\ \E j \in Tagged(InProcess(i), "SCOPE_ASSERTED") :
             events[j].op \in Mutating /\ "POL-001" \in events[j].violations

\* A tool call is accused of POL-001 exactly when it falls outside the intent
\* its own session declared first and the profile does not tolerate it, however
\* the sessions of the agent interleave, writes fail and processes come and go.
\* Only hooks that share a file judge a session by the first declaration in it,
\* another's or not (_first_declared_intent), once the session is registered.
AccusedJustly ==
  \A i \in Tagged(DOMAIN events, "SCOPE_ASSERTED") :
    ("POL-001" \in events[i].violations) <=> OutOfIntent(i) /\ ~Tolerated(i)

\* The call before, in the same session and process.
Before(i, type) == Tagged(InProcess(i), type)

Crossed(a, b) ==
  LET last == [op |-> a.op, at |-> a.at, dir |-> ExtractDir(a.target, view.depth),
               ext |-> ExtractFileExt(a.target)]
  IN Crosses(view, last, b.call, b.at)

\* A task boundary is flagged exactly where two successive calls of one session
\* differ as the profile's signals say, with calls of other sessions, parallel
\* calls and failed tools in between (builder.py, TASK_BOUNDARY_CROSSED).
BoundaryMatches ==
  \A i \in Tagged(DOMAIN events, "SCOPE_ASSERTED") :
    ("TASK_BOUNDARY_CROSSED" \in events[i].flags) <=>
       /\ governed /\ Before(i, "SCOPE_ASSERTED") # {}
       /\ Crossed(events[Max(Before(i, "SCOPE_ASSERTED"))], events[i])

\* An escalation is flagged exactly when the session's previous tool result was
\* less sensitive; model turns in between, other sessions and the order in which
\* parallel calls started do not matter (builder.py, SENSITIVITY_ESCALATION).
EscalationMatches ==
  \A i \in Tagged(DOMAIN events, "CONTEXT_SNAPSHOT") :
    LET earlier == Before(i, "CONTEXT_SNAPSHOT")
        rises   == /\ earlier # {}
                   /\ MaxTier(events[Max(earlier)].classes) < MaxTier(events[i].classes)
    IN /\ ("SENSITIVITY_ESCALATION" \in events[i].flags) <=> rises
       /\ ("POL-005" \in events[i].violations) <=> rises /\ events[i].run \notin claims

\* ComparedWithOwnPast: what an event says in comparison, of a boundary or of
\* an escalation, it says of the previous event of its own session and process.
ComparedWithOwnPast == BoundaryMatches /\ EscalationMatches

\* An error on stdout says "degraded" exactly when it is the third loss in a row
\* of its session, whatever error events and other sessions' writes come between.
SeverityTellsOutage ==
  \A i \in DOMAIN events : events[i].fate = "lost" =>
    LET sunk == {j \in InProcess(i) : events[j].fate # "stdout"}
        third == \E a, b \in sunk :
                   /\ a < b /\ \A j \in sunk : j > a => j = b
                   /\ events[a].fate = "lost" /\ events[b].fate = "lost"
    IN (events[i].severity = "degraded") <=> third

\* A run that is over holds nothing: its session is closed and its cache entry
\* gone.  A run whose trace directory could not be made is the exception.
NothingLeaks ==
  \A r \in Runs : phase[r] \in {"closed", "idle"} =>
    manager[r] # "active" /\ cache[r] = NoEntry /\ flying[r] = {}

\* StateIsSound: no state is out of its type, and none outlives its run.
StateIsSound == TypeOK /\ NothingLeaks

\* A rule of an admitted profile that the validator had nothing to say about
\* governs: a call is of high consequence exactly when one of its effects meets
\* such a rule as the author wrote it, or its tool a pattern.
Meets(v, word) == v.kind = "missing" \/ word \in ToSet(v.members)
AuthoredRules ==
  LET risk == Merge(profile).risk
  IN IF risk.kind = "mapping" /\ risk.rules.kind = "list"
     THEN {r \in ToSet(risk.rules.entries) : ~Reported(r)} ELSE {}

RulesGovern ==
  \A i \in Tagged(DOMAIN events, "SCOPE_ASSERTED") :
    ("HIGH_CONSEQUENCE_DETECTED" \in events[i].flags) <=>
      /\ governed
      /\ \/ view.patterns \cap events[i].call.patterns # {}
         \/ \E rule \in AuthoredRules, e \in events[i].call.effects :
              /\ Meets(rule.domain, e.domain) /\ Meets(rule.action, e.action)
              /\ rule.destructive \in {"missing", e.destructive}

\* An admitted profile is used as it was written: the builder's own checks
\* replace no number, drop no entry and ignore no section of it.
AcceptedIsKept ==
  events = <<>> => \A file \in Files :
    LET p == Merge(file)
        b == p.boundary
    IN Admitted(p) /\ b.kind = "mapping" =>
         /\ b.gap.kind \in {"int", "float"} => View(p).gap = b.gap.n
         /\ b.depth.kind = "int" => View(p).depth = b.depth.n
         /\ b.depth.kind \in {"int", "missing", "null"}
         /\ b.signals.kind = "list" => View(p).signals = ToSet(b.signals.entries)

\* Two profiles with one fingerprint govern alike: a session that is resumed
\* under an equal fingerprint is judged as it was before.
FingerprintDecides ==
  events = <<>> => \A p, q \in Files :
    Canonical(Merge(p)) = Canonical(Merge(q)) => View(Merge(p)) = View(Merge(q))

\* ProfileDecides: the profile an author wrote and the manager admitted is the
\* one that governs, in this process and in one that resumes it.
ProfileDecides == RulesGovern /\ AcceptedIsKept /\ FingerprintDecides
=============================================================================
