------------------------------ MODULE EventPolicy ------------------------------
(***************************************************************************)
(* What the event builder says of one event: the advisory flags and the    *)
(* policy violations, from the payload, the session's cache entry and the  *)
(* checked profile.  Pure operators: each returns the findings and, where  *)
(* the code updates the cache, the entry that follows.                     *)
(*                                                                         *)
(* A target is a record: `parts` are the components of its name, `ext`     *)
(* says that the last of them follows a dot, `shell` that it is a token of *)
(* the shell classifier.  A hint is a name; Covers gives the targets its   *)
(* first dotted component is a prefix of.                                  *)
(***************************************************************************)
EXTENDS Naturals, Sequences, SequencesExt, FiniteSetsExt

CONSTANTS
  Hints,    \* what a declaration's scope hint may hold
  Covers,   \* [Hints -> SUBSET targets]
  NoEntry,  \* no cache entry for the session
  NoPrior   \* _NO_PRIOR, and a value that is None

Mutating == {"WRITE", "DELETE", "EXECUTE"}
Operations == Mutating \cup {"READ"}

\* A target, and a tool call with what its integration may know of it.
Targets == {t \in [parts : Seq(STRING), ext : BOOLEAN, shell : BOOLEAN] : t.ext => t.parts # <<>>}

ToolCalls(Effects) ==
  [tool : Targets, op : Operations, target : Targets, metadata : STRING, classes : SUBSET STRING,
   explicit : BOOLEAN, store : BOOLEAN, retained : BOOLEAN, patterns : SUBSET STRING,
   effects : SUBSET Effects]

SensitivityTiers == <<"public", "internal", "confidential", "pii", "restricted">>

\* SessionCacheEntry, with the last activity of update_task_boundary_state.
Activities ==
  [op : Operations, at : Nat, dir : Seq(STRING) \cup {<<"shell">>, NoPrior}, ext : STRING \cup {NoPrior}]

Entries ==
  [set : BOOLEAN, objective : BOOLEAN, hints : SUBSET Hints, tier : Nat \cup {NoPrior},
   fired : BOOLEAN, last : Activities \cup {NoPrior}]

ASSUME EntryAssumption == NoEntry \notin Entries /\ NoPrior \notin Nat

NewEntry ==
  [set |-> FALSE, objective |-> FALSE, hints |-> {}, tier |-> NoPrior,
   fired |-> FALSE, last |-> NoPrior]

\* set_intent_baseline: the first one counts, and none without an entry.
WithBaseline(entry, objective, hints) ==
  IF entry = NoEntry \/ entry.set THEN entry
  ELSE [entry EXCEPT !.set = TRUE, !.objective = objective, !.hints = hints]

\* max_sensitivity_tier; 0 when no classification is a tier.
MaxTier(classes) ==
  Max({0} \cup {k \in DOMAIN SensitivityTiers : SensitivityTiers[k] \in classes})

\* update_context_tier.
WithTier(entry, classes) ==
  IF entry = NoEntry THEN NoEntry ELSE [entry EXCEPT !.tier = MaxTier(classes)]

-----------------------------------------------------------------------------
(***************************************************************************)
(* Task boundaries                                                         *)
(***************************************************************************)
\* _extract_dir.
ExtractDir(target, depth) ==
  IF target.shell THEN <<"shell">>
  ELSE IF target.parts = <<>> \/ depth = 0 THEN NoPrior
  ELSE SubSeq(target.parts, 1, IF depth < Len(target.parts) THEN depth ELSE Len(target.parts))

\* _extract_file_ext.
ExtractFileExt(target) ==
  IF target.shell \/ ~target.ext THEN NoPrior ELSE Last(target.parts)

Differ(a, b) == a # NoPrior /\ b # NoPrior /\ a # b

\* _detect_task_boundary.
Crosses(view, last, call, now) ==
  /\ last # NoPrior
  /\ \/ "dir_change" \in view.signals /\ Differ(last.dir, ExtractDir(call.target, view.depth))
     \/ "file_type_shift" \in view.signals /\ Differ(last.ext, ExtractFileExt(call.target))
     \/ "time_gap" \in view.signals /\ now - last.at >= view.gap
     \/ "read_to_write_transition" \in view.signals /\ last.op = "READ" /\ call.op \in Mutating

\* update_task_boundary_state, which needs a signal to be reached.
WithActivity(view, entry, call, now) ==
  IF entry = NoEntry \/ view.signals = {} THEN entry
  ELSE [entry EXCEPT !.last = [op |-> call.op, at |-> now,
                               dir |-> ExtractDir(call.target, view.depth),
                               ext |-> ExtractFileExt(call.target)]]

-----------------------------------------------------------------------------
(***************************************************************************)
(* High consequence                                                        *)
(***************************************************************************)
\* _operation_rule_matches: one effect meets the whole rule.
RuleMatches(rule, effects) ==
  \E e \in effects :
    /\ e.domain \in rule.domains
    /\ e.action \in rule.actions
    /\ rule.destructive \in {"missing", e.destructive}

HighConsequence(view, call) ==
  \/ view.patterns \cap call.patterns # {}
  \/ \E rule \in view.rules : RuleMatches(rule, call.effects)

-----------------------------------------------------------------------------
(***************************************************************************)
(* Evaluation                                                              *)
(***************************************************************************)
If(condition, word) == IF condition THEN {word} ELSE {}

\* _eval_registration.
EvalRegistration(anonymous) ==
  [flags |-> If(anonymous, "AGENT_UNREGISTERED"), violations |-> If(anonymous, "POL-002")]

\* _eval_intent.
EvalIntent(explicit) == [flags |-> If(~explicit, "INTENT_MISSING"), violations |-> {}]

Baseline(entry) == entry # NoEntry /\ entry.set
Unexpected(entry, call) == call.op \in Mutating /\ ~(Baseline(entry) /\ entry.objective)
Mismatch(entry, call) ==
  ~Baseline(entry) \/ \A h \in entry.hints : call.target \notin Covers[h]

\* _eval_scope.
EvalScope(entry, call) ==
  [flags |-> If(Unexpected(entry, call), "SCOPE_OPERATION_UNEXPECTED") \cup
             If(Mismatch(entry, call), "SCOPE_INTENT_MISMATCH"),
   violations |-> If(Unexpected(entry, call) \/ Mismatch(entry, call), "POL-001")]

\* The demand of the profile on POL-001: whether it is withdrawn, whether it
\* is remembered.
Withdrawn(demand, entry, call) ==
  \/ demand = "never"
  \/ demand = "first_write" /\ call.op \in Mutating /\ entry # NoEntry /\ entry.fired

Remembered(demand, call) ==
  demand = "session_start" \/ (demand = "first_write" /\ call.op \in Mutating)

\* _apply_profile_to_scope: the demand, the boundary, the high consequence.
ApplyProfile(view, entry, call, now, found) ==
  LET accused == "POL-001" \in found.violations
      marked  == IF accused /\ entry # NoEntry /\ Remembered(view.demand, call)
                   THEN [entry EXCEPT !.fired = TRUE] ELSE entry
      last    == IF entry = NoEntry THEN NoPrior ELSE entry.last
  IN [flags |-> found.flags \cup
                If(Crosses(view, last, call, now), "TASK_BOUNDARY_CROSSED") \cup
                If(HighConsequence(view, call), "HIGH_CONSEQUENCE_DETECTED"),
      violations |-> IF accused /\ Withdrawn(view.demand, entry, call)
                       THEN found.violations \ {"POL-001"} ELSE found.violations,
      entry |-> WithActivity(view, marked, call, now)]

\* build_scope_asserted; a session without a profile has no transforms.
ScopeFindings(governed, view, entry, call, now) ==
  LET found == EvalScope(entry, call)
  IN IF governed THEN ApplyProfile(view, entry, call, now, found)
     ELSE [flags |-> found.flags, violations |-> found.violations, entry |-> entry]

\* _eval_context, with the tier that was there before.
EvalContext(entry, classes, explicit, authorized) ==
  LET rises == /\ entry # NoEntry /\ entry.tier # NoPrior
               /\ MaxTier(classes) > entry.tier
  IN [flags |-> If(~explicit, "CONTEXT_UNCLASSIFIED") \cup If(rises, "SENSITIVITY_ESCALATION"),
      violations |-> If(~explicit, "POL-003") \cup If(rises /\ ~authorized, "POL-005"),
      entry |-> WithTier(entry, classes)]

\* _eval_memory.
EvalMemory(classified, retained) ==
  [flags |-> {"MEMORY_WRITE_CANDIDATE"} \cup If(~classified, "MEMORY_WRITE_UNCLASSIFIED"),
   violations |-> If(~classified \/ ~retained, "POL-004")]
=============================================================================
