----------------------------- MODULE ProfileChecks -----------------------------
(***************************************************************************)
(* A governance profile is read by several pieces of code that must agree  *)
(* on it: the loader merges a file with the defaults, validate() admits or *)
(* refuses it, the event builder takes from it what is well formed, the    *)
(* canonical form names it, and the Pydantic capability looks at it once   *)
(* more.  Pure operators, over the YAML values those pieces tell apart.    *)
(*                                                                         *)
(* A value is a record with a kind.  "missing" is a key that is not there, *)
(* "null" an explicit null, "other" a value of the wrong type.             *)
(***************************************************************************)
EXTENDS Integers, Sequences, SequencesExt

CONSTANTS
  Demands,  \* VALID_DEMAND_AT_VALUES
  Signals,  \* VALID_SIGNAL_VALUES
  Domains, Actions,
  Patterns  \* regular expressions that compile

ASSUME ProfileAssumption == {"session_start", "first_write", "never"} = Demands

\* What a file may hold: lists of words, numbers and rules with predicates; a
\* value of another kind is opaque.
Opaque == [kind : {"missing", "null", "bool", "other"}]
Lists(Entries) == [kind : {"list"}, entries : Seq(Entries)] \cup Opaque
Numbers == [kind : {"int", "float", "bool"}, n : Int] \cup Opaque
Predicates == [kind : {"list", "scalar"}, members : Seq(STRING)] \cup [kind : {"missing"}]

RuleEntries ==
  [mapping : BOOLEAN, domain : Predicates, action : Predicates, destructive : STRING, stray : BOOLEAN]

ProfileFiles ==
  [version : STRING, stray : BOOLEAN,
   intent : [kind : {"mapping"}, demand : STRING, required : STRING] \cup Opaque,
   boundary : [kind : {"mapping"}, signals : Lists(STRING), gap : Numbers, depth : Numbers,
               onMatch : STRING] \cup Opaque,
   risk : [kind : {"mapping"}, tools : Lists(STRING), rules : Lists(RuleEntries), onMatch : STRING]
          \cup Opaque]

Absent(kind) == kind \in {"missing", "null"}

\* What the profile of `defaults` says: default_profile_data.
Defaults ==
  [version |-> "known", stray |-> FALSE,
   intent |-> [kind |-> "mapping", demand |-> "session_start", required |-> "bool"],
   boundary |-> [kind |-> "mapping", signals |-> [kind |-> "list", entries |-> <<>>],
                 gap |-> [kind |-> "int", n |-> 300], depth |-> [kind |-> "int", n |-> 2],
                 onMatch |-> "flag"],
   risk |-> [kind |-> "mapping", tools |-> [kind |-> "list", entries |-> <<>>],
             rules |-> [kind |-> "list", entries |-> <<>>], onMatch |-> "flag"]]

-----------------------------------------------------------------------------
(***************************************************************************)
(* Loading                                                                 *)
(***************************************************************************)
\* A field the file leaves out takes the default; a null stays a null.
Supplied(value, default) == IF value.kind = "missing" THEN default ELSE value
SuppliedWord(value, default) == IF value = "missing" THEN default ELSE value

MergedIntent(s) ==
  IF s.kind = "missing" THEN Defaults.intent
  ELSE IF s.kind # "mapping" THEN s
  ELSE [s EXCEPT !.demand = SuppliedWord(@, "session_start"),
                 !.required = SuppliedWord(@, "bool")]

MergedBoundary(s) ==
  IF s.kind = "missing" THEN Defaults.boundary
  ELSE IF s.kind # "mapping" THEN s
  ELSE [s EXCEPT !.signals = Supplied(@, Defaults.boundary.signals),
                 !.gap = Supplied(@, Defaults.boundary.gap),
                 !.depth = Supplied(@, Defaults.boundary.depth),
                 !.onMatch = SuppliedWord(@, "flag")]

MergedRisk(s) ==
  IF s.kind = "missing" THEN Defaults.risk
  ELSE IF s.kind # "mapping" THEN s
  ELSE [s EXCEPT !.tools = Supplied(@, Defaults.risk.tools),
                 !.rules = Supplied(@, Defaults.risk.rules),
                 !.onMatch = SuppliedWord(@, "flag")]

\* _merge_with_defaults: section by section, one level deep.
Merge(p) ==
  [version |-> SuppliedWord(p.version, "known"), stray |-> p.stray,
   intent |-> MergedIntent(p.intent), boundary |-> MergedBoundary(p.boundary),
   risk |-> MergedRisk(p.risk)]

-----------------------------------------------------------------------------
(***************************************************************************)
(* Validation: the fields with an error, and those with a report, which    *)
(* is a warning, or an error when strict.                                  *)
(***************************************************************************)
\* _validate_numeric_parameter.
BadNumber(v, integerOnly, minimum) ==
  ~Absent(v.kind) /\
  \/ v.kind \notin {"int", "float"}
  \/ integerOnly /\ v.kind = "float"
  \/ v.n < minimum

NotAList(v) == v.kind # "list"

\* A rule the validator has something to say about (_validate_operations).
MembersOf(v) == IF v.kind = "missing" THEN <<>> ELSE v.members
Foreign(v, vocabulary) == \E k \in DOMAIN MembersOf(v) : MembersOf(v)[k] \notin vocabulary

Reported(rule) ==
  \/ ~rule.mapping
  \/ rule.stray
  \/ Foreign(rule.domain, Domains)
  \/ Foreign(rule.action, Actions)
  \/ rule.destructive = "other"

\* signals and tools have a default of [] for a key that is not there only.
ListError(v) == v.kind # "missing" /\ NotAList(v)
HasBadEntry(v) == v.kind = "list" /\ "nonstring" \in ToSet(v.entries)

BoundaryErrors(s) ==
  IF Absent(s.kind) THEN {}
  ELSE IF s.kind # "mapping" THEN {"task_boundary"}
  ELSE (IF ListError(s.signals) \/ HasBadEntry(s.signals) THEN {"signals"} ELSE {}) \cup
       (IF BadNumber(s.gap, FALSE, 0) THEN {"time_gap_seconds"} ELSE {}) \cup
       (IF BadNumber(s.depth, TRUE, 1) THEN {"dir_change_depth"} ELSE {})

RiskErrors(s) ==
  IF Absent(s.kind) THEN {}
  ELSE IF s.kind # "mapping" THEN {"high_consequence"}
  ELSE (IF ListError(s.tools) \/ HasBadEntry(s.tools) THEN {"tools"} ELSE {}) \cup
       (IF ~Absent(s.rules.kind) /\ NotAList(s.rules) THEN {"operations"} ELSE {})

\* A demand_at or on_match that cannot be hashed makes validate() itself raise.
Raises(p) ==
  \/ p.intent.kind = "mapping" /\ p.intent.demand = "list"
  \/ \E s \in {p.boundary, p.risk} : s.kind = "mapping" /\ s.onMatch = "list"

Errors(p) ==
  (IF p.version = "other" THEN {"schema_version"} ELSE {}) \cup
  (IF p.intent.kind = "other" THEN {"session_intent"} ELSE {}) \cup
  BoundaryErrors(p.boundary) \cup RiskErrors(p.risk)

\* validate(strict=True) is a promise to the author, not a gate at runtime.
Reports(p) ==
  (IF p.stray THEN {"unknown_key"} ELSE {}) \cup
  (IF p.intent.kind = "mapping" /\ p.intent.demand \notin Demands \cup {"missing", "null"}
     THEN {"demand_at"} ELSE {}) \cup
  (IF p.intent.kind = "mapping" /\ p.intent.required = "other" THEN {"required"} ELSE {}) \cup
  (IF p.boundary.kind = "mapping" /\ p.boundary.signals.kind = "list"
        /\ ~(ToSet(p.boundary.signals.entries) \subseteq Signals \cup {"nonstring"})
     THEN {"unknown_signal"} ELSE {}) \cup
  (IF p.risk.kind = "mapping" /\ p.risk.rules.kind = "list"
        /\ \E k \in DOMAIN p.risk.rules.entries : Reported(p.risk.rules.entries[k])
     THEN {"operations"} ELSE {}) \cup
  (IF "other" \in {s.onMatch : s \in {t \in {p.boundary, p.risk} : t.kind = "mapping"}}
     THEN {"on_match"} ELSE {})

\* _runtime_readiness, as _admit_profile and the resolver apply it.
Admitted(p) == ~Raises(p) /\ Errors(p) = {}

\* _profile_unusable_reason: the accessors copy each section into a dict and
\* convert the version.
Usable(p) ==
  /\ {p.intent.kind, p.boundary.kind, p.risk.kind} \subseteq {"missing", "mapping"}
  /\ p.version \notin {"null", "other"}
  /\ Admitted(p)

-----------------------------------------------------------------------------
(***************************************************************************)
(* What the event builder works with (_checked_profile)                    *)
(***************************************************************************)
\* _checked_number: the same test, made once more.
CheckedNumber(v, integerOnly, minimum, default) ==
  IF v.kind \in (IF integerOnly THEN {"int"} ELSE {"int", "float"}) /\ v.n >= minimum
  THEN v.n ELSE default

\* _checked_signals, _checked_tools: what is a string is kept.
CheckedList(v) == IF v.kind = "list" THEN ToSet(v.entries) \ {"nonstring"} ELSE {}

\* _valid_operation_rule: the rules that count at runtime.
Empty(v) == v.kind = "list" /\ v.members = <<>>
RunnableRule(rule) == ~Reported(rule) /\ ~Empty(rule.domain) /\ ~Empty(rule.action)

\* A predicate that is not there allows everything.
Allowed(v, vocabulary) == IF v.kind = "missing" THEN vocabulary ELSE ToSet(v.members)

ViewOfRule(rule) ==
  [domains |-> Allowed(rule.domain, Domains), actions |-> Allowed(rule.action, Actions),
   destructive |-> rule.destructive]

RulesView(v) ==
  IF v.kind # "list" THEN {}
  ELSE {ViewOfRule(r) : r \in {s \in ToSet(v.entries) : RunnableRule(s)}}

DemandView(s) ==
  IF s.kind # "mapping" \/ s.demand = "missing" THEN "session_start" ELSE s.demand

View(p) ==
  [demand   |-> DemandView(p.intent),
   signals  |-> IF p.boundary.kind = "mapping" THEN CheckedList(p.boundary.signals) ELSE {},
   gap      |-> IF p.boundary.kind = "mapping" THEN CheckedNumber(p.boundary.gap, FALSE, 0, 300) ELSE 300,
   depth    |-> IF p.boundary.kind = "mapping" THEN CheckedNumber(p.boundary.depth, TRUE, 1, 2) ELSE 2,
   patterns |-> IF p.risk.kind = "mapping" THEN CheckedList(p.risk.tools) ELSE {},
   rules    |-> IF p.risk.kind = "mapping" THEN RulesView(p.risk.rules) ELSE {}]

-----------------------------------------------------------------------------
(***************************************************************************)
(* The canonical form: its bytes are the snapshot and its hash the         *)
(* fingerprint.                                                            *)
(***************************************************************************)
\* A list predicate is a set of its members.
CanonicalMembers(v) ==
  [kind |-> v.kind, members |-> IF v.kind = "missing" THEN {} ELSE ToSet(v.members)]

\* _canonical_operation_rules: a set of rules.
CanonicalRule(rule) ==
  [rule EXCEPT !.domain = CanonicalMembers(@), !.action = CanonicalMembers(@)]

\* Of CanonicalRules: the destructive predicate is dropped.
CanonicalRulesBlunt(v) ==
  [kind |-> "list",
   entries |-> {[CanonicalRule(r) EXCEPT !.destructive = "missing"] : r \in ToSet(v.entries)}]

CanonicalRules(v) ==
  IF v.kind = "list" THEN [kind |-> "list", entries |-> {CanonicalRule(r) : r \in ToSet(v.entries)}]
  ELSE [kind |-> v.kind, entries |-> {}]

\* An absent, null or empty `operations` leaves the old fingerprint alone.
CanonicalRisk(s) ==
  IF s.kind # "mapping" THEN [kind |-> s.kind]
  ELSE [s EXCEPT !.rules = IF Absent(@.kind) \/ (@.kind = "list" /\ @.entries = <<>>)
                             THEN [kind |-> "missing", entries |-> {}]
                             ELSE CanonicalRules(@)]

Canonical(p) == [p EXCEPT !.risk = CanonicalRisk(@)]
=============================================================================
