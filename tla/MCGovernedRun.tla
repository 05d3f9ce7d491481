---------------------------- MODULE MCGovernedRun ----------------------------
(***************************************************************************)
(* Tool calls, declarations and profiles for the runs of GovernedRun.      *)
(***************************************************************************)
EXTENDS GovernedRun

RunSymmetry == Permutations(Runs)

\* Two runs with a call, or one with two; hooks are single steps, and two sessions
\* share a file for three.
MCSteps == [mcp |-> 3, pydantic |-> 3, hook |-> 4, sharing |-> 3]
MCOthers == [mcp |-> 1, pydantic |-> 1, hook |-> 1]

MCHints == {"crm", "src", "coding_agent.observe"}

Name(parts, ext) == [shell |-> FALSE, parts |-> parts, ext |-> ext]
Crm   == Name(<<"crm", "contacts", "md">>, TRUE)
App   == Name(<<"src", "app", "py">>, TRUE)
Tool  == Name(<<"tool">>, FALSE)
Shell == [shell |-> TRUE, parts |-> <<"shell">>, ext |-> FALSE]

MCCovers == [h \in MCHints |-> CASE h = "crm" -> {Crm} [] h = "src" -> {App}
                                 [] OTHER -> {}]

Effect(domain, action, destructive) ==
  [domain |-> domain, action |-> action, destructive |-> destructive]

Call(op, target, metadata, classes, store) ==
  [tool |-> Tool, op |-> op, target |-> target, metadata |-> metadata, classes |-> classes,
   explicit |-> classes # {}, store |-> store, retained |-> FALSE, patterns |-> {}, effects |-> {}]

\* A read and a write that differ in directory, kind and sensitivity, and a
\* shell command with two effects.
MCCalls ==
  {Call("READ", Crm, "good", {"internal", "team"}, FALSE),
   [Call("WRITE", App, "partial", {"pii"}, TRUE) EXCEPT !.patterns = {"notes"}],
   [Call("EXECUTE", Shell, "rejected", {}, FALSE) EXCEPT
      !.effects = {Effect("network", "write", "unknown"), Effect("filesystem", "delete", "true")}]}

Declaration(objective, hints, claimed, rejected) ==
  [objective |-> objective, hints |-> hints, claimed |-> claimed, rejected |-> rejected]

MCDeclarations ==
  {Declaration(FALSE, {"crm"}, FALSE, FALSE), Declaration(TRUE, {"src"}, TRUE, FALSE),
   Declaration(TRUE, {"crm"}, FALSE, TRUE)}

-----------------------------------------------------------------------------
Missing == [kind |-> "missing"]
Whole(n) == [kind |-> "int", n |-> n]
List(entries) == [kind |-> "list", entries |-> entries]
Members(members) == [kind |-> "list", members |-> members]
Scalar(member) == [kind |-> "scalar", members |-> <<member>>]

IntentOf(demand) == [kind |-> "mapping", demand |-> demand, required |-> "bool"]
BoundaryOf(signals, gap, depth) ==
  [kind |-> "mapping", signals |-> signals, gap |-> gap, depth |-> depth, onMatch |-> "flag"]
RiskOf(tools, rules) ==
  [kind |-> "mapping", tools |-> List(tools), rules |-> List(rules), onMatch |-> "flag"]

Rule(domain, action, destructive) ==
  [mapping |-> TRUE, domain |-> domain, action |-> action, destructive |-> destructive,
   stray |-> FALSE]

File(intent, boundary, risk) ==
  [version |-> "known", stray |-> FALSE, intent |-> intent, boundary |-> boundary, risk |-> risk]

Plain(demand) == File(IntentOf(demand), Missing, Missing)
AllSignals == List(<<"dir_change", "file_type_shift", "time_gap", "read_to_write_transition">>)
Deletes == Rule(Scalar("filesystem"), Missing, "true")

Busy == File(IntentOf("first_write"), BoundaryOf(AllSignals, Whole(1), Whole(1)),
             RiskOf(<<"notes">>, <<Deletes>>))
Pooled == Rule(Members(<<"network">>), Scalar("delete"), "missing")
Quiet == File(IntentOf("never"), BoundaryOf(List(<<"dir_change">>), Missing, Missing),
              RiskOf(<<>>, <<Pooled, Rule(Members(<<>>), Missing, "missing")>>))
Invalid == File(IntentOf("never"), BoundaryOf(AllSignals, Whole(1), Whole(0)), Missing)

\* The demands of a profile, one the session manager refuses, and the defaults.
MCProfiles == {File(Missing, Missing, Missing), Busy, Quiet, Invalid}

MCFiles == MCProfiles \cup
  {[Busy EXCEPT !.risk.rules = List(<<[Deletes EXCEPT !.destructive = d]>>)] : d \in {"missing", "false"}}
  \cup {[Busy EXCEPT !.boundary.depth = d] : d \in {[kind |-> "null"], [kind |-> "float", n |-> 1]}}
  \cup {[Busy EXCEPT !.boundary.gap = g] : g \in {[kind |-> "float", n |-> 0], [kind |-> "bool", n |-> 1]}}
  \cup {[Busy EXCEPT !.boundary.signals = List(<<"dir_change", "nonstring">>)],
        [Busy EXCEPT !.intent = [kind |-> "null"]], [Busy EXCEPT !.version = "other"],
        [Busy EXCEPT !.risk.rules = List(<<Deletes, Deletes>>)],
        [Busy EXCEPT !.risk.rules = [kind |-> "null"]], [Busy EXCEPT !.risk.rules = List(<<>>)],
        [Quiet EXCEPT !.intent.demand = "weekly"]}
=============================================================================
