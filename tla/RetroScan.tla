------------------------------ MODULE RetroScan -------------------------------
(***************************************************************************)
(* The retrospective reader: it streams Claude Code's transcripts, counts  *)
(* what each session did, collects writes per session, target and working  *)
(* directory, and, once every working directory is known, decides for each *)
(* write whether it left the project the session worked in.  The report    *)
(* shows the strongest findings, as many as a display takes.               *)
(*                                                                         *)
(* A path is a directory and a name.  A record carries one tool call; a    *)
(* record with several is as many records.  Labels and titles are left     *)
(* out, and so is which of two findings comes first when only a label or a *)
(* path decides.                                                           *)
(***************************************************************************)
EXTENDS Naturals, Sequences, SequencesExt, FiniteSetsExt

CONSTANTS
  Dirs, NoDir,
  PathOf,        \* a directory and its parents, up to the root
  Home, RootDir, \* $HOME and /
  Mark,          \* what .git is in a directory: "dir", "file" or "none"
  Worktree,      \* the repository whose harness worktree a directory is in
  ScratchDirs,   \* where the suppression rules apply
  ConfigDirs,    \* Claude's own hooks, skills, commands and agents
  Names, Sessions,
  Windowed,      \* the report has a finite window
  Logs,          \* the transcripts, as the records they hold
  MaxTargets,    \* MAX_TARGETS: writes collected
  MaxDisplay,    \* MAX_DISPLAY_FINDINGS: findings shown
  DepthCap

Target   == [dir : Dirs, name : Names]
NoTarget == [dir |-> NoDir, name |-> "none"]
Tools    == {"Read", "Write", "Edit", "Bash", "declare_intent", "none"}

\* `age`: within the window, before it, or without a readable timestamp.
Record == [sess : Sessions, age : {"in", "old", "undated"}, tool : Tools,
           cwd : Dirs \cup {NoDir}, target : Target \cup {NoTarget}]

Unvisited == "unvisited"

ASSUME RetroAssumption ==
  /\ NoDir \notin Dirs /\ {Home, RootDir} \subseteq Dirs
  /\ Unvisited \notin Dirs \cup {NoDir}
  /\ \A d \in Dirs : /\ PathOf[d] \in Seq(Dirs) \ {<<>>}
                     /\ Head(PathOf[d]) = d /\ Last(PathOf[d]) = RootDir
  \* The parents of a parent are the rest of the path.
  /\ \A d \in Dirs : \A k \in DOMAIN PathOf[d] :
       PathOf[PathOf[d][k]] = SubSeq(PathOf[d], k, Len(PathOf[d]))
  /\ Mark \in [Dirs -> {"dir", "file", "none"}]
  /\ Worktree \in [Dirs -> Dirs \cup {NoDir}]
  /\ Logs \subseteq Seq(Record)
  /\ MaxTargets \in Nat /\ MaxDisplay \in Nat /\ DepthCap \in Nat

\* No directory is deeper than a walk goes.
Shallow == \A d \in Dirs : Len(PathOf[d]) <= DepthCap

VARIABLES
  log, pos,     \* the records and how many are read
  counts,       \* the report's counters
  declaring,    \* sessions that declared an intent
  cwds,         \* the directories each session was seen in
  writes,       \* what is collected: [sess, target, cwd, ops], in scan order
  classified,   \* how many of the writes are classified
  memo,         \* RootResolver._memo
  findings,     \* [sess, class, target, ops, source, dest]
  reported,     \* the report is made
  shown,        \* the findings it shows
  omitted       \* findings_omitted

report == <<reported, shown, omitted>>
vars == <<log, pos, counts, declaring, cwds, writes, classified, memo, findings, report>>

Counters == {"tool_calls", "file_ops", "shell_calls", "unknown_targets",
             "suppressed", "outside_cwd", "targets_omitted", "undated",
             "excluded", "unknown_root", "same_project"}
Classes   == {"claude_config", "cross_project", "non_project"}

WriteKey == [sess : Sessions, target : Target, cwd : Dirs \cup {NoDir}, ops : Nat]
Finding  == [sess : Sessions, class : Classes, target : Target, ops : Nat,
             source : Dirs \cup {NoDir}, dest : Dirs \cup {NoDir}]

TypeOK ==
  /\ log \in Logs
  /\ pos \in 0..Len(log)
  /\ counts \in [Counters -> Nat]
  /\ declaring \subseteq Sessions
  /\ cwds \in [Sessions -> SUBSET Dirs]
  /\ writes \in Seq(WriteKey)
  /\ classified \in 0..Len(writes)
  /\ memo \in [Dirs -> Dirs \cup {NoDir, Unvisited}]
  /\ findings \subseteq Finding
  /\ reported \in BOOLEAN
  /\ shown \subseteq Finding
  /\ omitted \in Nat

Init ==
  /\ log \in Logs
  /\ pos = 0
  /\ counts = [c \in Counters |-> 0]
  /\ declaring = {}
  /\ cwds = [s \in Sessions |-> {}]
  /\ writes = <<>>
  /\ classified = 0
  /\ memo = [d \in Dirs |-> Unvisited]
  /\ findings = {}
  /\ reported = FALSE
  /\ shown = {}
  /\ omitted = 0

Plus(c, n) == [counts EXCEPT ![c] = @ + n]
Tally(ones) == [c \in Counters |-> IF c \in ones THEN counts[c] + 1 ELSE counts[c]]

-----------------------------------------------------------------------------
(***************************************************************************)
(* Paths                                                                   *)
(***************************************************************************)
\* suppression_rule (S1 to S5) and is_claude_config.
Suppressed(t)     == t.dir \in ScratchDirs
IsClaudeConfig(t) == t.dir \in ConfigDirs

IsWithin(d, base) == Contains(PathOf[d], base)

\* _git_root stops at a boundary, at a .git of either kind, or where it knows.
Boundary(d) == d \in {RootDir, Home}
Stops(d, known) == known[d] # Unvisited \/ Boundary(d) \/ Mark[d] # "none"

\* How far up the walk from d goes; 0 when the cap ends it.
StopAt(d, known) ==
  SelectInSeq(SubSeq(PathOf[d], 1, Min({DepthCap, Len(PathOf[d])})),
              LAMBDA p : Stops(p, known))

FoundAt(p, known) ==
  CASE known[p] # Unvisited -> known[p]
    [] known[p] = Unvisited /\ ~Boundary(p) /\ Mark[p] = "dir" -> p
    [] OTHER -> NoDir

GitRoot(d, known) ==
  LET k == StopAt(d, known) IN
  IF k = 0 THEN NoDir ELSE FoundAt(PathOf[d][k], known)

\* Of Learnt: a faulty form of it.
LearntPastBoundary(d, known) ==
  [p \in Dirs |-> IF p \in ToSet(PathOf[d]) /\ known[p] = Unvisited
                    THEN GitRoot(d, known) ELSE known[p]]

\* Every directory the walk looked at gets the walk's answer.
Learnt(d, known) ==
  LET k     == IF StopAt(d, known) = 0 THEN Min({DepthCap, Len(PathOf[d])})
                                       ELSE StopAt(d, known)
      chain == {p \in ToSet(SubSeq(PathOf[d], 1, k)) : known[p] = Unvisited /\ ~Boundary(p)}
  IN [p \in Dirs |-> IF p \in chain THEN GitRoot(d, known) ELSE known[p]]

\* resolve: a harness worktree's repository, a .git directory, or the
\* outermost directory the session was seen in that contains this one.
Covering(d, seen) == {c \in seen : IsWithin(d, c)}
Outermost(dirs)   == CHOOSE c \in dirs : \A e \in dirs : Len(PathOf[c]) <= Len(PathOf[e])

Resolve(d, seen, known) ==
  CASE Worktree[d] # NoDir -> Worktree[d]
    [] Worktree[d] = NoDir /\ GitRoot(d, known) # NoDir -> GitRoot(d, known)
    [] Worktree[d] = NoDir /\ GitRoot(d, known) = NoDir /\ Covering(d, seen) # {}
         -> Outermost(Covering(d, seen))
    [] OTHER -> NoDir

AfterResolve(d, known) == IF Worktree[d] # NoDir THEN known ELSE Learnt(d, known)

-----------------------------------------------------------------------------
(***************************************************************************)
(* Streaming the records                                                   *)
(***************************************************************************)
rec == log[pos + 1]

Undated == rec.age = "undated" /\ rec.tool # "none"

Reading ==
  /\ pos < Len(log)
  /\ pos' = pos + 1
  /\ UNCHANGED <<log, classified, memo, findings, report>>

\* Outside the window, or not known to be inside: never guessed in.
Excluded == Windowed /\ rec.age # "in"

SkipRecord ==
  /\ Reading
  /\ Excluded
  /\ counts' = Tally((IF Undated THEN {"undated"} ELSE {})
                     \cup (IF rec.age = "old" THEN {"excluded"} ELSE {}))
  /\ UNCHANGED <<declaring, cwds, writes>>

\* The call's counters: what it is, and whether its target is understood.
Interpreted ==
  (IF Undated THEN {"undated"} ELSE {}) \cup
  (IF rec.tool # "none" THEN {"tool_calls"} ELSE {}) \cup
  (IF rec.tool = "Bash" THEN {"shell_calls"} ELSE {}) \cup
  (IF rec.tool \in {"Read", "Write", "Edit"} THEN {"file_ops"} ELSE {}) \cup
  (IF rec.tool \in {"Read", "Write", "Edit"} /\ rec.target = NoTarget
     THEN {"unknown_targets"} ELSE {})

IsWrite == rec.tool \in {"Write", "Edit"} /\ rec.target # NoTarget

Seen == cwds' = [cwds EXCEPT ![rec.sess] = @ \cup ({rec.cwd} \ {NoDir})]

ReadCall ==
  /\ Reading
  /\ ~Excluded
  /\ ~IsWrite
  /\ counts' = Tally(Interpreted)
  /\ declaring' = IF rec.tool = "declare_intent" THEN declaring \cup {rec.sess} ELSE declaring
  /\ Seen
  /\ UNCHANGED writes

Outside == rec.cwd = NoDir \/ ~IsWithin(rec.target.dir, rec.cwd)

KeyAt == SelectInSeq(writes, LAMBDA w : w.sess = rec.sess /\ w.target = rec.target
                                          /\ w.cwd = rec.cwd)

\* A write that no rule suppresses is collected, up to the bound.
Collected ==
  CASE Suppressed(rec.target) -> UNCHANGED writes
    [] ~Suppressed(rec.target) /\ KeyAt # 0 -> writes' = [writes EXCEPT ![KeyAt].ops = @ + 1]
    [] ~Suppressed(rec.target) /\ KeyAt = 0 /\ Len(writes) < MaxTargets ->
         writes' = Append(writes, [sess |-> rec.sess, target |-> rec.target,
                                   cwd |-> rec.cwd, ops |-> 1])
    [] OTHER -> UNCHANGED writes

\* Of Omitted: a faulty form of it.
OmittedWhenFull == ~Suppressed(rec.target) /\ Len(writes) >= MaxTargets

Omitted == ~Suppressed(rec.target) /\ KeyAt = 0 /\ Len(writes) >= MaxTargets

ReadWrite ==
  /\ Reading
  /\ ~Excluded
  /\ IsWrite
  /\ Collected
  /\ counts' = Tally(Interpreted
       \cup (IF Suppressed(rec.target) THEN {"suppressed"} ELSE {})
       \cup (IF ~Suppressed(rec.target) /\ Outside THEN {"outside_cwd"} ELSE {})
       \cup (IF Omitted THEN {"targets_omitted"} ELSE {}))
  /\ Seen
  /\ UNCHANGED declaring

-----------------------------------------------------------------------------
(***************************************************************************)
(* Classifying the writes                                                  *)
(***************************************************************************)
Source(w, known) == IF w.cwd = NoDir THEN NoDir ELSE Resolve(w.cwd, cwds[w.sess], known)
AfterSource(w, known) == IF w.cwd = NoDir THEN known ELSE AfterResolve(w.cwd, known)
Dest(w, known) == Resolve(w.target.dir, cwds[w.sess], known)

\* The class of a write, or the counter it goes to.
ClassOf(w, known) ==
  LET source == Source(w, known)
      dest   == Dest(w, AfterSource(w, known))
  IN CASE IsClaudeConfig(w.target) -> "claude_config"
       [] ~IsClaudeConfig(w.target) /\ source = NoDir -> "unknown_root"
       [] ~IsClaudeConfig(w.target) /\ source # NoDir /\ dest = NoDir -> "non_project"
       [] ~IsClaudeConfig(w.target) /\ source # NoDir /\ dest = source -> "same_project"
       [] OTHER -> "cross_project"

NeedsDest(w, known) == ~IsClaudeConfig(w.target) /\ Source(w, known) # NoDir

\* Of Merge: a faulty form of it, in which the last write gives the source.
MergeLast(w, class) ==
  LET same == {f \in findings : f.sess = w.sess /\ f.class = class /\ f.target = w.target}
      dest == IF class = "claude_config" THEN NoDir ELSE Dest(w, AfterSource(w, memo))
  IN (findings \ same) \cup
       {[sess |-> w.sess, class |-> class, target |-> w.target, source |-> Source(w, memo),
         dest |-> dest, ops |-> w.ops + MapThenSumSet(LAMBDA f : f.ops, same)]}

Merge(w, class) ==
  LET same == {f \in findings : f.sess = w.sess /\ f.class = class /\ f.target = w.target}
      new  == [sess |-> w.sess, class |-> class, target |-> w.target, ops |-> w.ops,
               source |-> Source(w, memo),
               dest |-> IF class = "claude_config" THEN NoDir
                        ELSE Dest(w, AfterSource(w, memo))]
  IN IF same = {} THEN findings \cup {new}
     ELSE (findings \ same) \cup {[f EXCEPT !.ops = @ + w.ops] : f \in same}

ClassifyWrite ==
  /\ pos = Len(log)
  /\ classified < Len(writes)
  /\ classified' = classified + 1
  /\ LET w     == writes[classified + 1]
         class == ClassOf(w, memo)
     IN /\ memo' = IF NeedsDest(w, memo) THEN AfterResolve(w.target.dir, AfterSource(w, memo))
                   ELSE AfterSource(w, memo)
        /\ IF class \in Classes
             THEN findings' = Merge(w, class) /\ UNCHANGED counts
             ELSE counts' = Plus(class, w.ops) /\ UNCHANGED findings
  /\ UNCHANGED <<log, pos, declaring, cwds, writes, report>>

-----------------------------------------------------------------------------
(***************************************************************************)
(* The report                                                              *)
(***************************************************************************)
Rank == [claude_config |-> 0, cross_project |-> 1, non_project |-> 2]

\* The targets of f's session in the place f is in.
Company(f) == Cardinality({g \in findings : g.sess = f.sess /\ g.dest = f.dest})

\* rank_findings puts f before g, whatever their labels and targets are.
Stronger(f, g) ==
  \/ Rank[f.class] < Rank[g.class]
  \/ /\ Rank[f.class] = Rank[g.class]
     /\ \/ Company(f) > Company(g)
        \/ Company(f) = Company(g) /\ f.ops > g.ops

Left == IF Cardinality(findings) > MaxDisplay THEN Cardinality(findings) - MaxDisplay ELSE 0

\* Ranking runs over all findings, then the display cuts.
Report ==
  /\ pos = Len(log)
  /\ classified = Len(writes)
  /\ ~reported
  /\ reported' = TRUE
  /\ \E cut \in SUBSET findings :
       /\ Cardinality(cut) = Left
       /\ \A g \in cut : \A f \in findings \ cut : ~Stronger(g, f)
       /\ shown' = findings \ cut
  /\ omitted' = Left
  /\ UNCHANGED <<log, pos, counts, declaring, cwds, writes, classified, memo, findings>>

Next == SkipRecord \/ ReadCall \/ ReadWrite \/ ClassifyWrite \/ Report

Spec == Init /\ [][Next]_vars

-----------------------------------------------------------------------------
(***************************************************************************)
(* Properties                                                              *)
(***************************************************************************)
OpsAt(s, K) == MapThenSumSet(LAMBDA k : s[k].ops, K)
Ops(s) == OpsAt(s, DOMAIN s)
FoundOps == MapThenSumSet(LAMBDA f : f.ops, findings)
Written == {k \in 1..pos : log[k].tool \in {"Write", "Edit"} /\ log[k].target # NoTarget
                           /\ (Windowed => log[k].age = "in")}

(***************************************************************************)
(* Every write operation of the window ends in exactly one place: a        *)
(* suppression, the overflow counter, a finding, the project's own writes  *)
(* or those whose session's project is unknown (scan).                     *)
(***************************************************************************)
EveryWriteIsCounted ==
  /\ Cardinality(Written) = counts["suppressed"] + counts["targets_omitted"] + Ops(writes)
  /\ Ops(SubSeq(writes, 1, classified)) =
       FoundOps + counts["unknown_root"] + counts["same_project"]

(***************************************************************************)
(* A finding is shown or counted as omitted.  What the display cuts is not *)
(* of a stronger class than what it keeps, and it cuts only when it is     *)
(* full.                                                                   *)
(***************************************************************************)
CutIsDisclosed ==
  reported =>
    /\ classified = Len(writes) /\ shown \subseteq findings
    /\ Cardinality(shown) + omitted = Cardinality(findings)
    /\ omitted # 0 => Cardinality(shown) = MaxDisplay
    /\ \A f \in shown, g \in findings \ shown : Rank[f.class] <= Rank[g.class]

(***************************************************************************)
(* WritesAccounted: no write is lost or counted twice between its record   *)
(* and the findings, and no finding is lost between them and the report -  *)
(* of one that the display cuts, its own number in findings_omitted is all *)
(* that the report tells of its writes.                                    *)
(***************************************************************************)
WritesAccounted == TypeOK /\ EveryWriteIsCounted /\ CutIsDisclosed

(***************************************************************************)
(* A remembered root is the one a walk without memory would find, so no    *)
(* answer depends on the order in which directories are asked for          *)
(* (RootResolver).                                                         *)
(***************************************************************************)
Nothing == [d \in Dirs |-> Unvisited]
MemoIsTransparent == \A d \in Dirs : memo[d] # Unvisited => memo[d] = GitRoot(d, Nothing)

(***************************************************************************)
(* What the whole log says of a write: where its session worked, where it  *)
(* went, and whether that is another place.                                *)
(***************************************************************************)
SeenIn(s) == {log[k].cwd : k \in {j \in DOMAIN log :
                log[j].sess = s /\ (Windowed => log[j].age = "in")}} \ {NoDir}

RootFrom(w)   == IF w.cwd = NoDir THEN NoDir ELSE Resolve(w.cwd, SeenIn(w.sess), Nothing)
RootTo(s, t)  == Resolve(t.dir, SeenIn(s), Nothing)
Strays(w)     == IsClaudeConfig(w.target) \/ RootFrom(w) \notin {NoDir, RootTo(w.sess, w.target)}
ClassTo(s, t) == IF IsClaudeConfig(t) THEN "claude_config"
                 ELSE IF RootTo(s, t) = NoDir THEN "non_project" ELSE "cross_project"

\* The classified writes of a session that strayed to a target.
Behind(s, t, n) == {k \in 1..n : writes[k].sess = s /\ writes[k].target = t /\ Strays(writes[k])}

(***************************************************************************)
(* Of the writes of one session to one target from several directories     *)
(* those that strayed are one finding, and those that did not are none:    *)
(* its operations are theirs, its class and destination depend on the log  *)
(* alone, and its source is that of the first of them collected - in the   *)
(* order of the scan, as is which writes are collected at all when there   *)
(* are more than MaxTargets.                                               *)
(***************************************************************************)
FoundedOn(f, n) ==
  LET K == Behind(f.sess, f.target, n) IN
  /\ K # {}
  /\ f.class = ClassTo(f.sess, f.target)
  /\ f.dest = IF f.class = "claude_config" THEN NoDir ELSE RootTo(f.sess, f.target)
  /\ f.source = RootFrom(writes[Min(K)])
  /\ f.ops = OpsAt(writes, K)

FindingsAreFounded ==
  /\ \A f \in findings : FoundedOn(f, classified)
  /\ \A k \in 1..classified : Strays(writes[k]) =>
       \E f \in findings : f.sess = writes[k].sess /\ f.target = writes[k].target

(***************************************************************************)
(* FindingsFollowTheLog: a finding says of its writes what the whole log   *)
(* says of them.  Classifying waits for every working directory of the     *)
(* session, nothing of another write leaks into it through the memory of   *)
(* roots, and writes of one target are merged as they were collected.      *)
(***************************************************************************)
FindingsFollowTheLog == MemoIsTransparent /\ FindingsAreFounded
=============================================================================
