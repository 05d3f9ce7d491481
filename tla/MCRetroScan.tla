------------------------------- MODULE MCRetroScan -------------------------------
(***************************************************************************)
(* A home with two repositories, a linked worktree, a scratch directory    *)
(* and Claude's configuration; transcripts of up to MaxRecords records.    *)
(***************************************************************************)
EXTENDS RetroScan, TLC

CONSTANTS MaxRecords, s1, s2

Tree == {"/", "home", "repo", "repo/sub", "other", "linked", "loose", "hooks", "scratch"}

Path(d) ==
  CASE d = "/" -> <<"/">>
    [] d = "home" -> <<"home", "/">>
    [] d = "repo/sub" -> <<"repo/sub", "repo", "home", "/">>
    [] OTHER -> <<d, "home", "/">>
Paths == [d \in Tree |-> Path(d)]

Marks == [d \in Tree |-> CASE d \in {"repo", "other", "home"} -> "dir"
                           [] d = "linked" -> "file" [] OTHER -> "none"]
NoWorktrees == [d \in Tree |-> NoDir]

Rec(s, tool, cwd, dir) ==
  [sess |-> s, age |-> "in", tool |-> tool, cwd |-> cwd,
   target |-> IF dir = NoDir THEN NoTarget ELSE [dir |-> dir, name |-> "f"]]

Samples ==
  { Rec(s1, "Bash", "home", NoDir), Rec(s1, "Read", "loose", NoDir),
    Rec(s1, "Write", "loose", "repo/sub"), Rec(s1, "Edit", NoDir, "loose"),
    Rec(s1, "Write", "repo/sub", "repo"), Rec(s2, "Edit", "repo/sub", "other"),
    Rec(s2, "Write", "repo", "loose"), Rec(s2, "Edit", "other", "loose"),
    Rec(s2, "Write", "repo", "hooks"),
    Rec(s2, "Write", "repo", "scratch"), Rec(s2, "declare_intent", "repo", NoDir),
    [Rec(s1, "Write", "home", "other") EXCEPT !.age = "undated"],
    [Rec(s2, "Write", "other", "repo") EXCEPT !.age = "old"] }

SampleLogs  == UNION {[1..n -> Samples] : n \in 0..MaxRecords}

ASSUME InstanceAssumption == Shallow
=============================================================================
