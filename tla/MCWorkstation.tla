----------------------------- MODULE MCWorkstation -----------------------------
(***************************************************************************)
(* Files, installs and bounds for the run of Workstation.                  *)
(***************************************************************************)
EXTENDS Workstation

\* Two installs; a hook found through the PATH; one that only mentions Sentience;
\* and a command of the user's.
MCAbsolute == {"ours", "theirs"}
MCNamed == MCAbsolute \union {"bare"}
MCMentions == MCNamed \union {"module"}
MCCommands == MCMentions \union {"lint"}

MCInstall == [p \in Procs |->
  IF p = "p1" THEN [sibling |-> "ours", onPath |-> "theirs", bundle |-> "v2"]
  ELSE [sibling |-> "theirs", onPath |-> "theirs", bundle |-> "v1"]]

Lint == [plain |-> TRUE, commands |-> <<"lint">>]
Modified == [plain |-> FALSE, commands |-> <<"lint", "ours">>]

\* The same entries before a tool, and others after it and at the end.
Doc(before, after) ==
  [hooks |-> [event \in Events |-> IF event = "PreToolUse" THEN before ELSE after], rest |-> "mine"]
Saved(doc) == [state |-> "ok", doc |-> doc]
Absent == [state |-> "absent", doc |-> [Doc(<<>>, <<>>) EXCEPT !.rest = "none"]]

Wired == Saved(Doc(<<CanonicalEntry("ours")>>, <<CanonicalEntry("ours")>>))
Old == Saved(Doc(<<Lint, CanonicalEntry("theirs"), Lint, CanonicalEntry("ours")>>,
                 <<CanonicalEntry("theirs")>>))
Partial == Saved(Doc(<<CanonicalEntry("ours")>>, <<>>))
Bare == Saved(Doc(<<CanonicalEntry("bare")>>, <<Lint>>))
Module == Saved(Doc(<<>>, <<[plain |-> TRUE, commands |-> <<"module">>]>>))
Foreign == Saved(Doc(<<Lint>>, <<>>))
Odd == Saved(Doc(<<Modified>>, <<>>))
Broken == [Absent EXCEPT !.state = "malformed"]
Locked == [Absent EXCEPT !.state = "unreadable"]

MCEditFiles == {Old, Foreign, Broken, Odd}

Repo(owned) == [posix |-> TRUE, found |-> TRUE, isHome |-> FALSE, owned |-> owned]

Setup(flags) == [kind |-> "init", flags |-> flags]
Seam == [kind |-> "seam", flags |-> {}]

AllExecutable == [c \in MCAbsolute |-> "executable"]
NoServer == [state |-> "absent", others |-> {}, ours |-> "none"]
Served == [state |-> "ok", others |-> {"theirs"}, ours |-> "ours"]

None == [runs |-> 0, edits |-> 0, saves |-> 0, installs |-> 0, faults |-> 0, opens |-> 0,
         calls |-> 0, deletes |-> 0, ticks |-> 0, asks |-> 0, looks |-> 0]
Begin(owned, shared, local, servers, commands, bound) ==
  [repo |-> Repo(owned), disk |-> AllExecutable, registry |-> servers, modes |-> commands,
   shared |-> [d \in Directories |-> shared], local |-> [d \in Directories |-> local],
   left |-> bound]

\* Runs against each other and against a user's settings.
Contended ==
  {Begin(TRUE, shared, local, Served, {Seam, Setup({"no_skills"})},
         [None EXCEPT !.runs = 2, !.edits = 1]) : shared \in {Absent, Old}, local \in {Absent, Old}}

\* Runs against a user's skills and servers.
Skilled ==
  {Begin(TRUE, Absent, Wired, Served, {Setup({}), Setup({"force"}), Setup({"mcp", "no_skills"})},
         [None EXCEPT !.runs = 2, !.saves = 1, !.faults = 1])}

\* Files that a run cannot do with, and executables that come and go.
Unusable ==
  {Begin(owned, shared, local, NoServer, {Seam, Setup({"no_skills"})},
         [None EXCEPT !.runs = 1, !.installs = 1, !.faults = 1]) : owned \in BOOLEAN,
     shared \in {Bare, Module, Broken, Locked, Partial},
     local \in {Absent, Wired, Bare, Odd, Locked, Foreign}}

\* Sessions and their servers.
Asked == {Begin(TRUE, Absent, Wired, Served, {},
                [None EXCEPT !.opens = 2, !.calls = 2, !.ticks = 2, !.asks = 1, !.deletes = 1])}

\* A project that is set up while it is worked on.
SetUp == {Begin(FALSE, Absent, Absent, NoServer, {Setup({"mcp", "no_skills"})},
                [None EXCEPT !.runs = 1, !.opens = 1, !.calls = 1, !.asks = 1, !.deletes = 1])}

\* Sessions and the viewer.
Browsed == {Begin(TRUE, Absent, Wired, NoServer, {},
                  [None EXCEPT !.opens = 3, !.calls = 2, !.ticks = 1, !.looks = 1])}

MCStarts == Contended \union Skilled \union Unusable \union Asked \union SetUp \union Browsed

MCSkills == <<"pulse">>

MCWindowDirectory == [w \in Windows |-> IF w = "w1" THEN "root" ELSE "sub"]

MCReferences ==
  {[kind |-> kind, exact |-> "none", prefix |-> {}] : kind \in {"file", "no_file", "latest"}}
  \union {[kind |-> "id", exact |-> s, prefix |-> {s}] : s \in Sessions}
  \union {[kind |-> "id", exact |-> "none", prefix |-> Sessions]}

SessionSymmetry == Permutations(Sessions)
=============================================================================
