---------------------------- MODULE ShellTables -----------------------------
(***************************************************************************)
(* The rule tables of wrapper/shell_classification.py: what each family of *)
(* executables makes of its arguments.  A word is looked up whole; what    *)
(* the code asks of its spelling (a leading dash, the letters of a bundle  *)
(* of short options, a URL, a local path) is a set of the words the texts  *)
(* are made of.                                                            *)
(***************************************************************************)
EXTENDS ShellScan

Effect(d, a, x) == [domain |-> d, action |-> a, destructive |-> x]

Unknown    == Effect("unknown", "unknown", "unset")
Read(d)    == Effect(d, "read", "no")
Create(d)  == Effect(d, "create", "no")
Modify(d, x) == Effect(d, "modify", x)

Delete(d)  == Effect(d, "delete", "yes")

Execute(d) == Effect(d, "execute", "unset")

-----------------------------------------------------------------------------
(* What the code reads from the spelling of a word                         *)

\* The letters of a bundle of short options, in order.
Bundles == [o \in {"-xf", "-rf", "-dk", "-sI", "-sX", "-so", "-sO", "-sd"} |->
              CASE o = "-xf" -> {"x", "f"} [] o = "-rf" -> {"r", "f"} [] o = "-dk" -> {"d", "k"}
                [] o = "-sI" -> {"s", "I"} [] o = "-sX" -> {"s", "X"} [] o = "-so" -> {"s", "o"}
                [] o = "-sO" -> {"s", "O"} [] o = "-sd" -> {"s", "d"}]
ShortOptions == {"-", "-u", "-C", "-c", "-v", "-d", "-D", "-r", "-f", "-b", "-B", "-l", "-X", "-o",
                 "-O", "-T", "-I", "-e", "-a", "-n", "-s", "-i", "-k", "-x", "-destroy"}
InlineOptions == {"--output=", "--request=", "--data=", "--output-document=", "--rebase=",
                  "--force-with-lease=", "--in-place=", "--requirement=", "--get=", "--post-data=",
                  "--region="}
LongOptions == InlineOptions \cup
  {"--force", "--hard", "--delete", "--delete-after", "--prune", "--rebase", "--git-dir", "--list",
   "--get", "--request", "--output", "--remote-name", "--data", "--head", "--upload-file", "--",
   "--force-with-lease", "--create", "--orphan", "--discard-changes", "--force-create",
   "--verbose", "--append", "--in-place", "--extract", "--decompress", "--keep", "--upgrade",
   "--sync", "--editable", "--requirement", "--constraint", "--namespace", "--context", "--debug",
   "--version", "--destroy", "--output-document", "--profile", "--work-tree"}
Options == ShortOptions \cup DOMAIN Bundles \cup LongOptions

Letters(o) ==
  CASE o \in DOMAIN Bundles -> Bundles[o]
    [] o = "-d" -> {"d"} [] o = "-k" -> {"k"} [] o = "-a" -> {"a"} [] o = "-x" -> {"x"}
    [] o = "-c" -> {"c"} [] OTHER -> {}

Urls         == {"https://h/x"}
RemotePaths  == {"u@h:p"}
Remote       == Urls \cup RemotePaths \cup {"s3://b"}
LocalPaths   == {".", "/p", "p.whl"}
RefDeletions == {":branch"}
UpperOf(m)   == CASE m = "get" -> "GET" [] m = "delete" -> "DELETE" [] OTHER -> m

\* The name a word is looked up by: its text when that is one chunk, an
\* option without the value written after its equals sign, and otherwise
\* something no table holds.
Name(w) == CASE w.value = <<>> -> ""
             [] Len(w.value) = 1 \/ (w.value # <<>> /\ Head(w.value) \in InlineOptions \cup DOMAIN Bundles)
                  -> Head(w.value)
             [] OTHER -> "..."
Inline(w) == IF Len(w.value) > 1 THEN w.value[2] ELSE ""
Dashed(w) == w.value # <<>> /\ Head(w.value) \in Options

Names(args)  == [i \in DOMAIN args |-> Name(args[i])]
Positionals(args) == Names(SelectSeq(args, LAMBDA w : ~Dashed(w)))
Flags(args)  == {Name(args[i]) : i \in {j \in DOMAIN args : Dashed(args[j])}}
At(s, i)     == IF i \in DOMAIN s THEN s[i] ELSE ""
After(s, i)  == SubSeq(s, i, Len(s))

\* The index of the first word that is neither an option nor the value of
\* one of the options in two.
FirstBare(args, two) ==
  LET at[i \in Nat] == IF i > Len(args) \/ ~Dashed(args[i]) THEN i
                       ELSE at[IF Name(args[i]) \in two THEN i + 2 ELSE i + 1]
  IN  at[1]

-----------------------------------------------------------------------------
(* Files                                                                   *)

FsRead       == {"cat", "grep", "ls", "find"}
FsCreate     == {"mkdir", "ln"}
FsModifyTrue == {"mv", "truncate"}
FsDelete     == {"rm", "rmdir"}
FsOther      == {"touch", "cp", "tar", "unzip", "gzip", "chmod", "tee", "sed"}
Fs == "filesystem"

TarEffects(args) ==
  LET first == IF args = <<>> THEN "" ELSE Name(args[1])
      letters == IF first \in LongOptions THEN {} ELSE Letters(first)
  IN  IF letters \cap {"x", "c"} # {} \/ Flags(args) \cap {"--extract", "--create"} # {}
      THEN <<Modify(Fs, "unset")>> ELSE <<Unknown>>

TeeEffects(args) ==
  IF ~\E i \in DOMAIN args : ~Dashed(args[i]) /\ ~args[i].construct /\ ~args[i].group THEN <<>>
  ELSE IF \E f \in Flags(args) : f = "--append" \/ "a" \in Letters(f) THEN <<Modify(Fs, "no")>>
  ELSE <<Modify(Fs, "unset")>>

FsEffects(exe, args) ==
  CASE exe \in FsRead       -> <<Read(Fs)>>
    [] exe \in FsCreate     -> <<Create(Fs)>>
    [] exe \in FsModifyTrue -> <<Modify(Fs, "yes")>>
    [] exe \in FsDelete     -> <<Delete(Fs)>>
    [] exe \in {"touch", "chmod"} -> <<Modify(Fs, "no")>>
    [] exe \in {"cp", "unzip"}    -> <<Modify(Fs, "unset")>>
    [] exe = "tar"  -> TarEffects(args)
    [] exe = "gzip" -> <<Modify(Fs, IF \E f \in Flags(args) : f \in {"--decompress", "--keep"}
                                                              \/ Letters(f) \cap {"d", "k"} # {}
                                    THEN "unset" ELSE "yes")>>
    [] exe = "tee"  -> TeeEffects(args)
    [] exe = "sed"  -> IF Flags(args) \cap {"--in-place", "--in-place=", "-i"} # {}
                       THEN <<Modify(Fs, "yes")>> ELSE <<Read(Fs)>>

-----------------------------------------------------------------------------
(* Version control, and the forge                                          *)

Vc  == "version_control"
Net == "network"

GitRead       == {"status", "log"}
GitCreate     == {"commit", "init"}
GitModify     == {"merge", "apply", "add"}
GitModifyTrue == {"restore", "rebase"}
GitDelete     == {"rm", "clean"}
GitValueOpts  == {"-C", "-c", "--git-dir", "--work-tree", "--namespace"}

StashEffect(verb) ==
  CASE verb = "list"             -> Read(Vc)
    [] verb \in {"pop", "apply"}  -> Modify(Vc, "no")
    [] verb \in {"drop", "clear"} -> Delete(Vc)
    [] verb \in {"", "push"}      -> Create(Vc)
    [] OTHER                     -> Unknown

PushEffect(flags, pos) ==
  IF flags \cap {"--delete", "-d"} # {} \/ \E i \in DOMAIN pos : pos[i] \in RefDeletions THEN Delete(Vc)
  ELSE Modify(Vc, IF flags \cap {"--force", "-f", "--force-with-lease", "--force-with-lease="} # {}
                  THEN "yes" ELSE "no")

\* A subcommand with rules of its own.
GitBranching(sub, flags, pos, rest) ==
  CASE sub = "remote" -> IF rest = <<>> \/ (flags \subseteq {"-v", "--verbose"} /\ pos = <<>>)
                         THEN Read(Vc) ELSE Unknown
    [] sub \in {"branch", "tag"} ->
         IF flags \cap ({"-d", "--delete"} \cup (IF sub = "branch" THEN {"-D"} ELSE {})) # {}
         THEN Delete(Vc) ELSE IF pos # <<>> THEN Create(Vc) ELSE Read(Vc)
    [] sub = "stash" -> StashEffect(At(pos, 1))
    [] sub = "config" -> IF flags \cap {"--get", "--get=", "-l", "--list"} # {} THEN Read(Vc)
                         ELSE Modify(Vc, "no")
    [] sub = "checkout" ->
         IF flags \cap {"-b", "-B", "--orphan"} # {} THEN Create(Vc)
         ELSE Modify(Vc, IF flags \cap {"-f", "--force", "--"} # {} THEN "yes" ELSE "no")
    [] sub = "switch" ->
         IF flags \cap {"-c", "-C", "--create", "--force-create"} # {} THEN Create(Vc)
         ELSE Modify(Vc, IF flags \cap {"-f", "--force", "--discard-changes"} # {} THEN "yes" ELSE "no")
    [] sub = "reset" -> Modify(Vc, IF "--hard" \in flags THEN "yes" ELSE "no")
    [] sub = "worktree" -> CASE At(pos, 1) = "add" -> Create(Vc)
                             [] At(pos, 1) = "remove" -> Delete(Vc) [] OTHER -> Unknown
    [] OTHER -> Unknown

GitTransport(sub, flags, pos) ==
  CASE sub = "clone" -> IF \E i \in DOMAIN pos : pos[i] \in Remote THEN <<Read(Net), Create(Vc)>>
                        ELSE <<Create(Vc)>>
    [] sub = "fetch" -> <<Read(Net), Modify(Vc, "no")>>
    [] sub = "pull"  -> <<Read(Net), Modify(Vc, IF flags \cap {"--rebase", "-r", "--rebase="} # {}
                                                THEN "yes" ELSE "no")>>
    [] sub = "push"  -> <<Modify(Net, "no"), PushEffect(flags, pos)>>

VcsEffects(args) ==
  LET i == FirstBare(args, GitValueOpts)
      sub == Name(args[i])
      rest == After(args, i + 1)
      flags == Flags(rest)
      pos == Positionals(rest)
  IN  IF i > Len(args) THEN <<Unknown>>
      ELSE CASE sub \in GitRead       -> <<Read(Vc)>>
             [] sub \in GitCreate     -> <<Create(Vc)>>
             [] sub \in GitModify     -> <<Modify(Vc, "no")>>
             [] sub \in GitModifyTrue -> <<Modify(Vc, "yes")>>
             [] sub \in GitDelete     -> <<Delete(Vc)>>
             [] sub \in {"clone", "fetch", "pull", "push"} -> GitTransport(sub, flags, pos)
             [] OTHER -> <<GitBranching(sub, flags, pos, rest)>>

GhEffects(args) ==
  LET pos == Positionals(args)
      group == At(pos, 1)
      verb == At(pos, 2)
  IN  CASE group \in {"pr", "repo"} /\ verb \in {"list", "view"} /\ ~(group = "repo" /\ verb = "list")
             -> <<Read(Net)>>
        [] group \in {"pr", "repo", "release"} /\ verb = "create" -> <<Modify(Net, "no"), Create(Vc)>>
        [] group = "pr" /\ verb \in {"merge", "close"} -> <<Modify(Net, "no"), Modify(Vc, "no")>>
        [] group \in {"repo", "release"} /\ verb = "delete" -> <<Modify(Net, "no"), Delete(Vc)>>
        [] OTHER -> <<Unknown>>

-----------------------------------------------------------------------------
(* Packages                                                                *)

Pk == "packages"
Fetching == <<Read(Net), Modify(Pk, "no")>>

PkgRun     == [npm |-> {"run", "test"}, uv |-> {"run"}, poetry |-> {"run"}, pip |-> {}]
PkgRead    == [npm |-> {"ls", "audit"}, uv |-> {"tree"}, poetry |-> {"show"}, pip |-> {"list"}]
PkgInstall == [npm |-> {"install"}, uv |-> {"add"}, poetry |-> {"add"}, pip |-> {"install"}]
PkgUpgrade == [npm |-> {"update"}, uv |-> {}, poetry |-> {"update"}, pip |-> {}]
PkgSync    == [npm |-> {"ci"}, uv |-> {"sync"}, poetry |-> {}, pip |-> {}]
PkgRemove  == [npm |-> {"uninstall"}, uv |-> {"remove"}, poetry |-> {"remove"}, pip |-> {"uninstall"}]

\* An installation reads no network only when all it names is local; what
\* follows -r, -c and -e is no target, except that an editable counts again,
\* and a requirements file is never local.
InstallEffects(mgr, targets, args) ==
  LET vals == Names(args)
      Following(opts) == {vals[j + 1] : j \in {k \in 1..(Len(vals) - 1) : vals[k] \in opts}}
      editable == Following({"-e", "--editable"})
      consumed == Following({"-r", "--requirement", "-c", "--constraint", "-e", "--editable"})
      listed == {vals[j] : j \in DOMAIN vals} \cap {"-r", "--requirement", "--requirement="} # {}
      all == ({targets[i] : i \in DOMAIN targets} \ consumed) \cup editable
  IN  IF mgr # "npm" /\ mgr # "poetry" /\ ~listed /\ all # {} /\ all \subseteq LocalPaths
      THEN <<Modify(Pk, "no")>> ELSE Fetching

UvPipEffects(pos, args) ==
  CASE pos[2] = "list"    -> <<Read(Pk)>>
    [] pos[2] = "install" -> InstallEffects("pip", After(pos, 3), args)
    [] OTHER              -> <<Unknown>>

PkgEffects(mgr, args) ==
  LET pos == Positionals(args)
      flags == Flags(args)
      sub == At(pos, 1)
  IN  CASE pos = <<>> -> <<Unknown>>
        [] mgr = "uv" /\ sub = "pip" /\ Len(pos) >= 2 -> UvPipEffects(pos, args)
        [] mgr = "uv" /\ sub = "lock" -> IF "--upgrade" \in flags THEN Fetching ELSE <<Unknown>>
        [] sub \in PkgRun[mgr]  -> <<Execute("process")>>
        [] sub \in PkgRead[mgr] -> <<Read(Pk)>>
        [] mgr = "npm" /\ sub \in {"view", "outdated"} -> <<Read(Pk), Read(Net)>>
        [] mgr = "pip" /\ sub = "download" -> <<Read(Net), Modify(Fs, "unset")>>
        [] sub \in PkgInstall[mgr] -> InstallEffects(mgr, Tail(pos), args)
        [] mgr = "poetry" /\ sub = "install" /\ "--sync" \in flags -> <<Read(Net), Modify(Pk, "yes")>>
        [] sub \in PkgUpgrade[mgr] -> Fetching
        [] sub \in PkgSync[mgr]    -> <<Read(Net), Modify(Pk, "yes")>>
        [] sub \in PkgRemove[mgr]  -> <<Delete(Pk)>>
        [] OTHER -> <<Unknown>>

-----------------------------------------------------------------------------
(* The network                                                             *)

\* What curl's options say: the request's method, whether it carries data,
\* and where the answer is saved.  An option that takes a value skips it; the
\* letters of a bundle include those of a method written onto it.
CurlOption(s, w, next) ==
  LET v == Name(w)
      letters == (IF v \in DOMAIN Bundles THEN Bundles[v] ELSE {})
                 \cup (IF Inline(w) = "DELETE" THEN {"T"} ELSE {})
  IN
  CASE s.skip -> [s EXCEPT !.skip = FALSE]
    [] v \in {"-X", "--request"} -> [s EXCEPT !.method = UpperOf(next), !.skip = TRUE]
    [] v = "--request=" -> [s EXCEPT !.method = UpperOf(Inline(w))]
    [] v \in {"-o", "--output"} -> [s EXCEPT !.saves = TRUE, !.to = next, !.skip = TRUE]
    [] v = "--output=" -> [s EXCEPT !.saves = TRUE, !.to = Inline(w)]
    [] v \in {"-O", "--remote-name"} -> [s EXCEPT !.saves = TRUE, !.to = "remote-name"]
    [] v \in {"-d", "--data", "-T", "--upload-file"} -> [s EXCEPT !.data = TRUE, !.skip = TRUE]
    [] v = "--data=" -> [s EXCEPT !.data = TRUE]
    [] "X" \in letters /\ Inline(w) = "" -> [s EXCEPT !.method = UpperOf(next), !.skip = TRUE]
    [] "X" \in letters /\ Inline(w) # "" ->
         [s EXCEPT !.method = UpperOf(Inline(w)), !.data = @ \/ "T" \in letters, !.skip = "T" \in letters]
    [] "o" \in letters -> [s EXCEPT !.saves = TRUE, !.to = next, !.skip = TRUE]
    [] "O" \in letters -> [s EXCEPT !.saves = TRUE, !.to = "remote-name"]
    [] "d" \in letters -> [s EXCEPT !.data = TRUE, !.skip = TRUE]
    [] OTHER -> s

NoMethod == "no method"

CurlEffects(args) ==
  LET s == FoldLeft(LAMBDA a, j : CurlOption(a, args[j], IF j < Len(args) THEN Name(args[j + 1]) ELSE ""),
                    [method |-> NoMethod, data |-> FALSE, saves |-> FALSE, to |-> "", skip |-> FALSE],
                    [j \in 1..Len(args) |-> j])
      request == CASE s.method \in {"GET", "HEAD", "OPTIONS"} \/ (s.method = NoMethod /\ ~s.data) -> Read(Net)
                   [] s.method = "DELETE" -> Delete(Net)
                   [] OTHER -> Modify(Net, "unset")
  IN  <<request>> \o (IF s.saves /\ s.to # "/dev/null" THEN <<Modify(Fs, "unset")>> ELSE <<>>)

WgetOption(s, w, next) ==
  CASE s.skip -> [s EXCEPT !.skip = FALSE]
    [] Name(w) \in {"-O", "--output-document"} -> [s EXCEPT !.to = next, !.skip = TRUE]
    [] Name(w) = "--output-document=" -> [s EXCEPT !.to = Inline(w)]
    [] Name(w) = "--post-data=" -> [s EXCEPT !.post = TRUE]
    [] OTHER -> s

WgetEffects(args) ==
  LET s == FoldLeft(LAMBDA a, j : WgetOption(a, args[j], IF j < Len(args) THEN Name(args[j + 1]) ELSE ""),
                    [to |-> "the last part of the URL", post |-> FALSE, skip |-> FALSE],
                    [j \in 1..Len(args) |-> j])
  IN  IF s.post THEN <<Modify(Net, "unset")>>
      ELSE <<Read(Net)>> \o (IF s.to \in {"-", "/dev/null"} THEN <<>> ELSE <<Modify(Fs, "unset")>>)

CopyEffects(exe, args) ==
  LET pos == Positionals(args)
      x == IF exe = "rsync" /\ Flags(args) \cap {"--delete", "--delete-after"} # {} THEN "yes" ELSE "unset"
      last == Len(pos)
  IN  CASE last < 2 -> <<Unknown>>
        [] last >= 2 /\ pos[last] \in Remote -> <<Modify(Net, x)>>
        [] last >= 2 /\ pos[last] \notin Remote /\ \E i \in 1..(last - 1) : pos[i] \in Remote
             -> <<Read(Net), Modify(Fs, x)>>
        [] OTHER -> <<Modify(Fs, x)>>

NetEffects(exe, args) ==
  CASE exe = "ping" -> <<Read(Net)>>
    [] exe = "ssh"  -> <<Execute(Net)>>
    [] exe = "curl" -> CurlEffects(args)
    [] exe = "wget" -> WgetEffects(args)
    [] exe = "sftp" -> <<Modify(Net, "unset")>>
    [] exe \in {"scp", "rsync"} -> CopyEffects(exe, args)

-----------------------------------------------------------------------------
(* The cloud                                                               *)

Ci == "cloud_infrastructure"

\* An aws verb by its leading word; a verb of one word matches no prefix.
AwsVerb == [v \in {"describe-x", "run-x", "put-x", "stop-x", "restore-x", "delete-x", "execute-x", "invoke"} |->
              CASE v = "describe-x" -> Read(Ci)           [] v = "run-x"     -> Create(Ci)
                [] v = "put-x"      -> Modify(Ci, "unset") [] v = "stop-x"    -> Modify(Ci, "no")
                [] v = "restore-x"  -> Modify(Ci, "yes")  [] v = "delete-x"  -> Delete(Ci)
                [] v \in {"execute-x", "invoke"} -> Execute(Ci)]
AwsFlagOnly == {"--debug", "--version"}

AwsEffects(args) ==
  LET j == FirstBare(args, (Options \cup {"..."}) \ (AwsFlagOnly \cup InlineOptions))
      pos == SelectSeq(After(args, j + 2), LAMBDA w : ~Dashed(w))
      verb == Name(args[j + 1])
  IN  CASE j + 1 > Len(args) -> <<Unknown>>
        [] j + 1 <= Len(args) /\ Name(args[j]) = "s3" /\ verb \in {"cp", "sync"} ->
             IF pos # <<>> /\ Name(pos[Len(pos)]) = "s3://b" THEN <<Modify(Ci, "unset")>> ELSE <<Unknown>>
        [] j + 1 <= Len(args) /\ ~(Name(args[j]) = "s3" /\ verb \in {"cp", "sync"}) ->
             IF verb \in DOMAIN AwsVerb THEN <<AwsVerb[verb]>> ELSE <<Unknown>>

GcloudVerb == [v \in {"list", "create", "update", "delete", "ssh", "run"} |->
                 CASE v = "list" -> Read(Ci) [] v = "create" -> Create(Ci) [] v = "update" -> Modify(Ci, "no")
                   [] v = "delete" -> Delete(Ci) [] v \in {"ssh", "run"} -> Execute(Ci)]

\* The last of the first run of verbs among the words before an option.
GcloudEffects(args) ==
  LET s == FoldLeft(LAMBDA a, w :
                      CASE a.done -> a
                        [] ~a.done /\ Dashed(w) -> [a EXCEPT !.done = TRUE]
                        [] ~a.done /\ ~Dashed(w) /\ Name(w) \in DOMAIN GcloudVerb
                             -> [a EXCEPT !.verb = <<GcloudVerb[Name(w)]>>]
                        [] OTHER -> [a EXCEPT !.done = a.verb # <<>>],
                    [verb |-> <<>>, done |-> FALSE], args)
  IN  IF s.verb = <<>> THEN <<Unknown>> ELSE s.verb

KubectlValueOpts == {"-n", "--namespace", "--context", "-s"}

\* (Mutant of ApplyAnswer: only one option alone counts.)
ApplyAnswerAlone(flags) == IF flags \in {{"--prune"}, {"--force"}} THEN "yes" ELSE "unset"

ApplyAnswer(flags) == IF flags \cap {"--prune", "--force"} # {} THEN "yes" ELSE "unset"

KubectlEffects(args) ==
  LET j == FirstBare(args, KubectlValueOpts)
      verb == Name(args[j])
      rest == After(args, j + 1)
      second == IF rest # <<>> /\ ~Dashed(rest[1]) THEN Name(rest[1]) ELSE ""
      flags == Flags(rest)
  IN  IF j > Len(args) THEN <<Unknown>>
      ELSE CASE verb = "config" -> IF second = "view" THEN <<Read(Ci)>> ELSE <<Unknown>>
             [] verb = "auth"   -> IF second = "can-i" THEN <<Read(Ci)>> ELSE <<Unknown>>
             [] verb \in {"get", "logs"}   -> <<Read(Ci)>>
             [] verb \in {"create", "run"} -> <<Create(Ci)>>
             [] verb = "apply"   -> <<Modify(Ci, ApplyAnswer(flags))>>
             [] verb = "replace" -> <<Modify(Ci, IF "--force" \in flags THEN "yes" ELSE "unset")>>
             [] verb \in {"scale", "rollout"} -> <<Modify(Ci, "no")>>
             [] verb = "drain"   -> <<Modify(Ci, "yes")>>
             [] verb = "delete"  -> <<Delete(Ci)>>
             [] verb = "exec"    -> <<Execute(Ci)>>
             [] OTHER -> <<Unknown>>

\* Subcommands of two words, for terraform and pulumi.
TerraformPair(verb, second) ==
  CASE second \in {"list", "show"}            -> Read(Ci)
    [] verb = "state" /\ second = "mv"         -> Modify(Ci, "yes")
    [] verb = "state" /\ second = "rm"         -> Delete(Ci)
    [] verb = "workspace" /\ second = "select" -> Modify(Ci, "no")
    [] verb = "workspace" /\ second = "new"    -> Create(Ci)
    [] OTHER -> Unknown

TerraformEffects(args) ==
  LET pos == Positionals(args)
      verb == At(pos, 1)
  IN  CASE verb \in {"state", "workspace"} -> <<TerraformPair(verb, At(pos, 2))>>
        [] verb = "plan"  -> <<Read(Ci)>>
        [] verb = "init"  -> <<Read(Net), Modify(Ci, "no")>>
        [] verb = "fmt"   -> <<Modify(Fs, "no")>>
        [] verb = "apply" -> IF Flags(args) \cap {"-destroy", "--destroy"} # {} THEN <<Delete(Ci)>>
                             ELSE <<Modify(Ci, "unset")>>
        [] verb = "import"  -> <<Modify(Ci, "no")>>
        [] verb = "taint"   -> <<Modify(Ci, "yes")>>
        [] verb = "destroy" -> <<Delete(Ci)>>
        [] OTHER -> <<Unknown>>

HelmEffects(args) ==
  LET pos == Positionals(args)
      verb == At(pos, 1)
  IN  CASE verb = "repo" -> IF At(pos, 2) \in {"add", "update"} THEN Fetching ELSE <<Unknown>>
        [] verb = "list"      -> <<Read(Ci)>>
        [] verb = "install"   -> <<Create(Ci)>>
        [] verb = "upgrade"   -> <<Modify(Ci, "unset")>>
        [] verb = "rollback"  -> <<Modify(Ci, "yes")>>
        [] verb = "uninstall" -> <<Delete(Ci)>>
        [] OTHER -> <<Unknown>>

PulumiPair(verb, second) ==
  CASE verb = "stack" /\ second = "ls"   -> Read(Ci)
    [] verb = "stack" /\ second = "init" -> Create(Ci)
    [] verb = "stack" /\ second = "rm"   -> Delete(Ci)
    [] verb = "config" /\ second = "get" -> Read(Ci)
    [] verb = "config" /\ second = "set" -> Modify(Ci, "no")
    [] OTHER -> Unknown

PulumiEffects(args) ==
  LET pos == Positionals(args)
      verb == At(pos, 1)
  IN  CASE verb \in {"stack", "config"} -> <<PulumiPair(verb, At(pos, 2))>>
        [] verb = "preview" -> <<Read(Ci)>>
        [] verb = "up"      -> <<Modify(Ci, "unset")>>
        [] verb = "refresh" -> <<Modify(Ci, "no")>>
        [] verb = "destroy" -> <<Delete(Ci)>>
        [] OTHER -> <<Unknown>>

CloudEffects(exe, args) ==
  CASE exe = "aws"       -> AwsEffects(args)
    [] exe = "gcloud"    -> GcloudEffects(args)
    [] exe = "kubectl"   -> KubectlEffects(args)
    [] exe = "terraform" -> TerraformEffects(args)
    [] exe = "helm"      -> HelmEffects(args)
    [] exe = "pulumi"    -> PulumiEffects(args)

-----------------------------------------------------------------------------
(* Processes, and the families                                             *)

ProcessEffects(exe, args, heredoc) ==
  LET inline == CASE exe = "python" -> {"-c"} [] exe = "node" -> {"-e"} [] OTHER -> {"-c", "-e"}
      vals == Names(args)
  IN  IF exe \in {"python", "node", "ruby"}
         /\ (heredoc \/ \E i \in DOMAIN vals : vals[i] \in inline \cup {"-"})
      THEN <<Unknown>> ELSE <<Execute("process")>>

Neutral  == {"cd", "echo", "true", ":"}
Wrappers == {"sudo", "env", "time", "exec"}

Managers == {"npm", "uv", "poetry", "pip"}

Family(exe) ==
  CASE exe \in Neutral -> "neutral"
    [] exe \in FsRead \cup FsCreate \cup FsModifyTrue \cup FsDelete \cup FsOther -> "fs"
    [] exe = "git" -> "vcs"
    [] exe = "gh"  -> "gh"
    [] exe \in Managers -> "pkg"
    [] exe \in {"ping", "ssh", "curl", "wget", "sftp", "scp", "rsync"} -> "net"
    [] exe \in {"aws", "gcloud", "kubectl", "terraform", "helm", "pulumi"} -> "cloud"
    [] exe \in {"python", "node", "ruby", "java", "make"} -> "process"
    [] OTHER -> "unknown"

TableEffects(exe, args, heredoc) ==
  CASE Family(exe) = "fs"      -> FsEffects(exe, args)
    [] Family(exe) = "vcs"     -> VcsEffects(args)
    [] Family(exe) = "gh"      -> GhEffects(args)
    [] Family(exe) = "pkg"     -> PkgEffects(exe, args)
    [] Family(exe) = "net"     -> NetEffects(exe, args)
    [] Family(exe) = "cloud"   -> CloudEffects(exe, args)
    [] Family(exe) = "process" -> ProcessEffects(exe, args, heredoc)
    [] OTHER                   -> <<Unknown>>
=============================================================================
