----------------------- MODULE MCShellClassification ------------------------
(***************************************************************************)
(* The commands the runs of ShellClassification type: free text over small *)
(* alphabets for the scanners, and one topic per executable, with its      *)
(* subcommands and options, for the tables.                                *)
(***************************************************************************)
EXTENDS ShellClassification

W(x)     == <<" ", x>>
Words(s) == {W(x) : x \in s}
Free(pieces, max) == [start |-> <<>>, pieces |-> pieces, max |-> max]
Of(exe, args, max) == [start |-> <<exe>>, pieces |-> Words(args), max |-> max]

Nesting == Free({W("rm"), W("echo"), <<" ", "$(">>, <<" ", "(">>, <<")">>, <<"bq">>, <<";">>,
                 <<" ", "dq", "$(">>, <<")", "dq">>, <<"<(">>}, 4)
Quoting == Free({W("rm"), <<";">>, <<" ", "sq">>, <<"sq">>, <<" ", "dq">>, <<"dq">>, <<"$(">>,
                 <<"esc ;">>}, 4)
Grouping == Free({W("rm"), W("cd"), <<" ", "{", " ">>, <<";", " ", "}">>, <<"(">>, <<")">>, <<"&&">>,
                  <<"|">>, <<" ", ">", "f">>}, 4)
Leading == Free({W("sudo"), W("exec"), W("A="), <<" ", "A=", "$(", "rm", ")">>, W("-u"), W("rm"),
                 W("/bin/rm"), W("cd"), <<"esc nl">>, <<" ", ">", "f">>}, 4)
Redirecting == Free({W("ls"), W("cd"), <<" ", "2", ">">>, <<" ", ">>">>, <<"&>">>, <<">&">>,
                     <<" ", "<>">>, <<"1">>, W("f"), W("/dev/null"), <<"&">>}, 4)
Targets == Free({W("ls"), <<">">>, <<"<">>, <<">|">>, <<"<&">>, <<"&>>">>, <<"-">>, W("f"), <<"$(", "rm", ")">>,
                 <<" ", "dq", "f", "dq">>, <<";">>, <<" ", "(", "x", ")">>, <<" ", "dq", "-u", "dq">>}, 3)
HereDocs == Free({W("cat"), <<"<<", "E">>, <<" ", "<<-", " ", "sq", "E", "sq">>, <<"E">>, <<"nl">>,
                  <<"rm">>, <<"$(", "rm", ")">>}, 5)
HereStrings == Free({W("python"), <<"<<", " ", "E">>, <<"E">>, <<"nl">>, W("rm"), <<"<<<", " ", "E">>}, 4)

Tabled == {
  Of("tar", {"-xf", "-c", "--extract", "f"}, 2), Of("gzip", {"-dk", "-k", "--keep", "f"}, 2),
  Of("tee", {"-a", "--append", "f"}, 2), Of("sed", {"-i", "--in-place", "f"}, 2),
  Of("touch", {"f"}, 1), Of("cp", {"f"}, 1), Of("mv", {"f"}, 1), Of("mkdir", {"f"}, 1),
  Of("git", {"-C", "status", "remote", "branch", "tag", "stash", "config", "clone", "fetch", "pull",
             "push", "commit", "checkout", "switch", "reset", "worktree", "add", "rebase", "clean",
             "-v", "-d", "-D", "--delete", "drop", "list", "pop", "--get", "--list", "u@h:p",
             "--rebase", "--force", "-f", ":branch", "-b", "--", "-c", "--discard-changes",
             "--hard", "remove", "f"}, 2),
  Of("gh", {"pr", "repo", "release", "view", "list", "create", "merge", "delete", "-f"}, 3),
  Of("pip", {"install", "list", "uninstall", "download", "-r", "-e", "-c", ".", "/p", "f"}, 3),
  Of("uv", {"pip", "install", "list", "lock", "add", "sync", "run", "--upgrade", ".", "f"}, 3),
  Of("npm", {"install", "ci", "run", "ls", "view", "update", "uninstall", "."}, 2),
  Of("poetry", {"install", "--sync", "add", "show", "update", "f"}, 2),
  Of("curl", {"-X", "-sX", "DELETE", "get", "-o", "-so", "/dev/null", "-d", "-sd", "-O", "-sO",
              "-I", "--request", "https://h/x"}, 3),
  Of("wget", {"-O", "-", "/dev/null", "--output-document", "https://h/x"}, 3),
  Of("rsync", {"f", "u@h:p", "https://h/x", "--delete", "--delete-after"}, 3),
  Of("scp", {"f", "u@h:p"}, 3), Of("ssh", {"f"}, 1), Of("ping", {"f"}, 1), Of("sftp", {"f"}, 1),
  Of("aws", {"--debug", "--profile", "s3", "ec2", "cp", "sync", "s3://b", "describe-x", "put-x",
             "stop-x", "run-x", "restore-x", "delete-x", "execute-x", "invoke", "f"}, 3),
  Of("gcloud", {"compute", "ssh", "list", "create", "update", "delete", "run", "--debug"}, 3),
  Of("kubectl", {"-n", "get", "apply", "replace", "delete", "exec", "config", "view", "auth", "can-i",
                 "create", "scale", "drain", "rollout", "--force", "--prune", "f"}, 3),
  Of("terraform", {"state", "workspace", "list", "mv", "rm", "select", "new", "plan", "init", "fmt",
                   "apply", "destroy", "taint", "import", "-destroy", "--destroy"}, 3),
  Of("helm", {"repo", "add", "list", "install", "upgrade", "rollback", "uninstall"}, 2),
  Of("pulumi", {"stack", "ls", "init", "rm", "config", "get", "set", "preview", "up", "refresh",
                "destroy"}, 2),
  Of("python", {"-c", "-", "-e", "f"}, 2), Of("node", {"-c", "-e", "f"}, 2),
  Of("ruby", {"-c", "-e", "f"}, 2), Of("make", {"-e", "f"}, 1), Of("java", {"-c"}, 1)}

\* Longer calls, and options written with their value after an equals sign.
Inlined == {
  [start |-> <<"git", " ", "push">>, max |-> 3,
   pieces |-> Words({"--force", "-f", "--delete", ":branch", "f"})],
  [start |-> <<"pip", " ", "install">>, max |-> 4, pieces |-> Words({"-r", "-e", ".", "f"})],
  [start |-> <<"curl">>, max |-> 2,
   pieces |-> {<<" ", "--output=", "/dev/null">>, <<" ", "--output=", "f">>, <<" ", "-sX", "DELETE">>,
               <<" ", "--request=", "delete">>, <<" ", "--data=", "f">>}],
  [start |-> <<"wget">>, max |-> 2,
   pieces |-> {<<" ", "--output-document=", "-">>, <<" ", "--post-data=", "f">>}],
  [start |-> <<"aws">>, max |-> 3,
   pieces |-> {<<" ", "--region=", "f">>, W("ec2"), W("stop-x")}]}

AllTopics == {Nesting, Quoting, Grouping, Leading, Redirecting, Targets, HereDocs, HereStrings} \cup Tabled \cup Inlined
=============================================================================
