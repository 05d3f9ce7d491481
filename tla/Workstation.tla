------------------------------ MODULE Workstation ------------------------------
(***************************************************************************)
(* One machine: the `sentience` command line that keeps the hook           *)
(* configuration of a project (cli/hook_config.py, cli/ux.py), the Claude  *)
(* Code windows whose sessions are captured when that configuration says   *)
(* so, the MCP server each window spawns, and a user who edits the same    *)
(* files.  Every read and every write of a file is a step of its own.      *)
(***************************************************************************)
EXTENDS HookConfig, SessionLookup

CONSTANTS
  Directories, \* where a project is worked on; "root" is its repository's root
  Starts,      \* repositories and files a behaviour may begin with, the commands
               \* it may contain, and the bound of each kind of step
  EditFiles,   \* what the user may save as a settings file
  Procs,       \* sentience processes
  Install,     \* [Procs -> sibling, onPath: hook commands; bundle: its skills' contents]
  Skills,      \* bundled skills, in the order they are installed
  Windows, WindowDirectory,
  References   \* sessions a user may ask the viewer for

VARIABLES
  repo,      \* fixed
  modes,     \* fixed: [kind: "init" or "seam", flags: its options]
  settings,  \* [shared: [Directories -> file], local: [Directories -> file]]
  disk,      \* [Absolute -> "executable", "file" or "gone"]
  skills,    \* [file, manifest, mine]: contents, recorded contents, whether the user's
  registry,  \* .mcp.json
  cli,       \* [Procs -> what a process has read and decided]
  traces,
  windows,   \* [in, env, worked, server]
  used,      \* sessions ever opened
  requests,  \* of each window, the request its server works on
  shown,     \* what the viewer said last
  evidenced, \* history: places where Sentience was ever configured or asked for
  clock, left

fixed == <<repo, modes>>
files == <<settings, disk, skills, registry>>
sessions == <<traces, windows, used, requests, shown>>
vars == <<fixed, files, cli, sessions, evidenced, clock, left>>

\* What a settings file may hold.  A plain entry has one hook, and a file that cannot
\* be read shows none.
EntryValues == {e \in [plain : BOOLEAN, commands : Seq(Commands)] : e.plain => Len(e.commands) = 1}
Documents == [hooks : [Events -> Seq(EntryValues)], rest : STRING]
SettingsFiles ==
  {f \in [state : {"ok", "absent", "unreadable", "malformed"}, doc : Documents] :
     f.state # "ok" => \A event \in Events : f.doc.hooks[event] = <<>>}

\* .mcp.json: "bad" when it cannot be parsed, "none" of ours when we have no entry.
Registries ==
  [state : {"ok", "absent", "bad"}, others : SUBSET {"theirs"}, ours : Commands \union {"none"}]

Flags == {"force", "mcp", "no_skills"}

Kinds == {"runs", "edits", "saves", "installs", "faults", "opens", "calls", "deletes", "ticks",
          "asks", "looks"}

ASSUME StartAssumption ==
  \A start \in Starts :
    /\ \A d \in Directories : {start.shared[d], start.local[d]} \subseteq SettingsFiles
    /\ start.disk \in [Absolute -> {"executable", "file", "gone"}]
    /\ start.registry \in Registries
    /\ start.left \in [Kinds -> Nat]
    /\ \A mode \in start.modes : mode.kind \in {"init", "seam"} /\ mode.flags \subseteq Flags

\* An install's hook is one by its name, found at an absolute path; what it bundles
\* is not what the user writes; and no session or command is called "none".
ASSUME MachineAssumption ==
  /\ "root" \in Directories /\ Events # {} /\ EditFiles \subseteq SettingsFiles
  /\ \A p \in Procs : /\ {Install[p].sibling, Install[p].onPath} \subseteq Named \intersect Absolute
                       /\ Install[p].bundle \notin {"none", "mine"}
  /\ "none" \notin Sessions /\ "none" \notin Commands

NoTrace == [there |-> FALSE, start |-> 0, mtime |-> 0, turns |-> FALSE, transient |-> FALSE]
Closed == [in |-> "none", env |-> "none", worked |-> FALSE, server |-> FALSE]
NoRequest == [pc |-> "none", kind |-> "none", own |-> "none", certain |-> FALSE, now |-> 0,
              listed |-> {}, seen |-> [s \in {} |-> 0], target |-> Unresolved("none"),
              answer |-> Unresolved("none")]
NoProcess == [pc |-> "idle", kind |-> "none", dir |-> "none", flags |-> {}, shared |-> "none",
              local |-> "none", decided |-> "none", doc |-> "none", manifest |-> "none",
              next |-> 0, saw |-> "none", registry |-> "none", command |-> "none",
              outcome |-> "none"]

Place(directory) == LocalSettingsPlace(repo, directory)
Local(directory) == settings.local[Place(directory)]

Names == {Skills[i] : i \in DOMAIN Skills}

PlacesWithEvidence(shared, local) ==
  {Place(d) : d \in {e \in Directories : HasEvidence(shared[e].doc)}}
    \union {d \in Directories : HasEvidence(local[d].doc)}

Init ==
  /\ \E start \in Starts :
       /\ repo = start.repo
       /\ modes = start.modes
       /\ settings = [shared |-> [d \in Directories |-> start.shared[d]],
                      local |-> [d \in Directories |-> start.local[d]]]
       /\ disk = start.disk
       /\ registry = start.registry
       /\ left = start.left
  /\ skills = [file |-> [k \in Names |-> "none"], manifest |-> [k \in Names |-> "none"],
               mine |-> {}]
  /\ cli = [p \in Procs |-> NoProcess]
  /\ traces = [s \in Sessions |-> NoTrace]
  /\ windows = [w \in Windows |-> Closed]
  /\ used = {}
  /\ requests = [w \in Windows |-> NoRequest]
  /\ shown = "nothing"
  /\ evidenced = PlacesWithEvidence(settings.shared, settings.local)
  /\ clock = 0

Spend(kind) == left[kind] > 0 /\ left' = [left EXCEPT ![kind] = @ - 1]

-----------------------------------------------------------------------------
(* A sentience process.  "init" is `sentience init claude-code`; "seam" is *)
(* any other command but scan, which converges its directory first.        *)

At(p, pc) == cli[p].pc = pc
Goto(p, pc) == cli' = [cli EXCEPT ![p].pc = pc]
Finish(p, outcome) ==
  cli' = [cli EXCEPT ![p] = [NoProcess EXCEPT !.pc = "done", !.outcome = outcome]]
IsSeam(p) == cli[p].kind = "seam"

\* The hook of the install p runs from.
Binary(p) == ResolveBinary(disk, Install[p].sibling, Install[p].onPath)

StartRun(p, kind, d, flags) ==
  /\ cli[p].pc \in {"idle", "done"}
  /\ Spend("runs")
  /\ cli' = [cli EXCEPT ![p] = [NoProcess EXCEPT !.pc = "read_local", !.kind = kind, !.dir = d,
                                                 !.flags = flags, !.shared = settings.shared[d]]]
  /\ evidenced' = evidenced \union IF kind = "init" THEN {Place(d)} ELSE {}
  /\ UNCHANGED <<fixed, files, sessions, clock>>

ReadLocal(p) ==
  /\ At(p, "read_local")
  /\ cli' = [cli EXCEPT ![p].pc = "decide", ![p].local = Local(cli[p].dir)]
  /\ UNCHANGED <<fixed, files, sessions, evidenced, clock, left>>

\* What run_init_claude_code and run_seam_convergence do with an outcome.
Succeeded(outcome) == outcome \in {"noop", "created", "updated"}
Report(p, outcome) ==
  IF IsSeam(p) \/ ~Succeeded(outcome) THEN Finish(p, outcome)
  ELSE cli' = [cli EXCEPT ![p].pc = IF "no_skills" \in cli[p].flags THEN "mcp" ELSE "skills",
                          ![p].outcome = outcome]

Decide(p) ==
  /\ At(p, "decide")
  /\ LET me == cli[p]
         decision == ConvergeDecision(disk, me.local, me.shared, Binary(p), IsSeam(p))
     IN IF decision.outcome = "plan"
        THEN cli' = [cli EXCEPT ![p].pc = "compare", ![p].doc = decision.doc, ![p].decided = disk]
        ELSE Report(p, decision.outcome)
  /\ UNCHANGED <<fixed, files, sessions, evidenced, clock, left>>

\* apply_plan: the temporary file is written, then the target read again.
Compare(p) ==
  /\ At(p, "compare")
  /\ IF cli[p].local = Local(cli[p].dir) THEN Goto(p, "replace") ELSE Report(p, "write_conflict")
  /\ UNCHANGED <<fixed, files, sessions, evidenced, clock, left>>

CannotWrite(p) ==
  /\ cli[p].pc \in {"compare", "replace"}
  /\ Spend("faults")
  /\ Report(p, "unwritable")
  /\ UNCHANGED <<fixed, files, sessions, evidenced, clock>>

Replace(p) ==
  /\ At(p, "replace")
  /\ settings' = [settings EXCEPT !.local[Place(cli[p].dir)] = [state |-> "ok", doc |-> cli[p].doc]]
  /\ Report(p, IF cli[p].local.state = "absent" THEN "created" ELSE "updated")
  /\ UNCHANGED <<fixed, disk, skills, registry, sessions, evidenced, clock, left>>

\* _install_skills: the manifest is read once, the skills are gone through in
\* order, and the manifest is written last.
OpenSkills(p) ==
  /\ At(p, "skills")
  /\ cli' = [cli EXCEPT ![p].pc = "skill", ![p].manifest = skills.manifest, ![p].next = 1]
  /\ UNCHANGED <<fixed, files, sessions, evidenced, clock, left>>

Bundled(p) == Install[p].bundle

Overwrites(p, name, current) ==
  current # Bundled(p) /\ (current \in {"none", cli[p].manifest[name]} \/ "force" \in cli[p].flags)

NextSkill(p, manifest) ==
  cli' = [cli EXCEPT ![p].pc = "skill", ![p].manifest = manifest, ![p].next = @ + 1]

ReadSkill(p) ==
  /\ At(p, "skill") /\ cli[p].next \in DOMAIN Skills
  /\ LET name == Skills[cli[p].next]
         current == skills.file[name]
         record == [cli[p].manifest EXCEPT ![name] = IF current = Bundled(p) THEN current ELSE @]
     IN IF Overwrites(p, name, current)
        THEN cli' = [cli EXCEPT ![p].pc = "write_skill", ![p].saw = current]
        ELSE NextSkill(p, record)
  /\ UNCHANGED <<fixed, files, sessions, evidenced, clock, left>>

WriteSkill(p) ==
  /\ At(p, "write_skill")
  /\ LET name == Skills[cli[p].next]
     IN /\ skills' = [skills EXCEPT !.file[name] = Bundled(p), !.mine = @ \ {name}]
        /\ NextSkill(p, [cli[p].manifest EXCEPT ![name] = Bundled(p)])
  /\ UNCHANGED <<fixed, settings, disk, registry, sessions, evidenced, clock, left>>

WriteManifest(p) ==
  /\ At(p, "skill") /\ cli[p].next \notin DOMAIN Skills
  /\ skills' = [skills EXCEPT !.manifest = cli[p].manifest]
  /\ Goto(p, "mcp")
  /\ UNCHANGED <<fixed, settings, disk, registry, sessions, evidenced, clock, left>>

\* The skills are skipped with a warning when they cannot be written.
SkillsFail(p) ==
  /\ cli[p].pc \in {"write_skill", "skill"}
  /\ Spend("faults")
  /\ Goto(p, "mcp")
  /\ UNCHANGED <<fixed, files, sessions, evidenced, clock>>

\* _register_mcp_server: nothing is compared before the write.  The console
\* scripts of an install come and go together, so its hook stands for its server.
ReadRegistry(p) ==
  /\ At(p, "mcp")
  /\ LET command == Binary(p)
     IN IF /\ "mcp" \in cli[p].flags /\ registry.state # "bad"
           /\ command \notin {"none", registry.ours}
        THEN cli' = [cli EXCEPT ![p].pc = "register", ![p].registry = registry,
                                ![p].command = command]
        ELSE Finish(p, cli[p].outcome)
  /\ UNCHANGED <<fixed, files, sessions, evidenced, clock, left>>

WriteRegistry(p) ==
  /\ At(p, "register")
  /\ registry' = [cli[p].registry EXCEPT !.state = "ok", !.ours = cli[p].command]
  /\ Finish(p, cli[p].outcome)
  /\ UNCHANGED <<fixed, settings, disk, skills, sessions, evidenced, clock, left>>

Crash(p) ==
  /\ cli[p].pc \notin {"idle", "done"}
  /\ Spend("faults")
  /\ Finish(p, "crashed")
  /\ UNCHANGED <<fixed, files, sessions, evidenced, clock>>

Process(p) ==
  \/ ReadLocal(p) \/ Decide(p) \/ Compare(p) \/ CannotWrite(p) \/ Replace(p)
  \/ OpenSkills(p) \/ ReadSkill(p) \/ WriteSkill(p) \/ WriteManifest(p) \/ SkillsFail(p)
  \/ ReadRegistry(p) \/ WriteRegistry(p) \/ Crash(p)

-----------------------------------------------------------------------------
(* The user, and the installs on the machine.                              *)

SaveSettings(which, d, file) ==
  /\ Spend("edits")
  /\ settings[which][d] # file
  /\ settings' = [settings EXCEPT ![which][d] = file]
  /\ evidenced' = evidenced \union PlacesWithEvidence(settings'.shared, settings'.local)
  /\ UNCHANGED <<fixed, disk, skills, registry, cli, sessions, clock>>

SaveSkill(name) ==
  /\ Spend("saves")
  /\ skills.file[name] # "none"
  /\ skills' = [skills EXCEPT !.file[name] = "mine", !.mine = @ \union {name}]
  /\ UNCHANGED <<fixed, settings, disk, registry, cli, sessions, evidenced, clock>>

SaveRegistry(others) ==
  /\ Spend("saves")
  /\ registry.others # others
  /\ registry' = [registry EXCEPT !.state = "ok", !.others = others]
  /\ UNCHANGED <<fixed, settings, disk, skills, cli, sessions, evidenced, clock>>

ChangeDisk(command, state) ==
  /\ Spend("installs")
  /\ disk[command] # state
  /\ disk' = [disk EXCEPT ![command] = state]
  /\ UNCHANGED <<fixed, settings, skills, registry, cli, sessions, evidenced, clock>>

User ==
  \/ \E which \in {"shared", "local"}, d \in Directories, file \in EditFiles :
       SaveSettings(which, d, file)
  \/ \E name \in Names : SaveSkill(name)
  \/ \E others \in {{}, {"theirs"}} : SaveRegistry(others)
  \/ \E c \in Absolute, state \in {"executable", "file", "gone"} : ChangeDisk(c, state)

-----------------------------------------------------------------------------
(* Claude Code: windows, sessions and the hooks that leave traces.         *)

\* The Sentience commands Claude Code runs on an event in d.
LiveHooks(d, event) ==
  LET Entries(file) == IF file.state # "ok" THEN {} ELSE Range(file.doc.hooks[event])
      entries == Entries(settings.shared[d]) \union Entries(Local(d))
  IN {c \in Mentions : ManagedEntryLive(disk, c) /\ \E e \in entries : c \in InnerCommands(e)}

Captured(w, event) == LiveHooks(WindowDirectory[w], event) # {}

\* A request that is being served no longer speaks of its moment once the user, or
\* the hooks of another session than its window is in, have changed a trace it is
\* decided by.
Overtaken(pending, s, others) ==
  [w \in Windows |->
     IF /\ pending[w].pc \in {"scan", "emit"} /\ w \in others
        /\ s \in {windows[w].env, pending[w].own}
     THEN [pending[w] EXCEPT !.certain = FALSE] ELSE pending[w]]
NotIn(s) == {w \in Windows : windows[w].in # s}

Touch(s, trace) ==
  traces' = [traces EXCEPT ![s] = [trace EXCEPT !.there = TRUE, !.mtime = clock,
                                                !.start = IF traces[s].there THEN @ ELSE clock]]

Open(w, s, env) ==
  /\ Spend("opens")
  /\ windows[w].in = "none" /\ \A v \in Windows : windows[v].in # s
  /\ windows' = [windows EXCEPT ![w] = [in |-> s, env |-> env, worked |-> FALSE,
                                        server |-> registry.state = "ok" /\ registry.ours # "none"]]
  /\ used' = used \union {s}
  /\ UNCHANGED <<fixed, files, cli, traces, requests, shown, evidenced, clock>>

\* A tool call; a hook that is killed after its first two events leaves a bootstrap.
Work(w) ==
  LET s == windows[w].in IN
  /\ s # "none"
  /\ Spend("calls")
  /\ windows' = [windows EXCEPT ![w].worked = TRUE]
  /\ IF ~Captured(w, "PreToolUse") THEN UNCHANGED <<traces, requests>>
     ELSE /\ \/ Touch(s, [traces[s] EXCEPT !.transient = FALSE])
             \/ ~traces[s].there /\ Touch(s, [NoTrace EXCEPT !.transient = TRUE])
          /\ requests' = Overtaken(requests, s, NotIn(s))
  /\ UNCHANGED <<fixed, files, cli, used, shown, evidenced, clock>>

\* SessionEnd writes the turns of the transcript; a session that did nothing leaves nothing.
EndSession(w) ==
  LET s == windows[w].in IN
  IF windows[w].worked /\ Captured(w, "SessionEnd")
  THEN /\ Touch(s, [traces[s] EXCEPT !.turns = TRUE, !.transient = FALSE])
       /\ requests' = Overtaken(requests, s, NotIn(s))
  ELSE UNCHANGED <<traces, requests>>

\* /clear ends the session and starts another one; the server lives on.
Clear(w, s) ==
  /\ windows[w].in # "none" /\ s \notin used
  /\ Spend("opens")
  /\ EndSession(w)
  /\ windows' = [windows EXCEPT ![w].in = s, ![w].worked = FALSE]
  /\ used' = used \union {s}
  /\ UNCHANGED <<fixed, files, cli, shown, evidenced, clock>>

Close(w) ==
  /\ windows[w].in # "none" /\ requests[w].pc \in {"none", "done"}
  /\ EndSession(w)
  /\ windows' = [windows EXCEPT ![w] = Closed]
  /\ UNCHANGED <<fixed, files, cli, used, shown, evidenced, clock, left>>

DeleteTrace(s) ==
  /\ Spend("deletes")
  /\ traces[s].there
  /\ traces' = [traces EXCEPT ![s] = NoTrace]
  /\ requests' = Overtaken(requests, s, Windows)
  /\ UNCHANGED <<fixed, files, cli, windows, used, shown, evidenced, clock>>

Tick ==
  /\ Spend("ticks")
  /\ clock' = clock + 1
  /\ UNCHANGED <<fixed, files, cli, sessions, evidenced>>

-----------------------------------------------------------------------------
(* The MCP server of a window.                                             *)

Window(kind) == IF kind = "declare" THEN WriteWindow ELSE ReadWindow

\* The asking session has a fresh trace, later than that of the server's session.
Certain(w) ==
  LET own == traces[windows[w].in]
      other == traces[windows[w].env]
  IN /\ own.there /\ IsFresh(own.mtime, clock, WriteWindow)
     /\ windows[w].env \in {"none", windows[w].in} \/ own.mtime > other.mtime

Answered(w, answer) ==
  [requests EXCEPT ![w] = [@ EXCEPT !.pc = "done", !.now = 0, !.seen = NoRequest.seen,
                                    !.target = NoRequest.target, !.answer = answer]]

\* session_status or declare_intent: the traces are listed and the time is taken.
Ask(w, kind, valid) ==
  /\ windows[w].server /\ requests[w].pc \in {"none", "done"}
  /\ Spend("asks")
  /\ requests' = [requests EXCEPT ![w] =
       LET request == [NoRequest EXCEPT !.kind = kind, !.own = windows[w].in, !.certain = Certain(w)]
       IN IF kind = "declare" /\ ~valid
          THEN [request EXCEPT !.pc = "done", !.answer = Unresolved("invalid_request")]
          ELSE [request EXCEPT !.pc = "scan", !.now = clock, !.listed = Present(traces)]]
  /\ UNCHANGED <<fixed, files, cli, traces, windows, used, shown, evidenced, clock>>

Noted(seen, s, mtime) == [u \in DOMAIN seen \union {s} |-> IF u = s THEN mtime ELSE seen[u]]

Stat(w, s) ==
  /\ requests[w].pc = "scan" /\ s \in requests[w].listed \ DOMAIN requests[w].seen
  /\ requests' = [requests EXCEPT ![w].listed = @ \ {s},
       ![w].seen = IF traces[s].there THEN Noted(@, s, traces[s].mtime) ELSE @]
  /\ UNCHANGED <<fixed, files, cli, traces, windows, used, shown, evidenced, clock, left>>

Resolve(w) ==
  /\ requests[w].pc = "scan" /\ requests[w].listed = {}
  /\ LET request == requests[w]
         resolution == ResolveCurrentSession(request.seen, windows[w].env, request.now,
                                             Window(request.kind))
     IN IF request.kind = "declare" /\ resolution.status = "resolved"
        THEN requests' = [requests EXCEPT ![w].pc = "emit", ![w].target = resolution]
        ELSE requests' = Answered(w, resolution)
  /\ UNCHANGED <<fixed, files, cli, traces, windows, used, shown, evidenced, clock, left>>

\* emit_intent_declaration appends only to a trace that exists.
Emit(w) ==
  /\ requests[w].pc = "emit"
  /\ LET target == requests[w].target
         s == target.session
     IN IF traces[s].there
        THEN /\ Touch(s, [traces[s] EXCEPT !.transient = FALSE])
             /\ requests' = Overtaken(Answered(w, [target EXCEPT !.status = "declared"]), s, NotIn(s))
        ELSE requests' = Answered(w, Unresolved("not_written")) /\ UNCHANGED traces
  /\ UNCHANGED <<fixed, files, cli, windows, used, shown, evidenced, clock, left>>

\* pulse, intent and violations read the last completed session.
MeasuredRead(w, listing) ==
  /\ windows[w].server /\ requests[w].pc \in {"none", "done"}
  /\ Spend("asks")
  /\ LET found == LatestTokenBearing(traces, listing, windows[w].env)
     IN requests' = [requests EXCEPT ![w] =
          [NoRequest EXCEPT !.pc = "done", !.kind = "measured", !.own = windows[w].in,
             !.certain = windows[w].env # "none",
             !.answer = IF found = "none" THEN Unresolved("no_completed_session")
                        ELSE [Resolved(found, "token_bearing") EXCEPT !.status = "measured"]]]
  /\ UNCHANGED <<fixed, files, cli, traces, windows, used, shown, evidenced, clock>>

-----------------------------------------------------------------------------
\* `sentience status`, `sentience list` and `sentience open`.
Show(listing) ==
  /\ Spend("looks")
  /\ \/ shown' = IF listing = <<>> THEN "no_sessions" ELSE StatusOf(traces, listing)
     \/ shown' = IF listing = <<>> THEN "no_sessions" ELSE ListOf(traces, listing)
     \/ \E ref \in References : shown' = ResolveSessionTarget(traces, listing, ref)
  /\ UNCHANGED <<fixed, files, cli, traces, windows, used, requests, evidenced, clock>>

-----------------------------------------------------------------------------
Commanded ==
  \E p \in Procs, d \in Directories, mode \in modes : StartRun(p, mode.kind, d, mode.flags)

Claude ==
  \/ \E w \in Windows, s \in Sessions : Open(w, s, s) \/ Open(w, s, "none") \/ Clear(w, s)
  \/ \E w \in Windows : Work(w) \/ Close(w)
  \/ \E s \in Sessions : DeleteTrace(s)

Server ==
  \/ \E w \in Windows, kind \in {"status", "declare"}, valid \in BOOLEAN : Ask(w, kind, valid)
  \/ \E w \in Windows, s \in Sessions : Stat(w, s)
  \/ \E w \in Windows : Resolve(w) \/ Emit(w)
  \/ \E w \in Windows, listing \in SessionListings(traces) : MeasuredRead(w, listing)

Next ==
  \/ Commanded \/ (\E p \in Procs : Process(p)) \/ User \/ Claude \/ Server \/ Tick
  \/ \E listing \in SessionListings(traces) : Show(listing)

Spec == Init /\ [][Next]_vars

-----------------------------------------------------------------------------
(* Properties.                                                             *)

TypeOK ==
  /\ \A which \in {"shared", "local"}, d \in Directories : settings[which][d] \in SettingsFiles
  /\ disk \in [Absolute -> {"executable", "file", "gone"}]
  /\ skills.mine \subseteq Names
  /\ \A p \in Procs :
       /\ cli[p].pc \in {"idle", "read_local", "decide", "compare", "replace", "skills", "skill",
                         "write_skill", "mcp", "register", "done"}
       /\ cli[p].pc \in {"compare", "replace"} => cli[p].doc \in Documents
  /\ traces \in [Sessions -> [there : BOOLEAN, start : 0..clock, mtime : 0..clock, turns : BOOLEAN,
                              transient : BOOLEAN]]
  /\ \A s \in Sessions : traces[s].start <= traces[s].mtime
  /\ \A w \in Windows : windows[w].in = "none" => windows[w] = Closed

ForeignEntries(doc) ==
  [event \in Events |-> Taken(doc.hooks[event], Classified(doc, event, "foreign"))]

\* No sentience process changes the shared settings, or what a user
\* has in the local ones beside Sentience's own entries, or another server in
\* .mcp.json - whatever else is saved, installed or run meanwhile.  The one
\* exception is a file saved after a process compared it (hook_config.py:482), or
\* read it where nothing is compared (ux.py:2747).
KeepsForeign ==
  (left'.edits = left.edits /\ left'.saves = left.saves) =>
    /\ settings'.shared = settings.shared
    /\ \A d \in Directories :
         LET before == settings.local[d].doc
             after == settings'.local[d].doc
         IN \/ ForeignEntries(after) = ForeignEntries(before) /\ after.rest = before.rest
            \/ \E p \in Procs : At(p, "replace") /\ cli[p].local # settings.local[d]
    /\ \/ registry'.others = registry.others
       \/ \E p \in Procs : At(p, "register") /\ cli[p].registry # registry

\* A skill the user has changed is written over only by --force,
\* or when it was saved after the run had read it (ux.py:2561).
KeepsHandEdits ==
  \A name \in skills.mine :
    \/ skills'.file[name] = skills.file[name]
    \/ \E p \in Procs : /\ At(p, "write_skill")
                        /\ "force" \in cli[p].flags \/ cli[p].saw # skills.file[name]

\* UsersWorkSurvives: no step of any process loses what the user saved, in the
\* settings, in .mcp.json or in a skill, outside the windows named above.
UsersWorkSurvives == [][KeepsForeign /\ KeepsHandEdits]_vars

\* OneHook: when the configuration part of a run succeeds and the files and the
\* executables are still what it decided on, Claude Code runs at most one
\* Sentience command per event in that directory - and exactly its own one, on
\* every event, after init ("could run two hooks per tool call", ux.py:2838).
Undisturbed(p) ==
  /\ cli[p].local = Local(cli[p].dir) /\ cli[p].shared = settings.shared[cli[p].dir]
  /\ At(p, "replace") => cli[p].decided = disk

OneHook == [][
  \A p \in Procs, d \in Directories :
    (/\ cli[p].pc \in {"decide", "replace"} /\ cli'[p].pc \notin {"decide", "compare", "replace"}
     /\ cli[p].dir = d /\ Undisturbed(p) /\ Succeeded(cli'[p].outcome))
    => \A event \in Events :
         /\ Cardinality(LiveHooks(d, event)') <= 1
         /\ cli[p].kind = "init" => LiveHooks(d, event)' = {Binary(p)} ]_vars

\* SettlesInOne: converging what converging leaves is nothing to do, for either
\* caller, from every state the files get into.
SettlesInOne ==
  \A d \in Directories, p \in Procs, isSeam \in BOOLEAN :
    LET Run(file) == ConvergeDecision(disk, file, settings.shared[d], Binary(p), isSeam)
        first == Run(Local(d))
    IN first.outcome = "plan" => Run([state |-> "ok", doc |-> first.doc]).outcome = "noop"

\* NothingFromNothing: no entry of Sentience's stands in a local file whose
\* directories never showed one and were never given to init.
NothingFromNothing ==
  \A d \in Directories : HasEvidence(settings.local[d].doc) => d \in evidenced

\* ConfigurationSettles: the files stay well formed, a second convergence finds
\* nothing to do, and none starts on its own.
ConfigurationSettles == TypeOK /\ SettlesInOne /\ NothingFromNothing

\* OwnOrNothing: a declaration asked for while the asking session has a fresh trace
\* that is later than the one of the session its server was spawned in is written
\* to the asking session or refused, however the scan is interleaved with hooks,
\* other declarations, /clear and time - unless the other session's trace moved on
\* or one of the two was deleted meanwhile.
OwnOrNothing ==
  \A w \in Windows :
    LET request == requests[w] IN
    (/\ request.pc = "done" /\ request.kind = "declare" /\ request.certain
     /\ request.answer.status = "declared") => request.answer.session = request.own

\* NeverReadsOwnLive: the measured reads, which tell of a completed session, never
\* name the session that asks, even one that was resumed and so has turns.
NeverReadsOwnLive ==
  \A w \in Windows :
    LET request == requests[w] IN
    (request.pc = "done" /\ request.kind = "measured" /\ request.certain)
      => request.answer.session # request.own

\* SessionsAreTheirOwn: what is written goes to the session that asks, what is
\* read comes from another.
SessionsAreTheirOwn == OwnOrNothing /\ NeverReadsOwnLive

\* LatestIsStable: as long as no trace comes or goes, appending to some never
\* reorders the sessions, so that every command means the same one by "latest".
LatestIsStable == [][
  Present(traces)' = Present(traces)
    /\ (\A s, u \in Present(traces) : traces[s].start = traces[u].start => s = u)
    => SessionListings(traces)' = SessionListings(traces) ]_vars
=============================================================================
