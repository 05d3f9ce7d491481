# Sentience Governor in TLA+

Sentience Governor records what an AI agent does as a chain of governance
events, one JSON object per line: registration, declared intent, tool calls
(scope, context, output), token usage. The events of a session are numbered
1, 2, 3, ... and each names its predecessor, so a trace can be audited. What
makes this hard is not the events but who writes them: short-lived hook
processes that share a file, threads that share a registry, and framework
callbacks that interleave. These modules state what the code promises there,
check it with TLC on small instances, and prove the most important parts with
TLAPS for all instances.

All paths below are relative to the repository; `P/` stands for
`sentience_governor/`.

## Inventory

| Component | State it keeps | Operations | Hard behaviour | Correct when |
|---|---|---|---|---|
| Trace resumption `P/session_manager/resumption.py` | the sink (JSONL), the sidecar `<sink>.index` with each session's end and reported turns, profile snapshots and bindings, the flock | `sink_lock`, `resume_session_state`, `update_session_state`, `record_emitted_turns`, snapshot and binding I/O | processes race and die between any two writes; sidecars are lost, stale or not updated; lines tear; the trace cannot be read | a session's lines stay one chain; what is recorded as reported was written; a session stays under its profile or says that it does not |
| Hook runner `P/wrapper/claude_code_hook.py` | nothing beyond one invocation; everything is on disk | `run_hook` for each hook event, `emit_intent_declaration`, the SessionEnd token batch, profile binding | SessionEnd repeated or racing; transcript still growing; gate decided before the lock; the intent read back from the trace | each turn reported once and eventually; no ghost sessions; an answered declaration exists; tools are judged by their own session's intent |
| Session manager `P/session_manager/manager.py` | registry of entries, live index, a lock and counter per entry, the clock | `session_start`, `session_end`, `acquire_sequence`, `touch`, reaper thread | threads start, end, emit and are reaped concurrently | one chain per entry, exclusive starts are exclusive, idle sessions close, nobody waits for ever |
| Event builder `P/event_builder/builder.py` | per-session builder, task boundary | `build_*`, `_finalise`, policy evaluation | numbering under the session's lock, schema failures under it; findings that depend on history | numbers and predecessors agree; each finding follows from the session's history and its profile |
| Sink `P/sink/writer.py` | failure counters | `SinkWriter.write`, `FileSink.write`, `session_closed` | partial failure, order of concurrent writes | failures never stop the agent, severity tells an outage |
| Session cache `P/cache/cache.py` | baseline, context tier, last activity per session | first-write-wins baseline, tier and boundary updates | what is set without an entry is lost | findings compare with the session's own past; entries go with their sessions |
| LangChain adapter `P/wrapper/langchain_adapter.py` | `_ancestry`, `_roots` with turn scopes; the middleware's step | chain, LLM and tool callbacks, tool middleware, `awrap_step` | overlapping invocations, parallel branches and steps, failing runs, no run id in middleware | every event in its own invocation's session, with its own branch's turn or a live step's; everything reclaimed |
| MCP client wrapper `P/wrapper/mcp.py`; Pydantic AI capability `integrations/pydantic-ai-governor` | one session per proxy or run | session start and end, a call before and after its tool, model turns, declarations | the tool or a hook fails, calls run in parallel, sibling runs share an agent id | every call leaves its events; nothing outlives its run |
| Profiles `P/profile/` | files | merge, validate, resolve, degrade, canonical form | several readers of one file disagree; it changes mid-session | what is admitted is used as written; equal fingerprints govern alike |
| Transcript parser, token extraction (`P/wrapper/`) | none | grouping of records into turns, coercion of counts | requests spread over lines, repeated calls, torn last line | turns are billed what the transcript gives them |
| Shell classification `P/wrapper/shell_classification.py` | none | two scanners, tables of executables, redirections | quotes, nesting, heredocs, wrappers | `complete` and `destructive` agree with how a shell reads the command |
| Hook configuration `P/cli/hook_config.py`, `P/cli/ux.py` | the user's settings, skills, `.mcp.json` | classify, plan, compare, replace; init; the seam before every command | the user and other installs write the same files | idempotent, nothing of the user's is lost, one hook per event |
| MCP server `P/mcp_server/`, session lookup in `P/cli/ux.py` | none; resolves sessions from trace files | `declare_intent`, session status, measured reads, list and status | stale environment, several fresh traces, appends during a scan | a declaration lands in the caller's session or nowhere |
| Analyzers `P/analyze/`, retro `P/retro.py` | none | pulse (undeclared intent, burn rate), retrospective scan | order of events, contradictions, memoised walks, bounded memory, a bounded display | every finding is charged to its owner once, and a report says how far to trust it and what it leaves out |

How they interact: every adapter (hook runner, LangChain, MCP wrapper, Pydantic)
starts a session in a session manager, builds events through an event builder
that takes the session's sequence lock, and hands them to the sink writer. The
hook runner lives one process per event, so it first rebuilds the manager's
state from the sink and the sidecar under the sink's flock. The MCP server
appends declarations through the same ceremony. Analyzers and the CLI read
finished traces; the CLI also writes the settings that make Claude Code run the
hooks in the first place.

`PROJECT.json` lists the components with what is and is not modelled, and the
hazards at the lines where they bite.

## Modules

| Module | What it is |
|---|---|
| `TraceLines` | a session's lines in a sink, and its last one |
| `TraceChain` | abstract: a file that grows by lines that each continue their session's chain |
| `HookTrace`, `MCHookTrace` | hook processes, the sink, the sidecar, the flock |
| `HookTraceProofs` | invariants; that `HookTrace` implements `TraceChain` |
| `StickyBinding`, `MCStickyBinding`, `StickyBindingProofs` | the profile a hook process works under: snapshot, binding, registration, recovery |
| `SessionManager`, `MCSessionManager`, `SessionManagerProofs` | the in-process registry with its reaper and emitting threads |
| `LangChainRoots`, `MCLangChainRoots`, `LangChainRootsProofs` | the callback handler and its middleware over a forest of runs |
| `ProfileChecks` | pure: a profile file as the loader, the validator, the builder and the canonical form see it |
| `EventPolicy` | pure: the cache entry and the findings of one event |
| `GovernedRun`, `MCGovernedRun`, `GovernedRunProofs` | runs through the MCP proxy, the Pydantic capability or hooks, composed of the two above with the manager, the cache and the sink writer; that what every event says follows from its session's past |
| `PulseWalk`, `PulseReport`, `PulseProofs` | both analyzers' walks over a trace; totals and statuses; that they charge, bill and report rightly |
| `TranscriptTurns`, `MCTranscriptTurns` | the transcript, SessionEnd's batches and the hooks that make the trace pulse reads |
| `RetroScan`, `MCRetroScan`, `RetroScanProofs` | the retrospective scan of transcripts; that it counts each write once and forgets nothing that matters |
| `ShellScan`, `ShellTables` | pure: the two scanners; the tables and rules per executable |
| `ShellClassification`, `MCShellClassification` | what is said of a command that is typed piece by piece |
| `HookConfig`, `SessionLookup` | pure: the plan for a settings file; which session is meant |
| `Workstation`, `MCWorkstation`, `WorkstationProofs` | commands, windows, MCP servers and a user on one machine, composed of the two above; whose session is meant, and that the configuration settles without losing anything |

In each module some definitions under "what plausible bugs would make", or with
a comment that says so, are not part of the specification: put in place of the
definition they name, each makes TLC find the property it is paired with in
`PROJECT.json` violated.

### HookTrace

One sink file. `sink` is the sequence of its lines, `open` says that the last
one is torn, `sidecar` and `emitted` are the two parts of `<sink>.index`,
`transcript` is how far Claude Code has flushed each session's transcript. Each
slot of `Procs` runs one invocation after another:

    Launch, GateEmpty     run_hook up to the lock, with the ghost-session gate
    Open, Acquire         sink_lock and resume_session_state
    EmitEvent             one build and one write
    ParseTranscript, EmitTurn, RecordTurns     the SessionEnd token batch
    Refresh               the sidecar update, which ends the process
    BuildFails, Crash     a schema violation; the process killed anywhere
    LoseSidecar, FlushTurn  the environment

A write succeeds, is dropped, or leaves part of a line: then the next event is
glued to it and neither parses. A read of the sink or the sidecar may fail
(`"read"`): the hook then starts its session anew in the same file, or reports its
whole transcript. `MaxFaults` bounds each kind of fault.
With one session the sink is a per-session trace, with several it is the
shared-file mode. The offset in a sidecar entry is the index of a line, so a
hit means that the line at the offset is the event the entry names
(`_validate_at_offset`).

Left out: the platform without `fcntl`; a failed `stat` that would put an offset of
0 in the sidecar (a later event is not found there, so the scan follows); a torn fragment that happens to be a
whole line; the text search for the last line's start; resumption under
another agent id.

### StickyBinding

The same processes, looked at for the profile they work under. The operator's
files (`content`, a resolution file of bindings, a default) may be edited at any
time; snapshots are shared by the sinks of a directory and named by their hash;
the sidecar holds the binding. A process resolves, writes the snapshot, verifies
it, records the binding and registers, in that order, and each write may fail or
be the last thing it does. It reads the trace when it resumes its session, when it
takes a binding over and when it recovers one, and each read may fail
(`"read"`): then nothing is there to compare with. A profile stands for its
canonical bytes. Writes to the trace succeed here.

### SessionManager

`registry` maps ids to entries, `live` is the agent's index of active ids. An
entry carries the state of its lock and counter, so a caller that still holds a
force-closed entry keeps using it, as in Python. A thread emits in
the steps `Enter` (take the lock), `NextSequence`, `Built` or a schema failure,
release, `Touch`, and `WriteEvent` after the lock is gone; `built` is the history
of the events that passed their schema, of which the trace holds those that were
written so far. The reaper scans and
closes in two steps, each under the registry lock. `TimePasses` makes one
session idle.

Left out: the async wrapper (the same operations around an `await`) and the
`on_force_close` callback. Profile admission is in `GovernedRun`.

### LangChainRoots

`Parent` is the forest of runs LangChain will start; the framework starts a run
inside an open one and ends it last. `ancestry`, `roots` and `scopes` are
`_ancestry`, `_roots` and each root's `turn_scopes`. A turn is a number, `owner`
remembers who started it. A chain may have several model calls out at once
(`inflight`), which return in any order or raise (`LlmFails`); `beside` is the
history of what was out beside a turn when it started. The usage of a turn is
represented by the turn that reported it, so a usage of another turn is visible. A
run in `Failing` may raise: the handler defines no error callback, so nothing is
torn down. A middleware call
binds to a root in one step, under the lock, and emits in later ones. A chain of
`Steps` works inside `awrap_step` (`EnterStep`, `LeaveStep`); one middleware
serves the handler, so steps that overlap share its fields (`step`).

Left out: callbacks without run ids (the legacy root), what a step's messages
add up to, failing builds and writes (they are HookTrace's subject), the order
of a root's events (SessionManager's).

### GovernedRun

Two runs of one agent and one integration. `events` is the history of what was
built, with its findings and what became of it; the properties recompute each
finding from that history. `phase`, `manager` and `cache` are what a run holds;
`flying` are calls whose tool is running, which end in any order or raise; the
sink goes up and down (`SinkFlips`) and `failures` is the writer's counter. A
hook is a process: its cache and counter live for one event, and the baseline is
read back from the trace (`Rehydrated`), which two sessions may share.
`ProfileChecks` describes a profile by the YAML values the code tells apart, and
what merging, validation, the builder's own checks and the canonical form make
of it. `EventPolicy` gives the findings of an event and the cache entry after it.
The profile files, calls and declarations of an instance come from the sets of
all of them (`ProfileFiles`, `ToolCalls`), cache entries from `Entries`;
`RunAssumption` and `EntryAssumption` say so.

Left out: the texts of simulated consequences; calls made on an MCP proxy after
its session has ended; races between hooks (HookTrace's).

### PulseWalk, PulseReport, TranscriptTurns

One step reads one event in both walks. A finding is charged to the turn that
lists its tool call, or waits in the buffer for the next turn's snapshot. Token
fields are sets of numbers; the report's sums, parts and statuses are operators
over what was read. `TranscriptTurns` produces the traces: Claude Code appends
lines (`WriteLine`), hooks leave tool events, each `SessionEnd` parses what is
there, also with a last line that is being written, and reports the turns not yet
recorded; then pulse reads the trace. `Bad` stands for every value that is not a
count. Traces of other producers are checked too (`phase = "given"`).

Left out: breakdowns per tool and target; the parser's warnings and models.

### RetroScan

Transcripts are streamed record by record; repositories are found by walking up
a path (`GitRoot`) with a memo that later walks reuse (`Learnt`), writes are
collected per session, target and working directory up to a bound (`Collected`) and
classified when every working directory is known; those of one session, class and
target become one finding (`Merge`). `Report` ranks the findings and cuts them to
`MaxDisplay`. A path is a directory and a name. In `retro` the tree is `Shallow`, which TLC
evaluates: a walk that the cap cuts short leaves answers behind that a later walk
from a directory further up would not give.

Left out: labels, titles and the spelling of paths, and with them which of two
findings comes first when nothing else tells them apart (`Report` may cut either);
the ranking of sessions, which is computed from what is shown.

### ShellScan, ShellTables, ShellClassification

A command is a sequence of tokens: an operator, an escape, a run of ordinary
characters. `StripHeredocBodies`, `SplitSegments` and `ScanSegment` are folds
over them, with the state the Python loops keep; the tables give an executable's
effects. `ShellClassification` types a command piece by piece, so every state is a
command, and `reading` is a reference: how a shell reads it, written without the
scanners. The model's answers were compared with the Python classifier on the
66 142 texts of the run's topics, without a difference.

### HookConfig, SessionLookup, Workstation

`HookConfig` is `plan_convergence` with what it classifies; `SessionLookup` the
choice of a session from trace files. `Workstation` runs them: each command is a
process that reads, decides, compares and replaces in steps (`StartRun`,
`ReadLocal`, `Decide`, `Compare`, `Replace`; then skills and `.mcp.json`), the
user saves settings, skills and `.mcp.json` between any two of them, installs
come and go, and a process may be killed. Windows open sessions that are captured
only if a live hook stands in a settings file; their servers resolve a session
stat by stat (`Ask`, `Stat`, `Resolve`, `Emit`) while hooks append.

Left out: a settings event whose value is not a list, or a `hooks` that is not a
mapping; the MCP server's own script (an install is known by its hook); an in-app
`/resume` into an older session; a session resumed in two windows.

## What the runs show

| Run | Properties | Instance |
|---|---|---|
| `shared` | `Chain`: the file implements `TraceChain` | 2 processes, 2 sessions, 4 invocations; the sidecar lost |
| `faults` | `TypeOK`, `NoFork`, `ResumedFaithfully`, `SaysWhatItWrote` | 2 processes, 2 sessions, 3 invocations of tool hooks, SessionEnd and declare_intent; any two kinds of fault, failed reads among them |
| `ends` | `NoGhostTrace`, `InvocationEnds`, `TurnsReported` | 2 processes, 1 session, 3 turns of which one is silent; kills, invalid events, failed reads; fairness |
| `sticky` | `StaysBound`, `ChangesAreTold`, `KeepsGoverning` | 2 processes, 2 sessions in one directory, 3 invocations, one edit, any two of eight kinds of fault |
| `emit` | `TypeOK`, `OneChain`, `IdleIsReaped`, `EmissionEnds` | 2 threads, a session id started twice, 3 events; fairness |
| `starts` | `StartsAlone` | 2 agents, 4 sessions, 1 thread |
| `roots` | `Attributed`, `SameBranch`, `StepTurns`, `Reclaimed` | 2 overlapping invocations, 7 runs, 2 of them middleware steps, 1 middleware call, 2 turns |
| `governed` | `AccusedJustly`, `ComparedWithOwnPast`, `SeverityTellsOutage`, `StateIsSound`, `ProfileDecides` | 2 runs, 3 integrations, 4 profiles, 3 calls of which two run in parallel and may fail, 3 declarations; up to 4 starts and calls, and one model turn, tick or sink failure |
| `pulse` | `ChargedOnce`, `BillsAreRight`, `OkIsWhole`, `TurnsAsTranscribed` | every trace of up to 4 events of 13 kinds; every session of up to 4 of 8 transcript lines, one of 2 tool events and SessionEnds anywhere |
| `retro` | `WritesAccounted`, `FindingsFollowTheLog` | every log of up to 4 of 13 records in a tree of 9 directories; at most 3 targets collected and 1 finding shown |
| `shell` | `ConstructsAreUnknown`, `HarmIsSeen`, `PartsAreIndependent`, `ForceIsNoSofter` | 8 free alphabets of 7 to 12 pieces, 3 to 5 long; 32 executables with their subcommands and options, 5 topics of longer calls |
| `workstation` | `ConfigurationSettles`, `SessionsAreTheirOwn`, `UsersWorkSurvives`, `OneHook`, `LatestIsStable` | six stories (below) over 2 processes, 2 windows, 3 sessions, 2 directories |

Several of these are conjunctions of parts that are stated and commented one by
one in the module:

| Property | Its parts |
|---|---|
| `ResumedFaithfully` | `ChainsOntoWritten` (no event hangs in the air), `OneRegistration` |
| `SaysWhatItWrote` | `RecordedTurnsWereWritten`, `TurnsAtMostOnce`, `AnsweredIsDeclared` |
| `StaysBound` | `TypeOK`, `Sticky` (one profile per session), `BoundIsIntact` (its snapshot is there) |
| `ChangesAreTold` | `NeverSilent`, `WarnedOnce` |
| `Attributed` | `TypeOK`, `RightSession`, `Governed` (no tool call goes unseen) |
| `ComparedWithOwnPast` | `BoundaryMatches`, `EscalationMatches` |
| `StateIsSound` | `TypeOK`, `NothingLeaks` (a run that is over holds nothing) |
| `ProfileDecides` | `RulesGovern`, `AcceptedIsKept`, `FingerprintDecides` |
| `ChargedOnce` | `TypeOK`, `ChargedToOwner`, `BilledToOwner`: the two analyzers |
| `BillsAreRight` | `FirstUsageCounts`, `BillsAddUp` |
| `TurnsAsTranscribed` | `BilledAsTranscribed`, `CallsBilledToTheirTurn` |
| `WritesAccounted` | `TypeOK`, `EveryWriteIsCounted`, `CutIsDisclosed` (a finding is shown or counted as omitted) |
| `FindingsFollowTheLog` | `MemoIsTransparent`, `FindingsAreFounded` (each on exactly the writes that strayed) |
| `HarmIsSeen` | `DeletionsAreSeen`, `WritesAreSeen` |
| `PartsAreIndependent` | `TypeOK`, `SegmentsAreIndependent`, `WrappersAreTransparent` |
| `ConfigurationSettles` | `TypeOK`, `SettlesInOne` (idempotent), `NothingFromNothing` |
| `SessionsAreTheirOwn` | `OwnOrNothing` (declarations), `NeverReadsOwnLive` (measured reads) |
| `UsersWorkSurvives` | `KeepsForeign` (settings, `.mcp.json`), `KeepsHandEdits` (skills) |

In `faults` and `ends` a property names the faults that may break it
(`Spared({...}) => ...`) and must hold in every state in which none of those has
struck: `NoFork` survives failed writes but not a kill, `ChainsOntoWritten`
survives kills but not failed writes. `sticky` does the same with the faults that
lose what keeps a profile; `NeverSilent` allows all of them and counts: until a
session is warned, no more of its events strayed than reads of the trace failed.

`OneChain` speaks of the events built for an entry, as those are what the code
chains: each names the one with the next smaller number, or none if it is the
first. Files follow in the order of the writes, so in the trace an event may precede
the one it names, or that one may be missing because its write is still to come.

The stories of `workstation` each bound some steps and forbid the rest:
`Contended` (two commands and a user on the same settings), `Skilled` (skills and
`.mcp.json`, with a kill), `Unusable` (broken, unreadable and half-written files,
installs that come and go), `Asked` (two windows, a declaration and a deletion), `SetUp` (init
while a session runs), `Browsed` (sessions and the viewer).

### Bounds

Two processes (threads) are what a race needs; a third only waits for the same
lock. Three invocations allow a session to be opened, damaged and resumed by
another process with a third in between, four let two sessions do so in turn.
Two sessions show interference through a shared file; the code has no step that
reads more than its own and "another" session. Every kind of fault can strike
once, at any point, and two together (`TwoFaults`): enough for
a stale sidecar after a loss, or a torn line after a kill. Four session ids with
two agents allow two sessions beside an exclusive start and one of the other
agent. Events are bounded by `MaxEvents`, entries by `MaxEntries`. The forest of
`roots` is the smallest with overlapping roots, parallel siblings and a tool
nested deeper than its node, and two turns let one chain, or two branches, have two
model calls out; `MaxHops` is 4 there, which no path exceeds, as 64
in the code.

`governed` lets a session make two calls (three as hooks), which is what a
comparison with the previous call needs, and has the other session between
them. A chain of attributions in `pulse` is at most a listing, a tool event, a
turn and a repeated turn: four events; the same holds for the lines of a request.
In `retro` three collected writes allow one target to be written from two directories
beside another, a fourth overflows the bound, and of two findings a display of one
omits the weaker. The free
alphabets of `shell` leave room for an opener, a command, a closer and a command
behind it. In `workstation` freshness windows are 2 and 1 ticks, so that a trace
can be fresh for a read and stale for a write; `MaxProbe` and `MaxListed` are one
less than the sessions. Symmetry is used for processes, runs and sessions in runs
without liveness properties.

Deadlock checking is off where the system really stops: when the invocations,
entries, steps or runs the bound allows are spent.

### Fairness

`HookTrace`: weak fairness of each running process' steps, since the operating
system schedules processes; killed or not, each invocation ends. Strong fairness is not used: the flock
is released by every holder and the instance is finite. No fairness on
faults, launches or the transcript: nothing makes them happen.
`SessionManager`: weak fairness of the reaper (a thread in a loop) and of each
emitting thread's steps. No fairness on starts, ends or the clock; what
`IdleIsReaped` says of a session is that once it is idle and stays so it is closed.
The other modules state safety only.

## Where code and documents differ

What a property excludes, or modelling met. The first group is kept out of a
run by its instance or by the property's own condition.

Traces and sessions:

- A hook killed before its sidecar refresh leaves an entry that still is an event
  at its offset, and the next hook repeats numbers
  (`P/session_manager/resumption.py:233`; line 20 calls a stale sidecar
  self-healing). `NoFork` speaks of states without a kill.
- A trace that cannot be read while a session resumes counts as one without the
  session (`P/session_manager/resumption.py:280`; lines 28-30 and 296-302 say so,
  line 25 that the sink is the source of truth): the session registers again and its
  numbers start at 1 once more, in the same file. `NoFork` and `OneRegistration` speak
  of states in which every read succeeded. A sidecar that cannot be read while
  SessionEnd looks for reported turns has them reported again.
- A registration that cannot be read is one that does not exist (765): a binding is
  then taken over unchecked, and a re-resolution is entered as `fresh` without the
  warning that `_recover_binding` gives. `NeverSilent` allows one straying event per
  failed read.
- A declaration whose write was dropped is answered with its id
  (`P/wrapper/claude_code_hook.py:892`; line 839 says "None if nothing was
  written"), and a turn whose write was dropped is recorded as reported (1327).
- In shared-file mode the SessionEnd gate asks whether the file exists, which
  another session's events answer (914), so an empty SessionEnd leaves a
  registration; `ends` has one session. In the same mode `_first_declared_intent`
  (429) takes another session's declaration, which `AccusedJustly` states.
- An id started again while the reaper holds its old entry drops out of the live
  index, and an exclusive start then leaves it active
  (`P/session_manager/manager.py:317`); `starts` starts no id twice. A session
  touched after the reaper's scan is closed although it is used (339).
- Parallel nodes share the turn of an enclosing graph that has called a model
  (`P/wrapper/langchain_adapter.py:574`; line 391 says that another branch's turn
  is untouched); in `roots` no such chain calls a model itself.
- A branch has one slot for its turn. Of two model calls out at once in one node the
  second start replaces the first's turn, and whichever returns writes its usage under
  the id that is there (428-431, 572-584; the comment at 418-421 says that this is
  what stops one turn's id on another's usage). `SameBranch` allows, beside a turn's
  own usage, that of a call its chain had out when the turn started.
- A chain started inside a tool is cut off from its root (276), so its tools leave
  no event, and its ancestry is never pruned (548); `roots` starts none. The turn
  of a nested branch is kept until its root ends (364).
- Steps that overlap overwrite one another's turn, and the first to end clears it
  (1014, 1023), so a call may carry its neighbour's turn or none. The class asks
  for one middleware per run; parallel nodes of one run are enough.
- A turn reported for its tool calls before its usage was written is never
  reported again, so its tokens are lost while the pulse may still say ok; a turn
  reported before it listed a call leaves the call to another turn.
  `BilledAsTranscribed` and `CallsBilledToTheirTurn` name both.
- A gap in numbering is left where a governance error took a number's turn: errors
  go to stdout, not to the file.

Policies:

- POL-001's `first_write` fires in every hook process, as each starts with an empty
  cache (`docs/guide/sentience_governor.md:1172` says once per session); for the
  same reason task boundaries are never flagged in hooks and severity never rises
  above a warning there.
- A rule with an empty list (`domain: []`) validates clean
  (`P/profile/loader.py:755-821`) and is skipped at run time
  (`P/event_builder/builder.py:193`). `_profile_unusable_reason` of the Pydantic
  capability refuses profiles with null sections that the manager admits.
- A run of the capability whose trace directory cannot be made leaves its session
  and cache entry behind (`capability.py:342`); `NothingLeaks` excepts it.

Reports:

- `no_violations`, in `docs/commands.md:270` a clean session, is also said of a
  trace whose violations all wait for a turn that never comes
  (`P/analyze/policy_violation_burn_rate.py:603`); `OkIsWhole` asks for a charge.
- A directory with a `.git` file "can never carry a cross-project claim"
  (`P/retro.py:253-270`), but a session that has worked in it makes it a project
  by its working directory (299-309), and writes from or to it are then claimed.
- `_ranked_sessions` is to hold "every session carrying findings"
  (`P/retro.py:789-793`), but is computed after the findings are cut to
  `MAX_DISPLAY_FINDINGS`, so a session whose findings are all omitted is not in it.

Shell (`docs/profile.md:274-283` says that `complete` needs every part
recognised):

- `cat <<<"$(rm x)"` is complete (`shell_classification.py:685`), and lines after a
  here-string may be swallowed as a heredoc's body (414).
- `> $(x)` or `< $(x)` without a command is complete (808-817).
- `echo {a;rm -rf b}` is one harmless segment; a quoted string over several lines
  with `<<E` in it starts a heredoc; `-sXDELETE` of curl swallows the next argument.

The topics of `shell` keep these out by their alphabets or the properties by the
reference reading's conditions.

Workstation:

- A settings file saved between the comparison and the replace is lost
  (`P/cli/hook_config.py:482`), a skill or `.mcp.json` saved between read and write
  as well (`P/cli/ux.py:2561, 2768`); the properties except exactly these windows.
- The conflict with a hook in the shared file is looked for in the starting
  directory only, so another directory of the repository with a live shared hook
  runs two. Two installs' seams rewrite each other's entries for ever.
- A kill between a skill's write and the manifest's, and a later upgrade, leaves an
  unedited skill "preserved".
- `OwnOrNothing` speaks of requests made while the session's own trace is fresh and
  later than the other's: equal times, or a silent session, can still misattribute.
- `P/mcp_server/server.py:99-101` says that the live session is skipped because it
  bears no tokens before SessionEnd; a resumed one does. It is excluded by its id.

## What is proved

The theorems hold for every number of processes, threads, sessions, runs, turns,
events and faults, under the assumptions on constants that the modules name
(`ConstantsAssumption`, `BindingAssumption`, `WalkAssumption`,
`TranscriptAssumption`, `RetroAssumption`, `RunAssumption`, `EntryAssumption`,
`ProfileAssumption`, `StartAssumption`, `MachineAssumption`, `LookupAssumption`,
`CommandAssumption`, which TLC evaluates in the runs of their modules) and the hypotheses given
here. None of the invariants below the type level is inductive as it stands; each
entry says what had to be added.

Hook processes on one sink (`HookTraceProofs`):

- `Typing`, `Exclusion`: `Spec => []TypeOK`, and at most one process is between
  `Acquire` and the release.
- `NeverForks`: `Spec => []NoFork`: until a process is killed, a sidecar update
  fails or the trace cannot be read, no number is issued twice, however writes fail
  or tear and sidecars are lost. The next number depends on the sidecar, on the scan and on what a process
  remembers. `ForkInv` adds that an entry which hits names its session's last line,
  or the holder of the lock is about to correct it, and that the number a process
  in the critical section holds is at least that of the session's last line.
- `Resumes`: until the trace cannot be read a session registers once, whatever else
  fails (`Unregistered`: what a process still has to write starts with a registration
  only if the session has no line), and events hang on what is on disk until a write fails or an event is
  rejected (`LinkedInv`: what a process will name as predecessor is a line).
- `SaysTruly`: recorded turns and answered declarations are in the file until a
  write fails (`WrittenInv` also covers what the holder of the lock remembers), and
  no turn is in it twice until a process is killed or a record is lost or not read
  (`OnceInv`:
  a written turn is recorded, or its writer holds the lock and remembers it).
- `NoGhosts`, for a sink with one session: a session that only ever ended without
  a turn to report leaves no event (`Begun`, `Live`: what makes the gate let a
  SessionEnd through).
- `Implements`: `Spec => TC!Spec`, under `Reliable` (no kills, failed updates or
  failing reads and writes; sidecars may be lost): every step extends the file by one line
  that continues its chain, or leaves it alone.

The profile a session is under (`StickyBindingProofs`):

- `Stays`, `Tells`, `Keeps` (an action property) from one inductive invariant
  `IInv`. Whoever is past a sink's lock holds it (`Exclusive`), and runs the new
  release only after an upgrade (`Releases`); what is bound or about to be has an
  intact snapshot unless one was damaged or cut short (`Marked`, `IntactInv`); who
  resolves a session found no binding that governs it (`NotGoverned`). A registered
  session is bound to its registration and no line of it strays (`StickyInv`);
  without an edit or an upgrade the files resolve to one profile (`Steady`). Without a
  warning each event that strays, or is about to, has cost a read that failed
  (`ToldInv`), and each warning is paid for by a lost
  sidecar or a kill (`WarnInv`).

The registry of one process (`SessionManagerProofs`):

- `Typing`, `ExclusiveStarts`, `Chained`. `ExclusiveStarts` assumes `StartedOnce`
  (no id is started twice) and rests on `IndexInv`: every active entry of the
  registry is in the live index. `Chained` rests on `ChainInv`: an entry's
  last event is the end of what was built for it (`EndsKnown`), whoever holds its lock
  builds on that end (`BuildsOnTheEnd`), a number once built is below all that the
  entry has still to give (`Sealed`), so a new event comes last, and what is in flight between the
  lock and the file was built and is written once (`Underway`).

The LangChain handler (`LangChainRootsProofs`):

- `OwnStep` (an action property): whatever steps overlap, an event of a middleware
  call carries the turn of a step that was in flight, or none (`CallInv`).
- `Sessions`: every event is in its own invocation's session or is an error
  without one, for every forest of runs (`SessionInv`: an open run's root is live,
  and what a call is bound to is its own root).
- `Attributes`, `Reclaims` assume `Routable`: no run is started inside a tool and
  chains are at most `MaxHops` deep, which is what the code's bounded walk can
  route. `RoutedInv` says that the ancestry is closed: from each entry the walk
  reaches a live root.
- `Branches` assumes `Apart` too: of two nested chains at most one calls models
  itself. `TurnInv` relates a root's turn scopes to the turns its chains have in
  flight, however many: each was out beside the turn that its chain's scope holds, or
  is that turn (`BranchInv`).
  TLC evaluates both hypotheses on the instance of `roots`.

The pulse (`PulseProofs`), about every session of `TranscriptTurns`:

- `Charges`, `Bills`, `ShowsAll` from `WalkInv`: after `n` events the two walks hold
  exactly what the owner of each finding, defined over the trace without the walks,
  asks for. `Bills` also shows that `PulseReport`'s sums add up: the parts of a
  bill never exceed what was spent.
- `Transcribes`: what pulse says of a turn is what its transcript says, however
  SessionEnds cut it and hooks interleave. `SessionInv` adds that turns are reported
  once each and with the first usage and listing their lines give (`Reported`).

Governed runs (`GovernedRunProofs`), through any integration, with any number of
calls and events:

- `Accuses`, `Compares`, `TellsOutage`, `Decides`, `Sound` from one inductive
  invariant, `IInv`. The properties compute each finding from the history; the
  code looks at a cache entry and a counter. `Base`, `Past` and `Counts` say what
  the entry must tell of the session's declaration and last events and the counter
  of its losses, and `OpenKnown` that for every open run they do. An event was
  judged by its session's past when it was built (`GoodAt`) and stays so (`Frame`).
- `Told` and `Kept` are the rest of `IInv`: whose events there are, an explicit
  declaration has an objective, and a run that is over or has not begun holds
  nothing. A hook is a process without events (`HookFresh`); what it reads back
  from the trace is the first declaration (`ReadsBack`).
- The parts of `Decides` hold of every profile file: what validation admits means
  the same to the loader, the builder and the canonical form.

The retrospective scan (`RetroScanProofs`):

- `Accounts`: every write of the window ends in exactly one counter or finding, and
  every finding is shown or counted as omitted, for any transcripts and any bounds on
  targets and display. `IInv` adds that a session, class and target have one finding,
  so that merging into it loses nothing, and that nothing is classified before
  everything is read, nor reported before everything is classified.
- `FollowsTheLog`, for a tree no deeper than a walk goes (`Shallow`; 64 levels in the
  code): a remembered root is the one a walk without memory finds (`Walked`), so that
  whether a write strays, and its class and destination, are what the whole log says;
  and each finding is founded on exactly the classified writes that strayed to its
  target (`FoundedOn`), with the source of the first.

One machine (`WorkstationProofs`), with any number of processes, windows, sessions
and directories, any settings documents, installs and skills:

- `Attributes` from `SessionInv`. A request decides by a listing it takes first and
  by one `stat` per session, in any order, while hooks append, other declarations
  land and traces are deleted. `Serving` says what its scan has seen and may still
  see of the two sessions that matter (`Times`): while the request is certain, its
  own session's time is fresh and later than the other's, so whatever the scan ends
  with, the own session is found or the request refused (`ResolvesOwn`). `Apart`
  (no two windows are in one session) and `Turnless` (a session that a `/clear` began
  has no turns while it lasts, so no measured read names it) are the rest. The
  attempt showed that a certainty ends when the user deletes one of the two traces,
  which the history in `requests` had not recorded (`Overtaken`).
- `Latest` (an action property): an append keeps every trace's start (`StartsKept`),
  and a listing depends on nothing else.
- `Settles` from `ConfigInv`: what a process decided, it decided of the local and
  shared file it read (`Engaged`), so whatever it writes later is a converged document
  and its place was evident or given to init. Idempotence holds of every document
  (`ConvergesOnce`): of each event's entries converging keeps the foreign ones and one
  of Sentience's, in their order, and keeping the same ones again changes nothing.
- `Survives` (an action property) from the same invariant: converging keeps the
  foreign entries as a sequence (`ConvergeKeepsForeign`), and only `Replace`,
  `WriteSkill` and `WriteRegistry` write what is the user's.
- `RunsOneHook` (an action property): the planner's decisions are gone through one by
  one (`DecisionCases`); each that is reported as success leaves at most one live
  command in the two files, and init leaves its own.

Induction over data, as the library states it, takes an operator as a parameter,
which no installed prover instantiates. Where a proof needs what a recursive
function or a fold computes (walks up the ancestry, the parse of a transcript, a
batch of turns, sums of tokens), it shows that a function with the defining
equations exists, by taking a least counterexample, and argues about any such
function; so folds of the community modules are within reach. `SelectSeq` is not:
its definition in the standard module cannot be expanded here;
`TranscriptTurns` selects with a fold (`Batch`) and `HookConfig` by positions
(`Taken`).

Only model-checked: the liveness properties (`InvocationEnds`, `TurnsReported`,
`IdleIsReaped`, `EmissionEnds`), as anything with ENABLED is outside what the prover
does; and the properties of `ShellClassification`, which compare two scanners, written
as folds with different states, on every text. They do not hold of every command (the
section above lists the forms that are misread), only of those the instance's topics
can spell, so there is no theorem for every value of `Topics` to state.

## Not modelled

Renderers, the viewer's screens, exports, first-run texts and install hints: they
format what other components compute. Demos, examples and scripts. The bytes of a
trace (the backwards search for the last line, JSON itself), YAML parsing, the
transports of stdout and HTTP sinks beyond succeeding or failing, the legacy root
of the LangChain handler, the asynchronous session context and force-close
callback of the session manager, extractors of providers that differ only in the
names of fields, and what MCP's scan tool presents.

## Plan

Every invariant and every action property that a run checks is a theorem, except the
four of `ShellClassification`.

The legacy root of LangChain, and the folds over a step's messages, are what is
left to model.
