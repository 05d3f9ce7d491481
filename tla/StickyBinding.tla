---------------------------- MODULE StickyBinding -----------------------------
(***************************************************************************)
(* Which governance profile a hook process works under.  Every process     *)
(* could resolve the profile afresh from the operator's configuration, and *)
(* an edit in mid-session would then change the policy silently.  So the   *)
(* first process of a session writes the resolved profile to a snapshot    *)
(* named by its hash, binds the session to it in the sidecar, and only     *)
(* then registers the session; later processes rebuild the profile from    *)
(* the binding, and fall back to resolving when that fails.                *)
(*                                                                         *)
(* A profile stands for its canonical bytes: its hash, its fingerprint and *)
(* the name of its snapshot are the profile itself.  Sinks in a directory  *)
(* share the snapshots.  Writes to the trace succeed here; that they may   *)
(* not is the subject of HookTrace.  Each process reads the trace up to    *)
(* three times, and any of the reads may fail.                             *)
(***************************************************************************)
EXTENDS Naturals, Sequences, SequencesExt, FiniteSetsExt

CONSTANTS
  Procs, Sessions, Sinks, NoProc, NoSession,
  SinkOf,           \* the sink a session writes to
  Profiles, NoProfile,
  ReadyProfiles,    \* profiles the new release still finds runtime-ready
  Files, DefaultFile, NoFile,
  Unloadable,       \* the content of a file that is absent or does not load
  Patterns,         \* agent_id patterns of the resolution file
  Matching,         \* those that match the agent
  NoPattern,
  BindingLists,     \* the resolution files an operator may write
  MaxInvocations,   \* bound: hook processes ever started
  MaxEdits,         \* bound: edits of the configuration
  MaxFaults         \* bound: how often each kind of fault may strike

(***************************************************************************)
(* crash  - the process is killed                                          *)
(* lose   - a sidecar is deleted, or unreadable and rewritten              *)
(* damage - a snapshot is removed or its bytes change                      *)
(* short  - a snapshot is written only in part                             *)
(* space  - writing a snapshot raises OSError                              *)
(* record - writing the binding raises OSError; logged and swallowed       *)
(* read   - the trace cannot be read: the session counts as unregistered   *)
(* upgrade - a release with a stricter validator is installed              *)
(***************************************************************************)
FaultKinds == {"crash", "lose", "damage", "short", "space", "record", "read", "upgrade"}

ASSUME BindingAssumption ==
  /\ NoProc \notin Procs
  /\ NoSession \notin Sessions
  /\ SinkOf \in [Sessions -> Sinks]
  /\ {NoProfile, Unloadable} \cap Profiles = {}
  /\ ReadyProfiles \subseteq Profiles
  /\ DefaultFile \in Files
  /\ Matching \subseteq Patterns
  /\ NoPattern \notin Patterns
  /\ BindingLists \subseteq Seq([pattern : Patterns, file : Files])
  /\ MaxInvocations \in Nat /\ MaxEdits \in Nat
  /\ MaxFaults \in [FaultKinds -> Nat]

VARIABLES
  bindings,   \* the resolution file: patterns and profile files in order
  content,    \* the profile each file holds
  release,    \* the installed release
  snapshots,  \* profiles/<hash>.json, per profile
  binding,    \* the sidecars' binding of each session
  trace,      \* each session's events, with the profile that governed them
  lock,       \* holder of each sink's flock
  pc, mem,    \* where each process stands and what it remembers
  warnings,   \* re-resolution warnings logged, per session
  invoked, edits, faults

config == <<bindings, content, release>>
vars == <<config, snapshots, binding, trace, lock, pc, mem, warnings,
          invoked, edits, faults>>

Sources == {"bound", "degraded", "default", "none"}
Markers == {"absent", "fresh", "rematerialized", "reresolve"}

\* What governs a process, and what a binding records of it.
Bound == [profile : Profiles \cup {NoProfile}, source : Sources,
          pattern : Patterns \cup {NoPattern}, marker : Markers]
NoEntry == [profile |-> NoProfile, source |-> "none", pattern |-> NoPattern,
            marker |-> "absent"]

\* A registration records its source only when bound or degraded.
Line == [type : {"REG", "EVENT"}, profile : Profiles \cup {NoProfile},
         source : Sources \cup {"unrecorded"},
         pattern : Patterns \cup {NoPattern}]

Memory == [sess : Sessions \cup {NoSession}, release : {"old", "new"},
           file : Files \cup {NoFile}, bound : Bound]
Blank == [sess |-> NoSession, release |-> "old", file |-> NoFile,
          bound |-> NoEntry]

States == {"idle", "wait", "rehydrate", "match", "load", "default",
           "snapshot", "write", "verify", "record", "emit", "event"}

TypeOK ==
  /\ bindings \in BindingLists
  /\ content \in [Files -> Profiles \cup {Unloadable}]
  /\ release \in {"old", "new"}
  /\ snapshots \in [Profiles -> {"absent", "intact", "corrupt"}]
  /\ binding \in [Sessions -> Bound]
  /\ trace \in [Sessions -> Seq(Line)]
  /\ lock \in [Sinks -> Procs \cup {NoProc}]
  /\ pc \in [Procs -> States]
  /\ mem \in [Procs -> Memory]
  /\ \A p \in Procs : pc[p] # "idle" => mem[p].sess \in Sessions
  /\ warnings \in [Sessions -> Nat]
  /\ invoked \in 0..MaxInvocations
  /\ edits \in 0..MaxEdits
  /\ faults \in [FaultKinds -> Nat]

Init ==
  /\ bindings \in BindingLists
  /\ content \in [Files -> Profiles \cup {Unloadable}]
  /\ release = "old"
  /\ snapshots = [c \in Profiles |-> "absent"]
  /\ binding = [s \in Sessions |-> NoEntry]
  /\ trace = [s \in Sessions |-> <<>>]
  /\ lock = [k \in Sinks |-> NoProc]
  /\ pc = [p \in Procs |-> "idle"]
  /\ mem = [p \in Procs |-> Blank]
  /\ warnings = [s \in Sessions |-> 0]
  /\ invoked = 0
  /\ edits = 0
  /\ faults = [f \in FaultKinds |-> 0]

Fault(f) ==
  /\ faults[f] < MaxFaults[f]
  /\ faults' = [faults EXCEPT ![f] = @ + 1]

Goto(p, state) == pc' = [pc EXCEPT ![p] = state]

\* A state in which no fault of these kinds has struck.
Spared(kinds) == \A f \in kinds : faults[f] = 0

-----------------------------------------------------------------------------
(***************************************************************************)
(* Decisions                                                               *)
(***************************************************************************)
\* A profile a process of release r accepts.
Ready(c, r) == c \in Profiles /\ (r = "new" => c \in ReadyProfiles)

\* read_registration: the session's first registration.
Registration(s) == Head(trace[s])
Registered(s)   == trace[s] # <<>>

Agrees(b, line) ==
  /\ b.profile = line.profile
  /\ line.source # "unrecorded" => /\ b.source = line.source
                                   /\ b.pattern = line.pattern

\* Of Rebuilds: a faulty form of it.
RebuildsProfile(e, r) ==
  e.profile # NoProfile /\ snapshots[e.profile] = "intact" /\ Ready(e.profile, r)

\* _rehydrate_binding: an entry that names no profile is as good as any.
Rebuilds(e, r) ==
  /\ e # NoEntry
  /\ e.profile # NoProfile => snapshots[e.profile] = "intact" /\ Ready(e.profile, r)

\* The binding governs: a re-resolved one is known to disagree.
Governs(s, e, r) ==
  /\ Rebuilds(e, r)
  /\ \/ e.marker = "reresolve"
     \/ ~Registered(s)
     \/ Agrees(e, Registration(s))

\* Of Marker: a faulty form of it.
MarkerUncompared(s, fresh) == IF Registered(s) THEN "rematerialized" ELSE "fresh"

\* _recover_binding: how a fresh resolution is entered, and whether it is noted.
Marker(s, fresh) ==
  CASE ~Registered(s)                  -> "fresh"
    [] Registered(s) /\ Agrees(fresh, Registration(s)) -> "rematerialized"
    [] OTHER                           -> "reresolve"

-----------------------------------------------------------------------------
(***************************************************************************)
(* One invocation                                                          *)
(***************************************************************************)
Launch(p, s) ==
  /\ pc[p] = "idle"
  /\ invoked < MaxInvocations
  /\ invoked' = invoked + 1
  /\ mem' = [mem EXCEPT ![p] = [Blank EXCEPT !.sess = s, !.release = release]]
  /\ Goto(p, "wait")
  /\ UNCHANGED <<config, snapshots, binding, trace, lock, warnings, edits, faults>>

Sink(p) == SinkOf[mem[p].sess]

\* Of LockFree: a faulty form of it.
LockIgnored(p) == TRUE

LockFree(p) == lock[Sink(p)] = NoProc

Acquire(p) ==
  /\ pc[p] = "wait"
  /\ LockFree(p)
  /\ lock' = [lock EXCEPT ![Sink(p)] = p]
  /\ Goto(p, "rehydrate")
  /\ UNCHANGED <<config, snapshots, binding, trace, mem, warnings, invoked, edits, faults>>

\* _establish_or_rehydrate_binding: take the binding over, or resolve.  With
\* no registration to be read, a binding is compared with nothing.
Rehydrate(p) ==
  LET s        == mem[p].sess
      TakeOver == mem' = [mem EXCEPT ![p].bound = binding[s]] /\ Goto(p, "emit")
  IN /\ pc[p] = "rehydrate"
     /\ \/ /\ IF Governs(s, binding[s], mem[p].release)
                THEN TakeOver
                ELSE Goto(p, "match") /\ UNCHANGED mem
           /\ UNCHANGED faults
        \/ Rebuilds(binding[s], mem[p].release) /\ Fault("read") /\ TakeOver
     /\ UNCHANGED <<config, snapshots, binding, trace, lock, warnings, invoked, edits>>

\* resolve_profile, step 1: the first matching binding is authoritative.
FirstMatch == SelectInSeq(bindings, LAMBDA b : b.pattern \in Matching)

MatchBinding(p) ==
  /\ pc[p] = "match"
  /\ IF FirstMatch = 0
       THEN Goto(p, "default") /\ UNCHANGED mem
       ELSE /\ mem' = [mem EXCEPT ![p].file = bindings[FirstMatch].file,
                                  ![p].bound.pattern = bindings[FirstMatch].pattern]
            /\ Goto(p, "load")
  /\ UNCHANGED <<config, snapshots, binding, trace, lock, warnings, invoked, edits, faults>>

\* A fresh resolution is entered as marked; a re-resolution is warned of.
Enter(p, fresh, marker) ==
  /\ mem' = [mem EXCEPT ![p].bound = [fresh EXCEPT !.marker = marker]]
  /\ warnings' = [warnings EXCEPT ![mem[p].sess] = IF marker = "reresolve" THEN @ + 1 ELSE @]
  /\ Goto(p, IF fresh.profile = NoProfile THEN "record" ELSE "snapshot")

\* Compare a fresh resolution with the registration, if that can be read.
Resolve(p, fresh) ==
  \/ Enter(p, fresh, Marker(mem[p].sess, fresh)) /\ UNCHANGED faults
  \/ Enter(p, fresh, "fresh") /\ Fault("read")

\* The bound file is loaded; a failure degrades and consults no later binding.
LoadBound(p) ==
  LET c == content[mem[p].file] IN
  /\ pc[p] = "load"
  /\ IF Ready(c, mem[p].release)
       THEN Resolve(p, [mem[p].bound EXCEPT !.profile = c, !.source = "bound"])
       ELSE Goto(p, "default") /\ UNCHANGED <<mem, warnings, faults>>
  /\ UNCHANGED <<config, snapshots, binding, trace, lock, invoked, edits>>

\* resolve_profile, steps 2 and 3: the default profile, or none.
LoadDefault(p) ==
  LET c       == content[DefaultFile]
      matched == mem[p].bound.pattern # NoPattern
      loaded  == Ready(c, mem[p].release)
  IN /\ pc[p] = "default"
     /\ Resolve(p, [mem[p].bound EXCEPT
                      !.profile = IF loaded THEN c ELSE NoProfile,
                      !.source  = CASE matched -> "degraded"
                                    [] loaded /\ ~matched -> "default"
                                    [] OTHER -> "none"])
     /\ UNCHANGED <<config, snapshots, binding, trace, lock, invoked, edits>>

\* ensure_profile_snapshot: a snapshot that verifies is left alone.
CheckSnapshot(p) ==
  /\ pc[p] = "snapshot"
  /\ Goto(p, IF snapshots[mem[p].bound.profile] = "intact" THEN "record" ELSE "write")
  /\ UNCHANGED <<config, snapshots, binding, trace, lock, mem, warnings, invoked, edits, faults>>

\* After an OSError the process works without a durable binding.
AfterWriteError(p) == "emit"

WriteSnapshot(p) ==
  LET c == mem[p].bound.profile IN
  /\ pc[p] = "write"
  /\ \/ /\ snapshots' = [snapshots EXCEPT ![c] = "intact"]
        /\ Goto(p, "verify")
        /\ UNCHANGED faults
     \/ /\ Fault("short")
        /\ snapshots' = [snapshots EXCEPT ![c] = "corrupt"]
        /\ Goto(p, "verify")
     \/ /\ Fault("space")
        /\ Goto(p, AfterWriteError(p))
        /\ UNCHANGED snapshots
  /\ UNCHANGED <<config, binding, trace, lock, mem, warnings, invoked, edits>>

VerifySnapshot(p) ==
  /\ pc[p] = "verify"
  /\ Goto(p, IF snapshots[mem[p].bound.profile] = "intact" THEN "record" ELSE "emit")
  /\ UNCHANGED <<config, snapshots, binding, trace, lock, mem, warnings, invoked, edits, faults>>

\* record_session_binding: fails open.
RecordBinding(p) ==
  /\ pc[p] = "record"
  /\ \/ /\ binding' = [binding EXCEPT ![mem[p].sess] = mem[p].bound]
        /\ UNCHANGED faults
     \/ Fault("record") /\ UNCHANGED binding
  /\ Goto(p, "emit")
  /\ UNCHANGED <<config, snapshots, trace, lock, mem, warnings, invoked, edits>>

Provenance(b) == IF b.source \in {"bound", "degraded"} THEN b.source ELSE "unrecorded"

EventOf(p, type) ==
  LET b == mem[p].bound IN
  [type |-> type, profile |-> b.profile,
   source |-> IF type = "REG" THEN Provenance(b) ELSE "unrecorded",
   pattern |-> IF type = "REG" /\ Provenance(b) # "unrecorded" THEN b.pattern ELSE NoPattern]

\* The first process of a session registers it, and so does one that could
\* not read the trace when it resumed the session (resume_session_state; what
\* that returned first matters here).
Register(p) ==
  LET s == mem[p].sess IN
  /\ pc[p] = "emit"
  /\ \/ ~Registered(s) /\ UNCHANGED faults
     \/ Registered(s) /\ Fault("read")
  /\ trace' = [trace EXCEPT ![s] = Append(@, EventOf(p, "REG"))]
  /\ Goto(p, "event")
  /\ UNCHANGED <<config, snapshots, binding, lock, mem, warnings, invoked, edits>>

\* The hook's own event, after which the process exits.
EmitEvent(p) ==
  LET s == mem[p].sess IN
  /\ pc[p] \in {"emit", "event"}
  /\ pc[p] = "emit" => Registered(s)
  /\ trace' = [trace EXCEPT ![s] = Append(@, EventOf(p, "EVENT"))]
  /\ lock' = [lock EXCEPT ![Sink(p)] = NoProc]
  /\ mem' = [mem EXCEPT ![p] = Blank]
  /\ Goto(p, "idle")
  /\ UNCHANGED <<config, snapshots, binding, warnings, invoked, edits, faults>>

Crash(p) ==
  /\ pc[p] # "idle"
  /\ Fault("crash")
  /\ lock' = [k \in Sinks |-> IF lock[k] = p THEN NoProc ELSE lock[k]]
  /\ mem' = [mem EXCEPT ![p] = Blank]
  /\ Goto(p, "idle")
  /\ UNCHANGED <<config, snapshots, binding, trace, warnings, invoked, edits>>

-----------------------------------------------------------------------------
(***************************************************************************)
(* The operator and the disk                                               *)
(***************************************************************************)
Edit ==
  /\ edits < MaxEdits
  /\ edits' = edits + 1
  /\ \/ bindings' \in BindingLists \ {bindings} /\ UNCHANGED content
     \/ \E f \in Files, c \in Profiles \cup {Unloadable} :
          c # content[f] /\ content' = [content EXCEPT ![f] = c] /\ UNCHANGED bindings
  /\ UNCHANGED <<release, snapshots, binding, trace, lock, pc, mem, warnings, invoked, faults>>

Upgrade ==
  /\ release = "old"
  /\ Fault("upgrade")
  /\ release' = "new"
  /\ UNCHANGED <<bindings, content, snapshots, binding, trace, lock, pc, mem, warnings, invoked, edits>>

LoseSidecar(k) ==
  /\ Fault("lose")
  /\ \E s \in Sessions : SinkOf[s] = k /\ binding[s] # NoEntry
  /\ binding' = [s \in Sessions |-> IF SinkOf[s] = k THEN NoEntry ELSE binding[s]]
  /\ UNCHANGED <<config, snapshots, trace, lock, pc, mem, warnings, invoked, edits>>

Damage(c) ==
  /\ snapshots[c] = "intact"
  /\ Fault("damage")
  /\ \E now \in {"absent", "corrupt"} : snapshots' = [snapshots EXCEPT ![c] = now]
  /\ UNCHANGED <<config, binding, trace, lock, pc, mem, warnings, invoked, edits>>

Next ==
  \/ \E p \in Procs, s \in Sessions : Launch(p, s)
  \/ \E p \in Procs :
       \/ Acquire(p) \/ Rehydrate(p) \/ MatchBinding(p) \/ LoadBound(p) \/ LoadDefault(p)
       \/ CheckSnapshot(p) \/ WriteSnapshot(p) \/ VerifySnapshot(p) \/ RecordBinding(p)
       \/ Register(p) \/ EmitEvent(p) \/ Crash(p)
  \/ Edit \/ Upgrade
  \/ \E k \in Sinks : LoseSidecar(k)
  \/ \E c \in Profiles : Damage(c)

Spec == Init /\ [][Next]_vars

-----------------------------------------------------------------------------
(***************************************************************************)
(* Properties                                                              *)
(***************************************************************************)
\* The session's event i was governed by another profile than its registration.
Strays(s, i) == trace[s][i].profile # Registration(s).profile

(***************************************************************************)
(* However the configuration is edited and whichever processes are killed, *)
(* the events of a session stay under the profile it was registered with,  *)
(* unless the binding or its snapshot could not be kept                    *)
(* (_establish_or_rehydrate_binding).                                      *)
(***************************************************************************)
Sticky ==
  Spared(FaultKinds \ {"crash"}) =>
    \A s \in Sessions : \A i \in DOMAIN trace[s] : ~Strays(s, i)

\* The hook events of the session that stray.
StrayEvents(s) == {i \in DOMAIN trace[s] : trace[s][i].type = "EVENT" /\ Strays(s, i)}

(***************************************************************************)
(* With every fault allowed, it takes an edit or an upgrade for an event   *)
(* to come under another profile than its session's registration: losing   *)
(* artifacts is not enough.  And it is not silent (_recover_binding        *)
(* warns): until the session's first warning no more of its events strayed *)
(* than reads of the trace failed.                                         *)
(***************************************************************************)
NeverSilent ==
  \A s \in Sessions :
    /\ (\E i \in DOMAIN trace[s] : Strays(s, i)) => edits > 0 \/ release = "new"
    /\ warnings[s] = 0 => Cardinality(StrayEvents(s)) <= faults["read"]

(***************************************************************************)
(* A lost sidecar costs one warning: the re-resolved binding is not        *)
(* checked again by later processes, unless a kill came before it was      *)
(* recorded.                                                               *)
(***************************************************************************)
WarnedOnce ==
  Spared(FaultKinds \ {"crash", "lose"}) =>
    \A s \in Sessions : warnings[s] <= faults["lose"] + faults["crash"]

(***************************************************************************)
(* Whatever fails while it is written, a binding refers to a snapshot      *)
(* whose bytes hash to its name, until that file itself is harmed          *)
(* (ensure_profile_snapshot).                                              *)
(***************************************************************************)
BoundIsIntact ==
  Spared({"damage", "short"}) =>
    \A s \in Sessions :
      binding[s].profile # NoProfile => snapshots[binding[s].profile] = "intact"

(***************************************************************************)
(* StaysBound: whoever is killed, a session stays under one profile, whose *)
(* snapshot is there to be rebuilt from (_establish_or_rehydrate_binding,  *)
(* ensure_profile_snapshot), until the faults each part names.             *)
(***************************************************************************)
StaysBound == TypeOK /\ Sticky /\ BoundIsIntact

(***************************************************************************)
(* ChangesAreTold: when it cannot stay, the change is told, and told once  *)
(* (_recover_binding).                                                     *)
(***************************************************************************)
ChangesAreTold == NeverSilent /\ WarnedOnce

(***************************************************************************)
(* A binding that governs is not replaced by another, whatever processes   *)
(* of the same session run beside each other (sink_lock).                  *)
(***************************************************************************)
KeepsGoverning ==
  [][\A s \in Sessions :
       Spared({"damage", "short", "upgrade"}) /\ Governs(s, binding[s], release)
         => binding'[s] \in {binding[s], NoEntry}]_vars
=============================================================================
