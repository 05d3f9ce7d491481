------------------------------ MODULE HookConfig ------------------------------
(***************************************************************************)
(* What cli/hook_config.py decides from the two settings files of a        *)
(* project: which hook entries are Sentience's, which of those can run,    *)
(* where the local file lives, and what the local file should become.      *)
(*                                                                         *)
(* An entry is plain (matcher "", one hook, no other key) or not, and      *)
(* lists its commands.  A command is a value; the constants say what the   *)
(* code reads off its text.                                                *)
(***************************************************************************)
EXTENDS SequencesExt

CONSTANTS
  Events,    \* GOVERNED_EVENTS
  Commands,  \* command strings
  Named,     \* whose last path component is the hook's name
  Mentions,  \* that contain one of AMBIGUOUS_TOKENS
  Absolute   \* that are absolute paths after expanduser

ASSUME CommandAssumption == Named \subseteq Mentions /\ Mentions \union Absolute \subseteq Commands

CommandIsManaged(command) == command \in Named

InnerCommands(entry) == Range(entry.commands)

\* One of the three buckets an entry falls into.
Class(entry) ==
  IF entry.plain /\ CommandIsManaged(Head(entry.commands)) THEN "managed"
  ELSE IF InnerCommands(entry) \intersect Mentions # {} THEN "ambiguous"
  ELSE "foreign"

CanonicalEntry(command) == [plain |-> TRUE, commands |-> <<command>>]

Classified(doc, event, class) == {i \in DOMAIN doc.hooks[event] : Class(doc.hooks[event][i]) = class}

IsOurs(entry) == Class(entry) # "foreign"

HasEvidence(doc) == \E event \in Events : \E i \in DOMAIN doc.hooks[event] : IsOurs(doc.hooks[event][i])

\* disk says of each absolute command whether it is executable, a plain file or gone.
VerifyPath(disk, command) == disk[command] = "executable"

\* A relative command may resolve in the hook's shell: live, as it cannot be proved dead.
ManagedEntryLive(disk, command) == command \in Absolute => VerifyPath(disk, command)

\* The commands of the live managed entries of the shared file.
LiveCommands(disk, shared) ==
  {c \in Named : \E event \in Events : \E i \in Classified(shared, event, "managed") :
     Head(shared.hooks[event][i].commands) = c /\ ManagedEntryLive(disk, c)}

\* Mutant: one live equal entry masks a differing one.
SharedLiveConflictMasked(ambiguous, live, binary) == ambiguous \/ (live # {} /\ binary \notin live)

SharedLiveConflict(ambiguous, live, binary) == ambiguous \/ live \ {binary} # {}

EvidenceGate(evidence, mayCreate) == evidence \/ mayCreate

\* Mutant: what follows the first managed entry is lost.
ConvergeEntriesShort(entries, binary) ==
  LET managed == {i \in DOMAIN entries : Class(entries[i]) = "managed"}
      at == IF managed = {} THEN Len(entries) ELSE (CHOOSE i \in managed : \A j \in managed : i <= j) - 1
  IN SubSeq(entries, 1, at) \o <<CanonicalEntry(binary)>>

\* The n-th smallest of some positions, and what stands at them, in order.
Nth(positions, n) == CHOOSE i \in positions : Cardinality({j \in positions : j <= i}) = n
Taken(entries, positions) ==
  [n \in 1..Cardinality(positions) |-> entries[Nth(positions, n)]]

\* All managed entries go; one canonical entry comes where the first of them was,
\* or at the end.
ConvergeEntries(entries, binary) ==
  LET managed == {i \in DOMAIN entries : Class(entries[i]) = "managed"}
      at == IF managed = {} THEN Len(entries) + 1
            ELSE CHOOSE i \in managed : \A j \in managed : i <= j
      placed == [i \in DOMAIN entries \union {at} |->
                   IF i = at THEN CanonicalEntry(binary) ELSE entries[i]]
  IN Taken(placed, (DOMAIN entries \ managed) \union {at})

Outcome(name) == [outcome |-> name]

\* Mutant: the canonical entry is added beside a managed one.
ConvergedAgain(local, binary) ==
  [local EXCEPT !.hooks = [event \in Events |-> Append(local.hooks[event], CanonicalEntry(binary))]]

\* What converging leaves: foreign entries and the rest of the document as they were.
Converged(local, binary) ==
  [local EXCEPT !.hooks = [event \in Events |-> ConvergeEntries(local.hooks[event], binary)]]

PlanConvergence(disk, local, shared, binary, isSeam) ==
  LET live == LiveCommands(disk, shared)
      sharedAmbiguous == \E event \in Events : Classified(shared, event, "ambiguous") # {}
      next == Converged(local, binary)
  IN IF ~EvidenceGate(HasEvidence(local) \/ HasEvidence(shared), ~isSeam) THEN Outcome("noop")
     ELSE IF \E event \in Events : Classified(local, event, "ambiguous") # {}
     THEN Outcome("ambiguous_local")
     ELSE IF SharedLiveConflict(sharedAmbiguous, live, binary) THEN Outcome("shared_conflict")
     ELSE IF isSeam /\ live = {binary} /\ ~HasEvidence(local) THEN Outcome("noop")
     ELSE IF next = local THEN Outcome("noop")
     ELSE [outcome |-> "plan", doc |-> next]

\* converge before the planner: files that cannot be understood, and the binary
\* of the running install, "none" when it has none.
ConvergeDecision(disk, local, shared, binary, isSeam) ==
  LET Readable(file) == file.state \in {"ok", "absent"}
      evidence == \E file \in {local, shared} : Readable(file) /\ HasEvidence(file.doc)
      Unknown(file) == IF isSeam /\ ~evidence THEN Outcome("noop") ELSE Outcome(file.state)
  IN IF ~Readable(local) THEN Unknown(local)
     ELSE IF ~Readable(shared) THEN Unknown(shared)
     ELSE IF ~evidence /\ isSeam THEN Outcome("noop")
     ELSE IF binary = "none" THEN Outcome("no_binary")
     ELSE IF ~VerifyPath(disk, binary) THEN Outcome("binary_invalid")
     ELSE PlanConvergence(disk, local.doc, shared.doc, binary, isSeam)

\* Where Claude Code looks for settings.local.json from a directory of a
\* repository whose root is "root".
LocalSettingsPlace(repo, directory) ==
  IF repo.posix /\ repo.found /\ ~repo.isHome /\ repo.owned THEN "root" ELSE directory

\* The sibling of the running interpreter, else what the PATH finds.
ResolveBinary(disk, sibling, onPath) ==
  LET present == {c \in {sibling, onPath} : disk[c] # "gone"}
  IN IF sibling \in present THEN sibling ELSE IF onPath \in present THEN onPath ELSE "none"
=============================================================================
