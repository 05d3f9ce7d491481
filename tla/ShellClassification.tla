------------------------ MODULE ShellClassification -------------------------
(***************************************************************************)
(* What the hook says of a Bash call (wrapper/shell_classification.py):    *)
(* the text is cut into segments, each segment's words are read past       *)
(* assignments and transparent wrappers to an executable, the tables give  *)
(* its effects, redirections and unsupported constructs add theirs, and    *)
(* the effects of all segments decide `complete`, `destructive` and the    *)
(* target system.  The behaviour of this specification types a command     *)
(* piece by piece; every state is a command the classifier may be given.   *)
(***************************************************************************)
EXTENDS ShellTables, FiniteSets

\* The kinds of command typed: the tokens one starts with, the pieces it is
\* continued with, and the most pieces.
CONSTANT Topics

ASSUME TopicsAssumption == \A tp \in Topics : tp.max \in Nat /\ tp.pieces # {}

VARIABLES
  topic,     \* the kind of command
  text,      \* the command so far, a sequence of tokens
  typed,     \* the pieces typed after its start
  effects,   \* what the classifier says of it: the effects of its segments
  reading    \* how a shell reads it (the reference, below)

vars == <<topic, text, typed, effects, reading>>

-----------------------------------------------------------------------------
(* One segment                                                             *)

Assigns(w)   == w.raw # <<>> /\ Head(w.raw) \in Assignments /\ ~w.group
Wraps(w)     == Name(w) \in Wrappers /\ ~w.construct

\* (Mutant of Lead: one assignment or wrapper is read past, not a run of them.)
LeadOnce(words) ==
  IF words # <<>> /\ (Assigns(words[1]) \/ Wraps(words[1]))
  THEN [at |-> 2, opaque |-> Len(words) > 1 /\ Wraps(words[1]) /\ Dashed(words[2])]
  ELSE [at |-> 1, opaque |-> FALSE]

\* Where the executable is: past assignments and wrappers.  A wrapper with an
\* option is opaque, and a bare exec is an executable.
Lead(words) ==
  LET go[i \in Nat] ==
        IF i > Len(words) THEN [at |-> i, opaque |-> FALSE]
        ELSE IF Assigns(words[i]) THEN go[i + 1]
        ELSE IF ~Wraps(words[i]) \/ (Name(words[i]) = "exec" /\ i = Len(words))
             THEN [at |-> i, opaque |-> FALSE]
        ELSE IF i < Len(words) /\ Dashed(words[i + 1]) THEN [at |-> i, opaque |-> TRUE]
        ELSE go[i + 1]
  IN  go[1]

\* A path is known by its last part, except that only a bare name is neutral.
Executable(w) == IF w.construct \/ w.group THEN "unrecognised"
                 ELSE IF Name(w) = "/bin/rm" THEN "rm" ELSE Name(w)

RedirectionEffect(r) ==
  LET target == Name(r.target)
  IN  CASE r.op \in HereOps -> <<>>
        [] r.op \in {"<&", ">&"} /\ target \in Digits -> <<>>
        [] (r.op \in {"<&", ">&"} /\ target = "-") \/ r.op = "<>" \/ target = "" -> <<Unknown>>
        [] r.op \in OutputTruncate \cup OutputAppend /\ target = "/dev/null" -> <<>>
        [] r.op \in OutputTruncate -> <<Modify(Fs, "unset")>>
        [] r.op \in OutputAppend   -> <<Modify(Fs, "no")>>
        [] r.op = "<"              -> <<Read(Fs)>>
        [] OTHER                   -> <<Unknown>>

RedirectionEffects(redirs) == FlattenSeq([i \in DOMAIN redirs |-> RedirectionEffect(redirs[i])])

IsUnknown(es) == \E i \in DOMAIN es : es[i].domain = "unknown"

\* The effects of a segment; a neutral one, and one with nothing to say, has
\* none.
SegmentEffects(seg) ==
  LET scan  == ScanSegment(seg)
      words == scan.words
      red   == RedirectionEffects(scan.redirs)
      lead  == Lead(words)
      assigned == \E i \in 1..(lead.at - 1) : Assigns(words[i]) /\ words[i].construct
      construct == HasConstruct(scan)
      exe   == Executable(words[lead.at])
      tabled == TableEffects(exe, After(words, lead.at + 1), scan.heredoc)
      last(es) == IF construct /\ ~IsUnknown(es) THEN <<Unknown>> ELSE <<>>
  IN  CASE words # <<>> /\ words[1].group -> <<Unknown>> \o red
        [] (words = <<>> \/ ~words[1].group) /\ lead.opaque -> <<Unknown>> \o red
        [] (words = <<>> \/ ~words[1].group) /\ ~lead.opaque /\ lead.at > Len(words) ->
             IF assigned THEN <<Unknown>> \o red ELSE red
        [] OTHER -> IF Family(exe) = "neutral" THEN red \o (IF construct THEN <<Unknown>> ELSE <<>>)
                    ELSE tabled \o red \o last(tabled)

-----------------------------------------------------------------------------
(* The whole command                                                       *)

EffectsOf(command) == LET segs == SplitSegments(command)
                      IN  FlattenSeq([i \in DOMAIN segs |-> SegmentEffects(segs[i])])

Complete(es) == ~IsUnknown(es)

Destructive(es) ==
  LET answers == {es[i].destructive : i \in DOMAIN es}
  IN  IF "yes" \in answers THEN "yes"
      ELSE IF Complete(es) /\ answers \subseteq {"no"} THEN "no" ELSE "unset"

-----------------------------------------------------------------------------
(* The reference: how a shell reads the same tokens.  It keeps its own     *)
(* account of quotes and nesting, and knows what is in command position.   *)

Ordinary(t) == t \notin Blanks \cup Quotes \cup Escapes \cup Openers \cup Separators \cup RedirOps
                        \cup {")", "{", "}", "bq"}

Fresh == [q |-> "", depth |-> 0, bt |-> FALSE, cmd |-> TRUE, first |-> TRUE, op |-> "", terms |-> <<>>, body |-> FALSE,
          line |-> <<>>, odd |-> FALSE, construct |-> FALSE, deletes |-> FALSE, writes |-> FALSE,
          cuts |-> {}, named |-> FALSE, aimed |-> FALSE, bare |-> FALSE]

\* A line of a heredoc's body.
ReadBody(s, t, k) ==
  IF t # "nl" THEN [s EXCEPT !.line = Append(@, t)]
  ELSE LET left == IF s.line = <<Head(s.terms)>> THEN Tail(s.terms) ELSE s.terms
       IN  [s EXCEPT !.line = <<>>, !.terms = left, !.body = left # <<>>,
                     !.cuts = IF left = <<>> THEN @ \cup {k} ELSE @]

\* A word: the target of a redirection, or a command or one of its words.
ReadWord(s, t) ==
  CASE s.op \in {"<<", "<<-"} -> [s EXCEPT !.terms = Append(@, t), !.op = "", !.first = FALSE]
    [] s.op \notin {"", "<<", "<<-"} ->
         [s EXCEPT !.op = "", !.first = FALSE,
                   !.writes = @ \/ (s.op \in OutputTruncate \cup OutputAppend
                                    /\ t # "/dev/null" /\ ~(s.op = ">&" /\ t \in Digits \cup {"-"}))]
    [] OTHER -> [s EXCEPT !.deletes = @ \/ (s.cmd /\ t \in {"rm", "/bin/rm"}),
                          !.first = FALSE,
                          !.named = @ \/ (s.depth = 0 /\ t \notin Wrappers \cup Assignments),
                          !.cmd = @ /\ t \in Wrappers \cup Assignments]

\* The next command begins.  A simple command that has no words but aims a
\* redirection at a substitution is `bare`.
NextCommand(s) == [s EXCEPT !.cmd = TRUE, !.first = TRUE, !.op = "",
                            !.bare = @ \/ (s.aimed /\ ~s.named),
                            !.named = s.depth > 0 /\ @, !.aimed = s.depth > 0 /\ @]

\* Tokens a shell acts on: unquoted, or inside a substitution.
ReadLive(s, t, k) ==
  CASE t = "nl" /\ s.terms # <<>> -> [NextCommand(s) EXCEPT !.body = TRUE]
    [] t \in Separators /\ ~(t = "nl" /\ s.terms # <<>>) ->
         [NextCommand(s) EXCEPT
            !.cuts = IF s.depth = 0 /\ ~s.bt /\ s.terms = <<>> THEN @ \cup {k} ELSE @]
    [] t \in Substitutions \cup {"bq"} ->
         [s EXCEPT !.construct = TRUE, !.op = "", !.first = TRUE,
                   !.cmd = t # "bq" \/ ~s.bt,
                   !.depth = IF t = "bq" THEN @ ELSE @ + 1,
                   !.bt = IF t = "bq" THEN ~@ ELSE @,
                   !.named = @ \/ s.op = "", !.aimed = @ \/ s.op # "",
                   !.writes = @ \/ s.op \in OutputTruncate \cup OutputAppend,
                   !.odd = @ \/ (IF t = "bq" THEN s.depth > 0 ELSE s.bt)]
    [] t \in {"(", "{"} -> [s EXCEPT !.construct = TRUE, !.depth = @ + 1, !.named = TRUE, !.odd = @ \/ ~s.first]
    [] t \in {")", "}"} -> [s EXCEPT !.depth = IF @ > 0 THEN @ - 1 ELSE @, !.first = FALSE, !.cmd = FALSE,
                                    !.odd = @ \/ s.depth = 0]
    [] t \in RedirOps -> [s EXCEPT !.op = t, !.first = FALSE, !.odd = @ \/ s.op # ""]
    [] Ordinary(t) -> ReadWord(s, t)
    [] OTHER -> s

ReadToken(s, t, k) ==
  IF s.body THEN ReadBody(s, t, k)
  ELSE IF s.q = "sq" THEN IF t = "sq" THEN [s EXCEPT !.q = ""] ELSE [s EXCEPT !.odd = @ \/ t \in {"nl", "esc nl"}]
  ELSE IF s.q = "dq" /\ s.depth = 0 /\ ~s.bt
  THEN CASE t = "dq" -> [s EXCEPT !.q = ""]
         [] t \in {"$(", "bq"} -> ReadLive(s, t, k)
         [] OTHER -> [s EXCEPT !.odd = @ \/ t \in {"nl", "esc nl", "esc dq"}]
  ELSE IF t \in Quotes
  THEN [s EXCEPT !.q = t, !.odd = @ \/ s.depth > 0 \/ s.bt \/ s.op # "", !.cmd = FALSE, !.first = FALSE,
                 !.named = TRUE]
  ELSE ReadLive(s, t, k)

\* The reading of p, typed after the text.
ReadPiece(p) ==
  FoldLeft(LAMBDA s, k : ReadToken(s, p[k], Len(text) + k), reading, [k \in 1..Len(p) |-> k])

-----------------------------------------------------------------------------
(* A command is typed.  Two operators never touch, nor two chunks (they    *)
(* would be another operator or chunk), a word is not continued by an      *)
(* opener, and a redirection is not followed by another.                   *)

Touching(t) == t \in RedirOps \cup (Separators \ {"nl"}) \cup {"<(", ">(", "("}

Fits(p) ==
  LET before == SelectSeq(text, LAMBDA t : t # " ")
      after  == SelectSeq(p, LAMBDA t : t # " ")
  IN  text # <<>> => ~(Touching(Last(text)) /\ Touching(Head(p)))
                     /\ ~((Ordinary(Last(text)) \/ Last(text) = ")") /\ (Ordinary(Head(p)) \/ Head(p) \in Openers \cup {"bq"}))
                     /\ ~(before # <<>> /\ Last(before) \in RedirOps /\ after[1] \in RedirOps)

Init ==
  /\ topic \in Topics
  /\ text = topic.start
  /\ typed = 0
  /\ effects = EffectsOf(topic.start)
  /\ reading = FoldLeft(LAMBDA s, t : ReadToken(s, t, 1), Fresh, topic.start)

Type(p) ==
  /\ typed < topic.max
  /\ Fits(p)
  /\ text' = text \o p
  /\ typed' = typed + 1
  /\ effects' = EffectsOf(text \o p)
  /\ reading' = ReadPiece(p)
  /\ UNCHANGED topic

Next == \E p \in topic.pieces : Type(p)
Spec == Init /\ [][Next]_vars

-----------------------------------------------------------------------------
(* Properties                                                              *)

\* The reference reads the text as a shell would, and the text has neither of
\* the two forms the classifier misreads: a here-string (its word is thrown
\* away with the constructs in it, and the lines after it are dropped as if a
\* heredoc had begun), and a redirection that stands without a command and
\* aims at a substitution (808-817).
Understood == ~reading.odd /\ ~NextCommand(reading).bare /\ \A i \in DOMAIN text : text[i] # "<<<"

(* Every effect is one of the vocabulary's, and its answer is the one its  *)
(* action allows: nothing read or executed is called destructive, nothing  *)
(* deleted is called harmless, and unknown is unknown throughout.          *)
TypeOK ==
  /\ topic \in Topics /\ typed \in 0..topic.max
  /\ \A i \in DOMAIN effects :
       LET e == effects[i]
       IN  \/ e = Unknown
           \/ /\ e.domain \in {Fs, Vc, Net, Pk, Ci, "process"}
              /\ \/ e.action \in {"read", "create"} /\ e.destructive = "no"
                 \/ e.action = "delete" /\ e.destructive = "yes"
                 \/ e.action = "execute" /\ e.destructive = "unset"
                 \/ e.action = "modify" /\ e.destructive \in {"yes", "no", "unset"}

(* A command with a substitution, a subshell or a brace group in it, at any *)
(* depth, in quotes or in the target of a redirection, in front of or       *)
(* behind anything, is never complete: the two scanners together lose none  *)
(* (_classify, 753; docs/profile.md, "complete").                           *)
ConstructsAreUnknown == Understood /\ reading.construct => ~Complete(effects)

(* A command that runs rm in command position, behind any wrappers and      *)
(* assignments, in any segment or inside a construct, is never called       *)
(* harmless, and when it was recognised whole it is called destructive.     *)
DeletionsAreSeen ==
  Understood /\ reading.deletes =>
    Destructive(effects) # "no" /\ (Complete(effects) => Destructive(effects) = "yes")

(* A command that sends output to a file, from any segment and whether or   *)
(* not its executable is neutral, says it modifies files or that it was not *)
(* recognised (_redirection_effects, and its callers in _classify_segment). *)
WritesAreSeen ==
  Understood /\ reading.writes =>
    \E i \in DOMAIN effects : effects[i] = Unknown \/ (effects[i].domain = Fs /\ effects[i].action = "modify")

(* HarmIsSeen: what a command deletes or writes is never hidden by what     *)
(* stands around it.                                                        *)
HarmIsSeen == DeletionsAreSeen /\ WritesAreSeen

(* What is said of a segment does not depend on its neighbours: cut at a    *)
(* separator a shell would act on, the effects of the two halves, in order, *)
(* are the effects of the whole.                                            *)
SegmentsAreIndependent ==
  Understood => \A k \in reading.cuts :
    effects = EffectsOf(SubSeq(text, 1, k - 1)) \o EffectsOf(SubSeq(text, k + 1, Len(text)))

(* A wrapper, bare or behind an assignment, in front of a command that has  *)
(* words changes nothing that is said of it.                                *)
WrappersAreTransparent ==
  Understood /\ text # <<>> /\ typed > 0 =>
    EffectsOf(<<"sudo", " ", "A=", " ", "env", " ">> \o text) = effects

(* PartsAreIndependent: the parts of a command are classified each for      *)
(* itself, into the effects of the vocabulary.                              *)
PartsAreIndependent == TypeOK /\ SegmentsAreIndependent /\ WrappersAreTransparent

Rank(answer) == CASE answer = "no" -> 0 [] answer = "unset" -> 1 [] answer = "yes" -> 2

(* An option that forces, prunes or deletes never makes a command look less *)
(* destructive than it did without it.                                      *)
ForceIsNoSofter ==
  [][\A f \in {"--force", "-f", "-D", "--delete", "--hard", "--prune", "-i", "--in-place",
                "--discard-changes", "-destroy", "--destroy"} :
       text' = text \o <<" ", f>> => Rank(Destructive(effects')) >= Rank(Destructive(effects))]_vars
=============================================================================
