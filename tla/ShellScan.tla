----------------------------- MODULE ShellScan ------------------------------
(***************************************************************************)
(* The two scanners of wrapper/shell_classification.py: the one that cuts  *)
(* the text of a Bash call into segments, and the one that reads a         *)
(* segment's words and redirections.  Both walk the same characters and    *)
(* keep quotes, backticks and nesting on their own, and they do not keep   *)
(* them alike.                                                             *)
(*                                                                         *)
(* A text is a sequence of tokens: an operator or a special character is   *)
(* one token, an escape is one token with what it escapes, and a run of    *)
(* ordinary characters is one token (a chunk).  Where the code looks a     *)
(* character ahead or behind, the token already says what it would find.   *)
(* "sq", "dq", "bq" and "nl" are the single and the double quote, the      *)
(* backtick and the newline; "esc x" is a backslash and x.                 *)
(***************************************************************************)
EXTENDS Naturals, Sequences, SequencesExt

Blanks  == {" ", "nl"}
Quotes  == {"sq", "dq"}
Escapes == {"esc dq", "esc ;", "esc nl"}

\* The four openers the code calls constructs; a parenthesis is a group when
\* it starts a word.
Substitutions == {"$(", "<(", ">("}
Openers       == Substitutions \cup {"("}

Separators == {"&&", "||", "|&", ";", "|", "nl", "&"}

OutputTruncate == {">", ">|", "&>", ">&"}
OutputAppend   == {">>", "&>>"}
HereOps        == {"<<", "<<-", "<<<"}
RedirOps       == OutputTruncate \cup OutputAppend \cup HereOps \cup {"<&", "<>", "<"}

\* The chunks of the model's texts that are all digits, and the ones that
\* read NAME= (_ASSIGN_RE).
Digits      == {"1", "2"}
Assignments == {"A="}

\* A quote that tracks no escapes closes on the quote character of one.
Closes(t, q) == t = q \/ (t = "esc dq" /\ q = "dq")

-----------------------------------------------------------------------------
(* Heredoc bodies are dropped before anything else, line by line; the      *)
(* quote state starts over on every line.                                  *)

\* The terminator a `<<` at position k announces, <<>> when the text after
\* it is no terminator, and where the walk goes on.  The pattern also matches
\* from the second character of `<<<`.
Terminator(text, k) ==
  LET at[i \in Nat] == IF i <= Len(text) /\ text[i] = " " THEN at[i + 1] ELSE i
      i == at[k + 1]
      Chunk(j) == j <= Len(text)
                  /\ text[j] \notin Blanks \cup Quotes \cup Escapes \cup Openers
                                     \cup Separators \cup RedirOps
                                     \cup {")", "{", "}", "bq"}
  IN  IF Chunk(i) THEN [term |-> <<text[i]>>, next |-> i + 1]
      ELSE IF i <= Len(text) /\ text[i] \in Quotes /\ Chunk(i + 1)
              /\ i + 2 <= Len(text) /\ text[i + 2] = text[i]
           THEN [term |-> <<text[i + 1]>>, next |-> i + 3]
           ELSE [term |-> <<>>, next |-> k + 1]

\* (Mutant of StripStep: the terminator is never recognised.)
StripStepForever(text, s, k) ==
  IF s.body THEN s
  ELSE [s EXCEPT !.out = Append(@, text[k]),
                 !.terms = IF text[k] \in HereOps THEN @ \o Terminator(text, k).term ELSE @,
                 !.body = text[k] = "nl" /\ s.terms # <<>>]

\* One token of the walk: copied, or dropped while a terminator is awaited.
StripStep(text, s, k) ==
  LET t == text[k]
      here == s.q = "" /\ t \in HereOps
      found == Terminator(text, k)
  IN  IF s.body
      THEN IF t \notin {"nl", "esc nl"} THEN [s EXCEPT !.line = Append(@, t)]
           ELSE LET left == IF s.line = <<Head(s.terms)>> THEN Tail(s.terms) ELSE s.terms
                IN  [s EXCEPT !.line = <<>>, !.terms = left, !.body = left # <<>>]
      ELSE [s EXCEPT
              !.out   = Append(@, t),
              !.terms = IF here /\ k >= s.from THEN @ \o found.term ELSE @,
              !.from  = IF here /\ k >= s.from THEN found.next ELSE @,
              !.body  = t \in {"nl", "esc nl"} /\ s.terms # <<>>,
              !.q     = IF t \in {"nl", "esc nl"} THEN ""
                        ELSE IF k < s.from THEN @
                        ELSE IF @ # "" THEN IF Closes(t, @) THEN "" ELSE @
                        ELSE IF t \in Quotes THEN t ELSE ""]

StripHeredocBodies(text) ==
  FoldLeft(LAMBDA s, k : StripStep(text, s, k),
           [out |-> <<>>, line |-> <<>>, terms |-> <<>>, from |-> 1, body |-> FALSE, q |-> ""],
           [k \in 1..Len(text) |-> k]).out

-----------------------------------------------------------------------------
(* split_segments                                                          *)

\* The last character decides whether a brace that follows starts a token.
EndsToken(t, depth) == t \in Blanks \cup Separators \cup {">&", "<&"} \/ (t = ">|" /\ depth > 0)

Splits(s, t) == s.depth = 0 /\ t \in Separators

SplitStep(s, t) ==
  LET kept == [s EXCEPT !.cur = Append(@, t)]
  IN
  IF s.q = "sq" THEN [kept EXCEPT !.q = IF t = "sq" THEN "" ELSE @]
  ELSE IF t = "esc nl" THEN [s EXCEPT !.cur = Append(@, " ")]
  ELSE IF t \in Escapes THEN [kept EXCEPT !.start = FALSE]
  ELSE IF s.q = "dq"
  THEN [kept EXCEPT !.q     = IF t = "dq" THEN "" ELSE @,
                    !.depth = IF t = "$(" THEN @ + 1 ELSE IF t = ")" /\ @ > 0 THEN @ - 1 ELSE @,
                    !.bt    = IF t = "bq" THEN ~@ ELSE @]
  ELSE IF t \in Quotes THEN [kept EXCEPT !.q = t, !.start = FALSE]
  ELSE IF t = "bq" THEN [kept EXCEPT !.bt = ~@]
  ELSE IF s.bt THEN kept
  ELSE IF t \in Openers \/ (t = "{" /\ s.start) THEN [kept EXCEPT !.depth = @ + 1]
  ELSE IF t \in {")", "}"} /\ s.depth > 0 THEN [kept EXCEPT !.depth = @ - 1]
  ELSE IF Splits(s, t)
  THEN [s EXCEPT !.segs = Append(@, s.cur), !.cur = <<>>, !.start = TRUE]
  ELSE [kept EXCEPT !.start = EndsToken(t, s.depth)]

Unsplit == [segs |-> <<>>, cur |-> <<>>, q |-> "", depth |-> 0, bt |-> FALSE, start |-> TRUE]

SplitSegments(text) ==
  LET s == FoldLeft(SplitStep, Unsplit, StripHeredocBodies(text))
  IN  SelectSeq(Append(s.segs, s.cur), LAMBDA g : \E i \in DOMAIN g : g[i] \notin Blanks)

-----------------------------------------------------------------------------
(* _scan_segment.  op = "" while a word is read, and the operator while    *)
(* its target is.                                                          *)

NoWord  == [value |-> <<>>, raw |-> <<>>, construct |-> FALSE, group |-> FALSE]
Unscanned == [words |-> <<>>, redirs |-> <<>>, heredoc |-> FALSE, w |-> NoWord, on |-> FALSE,
              q |-> "", depth |-> 0, bt |-> FALSE, inner |-> "", op |-> ""]

\* t joins the word, in its raw form and its value.
Put(s, t)  == [s EXCEPT !.w.raw = Append(@, t), !.w.value = Append(@, t), !.on = TRUE]
Opened(s, t) == [Put(s, t) EXCEPT !.w.construct = TRUE]

Flush(s) == [s EXCEPT !.words = IF s.on THEN Append(@, s.w) ELSE @, !.w = NoWord, !.on = FALSE]

\* The redirection is recorded; a heredoc's or a here-string's word is read
\* and thrown away.
EndTarget(s) ==
  [s EXCEPT !.redirs = Append(@, [op |-> s.op, target |-> IF s.op \in HereOps THEN NoWord ELSE s.w]),
            !.op = "", !.w = NoWord, !.on = FALSE]

\* Inside quotes or backticks, or an escape: the same for words and targets.
Quoted(s, t) ==
  IF s.q = "sq" THEN IF t = "sq" THEN [s EXCEPT !.q = "", !.w.raw = Append(@, t)] ELSE Put(s, t)
  ELSE IF t \in Escapes
  THEN [Put(s, t) EXCEPT !.w.value =
          Append(s.w.value, IF t = "esc dq" THEN "dq" ELSE IF s.q = "" THEN ";" ELSE t)]
  ELSE IF s.q = "dq"
  THEN IF t = "dq" THEN [s EXCEPT !.q = "", !.w.raw = Append(@, t)]
       ELSE [Put(s, t) EXCEPT
               !.w.construct = @ \/ t \in {"$(", "bq"},
               !.depth = IF t = "$(" THEN @ + 1 ELSE IF t = ")" /\ @ > 0 THEN @ - 1 ELSE @,
               !.bt    = IF t = "bq" THEN ~@ ELSE @]
  ELSE [Put(s, t) EXCEPT !.bt = t # "bq"]

\* Inside a nesting the main loop only counts; a quoted part is skipped
\* whole, to its closing quote or to the end.
Nested(s, t) ==
  IF s.inner # "" THEN [Put(s, t) EXCEPT !.inner = IF Closes(t, @) THEN "" ELSE @]
  ELSE [Put(s, t) EXCEPT
          !.depth = IF t \in Openers \cup {"{"} THEN @ + 1 ELSE IF t \in {")", "}"} THEN @ - 1 ELSE @,
          !.bt    = t = "bq",
          !.inner = IF t \in Quotes THEN t ELSE ""]

StartRedirection(s, t) ==
  LET fd == s.on /\ s.w.raw = s.w.value /\ Len(s.w.value) = 1 /\ s.w.value[1] \in Digits
      at == IF fd THEN [s EXCEPT !.w = NoWord, !.on = FALSE] ELSE Flush(s)
  IN  [at EXCEPT !.op = t, !.heredoc = @ \/ t \in {"<<", "<<-"}]

\* What both loops do with a token that opens something or is ordinary.
Start(s, t, blankNext) ==
  IF t \in Quotes THEN [s EXCEPT !.q = t, !.on = TRUE, !.w.raw = Append(@, t)]
  ELSE IF t = "bq" THEN [Opened(s, t) EXCEPT !.bt = TRUE]
  ELSE IF t \in Substitutions THEN [Opened(s, t) EXCEPT !.depth = @ + 1]
  ELSE IF t = "(" /\ (s.on \/ s.depth > 0) THEN [Opened(s, t) EXCEPT !.depth = @ + 1]
  ELSE IF t = "(" \/ (t = "{" /\ ~s.on /\ blankNext)
  THEN [Put(s, t) EXCEPT !.w.group = TRUE, !.depth = @ + 1]
  ELSE Put(s, t)

WordStep(s, t, blankNext) ==
  IF s.depth > 0 THEN Nested(s, t)
  ELSE IF t \in Blanks THEN Flush(s)
  ELSE IF t \in RedirOps THEN StartRedirection(s, t)
  ELSE Start(s, t, blankNext)

TargetStep(s, t, blankNext) ==
  IF s.depth = 0 /\ t \in Blanks THEN IF s.on THEN EndTarget(s) ELSE s
  ELSE IF s.depth = 0 /\ s.on /\ t \in RedirOps \cup Separators \cup {"<(", ">("}
  THEN WordStep(EndTarget(s), t, blankNext)
  ELSE IF t \in {")", "}"} /\ s.depth > 0 THEN [Put(s, t) EXCEPT !.depth = @ - 1]
  ELSE Start(s, t, blankNext)

ScanStep(seg, s, k) ==
  LET t == seg[k]
      blankNext == k = Len(seg) \/ seg[k + 1] \in Blanks
  IN  IF s.inner # "" THEN Nested(s, t)
      ELSE IF s.q # "" \/ t \in Escapes \/ s.bt THEN Quoted(s, t)
      ELSE IF s.op = "" THEN WordStep(s, t, blankNext) ELSE TargetStep(s, t, blankNext)

ScanSegment(seg) ==
  LET s == FoldLeft(LAMBDA a, k : ScanStep(seg, a, k), Unscanned, [k \in 1..Len(seg) |-> k])
  IN  IF s.op = "" THEN Flush(s) ELSE EndTarget(s)

\* (Mutant of HasConstruct: the targets are not looked at.)
HasConstructWords(scan) == \E i \in DOMAIN scan.words : scan.words[i].construct

HasConstruct(scan) ==
  (\E i \in DOMAIN scan.words : scan.words[i].construct)
  \/ \E i \in DOMAIN scan.redirs : scan.redirs[i].target.construct
=============================================================================
