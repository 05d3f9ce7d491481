-------------------------- MODULE WorkstationProofs --------------------------
(***************************************************************************)
(* Theorems about Workstation, for any number of processes, windows,       *)
(* sessions and directories, any documents, installs and skills, any       *)
(* windows of freshness and any bounds.                                    *)
(*                                                                         *)
(* Sessions: SessionInv says of a request under way what its scan has seen *)
(* and may still see (Times), and that as long as it is certain both are   *)
(* fresh and later than the other session's (Serving); a session that a    *)
(* /clear began has no turns while it lasts (Turnless).                    *)
(*                                                                         *)
(* Configuration: ConfigInv says of a process that what it has decided it  *)
(* decided of what it read (Engaged), so that a step of it can be judged   *)
(* by the files alone.  That converging is idempotent and keeps what is    *)
(* foreign rests on positions: Nth counts those that are kept, and what is *)
(* taken of what was taken comes in the same order (NthThrough).           *)
(***************************************************************************)
EXTENDS Workstation, FiniteSetTheorems, WellFoundedInduction, TLAPS

-----------------------------------------------------------------------------
(***************************************************************************)
(* The least of some naturals, which positions and listings need.          *)
(***************************************************************************)
Less == {r \in Nat \X Nat : r[1] < r[2]}

LEMMA Least ==
  ASSUME NEW T \in SUBSET Nat, T # {}
  PROVE  \E i \in T : \A j \in T : i <= j
  <1>1. OpToRel(<, Nat) = Less
    BY DEF OpToRel, Less
  <1>2. IsWellFoundedOn(Less, Nat)
    BY <1>1, NatLessThanWellFounded
  <1>3. PICK i \in T : \A j \in T : <<j, i>> \notin Less
    BY <1>2, WFMin
  <1>4. ASSUME NEW j \in T PROVE i <= j
    <2>1. i \in Nat /\ j \in Nat
      OBVIOUS
    <2>2. ~(j < i)
      BY <1>3, <2>1 DEF Less
    <2> QED
      BY <2>1, <2>2
  <1> QED
    BY <1>4

-----------------------------------------------------------------------------
(***************************************************************************)
(* Sessions, windows and requests: their types.                            *)
(***************************************************************************)
MaybeSession == Sessions \union {"none"}
TraceValues == [there : BOOLEAN, start : Nat, mtime : Nat, turns : BOOLEAN, transient : BOOLEAN]
WindowValues == [in : MaybeSession, env : MaybeSession, worked : BOOLEAN, server : BOOLEAN]
Statuses == {"none", "resolved", "no_current_session", "not_yet_captured", "invalid_request",
             "declared", "not_written", "measured", "no_completed_session"}
Sources == {"none", "env_crosschecked", "fallback_mtime", "token_bearing"}
Answers == [status : Statuses, session : MaybeSession, source : Sources]
Notes == UNION {[seen -> Nat] : seen \in SUBSET Sessions}
RequestValues ==
  [pc : {"none", "scan", "emit", "done"}, kind : {"none", "status", "declare", "measured"},
   own : MaybeSession, certain : BOOLEAN, now : Nat, listed : SUBSET Sessions, seen : Notes,
   target : Answers, answer : Answers]

Clocked == \A s \in Sessions : traces[s].start <= traces[s].mtime /\ traces[s].mtime <= clock

SessionTypes ==
  /\ clock \in Nat
  /\ traces \in [Sessions -> TraceValues]
  /\ Clocked
  /\ windows \in [Windows -> WindowValues]
  /\ \A w \in Windows : windows[w].in = "none" => windows[w] = Closed
  /\ used \subseteq Sessions
  /\ requests \in [Windows -> RequestValues]

(***************************************************************************)
(* A window's sessions were opened, no two windows are in one session, and *)
(* a session that /clear began has no turns as long as it lasts.           *)
(***************************************************************************)
Opened ==
  \A w \in Windows : windows[w].in # "none" =>
    windows[w].in \in used /\ windows[w].env \in used \union {"none"}
Apart ==
  \A v, w \in Windows : windows[v].in = windows[w].in /\ windows[v].in # "none" => v = w
Turnless ==
  /\ \A s \in Sessions \ used : traces[s].turns = FALSE
  /\ \A w \in Windows : windows[w].in \notin {"none", windows[w].env} /\ windows[w].env # "none"
       => traces[windows[w].in].turns = FALSE

(***************************************************************************)
(* What a scan has seen and may still see of a session's last append.      *)
(***************************************************************************)
Times(r, s, tr) == {tr[s].mtime} \union {r.seen[u] : u \in DOMAIN r.seen \intersect {s}}

ReadsWell(r, env, tr) ==
  (r.pc = "scan" /\ r.kind = "declare" /\ r.certain = TRUE) =>
    /\ tr[r.own].there = TRUE
    /\ r.own \in r.listed \union DOMAIN r.seen
    /\ \A m \in Times(r, r.own, tr) : r.now - m <= WriteWindow
    /\ env \notin {"none", r.own} => \A a \in Times(r, r.own, tr), b \in Times(r, env, tr) : a > b

\* A request is of a session that its window is in, or was in before a /clear.
Asking(r, window, opened) ==
  r.pc \in {"scan", "emit"} =>
    /\ window.in # "none" /\ r.own \in opened /\ r.kind # "measured"
    /\ window.env \notin {"none", r.own} => window.in # window.env
    /\ r.pc = "emit" => r.kind = "declare" /\ r.target.session \in Sessions
    /\ r.pc = "emit" /\ r.certain = TRUE => r.target.session = r.own

WellAnswered(r) ==
  /\ (/\ r.pc = "done" /\ r.kind = "declare" /\ r.certain = TRUE
      /\ r.answer.status = "declared") => r.answer.session = r.own
  /\ (r.pc = "done" /\ r.kind = "measured" /\ r.certain = TRUE) => r.answer.session # r.own

Served(r, window, opened, tr) ==
  Asking(r, window, opened) /\ ReadsWell(r, window.env, tr) /\ WellAnswered(r)

Serving == \A w \in Windows : Served(requests[w], windows[w], used, traces)

\* The traces can be listed.
Listable == IsFiniteSet(Present(traces))

SessionInv == SessionTypes /\ Opened /\ Apart /\ Turnless /\ Serving /\ Listable

-----------------------------------------------------------------------------
(***************************************************************************)
(* What an append, a deletion and a /clear do to one request.              *)
(***************************************************************************)

\* r2 is r, unless it was overtaken.
Softened(r, r2) == r2 = r \/ r2 = [r EXCEPT !.certain = FALSE]

LEMMA SoftenedFields ==
  ASSUME NEW r \in RequestValues, NEW r2, Softened(r, r2)
  PROVE  /\ r2 \in RequestValues /\ (r2.certain = TRUE => r.certain = TRUE)
         /\ r.certain \in BOOLEAN /\ r2.certain \in BOOLEAN
         /\ r2.pc = r.pc /\ r2.kind = r.kind /\ r2.own = r.own /\ r2.now = r.now
         /\ r2.listed = r.listed /\ r2.seen = r.seen /\ r2.target = r.target
         /\ r2.answer = r.answer
  BY DEF Softened, RequestValues

LEMMA OvertakenSoftens ==
  ASSUME NEW pending \in [Windows -> RequestValues], NEW s, NEW others, NEW w \in Windows
  PROVE  LET r2 == Overtaken(pending, s, others)[w]
         IN /\ Softened(pending[w], r2)
            /\ (/\ pending[w].pc \in {"scan", "emit"} /\ w \in others
                /\ s \in {windows[w].env, pending[w].own}) => r2.certain = FALSE
  <1>1. pending[w] \in RequestValues
    OBVIOUS
  <1>2. Overtaken(pending, s, others)[w] =
          IF /\ pending[w].pc \in {"scan", "emit"} /\ w \in others
             /\ s \in {windows[w].env, pending[w].own}
          THEN [pending[w] EXCEPT !.certain = FALSE] ELSE pending[w]
    BY DEF Overtaken
  <1> QED
    BY <1>1, <1>2 DEF Softened, RequestValues

LEMMA OvertakenType ==
  ASSUME NEW pending \in [Windows -> RequestValues], NEW s, NEW others
  PROVE  Overtaken(pending, s, others) \in [Windows -> RequestValues]
  <1>1. ASSUME NEW w \in Windows PROVE Overtaken(pending, s, others)[w] \in RequestValues
    <2> DEFINE r2 == Overtaken(pending, s, others)[w]
    <2>1. Softened(pending[w], r2)
      BY OvertakenSoftens
    <2>2. pending[w] \in RequestValues
      OBVIOUS
    <2> HIDE DEF r2
    <2>3. r2 \in RequestValues
      BY <2>1, <2>2, SoftenedFields
    <2> QED
      BY <2>3 DEF r2
  <1>2. Overtaken(pending, s, others) = [w \in Windows |-> Overtaken(pending, s, others)[w]]
    BY DEF Overtaken
  <1> QED
    BY <1>1, <1>2

LEMMA TimesType ==
  ASSUME NEW r \in RequestValues, NEW tr \in [Sessions -> TraceValues], NEW s \in Sessions
  PROVE  Times(r, s, tr) \subseteq Nat
  <1>1. tr[s].mtime \in Nat
    BY DEF TraceValues
  <1>2. PICK seen \in SUBSET Sessions : r.seen \in [seen -> Nat]
    BY DEF RequestValues, Notes
  <1> QED
    BY <1>1, <1>2 DEF Times

LEMMA AppendServed ==
  ASSUME NEW tr \in [Sessions -> TraceValues], NEW tr2 \in [Sessions -> TraceValues],
         NEW r \in RequestValues, NEW r2, Softened(r, r2), NEW window \in WindowValues,
         NEW opened \in SUBSET Sessions, Served(r, window, opened, tr), NEW s \in Sessions,
         \A u \in Sessions \ {s} : tr2[u] = tr[u],
         tr2[s].there = TRUE, tr[s].mtime <= tr2[s].mtime,
         (/\ r.pc \in {"scan", "emit"} /\ window.in # s /\ s \in {window.env, r.own}) => r2.certain = FALSE
  PROVE  Served(r2, window, opened, tr2)
  <1>1. /\ r2 \in RequestValues /\ (r2.certain = TRUE => r.certain = TRUE)
        /\ r.certain \in BOOLEAN /\ r2.certain \in BOOLEAN
        /\ r2.pc = r.pc /\ r2.kind = r.kind /\ r2.own = r.own /\ r2.now = r.now
        /\ r2.listed = r.listed /\ r2.seen = r.seen /\ r2.target = r.target
        /\ r2.answer = r.answer
    BY SoftenedFields
  <1>2. Asking(r2, window, opened) /\ WellAnswered(r2)
    BY <1>1 DEF Served, Asking, WellAnswered
  <1>3. ASSUME r2.pc = "scan", r2.kind = "declare", r2.certain = TRUE
        PROVE  /\ tr2[r2.own].there = TRUE
               /\ r2.own \in r2.listed \union DOMAIN r2.seen
               /\ \A m \in Times(r2, r2.own, tr2) : r2.now - m <= WriteWindow
               /\ window.env \notin {"none", r2.own} =>
                    \A a \in Times(r2, r2.own, tr2), b \in Times(r2, window.env, tr2) : a > b
    <2>1. /\ tr[r.own].there = TRUE
          /\ r.own \in r.listed \union DOMAIN r.seen
          /\ \A m \in Times(r, r.own, tr) : r.now - m <= WriteWindow
          /\ window.env \notin {"none", r.own} =>
               \A a \in Times(r, r.own, tr), b \in Times(r, window.env, tr) : a > b
      BY <1>1, <1>3 DEF Served, ReadsWell
    <2>2. r.own \in Sessions /\ r.now \in Nat /\ window.env \in MaybeSession
      BY <1>1, <1>3 DEF Served, Asking, RequestValues, WindowValues
    <2>3. window.env \notin {"none", r.own} => s # window.env /\ window.env \in Sessions
      BY <1>1, <1>3, <2>2 DEF Served, Asking, MaybeSession
    <2>4. tr2[r.own].there = TRUE
      BY <2>1, <2>2
    <2>5. WriteWindow \in Nat
      BY LookupAssumption
    <2>6. ASSUME NEW m \in Times(r, r.own, tr2)
          PROVE  \E n \in Times(r, r.own, tr) : n <= m /\ n \in Nat /\ m \in Nat
      <3>1. m \in Nat
        BY <2>2, TimesType
      <3>2. CASE m = tr2[r.own].mtime
        <4>1. tr[r.own].mtime \in Times(r, r.own, tr) /\ tr[r.own].mtime \in Nat
          BY <2>2 DEF Times, TraceValues
        <4>2. tr[r.own].mtime <= m
          BY <2>2, <3>2, <4>1, <3>1
        <4> QED
          BY <4>1, <4>2, <3>1
      <3>3. CASE m \in {r.seen[u] : u \in DOMAIN r.seen \intersect {r.own}}
        <4>1. m \in Times(r, r.own, tr)
          BY <3>3 DEF Times
        <4> QED
          BY <4>1, <3>1
      <3> QED
        BY <3>2, <3>3 DEF Times
    <2>7. ASSUME NEW m \in Times(r, r.own, tr2) PROVE r.now - m <= WriteWindow
      <3>1. PICK n \in Times(r, r.own, tr) : n <= m /\ n \in Nat /\ m \in Nat
        BY <2>6
      <3>2. r.now - n <= WriteWindow
        BY <2>1
      <3> QED
        BY <3>1, <3>2, <2>2, <2>5
    <2>8. ASSUME window.env \notin {"none", r.own},
                 NEW a \in Times(r, r.own, tr2), NEW b \in Times(r, window.env, tr2)
          PROVE  a > b
      <3>1. PICK n \in Times(r, r.own, tr) : n <= a /\ n \in Nat /\ a \in Nat
        BY <2>6
      <3>2. b \in Times(r, window.env, tr)
        BY <2>3, <2>8 DEF Times
      <3>3. n > b
        BY <2>1, <2>8, <3>2
      <3>4. b \in Nat
        BY <2>3, <2>8, TimesType
      <3> QED
        BY <3>1, <3>3, <3>4
    <2>9. /\ Times(r2, r2.own, tr2) = Times(r, r.own, tr2)
          /\ Times(r2, window.env, tr2) = Times(r, window.env, tr2)
      BY <1>1 DEF Times
    <2> QED
      BY <1>1, <2>1, <2>4, <2>7, <2>8, <2>9
  <1> QED
    BY <1>2, <1>3 DEF Served, ReadsWell

LEMMA DeleteServed ==
  ASSUME NEW tr \in [Sessions -> TraceValues], NEW tr2 \in [Sessions -> TraceValues],
         NEW r \in RequestValues, NEW r2, Softened(r, r2), NEW window \in WindowValues,
         NEW opened \in SUBSET Sessions, Served(r, window, opened, tr), NEW s \in Sessions,
         \A u \in Sessions \ {s} : tr2[u] = tr[u],
         (/\ r.pc \in {"scan", "emit"} /\ s \in {window.env, r.own}) => r2.certain = FALSE
  PROVE  Served(r2, window, opened, tr2)
  <1>1. /\ r2 \in RequestValues /\ (r2.certain = TRUE => r.certain = TRUE)
        /\ r.certain \in BOOLEAN /\ r2.certain \in BOOLEAN
        /\ r2.pc = r.pc /\ r2.kind = r.kind /\ r2.own = r.own /\ r2.now = r.now
        /\ r2.listed = r.listed /\ r2.seen = r.seen /\ r2.target = r.target
        /\ r2.answer = r.answer
    BY SoftenedFields
  <1>2. Asking(r2, window, opened) /\ WellAnswered(r2)
    BY <1>1 DEF Served, Asking, WellAnswered
  <1>3. ASSUME r2.pc = "scan", r2.kind = "declare", r2.certain = TRUE
        PROVE  ReadsWell(r2, window.env, tr2)
    <2>1. r.own \in Sessions /\ window.env \in MaybeSession
      BY <1>1, <1>3 DEF Served, Asking, RequestValues, WindowValues
    <2>2. s # r.own /\ s # window.env
      BY <1>1, <1>3
    <2>3. /\ tr2[r.own] = tr[r.own]
          /\ window.env # "none" => tr2[window.env] = tr[window.env]
      BY <2>1, <2>2 DEF MaybeSession
    <2>4. /\ Times(r2, r2.own, tr2) = Times(r, r.own, tr)
          /\ window.env # "none" => Times(r2, window.env, tr2) = Times(r, window.env, tr)
      BY <1>1, <2>3 DEF Times
    <2>5. /\ tr[r.own].there = TRUE
          /\ r.own \in r.listed \union DOMAIN r.seen
          /\ \A m \in Times(r, r.own, tr) : r.now - m <= WriteWindow
          /\ window.env \notin {"none", r.own} =>
               \A a \in Times(r, r.own, tr), b \in Times(r, window.env, tr) : a > b
      BY <1>1, <1>3 DEF Served, ReadsWell
    <2> QED
      BY <1>1, <2>3, <2>4, <2>5 DEF ReadsWell
  <1>4. ReadsWell(r2, window.env, tr2)
    BY <1>3 DEF ReadsWell
  <1> QED
    BY <1>2, <1>4 DEF Served

LEMMA ClearServed ==
  ASSUME NEW r \in RequestValues, NEW window \in WindowValues, NEW window2 \in WindowValues,
         NEW opened \in SUBSET Sessions, NEW tr, Served(r, window, opened, tr),
         NEW s \in Sessions \ opened, window.env \in opened \union {"none"},
         window2.in = s, window2.env = window.env
  PROVE  Served(r, window2, opened \union {s}, tr)
  <1>1. s # window.env /\ s # "none"
    BY MachineAssumption
  <1>2. Asking(r, window2, opened \union {s})
    BY <1>1 DEF Served, Asking
  <1> QED
    BY <1>2 DEF Served

LEMMA IdleServed ==
  ASSUME NEW r \in RequestValues, NEW window, NEW window2, NEW opened, NEW opened2, NEW tr,
         Served(r, window, opened, tr), r.pc \notin {"scan", "emit"}
  PROVE  \A tr2 : Served(r, window2, opened2, tr2)
  BY DEF Served, Asking, ReadsWell

-----------------------------------------------------------------------------
(***************************************************************************)
(* What the hooks of a session do to the traces and the requests.          *)
(***************************************************************************)
SameWindow(window, window2) == window2.in = window.in /\ window2.env = window.env

LEMMA SameWindowServed ==
  ASSUME NEW r, NEW window, NEW window2, NEW opened, NEW opened2, opened \subseteq opened2, NEW tr,
         Served(r, window, opened, tr), SameWindow(window, window2)
  PROVE  Served(r, window2, opened2, tr)
  BY DEF Served, SameWindow, Asking

\* Only the trace of s has changed, by an append if at all.
Grown(s) ==
  /\ traces' \in [Sessions -> TraceValues]
  /\ \A u \in Sessions \ {s} : traces'[u] = traces[u]
  /\ \A u \in Sessions : traces'[u].start <= traces'[u].mtime /\ traces'[u].mtime <= clock

LEMMA GrownListable ==
  ASSUME SessionTypes, Listable, NEW s \in Sessions, Grown(s)
  PROVE  Listable'
  <1>1. Present(traces') \in SUBSET (Present(traces) \union {s})
    BY DEF Present, Grown
  <1>2. IsFiniteSet(Present(traces) \union {s})
    BY FS_AddElement DEF Listable
  <1>3. IsFiniteSet(Present(traces'))
    BY <1>1, <1>2, FS_Subset
  <1> QED
    BY <1>3 DEF Listable

LEMMA TouchGrows ==
  ASSUME SessionTypes, NEW s \in Sessions, NEW trace \in TraceValues,
         traces[s].there = TRUE => trace.start = traces[s].start, Touch(s, trace)
  PROVE  /\ Grown(s) /\ traces'[s].there = TRUE
         /\ traces[s].mtime <= traces'[s].mtime /\ traces'[s].turns = trace.turns
  <1>1. /\ traces \in [Sessions -> TraceValues] /\ clock \in Nat
        /\ \A u \in Sessions : traces[u].start <= traces[u].mtime /\ traces[u].mtime <= clock
    BY DEF SessionTypes, Clocked
  <1> DEFINE t == [trace EXCEPT !.there = TRUE, !.mtime = clock,
                                !.start = IF traces[s].there THEN @ ELSE clock]
  <1>2. traces' = [traces EXCEPT ![s] = t]
    BY DEF Touch
  <1>3. traces[s] \in TraceValues /\ traces[s].there \in BOOLEAN
    BY <1>1 DEF TraceValues
  <1>4. /\ t \in TraceValues /\ t.there = TRUE /\ t.mtime = clock /\ t.turns = trace.turns
        /\ t.start <= clock
    <2>1. CASE traces[s].there = TRUE
      <3>1. t = [trace EXCEPT !.there = TRUE, !.mtime = clock]
        BY <2>1 DEF TraceValues
      <3>2. trace.start = traces[s].start /\ traces[s].start \in Nat /\ traces[s].mtime \in Nat
        BY <2>1, <1>3 DEF TraceValues
      <3>3. trace.start <= clock
        BY <3>2, <1>1
      <3> HIDE DEF t
      <3> QED
        BY <3>1, <3>3, <1>1 DEF TraceValues
    <2>2. CASE traces[s].there = FALSE
      <3>1. t = [trace EXCEPT !.there = TRUE, !.mtime = clock, !.start = clock]
        BY <2>2 DEF TraceValues
      <3> HIDE DEF t
      <3>2. clock <= clock /\ clock \in Nat
        BY <1>1
      <3>3. t.start = clock /\ t \in TraceValues
        BY <3>1, <3>2 DEF TraceValues
      <3> QED
        BY <3>1, <3>2, <3>3 DEF TraceValues
    <2> QED
      BY <2>1, <2>2, <1>3
  <1> HIDE DEF t
  <1>5. traces' \in [Sessions -> TraceValues]
    BY <1>1, <1>2, <1>4
  <1>6. /\ \A u \in Sessions \ {s} : traces'[u] = traces[u]
        /\ traces'[s] = t
    BY <1>1, <1>2
  <1>7. traces[s].mtime <= clock
    BY <1>1
  <1>8. ASSUME NEW u \in Sessions
        PROVE  traces'[u].start <= traces'[u].mtime /\ traces'[u].mtime <= clock
    <2>1. CASE u = s
      BY <2>1, <1>1, <1>4, <1>6
    <2>2. CASE u # s
      BY <2>2, <1>1, <1>6
    <2> QED
      BY <2>1, <2>2
  <1> QED
    BY <1>4, <1>5, <1>6, <1>7, <1>8 DEF Grown

\* The requests are served as before over the traces as they are now.
ServedAfter(pending) ==
  /\ requests' \in [Windows -> RequestValues]
  /\ \A w \in Windows : /\ Served(requests'[w], windows[w], used, traces')
                        /\ requests'[w].pc = pending[w].pc

LEMMA AppendStep ==
  ASSUME SessionTypes, NEW pending \in [Windows -> RequestValues], NEW s \in Sessions,
         \A w \in Windows : Served(pending[w], windows[w], used, traces),
         Grown(s), traces'[s].there = TRUE, traces[s].mtime <= traces'[s].mtime,
         requests' = Overtaken(pending, s, NotIn(s))
  PROVE  ServedAfter(pending)
  <1>1. requests' \in [Windows -> RequestValues]
    BY OvertakenType
  <1>2. ASSUME NEW w \in Windows
        PROVE  /\ Served(requests'[w], windows[w], used, traces')
               /\ requests'[w].pc = pending[w].pc
    <2> DEFINE r2 == Overtaken(pending, s, NotIn(s))[w]
    <2>1. /\ Softened(pending[w], r2)
          /\ (/\ pending[w].pc \in {"scan", "emit"} /\ w \in NotIn(s)
              /\ s \in {windows[w].env, pending[w].own}) => r2.certain = FALSE
      BY OvertakenSoftens
    <2> HIDE DEF r2
    <2>2. (/\ pending[w].pc \in {"scan", "emit"} /\ windows[w].in # s
           /\ s \in {windows[w].env, pending[w].own}) => r2.certain = FALSE
      BY <2>1 DEF NotIn
    <2>3. /\ traces \in [Sessions -> TraceValues] /\ traces' \in [Sessions -> TraceValues]
          /\ \A u \in Sessions \ {s} : traces'[u] = traces[u]
          /\ windows[w] \in WindowValues /\ used \in SUBSET Sessions /\ pending[w] \in RequestValues
      BY DEF SessionTypes, Grown
    <2>4. Served(pending[w], windows[w], used, traces)
      OBVIOUS
    <2>5. Served(r2, windows[w], used, traces')
      BY <2>1, <2>2, <2>3, <2>4, AppendServed
    <2>6. r2.pc = pending[w].pc
      <3>1. pending[w] \in RequestValues /\ Softened(pending[w], r2)
        BY <2>1
      <3> QED
        BY <3>1, SoftenedFields
    <2>7. requests'[w] = r2
      BY DEF r2
    <2> QED
      BY <2>5, <2>6, <2>7
  <1> QED
    BY <1>1, <1>2 DEF ServedAfter

-----------------------------------------------------------------------------
(***************************************************************************)
(* The steps of windows, users and time keep SessionInv.                   *)
(***************************************************************************)
LEMMA SameWindowsKeep ==
  ASSUME SessionInv, NEW s \in Sessions, Grown(s), NEW pending, ServedAfter(pending),
         traces'[s].turns = TRUE => traces[s].turns = TRUE,
         windows' \in [Windows -> WindowValues],
         \A w \in Windows : SameWindow(windows[w], windows'[w]),
         \A w \in Windows : windows'[w].in = "none" => windows'[w] = Closed,
         used' = used, clock' = clock
  PROVE  SessionInv'
  <1>1. SessionTypes'
    BY DEF SessionInv, SessionTypes, Clocked, Grown, ServedAfter
  <1>2. Opened' /\ Apart'
    BY DEF SessionInv, Opened, Apart, SameWindow
  <1>3. ASSUME NEW u \in Sessions, traces[u].turns = FALSE PROVE traces'[u].turns = FALSE
    <2>1. traces'[u].turns \in BOOLEAN
      BY DEF Grown, TraceValues
    <2>2. CASE u = s
      BY <1>3, <2>1, <2>2
    <2>3. CASE u # s
      BY <1>3, <2>3 DEF Grown
    <2> QED
      BY <2>2, <2>3
  <1>4. Turnless'
    <2>1. \A u \in Sessions \ used' : traces'[u].turns = FALSE
      BY <1>3 DEF SessionInv, Turnless
    <2>2. ASSUME NEW w \in Windows, windows'[w].in \notin {"none", windows'[w].env},
                 windows'[w].env # "none"
          PROVE  traces'[windows'[w].in].turns = FALSE
      <3>1. windows'[w].in = windows[w].in /\ windows'[w].env = windows[w].env
        BY DEF SameWindow
      <3>2. traces[windows[w].in].turns = FALSE
        BY <2>2, <3>1 DEF SessionInv, Turnless
      <3>3. windows[w].in \in Sessions
        BY <2>2, <3>1 DEF SessionInv, SessionTypes, WindowValues, MaybeSession
      <3> QED
        BY <3>1, <3>2, <3>3, <1>3
    <2> QED
      BY <2>1, <2>2 DEF Turnless
  <1>5. Serving'
    <2>1. ASSUME NEW w \in Windows PROVE Served(requests'[w], windows'[w], used', traces')
      <3>1. Served(requests'[w], windows[w], used, traces') /\ SameWindow(windows[w], windows'[w])
        BY DEF ServedAfter
      <3>2. used \subseteq used'
        OBVIOUS
      <3> QED
        BY <3>1, <3>2, SameWindowServed
    <2> QED
      BY <2>1 DEF Serving
  <1> QED
    BY <1>1, <1>2, <1>4, <1>5, GrownListable DEF SessionInv

LEMMA NothingGrows ==
  ASSUME SessionInv, NEW s \in Sessions, traces' = traces
  PROVE  Grown(s)
  BY DEF SessionInv, SessionTypes, Clocked, Grown

LEMMA NothingServed ==
  ASSUME SessionInv, traces' = traces, requests' = requests
  PROVE  ServedAfter(requests)
  BY DEF SessionInv, SessionTypes, Serving, ServedAfter

LEMMA WindowOpen ==
  ASSUME SessionInv, NEW w \in Windows, windows[w].in # "none"
  PROVE  /\ windows[w].in \in Sessions /\ windows[w].in \in used
         /\ windows[w].env \in used \union {"none"} /\ windows[w] \in WindowValues
  BY DEF SessionInv, SessionTypes, Opened, WindowValues, MaybeSession

LEMMA WorkStep ==
  ASSUME SessionInv, NEW w \in Windows, Work(w)
  PROVE  SessionInv'
  <1> DEFINE s == windows[w].in
  <1>1. /\ s # "none" /\ used' = used /\ clock' = clock
        /\ windows' = [windows EXCEPT ![w].worked = TRUE]
    BY DEF Work
  <1>2. /\ SessionTypes /\ traces \in [Sessions -> TraceValues] /\ windows \in [Windows -> WindowValues]
        /\ requests \in [Windows -> RequestValues]
        /\ \A v \in Windows : Served(requests[v], windows[v], used, traces)
    BY DEF SessionInv, SessionTypes, Serving
  <1>3. s \in Sessions
    BY <1>1, WindowOpen
  <1>4. /\ windows' \in [Windows -> WindowValues]
        /\ \A v \in Windows : SameWindow(windows[v], windows'[v])
        /\ \A v \in Windows : windows'[v].in = "none" => windows'[v] = Closed
    <2>1. \A v \in Windows : windows[v] \in WindowValues
      BY <1>2
    <2>2. windows' \in [Windows -> WindowValues]
      BY <1>1, <1>2, <2>1 DEF WindowValues
    <2>3. \A v \in Windows : SameWindow(windows[v], windows'[v])
      BY <1>1, <1>2, <2>1 DEF WindowValues, SameWindow
    <2>4. \A v \in Windows : windows'[v].in = "none" => windows'[v] = Closed
      <3>1. ASSUME NEW v \in Windows, windows'[v].in = "none" PROVE windows'[v] = Closed
        <4>1. windows[v].in = "none"
          BY <2>3, <3>1 DEF SameWindow
        <4>2. v # w
          BY <1>1, <4>1
        <4>3. windows'[v] = windows[v]
          BY <1>1, <1>2, <4>2
        <4> QED
          BY <4>1, <4>3, <1>2 DEF SessionTypes
      <3> QED
        BY <3>1
    <2> QED
      BY <2>2, <2>3, <2>4
  <1>5. Grown(s) /\ ServedAfter(requests) /\ (traces'[s].turns = TRUE => traces[s].turns = TRUE)
    <2>1. CASE UNCHANGED <<traces, requests>>
      BY <2>1, <1>3, NothingGrows, NothingServed
    <2>2. ASSUME NEW trace \in TraceValues, traces[s].there = TRUE => trace.start = traces[s].start,
                 trace.turns = TRUE => traces[s].turns = TRUE,
                 Touch(s, trace), requests' = Overtaken(requests, s, NotIn(s))
          PROVE  Grown(s) /\ ServedAfter(requests) /\ (traces'[s].turns = TRUE => traces[s].turns = TRUE)
      <3>1. /\ Grown(s) /\ traces'[s].there = TRUE
            /\ traces[s].mtime <= traces'[s].mtime /\ traces'[s].turns = trace.turns
        BY <1>2, <1>3, <2>2, TouchGrows
      <3>2. ServedAfter(requests)
        BY <1>2, <1>3, <2>2, <3>1, AppendStep
      <3> QED
        BY <2>2, <3>1, <3>2
    <2>3. CASE ~UNCHANGED <<traces, requests>>
      <3>1. requests' = Overtaken(requests, s, NotIn(s))
        BY <2>3 DEF Work
      <3>2. CASE Touch(s, [traces[s] EXCEPT !.transient = FALSE])
        <4> DEFINE trace == [traces[s] EXCEPT !.transient = FALSE]
        <4>1. trace \in TraceValues /\ trace.start = traces[s].start /\ trace.turns = traces[s].turns
          BY <1>2, <1>3 DEF TraceValues
        <4>2. Touch(s, trace)
          BY <3>2
        <4> HIDE DEF trace
        <4> QED
          BY <2>2, <3>1, <4>1, <4>2
      <3>3. CASE ~traces[s].there /\ Touch(s, [NoTrace EXCEPT !.transient = TRUE])
        <4> DEFINE trace == [NoTrace EXCEPT !.transient = TRUE]
        <4>1. trace \in TraceValues /\ trace.turns = FALSE
          BY DEF TraceValues, NoTrace
        <4>2. Touch(s, trace) /\ traces[s].there # TRUE
          BY <3>3
        <4> HIDE DEF trace
        <4> QED
          BY <2>2, <3>1, <4>1, <4>2
      <3> QED
        BY <2>3, <3>2, <3>3 DEF Work
    <2> QED
      BY <2>1, <2>3
  <1> QED
    BY <1>1, <1>3, <1>4, <1>5, SameWindowsKeep

LEMMA EndGrows ==
  ASSUME SessionInv, NEW w \in Windows, windows[w].in # "none", EndSession(w)
  PROVE  Grown(windows[w].in) /\ ServedAfter(requests)
  <1> DEFINE s == windows[w].in
  <1>1. s \in Sessions
    BY WindowOpen
  <1>2. /\ SessionTypes /\ traces \in [Sessions -> TraceValues]
        /\ requests \in [Windows -> RequestValues]
        /\ \A v \in Windows : Served(requests[v], windows[v], used, traces)
    BY DEF SessionInv, SessionTypes, Serving
  <1>3. CASE UNCHANGED <<traces, requests>>
    BY <1>1, <1>3, NothingGrows, NothingServed
  <1>4. CASE ~UNCHANGED <<traces, requests>>
    <2> DEFINE trace == [traces[s] EXCEPT !.turns = TRUE, !.transient = FALSE]
    <2>1. Touch(s, trace) /\ requests' = Overtaken(requests, s, NotIn(s))
      BY <1>4 DEF EndSession
    <2>2. trace \in TraceValues /\ trace.start = traces[s].start
      BY <1>1, <1>2 DEF TraceValues
    <2> HIDE DEF trace
    <2>3. Grown(s) /\ traces'[s].there = TRUE /\ traces[s].mtime <= traces'[s].mtime
      BY <1>1, <1>2, <2>1, <2>2, TouchGrows
    <2>4. ServedAfter(requests)
      BY <1>1, <1>2, <2>1, <2>3, AppendStep
    <2> QED
      BY <2>3, <2>4
  <1> QED
    BY <1>3, <1>4

LEMMA ClearStep ==
  ASSUME SessionInv, NEW w \in Windows, NEW s \in Sessions, Clear(w, s)
  PROVE  SessionInv'
  <1> DEFINE old == windows[w].in
  <1>1. /\ old # "none" /\ s \notin used /\ EndSession(w)
        /\ windows' = [windows EXCEPT ![w].in = s, ![w].worked = FALSE]
        /\ used' = used \union {s} /\ clock' = clock
    BY DEF Clear
  <1>2. Grown(old) /\ ServedAfter(requests)
    BY <1>1, EndGrows
  <1>3. /\ old \in Sessions /\ old \in used /\ windows[w].env \in used \union {"none"}
        /\ windows[w] \in WindowValues /\ s # "none"
    BY <1>1, WindowOpen, MachineAssumption
  <1>4. /\ windows \in [Windows -> WindowValues] /\ used \subseteq Sessions
        /\ \A v \in Windows : windows[v].in = "none" => windows[v] = Closed
    BY DEF SessionInv, SessionTypes
  <1>5. /\ windows'[w] = [windows[w] EXCEPT !.in = s, !.worked = FALSE]
        /\ \A v \in Windows \ {w} : windows'[v] = windows[v]
    BY <1>1, <1>4
  <1>6. windows'[w] \in WindowValues /\ windows'[w].in = s /\ windows'[w].env = windows[w].env
    BY <1>3, <1>5 DEF WindowValues, MaybeSession
  <1>7. SessionTypes'
    <2>1. windows' \in [Windows -> WindowValues]
      BY <1>1, <1>4, <1>5, <1>6
    <2>2. \A v \in Windows : windows'[v].in = "none" => windows'[v] = Closed
      BY <1>3, <1>4, <1>5, <1>6
    <2>3. used' \subseteq Sessions
      BY <1>1, <1>4
    <2>4. clock' \in Nat
      BY <1>1 DEF SessionInv, SessionTypes
    <2> QED
      BY <1>1, <1>2, <2>1, <2>2, <2>3, <2>4 DEF SessionTypes, Clocked, Grown, ServedAfter
  <1>8. Opened'
    <2>1. \A v \in Windows : windows[v].in # "none" =>
            windows[v].in \in used /\ windows[v].env \in used \union {"none"}
      BY DEF SessionInv, Opened
    <2>2. ASSUME NEW v \in Windows, windows'[v].in # "none"
          PROVE  windows'[v].in \in used' /\ windows'[v].env \in used' \union {"none"}
      <3>1. CASE v = w
        BY <3>1, <1>1, <1>3, <1>6
      <3>2. CASE v # w
        <4>1. windows'[v] = windows[v] /\ used \subseteq used'
          BY <3>2, <1>1, <1>5
        <4>2. windows[v].in \in used /\ windows[v].env \in used \union {"none"}
          BY <4>1, <2>1, <2>2
        <4> QED
          BY <4>1, <4>2
      <3> QED
        BY <3>1, <3>2
    <2> QED
      BY <2>2 DEF Opened
  <1>9. Apart'
    <2>1. \A v \in Windows : windows[v].in # "none" => windows[v].in # s
      BY <1>1 DEF SessionInv, Opened
    <2>2. \A u, v \in Windows : windows[u].in = windows[v].in /\ windows[u].in # "none" => u = v
      BY DEF SessionInv, Apart
    <2>3. ASSUME NEW u \in Windows, NEW v \in Windows, windows'[u].in = windows'[v].in,
                 windows'[u].in # "none", u # v
          PROVE  FALSE
      <3>1. CASE u = w
        <4>1. windows[v].in = s
          BY <3>1, <2>3, <1>5, <1>6
        <4> QED
          BY <4>1, <2>1, <1>3
      <3>2. CASE v = w
        <4>1. windows[u].in = s
          BY <3>2, <2>3, <1>5, <1>6
        <4> QED
          BY <4>1, <2>1, <1>3
      <3>3. CASE u # w /\ v # w
        BY <3>3, <2>3, <2>2, <1>5
      <3> QED
        BY <3>1, <3>2, <3>3
    <2> QED
      BY <2>3 DEF Apart
  <1>10. Turnless'
    <2>1. \A u \in Sessions \ used : traces[u].turns = FALSE
      BY DEF SessionInv, Turnless
    <2>2. \A u \in Sessions \ {old} : traces'[u] = traces[u]
      BY <1>2 DEF Grown
    <2>3. \A u \in Sessions \ used' : traces'[u].turns = FALSE
      BY <2>1, <2>2, <1>1, <1>3
    <2>4. traces'[s].turns = FALSE
      BY <2>1, <2>2, <1>1, <1>3
    <2>5. ASSUME NEW v \in Windows, windows'[v].in \notin {"none", windows'[v].env},
                 windows'[v].env # "none"
          PROVE  traces'[windows'[v].in].turns = FALSE
      <3>1. CASE v = w
        BY <3>1, <2>4, <1>6
      <3>2. CASE v # w
        <4>1. windows'[v] = windows[v]
          BY <3>2, <1>5
        <4>2. traces[windows[v].in].turns = FALSE
          BY <4>1, <2>5 DEF SessionInv, Turnless
        <4>3. windows[v].in \in Sessions
          BY <4>1, <2>5, WindowOpen
        <4>4. windows[v].in # old
          BY <4>1, <2>5, <3>2 DEF SessionInv, Apart
        <4> QED
          BY <4>1, <4>2, <4>3, <4>4, <2>2
      <3> QED
        BY <3>1, <3>2
    <2> QED
      BY <2>3, <2>5 DEF Turnless
  <1>11. Serving'
    <2>1. ASSUME NEW v \in Windows PROVE Served(requests'[v], windows'[v], used', traces')
      <3>1. Served(requests'[v], windows[v], used, traces') /\ requests'[v] \in RequestValues
        BY <1>2 DEF ServedAfter
      <3>2. CASE v = w
        <4>1. used \in SUBSET Sessions /\ s \in Sessions \ used
          BY <1>1, <1>4
        <4>2. Served(requests'[w], windows'[w], used \union {s}, traces')
          BY <3>1, <3>2, <4>1, <1>3, <1>6, ClearServed
        <4> QED
          BY <3>2, <4>2, <1>1
      <3>3. CASE v # w
        <4>1. SameWindow(windows[v], windows'[v]) /\ used \subseteq used'
          BY <3>3, <1>1, <1>5 DEF SameWindow
        <4> QED
          BY <3>1, <4>1, SameWindowServed
      <3> QED
        BY <3>2, <3>3
    <2> QED
      BY <2>1 DEF Serving
  <1> QED
    BY <1>2, <1>3, <1>7, <1>8, <1>9, <1>10, <1>11, GrownListable DEF SessionInv

LEMMA CloseStep ==
  ASSUME SessionInv, NEW w \in Windows, Close(w)
  PROVE  SessionInv'
  <1> DEFINE old == windows[w].in
  <1>1. /\ old # "none" /\ requests[w].pc \in {"none", "done"} /\ EndSession(w)
        /\ windows' = [windows EXCEPT ![w] = Closed] /\ used' = used /\ clock' = clock
    BY DEF Close
  <1>2. Grown(old) /\ ServedAfter(requests)
    BY <1>1, EndGrows
  <1>3. old \in Sessions /\ old \in used
    BY <1>1, WindowOpen
  <1>4. /\ windows \in [Windows -> WindowValues] /\ used \subseteq Sessions
        /\ \A v \in Windows : windows[v].in = "none" => windows[v] = Closed
    BY DEF SessionInv, SessionTypes
  <1>5. /\ windows'[w] = Closed /\ Closed \in WindowValues /\ Closed.in = "none"
        /\ \A v \in Windows \ {w} : windows'[v] = windows[v]
    BY <1>1, <1>4 DEF Closed, WindowValues, MaybeSession
  <1>6. SessionTypes'
    <2>1. windows' \in [Windows -> WindowValues]
      BY <1>1, <1>4, <1>5
    <2>2. \A v \in Windows : windows'[v].in = "none" => windows'[v] = Closed
      BY <1>4, <1>5
    <2>3. used' \subseteq Sessions /\ clock' \in Nat
      BY <1>1 DEF SessionInv, SessionTypes
    <2> QED
      BY <1>1, <1>2, <2>1, <2>2, <2>3 DEF SessionTypes, Clocked, Grown, ServedAfter
  <1>7. Opened' /\ Apart'
    BY <1>1, <1>5 DEF SessionInv, Opened, Apart
  <1>8. Turnless'
    <2>1. \A u \in Sessions \ {old} : traces'[u] = traces[u]
      BY <1>2 DEF Grown
    <2>2. \A u \in Sessions \ used' : traces'[u].turns = FALSE
      BY <2>1, <1>1, <1>3 DEF SessionInv, Turnless
    <2>3. ASSUME NEW v \in Windows, windows'[v].in \notin {"none", windows'[v].env},
                 windows'[v].env # "none"
          PROVE  traces'[windows'[v].in].turns = FALSE
      <3>1. v # w /\ windows'[v] = windows[v]
        BY <2>3, <1>5
      <3>2. traces[windows[v].in].turns = FALSE
        BY <3>1, <2>3 DEF SessionInv, Turnless
      <3>3. windows[v].in \in Sessions
        BY <3>1, <2>3, WindowOpen
      <3>4. windows[v].in # old
        BY <3>1, <2>3 DEF SessionInv, Apart
      <3> QED
        BY <3>1, <3>2, <3>3, <3>4, <2>1
    <2> QED
      BY <2>2, <2>3 DEF Turnless
  <1>9. Serving'
    <2>1. ASSUME NEW v \in Windows PROVE Served(requests'[v], windows'[v], used', traces')
      <3>1. /\ Served(requests'[v], windows[v], used, traces') /\ requests'[v] \in RequestValues
            /\ requests'[v].pc = requests[v].pc
        BY <1>2 DEF ServedAfter
      <3>2. CASE v = w
        <4>1. requests'[v].pc \notin {"scan", "emit"}
          BY <3>1, <3>2, <1>1
        <4> QED
          BY <3>1, <4>1, IdleServed
      <3>3. CASE v # w
        <4>1. SameWindow(windows[v], windows'[v]) /\ used \subseteq used'
          BY <3>3, <1>1, <1>5 DEF SameWindow
        <4> QED
          BY <3>1, <4>1, SameWindowServed
      <3> QED
        BY <3>2, <3>3
    <2> QED
      BY <2>1 DEF Serving
  <1> QED
    BY <1>2, <1>3, <1>6, <1>7, <1>8, <1>9, GrownListable DEF SessionInv

LEMMA OpenStep ==
  ASSUME SessionInv, NEW w \in Windows, NEW s \in Sessions, NEW env \in {s, "none"}, Open(w, s, env)
  PROVE  SessionInv'
  <1> DEFINE new == [in |-> s, env |-> env, worked |-> FALSE,
                     server |-> registry.state = "ok" /\ registry.ours # "none"]
  <1>1. /\ windows[w].in = "none" /\ \A v \in Windows : windows[v].in # s
        /\ windows' = [windows EXCEPT ![w] = new] /\ used' = used \union {s}
        /\ traces' = traces /\ requests' = requests /\ clock' = clock
    BY DEF Open
  <1>2. /\ windows \in [Windows -> WindowValues] /\ used \subseteq Sessions
        /\ \A v \in Windows : windows[v].in = "none" => windows[v] = Closed
        /\ requests \in [Windows -> RequestValues]
    BY DEF SessionInv, SessionTypes
  <1>3. new \in WindowValues /\ new.in = s /\ new.env = env /\ s # "none"
    BY MachineAssumption DEF WindowValues, MaybeSession
  <1> HIDE DEF new
  <1>4. windows'[w] = new /\ \A v \in Windows \ {w} : windows'[v] = windows[v]
    BY <1>1, <1>2
  <1>5. SessionTypes'
    <2>1. windows' \in [Windows -> WindowValues]
      BY <1>1, <1>2, <1>3
    <2>2. \A v \in Windows : windows'[v].in = "none" => windows'[v] = Closed
      BY <1>2, <1>3, <1>4
    <2>3. used' \subseteq Sessions
      BY <1>1, <1>2
    <2> QED
      BY <1>1, <2>1, <2>2, <2>3 DEF SessionInv, SessionTypes, Clocked
  <1>6. Opened'
    <2>1. ASSUME NEW v \in Windows, windows'[v].in # "none"
          PROVE  windows'[v].in \in used' /\ windows'[v].env \in used' \union {"none"}
      <3>1. CASE v = w
        BY <3>1, <1>1, <1>3, <1>4
      <3>2. CASE v # w
        <4>1. windows'[v] = windows[v] /\ used \subseteq used'
          BY <3>2, <1>1, <1>4
        <4>2. windows[v].in \in used /\ windows[v].env \in used \union {"none"}
          BY <4>1, <2>1 DEF SessionInv, Opened
        <4> QED
          BY <4>1, <4>2
      <3> QED
        BY <3>1, <3>2
    <2> QED
      BY <2>1 DEF Opened
  <1>7. Apart'
    <2>1. \A u, v \in Windows : windows[u].in = windows[v].in /\ windows[u].in # "none" => u = v
      BY DEF SessionInv, Apart
    <2>2. ASSUME NEW u \in Windows, NEW v \in Windows, windows'[u].in = windows'[v].in,
                 windows'[u].in # "none", u # v
          PROVE  FALSE
      <3>1. CASE u = w
        BY <3>1, <2>2, <1>1, <1>3, <1>4
      <3>2. CASE v = w
        BY <3>2, <2>2, <1>1, <1>3, <1>4
      <3>3. CASE u # w /\ v # w
        BY <3>3, <2>1, <2>2, <1>4
      <3> QED
        BY <3>1, <3>2, <3>3
    <2> QED
      BY <2>2 DEF Apart
  <1>8. Turnless'
    <2>1. \A u \in Sessions \ used' : traces'[u].turns = FALSE
      BY <1>1 DEF SessionInv, Turnless
    <2>2. ASSUME NEW v \in Windows, windows'[v].in \notin {"none", windows'[v].env},
                 windows'[v].env # "none"
          PROVE  traces'[windows'[v].in].turns = FALSE
      <3>1. v # w
        BY <2>2, <1>3, <1>4
      <3>2. windows'[v] = windows[v]
        BY <3>1, <1>4
      <3> QED
        BY <3>2, <2>2, <1>1 DEF SessionInv, Turnless
    <2> QED
      BY <2>1, <2>2 DEF Turnless
  <1>9. Serving'
    <2>1. ASSUME NEW v \in Windows PROVE Served(requests'[v], windows'[v], used', traces')
      <3>1. Served(requests[v], windows[v], used, traces) /\ requests[v] \in RequestValues
        BY <1>2 DEF SessionInv, Serving
      <3>2. CASE v = w
        <4>1. requests[v].pc \notin {"scan", "emit"}
          BY <3>1, <3>2, <1>1 DEF Served, Asking
        <4> QED
          BY <3>1, <4>1, <1>1, IdleServed
      <3>3. CASE v # w
        <4>1. SameWindow(windows[v], windows'[v]) /\ used \subseteq used'
          BY <3>3, <1>1, <1>4 DEF SameWindow
        <4> QED
          BY <3>1, <4>1, <1>1, SameWindowServed
      <3> QED
        BY <3>2, <3>3
    <2> QED
      BY <2>1 DEF Serving
  <1> QED
    BY <1>1, <1>5, <1>6, <1>7, <1>8, <1>9 DEF SessionInv, Listable

LEMMA DeleteStep ==
  ASSUME SessionInv, NEW s \in Sessions, DeleteTrace(s)
  PROVE  SessionInv'
  <1>1. /\ traces' = [traces EXCEPT ![s] = NoTrace] /\ requests' = Overtaken(requests, s, Windows)
        /\ windows' = windows /\ used' = used /\ clock' = clock
    BY DEF DeleteTrace
  <1>2. /\ traces \in [Sessions -> TraceValues] /\ requests \in [Windows -> RequestValues]
        /\ windows \in [Windows -> WindowValues] /\ used \in SUBSET Sessions /\ clock \in Nat
        /\ \A v \in Windows : Served(requests[v], windows[v], used, traces)
    BY DEF SessionInv, SessionTypes, Serving
  <1>3. /\ NoTrace \in TraceValues /\ NoTrace.start = 0 /\ NoTrace.mtime = 0 /\ NoTrace.turns = FALSE
    BY DEF NoTrace, TraceValues
  <1>4. Grown(s)
    <2>1. /\ traces' \in [Sessions -> TraceValues] /\ traces'[s] = NoTrace
          /\ \A u \in Sessions \ {s} : traces'[u] = traces[u]
      BY <1>1, <1>2, <1>3
    <2>2. \A u \in Sessions : traces[u].start <= traces[u].mtime /\ traces[u].mtime <= clock
      BY DEF SessionInv, SessionTypes, Clocked
    <2>3. ASSUME NEW u \in Sessions
          PROVE  traces'[u].start <= traces'[u].mtime /\ traces'[u].mtime <= clock
      <3>1. CASE u = s
        BY <3>1, <2>1, <1>2, <1>3
      <3>2. CASE u # s
        BY <3>2, <2>1, <2>2
      <3> QED
        BY <3>1, <3>2
    <2> QED
      BY <2>1, <2>3 DEF Grown
  <1>5. ServedAfter(requests)
    <2>1. requests' \in [Windows -> RequestValues]
      BY <1>1, <1>2, OvertakenType
    <2>2. ASSUME NEW w \in Windows
          PROVE  Served(requests'[w], windows[w], used, traces') /\ requests'[w].pc = requests[w].pc
      <3> DEFINE all == Windows
                 r2 == Overtaken(requests, s, all)[w]
      <3> HIDE DEF all
      <3>1. /\ Softened(requests[w], r2)
            /\ (/\ requests[w].pc \in {"scan", "emit"} /\ w \in all
                /\ s \in {windows[w].env, requests[w].own}) => r2.certain = FALSE
        BY <1>2, OvertakenSoftens
      <3> HIDE DEF r2
      <3>2. /\ requests[w] \in RequestValues /\ windows[w] \in WindowValues
            /\ Served(requests[w], windows[w], used, traces)
            /\ traces' \in [Sessions -> TraceValues]
            /\ \A u \in Sessions \ {s} : traces'[u] = traces[u]
        BY <1>2, <1>4 DEF Grown
      <3>3. (requests[w].pc \in {"scan", "emit"} /\ s \in {windows[w].env, requests[w].own})
              => r2.certain = FALSE
        BY <3>1 DEF all
      <3>4. Softened(requests[w], r2)
        BY <3>1
      <3>5. Served(r2, windows[w], used, traces')
        BY <3>2, <3>3, <3>4, <1>2, DeleteServed
      <3>6. r2.pc = requests[w].pc
        BY <3>2, <3>4, SoftenedFields
      <3>7. requests'[w] = r2
        BY <1>1 DEF r2, all
      <3> QED
        BY <3>5, <3>6, <3>7
    <2> QED
      BY <2>1, <2>2 DEF ServedAfter
  <1>6. traces'[s].turns = TRUE => traces[s].turns = TRUE
    BY <1>1, <1>2, <1>3
  <1>7. /\ windows' \in [Windows -> WindowValues]
        /\ \A w \in Windows : SameWindow(windows[w], windows'[w])
        /\ \A w \in Windows : windows'[w].in = "none" => windows'[w] = Closed
    BY <1>1, <1>2 DEF SessionInv, SessionTypes, SameWindow
  <1> QED
    BY <1>1, <1>4, <1>5, <1>6, <1>7, SameWindowsKeep

LEMMA QuietStep ==
  ASSUME SessionInv, UNCHANGED <<traces, windows, used, requests>>,
         clock' = clock \/ clock' = clock + 1
  PROVE  SessionInv'
  <1>1. clock \in Nat /\ clock' \in Nat /\ clock <= clock'
    BY DEF SessionInv, SessionTypes
  <1>2. SessionTypes'
    <2>1. ASSUME NEW s \in Sessions PROVE traces[s].start <= traces[s].mtime /\ traces[s].mtime <= clock'
      <3>1. traces[s].mtime \in Nat /\ traces[s].start <= traces[s].mtime /\ traces[s].mtime <= clock
        BY DEF SessionInv, SessionTypes, Clocked, TraceValues
      <3> QED
        BY <3>1, <1>1
    <2> QED
      BY <1>1, <2>1 DEF SessionInv, SessionTypes, Clocked
  <1> QED
    BY <1>2 DEF SessionInv, Opened, Apart, Turnless, Serving, Listable

-----------------------------------------------------------------------------
(***************************************************************************)
(* The steps of the servers keep SessionInv.                               *)
(***************************************************************************)
LEMMA OneRequest ==
  ASSUME SessionInv, NEW w \in Windows, NEW r2 \in RequestValues,
         requests' = [requests EXCEPT ![w] = r2],
         UNCHANGED <<traces, windows, used, clock>>,
         Served(r2, windows[w], used, traces)
  PROVE  SessionInv'
  <1>1. requests \in [Windows -> RequestValues]
    BY DEF SessionInv, SessionTypes
  <1>2. requests' \in [Windows -> RequestValues]
    BY <1>1
  <1>3. SessionTypes'
    BY <1>2 DEF SessionInv, SessionTypes, Clocked
  <1>4. Serving'
    <2>1. ASSUME NEW v \in Windows PROVE Served(requests'[v], windows[v], used, traces)
      <3>1. CASE v = w
        BY <3>1, <1>1
      <3>2. CASE v # w
        <4>1. requests'[v] = requests[v]
          BY <3>2, <1>1
        <4> QED
          BY <4>1 DEF SessionInv, Serving
      <3> QED
        BY <3>1, <3>2
    <2> QED
      BY <2>1 DEF Serving
  <1> QED
    BY <1>3, <1>4 DEF SessionInv, Opened, Apart, Turnless, Listable

LEMMA ServerOpen ==
  ASSUME SessionInv, NEW w \in Windows, windows[w].server
  PROVE  windows[w].in # "none"
  BY DEF SessionInv, SessionTypes, Closed

LEMMA NoRequestType ==
  /\ NoRequest \in RequestValues /\ NoRequest.seen = [s \in {} |-> 0]
  /\ DOMAIN NoRequest.seen = {}
  <1>1. [s \in {} |-> 0] \in Notes
    <2>1. [s \in {} |-> 0] \in [{} -> Nat]
      OBVIOUS
    <2> QED
      BY <2>1 DEF Notes
  <1>2. Unresolved("none") \in Answers
    BY DEF Unresolved, Answers, MaybeSession, Statuses, Sources
  <1> QED
    BY <1>1, <1>2 DEF NoRequest, RequestValues, MaybeSession

LEMMA FreshScan ==
  ASSUME SessionInv, NEW w \in Windows, windows[w].in # "none", NEW kind \in {"status", "declare"},
         NEW r2 \in RequestValues, r2.pc = "scan", r2.kind = kind, r2.own = windows[w].in,
         r2.certain = Certain(w), r2.now = clock, r2.listed = Present(traces), DOMAIN r2.seen = {}
  PROVE  Served(r2, windows[w], used, traces)
  <1> DEFINE own == windows[w].in
             env == windows[w].env
  <1>1. own \in Sessions /\ own \in used /\ env \in used \union {"none"}
    BY WindowOpen
  <1>2. Asking(r2, windows[w], used) /\ WellAnswered(r2)
    BY <1>1 DEF Asking, WellAnswered
  <1>3. \A s : Times(r2, s, traces) = {traces[s].mtime}
    BY DEF Times
  <1>4. ASSUME Certain(w)
        PROVE  /\ traces[own].there = TRUE /\ clock - traces[own].mtime <= WriteWindow
               /\ env \notin {"none", own} => traces[own].mtime > traces[env].mtime
    <2>1. traces[own].there \in BOOLEAN
      BY <1>1 DEF SessionInv, SessionTypes, TraceValues
    <2> QED
      BY <1>4, <2>1 DEF Certain, IsFresh
  <1>5. r2.certain = TRUE => Certain(w)
    <2>1. Certain(w) \in BOOLEAN
      BY DEF Certain
    <2> QED
      BY <2>1
  <1>6. traces[own].there = TRUE => own \in r2.listed
    BY <1>1 DEF Present
  <1>7. ReadsWell(r2, env, traces)
    BY <1>3, <1>4, <1>5, <1>6 DEF ReadsWell
  <1> QED
    BY <1>2, <1>7 DEF Served

LEMMA AskStep ==
  ASSUME SessionInv, NEW w \in Windows, NEW kind \in {"status", "declare"}, NEW valid \in BOOLEAN,
         Ask(w, kind, valid)
  PROVE  SessionInv'
  <1> DEFINE request == [NoRequest EXCEPT !.kind = kind, !.own = windows[w].in, !.certain = Certain(w)]
             refused == [request EXCEPT !.pc = "done", !.answer = Unresolved("invalid_request")]
             scan == [request EXCEPT !.pc = "scan", !.now = clock, !.listed = Present(traces)]
  <1>1. /\ windows[w].server /\ UNCHANGED <<traces, windows, used, clock>>
        /\ requests' = [requests EXCEPT ![w] =
             IF kind = "declare" /\ ~valid THEN refused ELSE scan]
    BY DEF Ask
  <1>2. windows[w].in # "none" /\ windows[w].in \in Sessions
    BY <1>1, ServerOpen, WindowOpen
  <1>3. Certain(w) \in BOOLEAN
    BY DEF Certain
  <1>4. /\ request \in RequestValues /\ request.kind = kind /\ request.own = windows[w].in
        /\ request.certain = Certain(w) /\ DOMAIN request.seen = {}
    BY <1>2, <1>3, NoRequestType DEF RequestValues, MaybeSession
  <1> HIDE DEF request
  <1>5. CASE kind = "declare" /\ ~valid
    <2>1. Unresolved("invalid_request") \in Answers
      BY DEF Unresolved, Answers, MaybeSession, Statuses, Sources
    <2>2. /\ refused \in RequestValues /\ refused.pc = "done"
          /\ refused.answer = Unresolved("invalid_request") /\ refused.kind = kind
      BY <1>4, <2>1 DEF RequestValues
    <2> HIDE DEF refused
    <2>3. refused.answer.status # "declared"
      BY <2>2 DEF Unresolved
    <2>4. Served(refused, windows[w], used, traces)
      BY <1>5, <2>2, <2>3 DEF Served, Asking, ReadsWell, WellAnswered
    <2>5. requests' = [requests EXCEPT ![w] = refused]
      BY <1>1, <1>5
    <2> QED
      BY <1>1, <2>2, <2>4, <2>5, OneRequest
  <1>6. CASE ~(kind = "declare" /\ ~valid)
    <2>1. clock \in Nat /\ Present(traces) \in SUBSET Sessions
      BY DEF SessionInv, SessionTypes, Present
    <2>2. /\ scan \in RequestValues /\ scan.pc = "scan" /\ scan.kind = kind
          /\ scan.own = windows[w].in /\ scan.certain = Certain(w) /\ scan.now = clock
          /\ scan.listed = Present(traces) /\ DOMAIN scan.seen = {}
      BY <1>4, <2>1 DEF RequestValues
    <2> HIDE DEF scan
    <2>3. Served(scan, windows[w], used, traces)
      BY <1>2, <2>2, FreshScan
    <2>4. requests' = [requests EXCEPT ![w] = scan]
      BY <1>1, <1>6
    <2> QED
      BY <1>1, <2>2, <2>3, <2>4, OneRequest
  <1> QED
    BY <1>5, <1>6

LEMMA NotedType ==
  ASSUME NEW seen \in Notes, NEW s \in Sessions, NEW mtime \in Nat
  PROVE  /\ Noted(seen, s, mtime) \in Notes /\ DOMAIN Noted(seen, s, mtime) = DOMAIN seen \union {s}
         /\ Noted(seen, s, mtime)[s] = mtime
         /\ \A u \in DOMAIN seen \ {s} : Noted(seen, s, mtime)[u] = seen[u]
  <1>1. PICK S \in SUBSET Sessions : seen \in [S -> Nat]
    BY DEF Notes
  <1>2. Noted(seen, s, mtime) \in [S \union {s} -> Nat]
    BY <1>1 DEF Noted
  <1>3. S \union {s} \in SUBSET Sessions
    OBVIOUS
  <1>4. Noted(seen, s, mtime) \in Notes
    BY <1>2, <1>3 DEF Notes
  <1> QED
    BY <1>1, <1>4 DEF Noted

LEMMA StatStep ==
  ASSUME SessionInv, NEW w \in Windows, NEW s \in Sessions, Stat(w, s)
  PROVE  SessionInv'
  <1> DEFINE r == requests[w]
             noted == IF traces[s].there THEN Noted(r.seen, s, traces[s].mtime) ELSE r.seen
             r2 == [r EXCEPT !.listed = @ \ {s}, !.seen = noted]
  <1>1. /\ r.pc = "scan" /\ s \in r.listed \ DOMAIN r.seen
        /\ UNCHANGED <<traces, windows, used, clock>>
    BY DEF Stat
  <1>2. /\ r \in RequestValues /\ requests \in [Windows -> RequestValues]
        /\ Served(r, windows[w], used, traces) /\ traces \in [Sessions -> TraceValues]
    BY DEF SessionInv, SessionTypes, Serving
  <1>3. requests' = [requests EXCEPT ![w] = r2]
    BY <1>2 DEF Stat
  <1>4. /\ traces[s].mtime \in Nat /\ traces[s].there \in BOOLEAN /\ r.seen \in Notes
    BY <1>2 DEF TraceValues, RequestValues
  <1>5. /\ noted \in Notes
        /\ DOMAIN r.seen \subseteq DOMAIN noted
        /\ \A u \in DOMAIN r.seen : noted[u] = r.seen[u]
        /\ DOMAIN noted \subseteq DOMAIN r.seen \union {s}
        /\ s \in DOMAIN noted => noted[s] = traces[s].mtime
        /\ traces[s].there = TRUE => s \in DOMAIN noted
    <2>1. CASE traces[s].there = TRUE
      <3>1. noted = Noted(r.seen, s, traces[s].mtime)
        BY <2>1
      <3> DEFINE seen == r.seen
                 mtime == traces[s].mtime
      <3>3. seen \in Notes /\ mtime \in Nat
        BY <1>4
      <3> HIDE DEF noted, seen, mtime
      <3>4. noted = Noted(seen, s, mtime)
        BY <3>1 DEF seen, mtime
      <3>2. /\ noted \in Notes /\ DOMAIN noted = DOMAIN seen \union {s}
            /\ noted[s] = mtime
            /\ \A u \in DOMAIN seen \ {s} : noted[u] = seen[u]
        <4>1. /\ Noted(seen, s, mtime) \in Notes
              /\ DOMAIN Noted(seen, s, mtime) = DOMAIN seen \union {s}
              /\ Noted(seen, s, mtime)[s] = mtime
              /\ \A u \in DOMAIN seen \ {s} : Noted(seen, s, mtime)[u] = seen[u]
          BY <3>3, NotedType
        <4> QED
          BY <4>1, <3>4
      <3> QED
        BY <3>2, <1>1 DEF seen, mtime
    <2>2. CASE traces[s].there = FALSE
      <3>1. noted = r.seen
        BY <2>2
      <3> HIDE DEF noted
      <3> QED
        BY <3>1, <1>1, <1>4, <2>2
    <2> QED
      BY <2>1, <2>2, <1>4
  <1> HIDE DEF noted
  <1>6. /\ r2 \in RequestValues /\ r2.pc = r.pc /\ r2.kind = r.kind /\ r2.own = r.own
        /\ r2.certain = r.certain /\ r2.now = r.now /\ r2.listed = r.listed \ {s}
        /\ r2.seen = noted /\ r2.target = r.target /\ r2.answer = r.answer
    BY <1>2, <1>5 DEF RequestValues
  <1> HIDE DEF r2
  <1>7. Asking(r2, windows[w], used) /\ WellAnswered(r2)
    BY <1>2, <1>6 DEF Served, Asking, WellAnswered
  <1>8. \A u \in Sessions : Times(r2, u, traces) \subseteq Times(r, u, traces)
    BY <1>1, <1>5, <1>6 DEF Times
  <1>9. ASSUME r2.pc = "scan", r2.kind = "declare", r2.certain = TRUE
        PROVE  ReadsWell(r2, windows[w].env, traces)
    <2>1. /\ traces[r.own].there = TRUE /\ r.own \in r.listed \union DOMAIN r.seen
          /\ \A m \in Times(r, r.own, traces) : r.now - m <= WriteWindow
          /\ windows[w].env \notin {"none", r.own} =>
               \A a \in Times(r, r.own, traces), b \in Times(r, windows[w].env, traces) : a > b
      BY <1>2, <1>6, <1>9 DEF Served, ReadsWell
    <2>2. r.own \in Sessions /\ (windows[w].env # "none" => windows[w].env \in Sessions)
      BY <1>2, <1>1 DEF Served, Asking, SessionInv, SessionTypes, WindowValues, MaybeSession
    <2>3. r2.own \in r2.listed \union DOMAIN r2.seen
      BY <2>1, <1>5, <1>6
    <2>4. \A m \in Times(r2, r2.own, traces) : r2.now - m <= WriteWindow
      BY <2>1, <2>2, <1>6, <1>8
    <2>5. windows[w].env \notin {"none", r2.own} =>
            \A a \in Times(r2, r2.own, traces), b \in Times(r2, windows[w].env, traces) : a > b
      BY <2>1, <2>2, <1>6, <1>8
    <2> QED
      BY <2>1, <2>3, <2>4, <2>5, <1>6 DEF ReadsWell
  <1>10. Served(r2, windows[w], used, traces)
    <2>1. ReadsWell(r2, windows[w].env, traces)
      BY <1>9 DEF ReadsWell
    <2> QED
      BY <2>1, <1>7 DEF Served
  <1> QED
    BY <1>1, <1>3, <1>6, <1>10, OneRequest

LEMMA ResolutionType ==
  ASSUME NEW seen \in Notes, NEW env \in MaybeSession, NEW now, NEW window
  PROVE  LET answer == ResolveCurrentSession(seen, env, now, window)
         IN /\ answer \in Answers
            /\ answer.status \in {"resolved", "no_current_session", "not_yet_captured"}
            /\ answer.status = "resolved" => answer.session \in Sessions
  <1> DEFINE fresh == {s \in DOMAIN seen : IsFresh(seen[s], now, window)}
             later == {s \in fresh \ {env} : seen[s] > seen[env]}
             answer == ResolveCurrentSession(seen, env, now, window)
  <1>1. DOMAIN seen \subseteq Sessions
    BY DEF Notes
  <1>2. fresh \subseteq Sessions
    BY <1>1
  <1>3. answer =
          IF env # "none" /\ env \notin DOMAIN seen THEN Unresolved("not_yet_captured")
          ELSE IF env # "none" /\ (later # {} \/ env \notin fresh)
          THEN Unresolved("no_current_session")
          ELSE IF env # "none" THEN Resolved(env, "env_crosschecked")
          ELSE IF \E s \in fresh : fresh = {s}
          THEN Resolved(CHOOSE s \in fresh : TRUE, "fallback_mtime")
          ELSE Unresolved("no_current_session")
    BY DEF ResolveCurrentSession
  <1> HIDE DEF fresh, later
  <1>4. (\E s \in fresh : fresh = {s}) => (CHOOSE s \in fresh : TRUE) \in fresh
    OBVIOUS
  <1> DEFINE chosen == CHOOSE s \in fresh : TRUE
  <1>5. (\E s \in fresh : fresh = {s}) => chosen \in Sessions
    BY <1>2, <1>4
  <1>6. answer =
          IF env # "none" /\ env \notin DOMAIN seen THEN Unresolved("not_yet_captured")
          ELSE IF env # "none" /\ (later # {} \/ env \notin fresh)
          THEN Unresolved("no_current_session")
          ELSE IF env # "none" THEN Resolved(env, "env_crosschecked")
          ELSE IF \E s \in fresh : fresh = {s}
          THEN Resolved(chosen, "fallback_mtime")
          ELSE Unresolved("no_current_session")
    BY <1>3
  <1> HIDE DEF chosen, answer
  <1>7. \/ answer \in {Unresolved("not_yet_captured"), Unresolved("no_current_session")}
        \/ \E s \in Sessions, source \in {"env_crosschecked", "fallback_mtime"} :
             answer = Resolved(s, source)
    BY <1>5, <1>6 DEF MaybeSession
  <1>8. /\ answer \in Answers
        /\ answer.status \in {"resolved", "no_current_session", "not_yet_captured"}
        /\ answer.status = "resolved" => answer.session \in Sessions
    BY <1>7 DEF Unresolved, Resolved, Answers, Statuses, Sources, MaybeSession
  <1> QED
    BY <1>8 DEF answer

(***************************************************************************)
(* A scan that saw the asking session fresh, and later than the session of *)
(* the environment, answers the asking session if any.                     *)
(***************************************************************************)
LEMMA ResolvesOwn ==
  ASSUME NEW seen \in Notes, NEW env \in MaybeSession, NEW now, NEW own \in DOMAIN seen,
         now - seen[own] <= WriteWindow,
         env \notin {"none", own} /\ env \in DOMAIN seen => seen[own] > seen[env],
         ResolveCurrentSession(seen, env, now, WriteWindow).status = "resolved"
  PROVE  ResolveCurrentSession(seen, env, now, WriteWindow).session = own
  <1> DEFINE fresh == {s \in DOMAIN seen : IsFresh(seen[s], now, WriteWindow)}
             later == {s \in fresh \ {env} : seen[s] > seen[env]}
             answer == ResolveCurrentSession(seen, env, now, WriteWindow)
             chosen == CHOOSE s \in fresh : TRUE
  <1>1. own \in fresh
    BY DEF IsFresh
  <1>2. env \notin {"none", own} /\ env \in DOMAIN seen => own \in later
    BY <1>1
  <1>3. (\E s \in fresh : fresh = {s}) => chosen = own
    BY <1>1
  <1>4. answer =
          IF env # "none" /\ env \notin DOMAIN seen THEN Unresolved("not_yet_captured")
          ELSE IF env # "none" /\ (later # {} \/ env \notin fresh)
          THEN Unresolved("no_current_session")
          ELSE IF env # "none" THEN Resolved(env, "env_crosschecked")
          ELSE IF \E s \in fresh : fresh = {s}
          THEN Resolved(chosen, "fallback_mtime")
          ELSE Unresolved("no_current_session")
    BY DEF ResolveCurrentSession
  <1>5. answer.status = "resolved"
    OBVIOUS
  <1> HIDE DEF fresh, later, chosen, answer
  <1>6. answer.session = own
    BY <1>2, <1>3, <1>4, <1>5 DEF Unresolved, Resolved
  <1> QED
    BY <1>6 DEF answer

LEMMA AnsweredRequest ==
  ASSUME NEW r \in RequestValues, NEW answer \in Answers
  PROVE  LET r2 == [r EXCEPT !.pc = "done", !.now = 0, !.seen = NoRequest.seen,
                             !.target = NoRequest.target, !.answer = answer]
         IN /\ r2 \in RequestValues /\ r2.pc = "done" /\ r2.kind = r.kind /\ r2.own = r.own
            /\ r2.certain = r.certain /\ r2.answer = answer
  <1>1. NoRequest.seen \in Notes /\ NoRequest.target \in Answers
    BY NoRequestType DEF RequestValues
  <1> QED
    BY <1>1 DEF RequestValues

LEMMA ResolveStep ==
  ASSUME SessionInv, NEW w \in Windows, Resolve(w)
  PROVE  SessionInv'
  <1> DEFINE r == requests[w]
             env == windows[w].env
             answer == ResolveCurrentSession(r.seen, env, r.now, Window(r.kind))
             done == [r EXCEPT !.pc = "done", !.now = 0, !.seen = NoRequest.seen,
                               !.target = NoRequest.target, !.answer = answer]
             emit == [r EXCEPT !.pc = "emit", !.target = answer]
  <1>1. /\ r.pc = "scan" /\ r.listed = {} /\ UNCHANGED <<traces, windows, used, clock>>
    BY DEF Resolve
  <1>2. /\ r \in RequestValues /\ requests \in [Windows -> RequestValues]
        /\ Served(r, windows[w], used, traces) /\ env \in MaybeSession /\ r.seen \in Notes
    BY DEF SessionInv, SessionTypes, Serving, RequestValues, WindowValues
  <1>3. requests' = [requests EXCEPT ![w] =
          IF r.kind = "declare" /\ answer.status = "resolved" THEN emit ELSE done]
    BY <1>2 DEF Resolve, Answered
  <1>4. /\ answer \in Answers
        /\ answer.status \in {"resolved", "no_current_session", "not_yet_captured"}
        /\ answer.status = "resolved" => answer.session \in Sessions
    BY <1>2, ResolutionType
  <1>5. ASSUME r.kind = "declare", r.certain = TRUE, answer.status = "resolved"
        PROVE  answer.session = r.own
    <2> DEFINE seen == r.seen
               own == r.own
               now == r.now
    <2>1. /\ own \in r.listed \union DOMAIN seen
          /\ \A m \in Times(r, own, traces) : now - m <= WriteWindow
          /\ env \notin {"none", own} =>
               \A a \in Times(r, own, traces), b \in Times(r, env, traces) : a > b
      BY <1>1, <1>2, <1>5 DEF Served, ReadsWell
    <2>2. own \in DOMAIN seen
      BY <2>1, <1>1
    <2>3. \A s \in DOMAIN seen : seen[s] \in Times(r, s, traces)
      BY DEF Times
    <2>4. now - seen[own] <= WriteWindow
      BY <2>1, <2>2, <2>3
    <2>5. env \notin {"none", own} /\ env \in DOMAIN seen => seen[own] > seen[env]
      BY <2>1, <2>2, <2>3
    <2>6. ResolveCurrentSession(seen, env, now, WriteWindow) = answer
      BY <1>5 DEF Window
    <2>7. seen \in Notes
      BY <1>2
    <2> HIDE DEF seen, own, now, env, answer
    <2>8. env \in MaybeSession /\ answer.status = "resolved"
      BY <1>2, <1>5 DEF env
    <2>9. answer.session = own
      BY <2>2, <2>4, <2>5, <2>6, <2>7, <2>8, ResolvesOwn
    <2> QED
      BY <2>9 DEF own
  <1> HIDE DEF answer, r
  <1>6. CASE r.kind = "declare" /\ answer.status = "resolved"
    <2>1. /\ emit \in RequestValues /\ emit.pc = "emit" /\ emit.kind = r.kind /\ emit.own = r.own
          /\ emit.certain = r.certain /\ emit.target = answer
      BY <1>2, <1>4 DEF RequestValues
    <2> HIDE DEF emit
    <2>2. Served(emit, windows[w], used, traces)
      BY <1>1, <1>2, <1>4, <1>5, <1>6, <2>1 DEF Served, Asking, ReadsWell, WellAnswered
    <2>3. requests' = [requests EXCEPT ![w] = emit]
      BY <1>3, <1>6
    <2> QED
      BY <1>1, <2>1, <2>2, <2>3, OneRequest
  <1>7. CASE ~(r.kind = "declare" /\ answer.status = "resolved")
    <2>1. /\ done \in RequestValues /\ done.pc = "done" /\ done.kind = r.kind /\ done.own = r.own
          /\ done.certain = r.certain /\ done.answer = answer
      BY <1>2, <1>4, AnsweredRequest
    <2> HIDE DEF done
    <2>2. r.kind # "measured"
      BY <1>1, <1>2 DEF Served, Asking
    <2>3. Served(done, windows[w], used, traces)
      BY <1>4, <2>1, <2>2 DEF Served, Asking, ReadsWell, WellAnswered
    <2>4. requests' = [requests EXCEPT ![w] = done]
      BY <1>3, <1>7
    <2> QED
      BY <1>1, <2>1, <2>3, <2>4, OneRequest
  <1> QED
    BY <1>6, <1>7

LEMMA EmitStep ==
  ASSUME SessionInv, NEW w \in Windows, Emit(w)
  PROVE  SessionInv'
  <1> DEFINE r == requests[w]
             s == r.target.session
  <1>1. /\ r.pc = "emit" /\ UNCHANGED <<windows, used, clock>>
    BY DEF Emit
  <1>2. /\ r \in RequestValues /\ requests \in [Windows -> RequestValues]
        /\ Served(r, windows[w], used, traces)
        /\ \A v \in Windows : Served(requests[v], windows[v], used, traces)
        /\ SessionTypes /\ traces \in [Sessions -> TraceValues]
    BY DEF SessionInv, SessionTypes, Serving
  <1>3. /\ s \in Sessions /\ r.kind = "declare" /\ (r.certain = TRUE => s = r.own)
        /\ r.target \in Answers
    BY <1>1, <1>2 DEF Served, Asking, RequestValues
  <1>4. ASSUME NEW answer \in Answers, answer.status = "declared" => answer.session = s
        PROVE  /\ Answered(w, answer) \in [Windows -> RequestValues]
               /\ \A v \in Windows : Served(Answered(w, answer)[v], windows[v], used, traces)
               /\ \E r2 \in RequestValues : /\ Answered(w, answer) = [requests EXCEPT ![w] = r2]
                                            /\ Served(r2, windows[w], used, traces)
    <2> DEFINE r2 == [r EXCEPT !.pc = "done", !.now = 0, !.seen = NoRequest.seen,
                               !.target = NoRequest.target, !.answer = answer]
    <2>1. Answered(w, answer) = [requests EXCEPT ![w] = r2]
      BY <1>2 DEF Answered
    <2>2. /\ r2 \in RequestValues /\ r2.pc = "done" /\ r2.kind = r.kind /\ r2.own = r.own
          /\ r2.certain = r.certain /\ r2.answer = answer
      BY <1>2, AnsweredRequest
    <2> HIDE DEF r2
    <2>3. Served(r2, windows[w], used, traces)
      BY <1>3, <1>4, <2>2 DEF Served, Asking, ReadsWell, WellAnswered
    <2>4. \A v \in Windows : Answered(w, answer)[v] = IF v = w THEN r2 ELSE requests[v]
      BY <1>2, <2>1
    <2>5. \A v \in Windows : Served(Answered(w, answer)[v], windows[v], used, traces)
      BY <1>2, <2>3, <2>4
    <2>6. Answered(w, answer) \in [Windows -> RequestValues]
      BY <1>2, <2>1, <2>2
    <2> QED
      BY <2>1, <2>2, <2>3, <2>5, <2>6
  <1>5. CASE traces[s].there
    <2> DEFINE answer == [r.target EXCEPT !.status = "declared"]
               trace == [traces[s] EXCEPT !.transient = FALSE]
               pending == Answered(w, answer)
    <2>1. Touch(s, trace) /\ requests' = Overtaken(pending, s, NotIn(s))
      BY <1>5 DEF Emit
    <2>2. trace \in TraceValues /\ trace.start = traces[s].start /\ trace.turns = traces[s].turns
      BY <1>2, <1>3 DEF TraceValues
    <2>3. answer \in Answers /\ answer.session = s
      BY <1>3 DEF Answers, Statuses
    <2> HIDE DEF answer, trace
    <2>4. /\ pending \in [Windows -> RequestValues]
          /\ \A v \in Windows : Served(pending[v], windows[v], used, traces)
      BY <1>4, <2>3
    <2> HIDE DEF pending
    <2>5. /\ Grown(s) /\ traces'[s].there = TRUE
          /\ traces[s].mtime <= traces'[s].mtime /\ traces'[s].turns = trace.turns
      BY <1>2, <1>3, <2>1, <2>2, TouchGrows
    <2>6. ServedAfter(pending)
      BY <1>2, <1>3, <2>1, <2>4, <2>5, AppendStep
    <2>7. /\ windows' \in [Windows -> WindowValues]
          /\ \A v \in Windows : SameWindow(windows[v], windows'[v])
          /\ \A v \in Windows : windows'[v].in = "none" => windows'[v] = Closed
      BY <1>1 DEF SessionInv, SessionTypes, SameWindow
    <2>8. traces'[s].turns = TRUE => traces[s].turns = TRUE
      BY <2>2, <2>5
    <2> QED
      BY <1>1, <1>3, <2>5, <2>6, <2>7, <2>8, SameWindowsKeep
  <1>6. CASE ~traces[s].there
    <2> DEFINE answer == Unresolved("not_written")
    <2>1. traces' = traces /\ requests' = Answered(w, answer)
      BY <1>6 DEF Emit
    <2>2. answer \in Answers /\ answer.status # "declared"
      BY DEF Unresolved, Answers, Statuses, Sources, MaybeSession
    <2> HIDE DEF answer
    <2>3. PICK r2 \in RequestValues : /\ Answered(w, answer) = [requests EXCEPT ![w] = r2]
                                      /\ Served(r2, windows[w], used, traces)
      BY <1>4, <2>2
    <2> QED
      BY <1>1, <2>1, <2>3, OneRequest
  <1> QED
    BY <1>5, <1>6

(***************************************************************************)
(* The latest token-bearing session of a listing is one, and not the one   *)
(* that is left out.                                                       *)
(***************************************************************************)
LEMMA LatestFound ==
  ASSUME Listable, NEW listing \in SessionListings(traces), NEW excluded,
         LatestTokenBearing(traces, listing, excluded) # "none"
  PROVE  LET found == LatestTokenBearing(traces, listing, excluded)
         IN found \in Sessions \ {excluded} /\ traces[found].turns
  <1> DEFINE q == FirstOf(listing, MaxProbe)
             hits == {i \in DOMAIN q : q[i] # excluded /\ HasTokenTurns(traces, q[i])}
             at == CHOOSE i \in hits : \A j \in hits : i <= j
             found == LatestTokenBearing(traces, listing, excluded)
  <1>1. found = IF hits = {} THEN "none" ELSE q[at]
    BY DEF LatestTokenBearing, FirstIn
  <1>2. hits # {} /\ found = q[at]
    BY <1>1
  <1>3. Cardinality(Present(traces)) \in Nat
    BY FS_CardinalityType DEF Listable
  <1>4. listing \in [1..Cardinality(Present(traces)) -> Present(traces)]
    BY DEF SessionListings, SetToSeqs
  <1>5. listing \in Seq(Present(traces))
    BY <1>3, <1>4
  <1>6. q \in Seq(Present(traces))
    BY <1>5, LookupAssumption DEF FirstOf
  <1> HIDE DEF q
  <1>7. hits \in SUBSET Nat
    BY <1>6
  <1>8. at \in hits
    <2> HIDE DEF hits
    <2>1. \E i \in hits : \A j \in hits : i <= j
      BY <1>2, <1>7, Least
    <2> QED
      BY <2>1
  <1> HIDE DEF at
  <1>9. at \in DOMAIN q /\ q[at] # excluded /\ HasTokenTurns(traces, q[at])
    BY <1>8
  <1>10. q[at] \in Sessions
    BY <1>6, <1>9 DEF Present
  <1> QED
    BY <1>2, <1>9, <1>10 DEF HasTokenTurns

LEMMA MeasuredStep ==
  ASSUME SessionInv, NEW w \in Windows, NEW listing \in SessionListings(traces),
         MeasuredRead(w, listing)
  PROVE  SessionInv'
  <1> DEFINE env == windows[w].env
             own == windows[w].in
             found == LatestTokenBearing(traces, listing, env)
             answer == IF found = "none" THEN Unresolved("no_completed_session")
                       ELSE [Resolved(found, "token_bearing") EXCEPT !.status = "measured"]
             r2 == [NoRequest EXCEPT !.pc = "done", !.kind = "measured", !.own = own,
                      !.certain = env # "none", !.answer = answer]
  <1>1. /\ windows[w].server /\ UNCHANGED <<traces, windows, used, clock>>
        /\ requests' = [requests EXCEPT ![w] = r2]
    BY DEF MeasuredRead
  <1>2. own # "none" /\ own \in Sessions
    BY <1>1, ServerOpen, WindowOpen
  <1>3. found # "none" => found \in Sessions \ {env} /\ traces[found].turns
    BY LatestFound DEF SessionInv
  <1>4. own \notin {"none", env} /\ env # "none" => traces[own].turns = FALSE
    BY DEF SessionInv, Turnless
  <1>5. found # "none" /\ env # "none" => found # own
    BY <1>2, <1>3, <1>4
  <1>6. found = "none" \/ found \in Sessions
    BY <1>3
  <1> HIDE DEF found, env, own
  <1>7. /\ answer \in Answers
        /\ answer.session = found
    <2>1. CASE found = "none"
      <3>1. answer = Unresolved("no_completed_session")
        BY <2>1
      <3> HIDE DEF answer
      <3> QED
        BY <2>1, <3>1 DEF Unresolved, Answers, Statuses, Sources, MaybeSession
    <2>2. CASE found # "none"
      <3>1. answer = [Resolved(found, "token_bearing") EXCEPT !.status = "measured"]
        BY <2>2
      <3> HIDE DEF answer
      <3> QED
        BY <2>2, <3>1, <1>6 DEF Resolved, Answers, Statuses, Sources, MaybeSession
    <2> QED
      BY <2>1, <2>2
  <1> HIDE DEF answer
  <1>8. /\ r2 \in RequestValues /\ r2.pc = "done" /\ r2.kind = "measured" /\ r2.own = own
        /\ r2.certain = (env # "none") /\ r2.answer = answer
    BY <1>2, <1>7, NoRequestType DEF RequestValues, MaybeSession
  <1> HIDE DEF r2
  <1>9. r2.certain = TRUE => r2.answer.session # r2.own
    BY <1>2, <1>5, <1>7, <1>8
  <1>10. Served(r2, windows[w], used, traces)
    BY <1>8, <1>9 DEF Served, Asking, ReadsWell, WellAnswered
  <1> QED
    BY <1>1, <1>8, <1>10, OneRequest

LEMMA SessionInit == Init => SessionInv
  <1> SUFFICES ASSUME Init PROVE SessionInv
    OBVIOUS
  <1>1. /\ traces = [s \in Sessions |-> NoTrace] /\ windows = [w \in Windows |-> Closed]
        /\ used = {} /\ requests = [w \in Windows |-> NoRequest] /\ clock = 0
    BY DEF Init
  <1>2. NoTrace \in TraceValues /\ NoTrace.start = 0 /\ NoTrace.mtime = 0 /\ NoTrace.turns = FALSE
        /\ NoTrace.there = FALSE
    BY DEF NoTrace, TraceValues
  <1>3. Closed \in WindowValues /\ Closed.in = "none"
    BY DEF Closed, WindowValues, MaybeSession
  <1>4. NoRequest \in RequestValues /\ NoRequest.pc = "none"
    BY NoRequestType DEF NoRequest
  <1>5. SessionTypes
    BY <1>1, <1>2, <1>3, <1>4 DEF SessionTypes, Clocked
  <1>6. Opened /\ Apart /\ Turnless
    BY <1>1, <1>2, <1>3 DEF Opened, Apart, Turnless
  <1>7. Serving
    <2>1. ASSUME NEW w \in Windows PROVE Served(requests[w], windows[w], used, traces)
      BY <1>1, <1>4 DEF Served, Asking, ReadsWell, WellAnswered
    <2> QED
      BY <2>1 DEF Serving
  <1>8. Listable
    <2>1. Present(traces) = {}
      BY <1>1, <1>2 DEF Present
    <2> QED
      BY <2>1, FS_EmptySet DEF Listable
  <1> QED
    BY <1>5, <1>6, <1>7, <1>8 DEF SessionInv

LEMMA ProcessLeavesSessions ==
  ASSUME NEW p \in Procs, Process(p)
  PROVE  UNCHANGED <<traces, windows, used, requests, clock>>
  BY DEF Process, ReadLocal, Decide, Compare, CannotWrite, Replace, OpenSkills, ReadSkill,
         WriteSkill, WriteManifest, SkillsFail, ReadRegistry, WriteRegistry, Crash, sessions

LEMMA SessionStep == SessionInv /\ [Next]_vars => SessionInv'
  <1> SUFFICES ASSUME SessionInv, [Next]_vars PROVE SessionInv'
    OBVIOUS
  <1>1. CASE Commanded
    BY <1>1, QuietStep DEF Commanded, StartRun, sessions
  <1>2. CASE \E p \in Procs : Process(p)
    BY <1>2, ProcessLeavesSessions, QuietStep
  <1>3. CASE User
    BY <1>3, QuietStep DEF User, SaveSettings, SaveSkill, SaveRegistry, ChangeDisk, sessions
  <1>4. CASE Claude
    <2>1. ASSUME NEW w \in Windows, NEW s \in Sessions, Open(w, s, s) \/ Open(w, s, "none")
          PROVE  SessionInv'
      BY <2>1, OpenStep
    <2>2. ASSUME NEW w \in Windows, NEW s \in Sessions, Clear(w, s) PROVE SessionInv'
      BY <2>2, ClearStep
    <2>3. ASSUME NEW w \in Windows, Work(w) PROVE SessionInv'
      BY <2>3, WorkStep
    <2>4. ASSUME NEW w \in Windows, Close(w) PROVE SessionInv'
      BY <2>4, CloseStep
    <2>5. ASSUME NEW s \in Sessions, DeleteTrace(s) PROVE SessionInv'
      BY <2>5, DeleteStep
    <2> QED
      BY <1>4, <2>1, <2>2, <2>3, <2>4, <2>5 DEF Claude
  <1>5. CASE Server
    <2>1. ASSUME NEW w \in Windows, NEW kind \in {"status", "declare"}, NEW valid \in BOOLEAN,
                 Ask(w, kind, valid)
          PROVE  SessionInv'
      BY <2>1, AskStep
    <2>2. ASSUME NEW w \in Windows, NEW s \in Sessions, Stat(w, s) PROVE SessionInv'
      BY <2>2, StatStep
    <2>3. ASSUME NEW w \in Windows, Resolve(w) \/ Emit(w) PROVE SessionInv'
      BY <2>3, ResolveStep, EmitStep
    <2>4. ASSUME NEW w \in Windows, NEW listing \in SessionListings(traces), MeasuredRead(w, listing)
          PROVE  SessionInv'
      BY <2>4, MeasuredStep
    <2> QED
      BY <1>5, <2>1, <2>2, <2>3, <2>4 DEF Server
  <1>6. CASE Tick
    BY <1>6, QuietStep DEF Tick, sessions
  <1>7. CASE \E listing \in SessionListings(traces) : Show(listing)
    BY <1>7, QuietStep DEF Show
  <1>8. CASE UNCHANGED vars
    BY <1>8, QuietStep DEF vars, sessions
  <1> QED
    BY <1>1, <1>2, <1>3, <1>4, <1>5, <1>6, <1>7, <1>8 DEF Next

(***************************************************************************)
(* A declaration is written to the session that asks for it or refused,    *)
(* and a measured read never names that session, for any number of         *)
(* windows and sessions, any windows of freshness, and however scans,      *)
(* hooks, declarations, /clear, deletions and time are interleaved.        *)
(***************************************************************************)
THEOREM Attributes == Spec => []SessionsAreTheirOwn
  <1>1. SessionInv => SessionsAreTheirOwn
    <2> SUFFICES ASSUME SessionInv PROVE SessionsAreTheirOwn
      OBVIOUS
    <2>1. ASSUME NEW w \in Windows PROVE WellAnswered(requests[w]) /\ requests[w].certain \in BOOLEAN
      BY DEF SessionInv, SessionTypes, Serving, Served, RequestValues
    <2> QED
      BY <2>1 DEF SessionsAreTheirOwn, OwnOrNothing, NeverReadsOwnLive, WellAnswered
  <1> QED
    BY <1>1, SessionInit, SessionStep, PTL DEF Spec


-----------------------------------------------------------------------------
(***************************************************************************)
(* An append leaves the start of a trace alone, and the order of sessions  *)
(* is that of their starts.                                                *)
(***************************************************************************)
StartsKept ==
  \A s \in Sessions : traces[s].there = TRUE /\ traces'[s].there = TRUE =>
    traces'[s].start = traces[s].start

LEMMA TouchKeepsStart ==
  ASSUME SessionTypes, NEW s \in Sessions, NEW trace \in TraceValues,
         traces[s].there = TRUE => trace.start = traces[s].start, Touch(s, trace)
  PROVE  StartsKept
  <1>1. traces \in [Sessions -> TraceValues] /\ clock \in Nat
    BY DEF SessionTypes
  <1> DEFINE t == [trace EXCEPT !.there = TRUE, !.mtime = clock,
                                !.start = IF traces[s].there THEN @ ELSE clock]
  <1>2. traces' = [traces EXCEPT ![s] = t]
    BY DEF Touch
  <1>3. traces[s].there = TRUE => t.start = traces[s].start
    BY DEF TraceValues
  <1> HIDE DEF t
  <1> QED
    BY <1>1, <1>2, <1>3 DEF StartsKept

LEMMA WorkKeepsStart ==
  ASSUME SessionInv, NEW w \in Windows, Work(w)
  PROVE  StartsKept
  <1> DEFINE s == windows[w].in
  <1>1. s \in Sessions /\ SessionTypes /\ traces[s] \in TraceValues
    <2>1. s # "none"
      BY DEF Work
    <2> QED
      BY <2>1 DEF SessionInv, SessionTypes, WindowValues, MaybeSession
  <1>2. CASE UNCHANGED traces
    BY <1>2 DEF StartsKept
  <1> DEFINE kept == [traces[s] EXCEPT !.transient = FALSE]
             fresh == [NoTrace EXCEPT !.transient = TRUE]
  <1>3. /\ kept \in TraceValues /\ kept.start = traces[s].start
        /\ fresh \in TraceValues
    BY <1>1 DEF TraceValues, NoTrace
  <1>4. UNCHANGED traces \/ Touch(s, kept) \/ (~traces[s].there /\ Touch(s, fresh))
    BY DEF Work
  <1> HIDE DEF s, kept, fresh
  <1>5. CASE Touch(s, kept)
    BY <1>1, <1>3, <1>5, TouchKeepsStart
  <1>6. CASE ~traces[s].there /\ Touch(s, fresh)
    BY <1>1, <1>3, <1>6, TouchKeepsStart
  <1> QED
    BY <1>2, <1>4, <1>5, <1>6

LEMMA EndKeepsStart ==
  ASSUME SessionInv, NEW w \in Windows, windows[w].in # "none", EndSession(w)
  PROVE  StartsKept
  <1> DEFINE s == windows[w].in
             kept == [traces[s] EXCEPT !.turns = TRUE, !.transient = FALSE]
  <1>1. s \in Sessions /\ SessionTypes /\ traces[s] \in TraceValues
    BY DEF SessionInv, SessionTypes, WindowValues, MaybeSession
  <1>2. kept \in TraceValues /\ kept.start = traces[s].start
    BY <1>1 DEF TraceValues
  <1>3. UNCHANGED traces \/ Touch(s, kept)
    BY DEF EndSession
  <1> HIDE DEF s, kept
  <1>4. CASE UNCHANGED traces
    BY <1>4 DEF StartsKept
  <1>5. CASE Touch(s, kept)
    BY <1>1, <1>2, <1>5, TouchKeepsStart
  <1> QED
    BY <1>3, <1>4, <1>5

LEMMA EmitKeepsStart ==
  ASSUME SessionInv, NEW w \in Windows, Emit(w)
  PROVE  StartsKept
  <1> DEFINE s == requests[w].target.session
             kept == [traces[s] EXCEPT !.transient = FALSE]
  <1>1. s \in Sessions /\ SessionTypes /\ traces[s] \in TraceValues
    <2>1. requests[w].pc = "emit" /\ Asking(requests[w], windows[w], used)
      BY DEF Emit, SessionInv, Serving, Served
    <2> QED
      BY <2>1 DEF SessionInv, SessionTypes, Asking
  <1>2. kept \in TraceValues /\ kept.start = traces[s].start
    BY <1>1 DEF TraceValues
  <1>3. UNCHANGED traces \/ Touch(s, kept)
    BY DEF Emit
  <1> HIDE DEF s, kept
  <1>4. CASE UNCHANGED traces
    BY <1>4 DEF StartsKept
  <1>5. CASE Touch(s, kept)
    BY <1>1, <1>2, <1>5, TouchKeepsStart
  <1> QED
    BY <1>3, <1>4, <1>5

LEMMA DeleteKeepsStart ==
  ASSUME SessionInv, NEW s \in Sessions, DeleteTrace(s)
  PROVE  StartsKept
  <1>1. traces' = [traces EXCEPT ![s] = NoTrace] /\ traces \in [Sessions -> TraceValues]
    BY DEF DeleteTrace, SessionInv, SessionTypes
  <1> QED
    BY <1>1 DEF StartsKept, NoTrace

LEMMA StepKeepsStart == SessionInv /\ [Next]_vars => StartsKept
  <1> SUFFICES ASSUME SessionInv, [Next]_vars PROVE StartsKept
    OBVIOUS
  <1>1. CASE UNCHANGED traces
    BY <1>1 DEF StartsKept
  <1>2. CASE Commanded
    BY <1>2, <1>1 DEF Commanded, StartRun, sessions
  <1>3. CASE \E p \in Procs : Process(p)
    BY <1>3, <1>1, ProcessLeavesSessions
  <1>4. CASE User
    BY <1>4, <1>1 DEF User, SaveSettings, SaveSkill, SaveRegistry, ChangeDisk, sessions
  <1>5. CASE Claude
    <2>1. ASSUME NEW w \in Windows, NEW s \in Sessions, Open(w, s, s) \/ Open(w, s, "none")
          PROVE  StartsKept
      BY <2>1, <1>1 DEF Open
    <2>2. ASSUME NEW w \in Windows, NEW s \in Sessions, Clear(w, s) PROVE StartsKept
      BY <2>2, EndKeepsStart DEF Clear
    <2>3. ASSUME NEW w \in Windows, Close(w) PROVE StartsKept
      BY <2>3, EndKeepsStart DEF Close
    <2> QED
      BY <1>5, <2>1, <2>2, <2>3, WorkKeepsStart, DeleteKeepsStart DEF Claude
  <1>6. CASE Server
    <2>1. ASSUME NEW w \in Windows, Emit(w) PROVE StartsKept
      BY <2>1, EmitKeepsStart
    <2>2. CASE UNCHANGED traces
      BY <2>2, <1>1
    <2> QED
      BY <1>6, <2>1, <2>2 DEF Server, Ask, Stat, Resolve, MeasuredRead
  <1>7. CASE Tick \/ (\E listing \in SessionListings(traces) : Show(listing)) \/ UNCHANGED vars
    BY <1>7, <1>1 DEF Tick, Show, vars, sessions
  <1> QED
    BY <1>2, <1>3, <1>4, <1>5, <1>6, <1>7 DEF Next

LEMMA SameStartsSameListings ==
  ASSUME NEW a \in [Sessions -> TraceValues], NEW b \in [Sessions -> TraceValues],
         Present(a) = Present(b), \A s \in Present(a) : a[s].start = b[s].start,
         \A s, u \in Present(a) : a[s].start = a[u].start => s = u
  PROVE  SessionListings(a) = SessionListings(b)
  <1> DEFINE S == Present(a)
             D == 1..Cardinality(S)
  <1>1. ASSUME NEW q \in SetToSeqs(S)
        PROVE  (\A i, j \in DOMAIN q : i < j => ~Newer(a[q[j]], a[q[i]]))
                 <=> (\A i, j \in DOMAIN q : i < j => ~Newer(b[q[j]], b[q[i]]))
    <2>1. q \in [D -> S] /\ \A i, j \in D : i # j => q[i] # q[j]
      BY DEF SetToSeqs
    <2>2. ASSUME NEW i \in D, NEW j \in D, i < j
          PROVE  Newer(a[q[j]], a[q[i]]) <=> Newer(b[q[j]], b[q[i]])
      <3>1. i # j
        BY <2>2
      <3>2. q[i] \in S /\ q[j] \in S /\ q[i] # q[j]
        BY <2>1, <3>1
      <3>3. /\ a[q[i]].start = b[q[i]].start /\ a[q[j]].start = b[q[j]].start
            /\ a[q[i]].start # a[q[j]].start
        BY <3>2
      <3> QED
        BY <3>3 DEF Newer
    <2>3. DOMAIN q = D
      BY <2>1
    <2> QED
      BY <2>2, <2>3
  <1> QED
    BY <1>1 DEF SessionListings

(***************************************************************************)
(* As long as no trace comes or goes, no step reorders the sessions: the   *)
(* listings that the commands call "latest" from are the same before and   *)
(* after it, provided that no two sessions began in the same instant.      *)
(***************************************************************************)
THEOREM Latest == Spec => LatestIsStable
  <1>1. ASSUME SessionInv, SessionInv', [Next]_vars,
               Present(traces)' = Present(traces),
               \A s, u \in Present(traces) : traces[s].start = traces[u].start => s = u
        PROVE  SessionListings(traces)' = SessionListings(traces)
    <2>1. StartsKept
      BY <1>1, StepKeepsStart
    <2>2. traces \in [Sessions -> TraceValues] /\ traces' \in [Sessions -> TraceValues]
      BY <1>1 DEF SessionInv, SessionTypes
    <2>3. Present(traces') = Present(traces)
      BY <1>1
    <2>4. ASSUME NEW s \in Present(traces) PROVE traces[s].start = traces'[s].start
      <3>1. s \in Sessions /\ traces[s].there = TRUE /\ traces'[s].there = TRUE
        BY <2>2, <2>3 DEF Present, TraceValues
      <3> QED
        BY <2>1, <3>1 DEF StartsKept
    <2>5. SessionListings(traces) = SessionListings(traces')
      BY <1>1, <2>2, <2>3, <2>4, SameStartsSameListings
    <2> QED
      BY <2>5
  <1>2. SessionInv /\ SessionInv' /\ [Next]_vars =>
          [Present(traces)' = Present(traces)
             /\ (\A s, u \in Present(traces) : traces[s].start = traces[u].start => s = u)
             => SessionListings(traces)' = SessionListings(traces)]_vars
    BY <1>1
  <1> QED
    BY <1>2, SessionInit, SessionStep, PTL DEF Spec, LatestIsStable

-----------------------------------------------------------------------------
(***************************************************************************)
(* Positions in their order: Nth counts them, and what is taken of what is *)
(* taken comes in the same order.                                          *)
(***************************************************************************)
Rank(positions, i) == Cardinality({j \in positions : j <= i})

LEMMA RankType ==
  ASSUME NEW S \in SUBSET Nat, IsFiniteSet(S), NEW i \in S
  PROVE  Cardinality(S) \in Nat /\ Rank(S, i) \in 1..Cardinality(S)
  <1> DEFINE T == {j \in S : j <= i}
  <1>1. T \in SUBSET S /\ i \in T
    OBVIOUS
  <1>2. IsFiniteSet(T) /\ Cardinality(T) <= Cardinality(S)
    BY <1>1, FS_Subset
  <1>3. Cardinality(T) \in Nat /\ Cardinality(S) \in Nat
    BY <1>2, FS_CardinalityType
  <1>4. Cardinality(T) # 0
    BY <1>1, <1>2, FS_EmptySet
  <1> QED
    BY <1>2, <1>3, <1>4 DEF Rank

LEMMA RankGrows ==
  ASSUME NEW S \in SUBSET Nat, IsFiniteSet(S), NEW i \in S, NEW k \in S, i < k
  PROVE  Rank(S, i) < Rank(S, k)
  <1> DEFINE T == {j \in S : j <= i}
             U == {j \in S : j <= k}
  <1>1. i \in Nat /\ k \in Nat /\ U \in SUBSET S
    OBVIOUS
  <1>2. T \in SUBSET U /\ k \in U /\ k \notin T
    <2>1. ASSUME NEW j \in T PROVE j \in U
      <3>1. j \in Nat /\ j \in S /\ j <= i
        OBVIOUS
      <3> QED
        BY <3>1, <1>1
    <2>2. k <= k /\ ~(k <= i)
      BY <1>1
    <2> QED
      BY <2>1, <2>2
  <1>3. IsFiniteSet(U)
    BY <1>1, FS_Subset
  <1>4. IsFiniteSet(T) /\ Cardinality(T) <= Cardinality(U) /\ Cardinality(T) # Cardinality(U)
    BY <1>2, <1>3, FS_Subset
  <1>5. Cardinality(T) \in Nat /\ Cardinality(U) \in Nat
    BY <1>3, <1>4, FS_CardinalityType
  <1> QED
    BY <1>4, <1>5 DEF Rank

LEMMA NthType ==
  ASSUME NEW S \in SUBSET Nat, IsFiniteSet(S), NEW n \in 1..Cardinality(S)
  PROVE  Nth(S, n) \in S /\ Rank(S, Nth(S, n)) = n
  <1> DEFINE N == Cardinality(S)
             rank == [i \in S |-> Rank(S, i)]
  <1>1. N \in Nat
    BY FS_CardinalityType
  <1>2. IsFiniteSet(1..N) /\ Cardinality(1..N) = N
    BY <1>1, FS_Interval
  <1>3. rank \in [S -> 1..N]
    BY RankType
  <1>4. ASSUME NEW i \in S, NEW j \in S, rank[i] = rank[j] PROVE i = j
    <2>1. Rank(S, i) = Rank(S, j) /\ Rank(S, i) \in Nat /\ i \in Nat /\ j \in Nat
      BY <1>4, RankType
    <2>2. ~(i < j) /\ ~(j < i)
      BY <2>1, RankGrows
    <2> QED
      BY <2>1, <2>2
  <1>5. rank \in Injection(S, 1..N)
    BY <1>3, <1>4 DEF Injection, IsInjective
  <1>6. rank \in Surjection(S, 1..N)
    <2> HIDE DEF rank
    <2> QED
      BY <1>2, <1>5, FS_Injection
  <1>7. \E i \in S : rank[i] = n
    <2> HIDE DEF rank
    <2> QED
      BY <1>6 DEF Surjection
  <1>8. \E i \in S : Cardinality({j \in S : j <= i}) = n
    BY <1>7 DEF Rank
  <1> QED
    BY <1>8 DEF Nth, Rank

LEMMA NthOfRank ==
  ASSUME NEW S \in SUBSET Nat, IsFiniteSet(S), NEW i \in S
  PROVE  Nth(S, Rank(S, i)) = i
  <1> DEFINE k == Nth(S, Rank(S, i))
  <1>1. Rank(S, i) \in 1..Cardinality(S)
    BY RankType
  <1>2. k \in S /\ Rank(S, k) = Rank(S, i)
    BY <1>1, NthType
  <1> HIDE DEF k
  <1>3. Rank(S, i) \in Nat /\ k \in Nat /\ i \in Nat
    BY <1>2, RankType
  <1>4. ~(i < k) /\ ~(k < i)
    BY <1>2, <1>3, RankGrows
  <1>5. k = i
    BY <1>3, <1>4
  <1> QED
    BY <1>5 DEF k

LEMMA NthRises ==
  ASSUME NEW S \in SUBSET Nat, IsFiniteSet(S), NEW m \in 1..Cardinality(S),
         NEW n \in 1..Cardinality(S)
  PROVE  m <= n <=> Nth(S, m) <= Nth(S, n)
  <1> DEFINE a == Nth(S, m)
             b == Nth(S, n)
  <1>1. a \in S /\ b \in S /\ Rank(S, a) = m /\ Rank(S, b) = n
    BY NthType
  <1>2. Cardinality(S) \in Nat
    BY FS_CardinalityType
  <1> HIDE DEF a, b
  <1>3. a \in Nat /\ b \in Nat /\ m \in Nat /\ n \in Nat
    BY <1>1, <1>2
  <1>4. (a < b => m < n) /\ (b < a => n < m)
    BY <1>1, RankGrows
  <1>5. a = b => m = n
    BY <1>1
  <1>6. m <= n <=> a <= b
    BY <1>3, <1>4, <1>5
  <1> QED
    BY <1>6 DEF a, b

LEMMA NthOfAll ==
  ASSUME NEW N \in Nat, NEW n \in 1..N
  PROVE  Nth(1..N, n) = n
  <1>1. {j \in 1..N : j <= n} = 1..n
    OBVIOUS
  <1>2. Cardinality(1..n) = n
    BY FS_Interval
  <1>3. Rank(1..N, n) = n
    BY <1>1, <1>2 DEF Rank
  <1>4. IsFiniteSet(1..N) /\ 1..N \in SUBSET Nat
    BY FS_Interval
  <1> QED
    BY <1>3, <1>4, NthOfRank

\* Among the positions S are those in F; they are as many, and in the same order,
\* as their places in S.
LEMMA NthThrough ==
  ASSUME NEW S \in SUBSET Nat, IsFiniteSet(S), NEW F \in SUBSET S
  PROVE  LET places == {n \in 1..Cardinality(S) : Nth(S, n) \in F}
         IN /\ Cardinality(places) = Cardinality(F)
            /\ \A k \in 1..Cardinality(F) :
                 Nth(places, k) \in 1..Cardinality(S) /\ Nth(S, Nth(places, k)) = Nth(F, k)
  <1> DEFINE N == Cardinality(S)
             places == {n \in 1..N : Nth(S, n) \in F}
             to == [n \in places |-> Nth(S, n)]
  <1>1. N \in Nat /\ IsFiniteSet(F)
    BY FS_CardinalityType, FS_Subset
  <1>2. places \in SUBSET Nat /\ IsFiniteSet(places) /\ places \subseteq 1..N
    <2>1. places \in SUBSET (1..N) /\ IsFiniteSet(1..N)
      BY <1>1, FS_Interval
    <2>2. 1..N \in SUBSET Nat
      OBVIOUS
    <2> HIDE DEF places
    <2> QED
      BY <2>1, <2>2, FS_Subset
  <1>3. ASSUME NEW m \in 1..N, NEW n \in 1..N
        PROVE  m <= n <=> Nth(S, m) <= Nth(S, n)
    BY NthRises
  <1>4. \A n \in 1..N : Nth(S, n) \in S /\ Nth(S, n) \in Nat /\ Rank(S, Nth(S, n)) = n
    BY NthType
  <1>5. \A i \in F : \E n \in places : Nth(S, n) = i
    <2> SUFFICES ASSUME NEW i \in F PROVE \E n \in places : Nth(S, n) = i
      OBVIOUS
    <2>1. Rank(S, i) \in 1..N /\ Nth(S, Rank(S, i)) = i
      BY RankType, NthOfRank
    <2> QED
      BY <2>1
  <1>6. to \in Bijection(places, F)
    <2>1. to \in [places -> F]
      OBVIOUS
    <2>2. \A m, n \in places : to[m] = to[n] => m = n
      BY <1>4
    <2>3. \A i \in F : \E n \in places : to[n] = i
      BY <1>5
    <2> HIDE DEF to, places
    <2> QED
      BY <2>1, <2>2, <2>3 DEF Bijection, Injection, Surjection, IsInjective
  <1>7. Cardinality(places) = Cardinality(F)
    <2> HIDE DEF to, places
    <2>1. ExistsBijection(places, F)
      BY <1>6 DEF ExistsBijection
    <2> QED
      BY <1>2, <2>1, FS_Bijection
  <1>8. ASSUME NEW k \in 1..Cardinality(F)
        PROVE  Nth(places, k) \in 1..N /\ Nth(S, Nth(places, k)) = Nth(F, k)
    <2> DEFINE n == Nth(places, k)
               i == Nth(S, n)
               below == {m \in places : m <= n}
               under == {j \in F : j <= i}
    <2>1. n \in places /\ Rank(places, n) = k
      <3> HIDE DEF places
      <3> QED
        BY <1>2, <1>7, NthType
    <2> HIDE DEF n
    <2>2. n \in 1..N /\ i \in F /\ i \in Nat
      BY <2>1, <1>4
    <2>3. ASSUME NEW m \in below PROVE Nth(S, m) \in under
      <3>1. m \in 1..N /\ m <= n /\ Nth(S, m) \in F
        OBVIOUS
      <3> QED
        BY <3>1, <2>2, <1>3
    <2>4. ASSUME NEW j \in under PROVE \E m \in below : Nth(S, m) = j
      <3>1. PICK m \in places : Nth(S, m) = j
        BY <1>5
      <3>2. m \in 1..N /\ Nth(S, m) <= Nth(S, n)
        BY <3>1
      <3>3. m <= n
        BY <3>2, <2>2, <1>3
      <3> QED
        BY <3>1, <3>3
    <2> DEFINE down == [m \in below |-> Nth(S, m)]
    <2>5. \A m, l \in below : Nth(S, m) = Nth(S, l) => m = l
      BY <1>4
    <2>6. IsFiniteSet(below)
      <3>1. below \in SUBSET places
        OBVIOUS
      <3> HIDE DEF below, places
      <3> QED
        BY <3>1, <1>2, FS_Subset
    <2> HIDE DEF below, under, i
    <2>7. down \in Bijection(below, under)
      BY <2>3, <2>4, <2>5 DEF Bijection, Injection, Surjection, IsInjective
    <2>8. Cardinality(under) = Cardinality(below)
      <3> HIDE DEF down
      <3>1. ExistsBijection(below, under)
        BY <2>7 DEF ExistsBijection
      <3> QED
        BY <3>1, <2>6, FS_Bijection
    <2>9. Rank(F, i) = k
      BY <2>1, <2>8 DEF Rank, below, under
    <2>10. Nth(F, k) = i
      BY <2>2, <2>9, <1>1, NthOfRank
    <2> QED
      BY <2>2, <2>10 DEF n, i
  <1> QED
    BY <1>7, <1>8

-----------------------------------------------------------------------------
(***************************************************************************)
(* What converging the entries of one event leaves: the foreign entries in *)
(* their order, and one entry of Sentience's.                              *)
(***************************************************************************)
LEMMA EntryShape ==
  ASSUME NEW entry \in EntryValues
  PROVE  /\ entry.plain \in BOOLEAN /\ entry.commands \in Seq(Commands)
         /\ InnerCommands(entry) = {entry.commands[i] : i \in DOMAIN entry.commands}
         /\ entry.plain = TRUE => /\ Len(entry.commands) = 1
                                  /\ InnerCommands(entry) = {Head(entry.commands)}
         /\ Class(entry) \in {"managed", "ambiguous", "foreign"}
         /\ Class(entry) = "managed" => entry.plain = TRUE /\ Head(entry.commands) \in Named
         /\ Class(entry) = "foreign" => InnerCommands(entry) \intersect Mentions = {}
  <1>1. entry.plain \in BOOLEAN /\ entry.commands \in Seq(Commands)
    BY DEF EntryValues
  <1>2. entry.plain = TRUE => Len(entry.commands) = 1
    BY DEF EntryValues
  <1>3. InnerCommands(entry) = {entry.commands[i] : i \in DOMAIN entry.commands}
    BY DEF InnerCommands, Range
  <1> DEFINE s == entry.commands
  <1> HIDE DEF s
  <1>4. entry.plain = TRUE => InnerCommands(entry) = {Head(s)}
    <2> SUFFICES ASSUME entry.plain = TRUE PROVE InnerCommands(entry) = {Head(s)}
      OBVIOUS
    <2>1. s \in Seq(Commands) /\ Len(s) = 1
      BY <1>1, <1>2 DEF s
    <2>2. DOMAIN s = {1} /\ Head(s) = s[1]
      BY <2>1
    <2> QED
      BY <1>3, <2>2 DEF s
  <1>5. Class(entry) \in {"managed", "ambiguous", "foreign"}
    BY DEF Class
  <1>6. Class(entry) = "managed" => entry.plain = TRUE /\ Head(entry.commands) \in Named
    BY DEF Class, CommandIsManaged
  <1>7. Class(entry) = "foreign" => InnerCommands(entry) \intersect Mentions = {}
    BY DEF Class
  <1> QED
    BY <1>1, <1>2, <1>3, <1>4, <1>5, <1>6, <1>7 DEF s

LEMMA CanonicalShape ==
  ASSUME NEW binary \in Named
  PROVE  /\ CanonicalEntry(binary) \in EntryValues /\ Class(CanonicalEntry(binary)) = "managed"
         /\ InnerCommands(CanonicalEntry(binary)) = {binary}
  <1> DEFINE e == CanonicalEntry(binary)
  <1>1. binary \in Commands
    BY CommandAssumption
  <1>2. e.plain = TRUE /\ e.commands = <<binary>> /\ <<binary>> \in Seq(Commands)
    BY <1>1 DEF CanonicalEntry
  <1>3. e \in EntryValues
    <2>1. e \in [plain : BOOLEAN, commands : Seq(Commands)] /\ Len(e.commands) = 1
      BY <1>2 DEF CanonicalEntry
    <2> HIDE DEF e
    <2> QED
      BY <2>1 DEF EntryValues
  <1> HIDE DEF e
  <1>4. Head(e.commands) = binary
    BY <1>2
  <1>5. Class(e) = "managed"
    BY <1>2, <1>4 DEF Class, CommandIsManaged
  <1>6. InnerCommands(e) = {binary}
    BY <1>2, <1>3, <1>4, EntryShape
  <1> QED
    BY <1>3, <1>5, <1>6 DEF e

Managed(entries) == {i \in DOMAIN entries : Class(entries[i]) = "managed"}
Foreigners(entries) == {i \in DOMAIN entries : Class(entries[i]) = "foreign"}

\* Where the canonical entry goes, which positions are taken, and what stands there.
Seat(entries) ==
  IF Managed(entries) = {} THEN Len(entries) + 1
  ELSE CHOOSE i \in Managed(entries) : \A j \in Managed(entries) : i <= j
Seats(entries) == (DOMAIN entries \ Managed(entries)) \union {Seat(entries)}
Placed(entries, binary) ==
  [i \in DOMAIN entries \union {Seat(entries)} |->
     IF i = Seat(entries) THEN CanonicalEntry(binary) ELSE entries[i]]

LEMMA ConvergeIsTaken ==
  ASSUME NEW entries, NEW binary
  PROVE  ConvergeEntries(entries, binary) = Taken(Placed(entries, binary), Seats(entries))
  BY DEF ConvergeEntries, Placed, Seats, Seat, Managed

LEMMA SeatShape ==
  ASSUME NEW entries \in Seq(EntryValues)
  PROVE  /\ Len(entries) \in Nat /\ DOMAIN entries = 1..Len(entries)
         /\ Seat(entries) \in 1..(Len(entries) + 1)
         /\ Seat(entries) \in DOMAIN entries => Seat(entries) \in Managed(entries)
         /\ Managed(entries) # {} =>
              Seat(entries) \in Managed(entries) /\ \A j \in Managed(entries) : Seat(entries) <= j
         /\ Managed(entries) = {} => Seat(entries) = Len(entries) + 1
         /\ Seats(entries) \in SUBSET Nat /\ IsFiniteSet(Seats(entries))
         /\ Seats(entries) \subseteq DOMAIN entries \union {Seat(entries)}
  <1>1. Len(entries) \in Nat /\ DOMAIN entries = 1..Len(entries)
    OBVIOUS
  <1>2. Managed(entries) \in SUBSET Nat /\ Managed(entries) \subseteq DOMAIN entries
    BY <1>1 DEF Managed
  <1>3. Managed(entries) # {} =>
          Seat(entries) \in Managed(entries) /\ \A j \in Managed(entries) : Seat(entries) <= j
    <2> SUFFICES ASSUME Managed(entries) # {}
                 PROVE  /\ Seat(entries) \in Managed(entries)
                        /\ \A j \in Managed(entries) : Seat(entries) <= j
      OBVIOUS
    <2>1. \E i \in Managed(entries) : \A j \in Managed(entries) : i <= j
      BY <1>2, Least
    <2> QED
      BY <2>1 DEF Seat
  <1>4. Managed(entries) = {} => Seat(entries) = Len(entries) + 1
    BY DEF Seat
  <1>5. Seat(entries) \in 1..(Len(entries) + 1)
    BY <1>1, <1>2, <1>3, <1>4
  <1>6. Seat(entries) \in DOMAIN entries => Seat(entries) \in Managed(entries)
    BY <1>1, <1>3, <1>4
  <1>7. Seats(entries) \in SUBSET (1..(Len(entries) + 1))
    BY <1>1, <1>5 DEF Seats
  <1>8. IsFiniteSet(1..(Len(entries) + 1))
    BY <1>1, FS_Interval
  <1>9. IsFiniteSet(Seats(entries))
    BY <1>7, <1>8, FS_Subset
  <1>10. Seats(entries) \in SUBSET Nat
    BY <1>1, <1>7
  <1>11. Seats(entries) \subseteq DOMAIN entries \union {Seat(entries)}
    BY DEF Seats
  <1> QED
    BY <1>1, <1>3, <1>4, <1>5, <1>6, <1>9, <1>10, <1>11

\* The n-th entry of what converging leaves.
LEMMA ConvergedEntry ==
  ASSUME NEW entries \in Seq(EntryValues), NEW binary \in Named
  PROVE  LET result == ConvergeEntries(entries, binary)
             S == Seats(entries)
         IN /\ result \in Seq(EntryValues) /\ Len(result) = Cardinality(S)
            /\ Cardinality(S) \in Nat
            /\ \A n \in 1..Cardinality(S) :
                 /\ Nth(S, n) \in S
                 /\ result[n] = IF Nth(S, n) = Seat(entries) THEN CanonicalEntry(binary)
                                ELSE entries[Nth(S, n)]
                 /\ Nth(S, n) # Seat(entries) =>
                      Nth(S, n) \in DOMAIN entries /\ Nth(S, n) \notin Managed(entries)
  <1> DEFINE S == Seats(entries)
             N == Cardinality(S)
             result == ConvergeEntries(entries, binary)
  <1>1. S \in SUBSET Nat /\ IsFiniteSet(S)
    BY SeatShape
  <1>2. N \in Nat
    BY <1>1, FS_CardinalityType
  <1>3. result = [n \in 1..N |-> Placed(entries, binary)[Nth(S, n)]]
    BY ConvergeIsTaken DEF Taken
  <1> HIDE DEF result
  <1>4. ASSUME NEW n \in 1..N
        PROVE  /\ Nth(S, n) \in S
               /\ result[n] = IF Nth(S, n) = Seat(entries) THEN CanonicalEntry(binary)
                              ELSE entries[Nth(S, n)]
               /\ Nth(S, n) # Seat(entries) =>
                    Nth(S, n) \in DOMAIN entries /\ Nth(S, n) \notin Managed(entries)
               /\ result[n] \in EntryValues
    <2>1. Nth(S, n) \in S
      <3> HIDE DEF S
      <3> QED
        BY <1>1, NthType
    <2>2. Nth(S, n) # Seat(entries) =>
            Nth(S, n) \in DOMAIN entries /\ Nth(S, n) \notin Managed(entries)
      BY <2>1 DEF Seats
    <2>3. result[n] = Placed(entries, binary)[Nth(S, n)]
      BY <1>3
    <2>4. result[n] = IF Nth(S, n) = Seat(entries) THEN CanonicalEntry(binary)
                      ELSE entries[Nth(S, n)]
      BY <2>2, <2>3 DEF Placed
    <2>5. \A i \in DOMAIN entries : entries[i] \in EntryValues
      OBVIOUS
    <2>6. result[n] \in EntryValues
      BY <2>2, <2>4, <2>5, CanonicalShape
    <2> QED
      BY <2>1, <2>2, <2>4, <2>6
  <1>5. result \in [1..N -> EntryValues]
    BY <1>3, <1>4
  <1>6. result \in Seq(EntryValues) /\ Len(result) = N
    BY <1>2, <1>3, <1>5
  <1> QED
    BY <1>2, <1>4, <1>6 DEF result

\* One entry is managed, it is the canonical one, and the others were there.
LEMMA ConvergedOnce ==
  ASSUME NEW entries \in Seq(EntryValues), NEW binary \in Named
  PROVE  LET result == ConvergeEntries(entries, binary)
         IN /\ \E m \in DOMAIN result : /\ result[m] = CanonicalEntry(binary)
                                        /\ Managed(result) = {m}
            /\ \A n \in DOMAIN result : \/ result[n] = CanonicalEntry(binary)
                                        \/ \E i \in DOMAIN entries : result[n] = entries[i] /\
                                             Class(entries[i]) # "managed"
  <1> DEFINE S == Seats(entries)
             N == Cardinality(S)
             result == ConvergeEntries(entries, binary)
             at == Seat(entries)
             m == Rank(S, at)
  <1>1. /\ result \in Seq(EntryValues) /\ Len(result) = N /\ N \in Nat
        /\ \A n \in 1..N :
             /\ result[n] = IF Nth(S, n) = at THEN CanonicalEntry(binary) ELSE entries[Nth(S, n)]
             /\ Nth(S, n) # at => Nth(S, n) \in DOMAIN entries /\ Nth(S, n) \notin Managed(entries)
    BY ConvergedEntry
  <1>2. S \in SUBSET Nat /\ IsFiniteSet(S) /\ at \in S
    BY SeatShape DEF Seats
  <1> HIDE DEF S, at, result
  <1>3. m \in 1..N /\ Nth(S, m) = at
    BY <1>2, RankType, NthOfRank
  <1>4. \A n \in 1..N : Rank(S, Nth(S, n)) = n
    BY <1>2, NthType
  <1>5. DOMAIN result = 1..N
    BY <1>1
  <1> HIDE DEF m, N
  <1>6. result[m] = CanonicalEntry(binary)
    BY <1>1, <1>3
  <1>7. ASSUME NEW n \in 1..N, n # m
        PROVE  /\ Nth(S, n) \in DOMAIN entries /\ result[n] = entries[Nth(S, n)]
               /\ Class(entries[Nth(S, n)]) # "managed"
    <2>1. Nth(S, n) # at
      BY <1>7, <1>4, <1>3
    <2> QED
      BY <1>1, <2>1 DEF Managed
  <1>8. Managed(result) = {m}
    BY <1>3, <1>5, <1>6, <1>7, CanonicalShape DEF Managed
  <1>9. \A n \in 1..N : \/ result[n] = CanonicalEntry(binary)
                        \/ \E i \in DOMAIN entries : result[n] = entries[i] /\ Class(entries[i]) # "managed"
    BY <1>6, <1>7
  <1> QED
    BY <1>3, <1>5, <1>6, <1>8, <1>9 DEF result

\* What converging leaves is left by converging.
LEMMA ConvergesOnce ==
  ASSUME NEW entries \in Seq(EntryValues), NEW binary \in Named
  PROVE  LET result == ConvergeEntries(entries, binary)
         IN ConvergeEntries(result, binary) = result
  <1> DEFINE result == ConvergeEntries(entries, binary)
             N == Len(result)
  <1>1. result \in Seq(EntryValues)
    BY ConvergedEntry
  <1>2. PICK m \in DOMAIN result : result[m] = CanonicalEntry(binary) /\ Managed(result) = {m}
    BY ConvergedOnce
  <1> HIDE DEF result
  <1>3. N \in Nat /\ DOMAIN result = 1..N
    BY <1>1
  <1>4. Seat(result) = m
    BY <1>1, <1>2, SeatShape
  <1>5. Seats(result) = 1..N
    BY <1>2, <1>3, <1>4 DEF Seats
  <1>6. Cardinality(1..N) = N
    <2> HIDE DEF N
    <2> QED
      BY <1>3, FS_Interval
  <1>7. /\ Len(ConvergeEntries(result, binary)) = N
        /\ ConvergeEntries(result, binary) \in Seq(EntryValues)
        /\ \A n \in 1..N : ConvergeEntries(result, binary)[n] =
             IF Nth(1..N, n) = m THEN CanonicalEntry(binary) ELSE result[Nth(1..N, n)]
    BY <1>1, <1>4, <1>5, <1>6, ConvergedEntry
  <1>8. \A n \in 1..N : Nth(1..N, n) = n
    BY <1>3, NthOfAll
  <1>9. \A n \in 1..N : ConvergeEntries(result, binary)[n] = result[n]
    BY <1>2, <1>7, <1>8
  <1> DEFINE again == ConvergeEntries(result, binary)
  <1> HIDE DEF again
  <1>10. again = result
    BY <1>1, <1>3, <1>7, <1>9 DEF again
  <1> QED
    BY <1>10 DEF again, result

\* The foreign entries stay, in their order.
LEMMA ConvergeKeepsForeign ==
  ASSUME NEW entries \in Seq(EntryValues), NEW binary \in Named
  PROVE  LET result == ConvergeEntries(entries, binary)
         IN Taken(result, Foreigners(result)) = Taken(entries, Foreigners(entries))
  <1> DEFINE S == Seats(entries)
             N == Cardinality(S)
             at == Seat(entries)
             result == ConvergeEntries(entries, binary)
             F == Foreigners(entries)
             places == {n \in 1..N : Nth(S, n) \in F}
  <1>1. /\ result \in Seq(EntryValues) /\ Len(result) = N /\ N \in Nat
        /\ \A n \in 1..N :
             /\ result[n] = IF Nth(S, n) = at THEN CanonicalEntry(binary) ELSE entries[Nth(S, n)]
             /\ Nth(S, n) # at => Nth(S, n) \in DOMAIN entries
    BY ConvergedEntry
  <1>2. S \in SUBSET Nat /\ IsFiniteSet(S)
    BY SeatShape
  <1>3. at \notin F /\ F \in SUBSET S
    <2>1. at \in DOMAIN entries => at \in Managed(entries)
      BY SeatShape
    <2> QED
      BY <2>1 DEF Foreigners, Managed, Seats
  <1> HIDE DEF result
  <1>4. DOMAIN result = 1..N
    BY <1>1
  <1>5. ASSUME NEW n \in 1..N
        PROVE  Class(result[n]) = "foreign" <=> Nth(S, n) \in F
    <2>1. CASE Nth(S, n) = at
      <3>1. Class(result[n]) = "managed"
        BY <1>1, <2>1, CanonicalShape
      <3> QED
        BY <1>3, <2>1, <3>1
    <2>2. CASE Nth(S, n) # at
      BY <1>1, <2>2 DEF Foreigners
    <2> QED
      BY <2>1, <2>2
  <1>6. Foreigners(result) = places
    BY <1>4, <1>5 DEF Foreigners
  <1> HIDE DEF S, F
  <1>7. /\ Cardinality(places) = Cardinality(F)
        /\ \A k \in 1..Cardinality(F) :
             Nth(places, k) \in 1..N /\ Nth(S, Nth(places, k)) = Nth(F, k)
    BY <1>2, <1>3, NthThrough
  <1>8. IsFiniteSet(F) /\ F \in SUBSET Nat
    BY <1>2, <1>3, FS_Subset
  <1>9. \A k \in 1..Cardinality(F) : Nth(F, k) \in F
    BY <1>8, NthType
  <1> HIDE DEF places, N, at
  <1>10. \A k \in 1..Cardinality(F) : result[Nth(places, k)] = entries[Nth(F, k)]
    BY <1>1, <1>3, <1>7, <1>9
  <1>11. Taken(result, places) = Taken(entries, F)
    BY <1>7, <1>10 DEF Taken
  <1> QED
    BY <1>6, <1>11 DEF result, F

-----------------------------------------------------------------------------
(***************************************************************************)
(* A whole document, and what the planner decides of it.                   *)
(***************************************************************************)
LEMMA DocumentShape ==
  ASSUME NEW doc \in Documents
  PROVE  /\ doc.hooks \in [Events -> Seq(EntryValues)]
         /\ \A event \in Events : /\ doc.hooks[event] \in Seq(EntryValues)
                                  /\ \A i \in DOMAIN doc.hooks[event] :
                                       doc.hooks[event][i] \in EntryValues
  BY DEF Documents

LEMMA ConvergedDocument ==
  ASSUME NEW doc \in Documents, NEW binary \in Named
  PROVE  /\ Converged(doc, binary) \in Documents
         /\ Converged(doc, binary).rest = doc.rest
         /\ \A event \in Events :
              Converged(doc, binary).hooks[event] = ConvergeEntries(doc.hooks[event], binary)
         /\ ForeignEntries(Converged(doc, binary)) = ForeignEntries(doc)
         /\ Converged(Converged(doc, binary), binary) = Converged(doc, binary)
  <1> DEFINE next == Converged(doc, binary)
             hooks == [event \in Events |-> ConvergeEntries(doc.hooks[event], binary)]
  <1>1. next = [doc EXCEPT !.hooks = hooks]
    BY DEF Converged
  <1>2. \A event \in Events : doc.hooks[event] \in Seq(EntryValues)
    BY DocumentShape
  <1>3. hooks \in [Events -> Seq(EntryValues)]
    <2>1. \A event \in Events : ConvergeEntries(doc.hooks[event], binary) \in Seq(EntryValues)
      BY <1>2, ConvergedEntry
    <2> QED
      BY <2>1
  <1>4. \A event \in Events : hooks[event] = ConvergeEntries(doc.hooks[event], binary)
    OBVIOUS
  <1> HIDE DEF next, hooks
  <1>5. next \in Documents /\ next.hooks = hooks /\ next.rest = doc.rest
    BY <1>1, <1>3 DEF Documents
  <1>6. ForeignEntries(next) = ForeignEntries(doc)
    <2>1. ASSUME NEW event \in Events
          PROVE  Taken(next.hooks[event], Classified(next, event, "foreign"))
                   = Taken(doc.hooks[event], Classified(doc, event, "foreign"))
      <3>1. /\ Classified(next, event, "foreign") = Foreigners(next.hooks[event])
            /\ Classified(doc, event, "foreign") = Foreigners(doc.hooks[event])
        BY DEF Classified, Foreigners
      <3>2. Taken(next.hooks[event], Foreigners(next.hooks[event]))
              = Taken(doc.hooks[event], Foreigners(doc.hooks[event]))
        BY <1>2, <1>4, <1>5, ConvergeKeepsForeign
      <3> QED
        BY <3>1, <3>2
    <2> QED
      BY <2>1 DEF ForeignEntries
  <1>7. Converged(next, binary) = next
    <2>1. ASSUME NEW event \in Events
          PROVE  ConvergeEntries(next.hooks[event], binary) = hooks[event]
      BY <1>2, <1>4, <1>5, ConvergesOnce
    <2>2. [event \in Events |-> ConvergeEntries(next.hooks[event], binary)] = hooks
      BY <2>1, <1>3
    <2>3. Converged(next, binary) = [next EXCEPT !.hooks = hooks]
      BY <2>2 DEF Converged
    <2>4. [next EXCEPT !.hooks = hooks] = next
      BY <1>5 DEF Documents
    <2> QED
      BY <2>3, <2>4
  <1> QED
    BY <1>4, <1>5, <1>6, <1>7 DEF next

\* Every event of it has an entry of Sentience's, and nothing ambiguous.
LEMMA ConvergedClasses ==
  ASSUME NEW doc \in Documents, NEW binary \in Named,
         \A event \in Events : Classified(doc, event, "ambiguous") = {}
  PROVE  LET next == Converged(doc, binary)
         IN /\ HasEvidence(next)
            /\ \A event \in Events :
                 /\ Classified(next, event, "ambiguous") = {}
                 /\ \E m \in DOMAIN next.hooks[event] : next.hooks[event][m] = CanonicalEntry(binary)
                 /\ \A n \in DOMAIN next.hooks[event] :
                      \/ next.hooks[event][n] = CanonicalEntry(binary)
                      \/ next.hooks[event][n] \in EntryValues /\ Class(next.hooks[event][n]) = "foreign"
  <1> DEFINE next == Converged(doc, binary)
  <1>1. ASSUME NEW event \in Events
        PROVE  /\ Classified(next, event, "ambiguous") = {}
               /\ \E m \in DOMAIN next.hooks[event] : next.hooks[event][m] = CanonicalEntry(binary)
               /\ \A n \in DOMAIN next.hooks[event] :
                    \/ next.hooks[event][n] = CanonicalEntry(binary)
                    \/ next.hooks[event][n] \in EntryValues /\ Class(next.hooks[event][n]) = "foreign"
    <2> DEFINE entries == doc.hooks[event]
               result == ConvergeEntries(entries, binary)
    <2>1. entries \in Seq(EntryValues) /\ next.hooks[event] = result
      BY DocumentShape, ConvergedDocument
    <2>2. /\ \E m \in DOMAIN result : result[m] = CanonicalEntry(binary)
          /\ \A n \in DOMAIN result : \/ result[n] = CanonicalEntry(binary)
                                      \/ \E i \in DOMAIN entries : result[n] = entries[i] /\
                                           Class(entries[i]) # "managed"
      BY <2>1, ConvergedOnce
    <2> HIDE DEF result, next
    <2>3. \A i \in DOMAIN entries : entries[i] \in EntryValues /\ Class(entries[i]) # "ambiguous"
      BY <2>1 DEF Classified
    <2>4. \A i \in DOMAIN entries : Class(entries[i]) # "managed" => Class(entries[i]) = "foreign"
      BY <2>3, EntryShape
    <2>5. \A n \in DOMAIN result : \/ result[n] = CanonicalEntry(binary)
                                   \/ result[n] \in EntryValues /\ Class(result[n]) = "foreign"
      BY <2>2, <2>3, <2>4
    <2>6. Classified(next, event, "ambiguous") = {}
      BY <2>1, <2>5, CanonicalShape DEF Classified
    <2> QED
      BY <2>1, <2>2, <2>5, <2>6
  <1>2. HasEvidence(next)
    <2>1. PICK event \in Events : TRUE
      BY MachineAssumption
    <2>2. PICK m \in DOMAIN next.hooks[event] : next.hooks[event][m] = CanonicalEntry(binary)
      BY <1>1
    <2> HIDE DEF next
    <2> QED
      BY <2>2, CanonicalShape DEF HasEvidence, IsOurs
  <1> QED
    BY <1>1, <1>2

-----------------------------------------------------------------------------
(***************************************************************************)
(* What a decision of converge says of the files it was taken on.          *)
(***************************************************************************)
Readable(file) == file.state \in {"ok", "absent"}
Clean(doc) == \A event \in Events : Classified(doc, event, "ambiguous") = {}
NoneEvident(local, shared) ==
  /\ Readable(local) => ~HasEvidence(local.doc)
  /\ Readable(shared) => ~HasEvidence(shared.doc)

\* The running install's hook can be run and no other live one is in the shared file.
Sole(d, local, shared, binary) ==
  /\ Readable(local) /\ Readable(shared)
  /\ binary # "none" /\ VerifyPath(d, binary)
  /\ Clean(shared.doc) /\ LiveCommands(d, shared.doc) \subseteq {binary}

LEMMA PlannerCases ==
  ASSUME NEW d, NEW local, NEW shared, NEW binary, NEW isSeam \in BOOLEAN
  PROVE  LET result == PlanConvergence(d, local, shared, binary, isSeam)
             next == Converged(local, binary)
             evidence == HasEvidence(local) \/ HasEvidence(shared)
             alone == Clean(shared) /\ LiveCommands(d, shared) \subseteq {binary}
         IN /\ result.outcome = "plan" =>
                 /\ alone /\ Clean(local) /\ (isSeam => evidence) /\ next # local
                 /\ result = [outcome |-> "plan", doc |-> next]
            /\ result.outcome = "noop" =>
                 \/ isSeam /\ ~evidence
                 \/ alone /\ isSeam /\ ~HasEvidence(local)
                 \/ alone /\ Clean(local) /\ next = local
            /\ alone /\ Clean(local) /\ evidence /\ next = local => result.outcome = "noop"
            /\ result.outcome \in {"noop", "ambiguous_local", "shared_conflict", "plan"}
  <1> DEFINE result == PlanConvergence(d, local, shared, binary, isSeam)
             next == Converged(local, binary)
             live == LiveCommands(d, shared)
             evidence == HasEvidence(local) \/ HasEvidence(shared)
             alone == Clean(shared) /\ live \subseteq {binary}
  <1>1. result =
          IF ~(evidence \/ ~isSeam) THEN Outcome("noop")
          ELSE IF ~Clean(local) THEN Outcome("ambiguous_local")
          ELSE IF ~alone THEN Outcome("shared_conflict")
          ELSE IF isSeam /\ live = {binary} /\ ~HasEvidence(local) THEN Outcome("noop")
          ELSE IF next = local THEN Outcome("noop")
          ELSE [outcome |-> "plan", doc |-> next]
    <2>1. (\E event \in Events : Classified(local, event, "ambiguous") # {}) <=> ~Clean(local)
      BY DEF Clean
    <2>2. SharedLiveConflict(\E event \in Events : Classified(shared, event, "ambiguous") # {},
                             live, binary) <=> ~alone
      BY DEF Clean, SharedLiveConflict
    <2>3. EvidenceGate(evidence, ~isSeam) <=> evidence \/ ~isSeam
      BY DEF EvidenceGate
    <2> QED
      BY <2>1, <2>2, <2>3 DEF PlanConvergence
  <1> HIDE DEF result, next, evidence, alone
  <1>2. Outcome("noop").outcome = "noop" /\ Outcome("ambiguous_local").outcome = "ambiguous_local"
        /\ Outcome("shared_conflict").outcome = "shared_conflict"
    BY DEF Outcome
  <1>3. [outcome |-> "plan", doc |-> next].outcome = "plan"
    OBVIOUS
  <1>4. result.outcome = "plan" =>
          /\ alone /\ Clean(local) /\ (isSeam => evidence) /\ next # local
          /\ result = [outcome |-> "plan", doc |-> next]
    BY <1>1, <1>2
  <1>5. result.outcome = "noop" =>
          \/ isSeam /\ ~evidence
          \/ alone /\ isSeam /\ ~HasEvidence(local)
          \/ alone /\ Clean(local) /\ next = local
    BY <1>1, <1>2, <1>3
  <1>6. alone /\ Clean(local) /\ evidence /\ next = local => result.outcome = "noop"
    BY <1>1, <1>2
  <1>7. result.outcome \in {"noop", "ambiguous_local", "shared_conflict", "plan"}
    BY <1>1, <1>2, <1>3
  <1> QED
    BY <1>4, <1>5, <1>6, <1>7 DEF result, next, evidence, alone

LEMMA DecisionCases ==
  ASSUME NEW d, NEW local \in SettingsFiles, NEW shared \in SettingsFiles, NEW binary,
         NEW isSeam \in BOOLEAN
  PROVE  LET result == ConvergeDecision(d, local, shared, binary, isSeam)
             next == Converged(local.doc, binary)
             evidence == HasEvidence(local.doc) \/ HasEvidence(shared.doc)
         IN /\ result.outcome = "plan" =>
                 /\ Sole(d, local, shared, binary) /\ Clean(local.doc) /\ (isSeam => evidence)
                 /\ next # local.doc
                 /\ result = [outcome |-> "plan", doc |-> next]
            /\ result.outcome = "noop" =>
                 \/ isSeam /\ NoneEvident(local, shared)
                 \/ Sole(d, local, shared, binary) /\ isSeam /\ ~HasEvidence(local.doc)
                 \/ Sole(d, local, shared, binary) /\ Clean(local.doc) /\ next = local.doc
            /\ (Sole(d, local, shared, binary) /\ Clean(local.doc) /\ evidence /\ next = local.doc)
                 => result.outcome = "noop"
            /\ result.outcome \in {"plan", "noop", "ambiguous_local", "shared_conflict", "no_binary",
                                   "binary_invalid", "unreadable", "malformed"}
  <1> DEFINE result == ConvergeDecision(d, local, shared, binary, isSeam)
             plan == PlanConvergence(d, local.doc, shared.doc, binary, isSeam)
             next == Converged(local.doc, binary)
             evidence == HasEvidence(local.doc) \/ HasEvidence(shared.doc)
             seen == ~NoneEvident(local, shared)
             Unknown(file) == IF isSeam /\ ~seen THEN Outcome("noop") ELSE Outcome(file.state)
  <1>1. (\E file \in {local, shared} : file.state \in {"ok", "absent"} /\ HasEvidence(file.doc))
          <=> seen
    BY DEF NoneEvident, Readable
  <1>2. result =
          IF ~Readable(local) THEN Unknown(local)
          ELSE IF ~Readable(shared) THEN Unknown(shared)
          ELSE IF ~seen /\ isSeam THEN Outcome("noop")
          ELSE IF binary = "none" THEN Outcome("no_binary")
          ELSE IF ~VerifyPath(d, binary) THEN Outcome("binary_invalid")
          ELSE plan
    BY <1>1 DEF ConvergeDecision, Readable
  <1>3. local.state \in {"ok", "absent", "unreadable", "malformed"}
        /\ shared.state \in {"ok", "absent", "unreadable", "malformed"}
    BY DEF SettingsFiles
  <1>4. \A x : Outcome(x).outcome = x
    BY DEF Outcome
  <1>5. Readable(local) /\ Readable(shared) => (seen <=> evidence)
    BY DEF NoneEvident
  <1>6. ~Readable(local) => Unknown(local).outcome \in {"noop", "unreadable", "malformed"}
    BY <1>3, <1>4 DEF Readable
  <1>7. ~Readable(shared) => Unknown(shared).outcome \in {"noop", "unreadable", "malformed"}
    BY <1>3, <1>4 DEF Readable
  <1>8. /\ ~Readable(local) /\ Unknown(local).outcome = "noop" => isSeam /\ ~seen
        /\ ~Readable(shared) /\ Unknown(shared).outcome = "noop" => isSeam /\ ~seen
    BY <1>3, <1>4 DEF Readable
  <1> DEFINE alone == Clean(shared.doc) /\ LiveCommands(d, shared.doc) \subseteq {binary}
  <1>9. /\ plan.outcome = "plan" =>
             /\ alone /\ Clean(local.doc) /\ (isSeam => evidence) /\ next # local.doc
             /\ plan = [outcome |-> "plan", doc |-> next]
        /\ plan.outcome = "noop" =>
             \/ isSeam /\ ~evidence
             \/ alone /\ isSeam /\ ~HasEvidence(local.doc)
             \/ alone /\ Clean(local.doc) /\ next = local.doc
        /\ alone /\ Clean(local.doc) /\ evidence /\ next = local.doc => plan.outcome = "noop"
        /\ plan.outcome \in {"noop", "ambiguous_local", "shared_conflict", "plan"}
    BY PlannerCases
  <1>10. Sole(d, local, shared, binary) <=>
           Readable(local) /\ Readable(shared) /\ binary # "none" /\ VerifyPath(d, binary) /\ alone
    BY DEF Sole
  <1> HIDE DEF result, plan, next, evidence, seen, Unknown, alone
  <1>11. result.outcome \in {"plan", "noop", "ambiguous_local", "shared_conflict", "no_binary",
                             "binary_invalid", "unreadable", "malformed"}
    BY <1>2, <1>4, <1>6, <1>7, <1>9
  <1>12. result.outcome = "plan" =>
           /\ Sole(d, local, shared, binary) /\ Clean(local.doc) /\ (isSeam => evidence)
           /\ next # local.doc
           /\ result = [outcome |-> "plan", doc |-> next]
    BY <1>2, <1>4, <1>6, <1>7, <1>9, <1>10
  <1>13. result.outcome = "noop" =>
           \/ isSeam /\ ~seen
           \/ Sole(d, local, shared, binary) /\ isSeam /\ ~HasEvidence(local.doc)
           \/ Sole(d, local, shared, binary) /\ Clean(local.doc) /\ next = local.doc
    BY <1>2, <1>4, <1>5, <1>8, <1>9, <1>10
  <1>14. (Sole(d, local, shared, binary) /\ Clean(local.doc) /\ evidence /\ next = local.doc)
           => result.outcome = "noop"
    BY <1>2, <1>5, <1>9, <1>10
  <1> QED
    BY <1>11, <1>12, <1>13, <1>14 DEF result, next, evidence, seen

\* A plan leads to a file that is left alone, by either caller.
LEMMA PlanSettles ==
  ASSUME NEW d, NEW local \in SettingsFiles, NEW shared \in SettingsFiles, NEW binary \in Named,
         NEW isSeam \in BOOLEAN,
         ConvergeDecision(d, local, shared, binary, isSeam).outcome = "plan"
  PROVE  LET doc == ConvergeDecision(d, local, shared, binary, isSeam).doc
         IN /\ [state |-> "ok", doc |-> doc] \in SettingsFiles
            /\ ConvergeDecision(d, [state |-> "ok", doc |-> doc], shared, binary, isSeam).outcome
                 = "noop"
  <1> DEFINE doc == Converged(local.doc, binary)
             file == [state |-> "ok", doc |-> doc]
  <1>1. /\ Sole(d, local, shared, binary) /\ Clean(local.doc)
        /\ ConvergeDecision(d, local, shared, binary, isSeam) = [outcome |-> "plan", doc |-> doc]
    BY DecisionCases
  <1>2. local.doc \in Documents
    BY DEF SettingsFiles
  <1>3. doc \in Documents /\ Converged(doc, binary) = doc
    BY <1>2, ConvergedDocument
  <1>4. HasEvidence(doc) /\ \A event \in Events : Classified(doc, event, "ambiguous") = {}
    BY <1>1, <1>2, ConvergedClasses DEF Clean
  <1> HIDE DEF doc
  <1>5. file \in SettingsFiles /\ file.doc = doc /\ file.state = "ok"
    BY <1>3 DEF SettingsFiles
  <1> HIDE DEF file
  <1>6. Sole(d, file, shared, binary) /\ Clean(file.doc)
    BY <1>1, <1>4, <1>5 DEF Sole, Clean, Readable
  <1>7. ConvergeDecision(d, file, shared, binary, isSeam).outcome = "noop"
    BY <1>3, <1>4, <1>5, <1>6, DecisionCases
  <1> QED
    BY <1>1, <1>5, <1>7 DEF file

-----------------------------------------------------------------------------
(***************************************************************************)
(* The files, and what each process has read of them and decided.          *)
(***************************************************************************)
Recorded == {"none"} \union {Install[p].bundle : p \in Procs}
Contents == Recorded \union {"mine"}
Manifests == [Names -> Recorded]
Disks == [Absolute -> {"executable", "file", "gone"}]
Steps == {"idle", "read_local", "decide", "compare", "replace", "skills", "skill", "write_skill",
          "mcp", "register", "done"}
Outcomes == {"none", "noop", "created", "updated", "ambiguous_local", "shared_conflict", "no_binary",
             "binary_invalid", "unreadable", "malformed", "write_conflict", "unwritable", "crashed"}
ProcessValues ==
  [pc : Steps, kind : {"none", "init", "seam"}, dir : Directories \union {"none"},
   flags : SUBSET Flags, shared : SettingsFiles \union {"none"},
   local : SettingsFiles \union {"none"}, decided : Disks \union {"none"},
   doc : Documents \union {"none"}, manifest : Manifests \union {"none"}, next : Nat,
   saw : Contents, registry : Registries \union {"none"}, command : Commands \union {"none"},
   outcome : Outcomes]

\* The places where a file that was read, or is kept, shows Sentience are evidenced.
Evident(config, places, at) ==
  \A d \in Directories : /\ HasEvidence(config.shared[d].doc) => LocalSettingsPlace(at, d) \in places
                         /\ HasEvidence(config.local[d].doc) => d \in places

FilesWell ==
  /\ \A mode \in modes : mode.kind \in {"init", "seam"} /\ mode.flags \subseteq Flags
  /\ settings \in [shared : [Directories -> SettingsFiles], local : [Directories -> SettingsFiles]]
  /\ disk \in Disks
  /\ skills \in [file : [Names -> Contents], manifest : Manifests, mine : SUBSET Names]
  /\ \A name \in skills.mine : skills.file[name] = "mine"
  /\ registry \in Registries
  /\ left \in [Kinds -> Nat]
  /\ Evident(settings, evidenced, repo)

\* What a process has decided, it has decided from what it has read.
Engaged(r, install, places, at) ==
  /\ r.pc \notin {"idle", "done"} =>
       /\ r.kind \in {"init", "seam"} /\ r.dir \in Directories
       /\ r.kind = "init" => LocalSettingsPlace(at, r.dir) \in places
  /\ r.pc \in {"skills", "skill", "write_skill", "mcp", "register"} => r.kind = "init"
  /\ r.pc \in {"read_local", "decide", "compare", "replace"} =>
       /\ r.shared \in SettingsFiles
       /\ HasEvidence(r.shared.doc) => LocalSettingsPlace(at, r.dir) \in places
  /\ r.pc \in {"decide", "compare", "replace"} =>
       /\ r.local \in SettingsFiles
       /\ HasEvidence(r.local.doc) => LocalSettingsPlace(at, r.dir) \in places
  /\ r.pc \in {"compare", "replace"} =>
       /\ r.decided \in Disks
       /\ ConvergeDecision(r.decided, r.local, r.shared,
                           ResolveBinary(r.decided, install.sibling, install.onPath),
                           r.kind = "seam") = [outcome |-> "plan", doc |-> r.doc]
  /\ r.pc \in {"skill", "write_skill"} => r.manifest \in Manifests
  /\ r.pc = "write_skill" => r.next \in DOMAIN Skills /\ ("force" \in r.flags \/ r.saw # "mine")
  /\ r.pc = "register" => r.registry \in Registries /\ r.command \in Commands

ConfigInv ==
  /\ FilesWell
  /\ cli \in [Procs -> ProcessValues]
  /\ \A p \in Procs : Engaged(cli[p], Install[p], evidenced, repo)

LEMMA EngagedLater ==
  ASSUME NEW r, NEW install, NEW places, NEW more, NEW at, Engaged(r, install, places, at),
         places \subseteq more
  PROVE  Engaged(r, install, more, at)
  BY DEF Engaged

LEMMA PlaceType ==
  ASSUME NEW at, NEW d \in Directories
  PROVE  LocalSettingsPlace(at, d) \in Directories
  BY MachineAssumption DEF LocalSettingsPlace

LEMMA BinaryType ==
  ASSUME NEW p \in Procs, NEW d
  PROVE  LET binary == ResolveBinary(d, Install[p].sibling, Install[p].onPath)
         IN binary \in (Named \intersect Absolute) \union {"none"} /\ (binary # "none" => binary \in Named)
  BY MachineAssumption DEF ResolveBinary

LEMMA FilesKept ==
  ASSUME FilesWell, UNCHANGED <<fixed, files>>, evidenced \subseteq evidenced', left' \in [Kinds -> Nat]
  PROVE  FilesWell'
  BY DEF FilesWell, fixed, files, Evident

LEMMA Spent ==
  ASSUME left \in [Kinds -> Nat], NEW kind \in Kinds, Spend(kind)
  PROVE  /\ left' \in [Kinds -> Nat] /\ left'[kind] = left[kind] - 1 /\ left'[kind] # left[kind]
         /\ \A other \in Kinds \ {kind} : left'[other] = left[other]
  BY DEF Spend

\* A step of p that leaves the files in order.
LEMMA OneProcess ==
  ASSUME ConfigInv, FilesWell', NEW p \in Procs, NEW r2 \in ProcessValues,
         UNCHANGED fixed, evidenced \subseteq evidenced', cli' = [cli EXCEPT ![p] = r2],
         Engaged(r2, Install[p], evidenced', repo)
  PROVE  ConfigInv'
  <1>1. cli' \in [Procs -> ProcessValues] /\ repo' = repo
    BY DEF ConfigInv, fixed
  <1>2. ASSUME NEW q \in Procs PROVE Engaged(cli'[q], Install[q], evidenced', repo')
    <2>1. CASE q = p
      <3>1. cli'[q] = r2
        BY <2>1 DEF ConfigInv
      <3> QED
        BY <1>1, <2>1, <3>1
    <2>2. CASE q # p
      <3>1. cli'[q] = cli[q]
        BY <2>2 DEF ConfigInv
      <3>2. Engaged(cli[q], Install[q], evidenced, repo)
        BY DEF ConfigInv
      <3>3. Engaged(cli[q], Install[q], evidenced', repo)
        BY <3>2, EngagedLater
      <3> QED
        BY <1>1, <3>1, <3>3
    <2> QED
      BY <2>1, <2>2
  <1> QED
    BY <1>1, <1>2 DEF ConfigInv

\* A step that no process takes.
LEMMA NoProcessSteps ==
  ASSUME ConfigInv, FilesWell', UNCHANGED <<fixed, cli>>, evidenced \subseteq evidenced'
  PROVE  ConfigInv'
  <1>1. ASSUME NEW q \in Procs PROVE Engaged(cli[q], Install[q], evidenced', repo)
    BY EngagedLater DEF ConfigInv
  <1> QED
    BY <1>1 DEF ConfigInv, fixed

-----------------------------------------------------------------------------
(***************************************************************************)
(* The steps of a process.                                                 *)
(***************************************************************************)
LEMMA IdleType ==
  ASSUME NEW outcome \in Outcomes
  PROVE  LET r2 == [NoProcess EXCEPT !.pc = "done", !.outcome = outcome]
         IN r2 \in ProcessValues /\ r2.pc = "done" /\ r2.outcome = outcome
  BY DEF NoProcess, ProcessValues, Steps, Contents, Recorded, Outcomes

LEMMA Idle ==
  ASSUME NEW r, NEW install, NEW places, NEW at, r.pc \in {"idle", "done"}
  PROVE  Engaged(r, install, places, at)
  BY DEF Engaged

LEMMA FinishStep ==
  ASSUME ConfigInv, FilesWell', NEW p \in Procs, NEW outcome \in Outcomes, Finish(p, outcome),
         UNCHANGED fixed, evidenced \subseteq evidenced'
  PROVE  ConfigInv'
  <1> DEFINE r2 == [NoProcess EXCEPT !.pc = "done", !.outcome = outcome]
  <1>1. r2 \in ProcessValues /\ r2.pc = "done"
    BY IdleType
  <1>2. cli' = [cli EXCEPT ![p] = r2]
    BY DEF Finish
  <1> HIDE DEF r2
  <1>3. Engaged(r2, Install[p], evidenced', repo)
    BY <1>1, Idle
  <1> QED
    BY <1>1, <1>2, <1>3, OneProcess

\* Where a process goes on, and with which manifest.
Moved(r, pc, outcome) == [r EXCEPT !.pc = pc, !.outcome = outcome]
AtSkill(r, manifest, next) == [r EXCEPT !.pc = "skill", !.manifest = manifest, !.next = next]

LEMMA MovedType ==
  ASSUME NEW r \in ProcessValues, NEW pc \in Steps, NEW outcome \in Outcomes
  PROVE  /\ Moved(r, pc, outcome) \in ProcessValues /\ Moved(r, pc, outcome).pc = pc
         /\ Moved(r, pc, outcome).kind = r.kind /\ Moved(r, pc, outcome).dir = r.dir
  BY DEF Moved, ProcessValues

LEMMA AtSkillType ==
  ASSUME NEW r \in ProcessValues, NEW manifest \in Manifests, NEW next \in Nat
  PROVE  /\ AtSkill(r, manifest, next) \in ProcessValues /\ AtSkill(r, manifest, next).pc = "skill"
         /\ AtSkill(r, manifest, next).manifest = manifest
         /\ AtSkill(r, manifest, next).kind = r.kind /\ AtSkill(r, manifest, next).dir = r.dir
  <1>1. "skill" \in Steps
    BY DEF Steps
  <1> QED
    BY <1>1 DEF AtSkill, ProcessValues

\* To the part of init that follows the configuration.
LEMMA OnwardStep ==
  ASSUME ConfigInv, FilesWell', NEW p \in Procs, NEW outcome \in Outcomes, NEW pc \in {"skills", "mcp"},
         cli[p].pc \notin {"idle", "done"}, cli[p].kind = "init",
         cli' = [cli EXCEPT ![p].pc = pc, ![p].outcome = outcome],
         UNCHANGED <<fixed, evidenced>>
  PROVE  ConfigInv'
  <1> DEFINE r == cli[p]
             r2 == Moved(r, pc, outcome)
  <1>1. cli \in [Procs -> ProcessValues] /\ r \in ProcessValues
        /\ Engaged(r, Install[p], evidenced, repo)
    BY DEF ConfigInv
  <1>2. cli' = [cli EXCEPT ![p] = r2]
    BY <1>1 DEF Moved
  <1>3. r2 \in ProcessValues /\ r2.pc = pc /\ r2.kind = r.kind /\ r2.dir = r.dir
    <2>1. pc \in Steps
      BY DEF Steps
    <2> QED
      BY <1>1, <2>1, MovedType
  <1> HIDE DEF r2
  <1>4. Engaged(r2, Install[p], evidenced, repo)
    BY <1>1, <1>3 DEF Engaged
  <1> QED
    BY <1>2, <1>3, <1>4, OneProcess

LEMMA ReportStep ==
  ASSUME ConfigInv, FilesWell', NEW p \in Procs, NEW outcome \in Outcomes, Report(p, outcome),
         cli[p].pc \in {"decide", "compare", "replace"}, UNCHANGED <<fixed, evidenced>>
  PROVE  ConfigInv'
  <1>1. cli[p].kind \in {"init", "seam"}
    BY DEF ConfigInv, Engaged
  <1>2. CASE IsSeam(p) \/ ~Succeeded(outcome)
    <2>1. Finish(p, outcome)
      BY <1>2 DEF Report
    <2> QED
      BY <2>1, FinishStep
  <1>3. CASE ~(IsSeam(p) \/ ~Succeeded(outcome))
    <2> DEFINE pc == IF "no_skills" \in cli[p].flags THEN "mcp" ELSE "skills"
    <2>1. cli' = [cli EXCEPT ![p].pc = pc, ![p].outcome = outcome]
      BY <1>3 DEF Report
    <2>2. cli[p].kind = "init" /\ pc \in {"skills", "mcp"}
      BY <1>1, <1>3 DEF IsSeam
    <2> HIDE DEF pc
    <2> QED
      BY <2>1, <2>2, OnwardStep
  <1> QED
    BY <1>2, <1>3

LEMMA StartStep ==
  ASSUME ConfigInv, NEW p \in Procs, NEW d \in Directories, NEW mode \in modes,
         StartRun(p, mode.kind, d, mode.flags)
  PROVE  ConfigInv'
  <1> DEFINE r2 == [NoProcess EXCEPT !.pc = "read_local", !.kind = mode.kind, !.dir = d,
                                     !.flags = mode.flags, !.shared = settings.shared[d]]
  <1>1. /\ mode.kind \in {"init", "seam"} /\ mode.flags \subseteq Flags
        /\ settings.shared[d] \in SettingsFiles /\ left \in [Kinds -> Nat]
        /\ HasEvidence(settings.shared[d].doc) => Place(d) \in evidenced
    BY DEF ConfigInv, FilesWell, Evident, Place
  <1>2. /\ cli' = [cli EXCEPT ![p] = r2] /\ UNCHANGED <<fixed, files>> /\ Spend("runs")
        /\ evidenced' = evidenced \union IF mode.kind = "init" THEN {Place(d)} ELSE {}
    BY DEF StartRun
  <1>3. /\ r2 \in ProcessValues /\ r2.pc = "read_local" /\ r2.kind = mode.kind /\ r2.dir = d
        /\ r2.shared = settings.shared[d]
    BY <1>1 DEF NoProcess, ProcessValues, Steps, Contents, Recorded, Outcomes
  <1> HIDE DEF r2
  <1>4. Engaged(r2, Install[p], evidenced', repo)
    BY <1>1, <1>2, <1>3 DEF Engaged, Place
  <1>5. left' \in [Kinds -> Nat]
    BY <1>1, <1>2, Spent DEF Kinds
  <1>6. FilesWell' /\ evidenced \subseteq evidenced' /\ UNCHANGED fixed
    BY <1>2, <1>5, FilesKept DEF ConfigInv
  <1> QED
    BY <1>2, <1>3, <1>4, <1>6, OneProcess

LEMMA ReadLocalStep ==
  ASSUME ConfigInv, NEW p \in Procs, ReadLocal(p)
  PROVE  ConfigInv'
  <1> DEFINE r == cli[p]
             read == Local(cli[p].dir)
             r2 == [r EXCEPT !.pc = "decide", !.local = read]
  <1>1. cli \in [Procs -> ProcessValues] /\ r \in ProcessValues
        /\ Engaged(r, Install[p], evidenced, repo) /\ r.pc = "read_local" /\ r.dir \in Directories
    BY DEF ConfigInv, ReadLocal, At, Engaged
  <1>2. Place(r.dir) \in Directories
    BY <1>1, PlaceType DEF Place
  <1>3. read \in SettingsFiles /\ (HasEvidence(read.doc) => Place(r.dir) \in evidenced)
    BY <1>2 DEF Local, ConfigInv, FilesWell, Evident
  <1>4. cli' = [cli EXCEPT ![p] = r2] /\ UNCHANGED <<fixed, files, evidenced, left>>
    BY <1>1 DEF ReadLocal
  <1> HIDE DEF read
  <1>5. /\ r2 \in ProcessValues /\ r2.pc = "decide" /\ r2.local = read /\ r2.kind = r.kind
        /\ r2.dir = r.dir /\ r2.shared = r.shared
    BY <1>1, <1>3 DEF ProcessValues, Steps
  <1> HIDE DEF r2
  <1>6. Engaged(r2, Install[p], evidenced, repo)
    BY <1>1, <1>3, <1>5 DEF Engaged, Place
  <1>7. FilesWell' /\ evidenced \subseteq evidenced'
    BY <1>4, FilesKept DEF ConfigInv, FilesWell
  <1> QED
    BY <1>4, <1>5, <1>6, <1>7, OneProcess

LEMMA DecideStep ==
  ASSUME ConfigInv, NEW p \in Procs, Decide(p)
  PROVE  ConfigInv'
  <1> DEFINE r == cli[p]
             binary == Binary(p)
             decision == ConvergeDecision(disk, r.local, r.shared, binary, IsSeam(p))
  <1>1. /\ cli \in [Procs -> ProcessValues] /\ r \in ProcessValues
        /\ Engaged(r, Install[p], evidenced, repo) /\ r.pc = "decide"
        /\ r.local \in SettingsFiles /\ r.shared \in SettingsFiles /\ disk \in Disks
    BY DEF ConfigInv, FilesWell, Decide, At, Engaged
  <1>2. UNCHANGED <<fixed, files, evidenced, left>>
    BY DEF Decide
  <1>3. FilesWell' /\ evidenced \subseteq evidenced'
    BY <1>2, FilesKept DEF ConfigInv, FilesWell
  <1>4. /\ decision.outcome \in {"plan", "noop", "ambiguous_local", "shared_conflict", "no_binary",
                                 "binary_invalid", "unreadable", "malformed"}
        /\ decision.outcome = "plan" =>
             decision = [outcome |-> "plan", doc |-> Converged(r.local.doc, binary)]
             /\ binary # "none"
    BY <1>1, DecisionCases DEF IsSeam, Sole
  <1>5. IF decision.outcome = "plan"
        THEN cli' = [cli EXCEPT ![p].pc = "compare", ![p].doc = decision.doc, ![p].decided = disk]
        ELSE Report(p, decision.outcome)
    BY DEF Decide
  <1>6. CASE decision.outcome = "plan"
    <2> DEFINE r2 == [r EXCEPT !.pc = "compare", !.doc = decision.doc, !.decided = disk]
    <2>1. cli' = [cli EXCEPT ![p] = r2]
      BY <1>1, <1>5, <1>6
    <2>2. binary \in Named
      BY <1>4, <1>6, BinaryType DEF Binary
    <2>3. decision = [outcome |-> "plan", doc |-> decision.doc] /\ decision.doc \in Documents
      BY <1>1, <1>4, <1>6, <2>2, ConvergedDocument DEF SettingsFiles
    <2> HIDE DEF decision
    <2>4. /\ r2 \in ProcessValues /\ r2.pc = "compare" /\ r2.doc = decision.doc /\ r2.decided = disk
          /\ r2.local = r.local /\ r2.shared = r.shared /\ r2.kind = r.kind /\ r2.dir = r.dir
      BY <1>1, <2>3 DEF ProcessValues, Steps
    <2> HIDE DEF r2
    <2>5. ConvergeDecision(r2.decided, r2.local, r2.shared,
                           ResolveBinary(r2.decided, Install[p].sibling, Install[p].onPath),
                           r2.kind = "seam") = [outcome |-> "plan", doc |-> r2.doc]
      BY <2>3, <2>4 DEF decision, Binary, IsSeam
    <2>6. Engaged(r2, Install[p], evidenced, repo)
      BY <1>1, <2>4, <2>5 DEF Engaged
    <2> QED
      BY <1>2, <1>3, <2>1, <2>4, <2>6, OneProcess
  <1>7. CASE decision.outcome # "plan"
    <2>1. Report(p, decision.outcome) /\ decision.outcome \in Outcomes
      BY <1>4, <1>5, <1>7 DEF Outcomes
    <2> HIDE DEF decision
    <2> QED
      BY <1>1, <1>2, <1>3, <2>1, ReportStep
  <1> QED
    BY <1>6, <1>7

LEMMA CompareStep ==
  ASSUME ConfigInv, NEW p \in Procs, Compare(p)
  PROVE  ConfigInv'
  <1> DEFINE r == cli[p]
             r2 == [r EXCEPT !.pc = "replace"]
  <1>1. /\ cli \in [Procs -> ProcessValues] /\ r \in ProcessValues
        /\ Engaged(r, Install[p], evidenced, repo) /\ r.pc = "compare"
    BY DEF ConfigInv, Compare, At
  <1>2. UNCHANGED <<fixed, files, evidenced, left>>
    BY DEF Compare
  <1>3. FilesWell' /\ evidenced \subseteq evidenced'
    BY <1>2, FilesKept DEF ConfigInv, FilesWell
  <1>4. CASE Goto(p, "replace")
    <2>1. cli' = [cli EXCEPT ![p] = r2]
      BY <1>1, <1>4 DEF Goto
    <2>2. /\ r2 \in ProcessValues /\ r2.pc = "replace" /\ r2.doc = r.doc /\ r2.decided = r.decided
          /\ r2.local = r.local /\ r2.shared = r.shared /\ r2.kind = r.kind /\ r2.dir = r.dir
      BY <1>1 DEF ProcessValues, Steps
    <2> HIDE DEF r2
    <2>3. Engaged(r2, Install[p], evidenced, repo)
      BY <1>1, <2>2 DEF Engaged
    <2> QED
      BY <1>2, <1>3, <2>1, <2>2, <2>3, OneProcess
  <1>5. CASE Report(p, "write_conflict")
    <2>1. "write_conflict" \in Outcomes
      BY DEF Outcomes
    <2> QED
      BY <1>1, <1>2, <1>3, <1>5, <2>1, ReportStep
  <1> QED
    BY <1>4, <1>5 DEF Compare

LEMMA CannotWriteStep ==
  ASSUME ConfigInv, NEW p \in Procs, CannotWrite(p)
  PROVE  ConfigInv'
  <1>1. UNCHANGED <<fixed, files, evidenced>> /\ Spend("faults") /\ Report(p, "unwritable")
        /\ cli[p].pc \in {"compare", "replace"}
    BY DEF CannotWrite
  <1>2. left' \in [Kinds -> Nat]
    BY <1>1, Spent DEF ConfigInv, FilesWell, Kinds
  <1>3. FilesWell' /\ "unwritable" \in Outcomes
    BY <1>1, <1>2, FilesKept DEF ConfigInv, Outcomes
  <1> QED
    BY <1>1, <1>3, ReportStep

\* What is written where the file is compared or replaced.
LEMMA PlannedDocument ==
  ASSUME NEW p \in Procs, NEW r, NEW places, NEW at, Engaged(r, Install[p], places, at),
         r.pc \in {"compare", "replace"}
  PROVE  LET binary == ResolveBinary(r.decided, Install[p].sibling, Install[p].onPath)
         IN /\ binary \in Named /\ r.doc = Converged(r.local.doc, binary) /\ r.doc \in Documents
            /\ Sole(r.decided, r.local, r.shared, binary) /\ Clean(r.local.doc)
            /\ [state |-> "ok", doc |-> r.doc] \in SettingsFiles
            /\ LocalSettingsPlace(at, r.dir) \in places
  <1> DEFINE binary == ResolveBinary(r.decided, Install[p].sibling, Install[p].onPath)
             decision == ConvergeDecision(r.decided, r.local, r.shared, binary, r.kind = "seam")
             doc == Converged(r.local.doc, binary)
  <1>1. /\ decision = [outcome |-> "plan", doc |-> r.doc]
        /\ r.local \in SettingsFiles /\ r.shared \in SettingsFiles /\ r.kind \in {"init", "seam"}
        /\ HasEvidence(r.local.doc) \/ HasEvidence(r.shared.doc) \/ r.kind = "init"
             => LocalSettingsPlace(at, r.dir) \in places
    BY DEF Engaged
  <1>2. decision.outcome = "plan"
    BY <1>1
  <1>3. /\ decision = [outcome |-> "plan", doc |-> doc] /\ Sole(r.decided, r.local, r.shared, binary)
        /\ Clean(r.local.doc)
        /\ r.kind = "seam" => HasEvidence(r.local.doc) \/ HasEvidence(r.shared.doc)
    <2>1. (r.kind = "seam") \in BOOLEAN
      OBVIOUS
    <2> QED
      BY <1>1, <1>2, <2>1, DecisionCases
  <1>4. binary \in Named
    BY <1>3, BinaryType DEF Sole
  <1> HIDE DEF decision, binary
  <1>5. doc \in Documents
    BY <1>1, <1>4, ConvergedDocument DEF SettingsFiles
  <1> HIDE DEF doc
  <1>6. r.doc = doc
    BY <1>1, <1>3
  <1>7. [state |-> "ok", doc |-> doc] \in SettingsFiles
    BY <1>5 DEF SettingsFiles
  <1> QED
    BY <1>1, <1>3, <1>4, <1>5, <1>6, <1>7 DEF doc, binary

LEMMA ReplaceStep ==
  ASSUME ConfigInv, NEW p \in Procs, Replace(p)
  PROVE  ConfigInv'
  <1> DEFINE r == cli[p]
             place == Place(r.dir)
             written == [state |-> "ok", doc |-> r.doc]
             outcome == IF r.local.state = "absent" THEN "created" ELSE "updated"
  <1>1. r.pc = "replace" /\ Engaged(r, Install[p], evidenced, repo) /\ r.dir \in Directories
    BY DEF Replace, At, ConfigInv, Engaged
  <1>2. /\ settings' = [settings EXCEPT !.local[place] = written] /\ Report(p, outcome)
        /\ UNCHANGED <<fixed, disk, skills, registry, evidenced, left>>
    BY DEF Replace
  <1>3. place \in Directories
    BY <1>1, PlaceType DEF Place
  <1>4. written \in SettingsFiles /\ place \in evidenced
    BY <1>1, PlannedDocument DEF Place
  <1>5. outcome \in Outcomes
    BY DEF Outcomes
  <1> HIDE DEF written, place, outcome
  <1>6. settings \in [shared : [Directories -> SettingsFiles], local : [Directories -> SettingsFiles]]
        /\ Evident(settings, evidenced, repo)
    BY DEF ConfigInv, FilesWell
  <1>7. /\ settings' \in [shared : [Directories -> SettingsFiles], local : [Directories -> SettingsFiles]]
        /\ settings'.shared = settings.shared
        /\ \A d \in Directories : settings'.local[d] = IF d = place THEN written ELSE settings.local[d]
    BY <1>2, <1>3, <1>4, <1>6
  <1>8. Evident(settings', evidenced, repo)
    BY <1>4, <1>6, <1>7 DEF Evident
  <1>9. FilesWell'
    BY <1>2, <1>7, <1>8 DEF ConfigInv, FilesWell, fixed
  <1> QED
    BY <1>1, <1>2, <1>5, <1>9, ReportStep

LEMMA OpenSkillsStep ==
  ASSUME ConfigInv, NEW p \in Procs, OpenSkills(p)
  PROVE  ConfigInv'
  <1> DEFINE r == cli[p]
             recorded == skills.manifest
             r2 == AtSkill(r, recorded, 1)
  <1>1. /\ cli \in [Procs -> ProcessValues] /\ r \in ProcessValues
        /\ Engaged(r, Install[p], evidenced, repo) /\ r.pc = "skills"
        /\ recorded \in Manifests
    BY DEF ConfigInv, OpenSkills, At, FilesWell
  <1>2. cli' = [cli EXCEPT ![p] = r2] /\ UNCHANGED <<fixed, files, evidenced, left>>
    BY <1>1 DEF OpenSkills, AtSkill
  <1> HIDE DEF recorded
  <1>3. FilesWell' /\ evidenced \subseteq evidenced'
    BY <1>2, FilesKept DEF ConfigInv, FilesWell
  <1>4. /\ r2 \in ProcessValues /\ r2.pc = "skill" /\ r2.manifest = recorded
        /\ r2.kind = r.kind /\ r2.dir = r.dir
    BY <1>1, AtSkillType
  <1> HIDE DEF r2
  <1>5. Engaged(r2, Install[p], evidenced, repo)
    BY <1>1, <1>4 DEF Engaged
  <1> QED
    BY <1>2, <1>3, <1>4, <1>5, OneProcess

\* The manifest a process goes on with, at the next skill.
LEMMA NextSkillStep ==
  ASSUME ConfigInv, FilesWell', NEW p \in Procs, cli[p].pc \in {"skill", "write_skill"},
         NEW manifest \in Manifests, NextSkill(p, manifest), UNCHANGED <<fixed, evidenced>>
  PROVE  ConfigInv'
  <1> DEFINE r == cli[p]
             next == r.next + 1
             r2 == AtSkill(r, manifest, next)
  <1>1. /\ cli \in [Procs -> ProcessValues] /\ r \in ProcessValues
        /\ Engaged(r, Install[p], evidenced, repo)
    BY DEF ConfigInv
  <1>2. cli' = [cli EXCEPT ![p] = r2]
    BY <1>1 DEF NextSkill, AtSkill
  <1>3. /\ r2 \in ProcessValues /\ r2.pc = "skill" /\ r2.manifest = manifest
        /\ r2.kind = r.kind /\ r2.dir = r.dir
    <2>1. next \in Nat
      BY <1>1 DEF ProcessValues
    <2> HIDE DEF next
    <2> QED
      BY <1>1, <2>1, AtSkillType
  <1> HIDE DEF r2
  <1>4. Engaged(r2, Install[p], evidenced, repo)
    BY <1>1, <1>3 DEF Engaged
  <1> QED
    BY <1>2, <1>3, <1>4, OneProcess

LEMMA ReadSkillStep ==
  ASSUME ConfigInv, NEW p \in Procs, ReadSkill(p)
  PROVE  ConfigInv'
  <1> DEFINE r == cli[p]
             name == Skills[r.next]
             current == skills.file[name]
             record == [r.manifest EXCEPT ![name] = IF current = Bundled(p) THEN current ELSE @]
  <1>1. /\ cli \in [Procs -> ProcessValues] /\ r \in ProcessValues
        /\ Engaged(r, Install[p], evidenced, repo) /\ r.pc = "skill" /\ r.next \in DOMAIN Skills
        /\ r.manifest \in Manifests /\ UNCHANGED <<fixed, files, evidenced, left>>
    BY DEF ConfigInv, ReadSkill, At, Engaged
  <1>2. name \in Names
    BY <1>1 DEF Names
  <1>3. FilesWell' /\ evidenced \subseteq evidenced'
    BY <1>1, FilesKept DEF ConfigInv, FilesWell
  <1>4. current \in Contents /\ Bundled(p) \in Recorded
    BY <1>2 DEF ConfigInv, FilesWell, Bundled, Recorded
  <1>5. \/ /\ Overwrites(p, name, current)
           /\ cli' = [cli EXCEPT ![p].pc = "write_skill", ![p].saw = current]
        \/ NextSkill(p, record)
    BY DEF ReadSkill
  <1> HIDE DEF current, name
  <1>6. CASE /\ Overwrites(p, name, current)
             /\ cli' = [cli EXCEPT ![p].pc = "write_skill", ![p].saw = current]
    <2> DEFINE r2 == [r EXCEPT !.pc = "write_skill", !.saw = current]
    <2>1. cli' = [cli EXCEPT ![p] = r2]
      BY <1>1, <1>6
    <2>2. /\ r2 \in ProcessValues /\ r2.pc = "write_skill" /\ r2.manifest = r.manifest
          /\ r2.saw = current /\ r2.next = r.next /\ r2.flags = r.flags
          /\ r2.kind = r.kind /\ r2.dir = r.dir
      BY <1>1, <1>4 DEF ProcessValues, Steps
    <2>3. r.manifest[name] # "mine"
      BY <1>1, <1>2, MachineAssumption DEF Manifests, Recorded
    <2>4. "force" \in r.flags \/ current # "mine"
      BY <1>6, <2>3 DEF Overwrites
    <2> HIDE DEF r2
    <2>5. Engaged(r2, Install[p], evidenced, repo)
      BY <1>1, <2>2, <2>4 DEF Engaged
    <2> QED
      BY <1>1, <1>3, <2>1, <2>2, <2>5, OneProcess
  <1>7. CASE NextSkill(p, record)
    <2>1. record \in Manifests
      BY <1>1, <1>2, <1>4 DEF Manifests
    <2> HIDE DEF record
    <2> QED
      BY <1>1, <1>3, <1>7, <2>1, NextSkillStep
  <1> QED
    BY <1>5, <1>6, <1>7

LEMMA WriteSkillStep ==
  ASSUME ConfigInv, NEW p \in Procs, WriteSkill(p)
  PROVE  ConfigInv'
  <1> DEFINE r == cli[p]
             name == Skills[r.next]
             bundle == Bundled(p)
             record == [r.manifest EXCEPT ![name] = bundle]
  <1>1. /\ Engaged(r, Install[p], evidenced, repo) /\ r.pc = "write_skill" /\ r.next \in DOMAIN Skills
        /\ r.manifest \in Manifests
    BY DEF ConfigInv, WriteSkill, At, Engaged
  <1>2. /\ skills' = [skills EXCEPT !.file[name] = bundle, !.mine = @ \ {name}]
        /\ NextSkill(p, record) /\ UNCHANGED <<fixed, settings, disk, registry, evidenced, left>>
    BY DEF WriteSkill
  <1>3. name \in Names /\ bundle \in Recorded /\ bundle \in Contents
    BY <1>1 DEF Names, Bundled, Recorded, Contents
  <1> HIDE DEF name, bundle
  <1>4. /\ skills \in [file : [Names -> Contents], manifest : Manifests, mine : SUBSET Names]
        /\ \A k \in skills.mine : skills.file[k] = "mine"
    BY DEF ConfigInv, FilesWell
  <1>5. /\ skills' \in [file : [Names -> Contents], manifest : Manifests, mine : SUBSET Names]
        /\ skills'.mine = skills.mine \ {name}
        /\ \A k \in Names \ {name} : skills'.file[k] = skills.file[k]
    BY <1>2, <1>3, <1>4
  <1>6. \A k \in skills'.mine : skills'.file[k] = "mine"
    BY <1>4, <1>5
  <1>7. FilesWell'
    BY <1>2, <1>5, <1>6 DEF ConfigInv, FilesWell, fixed
  <1>8. record \in Manifests
    BY <1>1, <1>3 DEF Manifests
  <1> HIDE DEF record
  <1> QED
    BY <1>1, <1>2, <1>7, <1>8, NextSkillStep

LEMMA WriteManifestStep ==
  ASSUME ConfigInv, NEW p \in Procs, WriteManifest(p)
  PROVE  ConfigInv'
  <1> DEFINE r == cli[p]
  <1>1. /\ cli \in [Procs -> ProcessValues] /\ r \in ProcessValues
        /\ Engaged(r, Install[p], evidenced, repo) /\ r.pc = "skill" /\ r.manifest \in Manifests
        /\ r.kind = "init"
    BY DEF ConfigInv, WriteManifest, At, Engaged
  <1>2. /\ skills' = [skills EXCEPT !.manifest = r.manifest] /\ Goto(p, "mcp")
        /\ UNCHANGED <<fixed, settings, disk, registry, evidenced, left>>
    BY DEF WriteManifest
  <1>3. /\ skills \in [file : [Names -> Contents], manifest : Manifests, mine : SUBSET Names]
        /\ \A k \in skills.mine : skills.file[k] = "mine"
    BY DEF ConfigInv, FilesWell
  <1>4. /\ skills' \in [file : [Names -> Contents], manifest : Manifests, mine : SUBSET Names]
        /\ skills'.mine = skills.mine /\ skills'.file = skills.file
    BY <1>1, <1>2, <1>3
  <1>5. FilesWell'
    BY <1>2, <1>3, <1>4 DEF ConfigInv, FilesWell, fixed
  <1>6. cli' = [cli EXCEPT ![p].pc = "mcp", ![p].outcome = r.outcome]
    BY <1>1, <1>2 DEF Goto, ProcessValues
  <1>7. r.outcome \in Outcomes /\ r.pc \notin {"idle", "done"}
    BY <1>1 DEF ProcessValues
  <1> QED
    BY <1>1, <1>2, <1>5, <1>6, <1>7, OnwardStep

LEMMA SkillsFailStep ==
  ASSUME ConfigInv, NEW p \in Procs, SkillsFail(p)
  PROVE  ConfigInv'
  <1> DEFINE r == cli[p]
  <1>1. /\ cli \in [Procs -> ProcessValues] /\ r \in ProcessValues
        /\ Engaged(r, Install[p], evidenced, repo) /\ r.pc \in {"skill", "write_skill"}
        /\ r.kind = "init"
    BY DEF ConfigInv, SkillsFail, Engaged
  <1>2. Goto(p, "mcp") /\ UNCHANGED <<fixed, files, evidenced>> /\ Spend("faults")
    BY DEF SkillsFail
  <1>3. left' \in [Kinds -> Nat]
    BY <1>2, Spent DEF ConfigInv, FilesWell, Kinds
  <1>4. FilesWell'
    BY <1>2, <1>3, FilesKept DEF ConfigInv
  <1>5. cli' = [cli EXCEPT ![p].pc = "mcp", ![p].outcome = r.outcome]
    BY <1>1, <1>2 DEF Goto, ProcessValues
  <1>6. r.outcome \in Outcomes /\ r.pc \notin {"idle", "done"}
    BY <1>1 DEF ProcessValues
  <1> QED
    BY <1>1, <1>2, <1>4, <1>5, <1>6, OnwardStep

Registering(r, read, command) ==
  [r EXCEPT !.pc = "register", !.registry = read, !.command = command]

LEMMA RegisteringType ==
  ASSUME NEW r \in ProcessValues, NEW read \in Registries, NEW command \in Commands
  PROVE  /\ Registering(r, read, command) \in ProcessValues
         /\ Registering(r, read, command).pc = "register"
         /\ Registering(r, read, command).registry = read
         /\ Registering(r, read, command).command = command
         /\ Registering(r, read, command).kind = r.kind /\ Registering(r, read, command).dir = r.dir
  <1>1. "register" \in Steps
    BY DEF Steps
  <1> QED
    BY <1>1 DEF Registering, ProcessValues

LEMMA ReadRegistryStep ==
  ASSUME ConfigInv, NEW p \in Procs, ReadRegistry(p)
  PROVE  ConfigInv'
  <1> DEFINE r == cli[p]
             command == Binary(p)
  <1>1. /\ cli \in [Procs -> ProcessValues] /\ r \in ProcessValues
        /\ Engaged(r, Install[p], evidenced, repo) /\ r.pc = "mcp" /\ registry \in Registries
    BY DEF ConfigInv, ReadRegistry, At, FilesWell
  <1>2. UNCHANGED <<fixed, files, evidenced, left>>
    BY DEF ReadRegistry
  <1>3. FilesWell' /\ evidenced \subseteq evidenced'
    BY <1>2, FilesKept DEF ConfigInv, FilesWell
  <1>4. CASE /\ command # "none"
             /\ cli' = [cli EXCEPT ![p].pc = "register", ![p].registry = registry,
                                   ![p].command = command]
    <2> DEFINE r2 == Registering(r, registry, command)
    <2>1. cli' = [cli EXCEPT ![p] = r2]
      BY <1>1, <1>4 DEF Registering
    <2>2. command \in Commands
      BY <1>4, BinaryType, CommandAssumption DEF Binary
    <2> HIDE DEF command
    <2>3. /\ r2 \in ProcessValues /\ r2.pc = "register" /\ r2.registry = registry
          /\ r2.command = command /\ r2.kind = r.kind /\ r2.dir = r.dir
      BY <1>1, <2>2, RegisteringType
    <2> HIDE DEF r2
    <2>4. Engaged(r2, Install[p], evidenced, repo)
      BY <1>1, <2>2, <2>3 DEF Engaged
    <2> QED
      BY <1>2, <1>3, <2>1, <2>3, <2>4, OneProcess
  <1>5. CASE Finish(p, r.outcome)
    <2>1. r.outcome \in Outcomes
      BY <1>1 DEF ProcessValues
    <2> QED
      BY <1>2, <1>3, <1>5, <2>1, FinishStep
  <1> QED
    BY <1>4, <1>5 DEF ReadRegistry

LEMMA WriteRegistryStep ==
  ASSUME ConfigInv, NEW p \in Procs, WriteRegistry(p)
  PROVE  ConfigInv'
  <1> DEFINE r == cli[p]
  <1>1. /\ r \in ProcessValues /\ r.registry \in Registries /\ r.command \in Commands
    BY DEF ConfigInv, WriteRegistry, At, Engaged
  <1>2. /\ registry' = [r.registry EXCEPT !.state = "ok", !.ours = r.command]
        /\ Finish(p, r.outcome) /\ UNCHANGED <<fixed, settings, disk, skills, evidenced, left>>
    BY DEF WriteRegistry
  <1>3. registry' \in Registries
    BY <1>1, <1>2 DEF Registries
  <1>4. FilesWell'
    BY <1>2, <1>3 DEF ConfigInv, FilesWell, fixed
  <1>5. r.outcome \in Outcomes
    BY <1>1 DEF ProcessValues
  <1> QED
    BY <1>2, <1>4, <1>5, FinishStep

LEMMA CrashStep ==
  ASSUME ConfigInv, NEW p \in Procs, Crash(p)
  PROVE  ConfigInv'
  <1>1. Finish(p, "crashed") /\ UNCHANGED <<fixed, files, evidenced>> /\ Spend("faults")
    BY DEF Crash
  <1>2. left' \in [Kinds -> Nat]
    BY <1>1, Spent DEF ConfigInv, FilesWell, Kinds
  <1>3. FilesWell' /\ "crashed" \in Outcomes
    BY <1>1, <1>2, FilesKept DEF ConfigInv, Outcomes
  <1> QED
    BY <1>1, <1>3, FinishStep

LEMMA ProcessStep ==
  ASSUME ConfigInv, NEW p \in Procs, Process(p)
  PROVE  ConfigInv'
  BY ReadLocalStep, DecideStep, CompareStep, CannotWriteStep, ReplaceStep, OpenSkillsStep,
     ReadSkillStep, WriteSkillStep, WriteManifestStep, SkillsFailStep, ReadRegistryStep,
     WriteRegistryStep, CrashStep DEF Process

-----------------------------------------------------------------------------
(***************************************************************************)
(* The steps of the user, and those that leave the files alone.            *)
(***************************************************************************)
LEMMA SaveSettingsStep ==
  ASSUME ConfigInv, NEW which \in {"shared", "local"}, NEW d \in Directories, NEW file \in EditFiles,
         SaveSettings(which, d, file)
  PROVE  ConfigInv'
  <1>1. /\ settings' = [settings EXCEPT ![which][d] = file] /\ Spend("edits")
        /\ evidenced' = evidenced \union PlacesWithEvidence(settings'.shared, settings'.local)
        /\ UNCHANGED <<fixed, disk, skills, registry, cli>>
    BY DEF SaveSettings
  <1>2. file \in SettingsFiles
    BY MachineAssumption
  <1>3. /\ settings \in [shared : [Directories -> SettingsFiles], local : [Directories -> SettingsFiles]]
        /\ left \in [Kinds -> Nat]
    BY DEF ConfigInv, FilesWell
  <1>4. settings' \in [shared : [Directories -> SettingsFiles], local : [Directories -> SettingsFiles]]
    <2>1. CASE which = "shared"
      BY <1>1, <1>2, <1>3, <2>1
    <2>2. CASE which = "local"
      BY <1>1, <1>2, <1>3, <2>2
    <2> QED
      BY <2>1, <2>2
  <1>5. left' \in [Kinds -> Nat]
    BY <1>1, <1>3, Spent DEF Kinds
  <1> DEFINE config == settings'
  <1>6. evidenced' = evidenced \union PlacesWithEvidence(config.shared, config.local)
    BY <1>1
  <1>7. repo' = repo
    BY <1>1 DEF fixed
  <1> HIDE DEF config
  <1>8. Evident(config, evidenced', repo)
    BY <1>6 DEF Evident, PlacesWithEvidence, Place
  <1>9. FilesWell'
    BY <1>1, <1>4, <1>5, <1>7, <1>8 DEF ConfigInv, FilesWell, fixed, config
  <1> QED
    BY <1>1, <1>9, NoProcessSteps

LEMMA SaveSkillStep ==
  ASSUME ConfigInv, NEW name \in Names, SaveSkill(name)
  PROVE  ConfigInv'
  <1>1. /\ skills' = [skills EXCEPT !.file[name] = "mine", !.mine = @ \union {name}]
        /\ Spend("saves") /\ UNCHANGED <<fixed, settings, disk, registry, cli, evidenced>>
    BY DEF SaveSkill
  <1>2. /\ skills \in [file : [Names -> Contents], manifest : Manifests, mine : SUBSET Names]
        /\ \A k \in skills.mine : skills.file[k] = "mine"
        /\ left \in [Kinds -> Nat]
    BY DEF ConfigInv, FilesWell
  <1>3. "mine" \in Contents
    BY DEF Contents
  <1>4. /\ skills' \in [file : [Names -> Contents], manifest : Manifests, mine : SUBSET Names]
        /\ skills'.mine = skills.mine \union {name}
        /\ \A k \in Names : skills'.file[k] = IF k = name THEN "mine" ELSE skills.file[k]
    BY <1>1, <1>2, <1>3
  <1>5. \A k \in skills'.mine : skills'.file[k] = "mine"
    BY <1>2, <1>4
  <1>6. left' \in [Kinds -> Nat]
    BY <1>1, <1>2, Spent DEF Kinds
  <1>7. FilesWell'
    BY <1>1, <1>4, <1>5, <1>6 DEF ConfigInv, FilesWell, fixed
  <1> QED
    BY <1>1, <1>7, NoProcessSteps

LEMMA SaveRegistryStep ==
  ASSUME ConfigInv, NEW others \in {{}, {"theirs"}}, SaveRegistry(others)
  PROVE  ConfigInv'
  <1>1. /\ registry' = [registry EXCEPT !.state = "ok", !.others = others]
        /\ Spend("saves") /\ UNCHANGED <<fixed, settings, disk, skills, cli, evidenced>>
    BY DEF SaveRegistry
  <1>2. registry \in Registries /\ left \in [Kinds -> Nat]
    BY DEF ConfigInv, FilesWell
  <1>3. others \in SUBSET {"theirs"}
    OBVIOUS
  <1>4. registry' \in Registries
    BY <1>1, <1>2, <1>3 DEF Registries
  <1>5. left' \in [Kinds -> Nat]
    BY <1>1, <1>2, Spent DEF Kinds
  <1>6. FilesWell'
    BY <1>1, <1>4, <1>5 DEF ConfigInv, FilesWell, fixed
  <1> QED
    BY <1>1, <1>6, NoProcessSteps

LEMMA ChangeDiskStep ==
  ASSUME ConfigInv, NEW c \in Absolute, NEW state \in {"executable", "file", "gone"},
         ChangeDisk(c, state)
  PROVE  ConfigInv'
  <1>1. /\ disk' = [disk EXCEPT ![c] = state]
        /\ Spend("installs") /\ UNCHANGED <<fixed, settings, registry, skills, cli, evidenced>>
    BY DEF ChangeDisk
  <1>2. disk \in Disks /\ left \in [Kinds -> Nat]
    BY DEF ConfigInv, FilesWell
  <1>3. disk' \in Disks
    BY <1>1, <1>2 DEF Disks
  <1>4. left' \in [Kinds -> Nat]
    BY <1>1, <1>2, Spent DEF Kinds
  <1>5. FilesWell'
    BY <1>1, <1>3, <1>4 DEF ConfigInv, FilesWell, fixed
  <1> QED
    BY <1>1, <1>5, NoProcessSteps

\* Sessions, their servers and the viewer have no part in it.
LEMMA ElsewhereStep ==
  ASSUME ConfigInv, UNCHANGED <<fixed, files, cli, evidenced>>,
         UNCHANGED left \/ \E kind \in Kinds : Spend(kind)
  PROVE  ConfigInv'
  <1>1. left' \in [Kinds -> Nat]
    BY Spent DEF ConfigInv, FilesWell
  <1>2. FilesWell'
    BY <1>1, FilesKept DEF ConfigInv
  <1> QED
    BY <1>2, NoProcessSteps

LEMMA ElsewhereActions ==
  ASSUME Claude \/ Server \/ Tick \/ (\E listing \in SessionListings(traces) : Show(listing))
           \/ UNCHANGED vars
  PROVE  /\ UNCHANGED <<fixed, files, cli, evidenced>>
         /\ UNCHANGED left \/ \E kind \in Kinds : Spend(kind)
  <1>1. CASE Claude
    BY <1>1 DEF Claude, Open, Clear, Work, Close, DeleteTrace, Kinds
  <1>2. CASE Server
    BY <1>2 DEF Server, Ask, Stat, Resolve, Emit, MeasuredRead, Kinds
  <1>3. CASE Tick
    BY <1>3 DEF Tick, Kinds
  <1>4. CASE \E listing \in SessionListings(traces) : Show(listing)
    BY <1>4 DEF Show, Kinds
  <1>5. CASE UNCHANGED vars
    BY <1>5 DEF vars
  <1> QED
    BY <1>1, <1>2, <1>3, <1>4, <1>5

LEMMA ConfigInit == Init => ConfigInv
  <1> SUFFICES ASSUME Init PROVE ConfigInv
    OBVIOUS
  <1>1. PICK start \in Starts :
          /\ repo = start.repo /\ modes = start.modes
          /\ settings = [shared |-> [d \in Directories |-> start.shared[d]],
                         local |-> [d \in Directories |-> start.local[d]]]
          /\ disk = start.disk /\ registry = start.registry /\ left = start.left
    BY DEF Init
  <1>2. /\ skills = [file |-> [k \in Names |-> "none"], manifest |-> [k \in Names |-> "none"], mine |-> {}]
        /\ cli = [p \in Procs |-> NoProcess]
        /\ evidenced = PlacesWithEvidence(settings.shared, settings.local)
    BY DEF Init
  <1>3. /\ \A d \in Directories : start.shared[d] \in SettingsFiles /\ start.local[d] \in SettingsFiles
        /\ start.disk \in Disks /\ start.registry \in Registries /\ start.left \in [Kinds -> Nat]
        /\ \A mode \in start.modes : mode.kind \in {"init", "seam"} /\ mode.flags \subseteq Flags
    BY StartAssumption DEF Disks
  <1>4. settings \in [shared : [Directories -> SettingsFiles], local : [Directories -> SettingsFiles]]
    BY <1>1, <1>3
  <1>5. Evident(settings, evidenced, repo)
    BY <1>2 DEF Evident, PlacesWithEvidence, Place
  <1>6. /\ skills \in [file : [Names -> Contents], manifest : Manifests, mine : SUBSET Names]
        /\ skills.mine = {}
    BY <1>2 DEF Manifests, Contents, Recorded
  <1>7. FilesWell
    BY <1>1, <1>3, <1>4, <1>5, <1>6 DEF FilesWell
  <1>8. NoProcess \in ProcessValues /\ NoProcess.pc = "idle"
    BY DEF NoProcess, ProcessValues, Steps, Contents, Recorded, Outcomes
  <1>9. \A p \in Procs : Engaged(NoProcess, Install[p], evidenced, repo)
    BY <1>8, Idle
  <1> QED
    BY <1>2, <1>7, <1>8, <1>9 DEF ConfigInv

LEMMA ConfigStep == ConfigInv /\ [Next]_vars => ConfigInv'
  <1> SUFFICES ASSUME ConfigInv, [Next]_vars PROVE ConfigInv'
    OBVIOUS
  <1>1. CASE Commanded
    BY <1>1, StartStep DEF Commanded
  <1>2. CASE \E p \in Procs : Process(p)
    BY <1>2, ProcessStep
  <1>3. CASE User
    BY <1>3, SaveSettingsStep, SaveSkillStep, SaveRegistryStep, ChangeDiskStep DEF User
  <1>4. CASE Claude \/ Server \/ Tick \/ (\E listing \in SessionListings(traces) : Show(listing))
               \/ UNCHANGED vars
    BY <1>4, ElsewhereActions, ElsewhereStep
  <1> QED
    BY <1>1, <1>2, <1>3, <1>4 DEF Next

(***************************************************************************)
(* The files and what is decided of them stay well formed, and so do the   *)
(* traces and windows.                                                     *)
(***************************************************************************)
LEMMA WellFormed == SessionInv /\ ConfigInv => TypeOK
  <1> SUFFICES ASSUME SessionInv, ConfigInv PROVE TypeOK
    OBVIOUS
  <1>1. \A which \in {"shared", "local"}, d \in Directories : settings[which][d] \in SettingsFiles
    <2>1. \A d \in Directories : settings.shared[d] \in SettingsFiles /\ settings.local[d] \in SettingsFiles
      BY DEF ConfigInv, FilesWell
    <2> QED
      BY <2>1
  <1>2. /\ disk \in [Absolute -> {"executable", "file", "gone"}]
        /\ skills.mine \subseteq Names
    BY DEF ConfigInv, FilesWell, Disks
  <1>3. ASSUME NEW p \in Procs
        PROVE  /\ cli[p].pc \in {"idle", "read_local", "decide", "compare", "replace", "skills",
                                 "skill", "write_skill", "mcp", "register", "done"}
               /\ cli[p].pc \in {"compare", "replace"} => cli[p].doc \in Documents
    <2>1. cli[p] \in ProcessValues /\ Engaged(cli[p], Install[p], evidenced, repo)
      BY DEF ConfigInv
    <2>2. cli[p].pc \in {"compare", "replace"} => cli[p].doc \in Documents
      BY <2>1, PlannedDocument
    <2> QED
      BY <2>1, <2>2 DEF ProcessValues, Steps
  <1>4. traces \in [Sessions -> [there : BOOLEAN, start : 0..clock, mtime : 0..clock, turns : BOOLEAN,
                                 transient : BOOLEAN]]
    <2>1. traces \in [Sessions -> TraceValues] /\ clock \in Nat
          /\ \A s \in Sessions : traces[s].start <= traces[s].mtime /\ traces[s].mtime <= clock
      BY DEF SessionInv, SessionTypes, Clocked
    <2>2. ASSUME NEW s \in Sessions
          PROVE  traces[s] \in [there : BOOLEAN, start : 0..clock, mtime : 0..clock, turns : BOOLEAN,
                                transient : BOOLEAN]
      <3>1. traces[s] \in TraceValues /\ traces[s].start \in Nat /\ traces[s].mtime \in Nat
        BY <2>1 DEF TraceValues
      <3>2. traces[s].start \in 0..clock /\ traces[s].mtime \in 0..clock
        BY <2>1, <3>1
      <3> QED
        BY <3>1, <3>2 DEF TraceValues
    <2> QED
      BY <2>1, <2>2
  <1>5. /\ \A s \in Sessions : traces[s].start <= traces[s].mtime
        /\ \A w \in Windows : windows[w].in = "none" => windows[w] = Closed
    BY DEF SessionInv, SessionTypes, Clocked
  <1> QED
    BY <1>1, <1>2, <1>3, <1>4, <1>5 DEF TypeOK

LEMMA Settled == ConfigInv => SettlesInOne /\ NothingFromNothing
  <1> SUFFICES ASSUME ConfigInv PROVE SettlesInOne /\ NothingFromNothing
    OBVIOUS
  <1>1. \A d \in Directories : settings.shared[d] \in SettingsFiles /\ settings.local[d] \in SettingsFiles
    BY DEF ConfigInv, FilesWell
  <1>2. ASSUME NEW d \in Directories, NEW p \in Procs, NEW isSeam \in BOOLEAN,
               ConvergeDecision(disk, Local(d), settings.shared[d], Binary(p), isSeam).outcome = "plan"
        PROVE  LET first == ConvergeDecision(disk, Local(d), settings.shared[d], Binary(p), isSeam)
               IN ConvergeDecision(disk, [state |-> "ok", doc |-> first.doc], settings.shared[d],
                                   Binary(p), isSeam).outcome = "noop"
    <2>1. Local(d) \in SettingsFiles
      BY <1>1, PlaceType DEF Local, Place
    <2>2. Binary(p) \in Named
      <3>1. Binary(p) # "none"
        BY <1>1, <1>2, <2>1, DecisionCases DEF Sole
      <3> QED
        BY <3>1, BinaryType DEF Binary
    <2> QED
      BY <1>1, <1>2, <2>1, <2>2, PlanSettles
  <1>3. SettlesInOne
    BY <1>2 DEF SettlesInOne
  <1>4. NothingFromNothing
    BY DEF NothingFromNothing, ConfigInv, FilesWell, Evident
  <1> QED
    BY <1>3, <1>4

(***************************************************************************)
(* The files stay well formed; converging what converging left finds       *)
(* nothing to do; and no entry of Sentience's comes to stand where none    *)
(* was found and init was never given the place: for any documents,        *)
(* installs, directories, number of processes, and interleaving.           *)
(***************************************************************************)
THEOREM Settles == Spec => []ConfigurationSettles
  <1>1. SessionInv /\ ConfigInv => ConfigurationSettles
    BY WellFormed, Settled DEF ConfigurationSettles
  <1>2. Init => SessionInv /\ ConfigInv
    BY SessionInit, ConfigInit
  <1>3. (SessionInv /\ ConfigInv) /\ [Next]_vars => (SessionInv /\ ConfigInv)'
    BY SessionStep, ConfigStep
  <1> QED
    BY <1>1, <1>2, <1>3, PTL DEF Spec

-----------------------------------------------------------------------------
(***************************************************************************)
(* What a user has beside Sentience's own entries.                         *)
(***************************************************************************)
LEMMA ReplaceKeeps ==
  ASSUME ConfigInv, NEW p \in Procs, Replace(p), NEW d \in Directories
  PROVE  /\ settings'.shared = settings.shared
         /\ \/ /\ ForeignEntries(settings'.local[d].doc) = ForeignEntries(settings.local[d].doc)
               /\ settings'.local[d].doc.rest = settings.local[d].doc.rest
            \/ cli[p].local # settings.local[d]
  <1> DEFINE r == cli[p]
             place == Place(r.dir)
             written == [state |-> "ok", doc |-> r.doc]
  <1>1. /\ r.pc = "replace" /\ Engaged(r, Install[p], evidenced, repo) /\ r.dir \in Directories
        /\ settings' = [settings EXCEPT !.local[place] = written]
    BY DEF Replace, At, ConfigInv, Engaged
  <1>2. settings \in [shared : [Directories -> SettingsFiles], local : [Directories -> SettingsFiles]]
    BY DEF ConfigInv, FilesWell
  <1>3. place \in Directories
    BY <1>1, PlaceType DEF Place
  <1> HIDE DEF place
  <1>4. /\ settings'.shared = settings.shared
        /\ \A e \in Directories : settings'.local[e] = IF e = place THEN written ELSE settings.local[e]
    <2> HIDE DEF written
    <2> QED
      BY <1>1, <1>2, <1>3
  <1>5. CASE d # place
    BY <1>4, <1>5
  <1>6. CASE d = place /\ r.local = settings.local[d]
    <2> DEFINE binary == ResolveBinary(r.decided, Install[p].sibling, Install[p].onPath)
    <2>1. binary \in Named /\ r.doc = Converged(r.local.doc, binary)
      BY <1>1, PlannedDocument
    <2> HIDE DEF binary
    <2>2. r.local.doc \in Documents
      BY <1>2, <1>6 DEF SettingsFiles
    <2>3. ForeignEntries(r.doc) = ForeignEntries(r.local.doc) /\ r.doc.rest = r.local.doc.rest
      BY <2>1, <2>2, ConvergedDocument
    <2>4. settings'.local[d].doc = r.doc
      BY <1>4, <1>6
    <2> QED
      BY <1>4, <1>6, <2>3, <2>4
  <1> QED
    BY <1>4, <1>5, <1>6

\* The two steps of the user that change them are paid for.
LEMMA SavingSpends ==
  ASSUME ConfigInv, User, left'.edits = left.edits, left'.saves = left.saves
  PROVE  UNCHANGED <<settings, registry>>
  <1>1. left \in [Kinds -> Nat]
    BY DEF ConfigInv, FilesWell
  <1>2. ~Spend("edits") /\ ~Spend("saves")
    <2>1. "edits" \in Kinds /\ "saves" \in Kinds
      BY DEF Kinds
    <2>2. Spend("edits") => left'["edits"] # left["edits"]
      BY <1>1, <2>1, Spent
    <2>3. Spend("saves") => left'["saves"] # left["saves"]
      BY <1>1, <2>1, Spent
    <2> QED
      BY <2>2, <2>3
  <1> QED
    BY <1>2 DEF User, SaveSettings, SaveSkill, SaveRegistry, ChangeDisk

LEMMA RegistryKept ==
  ASSUME ConfigInv, NEW p \in Procs, WriteRegistry(p)
  PROVE  registry'.others = registry.others \/ (At(p, "register") /\ cli[p].registry # registry)
  <1>1. At(p, "register") /\ registry' = [cli[p].registry EXCEPT !.state = "ok", !.ours = cli[p].command]
    BY DEF WriteRegistry
  <1>2. registry \in Registries
    BY DEF ConfigInv, FilesWell
  <1>3. CASE cli[p].registry = registry
    BY <1>1, <1>2, <1>3 DEF Registries
  <1> QED
    BY <1>1, <1>3

LEMMA ForeignKept == ConfigInv /\ [Next]_vars => KeepsForeign
  <1> SUFFICES ASSUME ConfigInv, [Next]_vars PROVE KeepsForeign
    OBVIOUS
  <1>1. CASE UNCHANGED <<settings, registry>>
    BY <1>1 DEF KeepsForeign
  <1>2. ASSUME NEW p \in Procs, Replace(p) PROVE KeepsForeign
    <2>1. At(p, "replace") /\ registry' = registry
      BY <1>2 DEF Replace
    <2>2. settings'.shared = settings.shared
      <3>1. "root" \in Directories
        BY MachineAssumption
      <3> QED
        BY <1>2, <3>1, ReplaceKeeps
    <2>3. ASSUME NEW d \in Directories
          PROVE  \/ /\ ForeignEntries(settings'.local[d].doc) = ForeignEntries(settings.local[d].doc)
                    /\ settings'.local[d].doc.rest = settings.local[d].doc.rest
                 \/ \E q \in Procs : At(q, "replace") /\ cli[q].local # settings.local[d]
      BY <1>2, <2>1, ReplaceKeeps
    <2> QED
      BY <2>1, <2>2, <2>3 DEF KeepsForeign
  <1>3. ASSUME NEW p \in Procs, WriteRegistry(p) PROVE KeepsForeign
    <2>1. settings' = settings
      BY <1>3 DEF WriteRegistry
    <2> QED
      BY <1>3, <2>1, RegistryKept DEF KeepsForeign
  <1>4. CASE User
    <2> SUFFICES ASSUME left'.edits = left.edits, left'.saves = left.saves PROVE KeepsForeign
      BY DEF KeepsForeign
    <2> QED
      BY <1>1, <1>4, SavingSpends
  <1>5. CASE \E p \in Procs : Process(p) /\ ~Replace(p) /\ ~WriteRegistry(p)
    BY <1>1, <1>5 DEF Process, ReadLocal, Decide, Compare, CannotWrite, OpenSkills, ReadSkill,
       WriteSkill, WriteManifest, SkillsFail, ReadRegistry, Crash, files
  <1>6. CASE Commanded
    BY <1>1, <1>6 DEF Commanded, StartRun, files
  <1>7. CASE Claude \/ Server \/ Tick \/ (\E listing \in SessionListings(traces) : Show(listing))
               \/ UNCHANGED vars
    BY <1>1, <1>7, ElsewhereActions DEF files
  <1> QED
    BY <1>2, <1>3, <1>4, <1>5, <1>6, <1>7 DEF Next

LEMMA WriteSkillKeeps ==
  ASSUME ConfigInv, NEW p \in Procs, WriteSkill(p), NEW name \in skills.mine
  PROVE  \/ skills'.file[name] = skills.file[name]
         \/ At(p, "write_skill") /\ ("force" \in cli[p].flags \/ cli[p].saw # skills.file[name])
  <1>1. /\ At(p, "write_skill") /\ cli[p].next \in DOMAIN Skills
        /\ "force" \in cli[p].flags \/ cli[p].saw # "mine"
        /\ skills' = [skills EXCEPT !.file[Skills[cli[p].next]] = Bundled(p),
                                    !.mine = @ \ {Skills[cli[p].next]}]
    BY DEF WriteSkill, At, ConfigInv, Engaged
  <1>2. /\ skills \in [file : [Names -> Contents], manifest : Manifests, mine : SUBSET Names]
        /\ skills.file[name] = "mine" /\ name \in Names
    BY DEF ConfigInv, FilesWell
  <1> DEFINE written == Skills[cli[p].next]
             bundle == Bundled(p)
  <1>3. CASE name # written
    <2>1. skills' = [skills EXCEPT !.file[written] = bundle, !.mine = @ \ {written}]
      BY <1>1
    <2> HIDE DEF written, bundle
    <2>2. skills'.file[name] = skills.file[name]
      BY <1>2, <1>3, <2>1
    <2> QED
      BY <2>2
  <1>4. CASE name = written
    BY <1>1, <1>2
  <1> QED
    BY <1>3, <1>4

LEMMA HandEditsKept == ConfigInv /\ [Next]_vars => KeepsHandEdits
  <1> SUFFICES ASSUME ConfigInv, [Next]_vars PROVE KeepsHandEdits
    OBVIOUS
  <1>1. CASE UNCHANGED skills
    BY <1>1 DEF KeepsHandEdits
  <1>2. /\ skills \in [file : [Names -> Contents], manifest : Manifests, mine : SUBSET Names]
        /\ \A name \in skills.mine : skills.file[name] = "mine"
    BY DEF ConfigInv, FilesWell
  <1>3. ASSUME NEW p \in Procs, WriteSkill(p) PROVE KeepsHandEdits
    BY <1>3, WriteSkillKeeps DEF KeepsHandEdits
  <1>4. ASSUME NEW p \in Procs, WriteManifest(p) PROVE KeepsHandEdits
    <2>1. skills'.file = skills.file
      BY <1>2, <1>4 DEF WriteManifest
    <2> QED
      BY <2>1 DEF KeepsHandEdits
  <1>5. ASSUME NEW name \in Names, SaveSkill(name) PROVE KeepsHandEdits
    <2>1. skills' = [skills EXCEPT !.file[name] = "mine", !.mine = @ \union {name}]
      BY <1>5 DEF SaveSkill
    <2>2. \A k \in Names : skills'.file[k] = IF k = name THEN "mine" ELSE skills.file[k]
      BY <1>2, <2>1
    <2>3. \A k \in skills.mine : skills'.file[k] = skills.file[k]
      BY <1>2, <2>2
    <2> QED
      BY <2>3 DEF KeepsHandEdits
  <1>6. CASE User
    BY <1>1, <1>5, <1>6 DEF User, SaveSettings, SaveRegistry, ChangeDisk
  <1>7. CASE \E p \in Procs : Process(p) /\ ~WriteSkill(p) /\ ~WriteManifest(p)
    BY <1>1, <1>7 DEF Process, ReadLocal, Decide, Compare, CannotWrite, Replace, OpenSkills, ReadSkill,
       SkillsFail, ReadRegistry, WriteRegistry, Crash, files
  <1>8. CASE Commanded
    BY <1>1, <1>8 DEF Commanded, StartRun, files
  <1>9. CASE Claude \/ Server \/ Tick \/ (\E listing \in SessionListings(traces) : Show(listing))
               \/ UNCHANGED vars
    BY <1>1, <1>9, ElsewhereActions DEF files
  <1> QED
    BY <1>3, <1>4, <1>6, <1>7, <1>8, <1>9 DEF Next

(***************************************************************************)
(* No step of any process loses what the user saved - in the settings, in  *)
(* .mcp.json or in a skill - outside the windows that KeepsForeign and     *)
(* KeepsHandEdits name.                                                    *)
(***************************************************************************)
THEOREM Survives == Spec => UsersWorkSurvives
  <1>1. ConfigInv /\ [Next]_vars => [KeepsForeign /\ KeepsHandEdits]_vars
    BY ForeignKept, HandEditsKept
  <1> QED
    BY <1>1, ConfigInit, ConfigStep, PTL DEF Spec, UsersWorkSurvives

-----------------------------------------------------------------------------
(***************************************************************************)
(* The Sentience commands that run on an event, from the two files.        *)
(***************************************************************************)
EntriesOf(file, event) == IF file.state # "ok" THEN {} ELSE Range(file.doc.hooks[event])
Hooks(d, shared, local, event) ==
  {c \in Mentions : /\ ManagedEntryLive(d, c)
                    /\ \E e \in EntriesOf(shared, event) \union EntriesOf(local, event) :
                         c \in InnerCommands(e)}

LEMMA EntriesType ==
  ASSUME NEW file \in SettingsFiles, NEW event \in Events, NEW e \in EntriesOf(file, event)
  PROVE  /\ e \in EntryValues /\ file.state = "ok"
         /\ \E i \in DOMAIN file.doc.hooks[event] : e = file.doc.hooks[event][i]
  <1>1. file.state = "ok" /\ e \in Range(file.doc.hooks[event])
    BY DEF EntriesOf
  <1>2. file.doc \in Documents
    BY DEF SettingsFiles
  <1> QED
    BY <1>1, <1>2, DocumentShape DEF Range

\* A file without evidence runs none.
LEMMA ForeignRunsNone ==
  ASSUME NEW file \in SettingsFiles, NEW event \in Events, NEW e \in EntriesOf(file, event),
         Readable(file) => ~HasEvidence(file.doc)
  PROVE  InnerCommands(e) \intersect Mentions = {}
  <1>1. PICK i \in DOMAIN file.doc.hooks[event] : e = file.doc.hooks[event][i]
    BY EntriesType
  <1>2. e \in EntryValues /\ file.state = "ok"
    BY EntriesType
  <1>3. Class(e) = "foreign"
    BY <1>1, <1>2 DEF Readable, HasEvidence, IsOurs
  <1> QED
    BY <1>2, <1>3, EntryShape

\* A shared file with no other live entry runs no other command.
LEMMA SharedRunsOne ==
  ASSUME NEW d, NEW file \in SettingsFiles, NEW event \in Events, NEW e \in EntriesOf(file, event),
         NEW binary, Clean(file.doc), LiveCommands(d, file.doc) \subseteq {binary},
         NEW c \in Mentions, ManagedEntryLive(d, c), c \in InnerCommands(e)
  PROVE  c = binary
  <1>1. PICK i \in DOMAIN file.doc.hooks[event] : e = file.doc.hooks[event][i]
    BY EntriesType
  <1>2. e \in EntryValues
    BY EntriesType
  <1>3. Class(e) = "managed"
    BY <1>1, <1>2, EntryShape DEF Clean, Classified
  <1>4. c = Head(e.commands) /\ c \in Named
    BY <1>2, <1>3, EntryShape
  <1>5. c \in LiveCommands(d, file.doc)
    BY <1>1, <1>3, <1>4 DEF LiveCommands, Classified
  <1> QED
    BY <1>5

\* What converging leaves runs the one command, and no other.
LEMMA ConvergedRunsOne ==
  ASSUME NEW d, NEW doc \in Documents, NEW event \in Events, NEW binary \in Named, Clean(doc),
         NEW local, local = [state |-> "ok", doc |-> Converged(doc, binary)]
  PROVE  /\ \E e \in EntriesOf(local, event) : binary \in InnerCommands(e)
         /\ \A e \in EntriesOf(local, event) : \A c \in Mentions :
              c \in InnerCommands(e) => c = binary
  <1> DEFINE next == Converged(doc, binary)
             entries == next.hooks[event]
  <1>1. /\ \E m \in DOMAIN entries : entries[m] = CanonicalEntry(binary)
        /\ \A n \in DOMAIN entries :
             \/ entries[n] = CanonicalEntry(binary)
             \/ entries[n] \in EntryValues /\ Class(entries[n]) = "foreign"
    BY ConvergedClasses DEF Clean
  <1> HIDE DEF next
  <1>2. EntriesOf(local, event) = {entries[n] : n \in DOMAIN entries}
    BY DEF EntriesOf, Range, next
  <1> HIDE DEF entries
  <1>3. InnerCommands(CanonicalEntry(binary)) = {binary}
    BY CanonicalShape
  <1>4. \A n \in DOMAIN entries : \A c \in Mentions : c \in InnerCommands(entries[n]) => c = binary
    BY <1>1, <1>3, EntryShape
  <1> QED
    BY <1>1, <1>2, <1>3, <1>4

LEMMA AtMostOne ==
  ASSUME NEW S, NEW x, S \subseteq {x}
  PROVE  Cardinality(S) <= 1
  <1>1. IsFiniteSet({x}) /\ Cardinality({x}) = 1
    BY FS_Singleton
  <1>2. S \in SUBSET {x}
    OBVIOUS
  <1> QED
    BY <1>1, <1>2, FS_Subset

LEMMA NoneRuns ==
  ASSUME NEW d, NEW local \in SettingsFiles, NEW shared \in SettingsFiles, NEW event \in Events,
         NoneEvident(local, shared)
  PROVE  Hooks(d, shared, local, event) = {}
  <1>1. \A e \in EntriesOf(shared, event) : InnerCommands(e) \intersect Mentions = {}
    BY ForeignRunsNone DEF NoneEvident
  <1>2. \A e \in EntriesOf(local, event) : InnerCommands(e) \intersect Mentions = {}
    BY ForeignRunsNone DEF NoneEvident
  <1> QED
    BY <1>1, <1>2 DEF Hooks

LEMMA SharedAlone ==
  ASSUME NEW d, NEW local \in SettingsFiles, NEW shared \in SettingsFiles, NEW event \in Events,
         NEW binary, Sole(d, local, shared, binary), ~HasEvidence(local.doc)
  PROVE  Hooks(d, shared, local, event) \subseteq {binary}
  <1>1. \A e \in EntriesOf(local, event) : InnerCommands(e) \intersect Mentions = {}
    BY ForeignRunsNone
  <1>2. ASSUME NEW e \in EntriesOf(shared, event), NEW c \in Mentions, ManagedEntryLive(d, c),
               c \in InnerCommands(e)
        PROVE  c = binary
    BY <1>2, SharedRunsOne DEF Sole
  <1> QED
    BY <1>1, <1>2 DEF Hooks

LEMMA ConvergedAlone ==
  ASSUME NEW d, NEW before, NEW shared \in SettingsFiles, NEW event \in Events,
         NEW binary \in Named, Sole(d, before, shared, binary),
         NEW doc \in Documents, Clean(doc),
         NEW local, local = [state |-> "ok", doc |-> Converged(doc, binary)]
  PROVE  Hooks(d, shared, local, event) = {binary}
  <1>1. /\ \E e \in EntriesOf(local, event) : binary \in InnerCommands(e)
        /\ \A e \in EntriesOf(local, event) : \A c \in Mentions :
             c \in InnerCommands(e) => c = binary
    BY ConvergedRunsOne
  <1>2. ASSUME NEW e \in EntriesOf(shared, event), NEW c \in Mentions, ManagedEntryLive(d, c),
               c \in InnerCommands(e)
        PROVE  c = binary
    BY <1>2, SharedRunsOne DEF Sole
  <1>3. binary \in Mentions /\ ManagedEntryLive(d, binary)
    BY CommandAssumption DEF Sole, ManagedEntryLive
  <1> QED
    BY <1>1, <1>2, <1>3 DEF Hooks

\* What a decision that there is nothing to do says of the commands that run.
LEMMA NoopRunsOne ==
  ASSUME NEW d, NEW local \in SettingsFiles, NEW shared \in SettingsFiles, NEW event \in Events,
         NEW binary, binary # "none" => binary \in Named, NEW isSeam \in BOOLEAN,
         ConvergeDecision(d, local, shared, binary, isSeam).outcome = "noop"
  PROVE  /\ Cardinality(Hooks(d, shared, local, event)) <= 1
         /\ ~isSeam => Hooks(d, shared, local, event) = {binary}
  <1>1. \/ isSeam /\ NoneEvident(local, shared)
        \/ Sole(d, local, shared, binary) /\ isSeam /\ ~HasEvidence(local.doc)
        \/ /\ Sole(d, local, shared, binary) /\ Clean(local.doc)
           /\ Converged(local.doc, binary) = local.doc
    BY DecisionCases
  <1>2. CASE isSeam /\ NoneEvident(local, shared)
    BY <1>2, NoneRuns, AtMostOne
  <1>3. CASE Sole(d, local, shared, binary) /\ isSeam /\ ~HasEvidence(local.doc)
    <2>1. Hooks(d, shared, local, event) \subseteq {binary}
      BY <1>3, SharedAlone
    <2>2. Cardinality(Hooks(d, shared, local, event)) <= 1
      BY <2>1, AtMostOne
    <2> QED
      BY <1>3, <2>2
  <1>4. CASE /\ Sole(d, local, shared, binary) /\ Clean(local.doc)
             /\ Converged(local.doc, binary) = local.doc
    <2>1. binary \in Named /\ local.doc \in Documents /\ Readable(local)
      BY <1>4 DEF Sole, SettingsFiles
    <2>2. HasEvidence(local.doc)
      BY <1>4, <2>1, ConvergedClasses DEF Clean
    <2>3. local.state = "ok"
      <3>1. local.state # "ok" => \A e \in Events : local.doc.hooks[e] = <<>>
        BY DEF SettingsFiles
      <3> QED
        BY <2>2, <3>1 DEF HasEvidence
    <2>4. local = [state |-> "ok", doc |-> Converged(local.doc, binary)]
      BY <1>4, <2>3 DEF SettingsFiles
    <2>5. Hooks(d, shared, local, event) = {binary}
      BY <1>4, <2>1, <2>4, ConvergedAlone
    <2> QED
      BY <2>5, AtMostOne
  <1> QED
    BY <1>1, <1>2, <1>3, <1>4

-----------------------------------------------------------------------------
LEMMA OthersStay ==
  ASSUME ConfigInv, NEW p \in Procs, NEW q \in Procs, p # q, Process(q)
  PROVE  cli'[p] = cli[p]
  <1>1. cli \in [Procs -> ProcessValues]
    BY DEF ConfigInv
  <1>2. CASE ReadLocal(q) \/ Compare(q) \/ CannotWrite(q) \/ Replace(q) \/ Decide(q)
    BY <1>1, <1>2 DEF ReadLocal, Compare, CannotWrite, Replace, Decide, Report, Finish, Goto
  <1>3. CASE OpenSkills(q) \/ ReadSkill(q) \/ WriteSkill(q) \/ WriteManifest(q) \/ SkillsFail(q)
    BY <1>1, <1>3 DEF OpenSkills, ReadSkill, WriteSkill, WriteManifest, SkillsFail, NextSkill, Goto
  <1>4. CASE ReadRegistry(q) \/ WriteRegistry(q) \/ Crash(q)
    BY <1>1, <1>4 DEF ReadRegistry, WriteRegistry, Crash, Finish
  <1> QED
    BY <1>2, <1>3, <1>4 DEF Process

LEMMA Reported ==
  ASSUME ConfigInv, NEW p \in Procs, NEW outcome \in Outcomes, Report(p, outcome)
  PROVE  cli'[p].outcome = outcome
  <1>1. cli \in [Procs -> ProcessValues] /\ cli[p] \in ProcessValues
    BY DEF ConfigInv
  <1>2. CASE Finish(p, outcome)
    <2> DEFINE r2 == [NoProcess EXCEPT !.pc = "done", !.outcome = outcome]
    <2>1. r2.outcome = outcome /\ cli' = [cli EXCEPT ![p] = r2]
      BY <1>2, IdleType DEF Finish
    <2> HIDE DEF r2
    <2> QED
      BY <1>1, <2>1
  <1>3. CASE \E pc \in {"mcp", "skills"} : cli' = [cli EXCEPT ![p].pc = pc, ![p].outcome = outcome]
    BY <1>1, <1>3 DEF ProcessValues
  <1> QED
    BY <1>2, <1>3 DEF Report

LEMMA HooksAfter ==
  ASSUME NEW d \in Directories, NEW event \in Events
  PROVE  LiveHooks(d, event)' =
           Hooks(disk', settings'.shared[d], settings'.local[LocalSettingsPlace(repo', d)], event)
  BY DEF LiveHooks, Hooks, EntriesOf, Local, Place

LEMMA DecideRunsOne ==
  ASSUME ConfigInv, NEW p \in Procs, NEW d \in Directories, cli[p].dir = d, Decide(p),
         cli'[p].pc # "compare", Undisturbed(p), Succeeded(cli'[p].outcome), NEW event \in Events
  PROVE  /\ Cardinality(LiveHooks(d, event)') <= 1
         /\ cli[p].kind = "init" => LiveHooks(d, event)' = {Binary(p)}
  <1> DEFINE r == cli[p]
             decision == ConvergeDecision(disk, r.local, r.shared, Binary(p), IsSeam(p))
  <1>1. /\ cli \in [Procs -> ProcessValues] /\ r.pc = "decide" /\ r.dir = d
        /\ r.local \in SettingsFiles /\ r.shared \in SettingsFiles
        /\ r.kind \in {"init", "seam"}
    BY DEF ConfigInv, Decide, At, Engaged
  <1>2. /\ decision.outcome # "plan" /\ Report(p, decision.outcome)
    <2>1. decision.outcome = "plan" => cli'[p].pc = "compare"
      BY <1>1 DEF Decide, ProcessValues
    <2> QED
      BY <2>1 DEF Decide
  <1>3. decision.outcome \in {"plan", "noop", "ambiguous_local", "shared_conflict", "no_binary",
                              "binary_invalid", "unreadable", "malformed"}
    BY <1>1, DecisionCases DEF IsSeam
  <1>4. cli'[p].outcome = decision.outcome
    <2>1. decision.outcome \in Outcomes
      BY <1>2, <1>3 DEF Outcomes
    <2> HIDE DEF decision
    <2> QED
      BY <1>2, <2>1, Reported
  <1> HIDE DEF decision
  <1>5. decision.outcome = "noop"
    BY <1>3, <1>4 DEF Succeeded
  <1>6. r.local = Local(d) /\ r.shared = settings.shared[d]
    BY DEF Undisturbed
  <1>7. UNCHANGED <<disk, settings, repo>>
    BY DEF Decide, files, fixed
  <1>8. LiveHooks(d, event)' = Hooks(disk, r.shared, r.local, event)
    BY <1>1, <1>6, <1>7, HooksAfter DEF Local, Place
  <1>9. Binary(p) # "none" => Binary(p) \in Named
    BY BinaryType DEF Binary
  <1>10. IsSeam(p) \in BOOLEAN /\ (r.kind = "init" => ~IsSeam(p))
    BY DEF IsSeam
  <1>11. /\ Cardinality(Hooks(disk, r.shared, r.local, event)) <= 1
         /\ ~IsSeam(p) => Hooks(disk, r.shared, r.local, event) = {Binary(p)}
    BY <1>1, <1>5, <1>9, <1>10, NoopRunsOne DEF decision
  <1> QED
    BY <1>8, <1>10, <1>11

LEMMA ReplaceRunsOne ==
  ASSUME ConfigInv, NEW p \in Procs, NEW d \in Directories, cli[p].dir = d, Replace(p),
         Undisturbed(p), NEW event \in Events
  PROVE  /\ Cardinality(LiveHooks(d, event)') <= 1
         /\ LiveHooks(d, event)' = {Binary(p)}
  <1> DEFINE r == cli[p]
             place == LocalSettingsPlace(repo, d)
             written == [state |-> "ok", doc |-> r.doc]
             binary == ResolveBinary(r.decided, Install[p].sibling, Install[p].onPath)
  <1>1. /\ r.pc = "replace" /\ Engaged(r, Install[p], evidenced, repo) /\ r.dir = d
        /\ r.local \in SettingsFiles /\ r.shared \in SettingsFiles
        /\ settings' = [settings EXCEPT !.local[place] = written] /\ UNCHANGED <<disk, repo>>
    BY DEF Replace, At, ConfigInv, Engaged, fixed, Place
  <1>2. settings \in [shared : [Directories -> SettingsFiles], local : [Directories -> SettingsFiles]]
    BY DEF ConfigInv, FilesWell
  <1>3. place \in Directories
    BY <1>1, PlaceType
  <1>4. r.decided = disk /\ r.shared = settings.shared[d]
    BY <1>1 DEF Undisturbed, At
  <1>5. /\ binary \in Named /\ r.doc = Converged(r.local.doc, binary)
        /\ Sole(r.decided, r.local, r.shared, binary) /\ Clean(r.local.doc)
    BY <1>1, PlannedDocument
  <1>6. settings'.shared[d] = r.shared /\ settings'.local[place] = written
    <2> HIDE DEF written, place
    <2> QED
      BY <1>1, <1>2, <1>3, <1>4
  <1>7. LiveHooks(d, event)' = Hooks(disk, r.shared, written, event)
    BY <1>1, <1>6, HooksAfter
  <1>8. binary = Binary(p)
    BY <1>4 DEF Binary
  <1>9. r.local.doc \in Documents /\ written = [state |-> "ok", doc |-> Converged(r.local.doc, binary)]
    BY <1>1, <1>5 DEF SettingsFiles
  <1> HIDE DEF binary, written
  <1>10. Hooks(disk, r.shared, written, event) = {binary}
    BY <1>1, <1>4, <1>5, <1>9, ConvergedAlone
  <1> QED
    BY <1>7, <1>8, <1>10, AtMostOne

LEMMA SuccessRunsOne ==
  ASSUME ConfigInv, [Next]_vars, NEW p \in Procs, NEW d \in Directories,
         cli[p].pc \in {"decide", "replace"}, cli'[p].pc \notin {"decide", "compare", "replace"},
         cli[p].dir = d, Undisturbed(p), Succeeded(cli'[p].outcome), NEW event \in Events
  PROVE  /\ Cardinality(LiveHooks(d, event)') <= 1
         /\ cli[p].kind = "init" => LiveHooks(d, event)' = {Binary(p)}
  <1>1. cli'[p] # cli[p] /\ cli \in [Procs -> ProcessValues]
    BY DEF ConfigInv
  <1>2. Process(p)
    <2>1. ~Commanded
      <3>1. ASSUME NEW q \in Procs, NEW e, NEW mode, StartRun(q, mode.kind, e, mode.flags) PROVE FALSE
        <4>1. q # p
          BY <3>1 DEF StartRun
        <4>2. cli'[p] = cli[p]
          BY <1>1, <3>1, <4>1 DEF StartRun
        <4> QED
          BY <1>1, <4>2
      <3> QED
        BY <3>1 DEF Commanded
    <2>2. ~User
      BY <1>1 DEF User, SaveSettings, SaveSkill, SaveRegistry, ChangeDisk
    <2>3. ~(Claude \/ Server \/ Tick \/ (\E listing \in SessionListings(traces) : Show(listing))
              \/ UNCHANGED vars)
      BY <1>1, ElsewhereActions
    <2>4. PICK q \in Procs : Process(q)
      BY <2>1, <2>2, <2>3 DEF Next
    <2> QED
      BY <1>1, <2>4, OthersStay
  <1>3. ~CannotWrite(p)
    <2> SUFFICES ASSUME CannotWrite(p) PROVE FALSE
      OBVIOUS
    <2>1. Report(p, "unwritable") /\ "unwritable" \in Outcomes
      BY DEF CannotWrite, Outcomes
    <2>2. cli'[p].outcome = "unwritable"
      BY <2>1, Reported
    <2> QED
      BY <2>2 DEF Succeeded
  <1>4. ~Crash(p)
    <2> SUFFICES ASSUME Crash(p) PROVE FALSE
      OBVIOUS
    <2> DEFINE r2 == [NoProcess EXCEPT !.pc = "done", !.outcome = "crashed"]
    <2>1. "crashed" \in Outcomes
      BY DEF Outcomes
    <2>2. r2.outcome = "crashed" /\ cli' = [cli EXCEPT ![p] = r2]
      BY <2>1, IdleType DEF Crash, Finish
    <2> HIDE DEF r2
    <2>3. cli'[p].outcome = "crashed"
      BY <1>1, <2>2
    <2> QED
      BY <2>3 DEF Succeeded
  <1>5. Decide(p) \/ Replace(p)
    BY <1>2, <1>3, <1>4 DEF Process, ReadLocal, Compare, OpenSkills, ReadSkill, WriteSkill,
       WriteManifest, SkillsFail, ReadRegistry, WriteRegistry, At
  <1>6. CASE Decide(p)
    BY <1>6, DecideRunsOne
  <1>7. CASE Replace(p)
    BY <1>7, ReplaceRunsOne
  <1> QED
    BY <1>5, <1>6, <1>7

(***************************************************************************)
(* When the configuration part of a run succeeds, and the files and the    *)
(* executables are still what it decided on, at most one Sentience command *)
(* runs per event in that directory; after init it is exactly the hook of  *)
(* the running install, on every event.                                    *)
(***************************************************************************)
THEOREM RunsOneHook == Spec => OneHook
  <1> DEFINE Runs ==
        \A p \in Procs, d \in Directories :
          (/\ cli[p].pc \in {"decide", "replace"} /\ cli'[p].pc \notin {"decide", "compare", "replace"}
           /\ cli[p].dir = d /\ Undisturbed(p) /\ Succeeded(cli'[p].outcome))
          => \A event \in Events :
               /\ Cardinality(LiveHooks(d, event)') <= 1
               /\ cli[p].kind = "init" => LiveHooks(d, event)' = {Binary(p)}
  <1>1. ConfigInv /\ [Next]_vars => [Runs]_vars
    BY SuccessRunsOne
  <1> QED
    BY <1>1, ConfigInit, ConfigStep, PTL DEF Spec, OneHook
=============================================================================
