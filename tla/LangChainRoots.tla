--------------------------- MODULE LangChainRoots ---------------------------
(***************************************************************************)
(* The LangChain handler.  One handler serves overlapping invocations: the *)
(* framework reports the start and the end of every chain, LLM turn and    *)
(* tool from whatever thread it runs them on, and the handler has only the *)
(* run id and the parent's to tell them apart.  Each callback runs under   *)
(* the handler's lock and is one action here.  SentienceMiddleware has no  *)
(* ids, and emits outside the lock.                                        *)
(*                                                                         *)
(* The framework's side is a forest of runs, given by Parent; a root chain *)
(* is one invocation, and stands for its session as well, which the code   *)
(* names with a fresh uuid.  The trace is a set: SessionManager is about   *)
(* the order and numbering of its events.  Every event is valid here, and  *)
(* every write succeeds.  Callbacks without ids (the legacy root) are left *)
(* out.  One middleware serves the handler: a chain of Steps runs inside   *)
(* its awrap_step, which gives the chain's middleware calls a turn.        *)
(***************************************************************************)
EXTENDS Integers, FiniteSets

CONSTANTS
  Runs,        \* chain and tool runs
  NoRun,
  Parent,      \* the run each run is started in
  Tools,       \* the runs that are tool calls
  Talkers,     \* the chains that call a model themselves
  Failing,     \* runs that may raise: no callback reports their end
  Calls,       \* tool calls that go through the middleware
  CallIn,      \* the chain each of them is made in
  Steps,       \* the chains that awrap_step wraps
  MaxHops,     \* _MAX_HOPS
  MaxTurns     \* bound: LLM turns ever started

ASSUME ConstantsAssumption ==
  /\ NoRun \notin Runs
  /\ IsFiniteSet(Runs) /\ Runs \cap (0..MaxTurns) = {}
  /\ Parent \in [Runs -> Runs \cup {NoRun}]
  /\ Tools \subseteq Runs
  /\ \A r \in Tools : Parent[r] # NoRun
  /\ Talkers \subseteq Runs \ Tools
  /\ Failing \subseteq Runs
  /\ Calls \cap Runs = {}
  /\ CallIn \in [Calls -> Runs \ Tools]
  /\ Steps \subseteq Runs \ Tools
  /\ MaxHops \in Nat \ {0}
  /\ MaxTurns \in Nat

(***************************************************************************)
(* What some of the theorems ask of the runs.  The walks reach a root when *)
(* no run is started inside a tool and the chains have at most MaxHops     *)
(* levels; a branch has one slot when no chain that calls a model encloses *)
(* another.  The MC module assumes both of its instance.                   *)
(***************************************************************************)
Routable ==
  /\ \A r \in Runs : Parent[r] \notin Tools
  /\ \E level \in [Runs -> 0..(MaxHops - 1)] :
       \A r \in Runs \ Tools : Parent[r] # NoRun => level[Parent[r]] < level[r]

VARIABLES
  phase,       \* framework: how far each run is
  inflight,    \* framework: the LLM turns whose model call is out
  owner,       \* framework: the chain each turn belongs to
  beside,      \* history: its chain's turns in flight when each started
  call,        \* how far each middleware call is
  bound,       \* the root each middleware call was bound to
  given,       \* the turn each middleware call took with it
  stepping,    \* how far each step is
  step,        \* _current_step_*: the step whose turn the middleware holds
  ancestry,    \* _ancestry: the runs whose parent is recorded
  roots,       \* _roots: the roots that are open
  scopes,      \* turn_scopes of each root: the pending turn of each branch
  trace        \* the events the sink received

framework == <<phase, inflight, owner, beside>>
calls     == <<call, bound, given>>
steps     == <<stepping, step>>
handler   == <<ancestry, roots, scopes>>
vars      == <<framework, calls, steps, handler, trace>>

NoTurn == 0
Turns  == 1..MaxTurns

\* _TurnState; the usage is known by the turn whose response reported it.
Scope   == [set : BOOLEAN, id : {NoTurn} \cup Turns, usage : {NoTurn} \cup Turns]
NoScope == [set |-> FALSE, id |-> NoTurn, usage |-> NoTurn]

\* The turn of a step is known by the step.
TurnIds == {NoTurn} \cup Turns \cup Steps

EventTypes == {"REG", "INTENT", "SCOPE", "CTX", "OUTPUT", "ERROR"}

Event == [sess : Runs \cup {NoRun}, type : EventTypes, run : Runs \cup Calls,
          id : TurnIds, usage : TurnIds]

TypeOK ==
  /\ phase \in [Runs -> {"new", "open", "done"}]
  /\ owner \in [Turns -> Runs \cup {NoRun}]
  /\ inflight \in SUBSET {n \in Turns : owner[n] # NoRun}
  /\ beside \in [Turns -> SUBSET Turns]
  /\ call \in [Calls -> {"new", "bound", "running", "done"}]
  /\ bound \in [Calls -> Runs \cup {NoRun}]
  /\ given \in [Calls -> {NoTurn} \cup Steps]
  /\ stepping \in [Steps -> {"new", "in", "out"}]
  /\ step \in Steps \cup {NoRun}
  /\ ancestry \in SUBSET Runs
  /\ roots \in SUBSET {r \in Runs : Parent[r] = NoRun}
  /\ scopes \in [Runs -> [Runs -> Scope]]
  /\ trace \in SUBSET Event

NoScopes == [n \in Runs |-> NoScope]

Init ==
  /\ phase = [r \in Runs |-> "new"]
  /\ inflight = {}
  /\ owner = [n \in Turns |-> NoRun]
  /\ beside = [n \in Turns |-> {}]
  /\ call = [c \in Calls |-> "new"]
  /\ bound = [c \in Calls |-> NoRun]
  /\ given = [c \in Calls |-> NoTurn]
  /\ stepping = [n \in Steps |-> "new"]
  /\ step = NoRun
  /\ ancestry = {}
  /\ roots = {}
  /\ scopes = [r \in Runs |-> NoScopes]
  /\ trace = {}

-----------------------------------------------------------------------------
(***************************************************************************)
(* What plausible bugs would make of some of the definitions below.  None  *)
(* is used in Spec; each shows that a property notices.                    *)
(***************************************************************************)
\* Of BranchKey: one slot per root.
OneSlot(root, p) == root

\* Of Binding: guesses when it cannot know.
Guesses == IF roots = {} THEN NoRun ELSE CHOOSE r \in roots : TRUE

\* Of Pruned: only the root's own children.
PrunesChildren(root) == {n \in ancestry : Parent[n] # root} \ {root}

\* Of Cleared: no finally, and the step raises.
NeverCleared(n) == step

-----------------------------------------------------------------------------
(***************************************************************************)
(* Walks up the recorded ancestry, from n to the first run of Stops, to a  *)
(* run whose parent is not recorded (NoRun), or for the given hops.        *)
(***************************************************************************)
Up(n) == IF n \in ancestry THEN Parent[n] ELSE NoRun

Climb(n, Stops, hops) ==
  LET walk[k \in 0..hops] ==
        IF k = 0 THEN n
        ELSE LET at == walk[k - 1]
             IN  IF at \in Stops \cup {NoRun} THEN at ELSE Up(at)
  IN  walk[hops]

\* The open root of a callback whose parent run is p, or NoRun.
ResolveRoot(p) ==
  LET n == Climb(p, roots, MaxHops) IN IF n \in roots THEN n ELSE NoRun

\* The branch of root whose scope such a callback belongs to, or NoRun.
BranchKey(root, p) ==
  LET Scoped == {n \in Runs : scopes[root][n].set}
      n      == Climb(p, Scoped, MaxHops)
  IN  IF n \in Scoped THEN n ELSE NoRun

\* The scope an LLM callback writes: p opens one when no branch has.
ScopeForLlm(root, p) ==
  IF BranchKey(root, p) = NoRun THEN p ELSE BranchKey(root, p)

\* The scope a tool callback reads.
TurnFor(root, p) ==
  IF BranchKey(root, p) = NoRun THEN NoScope ELSE scopes[root][BranchKey(root, p)]

(***************************************************************************)
(* What remains of the ancestry when a root is torn down.                  *)
(***************************************************************************)
Pruned(root) ==
  {n \in ancestry : Climb(n, roots, MaxHops - 1) # root} \ {root}

\* The root a middleware call belongs to: the only one that is open.
Binding == IF Cardinality(roots) = 1 THEN CHOOSE r \in roots : TRUE ELSE NoRun

Emitted(root, types, run, t) ==
  {[sess |-> root, type |-> y, run |-> run,
    id |-> t.id, usage |-> t.usage] : y \in types}

-----------------------------------------------------------------------------
(***************************************************************************)
(* The framework starts a run within one that is at work, a step inside    *)
(* awrap_step, and ends it after everything it started.                    *)
(***************************************************************************)
AtWork(r) == phase[r] = "open" /\ (r \in Steps => stepping[r] = "in")

MayStart(r) ==
  /\ phase[r] = "new"
  /\ Parent[r] # NoRun => AtWork(Parent[r])

AtRest(r) ==
  /\ \A n \in inflight : owner[n] # r
  /\ \A q \in Runs : Parent[q] = r => phase[q] # "open"
  /\ \A c \in Calls : CallIn[c] = r => call[c] \in {"new", "done"}

Idle(r) ==
  /\ phase[r] = "open"
  /\ r \in Steps => stepping[r] = "out"
  /\ AtRest(r)

Begin(r) == phase' = [phase EXCEPT ![r] = "open"]
End(r)   == phase' = [phase EXCEPT ![r] = "done"]

OpensRoot(r) == Parent[r] = NoRun

(***************************************************************************)
(* on_chain_start.  A root opens a session, registers the agent and        *)
(* declares an intent; a nested chain is recorded and nothing else.        *)
(***************************************************************************)
OnChainStart(r) ==
  /\ r \notin Tools
  /\ MayStart(r)
  /\ Begin(r)
  /\ ancestry' = ancestry \cup {r}
  /\ IF OpensRoot(r)
     THEN /\ roots' = roots \cup {r}
          /\ trace' = trace \cup Emitted(r, {"REG", "INTENT"}, r, NoScope)
     ELSE UNCHANGED <<roots, trace>>
  /\ UNCHANGED <<inflight, owner, beside, calls, steps, scopes>>

(***************************************************************************)
(* on_chain_end.  Only a root is torn down, with its scopes and the        *)
(* ancestry that leads to it.                                              *)
(***************************************************************************)
OnChainEnd(r) ==
  /\ r \notin Tools
  /\ Idle(r)
  /\ End(r)
  /\ IF r \in roots
     THEN /\ roots' = roots \ {r}
          /\ scopes' = [scopes EXCEPT ![r] = NoScopes]
          /\ ancestry' = Pruned(r)
     ELSE UNCHANGED <<roots, scopes, ancestry>>
  /\ UNCHANGED <<inflight, owner, beside, calls, steps, trace>>

(***************************************************************************)
(* on_llm_start and on_llm_end, with the turn's chain as parent.  The      *)
(* start gives the scope a fresh turn id, the end fills in the usage.  A   *)
(* chain may have several model calls out at once, and one that raises     *)
(* ends without a callback.                                                *)
(***************************************************************************)
OnLlmStart(p, n) ==
  LET root == ResolveRoot(p) IN
  /\ p \in Talkers
  /\ AtWork(p)
  /\ owner[n] = NoRun
  /\ \A m \in 1..(n - 1) : owner[m] # NoRun
  /\ inflight' = inflight \cup {n}
  /\ owner' = [owner EXCEPT ![n] = p]
  /\ beside' = [beside EXCEPT ![n] = {m \in inflight : owner[m] = p}]
  /\ scopes' = IF root = NoRun THEN scopes
               ELSE [scopes EXCEPT ![root][ScopeForLlm(root, p)] =
                       [set |-> TRUE, id |-> n, usage |-> NoTurn]]
  /\ UNCHANGED <<phase, calls, steps, ancestry, roots, trace>>

OnLlmEnd(n) ==
  LET p    == owner[n]
      root == ResolveRoot(p)
  IN
  /\ n \in inflight
  /\ inflight' = inflight \ {n}
  /\ scopes' = IF root = NoRun THEN scopes
               ELSE [scopes EXCEPT ![root][ScopeForLlm(root, p)] =
                       [@ EXCEPT !.set = TRUE, !.usage = n]]
  /\ UNCHANGED <<phase, owner, beside, calls, steps, ancestry, roots, trace>>

LlmFails(n) ==
  /\ n \in inflight
  /\ inflight' = inflight \ {n}
  /\ UNCHANGED <<phase, owner, beside, calls, steps, handler, trace>>

(***************************************************************************)
(* on_tool_start and on_tool_end attach the turn of the tool's branch.     *)
(***************************************************************************)
ToolEvents(r, types) ==
  LET root == ResolveRoot(Parent[r]) IN
  IF root = NoRun THEN {} ELSE Emitted(root, types, r, TurnFor(root, Parent[r]))

OnToolStart(r) ==
  /\ r \in Tools
  /\ MayStart(r)
  /\ Begin(r)
  /\ trace' = trace \cup ToolEvents(r, {"SCOPE", "CTX"})
  /\ UNCHANGED <<inflight, owner, beside, calls, steps, handler>>

OnToolEnd(r) ==
  /\ r \in Tools
  /\ Idle(r)
  /\ End(r)
  /\ trace' = trace \cup ToolEvents(r, {"OUTPUT"})
  /\ UNCHANGED <<inflight, owner, beside, calls, steps, handler>>

(***************************************************************************)
(* A run raises.  The handler has no on_chain_error and no on_tool_error:  *)
(* a root that fails is never torn down.                                   *)
(***************************************************************************)
Fails(r) ==
  /\ r \in Failing
  /\ Idle(r)
  /\ End(r)
  /\ UNCHANGED <<inflight, owner, beside, calls, steps, handler, trace>>

(***************************************************************************)
(* awrap_step runs a step inside its chain.  On entry the middleware gets  *)
(* a fresh turn with what the step's messages used, and it is cleared when *)
(* the step returns or raises, whoever has written it since.               *)
(***************************************************************************)
EnterStep(n) ==
  /\ phase[n] = "open"
  /\ stepping[n] = "new"
  /\ stepping' = [stepping EXCEPT ![n] = "in"]
  /\ step' = n
  /\ UNCHANGED <<framework, calls, handler, trace>>

\* awrap_step's finally.
Cleared(n) == NoRun

LeaveStep(n) ==
  /\ stepping[n] = "in"
  /\ AtRest(n)
  /\ stepping' = [stepping EXCEPT ![n] = "out"]
  /\ step' = Cleared(n)
  /\ UNCHANGED <<framework, calls, handler, trace>>

(***************************************************************************)
(* awrap_tool_call: the binding under the lock, the events before and      *)
(* after the tool runs without it.  With several roots open there is an    *)
(* error event instead.  The call takes the step's turn with it; without   *)
(* one it takes the root's own scope, which no LLM call of a root with ids *)
(* fills.                                                                  *)
(***************************************************************************)
MiddlewareEvents(root, types, c, n) ==
  Emitted(root, types, c, [id |-> n, usage |-> n])

StepTurnState == IF step = NoRun THEN NoTurn ELSE step

BindMiddlewareRoot(c) ==
  /\ call[c] = "new"
  /\ AtWork(CallIn[c])
  /\ bound' = [bound EXCEPT ![c] = Binding]
  /\ call' = [call EXCEPT ![c] = "bound"]
  /\ UNCHANGED <<framework, given, steps, handler, trace>>

MiddlewareStart(c) ==
  /\ call[c] = "bound"
  /\ call' = [call EXCEPT ![c] = "running"]
  /\ IF bound[c] = NoRun
     THEN /\ trace' = trace \cup MiddlewareEvents(NoRun, {"ERROR"}, c, NoTurn)
          /\ UNCHANGED given
     ELSE /\ given' = [given EXCEPT ![c] = StepTurnState]
          /\ trace' = trace \cup
               MiddlewareEvents(bound[c], {"SCOPE", "CTX"}, c, StepTurnState)
  /\ UNCHANGED <<framework, bound, steps, handler>>

MiddlewareEnd(c) ==
  /\ call[c] = "running"
  /\ call' = [call EXCEPT ![c] = "done"]
  /\ trace' = trace \cup
       IF bound[c] = NoRun THEN {}
       ELSE MiddlewareEvents(bound[c], {"OUTPUT"}, c, given[c])
  /\ UNCHANGED <<framework, bound, given, steps, handler>>

-----------------------------------------------------------------------------
Next ==
  \/ \E r \in Runs :
       \/ OnChainStart(r)
       \/ OnChainEnd(r)
       \/ OnToolStart(r)
       \/ OnToolEnd(r)
       \/ Fails(r)
       \/ \E n \in Turns : OnLlmStart(r, n)
  \/ \E n \in Turns : OnLlmEnd(n) \/ LlmFails(n)
  \/ \E n \in Steps : EnterStep(n) \/ LeaveStep(n)
  \/ \E c \in Calls :
       \/ BindMiddlewareRoot(c)
       \/ MiddlewareStart(c)
       \/ MiddlewareEnd(c)

Spec == Init /\ [][Next]_vars

-----------------------------------------------------------------------------
(***************************************************************************)
(* PROPERTIES                                                              *)
(***************************************************************************)

\* The runs that enclose a run, and the run itself: the least set that holds
\* it and the parents of its members.
Enclosing[r \in Runs] ==
  {a \in Runs : \A S \in SUBSET Runs :
     r \in S /\ (\A q \in S : Parent[q] \in S \cup {NoRun}) => a \in S}

\* No chain that calls a model encloses another.
Apart == \A p, q \in Talkers : p \in Enclosing[q] => p = q

\* The root of a run, as the framework knows it.
RootOf(r) == CHOOSE a \in Enclosing[r] : Parent[a] = NoRun

RunOf(x) == IF x \in Calls THEN CallIn[x] ELSE x

(***************************************************************************)
(* RightSession: however invocations overlap, and although some fail and   *)
(* stay open, an event is in the session of the invocation it belongs to,  *)
(* or is an error without one.  (_resolve_root, _bind_middleware_root:     *)
(* "do not guess".)                                                        *)
(***************************************************************************)
RightSession ==
  \A e \in trace : e.sess = RootOf(RunOf(e.run)) \/ e.type = "ERROR"

(***************************************************************************)
(* Governed: no tool call of a running invocation goes unseen: it is in    *)
(* the trace from its start on, and a middleware call that cannot be       *)
(* attributed is reported.  (Design 0001, 2.6: "every event walked to its  *)
(* correct root via parent_run_id, with zero unroutable events".)          *)
(***************************************************************************)
Governed ==
  /\ \A r \in Tools : phase[r] # "new" => \E e \in trace : e.run = r
  /\ \A c \in Calls : call[c] = "done" => \E e \in trace : e.run = c

(***************************************************************************)
(* Attributed: together, with no state out of its type: every tool call    *)
(* leaves an event, in its own invocation's session or as an error outside *)
(* all of them.                                                            *)
(***************************************************************************)
Attributed == TypeOK /\ RightSession /\ Governed

(***************************************************************************)
(* SameBranch: a tool event carries a turn of its own branch or of a chain *)
(* around it, never a sibling's.  The usage it carries is that turn's,     *)
(* unless its chain had another model call out when the turn started:      *)
(* then it may be that call's.  (on_llm_start: "Another branch's turn is   *)
(* untouched - in this root or any other".)                                *)
(***************************************************************************)
SameBranch ==
  \A e \in trace :
    IF e.id \in Turns
    THEN /\ owner[e.id] \in Enclosing[RunOf(e.run)]
         /\ e.usage \in {NoTurn, e.id} \cup beside[e.id]
    ELSE e.usage = e.id

(***************************************************************************)
(* StepTurns: the middleware's events carry the turn of a step that is in  *)
(* flight when the tool starts and none otherwise, however steps overlap   *)
(* and whichever of them raises, and a call's output carries the turn its  *)
(* start did.  (awrap_step: "stale usage cannot leak across step           *)
(* boundaries"; awrap_tool_call: "a step turn id cannot outlive its step   *)
(* by construction".)                                                      *)
(***************************************************************************)
StepTurns ==
  [][\A e \in trace' \ trace : e.run \in Calls =>
       /\ e.type = "SCOPE" /\ e.id # NoTurn => stepping[e.id] = "in"
       /\ e.usage = e.id
       /\ \A f \in trace : f.run = e.run => f.id = e.id]_vars

(***************************************************************************)
(* Reclaimed: when no root is open the handler remembers no run.  (Design  *)
(* 0001, 4.6: "_ancestry is pruned when its root tears down ... Normal     *)
(* completion therefore reclaims everything".)                             *)
(***************************************************************************)
Reclaimed == \A r \in ancestry : RootOf(r) \in roots
=============================================================================
