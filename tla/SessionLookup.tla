----------------------------- MODULE SessionLookup -----------------------------
(***************************************************************************)
(* Which session is meant: the MCP server's answer to "which session is    *)
(* live" (mcp_server/session_identity.py), and the viewer's answers to     *)
(* "which is the latest" (cli/ux.py), from the trace files of a directory. *)
(*                                                                         *)
(* A trace is [there, start, mtime, turns, transient]: the time of its     *)
(* first event and of its last append, whether it holds token-bearing      *)
(* turns, and whether it is only the pair of bootstrap events.             *)
(***************************************************************************)
EXTENDS Integers, SequencesExt

CONSTANTS
  Sessions,
  ReadWindow,   \* FRESHNESS_WINDOW_SECONDS
  WriteWindow,  \* WRITE_FRESHNESS_WINDOW_SECONDS
  MaxProbe,     \* max_probe of _latest_token_bearing_session
  MaxListed     \* how many `sentience list` shows

ASSUME LookupAssumption == WriteWindow \in Nat /\ ReadWindow \in Nat /\ {MaxProbe, MaxListed} \subseteq Nat \ {0}

Unresolved(status) == [status |-> status, session |-> "none", source |-> "none"]
Resolved(session, source) == [status |-> "resolved", session |-> session, source |-> source]

IsFresh(mtime, now, window) == now - mtime <= window

\* Mutant: the environment's word is taken while its trace is fresh.
ResolveTrustingEnv(seen, env, now, window) ==
  IF env = "none" THEN Unresolved("no_current_session")
  ELSE IF env \notin DOMAIN seen THEN Unresolved("not_yet_captured")
  ELSE IF IsFresh(seen[env], now, window) THEN Resolved(env, "env_crosschecked")
  ELSE Unresolved("no_current_session")

\* seen is [session -> mtime] of the traces found, env the id the server was spawned with.
ResolveCurrentSession(seen, env, now, window) ==
  LET fresh == {s \in DOMAIN seen : IsFresh(seen[s], now, window)}
      fresherOther == {s \in fresh \ {env} : seen[s] > seen[env]}
  IN IF env # "none" /\ env \notin DOMAIN seen THEN Unresolved("not_yet_captured")
     ELSE IF env # "none" /\ (fresherOther # {} \/ env \notin fresh)
     THEN Unresolved("no_current_session")
     ELSE IF env # "none" THEN Resolved(env, "env_crosschecked")
     ELSE IF \E s \in fresh : fresh = {s}
     THEN Resolved(CHOOSE s \in fresh : TRUE, "fallback_mtime")
     ELSE Unresolved("no_current_session")

Present(traces) == {s \in Sessions : traces[s].there}

\* Mutant: by the last append.
NewerByAppend(a, b) == a.mtime > b.mtime

\* Newest first by start, then by last append; files alike come in any order.
Newer(a, b) == a.start > b.start \/ (a.start = b.start /\ a.mtime > b.mtime)

SessionListings(traces) ==
  {q \in SetToSeqs(Present(traces)) :
     \A i, j \in DOMAIN q : i < j => ~Newer(traces[q[j]], traces[q[i]])}

IsTransientBootstrap(traces, s) == traces[s].transient
HasTokenTurns(traces, s) == traces[s].turns

FirstOf(listing, n) == SubSeq(listing, 1, IF Len(listing) < n THEN Len(listing) ELSE n)

FirstIn(listing, Wanted(_)) ==
  LET hits == {i \in DOMAIN listing : Wanted(listing[i])}
  IN IF hits = {} THEN "none" ELSE listing[CHOOSE i \in hits : \A j \in hits : i <= j]

LatestTokenBearing(traces, listing, excluded) ==
  FirstIn(FirstOf(listing, MaxProbe), LAMBDA s : s # excluded /\ HasTokenTurns(traces, s))

\* `sentience status`: the newest that did something, else the newest; and the
\* transient ones that were passed over.
StatusOf(traces, listing) ==
  LET real == FirstIn(listing, LAMBDA s : ~IsTransientBootstrap(traces, s))
      shown == IF real # "none" THEN real ELSE FirstIn(listing, LAMBDA s : TRUE)
  IN [session |-> shown,
      skipped |-> {listing[i] : i \in {k \in DOMAIN listing :
                     IsTransientBootstrap(traces, listing[k]) /\ \A j \in 1..k : listing[j] # shown}}
                   \union IF real # "none" THEN {} ELSE Present(traces) \ {shown}]

\* `sentience list`: the newest ones, and which of them are labelled transient.
ListOf(traces, listing) ==
  LET rows == FirstOf(listing, MaxListed)
  IN [rows |-> rows, transient |-> {s \in Range(rows) : IsTransientBootstrap(traces, s)}]

\* A reference to a session: [kind |-> "file" | "no_file" | "latest" | "id"], and for
\* an id the session it names and those whose ids it is a prefix of.
ResolveSessionTarget(traces, listing, ref) ==
  LET candidates == ref.prefix \intersect Present(traces)
  IN CASE ref.kind = "file"    -> "file"
       [] ref.kind = "no_file" -> "not_found"
       [] OTHER ->
            IF listing = <<>> THEN "no_sessions"
            ELSE IF ref.kind = "latest" THEN Head(listing)
            ELSE IF ref.exact \in Present(traces) THEN ref.exact
            ELSE IF Cardinality(candidates) = 1 THEN CHOOSE s \in candidates : TRUE
            ELSE IF candidates = {} THEN "not_found" ELSE "ambiguous"
=============================================================================
