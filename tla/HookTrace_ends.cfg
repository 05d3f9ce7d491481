SPECIFICATION FairSpec
CONSTANTS
  Procs = {p1, p2}
  Sessions = {s1}
  NoProc = NoProc
  NoSession = NoSession
  Kinds = {"Post", "End", "Declare"}
  MaxTurns = 3
  SilentTurns = {1}
  MaxInvocations = 3
  MaxFaults <- Killed
INVARIANTS NoGhostTrace
PROPERTIES InvocationEnds TurnsReported
