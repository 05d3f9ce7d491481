SPECIFICATION Spec
CONSTANTS
  Procs = {p1, p2}
  Sessions = {s1, s2}
  NoProc = NoProc
  NoSession = NoSession
  Kinds = {"Post", "End", "Declare"}
  MaxTurns = 1
  SilentTurns = {}
  MaxInvocations = 3
  MaxFaults <- AnyFault
CONSTRAINT TwoFaults
SYMMETRY BothSymmetry
INVARIANTS
  TypeOK NoFork ResumedFaithfully SaysWhatItWrote
