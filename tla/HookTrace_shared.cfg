SPECIFICATION Spec
CONSTANTS
  Procs = {p1, p2}
  Sessions = {s1, s2}
  NoProc = NoProc
  NoSession = NoSession
  Kinds = {"PreMem", "Post", "Other", "Declare"}
  MaxTurns = 0
  SilentTurns = {}
  MaxInvocations = 4
  MaxFaults <- Losses
SYMMETRY BothSymmetry
PROPERTY Chain
