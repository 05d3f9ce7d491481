SPECIFICATION MCSpec
CONSTANTS
  Procs = {p1, p2}
  Sessions = {s1, s2}
  Sinks = {s1, s2}
  NoProc = NoProc
  NoSession = NoSession
  SinkOf <- OwnSinks
  Profiles = {c1, c2}
  NoProfile = NoProfile
  ReadyProfiles = {c1}
  fileA = fileA
  fileB = fileB
  Files = {fileA, fileB}
  DefaultFile = fileB
  NoFile = NoFile
  Unloadable = Unloadable
  mine = mine
  other = other
  Patterns = {mine, other}
  Matching = {mine}
  NoPattern = NoPattern
  BindingLists <- Lists
  MaxInvocations = 3
  MaxEdits = 1
  MaxFaults <- AnyFault
CONSTRAINT TwoFaults
SYMMETRY BothSymmetry
CHECK_DEADLOCK FALSE
INVARIANTS
  StaysBound ChangesAreTold
PROPERTY KeepsGoverning
