SPECIFICATION Spec
CONSTANTS
  Events = {"PreToolUse", "PostToolUse", "SessionEnd"}
  Commands <- MCCommands
  Named <- MCNamed
  Mentions <- MCMentions
  Absolute <- MCAbsolute
  Directories = {"root", "sub"}
  Starts <- MCStarts
  EditFiles <- MCEditFiles
  Procs = {"p1", "p2"}
  Install <- MCInstall
  Skills <- MCSkills
  Windows = {"w1", "w2"}
  WindowDirectory <- MCWindowDirectory
  References <- MCReferences
  Sessions = {s1, s2, s3}
  ReadWindow = 2
  WriteWindow = 1
  MaxProbe = 2
  MaxListed = 2
INVARIANTS ConfigurationSettles SessionsAreTheirOwn
PROPERTIES UsersWorkSurvives OneHook LatestIsStable
SYMMETRY SessionSymmetry
CHECK_DEADLOCK FALSE
