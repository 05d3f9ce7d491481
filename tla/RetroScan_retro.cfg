SPECIFICATION Spec
CONSTANTS
  Dirs <- Tree
  NoDir = NoDir
  PathOf <- Paths
  Home = "home"
  RootDir = "/"
  Mark <- Marks
  Worktree <- NoWorktrees
  ScratchDirs = {"scratch"}
  ConfigDirs = {"hooks"}
  Names = {"f"}
  s1 = s1
  s2 = s2
  Sessions = {s1, s2}
  Windowed = TRUE
  Logs <- SampleLogs
  MaxRecords = 4
  MaxTargets = 3
  MaxDisplay = 1
  DepthCap = 64
CHECK_DEADLOCK FALSE
INVARIANTS
  WritesAccounted FindingsFollowTheLog
