SPECIFICATION Spec
CONSTANTS
  Runs = {r1, r2}
  Adapters = {"mcp", "pydantic", "hook"}
  Profiles <- MCProfiles
  Files <- MCFiles
  Sharing = {FALSE, TRUE}
  Calls <- MCCalls
  Declarations <- MCDeclarations
  Hints <- MCHints
  Covers <- MCCovers
  Demands = {"session_start", "first_write", "never"}
  Signals = {"dir_change", "file_type_shift", "time_gap", "read_to_write_transition"}
  Domains = {"network", "filesystem"}
  Actions = {"write", "delete"}
  Patterns = {"notes"}
  NoEntry = NoEntry
  NoPrior = NoPrior
  MaxSteps <- MCSteps
  MaxOthers <- MCOthers
SYMMETRY RunSymmetry
INVARIANTS
  AccusedJustly ComparedWithOwnPast SeverityTellsOutage StateIsSound ProfileDecides
CHECK_DEADLOCK FALSE
