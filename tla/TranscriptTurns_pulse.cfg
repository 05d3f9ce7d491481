SPECIFICATION SessionSpec
CONSTANTS
  t1 = t1
  t2 = t2
  u1 = u1
  u2 = u2
  Turns = {t1, t2}
  NoTurn = NoTurn
  Uses = {u1, u2}
  NoUse = NoUse
  POL001 = POL001
  POL004 = POL004
  Rules = {POL001, POL004}
  Unknown = Unknown
  Fields = {"prompt", "completion"}
  Amounts = {0, 1, 2}
  MaxEvents = 4
  Traces <- SomeTraces
  Lines <- SomeLines
  HookEvents <- SomeHookEvents
  Opening <- Registered
  Bad = Bad
  MaxLines = 4
  MaxCalls = 1
CHECK_DEADLOCK FALSE
INVARIANTS
  ChargedOnce BillsAreRight OkIsWhole TurnsAsTranscribed
