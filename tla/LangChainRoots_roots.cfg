SPECIFICATION Spec
CONSTANTS
  g1 = g1  g2 = g2  n1 = n1  n2 = n2  c = c
  t1 = t1  t2 = t2  m1 = m1
  NoRun = NoRun
  MaxHops = 4
  Runs = {g1, g2, n1, n2, c, t1, t2}
  Parent <- Overlap
  Tools = {t1, t2}
  Talkers = {n1, n2}
  Failing = {g2, t1}
  Calls = {m1}
  CallIn <- CallsIn
  Steps = {n1, n2}
  MaxTurns = 2
PROPERTY StepTurns
INVARIANTS Attributed SameBranch Reclaimed
CHECK_DEADLOCK FALSE
