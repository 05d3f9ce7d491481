SPECIFICATION Spec
CONSTANTS
  a1 = a1  a2 = a2  s1 = s1  s2 = s2  s3 = s3  s4 = s4
  Threads = {t1}
  NoThread = NoThread
  Sessions = {s1, s2, s3, s4}
  Agents = {a1, a2}
  AgentOf <- TwoAgents
  Modes = {TRUE, FALSE}
  Reopened = {}
  MaxEntries = 4
  MaxEvents = 1
PROPERTY StartsAlone
CHECK_DEADLOCK FALSE
