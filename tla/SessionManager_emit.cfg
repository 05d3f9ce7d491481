SPECIFICATION FairSpec
CONSTANTS
  a1 = a1  a2 = a2  s1 = s1  s2 = s2  s3 = s3  s4 = s4
  Threads = {t1, t2}
  NoThread = NoThread
  Sessions = {s1}
  Agents = {a1, a2}
  AgentOf <- OneAgent
  Modes = {FALSE}
  Reopened = {s1}
  MaxEntries = 2
  MaxEvents = 3
INVARIANTS TypeOK OneChain
PROPERTIES IdleIsReaped EmissionEnds
CHECK_DEADLOCK FALSE
