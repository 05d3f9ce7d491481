SPECIFICATION Spec
CONSTANT Topics <- AllTopics
INVARIANTS
  ConstructsAreUnknown HarmIsSeen PartsAreIndependent
PROPERTY ForceIsNoSofter
CHECK_DEADLOCK FALSE
