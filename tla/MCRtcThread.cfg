\* The four programs; a thread is late by one tick at most.
SPECIFICATION FairSpec
CONSTANT
  Lag = 1
INVARIANTS
  ExecutionOrder
  InvokeIsABarrier
  NothingLost
  SafetyFlagHolds
  PromptExit
PROPERTY
  Terminates
CHECK_DEADLOCK FALSE
