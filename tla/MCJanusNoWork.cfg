\* main.cc, and the claim that the io thread has work when it starts.
CONSTANTS
  SessionIds = {1}
  NoMsg = NoMsg
  MaxInits = 1
  MaxSends = 3
  RunsDestructor = FALSE
  ServerKinds = {"success"}
SPECIFICATION Spec
PROPERTIES
  ResolveIsHandled
CHECK_DEADLOCK FALSE
