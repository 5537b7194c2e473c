\* One or two calls of Init, Destory, and an owner that may delete the session afterwards.
CONSTANTS
  SessionIds = {1, 2}
  NoMsg = NoMsg
  MaxInits = 2
  MaxSends = 3
  RunsDestructor = TRUE
  ServerKinds = {"success", "error", "ack", "event", "garbage"}
SPECIFICATION Spec
INVARIANTS
  TypeOK
  KeepAliveDiscipline
  DestoryStopsKeepAlive
  KeepAliveNotLost
PROPERTIES
  OneAnswerPerCreate
  DestoryDrains
  DestoryDisconnects
  DestructorReturns
CHECK_DEADLOCK FALSE
