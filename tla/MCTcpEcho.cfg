\* Two clients; the server may fail to bind and a client to connect.
CONSTANTS
  Clients = {c1, c2}
  MaxCount = 2
SPECIFICATION Spec
INVARIANTS
  OneTurn
  EchoIsLatest
PROPERTIES
  Answered
  LostIsCleanedUp
CHECK_DEADLOCK FALSE
