\* A client that connects while the server starts.
CONSTANTS
  Clients = {c1}
  MaxCount = 1
SPECIFICATION SafetySpec
INVARIANTS
  AcceptedIsServed
CHECK_DEADLOCK FALSE
