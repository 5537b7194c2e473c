\* 10_rtc_peer_connection, and two threads that share two objects at will.
CONSTANTS
  main = main
  signaling = signaling
  factory = factory
  pcObserver = pcObserver
  connection = connection
  track = track
  sessionObserver = sessionObserver
  description = description
  setObserver = setObserver
  Null = null
  Threads = {main, signaling}
  Pointers <- AllPointers
  Objects <- PeerObjects
  Free <- FreeUse
  Programs <- AllPrograms
SPECIFICATION Spec
INVARIANTS
  LivesWhileReferenced
  HasOneRefIsExclusive
  ProgramCleansUp

