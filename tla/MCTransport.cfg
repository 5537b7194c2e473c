\* Two attempts, so that a stream is lost and connected again; four messages,
\* so that the queue holds one in flight and two waiting while a task is posted.
CONSTANTS
  Msg = {m1, m2}
  NoMsg = NoMsg
  MaxConnects = 2
  MaxSends = 4
  MaxPosted = 3
SPECIFICATION Spec
INVARIANTS
  OneWriteInFlight
  WireInOrder
  NothingForgotten
  NoIdleQueue
  ConnectedIsWatched
  OpenIsHeld
PROPERTIES
  FailedWriteIsFinal
  DisconnectTakesEffect
  AttemptEnds
  ImplementsChannel
