\* multi_threaded_local: a signal and a slot connected to it deleted by two threads.
CONSTANTS
  main = main
  worker = worker
  a = a
  b = b
  c = c
  d = d
  x = x
  y = y
  z = z
  Threads = {main, worker}
  Signals = {x, y, z}
  Slots = {a, b, c, d}
  Copies = {z, d}
  NoThread = NoThread
  End = End
  Programs <- DeletePrograms
SPECIFICATION SafetySpec
INVARIANTS
  NoCircularWait
CHECK_DEADLOCK FALSE
