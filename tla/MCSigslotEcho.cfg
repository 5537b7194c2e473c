\* single_threaded: the Echo of 05_rtc_socket deletes its socket from OnClose.
CONSTANTS
  main = main
  worker = worker
  a = a
  b = b
  c = c
  d = d
  x = x
  y = y
  z = z
  Threads = {main, worker}
  Signals = {x, y, z}
  Slots = {a, b, c, d}
  Copies = {z, d}
  NoThread = NoThread
  End = End
  Programs <- EchoPrograms
SPECIFICATION SafetySpec
INVARIANTS
  OnlyLiveObjects
CHECK_DEADLOCK FALSE
