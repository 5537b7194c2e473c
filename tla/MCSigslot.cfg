\* 04_rtc_sigslot, threads that use their own slots, and slots that call back.
CONSTANTS
  main = main
  worker = worker
  a = a
  b = b
  c = c
  d = d
  x = x
  y = y
  z = z
  Threads = {main, worker}
  Signals = {x, y, z}
  Slots = {a, b, c, d}
  Copies = {z, d}
  NoThread = NoThread
  End = End
  Programs <- AllPrograms
SPECIFICATION Spec
INVARIANTS
  Rules
  OnlyLiveObjects
  SidesAgree
  EmitCallsEachOnce
PROPERTIES
  ScriptsFinish
CHECK_DEADLOCK FALSE
