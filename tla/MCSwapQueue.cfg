SPECIFICATION Spec
CONSTANTS
  Value = {a, b}
  Nothing = nothing
  Size = 3
INVARIANTS
  NoSharedSlot
PROPERTY
  IsQueue
