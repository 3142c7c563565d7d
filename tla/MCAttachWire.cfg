SPECIFICATION Spec
CONSTANTS
  MaxChunk = 3
  MaxLine = 3
  QueueCommands = 2
  QueueBytes = 3
  Inputs <- SomeInputs
INVARIANTS HardBounds OnceInOrder NothingLostSilently EofIsNoCancel
PROPERTIES WireGoesOn
CHECK_DEADLOCK FALSE
