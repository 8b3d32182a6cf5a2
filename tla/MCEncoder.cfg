\* The queue of the code, small pipes, two frames of lookahead.
CONSTANTS
  QUEUE = 1
  PIPE = 2
  HOLD = 2
SPECIFICATION EncoderSpec
INVARIANT BacklogBounded
PROPERTIES KeepsDelivering FailureSurfaces HelpersEnd
CHECK_DEADLOCK FALSE
