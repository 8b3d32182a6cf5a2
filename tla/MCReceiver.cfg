\* Numbers wrap after eight: the twelve of a run reuse every one in reach.
\* The program ends: so may the model.
CONSTANTS
  HALF = 4
  WIDTH = 3
  LIFE = 4
  MaxSent = 12
  FragCounts = {1, 2, 3}
  WANTED = 5
SPECIFICATION ReceiverSpec
INVARIANTS LinkTypeOK AcceptedOnce WindowExact FramesWhole FramesOnce NoHiddenLoss
CHECK_DEADLOCK FALSE
