\* Two captures, every transform, one turn of the output.
CONSTANTS
  Backends = {"Ext", "Wlr"}
  Offers = {{"Xrgb8888"}, {"Argb8888", "Other"}}
  Started = {"Normal", "_90", "_180", "_270", "Flipped", "Flipped90", "Flipped180", "Flipped270"}
  TurnedTo = {"Normal"}
  Width = 2
  Height = 3
  MaxCaptures = 2
  MaxTurns = 1
SPECIFICATION CaptureSpec
INVARIANTS OwnFrame Upright Released
PROPERTIES CaptureEnds
CHECK_DEADLOCK FALSE
