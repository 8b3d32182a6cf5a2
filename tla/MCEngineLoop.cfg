\* Two devices that join, leave and shake hands again; one monitor.
CONSTANTS
  Devices = {d1, d2}
  Outputs = {o1}
  None = None
  PIPE = 1
SPECIFICATION EngineSpec
INVARIANT GrowthGetsKeyframe
PROPERTY ShutdownEnds
