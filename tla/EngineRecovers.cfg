\* Two monitors, so that a selected one can disappear and be replaced; no
\* device: a reconnect does not look at the peers.
CONSTANTS
  Devices = {}
  Outputs = {o1, o2}
  None = None
  PIPE = 1
SPECIFICATION EngineSpec
INVARIANT StopTakesEffect
PROPERTY Recovers
