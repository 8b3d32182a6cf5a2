CONSTANTS
  Devices = {d1}
  Conns = {c1, c2}
  None = None
  Addrs = {a1}
  MAX_PENDING = 2
  MAX_PER_DEVICE = 1
  PENDING_TTL = 1
  MaxTries = 2
  MaxEph = 2
  MaxNow = 0
  PUMP_MAX = 2
SPECIFICATION DaemonSpec
INVARIANTS DaemonTypeOK PeersAccountedFor
PROPERTY RevokedLeaves
