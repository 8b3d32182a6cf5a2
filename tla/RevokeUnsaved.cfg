CONSTANTS
  Devices = {d1}
  Conns = {c1}
  None = None
  Addrs = {a1}
  MAX_PENDING = 2
  MAX_PER_DEVICE = 1
  PENDING_TTL = 1
  MaxTries = 1
  MaxEph = 1
  MaxNow = 0
  PUMP_MAX = 1
SPECIFICATION DaemonSpec
PROPERTY RevokedDisconnected
