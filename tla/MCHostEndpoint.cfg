\* Three addresses and two devices against room for two handshakes, one of
\* each device, so that either limit refuses alone: the one of a device at
\* its second source, the global one once a device has replaced the other's
\* entry.  The clock passes one TTL.
CONSTANTS
  Devices = {d1, d2}
  Addrs = {a1, a2, a3}
  MAX_PENDING = 2
  MAX_PER_DEVICE = 1
  PENDING_TTL = 1
  MaxTries = 1
  MaxEph = 3
  MaxNow = 1
SYMMETRY Symmetry
SPECIFICATION EndpointSpec
INVARIANTS EndpointTypeOK PendingBounded PeersAgreed
PROPERTY SessionOnce
