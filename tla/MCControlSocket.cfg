\* Two daemons that start, stop and crash at any time, and one client more
\* than there are slots.
CONSTANTS
  Daemons = {m1, m2}
  Clients = {c1, c2}
  MAX_CONNECTIONS = 1
SPECIFICATION SocketSpec
INVARIANTS PermitsExact CleanExit ServesItsPath IdentityKept
PROPERTY SignalEnds
