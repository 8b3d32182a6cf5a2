\* Two devices, one connection (the mutex serialises them anyway), two
\* wrong guesses burn a code, codes live one tick.
CONSTANTS
  Devices = {d1, d2}
  Conns = {c1}
  None = None
  MAX_CODE_ATTEMPTS = 2
  CODE_TTL = 1
  MaxCodes = 3
  MaxClock = 2
SPECIFICATION Spec
INVARIANTS AttemptBudget CodeSingleUse AckDurable
PROPERTY ImplementsLedger
