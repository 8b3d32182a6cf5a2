\* Two connections and the engine: two threads wait for the third.  A wedge
\* is NeverWedged's to find, so TLC's own deadlock check is off.
CONSTANTS
  Conns = {c1, c2}
  Engine = Engine
  Free = Free
SPECIFICATION LocksSpec
INVARIANT NeverBoth
PROPERTY NeverWedged
CHECK_DEADLOCK FALSE
