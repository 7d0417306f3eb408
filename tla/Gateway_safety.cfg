SPECIFICATION Spec
CONSTANTS
  Callers = {c1}
  Tokens = {t1, t2}
  NoToken = NoToken
  Presences = {p1, p2}
  NoPresence = NoPresence
  Slots = {s1, s2}
  NoSlot = NoSlot
  Interval = 1
  BackoffStart = 2
  BackoffCap = 3
SYMMETRY Symmetry
INVARIANT TypeOK
INVARIANT StatusCoherent
INVARIANT StatusTold
INVARIANT StraysToldToStop
INVARIANT TokenFresh
INVARIANT WakeNotLost
INVARIANT UpdateNotLost
PROPERTY ImplementsFeed
