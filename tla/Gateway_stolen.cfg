SPECIFICATION FairSpec
CONSTANTS
  Callers = {c1}
  Tokens = {t1}
  NoToken = NoToken
  Presences = {p1, p2}
  NoPresence = NoPresence
  Slots = {s1, s2}
  NoSlot = NoSlot
  Interval = 1
  BackoffStart = 2
  BackoffCap = 3
PROPERTY DesiredIsSent
