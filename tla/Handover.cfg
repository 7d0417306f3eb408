SPECIFICATION HandoverFairSpec
CONSTANTS
  Callers = {b, h1}
  Booter = b
  Tokens = {t1, t2}
  NoToken = NoToken
  Presences = {p1}
  NoPresence = NoPresence
  Slots = {s1, s2}
  NoSlot = NoSlot
  Interval = 1
  BackoffStart = 2
  BackoffCap = 3
INVARIANT StoredTokenRules
PROPERTY SavedTokenUsed
