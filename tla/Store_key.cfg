SPECIFICATION FairSpec
CONSTANTS
  Handlers = {h1}
  Keys = {k1, k2}
  Secrets = {s1, s2}
  Bodies = {b1}
  NoConfig = NoConfig
  NoSecret = NoSecret
  Absent = Absent
  Partial = Partial
PROPERTY StartsWithoutKey
CHECK_DEADLOCK FALSE
