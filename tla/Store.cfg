SPECIFICATION FairSpec
CONSTANTS
  Handlers = {h1, h2}
  Keys = {k1, k2}
  Secrets = {s1, s2}
  Bodies = {b1, b2}
  NoConfig = NoConfig
  NoSecret = NoSecret
  Absent = Absent
  Partial = Partial
INVARIANT TypeOK
INVARIANT ShownSecretWorks
INVARIANT SetupOnce
INVARIANT OpensItsFile
PROPERTY ImplementsDurable
PROPERTY ComesBack
CHECK_DEADLOCK FALSE
