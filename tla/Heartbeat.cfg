SPECIFICATION FairSpec
CONSTANTS
  Nil = Nil
  MaxMissed = 2
  MaxSeq = 2
  MaxInbox = 2
  MaxUnacked = 2
INVARIANT TypeOK
INVARIANT CloseJustified
INVARIANT DetectedInTime
INVARIANT SeqReal
PROPERTY DeadPeerDetected
PROPERTY EndTogether
CHECK_DEADLOCK FALSE
