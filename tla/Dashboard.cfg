SPECIFICATION DashSpec
CONSTANTS
  Requests = {r1, r2}
  Ids = {i1, i2}
  NoId = NoId
  TTL = 1
  Delay = 1
SYMMETRY Symmetry
INVARIANT DashTypeOK
INVARIANT LoggedOutStaysOut
INVARIANT UsedStays
INVARIANT FormCurrent
INVARIANT LogoutHolds
INVARIANT PollsWhileShown
PROPERTY HonouredInTime
