SPECIFICATION Spec
CONSTANTS
  LabelMax = 4
  U1 = u1
  U2 = u2
  Users = {u1, u2}
  Nobody = Nobody
  Absent = Absent
  Nothing = Nothing
  ButtonLists <- Lines
  Forms <- Filled
  ListMax = 2
INVARIANT TypeOK
PROPERTY ButtonsKept
INVARIANT PollShowsWanted
