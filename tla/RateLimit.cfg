SPECIFICATION FairSpec
CONSTANTS
  Routes = {login}
  limit <- MClimit
  Period = 2
  Requests = {r1, r2}
  None = none
INVARIANTS TypeOK WindowsInv AtMostTwiceTheLimit CountersExpire
PROPERTY ReadmittedInTime
