SPECIFICATION Spec
CONSTANTS
  Users = {u1}
  Passwords = {p1, p2}
  RefreshIds = {t1, t2}
  ResetIds = {v1}
  Requests = {r1, r2}
  MultiOrg = {}
  None = none
  LOCKOUT_THRESHOLD = 2
  LOCKOUT_DURATION = 1
  REFRESH_TTL = 1
  RESET_TTL = 1
  MaxTime = 1
SYMMETRY Interchangeable
PROPERTY ResetTokenSingleUse
