SPECIFICATION Spec
CONSTANTS
  Users = {u1}
  Emails = {a, A, b, c}
  Allowed = {a, A, b, c}
  normalize_email <- MCnormalize_email
  Slugs = {s1}
  TokenIds = {v1, v2, v3, v4}
  Requests = {r1, r2}
  None = none
  a = a
  A = A
  b = b
  c = c
SYMMETRY Interchangeable
INVARIANT LookupFindsEmail
