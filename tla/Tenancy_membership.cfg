SPECIFICATION Spec
CONSTANTS
  u1 = u1
  u2 = u2
  Users = {u1, u2}
  Visitors = {}
  NewOrgs = {o1}
  Slugs = {s1}
  InvitationIds = {i1}
  InvitedRoles = {"member"}
  Joined <- Nobody
  Requests = {r1}
  None = none
SYMMETRY Interchangeable
INVARIANT DefaultMembershipResolves
