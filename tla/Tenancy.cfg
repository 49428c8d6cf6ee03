SPECIFICATION Spec
CONSTANTS
  u1 = u1
  u2 = u2
  Users = {u1, u2}
  Visitors = {x1}
  NewOrgs = {o1, o2}
  Slugs = {s1}
  InvitationIds = {i1}
  InvitedRoles = {"admin"}
  Joined <- MemberElsewhere
  Requests = {r1, r2}
  None = none
SYMMETRY Interchangeable
INVARIANTS TypeOK RequestsInv EveryOrganizationHasAdmin OneRowPerKey MembershipsAreEarned InvitationsComeFromAdmins TokensMatchMemberships
PROPERTIES DeactivatedUsersDoNotAct ImplementsOrganizations
