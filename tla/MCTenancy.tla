----------------------------- MODULE MCTenancy -----------------------------
(* Instances of Tenancy for TLC. *)
EXTENDS Tenancy, TLC

CONSTANTS u1, u2

\* u2 is a member of the organization of u1, and administrator of an own one.
MemberElsewhere == {[user |-> u2, org |-> u1, role |-> "member"]}
Nobody == {}

\* Nothing tells two ids, slugs or request slots apart.
Interchangeable ==
  Permutations(NewOrgs) \cup Permutations(Slugs)
    \cup Permutations(InvitationIds) \cup Permutations(Requests)
=============================================================================
