--------------------------- MODULE Organizations ---------------------------
(***************************************************************************)
(* What create_org, invite, accept_invitation and deactivation promise,    *)
(* without requests, statements, indexes or tokens: every step is a change *)
(* of the tables, made by a user who may make it.                          *)
(*                                                                         *)
(* An account or an invitation that ends while a request is using it ends, *)
(* here, together with that request.                                       *)
(***************************************************************************)
CONSTANTS Users, NewOrgs, Slugs, InvitationIds, Roles, Joined, None

VARIABLES
  slug,           \* of each organization, None where there is none
  memberships,    \* who is in which organization, in which role
  offers,         \* what each invitation offers to whom, None where there is none
  open,           \* the invitations that may still be accepted
  active          \* the users who may still act

vars == <<slug, memberships, offers, open, active>>

-----------------------------------------------------------------------------
OrgIds == Users \cup NewOrgs

Init ==
  /\ slug = [o \in OrgIds |-> IF o \in Users THEN o ELSE None]
  /\ memberships = {[user |-> u, org |-> u, role |-> "admin"] : u \in Users} \cup Joined
  /\ offers = [i \in InvitationIds |-> None]
  /\ open = {} /\ active = Users

\* u acts, which may be the last time.
Acts(u) == u \in active /\ active' \in {active, active \ {u}}

\* create_org
Found(u, o, s) ==
  /\ Acts(u) /\ slug[o] = None /\ \A p \in OrgIds : slug[p] # s
  /\ slug' = [slug EXCEPT ![o] = s]
  /\ memberships' = memberships \cup {[user |-> u, org |-> o, role |-> "admin"]}
  /\ UNCHANGED <<offers, open>>

\* invite: an administrator of o offers v a role in it.
Invite(u, i, o, v, role) ==
  /\ Acts(u) /\ [user |-> u, org |-> o, role |-> "admin"] \in memberships
  /\ offers[i] = None
  /\ offers' = [offers EXCEPT ![i] = [org |-> o, email |-> v, role |-> role]]
  /\ open' = open \cup {i}
  /\ UNCHANGED <<slug, memberships>>

\* accept_invitation, by the user it was sent to; one who is a member keeps their role.
Join(i) ==
  LET m == [user |-> offers[i].email, org |-> offers[i].org, role |-> offers[i].role] IN
  /\ i \in open /\ Acts(m.user)
  /\ memberships' =
       IF \E n \in memberships : n.user = m.user /\ n.org = m.org THEN memberships
       ELSE memberships \cup {m}
  /\ open' = open \ {i}
  /\ UNCHANGED <<slug, offers>>

\* Invitations expire, users are disabled or leave.
Lapse ==
  /\ open' \subseteq open /\ active' \subseteq active
  /\ UNCHANGED <<slug, memberships, offers>>

\* disable_user with is_active set.
Reactivate(u) ==
  /\ active' = active \cup {u}
  /\ UNCHANGED <<slug, memberships, offers, open>>

Next ==
  \/ Lapse
  \/ \E u \in Users :
       \/ Reactivate(u)
       \/ \E o \in NewOrgs, s \in Slugs : Found(u, o, s)
       \/ \E i \in InvitationIds, o \in OrgIds, v \in Users, role \in Roles :
            Invite(u, i, o, v, role)
  \/ \E i \in InvitationIds : Join(i)

Spec == Init /\ [][Next]_vars

=============================================================================
