---------------------------- MODULE TenancyProofs ----------------------------
(* Proofs of the invariants of Tenancy, for any number of users, organizations and       *)
(* requests.  A step is described once, by Frame: who moves, and what the step may do to *)
(* the rows.  What the other requests rely on and the invariants of the rows follow from *)
(* Frame; what is left of each action is what its own request relies on next.            *)
EXTENDS Tenancy, TLAPS

-----------------------------------------------------------------------------
(* What the COMMIT of r may add to the rows. *)

Founds(r, o) ==
  /\ Committing(r, {"create"}) /\ o = txn[r].org /\ slug'[o] = txn[r].slug
  /\ [user |-> txn[r].user, org |-> o, role |-> "admin"] \in memberships'

Admits(r, m) ==
  \/ /\ Committing(r, {"create"})
     /\ m = [user |-> txn[r].user, org |-> txn[r].org, role |-> "admin"]
  \/ /\ Committing(r, {"accept"}) /\ txn[r].writes
     /\ m = [user |-> txn[r].user, org |-> txn[r].org, role |-> txn[r].role]
     /\ invitations'[txn[r].invitation].state = "accepted"

Sends(r, i) ==
  /\ Committing(r, {"invite"}) /\ i = txn[r].invitation
  /\ invitations'[i] = [org |-> txn[r].org, inviter |-> txn[r].user, email |-> txn[r].other,
                        role |-> txn[r].role, state |-> "open"]

Redeems(r, i) ==
  /\ Committing(r, {"accept"}) /\ i = txn[r].invitation
  /\ \E m \in memberships' : m.user = txn[r].user /\ m.org = txn[r].org

\* The row of an invitation stays, but for its state, and an accepted one stays so.
SameOffer(i) ==
  /\ invitations[i] # None /\ invitations'[i] # None
  /\ invitations'[i].org = invitations[i].org /\ invitations'[i].role = invitations[i].role
  /\ invitations'[i].inviter = invitations[i].inviter
  /\ invitations'[i].email = invitations[i].email
  /\ invitations[i].state = "accepted" => invitations'[i].state = "accepted"

\* The token that u gets names a membership of u.
Finds(u) == \E m \in memberships : /\ m.user = u
                                   /\ token'[u] = [org |-> m.org, role |-> m.role]

\* A step by one of `movers` (no request, when the clock or a login moves).
Frame(movers) ==
  /\ \A q \in Requests \ movers :
       /\ pc'[q] = pc[q] /\ txn'[q] = txn[q]
       /\ q \in stale => q \in stale'
       /\ \A u \in Users : is_active[u] => is_active'[u] \/ (txn[q].user = u => q \in stale')
  /\ memberships \subseteq memberships' /\ mailed \subseteq mailed'
  /\ \A u \in Users : token'[u] \in {None, token[u]} \/ Finds(u)
  /\ \A o \in OrgIds : slug'[o] = slug[o] \/ \E r \in movers : Founds(r, o)
  /\ \A m \in memberships' : m \in memberships \/ \E r \in movers : Admits(r, m)
  /\ \A i \in InvitationIds :
       /\ \/ invitations'[i] = invitations[i] \/ SameOffer(i)
          \/ \E r \in movers : Sends(r, i)
       /\ invitations'[i] # None /\ invitations'[i].state = "accepted" =>
            \/ invitations[i] # None /\ invitations[i].state = "accepted"
            \/ \E r \in movers : Redeems(r, i)

-----------------------------------------------------------------------------
(* Frame keeps what the other requests rely on. *)

LEMMA OthersKeep ==
  ASSUME TypeOK, TypeOK', RequestsInv, NEW movers \in SUBSET Requests, Frame(movers),
         NEW q \in Requests \ movers
  PROVE  Prepared(q)' /\ StillSo(q)' /\ KeysFree(q)'
  <1>1. /\ pc'[q] = pc[q] /\ txn'[q] = txn[q] /\ txn[q] \in Txn
        /\ Prepared(q) /\ StillSo(q) /\ KeysFree(q)
    BY DEF Frame, RequestsInv, TypeOK
  <1>2. Prepared(q)'
    BY <1>1 DEF Prepared
  <1>3. \A r \in movers : /\ r # q /\ Apart(r, q) /\ Apart(q, r)
                          /\ txn[r] \in Txn /\ Prepared(r) /\ StillSo(r) /\ KeysFree(r)
    BY DEF RequestsInv, TypeOK
  <1>s. \A o \in OrgIds : slug'[o] = slug[o] \/ \E r \in movers :
          Committing(r, {"create"}) /\ o = txn[r].org /\ slug'[o] = txn[r].slug
    <2>1. \A o \in OrgIds : slug'[o] = slug[o] \/ \E r \in movers : Founds(r, o)
      BY DEF Frame
    <2> QED BY <2>1 DEF Founds
  <1>4. StillSo(q)'
    <2> DEFINE t == txn[q]
    <2>1. t.op = "create" => slug'[t.org] = None
      <3> SUFFICES ASSUME t.op = "create" PROVE slug'[t.org] = None
        OBVIOUS
      <3>1. t.org \in OrgIds /\ slug[t.org] = None
        BY <1>1 DEF Prepared, StillSo, OrgIds
      <3>2. \A r \in movers : ~(Committing(r, {"create"}) /\ t.org = txn[r].org)
        BY <1>3 DEF Apart, Committing
      <3> QED BY <1>s, <3>1, <3>2
    <2>2. t.op \in {"invite", "accept"} => slug'[t.org] # None
      <3> SUFFICES ASSUME t.op \in {"invite", "accept"} PROVE slug'[t.org] # None
        OBVIOUS
      <3>1. t.org \in OrgIds /\ slug[t.org] # None
        BY <1>1 DEF Prepared, StillSo
      <3>2. \A r \in movers : Committing(r, {"create"}) => txn[r].slug # None
        BY <1>3, RowNames DEF Prepared, Committing
      <3> QED BY <1>s, <3>1, <3>2
    <2>3. t.op = "invite" => invitations'[t.invitation] = None
      <3> SUFFICES ASSUME t.op = "invite" PROVE invitations'[t.invitation] = None
        OBVIOUS
      <3>1. t.invitation \in InvitationIds /\ invitations[t.invitation] = None
        BY <1>1 DEF Prepared, StillSo
      <3>2. \A r \in movers : ~(Committing(r, {"invite"}) /\ t.invitation = txn[r].invitation)
        BY <1>3 DEF Apart, Committing
      <3>3. ~SameOffer(t.invitation) /\ ~\E r \in movers : Sends(r, t.invitation)
        BY <3>1, <3>2 DEF SameOffer, Sends
      <3> QED BY <3>1, <3>3 DEF Frame
    <2>4. t.op = "invite" =>
            /\ [user |-> t.user, org |-> t.org, role |-> "admin"] \in memberships'
            /\ pc[q] = "commit" => t.invitation \in mailed'
      BY <1>1 DEF Frame, StillSo
    <2>5. t.op = "accept" =>
            /\ invitations'[t.invitation] # None
            /\ invitations'[t.invitation].org = t.org
            /\ invitations'[t.invitation].email = t.user
            /\ invitations'[t.invitation].role = t.role
      <3> SUFFICES ASSUME t.op = "accept"
                   PROVE  /\ invitations'[t.invitation] # None
                          /\ invitations'[t.invitation].org = t.org
                          /\ invitations'[t.invitation].email = t.user
                          /\ invitations'[t.invitation].role = t.role
        OBVIOUS
      <3>1. /\ t.invitation \in InvitationIds /\ invitations[t.invitation] # None
            /\ invitations[t.invitation].org = t.org
            /\ invitations[t.invitation].email = t.user
            /\ invitations[t.invitation].role = t.role
        BY <1>1 DEF Prepared, StillSo
      <3>2. \A r \in movers : ~(Committing(r, {"invite"}) /\ t.invitation = txn[r].invitation)
        BY <1>3, <3>1 DEF StillSo, Committing
      <3>3. \/ invitations'[t.invitation] = invitations[t.invitation]
            \/ SameOffer(t.invitation)
        BY <3>1, <3>2 DEF Frame, Sends
      <3> QED BY <3>1, <3>3 DEF SameOffer
    <2>6. t.op = "accept" => t.writes \/ \E m \in memberships' : m.user = t.user /\ m.org = t.org
      BY <1>1 DEF Frame, StillSo, IsMember
    <2>7. t.op \in {"create", "invite", "accept"} => is_active'[t.user] \/ q \in stale'
      <3> SUFFICES ASSUME t.op \in {"create", "invite", "accept"}
                   PROVE  is_active'[t.user] \/ q \in stale'
        OBVIOUS
      <3>1. t.user \in Users /\ (is_active[t.user] \/ q \in stale)
        BY <1>1 DEF Prepared, StillSo
      <3> QED BY <3>1 DEF Frame
    <2> QED BY <1>1, <2>1, <2>2, <2>3, <2>4, <2>5, <2>6, <2>7 DEF StillSo, IsMember
  <1>5. KeysFree(q)'
    <2>1. ASSUME Committing(q, {"create"}), NEW o \in OrgIds
          PROVE  slug'[o] # txn[q].slug
      <3>1. slug[o] # txn[q].slug
        BY <1>1, <2>1 DEF KeysFree
      <3>2. \A r \in movers : Committing(r, {"create"}) => txn[r].slug # txn[q].slug
        BY <1>3, <2>1 DEF Apart
      <3> QED BY <1>s, <3>1, <3>2
    <2>2. ASSUME Committing(q, {"accept"}), txn[q].writes,
                 NEW m \in memberships', m.user = txn[q].user, m.org = txn[q].org
          PROVE  FALSE
      <3>1. m \notin memberships
        BY <1>1, <2>2 DEF KeysFree, IsMember
      <3>2. PICK r \in movers : Admits(r, m)
        BY <3>1 DEF Frame
      <3>3. CASE Committing(r, {"create"})
        <4>1. m.org = txn[r].org /\ slug[txn[r].org] = None
          BY <1>3, <3>2, <3>3 DEF StillSo, Committing, Admits
        <4>2. slug[txn[q].org] # None
          BY <1>1, <2>2 DEF StillSo, Committing
        <4> QED BY <2>2, <4>1, <4>2
      <3>4. CASE Committing(r, {"accept"}) /\ txn[r].writes
        <4>1. m.user = txn[r].user /\ m.org = txn[r].org
          BY <3>2, <3>4 DEF Committing, Admits
        <4> QED BY <1>3, <2>2, <3>4, <4>1 DEF Apart
      <3> QED BY <3>2, <3>3, <3>4 DEF Admits
    <2> QED BY <1>1, <2>1, <2>2 DEF KeysFree, Committing, IsMember
  <1> QED BY <1>2, <1>4, <1>5

\* Two requests that do not move stay apart.
LEMMA OthersApart ==
  ASSUME RequestsInv, NEW movers \in SUBSET Requests, Frame(movers),
         NEW p \in Requests \ movers, NEW q \in Requests \ movers, p # q
  PROVE  Apart(p, q)'
  BY DEF Frame, RequestsInv, Apart, Committing

LEMMA ApartBothWays ==
  ASSUME NEW r \in Requests, NEW q \in Requests, Apart(r, q)'
  PROVE  Apart(q, r)'
  BY DEF Apart

\* So of a step by r only what r itself relies on is left to show.
LEMMA RequestStep ==
  ASSUME TypeOK, TypeOK', RequestsInv, NEW r \in Requests, Frame({r}),
         Prepared(r)', StillSo(r)', KeysFree(r)',
         \A q \in Requests \ {r} : Apart(r, q)'
  PROVE  RequestsInv'
  <1>1. \A q \in Requests \ {r} : Prepared(q)' /\ StillSo(q)' /\ KeysFree(q)'
    BY OthersKeep
  <1>2. \A p, q \in Requests \ {r} : p # q => Apart(p, q)'
    BY OthersApart
  <1>3. \A q \in Requests \ {r} : Apart(q, r)'
    BY ApartBothWays
  <1> QED BY <1>1, <1>2, <1>3 DEF RequestsInv

-----------------------------------------------------------------------------
(* Frame keeps what the rows promise. *)

RowsInv ==
  /\ EveryOrganizationHasAdmin /\ OneRowPerKey /\ MembershipsAreEarned
  /\ InvitationsComeFromAdmins /\ TokensMatchMemberships

LEMMA AdminsKept ==
  ASSUME NEW movers \in SUBSET Requests, Frame(movers), EveryOrganizationHasAdmin
  PROVE  EveryOrganizationHasAdmin'
  <1> SUFFICES ASSUME NEW o \in OrgIds, slug'[o] # None
               PROVE  \E m \in memberships' : m.org = o /\ m.role = "admin"
    BY DEF EveryOrganizationHasAdmin
  <1>1. CASE slug'[o] = slug[o]
    BY <1>1 DEF EveryOrganizationHasAdmin, Frame
  <1>2. CASE \E r \in movers : Founds(r, o)
    <2>1. PICK r \in movers : Founds(r, o)
      BY <1>2
    <2> DEFINE m == [user |-> txn[r].user, org |-> o, role |-> "admin"]
    <2>2. m \in memberships' /\ m.org = o /\ m.role = "admin"
      BY <2>1 DEF Founds
    <2> HIDE DEF m
    <2> QED BY <2>2
  <1> QED BY <1>1, <1>2 DEF Frame

LEMMA KeysKept ==
  ASSUME TypeOK, RequestsInv, NEW movers \in SUBSET Requests, Frame(movers), OneRowPerKey,
         \A r, q \in movers : r = q
  PROVE  OneRowPerKey'
  <1>1. ASSUME NEW o \in OrgIds, NEW r \in movers, Founds(r, o)
        PROVE  slug[o] = None /\ slug'[o] = txn[r].slug /\ o = txn[r].org
               /\ \A p \in OrgIds : slug[p] # slug'[o]
    <2>1. Committing(r, {"create"}) /\ slug'[o] = txn[r].slug /\ o = txn[r].org
      BY <1>1 DEF Founds
    <2>2. StillSo(r) /\ KeysFree(r) /\ txn[r].op = "create"
      BY <2>1 DEF RequestsInv, Committing
    <2> QED BY <2>1, <2>2 DEF StillSo, KeysFree
  <1>2. \A o \in OrgIds : slug'[o] = slug[o] \/ \E r \in movers : Founds(r, o)
    BY DEF Frame
  <1>3. \A o, p \in OrgIds : o # p /\ slug'[o] # None => slug'[o] # slug'[p]
    BY <1>1, <1>2 DEF OneRowPerKey
  <1>4. ASSUME NEW m \in memberships', m \notin memberships, NEW n \in memberships',
               m.user = n.user, m.org = n.org
        PROVE  m = n
    <2>1. PICK r \in movers : Admits(r, m)
      BY <1>4 DEF Frame
    <2>2. /\ m.user = txn[r].user /\ m.org = txn[r].org /\ r \in Requests
          /\ Committing(r, {"create"}) \/ (Committing(r, {"accept"}) /\ txn[r].writes)
          /\ StillSo(r) /\ KeysFree(r)
      BY <2>1 DEF Admits, RequestsInv
    <2>3. n \notin memberships
      <3>1. CASE Committing(r, {"create"})
        <4>1. slug[n.org] = None
          BY <1>4, <2>2, <3>1 DEF StillSo, Committing
        <4> QED BY <4>1 DEF TypeOK
      <3>2. CASE Committing(r, {"accept"}) /\ txn[r].writes
        <4>1. ~IsMember(n.user, n.org)
          BY <1>4, <2>2, <3>2 DEF KeysFree
        <4> QED BY <4>1 DEF IsMember
      <3> QED BY <2>2, <3>1, <3>2
    <2>4. Admits(r, n)
      <3>1. PICK q \in movers : Admits(q, n)
        BY <2>3 DEF Frame
      <3> QED BY <3>1
    <2> QED BY <2>1, <2>4 DEF Admits, Committing
  <1>5. ASSUME NEW m \in memberships', NEW n \in memberships', m.user = n.user, m.org = n.org
        PROVE  m = n
    <2>1. CASE m \in memberships /\ n \in memberships
      BY <1>5, <2>1 DEF OneRowPerKey
    <2>2. CASE m \notin memberships
      BY <1>4, <1>5, <2>2
    <2>3. CASE n \notin memberships
      BY <1>4, <1>5, <2>3
    <2> QED BY <2>1, <2>2, <2>3
  <1> QED BY <1>3, <1>5 DEF OneRowPerKey

LEMMA InvitationsKept ==
  ASSUME TypeOK, RequestsInv, NEW movers \in SUBSET Requests, Frame(movers),
         InvitationsComeFromAdmins
  PROVE  InvitationsComeFromAdmins'
  <1> SUFFICES ASSUME NEW i \in InvitationIds, invitations'[i] # None
               PROVE  /\ i \in mailed'
                      /\ \E m \in memberships' : /\ m.user = invitations'[i].inviter
                                                  /\ m.org = invitations'[i].org
                                                  /\ m.role = "admin"
    BY DEF InvitationsComeFromAdmins
  <1>1. CASE invitations'[i] = invitations[i] \/ SameOffer(i)
    <2>1. /\ invitations[i] # None
          /\ invitations'[i].org = invitations[i].org
          /\ invitations'[i].inviter = invitations[i].inviter
      BY <1>1 DEF SameOffer
    <2> QED BY <2>1 DEF InvitationsComeFromAdmins, Frame
  <1>2. CASE \E r \in movers : Sends(r, i)
    <2>1. PICK r \in movers : Sends(r, i)
      BY <1>2
    <2>2. StillSo(r) /\ pc[r] = "commit" /\ txn[r].op = "invite" /\ i = txn[r].invitation
      BY <2>1 DEF Sends, RequestsInv, Committing
    <2>3. invitations'[i].inviter = txn[r].user /\ invitations'[i].org = txn[r].org
      BY <2>1 DEF Sends
    <2> DEFINE m == [user |-> txn[r].user, org |-> txn[r].org, role |-> "admin"]
    <2>4. i \in mailed /\ m \in memberships
      BY <2>2 DEF StillSo
    <2>5. m.user = txn[r].user /\ m.org = txn[r].org /\ m.role = "admin"
      OBVIOUS
    <2> HIDE DEF m
    <2> QED BY <2>3, <2>4, <2>5 DEF Frame
  <1> QED BY <1>1, <1>2 DEF Frame

LEMMA EarnedKept ==
  ASSUME TypeOK, RequestsInv, NEW movers \in SUBSET Requests, Frame(movers),
         MembershipsAreEarned, \A r, q \in movers : r = q
  PROVE  MembershipsAreEarned'
  <1>1. ASSUME NEW m, Invited(m) PROVE Invited(m)'
    <2>1. CASE m \in Joined
      BY <2>1 DEF Invited
    <2>2. ASSUME NEW i \in InvitationIds, invitations[i] # None,
                 invitations[i].state = "accepted", invitations[i].email = m.user,
                 invitations[i].org = m.org, invitations[i].role = m.role
          PROVE  Invited(m)'
      <3>1. ~\E r \in movers : Sends(r, i)
        BY <2>2 DEF Sends, RequestsInv, StillSo, Committing
      <3>2. invitations'[i] = invitations[i] \/ SameOffer(i)
        BY <3>1 DEF Frame
      <3>3. /\ invitations'[i] # None /\ invitations'[i].state = "accepted"
            /\ invitations'[i].email = m.user /\ invitations'[i].org = m.org
            /\ invitations'[i].role = m.role
        BY <2>2, <3>2 DEF SameOffer
      <3> QED BY <3>3 DEF Invited
    <2> QED BY <1>1, <2>1, <2>2 DEF Invited
  <1>2. ASSUME NEW r \in movers, NEW m \in memberships', m \notin memberships, Admits(r, m),
               ~Invited(m)'
        PROVE  /\ Committing(r, {"create"}) /\ slug[m.org] = None
               /\ m = [user |-> txn[r].user, org |-> txn[r].org, role |-> "admin"]
    <2>1. ~(Committing(r, {"accept"}) /\ invitations'[txn[r].invitation].state = "accepted"
            /\ m = [user |-> txn[r].user, org |-> txn[r].org, role |-> txn[r].role])
      <3> SUFFICES ASSUME Committing(r, {"accept"}),
                          invitations'[txn[r].invitation].state = "accepted",
                          m = [user |-> txn[r].user, org |-> txn[r].org, role |-> txn[r].role]
                   PROVE  FALSE
        OBVIOUS
      <3>1. Prepared(r) /\ StillSo(r) /\ txn[r].op = "accept"
        BY DEF RequestsInv, Committing
      <3> DEFINE i == txn[r].invitation
      <3>2. /\ i \in InvitationIds /\ invitations[i] # None
            /\ invitations[i].org = txn[r].org /\ invitations[i].email = txn[r].user
            /\ invitations[i].role = txn[r].role
        BY <3>1 DEF Prepared, StillSo
      <3>3. ~\E q \in movers : Sends(q, i)
        BY <3>1 DEF Sends, Committing
      <3>4. invitations'[i] = invitations[i] \/ SameOffer(i)
        BY <3>2, <3>3 DEF Frame
      <3>5. m.user = txn[r].user /\ m.org = txn[r].org /\ m.role = txn[r].role
        OBVIOUS
      <3>6. /\ invitations'[i] # None /\ invitations'[i].org = m.org
            /\ invitations'[i].email = m.user /\ invitations'[i].role = m.role
        BY <3>2, <3>4, <3>5 DEF SameOffer
      <3>7. invitations'[i].state = "accepted"
        OBVIOUS
      <3> HIDE DEF i
      <3> QED BY <1>2, <3>2, <3>6, <3>7 DEF Invited
    <2>2. /\ Committing(r, {"create"})
          /\ m = [user |-> txn[r].user, org |-> txn[r].org, role |-> "admin"]
      BY <1>2, <2>1 DEF Admits
    <2>3. m.org = txn[r].org /\ slug[txn[r].org] = None
      BY <2>2 DEF RequestsInv, StillSo, Committing
    <2> QED BY <2>2, <2>3
  <1>3. ASSUME NEW m \in memberships', NEW n \in memberships', m.org = n.org,
               ~Invited(m)', ~Invited(n)', m \notin memberships
        PROVE  m = n
    <2>1. PICK r \in movers : Admits(r, m)
      BY <1>3 DEF Frame
    <2>2. /\ slug[m.org] = None
          /\ m = [user |-> txn[r].user, org |-> txn[r].org, role |-> "admin"]
      BY <1>2, <1>3, <2>1
    <2>3. n \notin memberships
      BY <1>3, <2>2 DEF TypeOK
    <2>4. PICK q \in movers : Admits(q, n)
      BY <2>3 DEF Frame
    <2>5. n = [user |-> txn[q].user, org |-> txn[q].org, role |-> "admin"]
      BY <1>2, <1>3, <2>3, <2>4
    <2> QED BY <2>2, <2>5
  <1>4. ASSUME NEW m \in memberships', NEW n \in memberships', m.org = n.org,
               ~Invited(m)', ~Invited(n)'
        PROVE  m = n
    <2>1. CASE m \in memberships /\ n \in memberships
      BY <1>1, <1>4, <2>1 DEF MembershipsAreEarned
    <2>2. CASE m \notin memberships
      BY <1>3, <1>4, <2>2
    <2>3. CASE n \notin memberships
      BY <1>3, <1>4, <2>3
    <2> QED BY <2>1, <2>2, <2>3
  <1>5. ASSUME NEW i \in InvitationIds, invitations'[i] # None,
               invitations'[i].state = "accepted"
        PROVE  \E m \in memberships' : m.user = invitations'[i].email /\ m.org = invitations'[i].org
    <2>1. CASE invitations[i] # None /\ invitations[i].state = "accepted"
      <3>1. ~\E r \in movers : Sends(r, i)
        BY <2>1 DEF Sends, RequestsInv, StillSo, Committing
      <3>2. invitations'[i].email = invitations[i].email /\ invitations'[i].org = invitations[i].org
        BY <3>1 DEF Frame, SameOffer
      <3>3. \E m \in memberships : m.user = invitations[i].email /\ m.org = invitations[i].org
        BY <2>1 DEF MembershipsAreEarned, IsMember
      <3> QED BY <3>2, <3>3 DEF Frame
    <2>2. CASE \E r \in movers : Redeems(r, i)
      <3>1. PICK r \in movers : Redeems(r, i)
        BY <2>2
      <3>2. StillSo(r) /\ txn[r].op = "accept" /\ i = txn[r].invitation
        BY <3>1 DEF Redeems, RequestsInv, Committing
      <3>3. ~\E q \in movers : Sends(q, i)
        BY <3>2 DEF Sends, Committing
      <3>4. invitations'[i].email = txn[r].user /\ invitations'[i].org = txn[r].org
        BY <3>2, <3>3 DEF Frame, SameOffer, StillSo
      <3> QED BY <3>1, <3>4 DEF Redeems
    <2> QED BY <1>5, <2>1, <2>2 DEF Frame
  <1> QED BY <1>4, <1>5 DEF MembershipsAreEarned, IsMember

LEMMA TokensKept ==
  ASSUME TypeOK, NEW movers \in SUBSET Requests, Frame(movers), TokensMatchMemberships
  PROVE  TokensMatchMemberships'
  <1> SUFFICES ASSUME NEW u \in Users, token'[u] # None
               PROVE  [user |-> u, org |-> token'[u].org, role |-> token'[u].role]
                        \in memberships'
    BY DEF TokensMatchMemberships
  <1>1. CASE token'[u] = token[u]
    <2>1. [user |-> u, org |-> token[u].org, role |-> token[u].role] \in memberships
      BY <1>1 DEF TokensMatchMemberships
    <2> QED BY <1>1, <2>1 DEF Frame
  <1>2. CASE Finds(u)
    <2>1. PICK m \in memberships : m.user = u /\ token'[u] = [org |-> m.org, role |-> m.role]
      BY <1>2 DEF Finds
    <2>2. token'[u].org = m.org /\ token'[u].role = m.role /\ m \in Membership
      BY <2>1 DEF TypeOK
    <2>3. m = [user |-> u, org |-> token'[u].org, role |-> token'[u].role]
      BY <2>1, <2>2 DEF Membership
    <2> QED BY <2>3 DEF Frame
  <1> QED BY <1>1, <1>2 DEF Frame

LEMMA RowsStep ==
  ASSUME TypeOK, RequestsInv, RowsInv, NEW movers \in SUBSET Requests, Frame(movers),
         \A r, q \in movers : r = q
  PROVE  RowsInv'
  BY AdminsKept, KeysKept, InvitationsKept, EarnedKept, TokensKept DEF RowsInv

-----------------------------------------------------------------------------
(* Requests begin. *)

Steps == {"idle", "insert", "mail", "write", "commit", "raise"}

LEMMA NoTxnType == NoTxn \in Txn
  BY DEF NoTxn, Txn

\* What a handler knows after its checks makes a good start.
LEMMA BeginStep ==
  ASSUME TypeOK, RequestsInv, NEW r \in Requests, NEW step \in Steps, NEW t \in Txn,
         Begin(r, step, t),
         Prepared(r)', StillSo(r)', KeysFree(r)',
         \A q \in Requests \ {r} : Apart(r, q)'
  PROVE  TypeOK' /\ Frame({r}) /\ RequestsInv'
  <1>1. TypeOK'
    BY DEF Begin, TypeOK, tables, Steps
  <1>2. Frame({r})
    BY DEF Begin, Frame, TypeOK, tables
  <1> QED BY <1>1, <1>2, RequestStep

LEMMA BeginPlaces ==
  ASSUME TypeOK, NEW r \in Requests, NEW step, NEW t, Begin(r, step, t)
  PROVE  /\ pc'[r] = step /\ txn'[r] = t
         /\ \A q \in Requests \ {r} : pc'[q] = pc[q] /\ txn'[q] = txn[q]
         /\ UNCHANGED <<slug, memberships, invitations, is_active, token, mailed, stale>>
  BY DEF Begin, TypeOK, tables

LEMMA CreateStep ==
  ASSUME TypeOK, RequestsInv, NEW r \in Requests, NEW u, NEW s \in Slugs,
         CreateChecked(r, u, s)
  PROVE  TypeOK' /\ Frame({r}) /\ RequestsInv'
  <1>u. u \in Users
    BY DEF CreateChecked, CurrentUser
  <1>1. PICK o \in NewOrgs :
          /\ NewOrg(o)
          /\ Begin(r, "insert", [NoTxn EXCEPT !.op = "create", !.user = u, !.org = o, !.slug = s])
    BY DEF CreateChecked
  <1> DEFINE t == [NoTxn EXCEPT !.op = "create", !.user = u, !.org = o, !.slug = s]
  <1>2. t \in Txn /\ t.op = "create" /\ t.user = u /\ t.org = o /\ t.slug = s
    BY <1>u, NoTxnType DEF NoTxn, Txn, OrgIds
  <1>3. Begin(r, "insert", t)
    BY <1>1
  <1> HIDE DEF t
  <1>4. /\ pc'[r] = "insert" /\ txn'[r] = t /\ slug' = slug /\ is_active' = is_active
        /\ \A q \in Requests \ {r} : pc'[q] = pc[q] /\ txn'[q] = txn[q]
    BY <1>3, BeginPlaces
  <1>5. Prepared(r)'
    BY <1>u, <1>2, <1>4 DEF Prepared
  <1>6. StillSo(r)'
    BY <1>1, <1>2, <1>4 DEF StillSo, NewOrg, CreateChecked, CurrentUser
  <1>7. KeysFree(r)'
    BY <1>4 DEF KeysFree, Committing
  <1>8. \A q \in Requests \ {r} : Apart(r, q)'
    BY <1>1, <1>2, <1>4 DEF Apart, NewOrg, Committing
  <1> QED BY <1>2, <1>3, <1>5, <1>6, <1>7, <1>8, BeginStep DEF Steps

LEMMA InviteStep ==
  ASSUME TypeOK, RequestsInv, NEW r \in Requests, NEW u, NEW o \in OrgIds,
         NEW v \in Users, NEW role \in InvitedRoles, InviteChecked(r, u, o, v, role)
  PROVE  TypeOK' /\ Frame({r}) /\ RequestsInv'
  <1>u. u \in Users
    BY DEF InviteChecked, CurrentUser
  <1>1. PICK i \in InvitationIds :
          /\ NewInvitation(i)
          /\ Begin(r, "mail", [NoTxn EXCEPT !.op = "invite", !.user = u, !.org = o,
                                            !.role = role, !.invitation = i, !.other = v])
    BY DEF InviteChecked
  <1> DEFINE t == [NoTxn EXCEPT !.op = "invite", !.user = u, !.org = o, !.role = role,
                                !.invitation = i, !.other = v]
  <1>r. role \in Roles
    BY Offers
  <1>2. /\ t \in Txn /\ t.op = "invite" /\ t.user = u /\ t.org = o /\ t.role = role
        /\ t.invitation = i /\ t.other = v
    BY <1>u, <1>r, NoTxnType DEF NoTxn, Txn
  <1>3. Begin(r, "mail", t)
    BY <1>1
  <1> HIDE DEF t
  <1>4. /\ pc'[r] = "mail" /\ txn'[r] = t /\ slug' = slug /\ is_active' = is_active
        /\ invitations' = invitations /\ memberships' = memberships
        /\ \A q \in Requests \ {r} : pc'[q] = pc[q] /\ txn'[q] = txn[q]
    BY <1>3, BeginPlaces
  <1>5. Prepared(r)'
    BY <1>u, <1>r, <1>2, <1>4 DEF Prepared
  <1>6. StillSo(r)'
    <2>1. PICK m \in memberships : m.user = u /\ m.org = o /\ m.role = "admin"
      BY DEF InviteChecked, CurrentMembership, MembershipsOf
    <2>2. m = [user |-> u, org |-> o, role |-> "admin"]
      BY <2>1 DEF TypeOK, Membership
    <2>3. slug[o] # None
      BY <2>1 DEF TypeOK
    <2> QED BY <1>1, <1>2, <1>4, <2>1, <2>2, <2>3
            DEF StillSo, NewInvitation, InviteChecked, CurrentUser
  <1>7. KeysFree(r)'
    BY <1>4 DEF KeysFree, Committing
  <1>8. \A q \in Requests \ {r} : Apart(r, q)'
    BY <1>1, <1>2, <1>4 DEF Apart, NewInvitation, Committing
  <1> QED BY <1>2, <1>3, <1>5, <1>6, <1>7, <1>8, BeginStep DEF Steps

LEMMA AcceptStep ==
  ASSUME TypeOK, RequestsInv, NEW r \in Requests, NEW u, NEW i \in InvitationIds,
         AcceptChecked(r, u, i)
  PROVE  TypeOK' /\ Frame({r}) /\ RequestsInv'
  <1>u. u \in Users
    BY DEF AcceptChecked, CurrentUser
  <1> DEFINE o == invitations[i].org
  <1> DEFINE t == [NoTxn EXCEPT !.op = "accept", !.user = u, !.org = o, !.invitation = i,
                                !.role = invitations[i].role, !.writes = ~IsMember(u, o)]
  <1>1. /\ invitations[i] # None /\ invitations[i].email = u
        /\ o \in OrgIds /\ invitations[i].role \in Roles /\ slug[o] # None
    BY DEF AcceptChecked, TypeOK, Invitation
  <1>2. /\ t \in Txn /\ t.op = "accept" /\ t.user = u /\ t.org = o /\ t.invitation = i
        /\ t.role = invitations[i].role /\ (t.writes \/ IsMember(u, o))
    BY <1>1, <1>u, NoTxnType DEF NoTxn, Txn
  <1>3. Begin(r, "write", t)
    BY DEF AcceptChecked, BeginAcceptance
  <1> HIDE DEF t
  <1>4. /\ pc'[r] = "write" /\ txn'[r] = t /\ slug' = slug /\ is_active' = is_active
        /\ invitations' = invitations /\ memberships' = memberships
        /\ \A q \in Requests \ {r} : pc'[q] = pc[q] /\ txn'[q] = txn[q]
    BY <1>3, BeginPlaces
  <1>5. Prepared(r)'
    BY <1>u, <1>1, <1>2, <1>4 DEF Prepared
  <1>6. StillSo(r)'
    BY <1>1, <1>2, <1>4 DEF StillSo, AcceptChecked, CurrentUser, IsMember
  <1>7. KeysFree(r)'
    BY <1>4 DEF KeysFree, Committing
  <1>8. \A q \in Requests \ {r} : Apart(r, q)'
    BY <1>2, <1>4 DEF Apart, Committing
  <1> QED BY <1>2, <1>3, <1>5, <1>6, <1>7, <1>8, BeginStep DEF Steps

\* Requests about is_active rely on nothing that another could change.
LEMMA StatusBegins ==
  ASSUME TypeOK, RequestsInv, NEW r \in Requests, NEW t \in Txn, t.op \in {"disable", "delete"},
         t.op = "delete" => t.user \in Users, t.other \in Users, Begin(r, "commit", t)
  PROVE  TypeOK' /\ Frame({r}) /\ RequestsInv'
  <1>1. /\ pc'[r] = "commit" /\ txn'[r] = t
        /\ \A q \in Requests \ {r} : pc'[q] = pc[q] /\ txn'[q] = txn[q]
    BY BeginPlaces
  <1>2. Prepared(r)' /\ StillSo(r)' /\ KeysFree(r)'
    BY <1>1 DEF Prepared, StillSo, KeysFree, Committing
  <1>3. \A q \in Requests \ {r} : Apart(r, q)'
    BY <1>1 DEF Apart, Committing
  <1> QED BY <1>2, <1>3, BeginStep DEF Steps

LEMMA DisableStep ==
  ASSUME TypeOK, RequestsInv, NEW r \in Requests, NEW x, NEW v \in Users,
         NEW active \in BOOLEAN, DisableChecked(r, x, v, active)
  PROVE  TypeOK' /\ Frame({r}) /\ RequestsInv'
  <1> DEFINE t == [NoTxn EXCEPT !.op = "disable", !.other = v, !.active = active,
                                !.writes = is_active[v] # active]
  <1>1. t \in Txn /\ t.op = "disable" /\ t.other = v
    BY NoTxnType DEF NoTxn, Txn
  <1>2. Begin(r, "commit", t)
    BY DEF DisableChecked
  <1> HIDE DEF t
  <1> QED BY <1>1, <1>2, StatusBegins

LEMMA DeleteStep ==
  ASSUME TypeOK, RequestsInv, NEW r \in Requests, NEW u, DeleteChecked(r, u)
  PROVE  TypeOK' /\ Frame({r}) /\ RequestsInv'
  <1>u. u \in Users
    BY DEF DeleteChecked, CurrentUser
  <1> DEFINE t == [NoTxn EXCEPT !.op = "delete", !.user = u, !.other = u, !.writes = TRUE]
  <1>1. t \in Txn /\ t.op = "delete" /\ t.user = u /\ t.other = u
    BY <1>u, NoTxnType DEF NoTxn, Txn
  <1>2. Begin(r, "commit", t)
    BY DEF DeleteChecked
  <1> HIDE DEF t
  <1> QED BY <1>u, <1>1, <1>2, StatusBegins

-----------------------------------------------------------------------------
(* The statements of a request in flight. *)

\* A statement moves r on to `step`, and changes no table.
LEMMA StatementStep ==
  ASSUME TypeOK, RequestsInv, NEW r \in Requests, NEW step \in Steps, Goto(r, step),
         mailed \subseteq mailed', mailed' \subseteq InvitationIds,
         Prepared(r)', KeysFree(r)',
         txn[r].op = "invite" /\ step = "commit" => txn[r].invitation \in mailed',
         step = "commit" => \A q \in Requests \ {r} : pc[q] = "commit" =>
           /\ txn[r].op = "create" /\ txn[q].op = "create" => txn[r].slug # txn[q].slug
           /\ txn[r].op = "accept" /\ txn[q].op = "accept" /\ txn[r].writes /\ txn[q].writes
              => txn[r].user # txn[q].user \/ txn[r].org # txn[q].org
  PROVE  TypeOK' /\ Frame({r}) /\ RequestsInv'
  <1>1. TypeOK'
    BY DEF Goto, TypeOK, tables, Steps
  <1>2. Frame({r})
    BY DEF Goto, Frame, TypeOK, tables
  <1>3. /\ pc'[r] = step /\ txn' = txn /\ \A q \in Requests \ {r} : pc'[q] = pc[q]
        /\ UNCHANGED <<slug, memberships, invitations, is_active, stale>>
    BY DEF Goto, TypeOK, tables
  <1>4. StillSo(r)'
    BY <1>3 DEF RequestsInv, StillSo, IsMember
  <1>5. \A q \in Requests \ {r} : Apart(r, q)'
    BY <1>3 DEF RequestsInv, Apart, Committing
  <1> QED BY <1>1, <1>2, <1>4, <1>5, RequestStep

LEMMA GotoPlaces ==
  ASSUME TypeOK, NEW r \in Requests, NEW step, Goto(r, step)
  PROVE  pc'[r] = step /\ txn' = txn /\ UNCHANGED <<slug, memberships, invitations>>
  BY DEF Goto, TypeOK, tables

\* The unique index on slugs makes an INSERT wait, and shows it what others committed.
LEMMA InsertStep ==
  ASSUME TypeOK, RequestsInv, NEW r \in Requests, InsertOrg(r)
  PROVE  TypeOK' /\ Frame({r}) /\ RequestsInv'
  <1>1. /\ pc[r] = "insert" /\ txn[r].op = "create" /\ Prepared(r) /\ Goto(r, "commit")
        /\ mailed' = mailed
    BY DEF InsertOrg, RequestsInv, Prepared
  <1>2. pc'[r] = "commit" /\ txn' = txn /\ slug' = slug
    BY <1>1, GotoPlaces
  <1>3. Prepared(r)'
    BY <1>1, <1>2 DEF Prepared
  <1>4. KeysFree(r)'
    BY <1>1, <1>2 DEF KeysFree, Committing, InsertOrg, IndexRefuses
  <1>5. ASSUME NEW q \in Requests \ {r}, pc[q] = "commit", txn[q].op = "create"
        PROVE  txn[r].slug # txn[q].slug
    <2>1. Held(q) = {<<txn[q].slug>>}
      BY <1>5 DEF Held
    <2>2. <<txn[r].slug>> \notin Held(q)
      BY DEF InsertOrg, Free
    <2> QED BY <2>1, <2>2
  <1>6. mailed' \subseteq InvitationIds
    BY <1>1 DEF TypeOK
  <1> QED BY <1>1, <1>3, <1>4, <1>5, <1>6, StatementStep DEF Steps

LEMMA MailStep ==
  ASSUME TypeOK, RequestsInv, NEW r \in Requests, MailInvitation(r)
  PROVE  TypeOK' /\ Frame({r}) /\ RequestsInv'
  <1>1. pc[r] = "mail" /\ txn[r].op = "invite" /\ Prepared(r) /\ txn[r].invitation \in InvitationIds
    BY DEF MailInvitation, RequestsInv, Prepared
  <1>2. mailed \subseteq mailed' /\ mailed' \subseteq InvitationIds
    BY <1>1 DEF MailInvitation, TypeOK
  <1>3. CASE Goto(r, "commit") /\ txn[r].invitation \in mailed'
    <2>1. pc'[r] = "commit" /\ txn' = txn
      BY <1>3, GotoPlaces
    <2>2. Prepared(r)' /\ KeysFree(r)'
      BY <1>1, <2>1 DEF Prepared, KeysFree, Committing
    <2> QED BY <1>1, <1>2, <1>3, <2>2, StatementStep DEF Steps
  <1>4. CASE Goto(r, "raise")
    <2>1. pc'[r] = "raise" /\ txn' = txn
      BY <1>4, GotoPlaces
    <2>2. Prepared(r)' /\ KeysFree(r)'
      BY <1>1, <2>1 DEF Prepared, KeysFree, Committing
    <2> QED BY <1>1, <1>2, <1>4, <2>2, StatementStep DEF Steps
  <1> QED BY <1>3, <1>4 DEF MailInvitation

\* The unique constraint on (user, organization) does the same for memberships.
LEMMA AcceptanceStep ==
  ASSUME TypeOK, RequestsInv, NEW r \in Requests, WriteAcceptance(r)
  PROVE  TypeOK' /\ Frame({r}) /\ RequestsInv'
  <1>1. /\ pc[r] = "write" /\ txn[r].op = "accept" /\ Prepared(r) /\ Goto(r, "commit")
        /\ mailed' = mailed
    BY DEF WriteAcceptance, RequestsInv, Prepared
  <1>2. pc'[r] = "commit" /\ txn' = txn /\ memberships' = memberships
    BY <1>1, GotoPlaces
  <1>3. Prepared(r)'
    BY <1>1, <1>2 DEF Prepared
  <1>4. KeysFree(r)'
    BY <1>1, <1>2 DEF KeysFree, Committing, WriteAcceptance, IndexRefuses, IsMember
  <1>5. ASSUME NEW q \in Requests \ {r}, pc[q] = "commit", txn[q].op = "accept",
               txn[r].writes, txn[q].writes
        PROVE  txn[r].user # txn[q].user \/ txn[r].org # txn[q].org
    <2>1. <<txn[q].user, txn[q].org>> \in Held(q)
      BY <1>5 DEF Held
    <2>2. <<txn[r].user, txn[r].org>> \notin Held(q)
      BY <1>5 DEF WriteAcceptance, Free
    <2> QED BY <2>1, <2>2
  <1>6. mailed' \subseteq InvitationIds
    BY <1>1 DEF TypeOK
  <1> QED BY <1>1, <1>3, <1>4, <1>5, <1>6, StatementStep DEF Steps

-----------------------------------------------------------------------------
(* Requests end. *)

\* A request that has ended relies on nothing.
LEMMA EndStep ==
  ASSUME TypeOK, TypeOK', RequestsInv, NEW r \in Requests, End(r), Frame({r})
  PROVE  RequestsInv'
  <1>1. pc'[r] = "idle" /\ txn'[r] = NoTxn
    BY DEF End, TypeOK
  <1>2. NoTxn.op = "none"
    BY DEF NoTxn
  <1>3. Prepared(r)' /\ StillSo(r)' /\ KeysFree(r)'
    BY <1>1, <1>2 DEF Prepared, StillSo, KeysFree, Committing
  <1>4. \A q \in Requests \ {r} : Apart(r, q)'
    BY <1>1, <1>2 DEF Apart, Committing
  <1> QED BY <1>3, <1>4, RequestStep

LEMMA EndOthers ==
  ASSUME TypeOK, NEW r \in Requests, End(r)
  PROVE  /\ \A q \in Requests \ {r} : pc'[q] = pc[q] /\ txn'[q] = txn[q]
         /\ pc' \in [Requests -> Steps] /\ txn' \in [Requests -> Txn]
  BY NoTxnType DEF End, TypeOK, Steps

LEMMA RollbackStep ==
  ASSUME TypeOK, RequestsInv, NEW r \in Requests, Rollback(r)
  PROVE  TypeOK' /\ Frame({r}) /\ RequestsInv'
  <1>1. End(r) /\ stale' = stale \ {r} /\ UNCHANGED <<slug, memberships, invitations, is_active,
                                                      token, mailed>>
    BY DEF Rollback, tables
  <1>2. TypeOK'
    BY <1>1, EndOthers DEF TypeOK, Steps
  <1>3. Frame({r})
    BY <1>1, EndOthers DEF Frame
  <1> QED BY <1>1, <1>2, <1>3, EndStep

LEMMA CommitOrgStep ==
  ASSUME TypeOK, RequestsInv, NEW r \in Requests, CommitOrg(r)
  PROVE  TypeOK' /\ Frame({r}) /\ RequestsInv'
  <1> DEFINE m == [user |-> txn[r].user, org |-> txn[r].org, role |-> "admin"]
  <1>1. /\ Committing(r, {"create"}) /\ End(r) /\ stale' = stale \ {r}
        /\ slug' = [slug EXCEPT ![txn[r].org] = txn[r].slug]
        /\ memberships' = memberships \cup {m}
        /\ UNCHANGED <<invitations, is_active, token, mailed>>
    BY DEF CommitOrg
  <1>2. /\ txn[r].user \in Users /\ txn[r].org \in OrgIds /\ txn[r].slug \in Slugs
        /\ txn[r].slug # None
    BY <1>1, RowNames DEF RequestsInv, Prepared, Committing, OrgIds
  <1>3. m \in Membership /\ m.org = txn[r].org
    BY <1>2 DEF Membership, Roles
  <1> HIDE DEF m
  <1>4. /\ slug' \in [OrgIds -> Users \cup Slugs \cup {None}] /\ slug'[txn[r].org] = txn[r].slug
        /\ \A o \in OrgIds : o # txn[r].org => slug'[o] = slug[o]
    BY <1>1, <1>2 DEF TypeOK
  <1>5. TypeOK'
    <2>1. \A o \in OrgIds : slug[o] # None => slug'[o] # None
      BY <1>2, <1>4
    <2>2. \A n \in memberships' : n \in Membership /\ slug'[n.org] # None
      BY <1>1, <1>2, <1>3, <1>4, <2>1 DEF TypeOK, Membership
    <2>3. \A i \in InvitationIds : invitations[i] # None => slug'[invitations[i].org] # None
      BY <2>1 DEF TypeOK, Invitation
    <2> QED BY <1>1, <1>4, <2>2, <2>3, EndOthers DEF TypeOK, Steps
  <1>6. Frame({r})
    <2>1. \A o \in OrgIds : slug'[o] = slug[o] \/ Founds(r, o)
      BY <1>1, <1>4 DEF Founds, m
    <2>2. \A n \in memberships' : n \in memberships \/ Admits(r, n)
      BY <1>1 DEF Admits, m
    <2> QED BY <1>1, <2>1, <2>2, EndOthers DEF Frame
  <1> QED BY <1>1, <1>5, <1>6, EndStep

LEMMA CommitInvitationStep ==
  ASSUME TypeOK, RequestsInv, NEW r \in Requests, CommitInvitation(r)
  PROVE  TypeOK' /\ Frame({r}) /\ RequestsInv'
  <1> DEFINE row == [org |-> txn[r].org, inviter |-> txn[r].user, email |-> txn[r].other,
                     role |-> txn[r].role, state |-> "open"]
  <1>1. /\ Committing(r, {"invite"}) /\ End(r) /\ stale' = stale \ {r}
        /\ invitations' = [invitations EXCEPT ![txn[r].invitation] = row]
        /\ UNCHANGED <<slug, memberships, is_active, token, mailed>>
    BY DEF CommitInvitation
  <1>2. /\ txn[r].user \in Users /\ txn[r].org \in OrgIds /\ txn[r].role \in Roles
        /\ txn[r].invitation \in InvitationIds /\ txn[r].other \in Users
        /\ slug[txn[r].org] # None
    BY <1>1 DEF RequestsInv, Prepared, StillSo, Committing
  <1>3. row \in Invitation /\ row.org = txn[r].org /\ row.state = "open"
    BY <1>2 DEF Invitation
  <1> HIDE DEF row
  <1>4. /\ invitations' \in [InvitationIds -> Invitation \cup {None}]
        /\ invitations'[txn[r].invitation] = row
        /\ \A i \in InvitationIds : i # txn[r].invitation => invitations'[i] = invitations[i]
    BY <1>1, <1>2, <1>3 DEF TypeOK
  <1>5. TypeOK'
    <2>1. \A i \in InvitationIds : invitations'[i] # None => slug[invitations'[i].org] # None
      BY <1>2, <1>3, <1>4 DEF TypeOK
    <2> QED BY <1>1, <1>4, <2>1, EndOthers DEF TypeOK, Steps
  <1>6. Frame({r})
    <2>1. \A i \in InvitationIds : invitations'[i] = invitations[i] \/ Sends(r, i)
      BY <1>1, <1>4 DEF Sends, row
    <2>2. ~(invitations'[txn[r].invitation].state = "accepted")
      BY <1>3, <1>4
    <2> QED BY <1>1, <1>4, <2>1, <2>2, EndOthers DEF Frame
  <1> QED BY <1>1, <1>5, <1>6, EndStep

LEMMA CommitAcceptanceStep ==
  ASSUME TypeOK, RequestsInv, NEW r \in Requests, CommitAcceptance(r)
  PROVE  TypeOK' /\ Frame({r}) /\ RequestsInv'
  <1> DEFINE m == [user |-> txn[r].user, org |-> txn[r].org, role |-> txn[r].role]
  <1> DEFINE i == txn[r].invitation
  <1>1. /\ Committing(r, {"accept"}) /\ End(r) /\ stale' = stale \ {r}
        /\ memberships' = memberships \cup {n \in Membership : txn[r].writes /\ n = m}
        /\ invitations' = [invitations EXCEPT ![i].state = "accepted"]
        /\ UNCHANGED <<slug, is_active, token, mailed>>
    BY DEF CommitAcceptance
  <1>2. /\ txn[r].user \in Users /\ txn[r].org \in OrgIds /\ txn[r].role \in Roles
        /\ i \in InvitationIds /\ slug[txn[r].org] # None /\ invitations[i] # None
        /\ txn[r].writes \/ IsMember(txn[r].user, txn[r].org)
    BY <1>1 DEF RequestsInv, Prepared, StillSo, Committing
  <1>3. m \in Membership /\ m.org = txn[r].org /\ m.user = txn[r].user
    BY <1>2 DEF Membership
  <1> HIDE DEF m, i
  <1>4. /\ invitations[i] \in Invitation /\ invitations'[i] \in Invitation
        /\ invitations'[i] = [invitations[i] EXCEPT !.state = "accepted"]
        /\ \A j \in InvitationIds : j # i => invitations'[j] = invitations[j]
        /\ invitations' \in [InvitationIds -> Invitation \cup {None}]
    BY <1>1, <1>2 DEF TypeOK, Invitation
  <1>5. SameOffer(i) /\ invitations'[i].state = "accepted"
    <2>1. invitations'[i] # None
      BY <1>4, NotARow
    <2> QED BY <1>2, <1>4, <2>1 DEF SameOffer, Invitation
  <1>6. \A n \in memberships' : n \in memberships \/ (txn[r].writes /\ n = m)
    BY <1>1
  <1>7. TypeOK'
    <2>1. \A n \in memberships' : n \in Membership /\ slug[n.org] # None
      BY <1>2, <1>3, <1>6 DEF TypeOK
    <2>2. \A j \in InvitationIds : invitations'[j] # None => slug[invitations'[j].org] # None
      <3>1. invitations'[i].org = invitations[i].org
        BY <1>5 DEF SameOffer
      <3>2. \A j \in InvitationIds : invitations[j] # None => slug[invitations[j].org] # None
        BY DEF TypeOK
      <3> QED BY <1>2, <1>4, <3>1, <3>2
    <2> QED BY <1>1, <1>4, <2>1, <2>2, EndOthers DEF TypeOK, Steps
  <1>8. Frame({r})
    <2>1. \A n \in memberships' : n \in memberships \/ Admits(r, n)
      <3>1. Committing(r, {"accept"}) /\ invitations'[txn[r].invitation].state = "accepted"
        BY <1>1, <1>5 DEF i
      <3> QED BY <1>6, <3>1 DEF Admits, m
    <2>2. \E n \in memberships' : n.user = txn[r].user /\ n.org = txn[r].org
      BY <1>1, <1>2, <1>3 DEF IsMember
    <2>3. Redeems(r, i)
      BY <1>1, <2>2 DEF Redeems, i
    <2> QED BY <1>1, <1>4, <1>5, <2>1, <2>3, EndOthers DEF Frame
  <1> QED BY <1>1, <1>7, <1>8, EndStep

LEMMA CommitStatusStep ==
  ASSUME TypeOK, RequestsInv, NEW r \in Requests, CommitStatus(r)
  PROVE  TypeOK' /\ Frame({r}) /\ RequestsInv'
  <1> DEFINE v == txn[r].other
  <1>1. /\ Committing(r, {"disable", "delete"}) /\ End(r)
        /\ is_active' = [is_active EXCEPT ![v] = IF txn[r].writes THEN txn[r].active ELSE @]
        /\ stale' = IF is_active'[v] THEN stale \ {r}
                    ELSE (stale \cup {q \in Requests : txn[q].user = v}) \ {r}
        /\ UNCHANGED <<slug, memberships, invitations, token, mailed>>
    BY DEF CommitStatus
  <1>2. v \in Users /\ txn[r].active \in BOOLEAN
    BY <1>1 DEF RequestsInv, Prepared, Committing, TypeOK, Txn
  <1> HIDE DEF v
  <1>3. is_active' \in [Users -> BOOLEAN] /\ \A u \in Users : u # v => is_active'[u] = is_active[u]
    BY <1>1, <1>2 DEF TypeOK
  <1>4. stale' \subseteq Requests
    BY <1>1 DEF TypeOK
  <1>5. TypeOK'
    BY <1>1, <1>3, <1>4, EndOthers DEF TypeOK, Steps
  <1>6. Frame({r})
    BY <1>1, <1>3, EndOthers DEF Frame
  <1> QED BY <1>1, <1>5, <1>6, EndStep

-----------------------------------------------------------------------------
(* The clock and logins, which are no request's step. *)

\* A step that leaves requests alone.
LEMMA NobodyMoves ==
  ASSUME TypeOK, TypeOK', RequestsInv, Frame({})
  PROVE  RequestsInv'
  <1>1. \A q \in Requests : Prepared(q)' /\ StillSo(q)' /\ KeysFree(q)'
    BY OthersKeep
  <1>2. \A p, q \in Requests : p # q => Apart(p, q)'
    BY OthersApart
  <1> QED BY <1>1, <1>2 DEF RequestsInv

LEMMA MintStep ==
  ASSUME TypeOK, RequestsInv, NEW u \in Users, NEW o, Mint(u, o)
  PROVE  TypeOK' /\ Frame({}) /\ RequestsInv'
  <1>1. PICK m \in ResolveMembership(u, o) :
          token' = [token EXCEPT ![u] = [org |-> m.org, role |-> m.role]]
    BY DEF Mint
  <1>2. m \in Membership
    BY DEF ResolveMembership, MembershipsOf, TypeOK
  <1>3. UNCHANGED <<slug, memberships, invitations, is_active, mailed, pc, txn, stale>>
    BY DEF Mint, tables
  <1>4. TypeOK'
    BY <1>1, <1>2, <1>3 DEF TypeOK, Membership, Subjects
  <1>5. Finds(u) /\ \A v \in Users : v # u => token'[v] = token[v]
    BY <1>1 DEF Finds, ResolveMembership, MembershipsOf, TypeOK, Subjects
  <1>6. Frame({})
    BY <1>3, <1>5 DEF Frame
  <1> QED BY <1>4, <1>6, NobodyMoves

LEMMA OAuthStep ==
  ASSUME TypeOK, RequestsInv, NEW x \in Subjects, OAuthLogin(x)
  PROVE  TypeOK' /\ Frame({}) /\ RequestsInv'
  <1>1. UNCHANGED <<slug, memberships, invitations, is_active, mailed, pc, txn, stale>>
    BY DEF OAuthLogin, tables
  <1>2. ASSUME NEW m \in ResolveMembership(x, None),
               token' = [token EXCEPT ![x] = [org |-> m.org, role |-> m.role]]
        PROVE  TypeOK' /\ Frame({})
    <2>1. m \in Membership /\ m \in memberships /\ m.user = x
      BY DEF ResolveMembership, MembershipsOf, TypeOK
    <2>2. TypeOK'
      BY <1>1, <1>2, <2>1 DEF TypeOK, Membership
    <2>3. Finds(x) /\ \A v \in Users : v # x => token'[v] = token[v]
      BY <1>2, <2>1 DEF Finds, TypeOK, Subjects
    <2>4. Frame({})
      BY <1>1, <2>3 DEF Frame
    <2> QED BY <2>2, <2>4
  <1>3. ASSUME x \in Visitors, token' = [token EXCEPT ![x] = [org |-> None, role |-> "admin"]]
        PROVE  TypeOK' /\ Frame({})
    <2>1. \A v \in Users : token'[v] = token[v]
      BY <1>3, RowNames DEF TypeOK, Subjects
    <2>2. token' \in [Subjects -> [org : OrgIds \cup {None}, role : Roles] \cup {None}]
      BY <1>3 DEF TypeOK, Roles
    <2>3. TypeOK'
      BY <1>1, <2>1, <2>2 DEF TypeOK
    <2>4. Frame({})
      BY <1>1, <2>1 DEF Frame
    <2> QED BY <2>3, <2>4
  <1> QED BY <1>2, <1>3, NobodyMoves DEF OAuthLogin

LEMMA TokenExpires ==
  ASSUME TypeOK, RequestsInv, NEW x \in Subjects, ExpireToken(x)
  PROVE  TypeOK' /\ Frame({}) /\ RequestsInv'
  <1>1. TypeOK'
    BY DEF ExpireToken, TypeOK, tables, Subjects
  <1>2. Frame({})
    BY DEF ExpireToken, Frame, tables, TypeOK, Subjects
  <1> QED BY <1>1, <1>2, NobodyMoves

LEMMA InvitationExpires ==
  ASSUME TypeOK, RequestsInv, NEW i \in InvitationIds, ExpireInvitation(i)
  PROVE  TypeOK' /\ Frame({}) /\ RequestsInv'
  <1>1. /\ invitations[i] \in Invitation /\ invitations[i].state = "open"
        /\ invitations' = [invitations EXCEPT ![i].state = "expired"]
        /\ UNCHANGED <<slug, memberships, is_active, token, mailed, pc, txn, stale>>
    BY DEF ExpireInvitation, TypeOK
  <1>2. /\ invitations'[i] = [invitations[i] EXCEPT !.state = "expired"]
        /\ invitations'[i] \in Invitation
        /\ \A j \in InvitationIds : j # i => invitations'[j] = invitations[j]
        /\ invitations' \in [InvitationIds -> Invitation \cup {None}]
    BY <1>1 DEF TypeOK, Invitation
  <1>3. SameOffer(i) /\ invitations'[i].state = "expired"
    BY <1>1, <1>2, NotARow DEF SameOffer, Invitation
  <1>4. TypeOK'
    <2>1. \A j \in InvitationIds : invitations'[j] # None => slug[invitations'[j].org] # None
      <3>1. invitations'[i].org = invitations[i].org /\ invitations[i] # None
        BY <1>3 DEF SameOffer
      <3>2. \A j \in InvitationIds : invitations[j] # None => slug[invitations[j].org] # None
        BY DEF TypeOK
      <3> QED BY <1>2, <3>1, <3>2
    <2> QED BY <1>1, <1>2, <2>1 DEF TypeOK
  <1>5. Frame({})
    BY <1>1, <1>2, <1>3 DEF Frame
  <1> QED BY <1>4, <1>5, NobodyMoves

-----------------------------------------------------------------------------
(* Every step, and the invariants. *)

LEMMA NextStep ==
  ASSUME TypeOK, RequestsInv, Next
  PROVE  TypeOK' /\ RequestsInv' /\ \E movers \in SUBSET Requests :
           Frame(movers) /\ \A r, q \in movers : r = q
  <1> DEFINE Kept(movers) == TypeOK' /\ Frame(movers) /\ RequestsInv'
  <1>1. ASSUME \/ \E u \in Users, o \in OrgIds \cup {None} : Mint(u, o)
               \/ \E x \in Subjects : OAuthLogin(x) \/ ExpireToken(x)
        PROVE  Kept({})
    BY <1>1, MintStep, OAuthStep, TokenExpires
  <1>2. ASSUME NEW i \in InvitationIds, ExpireInvitation(i)
        PROVE  Kept({})
    BY <1>2, InvitationExpires
  <1>3. ASSUME NEW r \in Requests,
               \E x \in Subjects :
                 \/ \E s \in Slugs : CreateChecked(r, x, s)
                 \/ \E o \in OrgIds, v \in Users, role \in InvitedRoles :
                      InviteChecked(r, x, o, v, role)
                 \/ \E i \in InvitationIds : AcceptChecked(r, x, i)
                 \/ \E v \in Users, active \in BOOLEAN : DisableChecked(r, x, v, active)
                 \/ DeleteChecked(r, x)
        PROVE  Kept({r})
    BY <1>3, CreateStep, InviteStep, AcceptStep, DisableStep, DeleteStep
  <1>4. ASSUME NEW r \in Requests, InsertOrg(r) \/ MailInvitation(r) \/ WriteAcceptance(r)
        PROVE  Kept({r})
    BY <1>4, InsertStep, MailStep, AcceptanceStep
  <1>5. ASSUME NEW r \in Requests,
               CommitOrg(r) \/ CommitInvitation(r) \/ CommitAcceptance(r) \/ CommitStatus(r)
        PROVE  Kept({r})
    BY <1>5, CommitOrgStep, CommitInvitationStep, CommitAcceptanceStep, CommitStatusStep
  <1>6. ASSUME NEW r \in Requests, IntegrityError(r) \/ Abort(r) \/ Fail(r)
        PROVE  Kept({r})
    BY <1>6, RollbackStep DEF IntegrityError, Abort, Fail
  <1>7. Kept({}) \/ \E r \in Requests : Kept({r})
    <2> HIDE DEF Kept
    <2> QED BY <1>1, <1>2, <1>3, <1>4, <1>5, <1>6 DEF Next
  <1>8. CASE Kept({})
    <2>1. {} \in SUBSET Requests /\ \A r, q \in {} : r = q
      OBVIOUS
    <2> QED BY <1>8, <2>1
  <1>9. ASSUME NEW r \in Requests, Kept({r})
        PROVE  \E movers \in SUBSET Requests : Frame(movers) /\ \A p, q \in movers : p = q
    <2>1. {r} \in SUBSET Requests /\ \A p, q \in {r} : p = q
      OBVIOUS
    <2> QED BY <1>9, <2>1
  <1> QED BY <1>7, <1>8, <1>9

LEMMA Stutter ==
  ASSUME TypeOK, RequestsInv, UNCHANGED vars
  PROVE  TypeOK' /\ RequestsInv' /\ Frame({})
  <1>1. UNCHANGED <<slug, memberships, invitations, is_active, token, mailed, pc, txn, stale>>
    BY DEF vars, tables
  <1>2. TypeOK'
    BY <1>1 DEF TypeOK
  <1>3. Frame({})
    BY <1>1 DEF Frame
  <1> QED BY <1>2, <1>3, NobodyMoves

LEMMA RowsNext ==
  ASSUME TypeOK, RequestsInv, RowsInv, [Next]_vars
  PROVE  TypeOK' /\ RequestsInv' /\ RowsInv'
  <1>1. CASE Next
    BY <1>1, NextStep, RowsStep
  <1>2. CASE UNCHANGED vars
    BY <1>2, Stutter, RowsStep
  <1> QED BY <1>1, <1>2

LEMMA InitTypeOK ==
  ASSUME Init
  PROVE  TypeOK /\ RequestsInv
  <1>1. TypeOK
    <2>1. slug \in [OrgIds -> Users \cup Slugs \cup {None}]
      BY DEF Init
    <2>2. \A m \in memberships : m \in Membership /\ m.org \in Users
      BY Offers DEF Init, Membership, OrgIds, Roles
    <2>3. \A o \in Users : o \in OrgIds /\ slug[o] = o /\ o # None
      BY RowNames DEF Init, OrgIds
    <2>4. txn \in [Requests -> Txn]
      BY NoTxnType DEF Init
    <2>5. /\ invitations \in [InvitationIds -> Invitation \cup {None}]
          /\ \A i \in InvitationIds : invitations[i] = None
          /\ is_active \in [Users -> BOOLEAN]
          /\ token \in [Subjects -> [org : OrgIds \cup {None}, role : Roles] \cup {None}]
          /\ \A x \in Subjects : token[x] = None
          /\ pc \in [Requests -> {"idle", "insert", "mail", "write", "commit", "raise"}]
          /\ mailed = {} /\ stale = {}
      BY DEF Init
    <2>6. \A m \in memberships : slug[m.org] # None
      BY <2>2, <2>3
    <2> QED BY <2>1, <2>2, <2>4, <2>5, <2>6 DEF TypeOK, Subjects
  <1>2. \A r \in Requests : pc[r] = "idle" /\ txn[r].op = "none"
    BY DEF Init, NoTxn
  <1>3. RequestsInv
    BY <1>2 DEF RequestsInv, Prepared, StillSo, KeysFree, Apart, Committing
  <1> QED BY <1>1, <1>3

LEMMA InitRows ==
  ASSUME Init
  PROVE  RowsInv
  <1> DEFINE Founder(u) == [user |-> u, org |-> u, role |-> "admin"]
  <1>1. memberships = {Founder(u) : u \in Users} \cup Joined
    BY DEF Init
  <1>2. \A u : Founder(u).user = u /\ Founder(u).org = u /\ Founder(u).role = "admin"
    OBVIOUS
  <1> HIDE DEF Founder
  <1>3. \A i \in InvitationIds : invitations[i] = None
    BY DEF Init
  <1>4. \A o \in OrgIds : slug[o] = IF o \in Users THEN o ELSE None
    BY DEF Init
  <1>5. EveryOrganizationHasAdmin
    BY <1>1, <1>2, <1>4 DEF EveryOrganizationHasAdmin
  <1>6. OneRowPerKey
    <2>1. \A m \in Joined : m.user # m.org /\ \A n \in Joined :
            m.user = n.user /\ m.org = n.org => m = n
      BY Offers
    <2>2. \A m, n \in memberships : m.user = n.user /\ m.org = n.org => m = n
      BY <1>1, <1>2, <2>1
    <2> QED BY <1>4, <2>2 DEF OneRowPerKey
  <1>7. MembershipsAreEarned
    BY <1>1, <1>2, <1>3 DEF MembershipsAreEarned, Invited
  <1>8. InvitationsComeFromAdmins
    BY <1>3 DEF InvitationsComeFromAdmins
  <1>9. TokensMatchMemberships
    BY DEF Init, TokensMatchMemberships, Subjects
  <1> QED BY <1>5, <1>6, <1>7, <1>8, <1>9 DEF RowsInv

\* What every request relies on holds: the handler's checks stay true until it writes,
\* and no two requests insert the same key.
THEOREM TenancyInvariant == Spec => [](TypeOK /\ RequestsInv /\ RowsInv)
  <1> DEFINE Inv == TypeOK /\ RequestsInv /\ RowsInv
  <1>1. Init => Inv
    BY InitTypeOK, InitRows
  <1>2. Inv /\ [Next]_vars => Inv'
    BY RowsNext
  <1> QED BY <1>1, <1>2, PTL DEF Spec

\* Every organization has an administrator from the COMMIT that creates it (create_org).
THEOREM AdminsTheorem == Spec => []EveryOrganizationHasAdmin
  <1>1. RowsInv => EveryOrganizationHasAdmin
    BY DEF RowsInv
  <1> QED BY <1>1, TenancyInvariant, PTL

\* No two organizations have one slug and nobody is twice in one organization.
THEOREM KeysTheorem == Spec => []OneRowPerKey
  <1>1. RowsInv => OneRowPerKey
    BY DEF RowsInv
  <1> QED BY <1>1, TenancyInvariant, PTL

\* Nobody but the founder is in an organization without an accepted invitation of their
\* own, in the role it offered (accept_invitation).
THEOREM EarnedTheorem == Spec => []MembershipsAreEarned
  <1>1. RowsInv => MembershipsAreEarned
    BY DEF RowsInv
  <1> QED BY <1>1, TenancyInvariant, PTL

\* Every invitation was mailed, by an administrator of its organization (invite).
THEOREM InvitationsTheorem == Spec => []InvitationsComeFromAdmins
  <1>1. RowsInv => InvitationsComeFromAdmins
    BY DEF RowsInv
  <1> QED BY <1>1, TenancyInvariant, PTL

\* The role that an account's access token names is the role the account has, for as long as
\* the token lives, whoever minted it (require_scopes; login, refresh, OAuth callback).
THEOREM TokensTheorem == Spec => []TokensMatchMemberships
  <1>1. RowsInv => TokensMatchMemberships
    BY DEF RowsInv
  <1> QED BY <1>1, TenancyInvariant, PTL

\* A deactivated user founds, invites and joins nothing, but for requests that were past
\* get_current_user when it happened.
THEOREM DeactivationTheorem == Spec => DeactivatedUsersDoNotAct
  <1> DEFINE A == \A r \in Requests :
                    CommitOrg(r) \/ CommitInvitation(r) \/ CommitAcceptance(r) =>
                      is_active[txn[r].user] \/ r \in stale
  <1>1. RequestsInv => A
    <2> SUFFICES ASSUME RequestsInv, NEW r \in Requests,
                        Committing(r, {"create", "invite", "accept"})
                 PROVE  is_active[txn[r].user] \/ r \in stale
      BY DEF CommitOrg, CommitInvitation, CommitAcceptance, Committing
    <2> QED BY DEF RequestsInv, StillSo, Committing
  <1>2. (TypeOK /\ RequestsInv /\ RowsInv) /\ [Next]_vars => [A]_vars
    BY <1>1
  <1>3. [][A]_vars => DeactivatedUsersDoNotAct
    BY DEF DeactivatedUsersDoNotAct
  <1> QED BY <1>2, <1>3, TenancyInvariant, PTL DEF Spec

\* The rows, the requests and the tokens keep their types, and no row refers to an
\* organization that does not exist.
THEOREM TenancyTypeOK == Spec => []TypeOK
  BY TenancyInvariant, PTL

=============================================================================
