------------------------- MODULE TenancyRefinement -------------------------
(* Tenancy implements Organizations: what concurrent requests found out, and when their  *)
(* tokens, accounts and invitations ended meanwhile, never shows in who is where.        *)
EXTENDS TenancyProofs

-----------------------------------------------------------------------------
(* The variables of Organizations that are not tables. *)

Offered == [i \in InvitationIds |->
              IF invitations[i] = None THEN None
              ELSE [org |-> invitations[i].org, email |-> invitations[i].email,
                    role |-> invitations[i].role]]
Usable == {i \in InvitationIds : Open(i)}
Actors == {u \in Users : is_active[u] \/ \E r \in stale : Acting(r) /\ txn[r].user = u}

LEMMA Lapses ==
  ASSUME UNCHANGED <<slug, memberships>>, Offered' = Offered,
         Usable' \subseteq Usable, Actors' \subseteq Actors
  PROVE  [Promise!Next]_(Promise!vars)
  BY DEF Promise!Next, Promise!Lapse, Offered, Usable, Actors

\* A request keeps nobody acting who could not act before it.
LEMMA ActorsShrink ==
  ASSUME NEW r \in Requests, TypeOK, is_active' = is_active, stale' \subseteq stale,
         \A q \in Requests \ {r} : txn'[q] = txn[q],
         \/ txn'[r] = txn[r] \/ txn'[r].op \notin {"create", "invite", "accept"}
         \/ is_active[txn'[r].user]
  PROVE  Actors' \subseteq Actors
  <1> SUFFICES ASSUME NEW u \in Users, NEW q \in stale', ~is_active[u],
                      txn'[q].op \in {"create", "invite", "accept"}, txn'[q].user = u
               PROVE  \E p \in stale : Acting(p) /\ txn[p].user = u
    BY DEF Actors, Acting
  <1>1. q \in Requests /\ q \in stale
    BY DEF TypeOK
  <1>2. txn'[q] = txn[q]
    BY <1>1
  <1> QED BY <1>1, <1>2 DEF Acting

\* When r ends nobody but its user ceases to act.
LEMMA ActorEnds ==
  ASSUME NEW r \in Requests, TypeOK, RequestsInv, is_active' = is_active,
         stale' = stale \ {r}, End(r), Acting(r)
  PROVE  LET u == txn[r].user IN u \in Actors /\ Actors' \in {Actors, Actors \ {u}}
  <1> DEFINE u == txn[r].user
  <1>1. u \in Actors
    <2>1. u \in Users /\ (is_active[u] \/ r \in stale)
      BY DEF RequestsInv, Prepared, StillSo, Acting
    <2> QED BY <2>1 DEF Actors
  <1>2. /\ txn'[r].op = "none" /\ \A q \in Requests \ {r} : txn'[q] = txn[q]
    BY DEF End, TypeOK, NoTxn
  <1>3. Actors' \subseteq Actors
    BY <1>2, ActorsShrink
  <1>4. ASSUME NEW v \in Actors, v # txn[r].user
        PROVE  v \in Actors'
    <2>1. CASE is_active[v]
      BY <1>4, <2>1 DEF Actors
    <2>2. ASSUME NEW q \in stale, Acting(q), txn[q].user = v
          PROVE  v \in Actors'
      <3>1. q # r /\ q \in Requests /\ q \in stale'
        BY <1>4, <2>2 DEF TypeOK
      <3>2. txn'[q] = txn[q] /\ v \in Users
        BY <1>2, <1>4, <3>1 DEF Actors
      <3> QED BY <2>2, <3>1, <3>2 DEF Actors, Acting
    <2> QED BY <1>4, <2>1, <2>2 DEF Actors
  <1>5. Actors' = Actors \/ Actors' = Actors \ {txn[r].user}
    BY <1>3, <1>4
  <1> QED BY <1>1, <1>5

\* A request keeps no invitation open that has expired before it.
LEMMA UsableShrinks ==
  ASSUME NEW r \in Requests, invitations' = invitations,
         \A q \in Requests \ {r} : txn'[q] = txn[q],
         \/ txn'[r] = txn[r] \/ txn'[r].op # "accept"
         \/ invitations[txn'[r].invitation].state = "open"
  PROVE  Usable' \subseteq Usable /\ Offered' = Offered
  <1>1. Offered' = Offered
    BY DEF Offered
  <1>2. ASSUME NEW i \in InvitationIds, invitations[i] # None,
               invitations[i].state = "expired", NEW q \in Requests, txn'[q].op = "accept",
               txn'[q].invitation = i
        PROVE  txn[q].op = "accept" /\ txn[q].invitation = i
    BY <1>2
  <1> QED BY <1>1, <1>2 DEF Usable, Open

\* A request that accepts nothing leaves the invitations of the others.
LEMMA UsableStays ==
  ASSUME NEW r \in Requests, txn[r].op # "accept", txn'[r].op # "accept",
         \A q \in Requests \ {r} : txn'[q] = txn[q],
         NEW i \in InvitationIds, invitations'[i] = invitations[i]
  PROVE  Open(i)' <=> Open(i)
  <1>1. \A q \in Requests : txn'[q].op = "accept" /\ txn'[q].invitation = i <=>
                            txn[q].op = "accept" /\ txn[q].invitation = i
    OBVIOUS
  <1> QED BY <1>1 DEF Open

-----------------------------------------------------------------------------
(* Steps that show nothing, or that something lapses. *)

LEMMA BeginRefines ==
  ASSUME TypeOK, NEW r \in Requests, NEW step, NEW t, Begin(r, step, t),
         t.op \in {"create", "invite", "accept"} => is_active[t.user],
         t.op = "accept" => invitations[t.invitation].state = "open"
  PROVE  [Promise!Next]_(Promise!vars)
  BY BeginPlaces, ActorsShrink, UsableShrinks, Lapses

LEMMA ArriveRefines ==
  ASSUME TypeOK, NEW r \in Requests,
         \E x \in Subjects :
           \/ \E s \in Slugs : CreateChecked(r, x, s)
           \/ \E o \in OrgIds, v \in Users, role \in InvitedRoles :
                InviteChecked(r, x, o, v, role)
           \/ \E i \in InvitationIds : AcceptChecked(r, x, i)
           \/ \E v \in Users, active \in BOOLEAN : DisableChecked(r, x, v, active)
           \/ DeleteChecked(r, x)
  PROVE  [Promise!Next]_(Promise!vars)
  <1>1. ASSUME NEW u, NEW s \in Slugs, CreateChecked(r, u, s)
        PROVE  [Promise!Next]_(Promise!vars)
    <2>1. PICK o \in NewOrgs :
            Begin(r, "insert", [NoTxn EXCEPT !.op = "create", !.user = u, !.org = o, !.slug = s])
      BY <1>1 DEF CreateChecked
    <2> DEFINE t == [NoTxn EXCEPT !.op = "create", !.user = u, !.org = o, !.slug = s]
    <2>2. t.op = "create" /\ t.user = u /\ is_active[u] /\ Begin(r, "insert", t)
      BY <1>1, <2>1 DEF NoTxn, CreateChecked, CurrentUser
    <2> HIDE DEF t
    <2> QED BY <2>2, BeginRefines
  <1>2. ASSUME NEW u, NEW v \in Users, NEW o \in OrgIds, NEW role \in InvitedRoles,
               InviteChecked(r, u, o, v, role)
        PROVE  [Promise!Next]_(Promise!vars)
    <2>1. PICK i \in InvitationIds :
            Begin(r, "mail", [NoTxn EXCEPT !.op = "invite", !.user = u, !.org = o, !.role = role,
                                           !.invitation = i, !.other = v])
      BY <1>2 DEF InviteChecked
    <2> DEFINE t == [NoTxn EXCEPT !.op = "invite", !.user = u, !.org = o, !.role = role,
                                  !.invitation = i, !.other = v]
    <2>2. t.op = "invite" /\ t.user = u /\ is_active[u] /\ Begin(r, "mail", t)
      BY <1>2, <2>1 DEF NoTxn, InviteChecked, CurrentUser
    <2> HIDE DEF t
    <2> QED BY <2>2, BeginRefines
  <1>3. ASSUME NEW u, NEW i \in InvitationIds, AcceptChecked(r, u, i)
        PROVE  [Promise!Next]_(Promise!vars)
    <2> DEFINE t == [NoTxn EXCEPT !.op = "accept", !.user = u, !.org = invitations[i].org,
                                  !.invitation = i, !.role = invitations[i].role,
                                  !.writes = ~IsMember(u, invitations[i].org)]
    <2>1. /\ t.op = "accept" /\ t.user = u /\ t.invitation = i /\ is_active[u]
          /\ invitations[i].state = "open" /\ Begin(r, "write", t)
      BY <1>3 DEF NoTxn, AcceptChecked, BeginAcceptance, CurrentUser
    <2> HIDE DEF t
    <2> QED BY <2>1, BeginRefines
  <1>4. ASSUME NEW u, NEW v \in Users, NEW a \in BOOLEAN, DisableChecked(r, u, v, a)
        PROVE  [Promise!Next]_(Promise!vars)
    <2> DEFINE t == [NoTxn EXCEPT !.op = "disable", !.other = v, !.active = a,
                                  !.writes = is_active[v] # a]
    <2>1. t.op = "disable" /\ Begin(r, "commit", t)
      BY <1>4 DEF NoTxn, DisableChecked
    <2> HIDE DEF t
    <2> QED BY <2>1, BeginRefines
  <1>5. ASSUME NEW u, DeleteChecked(r, u)
        PROVE  [Promise!Next]_(Promise!vars)
    <2> DEFINE t == [NoTxn EXCEPT !.op = "delete", !.user = u, !.other = u, !.writes = TRUE]
    <2>1. t.op = "delete" /\ Begin(r, "commit", t)
      BY <1>5 DEF NoTxn, DeleteChecked
    <2> HIDE DEF t
    <2> QED BY <2>1, BeginRefines
  <1> QED BY <1>1, <1>2, <1>3, <1>4, <1>5

LEMMA StatementRefines ==
  ASSUME TypeOK, NEW r \in Requests, InsertOrg(r) \/ MailInvitation(r) \/ WriteAcceptance(r)
  PROVE  [Promise!Next]_(Promise!vars)
  <1>1. UNCHANGED <<slug, memberships, invitations, is_active, txn, stale>>
    BY DEF InsertOrg, MailInvitation, WriteAcceptance, Goto, tables
  <1> QED BY <1>1, ActorsShrink, UsableShrinks, Lapses

LEMMA RollbackRefines ==
  ASSUME TypeOK, NEW r \in Requests, Rollback(r)
  PROVE  [Promise!Next]_(Promise!vars)
  <1>1. /\ UNCHANGED <<slug, memberships, invitations, is_active>>
        /\ stale' = stale \ {r} /\ txn'[r].op = "none"
        /\ \A q \in Requests \ {r} : txn'[q] = txn[q]
    BY DEF Rollback, End, NoTxn, TypeOK, tables
  <1> QED BY <1>1, ActorsShrink, UsableShrinks, Lapses

\* The clock, and logins.
LEMMA ClockRefines ==
  ASSUME TypeOK,
         \/ \E u \in Users, o \in OrgIds \cup {None} : Mint(u, o)
         \/ \E x \in Subjects : OAuthLogin(x) \/ ExpireToken(x)
         \/ \E i \in InvitationIds : ExpireInvitation(i)
         \/ UNCHANGED vars
  PROVE  [Promise!Next]_(Promise!vars)
  <1>1. UNCHANGED <<slug, memberships, is_active, txn, stale>>
    BY DEF ExpireToken, Mint, OAuthLogin, ExpireInvitation, vars, tables
  <1>2. Actors' = Actors
    BY <1>1 DEF Actors, Acting
  <1>3. ASSUME NEW i \in InvitationIds, ExpireInvitation(i)
        PROVE  Usable' \subseteq Usable /\ Offered' = Offered
    <2>1. /\ \A j \in InvitationIds : j # i => invitations'[j] = invitations[j]
          /\ invitations[i] # None /\ invitations[i].state = "open"
          /\ SameOffer(i)
      <3>1. /\ invitations[i] \in Invitation /\ invitations[i].state = "open"
            /\ invitations' = [invitations EXCEPT ![i].state = "expired"]
        BY <1>3 DEF ExpireInvitation, TypeOK
      <3>2. /\ invitations'[i] = [invitations[i] EXCEPT !.state = "expired"]
            /\ invitations'[i] \in Invitation
        BY <3>1 DEF TypeOK, Invitation
      <3> QED BY <3>1, <3>2, NotARow DEF SameOffer, Invitation, TypeOK
    <2>2. Offered' = Offered
      BY <2>1 DEF Offered, SameOffer
    <2>3. \A j \in InvitationIds : Open(j)' => Open(j)
      BY <1>1, <2>1 DEF Open
    <2> QED BY <2>2, <2>3 DEF Usable
  <1>4. CASE invitations' = invitations
    BY <1>1, <1>2, <1>4, Lapses DEF Usable, Open, Offered
  <1>5. CASE \E i \in InvitationIds : ExpireInvitation(i)
    BY <1>1, <1>2, <1>3, <1>5, Lapses
  <1> QED BY <1>4, <1>5 DEF ExpireToken, Mint, OAuthLogin, vars, tables

-----------------------------------------------------------------------------
(* COMMITs: each is the step of Organizations that it is named for. *)

LEMMA CommitOrgRefines ==
  ASSUME TypeOK, RequestsInv, NEW r \in Requests, CommitOrg(r)
  PROVE  [Promise!Next]_(Promise!vars)
  <1>1. PICK u, o, s : u = txn[r].user /\ o = txn[r].org /\ s = txn[r].slug
    OBVIOUS
  <1>2. /\ Committing(r, {"create"}) /\ End(r) /\ stale' = stale \ {r}
        /\ slug' = [slug EXCEPT ![o] = s]
        /\ memberships' = memberships \cup {[user |-> u, org |-> o, role |-> "admin"]}
        /\ UNCHANGED <<invitations, is_active>>
    BY <1>1 DEF CommitOrg
  <1>3. /\ u \in Users /\ o \in NewOrgs /\ s \in Slugs /\ slug[o] = None
        /\ \A p \in OrgIds : slug[p] # s
    BY <1>1, <1>2 DEF RequestsInv, Prepared, StillSo, KeysFree, Committing
  <1>4. u \in Actors /\ Actors' \in {Actors, Actors \ {u}}
    BY <1>1, <1>2, ActorEnds DEF Committing, Acting
  <1>5. Offered' = Offered /\ Usable' = Usable
    <2>1. txn[r].op # "accept" /\ txn'[r].op # "accept" /\ \A q \in Requests \ {r} : txn'[q] = txn[q]
      BY <1>2 DEF Committing, End, NoTxn, TypeOK
    <2>2. \A i \in InvitationIds : Open(i)' <=> Open(i)
      BY <1>2, <2>1, UsableStays
    <2> QED BY <1>2, <2>2 DEF Offered, Usable
  <1>6. Promise!Found(u, o, s)
    BY <1>2, <1>3, <1>4, <1>5
    DEF Promise!Found, Promise!Acts, Promise!OrgIds, OrgIds, Offered, Usable, Actors
  <1> QED BY <1>3, <1>6 DEF Promise!Next

LEMMA CommitInvitationRefines ==
  ASSUME TypeOK, RequestsInv, NEW r \in Requests, CommitInvitation(r)
  PROVE  [Promise!Next]_(Promise!vars)
  <1>1. PICK u, i, o, v, role : /\ u = txn[r].user /\ i = txn[r].invitation /\ o = txn[r].org
                                /\ v = txn[r].other /\ role = txn[r].role
    OBVIOUS
  <1>2. /\ Committing(r, {"invite"}) /\ End(r) /\ stale' = stale \ {r}
        /\ invitations' = [invitations EXCEPT ![i] =
             [org |-> o, inviter |-> u, email |-> v, role |-> role, state |-> "open"]]
        /\ UNCHANGED <<slug, memberships, is_active>>
    BY <1>1 DEF CommitInvitation
  <1>3. /\ u \in Users /\ i \in InvitationIds /\ o \in OrgIds /\ v \in Users /\ role \in Roles
        /\ invitations[i] = None
        /\ [user |-> u, org |-> o, role |-> "admin"] \in memberships
    BY <1>1, <1>2 DEF RequestsInv, Prepared, StillSo, Committing
  <1>4. u \in Actors /\ Actors' \in {Actors, Actors \ {u}}
    BY <1>1, <1>2, ActorEnds DEF Committing, Acting
  <1> DEFINE row == [org |-> o, inviter |-> u, email |-> v, role |-> role, state |-> "open"]
  <1>5. /\ row # None /\ row.state = "open"
        /\ row.org = o /\ row.email = v /\ row.role = role
    <2>1. row \in Invitation
      BY <1>3 DEF Invitation
    <2> QED BY <2>1, NotARow
  <1>6. invitations'[i] = row /\ \A j \in InvitationIds : j # i => invitations'[j] = invitations[j]
    BY <1>2, <1>3 DEF TypeOK
  <1> HIDE DEF row
  <1>7. Usable' = Usable \cup {i}
    <2>1. txn[r].op # "accept" /\ txn'[r].op # "accept" /\ \A q \in Requests \ {r} : txn'[q] = txn[q]
      BY <1>2 DEF Committing, End, NoTxn, TypeOK
    <2>2. \A j \in InvitationIds : j # i => (Open(j)' <=> Open(j))
      BY <1>6, <2>1, UsableStays
    <2>3. Open(i)'
      BY <1>5, <1>6 DEF Open
    <2> QED BY <1>3, <2>2, <2>3 DEF Usable
  <1>8. /\ Offered[i] = None
        /\ Offered' = [Offered EXCEPT ![i] = [org |-> o, email |-> v, role |-> role]]
    BY <1>3, <1>5, <1>6 DEF Offered
  <1>9. Promise!Invite(u, i, o, v, role)
    BY <1>2, <1>3, <1>4, <1>7, <1>8 DEF Promise!Invite, Promise!Acts, Offered, Usable, Actors
  <1> QED BY <1>3, <1>9 DEF Promise!Next, Promise!OrgIds, OrgIds

\* Only the first of several acceptances of one invitation shows.
LEMMA CommitAcceptanceRefines ==
  ASSUME TypeOK, RequestsInv, RowsInv, NEW r \in Requests, CommitAcceptance(r)
  PROVE  [Promise!Next]_(Promise!vars)
  <1>1. PICK u, i, o, role : /\ u = txn[r].user /\ i = txn[r].invitation /\ o = txn[r].org
                             /\ role = txn[r].role
    OBVIOUS
  <1>2. /\ Committing(r, {"accept"}) /\ End(r) /\ stale' = stale \ {r}
        /\ memberships' = memberships \cup
             {n \in Membership : txn[r].writes /\ n = [user |-> u, org |-> o, role |-> role]}
        /\ invitations' = [invitations EXCEPT ![i].state = "accepted"]
        /\ UNCHANGED <<slug, is_active>>
    BY <1>1 DEF CommitAcceptance
  <1>3. /\ u \in Users /\ i \in InvitationIds /\ o \in OrgIds /\ role \in Roles
        /\ invitations[i] # None /\ invitations[i].org = o /\ invitations[i].email = u
        /\ invitations[i].role = role /\ (txn[r].writes <=> ~IsMember(u, o))
    BY <1>1, <1>2 DEF RequestsInv, Prepared, StillSo, KeysFree, Committing
  <1>4. u \in Actors /\ Actors' \in {Actors, Actors \ {u}}
    BY <1>1, <1>2, ActorEnds DEF Committing, Acting
  <1>5. /\ txn'[r].op = "none" /\ \A q \in Requests \ {r} : txn'[q] = txn[q]
        /\ txn[r].op = "accept" /\ txn[r].invitation = i
    BY <1>1, <1>2 DEF Committing, End, NoTxn, TypeOK
  <1>6. /\ SameOffer(i) /\ invitations'[i].state = "accepted"
        /\ \A j \in InvitationIds : j # i => invitations'[j] = invitations[j]
    <2>1. /\ invitations[i] \in Invitation /\ invitations'[i] \in Invitation
          /\ invitations'[i] = [invitations[i] EXCEPT !.state = "accepted"]
          /\ \A j \in InvitationIds : j # i => invitations'[j] = invitations[j]
      BY <1>2, <1>3 DEF TypeOK, Invitation
    <2> QED BY <1>3, <2>1, NotARow DEF SameOffer, Invitation
  <1>7. Offered' = Offered
    BY <1>6 DEF Offered, SameOffer
  <1>8. Usable' = Usable \ {i}
    <2>1. ~Open(i)'
      BY <1>6 DEF Open
    <2>2. ASSUME NEW j \in InvitationIds, j # i
          PROVE  Open(j)' <=> Open(j)
      <3>1. \A q \in Requests : txn'[q].op = "accept" /\ txn'[q].invitation = j <=>
                                txn[q].op = "accept" /\ txn[q].invitation = j
        BY <1>5, <2>2
      <3> QED BY <1>6, <2>2, <3>1 DEF Open
    <2> QED BY <2>1, <2>2 DEF Usable
  <1> DEFINE m == [user |-> u, org |-> o, role |-> role]
  <1>9. /\ m \in Membership /\ m.user = u /\ m.org = o
        /\ m = [user |-> Offered[i].email, org |-> Offered[i].org, role |-> Offered[i].role]
    BY <1>3 DEF Membership, Offered
  <1>10. memberships' = IF IsMember(u, o) THEN memberships ELSE memberships \cup {m}
    BY <1>2, <1>3, <1>9
  <1> HIDE DEF m
  <1>11. CASE i \in Usable
    <2>1. Promise!Join(i)
      <3>1. memberships' = IF \E n \in memberships : n.user = m.user /\ n.org = m.org
                           THEN memberships ELSE memberships \cup {m}
        BY <1>9, <1>10 DEF IsMember
      <3> QED BY <1>2, <1>4, <1>7, <1>8, <1>9, <1>11, <3>1
              DEF Promise!Join, Promise!Acts, Offered, Usable, Actors
    <2> QED BY <1>3, <2>1 DEF Promise!Next
  <1>12. CASE i \notin Usable
    <2>1. invitations[i].state = "accepted"
      <3>1. invitations[i].state \in {"open", "expired", "accepted"}
        BY <1>3 DEF TypeOK, Invitation
      <3>2. ~Open(i)
        BY <1>3, <1>12 DEF Usable
      <3> QED BY <1>3, <1>5, <3>1, <3>2 DEF Open
    <2>2. memberships' = memberships
      BY <1>3, <1>10, <2>1 DEF RowsInv, MembershipsAreEarned
    <2> QED BY <1>2, <1>4, <1>7, <1>8, <2>2, Lapses
  <1> QED BY <1>11, <1>12

LEMMA CommitStatusRefines ==
  ASSUME TypeOK, RequestsInv, NEW r \in Requests, CommitStatus(r)
  PROVE  [Promise!Next]_(Promise!vars)
  <1>1. PICK v : v = txn[r].other
    OBVIOUS
  <1>2. /\ Committing(r, {"disable", "delete"}) /\ End(r)
        /\ is_active' = [is_active EXCEPT ![v] = IF txn[r].writes THEN txn[r].active ELSE @]
        /\ stale' = IF is_active'[v] THEN stale \ {r}
                    ELSE (stale \cup {q \in Requests : txn[q].user = v}) \ {r}
        /\ UNCHANGED <<slug, memberships, invitations>>
    BY <1>1 DEF CommitStatus
  <1>3. /\ v \in Users /\ ~Acting(r) /\ is_active'[v] \in BOOLEAN
        /\ \A w \in Users : w # v => is_active'[w] = is_active[w]
    BY <1>1, <1>2 DEF RequestsInv, Prepared, Committing, Acting, TypeOK, Txn
  <1>4. /\ txn'[r].op = "none" /\ \A q \in Requests \ {r} : txn'[q] = txn[q]
    BY <1>2 DEF End, NoTxn, TypeOK
  <1>5. Offered' = Offered /\ Usable' = Usable
    <2>1. txn[r].op # "accept" /\ txn'[r].op # "accept"
      BY <1>2, <1>4 DEF Committing
    <2>2. \A i \in InvitationIds : Open(i)' <=> Open(i)
      BY <1>2, <1>4, <2>1, UsableStays
    <2> QED BY <1>2, <2>2 DEF Offered, Usable
  <1>6. \A q \in Requests : txn'[q].op \in {"create", "invite", "accept"} =>
          q # r /\ txn'[q] = txn[q]
    BY <1>4
  <1>7. CASE is_active'[v]
    <2>1. stale' = stale \ {r}
      BY <1>2, <1>7
    <2>2. Actors' \subseteq Actors \cup {v}
      <3> SUFFICES ASSUME NEW w \in Actors', w # v PROVE w \in Actors
        OBVIOUS
      <3>1. CASE is_active'[w]
        BY <1>3, <3>1 DEF Actors
      <3>2. CASE \E q \in stale' : Acting(q)' /\ txn'[q].user = w
        BY <1>6, <2>1, <3>2 DEF Actors, Acting, TypeOK
      <3> QED BY <3>1, <3>2 DEF Actors
    <2>3. Actors \cup {v} \subseteq Actors'
      <3> SUFFICES ASSUME NEW w \in Actors, w # v PROVE w \in Actors'
        BY <1>3, <1>7 DEF Actors
      <3>1. CASE is_active[w]
        BY <1>3, <3>1 DEF Actors
      <3>2. ASSUME NEW q \in stale, Acting(q), txn[q].user = w
            PROVE  w \in Actors'
        <4>1. q # r /\ q \in Requests /\ w \in Users
          BY <1>3, <3>2 DEF TypeOK, Actors
        <4> QED BY <1>4, <2>1, <3>2, <4>1 DEF Actors, Acting
      <3> QED BY <3>1, <3>2 DEF Actors
    <2>4. Promise!Reactivate(v)
      BY <1>2, <1>5, <2>2, <2>3 DEF Promise!Reactivate, Offered, Usable, Actors
    <2> QED BY <1>3, <2>4 DEF Promise!Next
  <1>8. CASE ~is_active'[v]
    <2>1. Actors' \subseteq Actors
      <3> SUFFICES ASSUME NEW w \in Actors' PROVE w \in Actors
        OBVIOUS
      <3>1. w \in Users
        BY DEF Actors
      <3>2. CASE is_active'[w]
        BY <1>3, <1>8, <3>1, <3>2 DEF Actors
      <3>3. ASSUME NEW q \in stale', Acting(q)', txn'[q].user = w
            PROVE  w \in Actors
        <4>1. q \in Requests /\ q # r /\ txn'[q] = txn[q] /\ (q \in stale \/ txn[q].user = v)
          BY <1>2, <1>6, <1>8, <3>3 DEF Acting, TypeOK
        <4>2. is_active[w] \/ q \in stale
          BY <3>3, <4>1 DEF Acting, RequestsInv, StillSo
        <4> QED BY <3>1, <3>3, <4>1, <4>2 DEF Actors, Acting
      <3> QED BY <3>2, <3>3 DEF Actors
    <2> QED BY <1>2, <1>5, <2>1, Lapses
  <1> QED BY <1>7, <1>8

-----------------------------------------------------------------------------
LEMMA InitRefines == Init => Promise!Init
  <1> SUFFICES ASSUME Init PROVE Promise!Init
    OBVIOUS
  <1>1. \A i \in InvitationIds : invitations[i] = None
    BY DEF Init
  <1>2. Usable = {} /\ Actors = Users /\ Offered = [i \in InvitationIds |-> None]
    BY <1>1 DEF Init, Usable, Open, Actors, Offered
  <1> QED BY <1>2 DEF Init, Promise!Init, Promise!OrgIds, OrgIds, Usable, Actors, Offered

LEMMA NextRefines ==
  ASSUME TypeOK, RequestsInv, RowsInv, [Next]_vars
  PROVE  [Promise!Next]_(Promise!vars)
  <1>1. ASSUME NEW r \in Requests, IntegrityError(r) \/ Abort(r) \/ Fail(r)
        PROVE  [Promise!Next]_(Promise!vars)
    BY <1>1, RollbackRefines DEF IntegrityError, Abort, Fail
  <1> HIDE DEF Promise!Next, Promise!vars
  <1> QED BY <1>1, ClockRefines, ArriveRefines, StatementRefines, CommitOrgRefines,
             CommitInvitationRefines, CommitAcceptanceRefines, CommitStatusRefines DEF Next

\* Whatever the instance, and however requests interleave, tokens expire and accounts are
\* disabled meanwhile, the tables change only in steps of Organizations.
THEOREM TenancyRefinesOrganizations == Spec => ImplementsOrganizations
  <1>1. TypeOK /\ RequestsInv /\ RowsInv /\ [Next]_vars => [Promise!Next]_(Promise!vars)
    BY NextRefines
  <1> QED BY <1>1, InitRefines, TenancyInvariant, PTL
          DEF Spec, ImplementsOrganizations, Promise!Spec

=============================================================================
