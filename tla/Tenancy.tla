------------------------------ MODULE Tenancy ------------------------------
(***************************************************************************)
(* Who may do what in which organization: OrgService.create_org, invite    *)
(* and accept_invitation, the routes that disable or deactivate a user,    *)
(* and the access tokens and dependencies that guard all of them.          *)
(*                                                                         *)
(* A request first runs its dependencies and the SELECTs of its handler;   *)
(* what it found there may be stale when it writes, and the unique indexes *)
(* on slugs and on (user, organization) decide.  An access token is proof  *)
(* of what login, refresh or the OAuth callback found; nobody looks at the *)
(* membership again, except where get_current_membership does.             *)
(***************************************************************************)
EXTENDS Integers, FiniteSets

CONSTANTS
  Users,             \* accounts; also the names of their default organizations
  Visitors,          \* people without an account who log in with an OAuth provider
  NewOrgs,           \* ids for organizations to be created
  Slugs,             \* slugs for organizations to be created
  InvitationIds,     \* ids of invitations rows
  InvitedRoles,      \* the roles that invitations offer
  Joined,            \* memberships from invitations accepted before the model starts
  Requests,          \* request slots: how many requests may run at once
  None               \* no value (no row, no token, an unset variable)

Roles == {"admin", "member", "readonly"}

ASSUME RowNames ==
  /\ Users \cap NewOrgs = {} /\ Users \cap Slugs = {}
  /\ Visitors \cap Users = {}
  /\ None \notin Users \cup NewOrgs \cup Slugs \cup InvitationIds
ASSUME Offers ==
  /\ InvitedRoles \subseteq Roles
  /\ Joined \subseteq [user : Users, org : Users, role : Roles]
  /\ \A m \in Joined : m.user # m.org /\ \A n \in Joined :
       m.user = n.user /\ m.org = n.org => m = n

VARIABLES
  slug,           \* organizations: the slug of a row, None where there is no row
  memberships,    \* the rows [user, org, role]
  invitations,    \* the row of each id, or None
  is_active,      \* users.is_active
  token,          \* the access token a user or visitor holds, or None
  mailed,         \* invitations that the mail server accepted
  pc,             \* the statement a request executes next
  txn,            \* what a request's handler knows
  stale           \* history: requests whose caller was deactivated after they began

tables == <<slug, memberships, invitations, is_active>>
vars == <<tables, token, mailed, pc, txn, stale>>

-----------------------------------------------------------------------------
OrgIds == Users \cup NewOrgs

Subjects == Users \cup Visitors

Membership == [user : Users, org : OrgIds, role : Roles]

\* An invitation goes to an address; an address stands for the user who owns it.
Invitation == [org : OrgIds, inviter : Users, email : Users, role : Roles,
               state : {"open", "expired", "accepted"}]

ASSUME NotARow == None \notin Invitation

ROLE_SCOPES ==
  [admin    |-> {"profile:read", "profile:write", "orgs:read", "orgs:write",
                 "invitations:write", "users:read", "users:write",
                 "admin:users:read", "admin:users:write"},
   member   |-> {"profile:read", "profile:write", "orgs:read", "users:read"},
   readonly |-> {"profile:read", "orgs:read", "users:read"}]

\* A request by `user`, unless the route takes any token; `other` is the user it invites,
\* disables or enables.
Txn == [op : {"none", "create", "invite", "accept", "disable", "delete"},
        user : Users \cup {None}, org : OrgIds \cup {None}, slug : Slugs \cup {None},
        invitation : InvitationIds \cup {None}, other : Users \cup {None},
        role : Roles \cup {None}, active : BOOLEAN,
        writes : BOOLEAN]   \* inserts a membership, or changes is_active

NoTxn == [op |-> "none", user |-> None, org |-> None, slug |-> None, invitation |-> None,
          other |-> None, role |-> None, active |-> FALSE, writes |-> FALSE]

TypeOK ==
  /\ slug \in [OrgIds -> Users \cup Slugs \cup {None}]
  /\ memberships \subseteq Membership
  /\ invitations \in [InvitationIds -> Invitation \cup {None}]
  /\ is_active \in [Users -> BOOLEAN]
  /\ token \in [Subjects -> [org : OrgIds \cup {None}, role : Roles] \cup {None}]
  /\ \A u \in Users : token[u] # None => token[u].org \in OrgIds
  /\ mailed \subseteq InvitationIds
  /\ pc \in [Requests -> {"idle", "insert", "mail", "write", "commit", "raise"}]
  /\ txn \in [Requests -> Txn]
  /\ stale \subseteq Requests
  \* the foreign keys
  /\ \A m \in memberships : slug[m.org] # None
  /\ \A i \in InvitationIds : invitations[i] # None => slug[invitations[i].org] # None

-----------------------------------------------------------------------------
(* Rows, locks and ids. *)

MembershipsOf(u) == {m \in memberships : m.user = u}
IsMember(u, o) == \E m \in memberships : m.user = u /\ m.org = o

\* The rows and index entries that the transaction of r has locked.
Held(r) ==
  CASE pc[r] = "commit" /\ txn[r].op = "create" -> {<<txn[r].slug>>}
    [] pc[r] = "commit" /\ txn[r].op = "accept" ->
         {<<txn[r].invitation>>} \cup
         (IF txn[r].writes THEN {<<txn[r].user, txn[r].org>>} ELSE {})
    [] OTHER -> {}

Free(r, x) == \A q \in Requests \ {r} : x \notin Held(q)

\* Ids are drawn at random: any that no row, no mail and no request has.
NewOrg(o) == slug[o] = None /\ \A q \in Requests : txn[q].org # o
NewInvitation(i) ==
  invitations[i] = None /\ i \notin mailed /\ \A q \in Requests : txn[q].invitation # i

\* Fault: an index that is not unique.
IndexIgnored(t) == FALSE

\* The unique indexes refuse what request t inserts.
IndexRefuses(t) ==
  \/ t.op = "create" /\ \E o \in OrgIds : slug[o] = t.slug
  \/ t.op = "accept" /\ t.writes /\ IsMember(t.user, t.org)

-----------------------------------------------------------------------------
\* Registration made every user the administrator of an organization of their own.
Init ==
  /\ slug = [o \in OrgIds |-> IF o \in Users THEN o ELSE None]
  /\ memberships = {[user |-> u, org |-> u, role |-> "admin"] : u \in Users} \cup Joined
  /\ invitations = [i \in InvitationIds |-> None]
  /\ is_active = [u \in Users |-> TRUE]
  /\ token = [x \in Subjects |-> None]
  /\ mailed = {} /\ stale = {}
  /\ pc = [r \in Requests |-> "idle"]
  /\ txn = [r \in Requests |-> NoTxn]

-----------------------------------------------------------------------------
(* Access tokens. *)

\* Fault: a user whose organization is not clear gets a token for none.
AnyMembership(u, o) ==
  LET rows == {m \in MembershipsOf(u) : o \in {None, m.org}}
  IN  IF Cardinality(rows) = 1 THEN rows
      ELSE {[user |-> u, org |-> None, role |-> "readonly"]}

\* scalar_one_or_none over the memberships of u, of one organization if o names it:
\* it raises where there are two.
ResolveMembership(u, o) ==
  LET rows == {m \in MembershipsOf(u) : o \in {None, m.org}}
  IN  IF Cardinality(rows) = 1 THEN rows ELSE {}

\* login and refresh put the membership they resolved into the token; neither looks at
\* is_active.
Mint(u, o) ==
  /\ \E m \in ResolveMembership(u, o) :
       token' = [token EXCEPT ![u] = [org |-> m.org, role |-> m.role]]
  /\ UNCHANGED <<tables, mailed, pc, txn, stale>>

\* The OAuth callback gives an account what its only membership says.  For a visitor it adds
\* a user, an organization and its administrator, which the route never commits: the token
\* names an organization that nobody ever finds.
OAuthLogin(x) ==
  /\ \/ \E m \in ResolveMembership(x, None) :
          token' = [token EXCEPT ![x] = [org |-> m.org, role |-> m.role]]
     \/ x \in Visitors /\ token' = [token EXCEPT ![x] = [org |-> None, role |-> "admin"]]
  /\ UNCHANGED <<tables, mailed, pc, txn, stale>>

\* The clock passes exp.
ExpireToken(x) ==
  /\ token[x] # None
  /\ token' = [token EXCEPT ![x] = None]
  /\ UNCHANGED <<tables, mailed, pc, txn, stale>>

\* The clock passes expires_at.
ExpireInvitation(i) ==
  /\ invitations[i] # None /\ invitations[i].state = "open"
  /\ invitations' = [invitations EXCEPT ![i].state = "expired"]
  /\ UNCHANGED <<slug, memberships, is_active, token, mailed, pc, txn, stale>>

\* require_scopes
HasScope(x, scope) == token[x] # None /\ scope \in ROLE_SCOPES[token[x].role]

\* Fault: get_current_user does not look at is_active.
TokenSuffices(x) == x \in Users /\ token[x] # None

\* get_current_user: the row of the subject, which a visitor has not.
CurrentUser(x) == x \in Users /\ token[x] # None /\ is_active[x]

\* get_current_membership: of the organization in X-Org-Id, whatever the token says.
CurrentMembership(u, o) == {m \in MembershipsOf(u) : m.org = o}

-----------------------------------------------------------------------------
(* The first step of a request: its dependencies and SELECTs, or a refusal. *)

Begin(r, step, t) ==
  /\ pc[r] = "idle"
  /\ pc' = [pc EXCEPT ![r] = step]
  /\ txn' = [txn EXCEPT ![r] = t]
  /\ UNCHANGED <<tables, token, mailed, stale>>

CreateChecked(r, u, s) ==
  /\ CurrentUser(u) /\ HasScope(u, "orgs:write")
  /\ \A o \in OrgIds : slug[o] # s
  /\ \E o \in NewOrgs :
       /\ NewOrg(o)
       /\ Begin(r, "insert", [NoTxn EXCEPT !.op = "create", !.user = u, !.org = o, !.slug = s])

\* Fault: the route leaves the role to require_scopes.
InviteByMember(r, u, o, v, role) ==
  /\ CurrentUser(u) /\ HasScope(u, "invitations:write") /\ CurrentMembership(u, o) # {}
  /\ \E i \in InvitationIds :
       /\ NewInvitation(i)
       /\ Begin(r, "mail", [NoTxn EXCEPT !.op = "invite", !.user = u, !.org = o, !.role = role,
                                         !.invitation = i, !.other = v])

\* The INSERT of invite is seen by nobody until the COMMIT of the route.
InviteChecked(r, u, o, v, role) ==
  /\ CurrentUser(u) /\ HasScope(u, "invitations:write")
  /\ \E m \in CurrentMembership(u, o) : m.role = "admin"
  /\ \E i \in InvitationIds :
       /\ NewInvitation(i)
       /\ Begin(r, "mail", [NoTxn EXCEPT !.op = "invite", !.user = u, !.org = o, !.role = role,
                                         !.invitation = i, !.other = v])

BeginAcceptance(r, u, i) ==
  LET o == invitations[i].org IN
  Begin(r, "write", [NoTxn EXCEPT !.op = "accept", !.user = u, !.org = o, !.invitation = i,
                                  !.role = invitations[i].role, !.writes = ~IsMember(u, o)])

\* Fault: the address of the invitation is not compared with the caller's.
AcceptAnyAddress(r, u, i) ==
  /\ CurrentUser(u) /\ i \in mailed /\ invitations[i] # None
  /\ invitations[i].state = "open"
  /\ BeginAcceptance(r, u, i)

\* Fault: expires_at is not compared with the clock.
AcceptExpired(r, u, i) ==
  /\ CurrentUser(u) /\ i \in mailed /\ invitations[i] # None
  /\ invitations[i].state # "accepted" /\ invitations[i].email = u
  /\ BeginAcceptance(r, u, i)

\* Whoever has the mail may present its token, but only for the address it went to.
AcceptChecked(r, u, i) ==
  /\ CurrentUser(u) /\ i \in mailed /\ invitations[i] # None
  /\ invitations[i].state = "open" /\ invitations[i].email = u
  /\ BeginAcceptance(r, u, i)

\* disable_user asks for a scope only, of any token, and updates what differs from the row
\* it loaded.
DisableChecked(r, x, v, active) ==
  /\ HasScope(x, "admin:users:write")
  /\ Begin(r, "commit", [NoTxn EXCEPT !.op = "disable", !.other = v, !.active = active,
                                      !.writes = is_active[v] # active])

DeleteChecked(r, u) ==
  /\ CurrentUser(u)
  /\ Begin(r, "commit", [NoTxn EXCEPT !.op = "delete", !.user = u, !.other = u, !.writes = TRUE])

-----------------------------------------------------------------------------
(* The statements of a request in flight. *)

Goto(r, step) ==
  /\ pc' = [pc EXCEPT ![r] = step]
  /\ UNCHANGED <<tables, token, txn, stale>>

\* An INSERT waits for the transactions that hold its index entry.
InsertOrg(r) ==
  /\ pc[r] = "insert" /\ Free(r, <<txn[r].slug>>) /\ ~IndexRefuses(txn[r])
  /\ Goto(r, "commit") /\ UNCHANGED mailed

\* The mail server takes the invitation, or it raises; what it raises may be a timeout
\* after it took the mail.
MailInvitation(r) ==
  /\ pc[r] = "mail"
  /\ \/ mailed' = mailed \cup {txn[r].invitation} /\ Goto(r, "commit")
     \/ mailed' \in {mailed, mailed \cup {txn[r].invitation}} /\ Goto(r, "raise")

\* The flush by the SELECT of the organization: the membership and accepted_at.
WriteAcceptance(r) ==
  LET t == txn[r] IN
  /\ pc[r] = "write" /\ Free(r, <<t.invitation>>)
  /\ t.writes => Free(r, <<t.user, t.org>>)
  /\ ~IndexRefuses(t)
  /\ Goto(r, "commit") /\ UNCHANGED mailed

-----------------------------------------------------------------------------
(* How a request ends. *)

End(r) ==
  /\ pc' = [pc EXCEPT ![r] = "idle"]
  /\ txn' = [txn EXCEPT ![r] = NoTxn]

Committing(r, ops) == pc[r] = "commit" /\ txn[r].op \in ops

\* Fault: the founder becomes a member like any other.
CommitOrgWithMember(r) ==
  LET t == txn[r] IN
  /\ Committing(r, {"create"})
  /\ slug' = [slug EXCEPT ![t.org] = t.slug]
  /\ memberships' = memberships \cup {[user |-> t.user, org |-> t.org, role |-> "member"]}
  /\ End(r) /\ stale' = stale \ {r}
  /\ UNCHANGED <<invitations, is_active, token, mailed>>

CommitOrg(r) ==
  LET t == txn[r] IN
  /\ Committing(r, {"create"})
  /\ slug' = [slug EXCEPT ![t.org] = t.slug]
  /\ memberships' = memberships \cup {[user |-> t.user, org |-> t.org, role |-> "admin"]}
  /\ End(r) /\ stale' = stale \ {r}
  /\ UNCHANGED <<invitations, is_active, token, mailed>>

CommitInvitation(r) ==
  LET t == txn[r] IN
  /\ Committing(r, {"invite"})
  /\ invitations' = [invitations EXCEPT ![t.invitation] =
                       [org |-> t.org, inviter |-> t.user, email |-> t.other, role |-> t.role,
                        state |-> "open"]]
  /\ End(r) /\ stale' = stale \ {r}
  /\ UNCHANGED <<slug, memberships, is_active, token, mailed>>

\* Fault: an invitation changes the role of someone who is a member already.
CommitNewRole(r) ==
  LET t == txn[r] IN
  /\ Committing(r, {"accept"})
  /\ memberships' = {m \in memberships : m.user # t.user \/ m.org # t.org}
                      \cup {[user |-> t.user, org |-> t.org, role |-> t.role]}
  /\ invitations' = [invitations EXCEPT ![t.invitation].state = "accepted"]
  /\ End(r) /\ stale' = stale \ {r}
  /\ UNCHANGED <<slug, is_active, token, mailed>>

CommitAcceptance(r) ==
  LET t == txn[r] IN
  /\ Committing(r, {"accept"})
  /\ memberships' = memberships \cup
       {m \in Membership : t.writes /\ m = [user |-> t.user, org |-> t.org, role |-> t.role]}
  /\ invitations' = [invitations EXCEPT ![t.invitation].state = "accepted"]
  /\ End(r) /\ stale' = stale \ {r}
  /\ UNCHANGED <<slug, is_active, token, mailed>>

CommitStatus(r) ==
  LET t == txn[r]
      v == t.other
  IN
  /\ Committing(r, {"disable", "delete"})
  /\ is_active' = [is_active EXCEPT ![v] = IF t.writes THEN t.active ELSE @]
  /\ stale' = IF is_active'[v] THEN stale \ {r}
              ELSE (stale \cup {q \in Requests : txn[q].user = v}) \ {r}
  /\ End(r)
  /\ UNCHANGED <<slug, memberships, invitations, token, mailed>>

Rollback(r) ==
  /\ End(r) /\ stale' = stale \ {r}
  /\ UNCHANGED <<tables, token, mailed>>

\* A unique index refuses the statement, whatever the handler had checked.
IntegrityError(r) ==
  LET t == txn[r] IN
  /\ \/ pc[r] = "insert" /\ Free(r, <<t.slug>>)
     \/ pc[r] = "write" /\ Free(r, <<t.user, t.org>>)
  /\ IndexRefuses(t)
  /\ Rollback(r)

\* A handler that raised.
Abort(r) == pc[r] = "raise" /\ Rollback(r)

\* The worker or its database connection dies between two statements.
Fail(r) == pc[r] \notin {"idle", "raise"} /\ Rollback(r)

-----------------------------------------------------------------------------
Next ==
  \/ \E u \in Users, o \in OrgIds \cup {None} : Mint(u, o)
  \/ \E x \in Subjects : OAuthLogin(x) \/ ExpireToken(x)
  \/ \E i \in InvitationIds : ExpireInvitation(i)
  \/ \E r \in Requests :
       \/ \E x \in Subjects :
            \/ \E s \in Slugs : CreateChecked(r, x, s)
            \/ \E o \in OrgIds, v \in Users, role \in InvitedRoles :
                 InviteChecked(r, x, o, v, role)
            \/ \E i \in InvitationIds : AcceptChecked(r, x, i)
            \/ \E v \in Users, active \in BOOLEAN : DisableChecked(r, x, v, active)
            \/ DeleteChecked(r, x)
       \/ InsertOrg(r) \/ MailInvitation(r) \/ WriteAcceptance(r)
       \/ CommitOrg(r) \/ CommitInvitation(r) \/ CommitAcceptance(r) \/ CommitStatus(r)
       \/ IntegrityError(r) \/ Abort(r) \/ Fail(r)

Spec == Init /\ [][Next]_vars

-----------------------------------------------------------------------------
(* Safety. *)

\* An organization has an administrator from its first moment on: create_org inserts
\* both in one transaction, and accepting an invitation takes no role away.
EveryOrganizationHasAdmin ==
  \A o \in OrgIds : slug[o] # None => \E m \in memberships : m.org = o /\ m.role = "admin"

\* No two organizations share a slug and no user is twice in one organization, although
\* create_org and accept_invitation look before others have committed.
OneRowPerKey ==
  /\ \A o, p \in OrgIds : o # p /\ slug[o] # None => slug[o] # slug[p]
  /\ \A m, n \in memberships : m.user = n.user /\ m.org = n.org => m = n

\* m comes from an invitation of its user, in its role, that was accepted.
Invited(m) ==
  \/ m \in Joined
  \/ \E i \in InvitationIds :
       /\ invitations[i] # None /\ invitations[i].state = "accepted"
       /\ invitations[i].email = m.user /\ invitations[i].org = m.org
       /\ invitations[i].role = m.role

\* Only the founder is in an organization without an invitation to their address, and
\* an invitation is marked accepted together with the membership it gives.
MembershipsAreEarned ==
  /\ \A m, n \in memberships : m.org = n.org /\ ~Invited(m) /\ ~Invited(n) => m = n
  /\ \A i \in InvitationIds :
       invitations[i] # None /\ invitations[i].state = "accepted" =>
         IsMember(invitations[i].email, invitations[i].org)

\* An invitation that exists was sent, and its sender administers the organization it
\* is for: X-Org-Id may name another organization than the token, whose scopes are
\* those of another role.
InvitationsComeFromAdmins ==
  \A i \in InvitationIds : invitations[i] # None =>
    /\ i \in mailed
    /\ \E m \in memberships : /\ m.user = invitations[i].inviter
                               /\ m.org = invitations[i].org /\ m.role = "admin"

\* What require_scopes trusts of an account is still true: as long as a token lives its user
\* has, in its organization, the role that the token names, whether login, refresh or the
\* OAuth callback minted it.  (A visitor's token names no membership that there ever is.)
TokensMatchMemberships ==
  \A u \in Users : token[u] # None =>
    [user |-> u, org |-> token[u].org, role |-> token[u].role] \in memberships

\* A user who was deactivated founds, invites and joins nothing, except in a request
\* that was already past get_current_user.
DeactivatedUsersDoNotAct ==
  [][\A r \in Requests :
       CommitOrg(r) \/ CommitInvitation(r) \/ CommitAcceptance(r) =>
         is_active[txn[r].user] \/ r \in stale]_vars

-----------------------------------------------------------------------------
(* The inductive invariant behind them. *)

\* The handler of r has set the variables that its statements use.
Prepared(r) ==
  LET t == txn[r] IN
  /\ pc[r] = "insert" => t.op = "create"
  /\ pc[r] = "mail" => t.op = "invite"
  /\ pc[r] = "write" => t.op = "accept"
  /\ t.op \notin {"none", "disable"} => t.user \in Users
  /\ t.op = "create" => t.org \in NewOrgs /\ t.slug \in Slugs
  /\ t.op \in {"invite", "accept"} =>
       t.org \in OrgIds /\ t.role \in Roles /\ t.invitation \in InvitationIds
  /\ t.op \in {"invite", "disable", "delete"} => t.other \in Users

\* What the handler of r found is still so: nobody else creates its organization, leaves
\* the one it invites to, or withdraws the invitation it accepts.
StillSo(r) ==
  LET t == txn[r] IN
  /\ t.op = "create" => slug[t.org] = None
  /\ t.op \in {"invite", "accept"} => slug[t.org] # None
  /\ t.op = "invite" =>
       /\ invitations[t.invitation] = None
       /\ [user |-> t.user, org |-> t.org, role |-> "admin"] \in memberships
       /\ pc[r] = "commit" => t.invitation \in mailed
  /\ t.op = "accept" =>
       /\ invitations[t.invitation] # None
       /\ invitations[t.invitation].org = t.org /\ invitations[t.invitation].email = t.user
       /\ invitations[t.invitation].role = t.role
       /\ t.writes \/ IsMember(t.user, t.org)
  /\ t.op \in {"create", "invite", "accept"} => is_active[t.user] \/ r \in stale

\* The index entries that r has locked are those of rows that do not exist yet.
KeysFree(r) ==
  /\ Committing(r, {"create"}) => \A o \in OrgIds : slug[o] # txn[r].slug
  /\ Committing(r, {"accept"}) /\ txn[r].writes => ~IsMember(txn[r].user, txn[r].org)

\* Two requests create different rows.
Apart(r, q) ==
  LET t == txn[r]
      v == txn[q]
  IN
  /\ t.op = "create" /\ v.op = "create" => t.org # v.org
  /\ t.op = "invite" /\ v.op = "invite" => t.invitation # v.invitation
  /\ Committing(r, {"create"}) /\ Committing(q, {"create"}) => t.slug # v.slug
  /\ Committing(r, {"accept"}) /\ Committing(q, {"accept"}) /\ t.writes /\ v.writes =>
       t.user # v.user \/ t.org # v.org

\* What every request in flight relies on, and what each may rely on others for: the
\* checks of a handler stay true until it writes, or an index locks out the others.
RequestsInv ==
  /\ \A r \in Requests : Prepared(r) /\ StillSo(r) /\ KeysFree(r)
  /\ \A r, q \in Requests : r # q => Apart(r, q)

-----------------------------------------------------------------------------
(* Of all this only Organizations shows. *)

\* Requests that are past get_current_user, by a user who is then acting.
Acting(r) == txn[r].op \in {"create", "invite", "accept"}

\* The invitation of a request that is accepting it has not expired yet.
Open(i) ==
  /\ invitations[i] # None
  /\ \/ invitations[i].state = "open"
     \/ invitations[i].state = "expired" /\ \E r \in Requests :
          txn[r].op = "accept" /\ txn[r].invitation = i

Promise ==
  INSTANCE Organizations WITH
    offers <- [i \in InvitationIds |-> IF invitations[i] = None THEN None
                 ELSE [org |-> invitations[i].org, email |-> invitations[i].email,
                       role |-> invitations[i].role]],
    open <- {i \in InvitationIds : Open(i)},
    active <- {u \in Users : is_active[u] \/ \E r \in stale : Acting(r) /\ txn[r].user = u}

\* Whatever a handler checked before others committed, it takes effect in one step that is
\* right when it happens: a free slug, an administrator who invites, an open invitation,
\* a user who had not been deactivated when the request began.
ImplementsOrganizations == Promise!Spec

-----------------------------------------------------------------------------
(* What the documentation says and the code does not do. *)

\* docs/ARCHITECTURE_OVERVIEW.md:90: membership resolution (specific org or default
\* membership): whoever is a member somewhere can log in, and refresh, without naming
\* an organization.
DefaultMembershipResolves ==
  \A u \in Users : MembershipsOf(u) # {} => ResolveMembership(u, None) # {}

=============================================================================
