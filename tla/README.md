# Verification of the user-account management service

TLA+ models of the service under `src/app`, checked with TLC, and theorems about them
proved with TLAPS. Every definition is read off the source; `PROJECT.json` maps each one to
its lines.

## The system

A FastAPI application. A route (`api/v1`) calls one operation of a service (`services`),
which works on the tables of a PostgreSQL database through one SQLAlchemy session per
request (`db/session.py`). Nothing else is shared between requests except Redis: rate-limit
counters and OAuth states. There are no background jobs.

| Component | State | Operations |
|---|---|---|
| Sessions and passwords (`auth_service`, `token_service`) | `credentials`, `refresh_tokens`, `verification_tokens` of type PASSWORD_RESET | login, refresh, logout, request and confirm a password reset, change password |
| Email ownership (`auth_service`) | `users.email`, `normalized_email`, `is_verified`; `verification_tokens` of types EMAIL_VERIFY and EMAIL_CHANGE | register, verify email, request and confirm an email change |
| Organizations (`org_service`) | `organizations`, `memberships`, `invitations` | create an organization, invite, accept an invitation |
| OAuth (`oauth_service`, `oauth_providers`, `plugins`) | OAuth states in Redis or in memory, `external_identities` | authorization URL, callback |
| Rate limiting (`rate_limit_service`, its dependency and middleware) | counters in Redis or in memory | hit |
| Access control (`security/dependencies`, `permissions`, `jwt`, `admin`, `users`) | access tokens held by clients, `users.is_active`, `memberships.role` | authenticate, resolve the organization, require scopes, disable a user, deactivate oneself |
| Policies (`core/hooks`, `utils`) | none | password policy, email domain policy, normalization, slugs |
| Audit, profiles, mail, health | `audit_events`, profile columns, none, none | inserted or updated with the operation that calls them |

How they interact: login and refresh read `memberships` (written by register, create
organization, accept and the OAuth callback); registration inserts into `organizations`;
an email change decides which invitations its user may accept; every route behind
`get_current_user` depends on the access token that login, refresh or OAuth minted and on
the user row that an administrator may have disabled; mails carry the tokens that the
confirming operations consume.

What is hard here:

* **Interleaving.** A request is a transaction at READ COMMITTED. Handlers read without
  locking, decide, and write by primary key, so what they decided on may be stale when
  they write. UPDATEs wait for row locks and do not look again at what the handler read.
* **When a write happens.** SQLAlchemy flushes an assignment at the next query, not where
  the code assigns: `_clear_failed_login` is written by the SELECT of
  `_resolve_membership`, the new password hash by the UPDATE of
  `revoke_all_tokens_for_user`. What raises before a commit leaves nothing behind.
* **Failure between steps.** A worker or its connection may die between two statements;
  the answer or the mail after a commit may be lost.
* **Unique indexes as the last judge** of checks made before an insert (addresses, slugs,
  memberships).

What makes each component correct:

* *Sessions*: a password change ends the sessions that existed; a token is used once;
  failed logins are counted; a token handed out is a row; no deadlock; requests end.
* *Email ownership*: an address is verified only by a token mailed to it; one account per
  normalized address; an account that exists can be verified.
* *Organizations*: whoever creates one is its administrator; a membership comes from an
  invitation to the member's address; at most one per user and organization.
* *OAuth*: a state lets one callback through; tokens go to whoever consented in that flow;
  no address gets two accounts; every callback ends.
* *Rate limiting*: hits that get through are bounded in every period; a counter ends.
* *Access*: the role in a live token of an account is the role the account has now; a
  deactivated user does nothing new.

## The modules

| Module | Content |
|---|---|
| `AuthSessions` | login, refresh, logout, password reset and change as concurrent transactions |
| `SessionStore` | what these operations promise their users: the abstract specification |
| `EmailOwnership` | registration, verification and change of an address |
| `Tenancy` | organizations, invitations, account status, access tokens and the dependencies of the routes |
| `Organizations` | what these operations promise: the abstract specification |
| `OAuth` | state store, flow and callback of an OAuth login |
| `Logins` | what an OAuth login promises: the abstract specification |
| `RateLimit` | the limiter of the middleware and of the routes |
| `MC...` | instances of these for TLC |
| `AuthSessionsProofs`, `AuthSessionsLocks`, `AuthSessionsRefinement`, `EmailOwnershipProofs`, `TenancyProofs`, `TenancyRefinement`, `OAuthProofs`, `RateLimitProofs` | theorems about every instance |

The five models have the database in common, not their state: a row that one of them needs
of another is a constant (`MultiOrg`), a step of its environment (`Register`, `Verify` and
`Join` in `OAuth`, `OAuthLogin` in `Tenancy`) or a precondition (verified users in
`AuthSessions`). Access tokens have three sources: login, refresh and the OAuth callback,
which answers with one although nothing it wrote is committed. So an account may hold one
that never logged in with its password, or that is not verified, and even a visitor who has
no account may; no model takes an access token for proof of more than that.
What they share is how a transaction works: a step is one database statement and the code
up to the next one; reads see committed rows; a write waits for the locks of others and goes
on without looking again; an ending without COMMIT leaves nothing. An operator marked
`Fault` is code the program does not have: each property is checked to fail when such an
operator takes the place of the one after it.

## AuthSessions: sessions and passwords

`AuthSessions.tla` models six operations of `AuthService` over `TokenService` as concurrent
requests.

**State.** `password`, `failed_login_attempts`, `lockout_until` are the columns of
`credentials`, committed values only; a password stands for its hash. `refresh_state`,
`refresh_user`, `refresh_expires` are the columns of `refresh_tokens` ("live" is
`revoked_at` NULL) and `reset_state`, `reset_user`, `reset_expires` those of
`verification_tokens` ("unused" is `used_at` NULL). `delivered` and `mailed` are the refresh
and reset tokens that clients and mailboxes hold, `now` the clock. A request slot `r`
has `pc[r]`, the statement it executes next, `txn[r]`, the local variables of its handler,
`held[r]`, the rows it has updated, which are both its row locks and its write set, and
`todo[r]`, the rows its running UPDATE has yet to reach. `raced` is a history variable for
the property about password changes; no guard reads it.

**Actions.** A step is one database statement and the code up to the next one.

| Code | Actions |
|---|---|
| `login` | `LoginVerified` or `LoginWrongPassword`, `LoginFlush`, `Resolve` or `NoMembership`, `Mint`, `Commit`, `Respond` |
| `refresh` | `RefreshVerified`, `UpdateRow`, `Mint`, `Resolve` or `NoMembership`, `Commit`, `Respond` |
| `logout` | `LogoutVerified`, `UpdateRow`, `Commit` |
| `request_password_reset` | `ResetRequested` (INSERT and COMMIT), `MailReset` |
| `confirm_password_reset` | `ResetVerified`, `ConsumeReset`, `WritePassword`, `RevokeAll`, `UpdateRow` for each session, `Commit` |
| `change_password` | `PasswordAccepted`, `WritePassword`, `RevokeAll`, `UpdateRow` for each session, `Commit` |
| an exception | `Abort` |
| worker or connection lost | `Fail` at any statement; `Respond` and `MailReset` may lose the answer or the mail |

`Lock` is PostgreSQL's row lock: a statement that updates a row waits until no other
transaction holds it, and goes on whatever the other one wrote, because the WHERE clauses
test ids and owners only. `RevokeAll` takes the rows that are committed when the UPDATE
starts; a session inserted later is not among them. A refusal before the first write
changes nothing and is a stuttering step.

The first half of the operation, from the SELECTs to the decision, is one step: it reads
committed rows of one user and nothing of it is visible to others. Two SELECTs of one
handler never read the same mutable row, so splitting it would show no new behaviour.

**Left out here.** Accounts are verified and active and keep their email address (these
belong to `EmailOwnership` and `Tenancy`); which organization a login resolves to matters
only as resolved or not; access tokens: `change_password` asks for one, and a user may have it
with or without a session, since the OAuth callback hands it out too; audit rows; cookie
transport of the tokens.

### Runs

All instances have one user: the operations of different users touch different rows, and
the properties speak of one user at a time. The theorems cover any number. Each request
slot is reused, so runs are not limited to two requests but to two at once; the ids of
refresh tokens bound how many sessions are ever created (`IdsLeft`), the one reset id how
many resets are ever requested, and `MaxTime` the clock. With `MaxTime` 1 and all lifetimes
1 a token may be valid or expired at each use. In the run `sessions` a login names no
organization or a foreign one (`OwnOrgUnnamed`): the user has one membership, so naming it is
the same as naming none, and the run `liveness` has both; and the answer of at most one session
is lost (`MaxLost`), which gives a row that no client knows of, and a second would be like it.
Deadlock is checked in every run.

| Run | Instance | Shows |
|---|---|---|
| `sessions` | 2 requests, 3 sessions, 1 reset token, clock 0..1; about 510,000 states | both inductive invariants, the four properties below, and the refinement of `SessionStore` |
| `liveness` | 2 requests, 2 sessions, no symmetry, fair | `RequestsFinish` |
| `rotation` | 2 requests, 3 sessions | violated: no two refreshes both commit a successor of one token (`TokenRotatesOnce`) |
| `reset_reuse` | 2 requests, 2 sessions | violated: one-time use of a reset token |
| `lockout` | 2 requests, 2 sessions | violated: failed logins are counted |

Two requests are enough because each property relates one request to another; a deadlock of
three is excluded by the theorem. Three sessions let a password change meet one it has
revoked, one it waits for and one minted meanwhile.

* `HandedOutTokensArePersisted`: a token that a client received, or that was mailed, is a
  committed row. It depends on the order of commit, answer and mail.
* `PasswordChangeRevokesSessions`: when `change_password` or `confirm_password_reset`
  commits, a session of the user that is still live was minted by a login or refresh that
  was in flight at the time. The exception is real: a login that has checked the old
  password does not look again, and its session outlives the change.
* `ResetTokenSpentWithPassword`: a reset token is marked used in the very step that sets
  its password, and no password changes otherwise than through these two operations.
* `NoWaitCycle`: no requests wait for each other's row locks in a circle.
* `RequestsFinish`: a request that runs ends.

### The abstract specification

`SessionStore` has no requests, statements or locks: passwords, sessions and reset tokens
change in steps that clients can see. A password change is the one operation that takes
time there, because the code's promise needs it: sessions that were open when the change
began (`changing`) are closed when it ends, those opened meanwhile (`young`) may survive.
`ImplementsSessionStore` is its specification under the refinement mapping `Store`:
`changing` is the set of users whose credential row a password-setting request holds, and
`young` the tokens in `raced` of these users. Under it

| Step of `AuthSessions` | Step of `SessionStore` |
|---|---|
| `Commit` of a login, refresh, logout | `Login`, `Refresh`, `Close` |
| `WritePassword` | `BeginChange` |
| `Commit` of a reset or change | `EndChange`: password, sessions and reset token at once |
| `Fail` of a request past `WritePassword` | `CancelChange` |
| `Respond`, `ResetRequested`, `MailReset` | `Deliver`, `Issue`, `Mail` |
| everything else | stuttering |

Two refreshes of one token are two steps `Refresh`; that both may succeed is not hidden by
the abstraction but is the finding of run `rotation`.

**Fairness.** `FairSpec` assumes strong fairness of `Progress(r)` for each request: asyncio
runs every task that can run, and PostgreSQL serves the waiters of a row in order, so a
request whose row becomes free again and again gets it. Arrival, failure and the clock are
not fair.

### Theorems

For every value of the constants that satisfies `RowNames` (rows of different tables have
different names) and `Durations` (lifetimes and threshold positive):

* `AuthSessionsProofs`: `TypeCorrect`, `HandedOutCommitted`, `SessionsInvariant`
  (`Spec => []SessionsInv`) and `RevocationIsComplete`
  (`Spec => PasswordChangeRevokesSessions`).
* `AuthSessionsLocks`: `LockDiscipline` (`Spec => []Discipline`), `NoDeadlock`
  (`Spec => []NoWaitCycle`) and `ResetIsAtomic` (`Spec => ResetTokenSpentWithPassword`).
* `AuthSessionsRefinement`: `SessionsRefineStore` (`Spec => ImplementsSessionStore`).

*Revocation.* A password change commits after its UPDATE has reached every row of `todo`.
`Covers` says what is true from the moment the new hash is flushed: the change holds the
credential row, so no other change of this user is past its own flush; every login or
refresh of the user in flight is in `raced`; and once the UPDATE has started, each session
committed so far is yet to be reached, is locked, or was minted by a request in `raced`. The
other operations keep this: they commit a session only as a request in `raced`, and take no
locked row away. At the commit `todo` is empty. `LocksExclude` is needed because two changes
of one user must not both be past their flush, `RowsExist` because a handler must not lock a
row that is not there yet. `TypeOK` contains what a statement needs (`Prepared`).

*Deadlock.* `Discipline` says which rows a handler has locked at each of its statements.
Every request therefore takes its locks in the order reset token, credential, sessions, and
what it waits for is later in this order than what it holds; only the request that holds the
credential locks more than one session, so two requests never wait for each other's
sessions. In any set of waiting requests one that is furthest along waits for none of them.

*Refinement.* Each action is mapped as in the table above. What makes `EndChange` possible
is `ChangeCoversSessions`: the sessions that survive are in `young`. Steps that neither take
nor drop a credential lock leave `changing` and `young` alone (`ChangeFrame`). That two
changes of a user never overlap in `changing` is `LocksExclude` again.

The run `sessions` checks both inductive invariants first. `RequestsFinish` is a liveness
property and is only model-checked.

## EmailOwnership: registration, verification, email change

`EmailOwnership.tla` models the other four operations of `AuthService`.

**State.** `email`, `normalized_email` and `is_verified` are columns of `users`, `slug` the
slug of the default organization that registration creates with the user; `token_state`,
`token_type`, `token_user` and `token_email` are columns of `verification_tokens`. `mailed`
is the address at which a token arrived, `expired` the tokens whose time is over, `proven` a
history of the addresses whose tokens were presented for a user. A constant function
`normalize_email` maps spellings of addresses to their normal form, and `Allowed` are the
addresses that the domain hooks accept.

| Code | Actions |
|---|---|
| `register` | `RegisterChecked` or `RegisterRefused`, `InsertUser`, `InsertOrg`, `CommitRegistration`, `Mail` |
| `request_email_change` | `ChangeChecked`, `InsertToken` (INSERT and COMMIT), `Mail` |
| `verify_email` | `VerifyChecked`, `Consume`, `UpdateUser`, `CommitConfirmation` |
| `confirm_email_change` | `ConfirmChecked`, `Consume`, `UpdateUser`, `CommitConfirmation` |
| a unique index refuses a write | `IntegrityError` |
| worker or connection lost, deadlock broken | `Fail` |

A write of an indexed value waits for the transactions that hold the entry (`Free`) and then
succeeds or fails. `Consume` loads the user and fixes, in `sets`, the columns that SQLAlchemy
will update: those whose new value differs from the loaded one. Tokens expire at any time
(`Expire`), which covers every lifetime. Waiting is not split from locking, so deadlocks of
two users exchanging addresses appear only as `Fail`.

| Run | Instance | Shows |
|---|---|---|
| `email` | 2 users, 3 spellings of 2 allowed addresses and one refused, 4 tokens, 2 requests; one unused token expired at a time; about 270,000 states | the inductive invariant and the five properties below |
| `email_lookup` | 1 user, 4 spellings of 3 addresses, 4 tokens, 2 requests | violated: lookup by normalized email |

Four tokens are one verification for each user and two changes, enough for two outstanding
changes and for users who exchange addresses; the violated run needs three changes of one
user. Changes may be requested before the address is verified, so a verification and two
changes of one user may be outstanding together. `MaxExpired` bounds how many unused tokens
are past their time at once. An expired token can do nothing any more, so more of them only
take tokens away from the others; that one may expire lets it happen before, during and after
each request that presents it. The theorems have no such bound.

* `OneAccountPerAddress`: the checks of the handlers do not suffice for it, and
  `confirm_email_change` has none; the index does.
* `VerifiedAddressWasProven`: in whatever order and however often tokens are confirmed, the
  address of a verified user received a token that was presented for this user.
* `AddressesAreAllowed`: no account gets an address of a refused domain, although
  `confirm_email_change`, which sets one, does not ask the hooks.
* `TokenSpentWithEffect`: a token is marked used in the step that has its effect, so a
  refused or interrupted confirmation does not spend it, and only such steps change an
  address or verify a user.

* `UnverifiedCanVerify`: an account that is not verified has a verification token that nothing
  has spent. The mail is sent once, so a confirmation that spent it and failed would leave the
  address taken for good. (The token may have expired and its mail may have been lost: against
  these the code has nothing.)

**Theorems** (`EmailOwnershipProofs`, from `NormalForms`, `Domains` and `RowNames`): the five
properties and `TypeOK` for any number of users, addresses, tokens and requests. The
inductive invariant `RequestsInv` has three parts. `KeyReserved`: once a request has written
the index entry of an address it holds the entry, and nobody else has the address; with the
exclusive locks of `Apart` this carries uniqueness over the COMMIT, where no handler checks
anything. `TokensInv`: a token about a change arrived at the new address it is about, a token
about a registration at the address of an account that is unverified or has been verified; it
is what ties `proven` to the address. `StillSo`: what a handler read is still true when it
writes, or a column in `sets` covers it, which is where the UPDATE of changed columns only
matters: a user who is not verified may have a verification and a change confirmed at once,
and a confirmation of a change either sets the address itself or finds it set, as long as
nobody has verified the user. `Frame` states once what a step may do to the rows and to the
other requests; that the others keep what they rely on follows from it, and each action is
left with its own request.

## Tenancy: organizations, invitations, access

`Tenancy.tla` models `OrgService`, `disable_user` and `delete_me`, and the dependencies
`get_current_user`, `get_current_membership` and `require_scopes` that guard them, over the
access tokens that login, refresh and the OAuth callback mint.

**State.** `slug` is the table of organizations, `memberships` and `invitations` are the
tables of these names, `is_active` the column of `users`. `token` is the access token each
account or visitor holds: the organization and role that were put into it, of which nobody
asks the database again. `mailed` are the invitations that the mail server accepted, `stale`
a history variable: the requests whose caller was deactivated after `get_current_user` let them pass.

| Code | Actions |
|---|---|
| `login`, `refresh` as far as the access token | `Mint`, `ExpireToken` |
| the OAuth callback as far as the access token | `OAuthLogin` |
| `create_org` | `CreateChecked`, `InsertOrg`, `CommitOrg` |
| `invite` | `InviteChecked`, `MailInvitation`, `CommitInvitation`: the mail leaves before the COMMIT |
| `accept_invitation` | `AcceptChecked`, `WriteAcceptance`, `CommitAcceptance` |
| `disable_user`, `delete_me` | `DisableChecked`, `DeleteChecked`, `CommitStatus` |
| the clock | `ExpireToken`, `ExpireInvitation` |
| exceptions and faults | `IntegrityError`, `Abort`, `Fail` |

`scalar_one_or_none` over the memberships of a user raises where there are two: `Mint` is
enabled only for an organization that is named or unique. `X-Org-Id` names any organization,
whatever the token says. A user who is disabled keeps the tokens and may mint new ones;
`get_current_user` refuses them, while `disable_user` asks for a scope only. `Visitors` are
people without an account: the callback inserts user, organization and administrator, answers
with a token of that role, and nothing is committed. Such a token names no user, so
`get_current_user` refuses it, but its scopes suffice for `disable_user`, as in the code.

| Run | Instance | Shows |
|---|---|---|
| `tenancy` | 2 users, one a member at the other's, 1 visitor, 2 new organizations that compete for 1 slug, 1 invitation, 2 requests; about 440,000 states | the inductive invariant, the six properties below, and the refinement of `Organizations` |
| `membership` | 2 users, 1 request | violated: a default membership is resolved |

Each property speaks of one organization, user or invitation and at most two requests at
once. Two users are the founder and the invited; the one invitation makes both requests
accept the same one. The invited role is the strongest, for a member who has the weakest
scopes elsewhere.

* `EveryOrganizationHasAdmin`, `OneRowPerKey`: the checks before an insert do not decide,
  the unique indexes do.
* `MembershipsAreEarned`: only a founder is in an organization without an accepted
  invitation to their address in that role.
* `InvitationsComeFromAdmins`: an invitation in the database was mailed, and by an
  administrator of the organization it is for, although scopes come from a token that may
  name another organization.
* `TokensMatchMemberships`: the scopes in the token of an account are those of the role it has
  now, whoever minted the token. It holds because login, refresh and, for an account, the
  callback read committed memberships, and no operation changes or removes one; a route that
  did would break it. It says nothing of the token of a visitor, who has no role anywhere.
* `DeactivatedUsersDoNotAct`: a deactivated user founds, invites and joins nothing, except in
  a request that was past `get_current_user`.

### The abstract specification

`Organizations` has neither requests nor indexes nor tokens. Its steps change the tables, and
each is right when it happens: `Found` takes a free slug, `Invite` is by an administrator of
the organization it offers, `Join` is by the user the open offer was sent to, and all three
by a user who may act. `ImplementsOrganizations` is its specification under the mapping
`Promise`. Handlers check early and commit late, and the mapping says how much of that shows:

* `open` holds the invitations that are open, and an expired one as long as a request that
  found it open is accepting it: it ends, for the abstract specification, with that request.
  `AcceptExpired`, a handler that reads the state and not the time, breaks this.
* `active` holds the users who are active, and a deactivated one as long as a request of
  theirs is past `get_current_user`. Hence `Acts`: whoever acts may be acting for the last
  time.

| Step of `Tenancy` | Step of `Organizations` |
|---|---|
| `CommitOrg`, `CommitInvitation` | `Found`, `Invite` |
| `CommitAcceptance` | `Join`; or `Lapse`, if another request has accepted the invitation meanwhile: the membership is there |
| `CommitStatus` | `Reactivate` or `Lapse` |
| `ExpireInvitation`, and whatever ends a request without COMMIT | `Lapse` or stuttering |
| everything else | stuttering |

**Theorems** (`TenancyProofs`, from `RowNames`, `Offers` and `NotARow`): all six and `TypeOK`.
The inductive invariant `RequestsInv` says that what a handler found stays so until it
writes (`StillSo`: nobody takes an administrator away or changes an invitation but for its
state), that the index entries a request holds have no row yet (`KeysFree`), and that two
requests create different rows (`Apart`). Without it a step of another request could
invalidate a check that the handler does not repeat.

`TenancyRefinement` proves `TenancyRefinesOrganizations` (`Spec => ImplementsOrganizations`):
steps that no table shows leave `open` and `active` alone or shrink them, because a request
that begins saw its user active and its invitation open; for each COMMIT `StillSo` gives the
guard of the abstract step. That a second acceptance changes nothing is
the second part of `MembershipsAreEarned`: an accepted invitation has its member.

## OAuth: login through a provider

`OAuth.tla` models `OAuthService.authorization_url` and `callback` over `OAuthStateStore`,
with the browser and the provider as an environment that may confuse two flows, send a
callback twice, or expire.

**State.** `redis` says whether `init_redis` reached Redis, for good. `state` is the entry
`oauth:state:<state>` of each flow: without Redis it is "lost" at once, in a dictionary that
dies with the request that filled it. `provider`, `code` and `spent` are the flow at the
provider; `slug`, `is_verified`, `joined` the accounts that the rest of the application
commits (`Register`, `Verify`, `Join`); `answers` the token pairs that clients received.
External identities have no variable: the callback is their only writer and nobody commits
it, so its SELECT finds none. `Join` may come at any moment, also between the two SELECTs of a
callback for the one membership of its user: `FindUser` and `Mint` each raise where they find
two. A handler that raises is as good as rolled back, and the answer ends the session with
it (`Respond`).

| Code | Actions |
|---|---|
| `authorization_url`, the provider | `Authorize`, `Consent`, `ExpireState` |
| `consume` (GETDEL) | `StateAccepted` or `StateRefused` |
| `exchange_code`, `fetch_user_info` | `Exchange` or `ExchangeFails` |
| the account | `FindUser`, or `NoUser`, `InsertUser`, `InsertOrg` |
| tokens and answer | `Mint`, `Respond` |
| exceptions and faults | `IntegrityError`, `Abort`, `Fail` |

| Run | Instance | Shows |
|---|---|---|
| `oauth` | 2 flows, 2 providers, 2 subjects of one display name, 2 callbacks at once; about 270,000 states | the inductive invariant, the three safety properties, `CallbacksFinish` and the refinement of `Logins` |
| `oauth_accounts` | the same | violated: a new user has an account |

Two flows are what can be confused, two callbacks what can race for a state or an address,
and the common display name makes the subjects compete for a slug.

* `StateAdmitsOneCallback`: however often a callback is sent, one gets past its state.
* `AnswersMatchFlow`: tokens go to the subject that consented in the flow whose state came
  with the callback, once: the PKCE verifier binds the code to it.
* `OneInsertPerAddress`: no callback inserts a user for an address that has one or that
  another is inserting.
* `CallbacksFinish`: every callback ends. `FairSpec` assumes strong fairness of each
  callback's progress: the event loop runs it, the provider or the client library's timeout
  answers, and PostgreSQL's lock queue lets it in.

### The abstract specification

In `Logins` there are neither states nor verifiers, callbacks or transactions. A flow begins,
a subject consents in it, and it ends once, in `Answer` or in nothing (`Lapse`); the answer is
to the subject that consented in this flow, as a new user just where its address has no
account at that moment. `ImplementsLogins` is this specification under the mapping `Promise`,
where a flow is `pending` while its state is stored and then while the callback that consumed
it is being handled. A state that expired is over at once (`ConsumeExpired` breaks
this); one that a callback consumed is gone and does not expire any more. `Authorize`, `Consent` and
`Register` are `Begin`, `Consent` and `SignUp`; a `Respond` that arrives is `Answer`;
`ExpireState`, and all that ends a callback otherwise, is `Lapse`; the rest is stuttering. That
the account of a new user is missing after the answer is what the run `oauth_accounts` finds:
no step of `Logins` but `SignUp` makes one.

**Theorems** (`OAuthProofs`, from `Accounts` and `RowNames`): the three safety properties,
`TypeOK` and `OAuthRefinesLogins` (`Spec => ImplementsLogins`). The inductive invariant `CallbacksInv` says what a callback knows (its state is
consumed, its flow not answered, its code the flow's own, its user there or not as it found)
and that two callbacks have different states and do not insert one address. A state that was
consumed is never stored again because a flow is authorized once. In the refinement it gives
the guard of `Answer`: the consumed state belongs to this callback alone, and the handler's
finding about the account still holds when it answers, since it holds the index entry of a
user it inserted and accounts are never removed.

## RateLimit: the limiter

`RateLimit.tla` models `RateLimiter.hit` for the requests of one client address (keys of
different addresses never meet): `GlobalRateLimitMiddleware` counts each, and the dependency
of a limited route counts it again on its own key. In Redis a hit is `INCR` (`Hit`) and, if
the count is one, `EXPIRE` (`Expire`) in another command. `value` and `ttl` are the counters
and what remains of their windows; `Tick` is the clock; `passed` and `orphaned` are history.
Without Redis `MemoryHit` always passes, because every hit makes a new limiter.

Run `rate`: one limited route (limit 2) under the global limit 3, a period of two ticks, two
requests at once. Counts above a limit are not told apart, which makes the model finite.
`passed[k][a]` counts the hits of `k` that passed since the clock was `a` steps behind, so that
the bound for a period reads off one number.

* `AtMostTwiceTheLimit`: in any period of time at most twice the limit passes, the most that
  fixed windows can promise, although workers count at once and die anywhere.
* `CountersExpire`: a counter without an expiry is about to get one, or its first hit died
  between the two commands. That last case is real: such an address stays refused for good.
* `ReadmittedInTime`: otherwise a client over the limit is let in again. `FairSpec` assumes
  that time passes and that the event loop lets every request go on (weak fairness; nothing
  is waited for).

**Theorems** (`RateLimitProofs`, from `Limits`, for any limits and periods): `TypeOK`,
`CountersExpire`, `WindowsInv` and `AtMostTwiceTheLimit`. `WindowsInv` is the invariant behind
the bound, and the run checks it too. One request opens a window, and until it has set the
expiry nothing moves the window's start; what the current window has let through is at most
its count, capped by the limit, less the opener that has not passed yet (`Admitted`); and
since a window lasts as long as a period, what passed in a period before it (`WindowAge`)
belongs to one earlier window, which passed at most its limit. When a window ends, this
last part is what makes the current window the earlier one: that is where an expiry that
every hit renews (`EveryHit`) or a count that misses hits (`LoseIncrement`) breaks it.
`ReadmittedInTime` is liveness and stays with TLC.

## What the code does against its documentation

Each is shown by a run whose property states the quoted line.

* `docs/ARCHITECTURE_OVERVIEW.md:109`, rotation invalidates the prior token: the UPDATE of
  `rotate_refresh_token` does not test `revoked_at`, so two refreshes of one token both
  commit a successor (run `rotation`). A refresh that overlaps a logout of its token succeeds
  for the same reason; no document speaks of that.
* `:120`, one-time use: `_consume_token` tests `used_at` on an unlocked read (run
  `reset_reuse`).
* `:89`, failed-attempt accounting and lockout: the handler raises before it commits, so
  the count is rolled back and no account is ever locked (run `lockout`).
* `:90`, default membership: with two memberships `scalar_one_or_none` raises (run
  `membership`).
* `:85`, lookup by normalized email: with changes to two spellings of one address and to
  another address outstanding, the second spelling is confirmed while the other address is:
  the first writes `email` alone, over the `normalized_email` of the second, and the address
  no longer finds its user (run `email_lookup`).
* `:144`, a user, credential and organization are created at the first OAuth login: neither
  the callback nor its route commits, so the client holds tokens of no account (run
  `oauth_accounts`).

Seen while reading, and part of the models or of the list of hazards in `PROJECT.json`, but
without a run of their own: the rate-limit settings for login, registration and reset are
read by nothing; the limiter and the state store without Redis keep their dictionary for one
call only; a limit reached in the middleware is answered with a 500 and not with the 429 of
`docs/USER_GUIDE.md:266`, since the exception passes outside of the handlers.

## What is proved and what is only checked

Every safety property of a passing run, and the three refinements, are theorems for all values of
the constants. The liveness properties `RequestsFinish`, `CallbacksFinish` and
`ReadmittedInTime`, and what the violated runs show, are TLC's alone: liveness under fairness
is beyond the proof system. The assumptions are the named `ASSUME`s
of the modules, which TLC evaluates in every run: that ids, addresses, slugs and `None` are
different things, that normalizing twice changes nothing, that the domain policy does not
look at spelling, and that lifetimes, limits and periods are positive.

## Not modelled

* **Cookies and CSRF.** Cookie mode reads cookies that no operation sets, so it cannot be
  entered.
* **Plugin registry.** Filled with the same two providers on every call; the MFA modules are
  used by nothing.
* **Password policy, registration and profile hooks.** The policy is a pure check before the
  first write, so the passwords of the models are those that it accepts; the hooks are run by
  nothing.
* **Audit log.** Rows written in the transaction of the operation they record; nothing reads
  them.
* **Profiles.** Updates of columns that nothing else reads.
* **Hashing and token secrets.** Ideal: a secret is known or not.
* **Request id, logging, tenant context, metrics.** What they set is read by the log
  formatter only.
* **Web pages** beyond the OAuth callback page, **migrations** beyond the tables and indexes
  they create, **deployment, scripts, SDK, examples**: no state that another component reads.
* **Deadlock between transactions that exchange addresses or slugs** appears as a lost
  transaction (`Fail`) and not as a wait; `NoWaitCycle` is about sessions.

Possible extension: `Tenancy` composed with `AuthSessions`, for histories in which an accepted
invitation makes the next refresh fail.
