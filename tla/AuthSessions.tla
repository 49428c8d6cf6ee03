---------------------------- MODULE AuthSessions ----------------------------
(***************************************************************************)
(* Passwords, refresh-token sessions and password-reset tokens of verified *)
(* users: AuthService.login, refresh, logout, request_password_reset,      *)
(* confirm_password_reset and change_password over TokenService, as        *)
(* concurrent requests.  Every request is one database transaction at      *)
(* READ COMMITTED (db/session.py), so a request reads committed rows, its  *)
(* UPDATEs lock rows until it ends, and an UPDATE that waited for a lock   *)
(* does not look again at what the handler had read.                       *)
(*                                                                         *)
(* A step is a database statement together with the code up to the next    *)
(* one.  A request refused before it wrote anything leaves no trace, so    *)
(* refusals without effect are stuttering.                                 *)
(***************************************************************************)
EXTENDS Integers, FiniteSets

CONSTANTS
  Users,             \* verified, active accounts; also the names of their credentials
  Passwords,
  RefreshIds,        \* ids of refresh_tokens rows
  ResetIds,          \* ids of verification_tokens rows of type PASSWORD_RESET
  Requests,          \* request slots: how many requests may run at once
  MultiOrg,          \* the users with two or more memberships
  None,              \* no value (a NULL column, an unset variable)
  LOCKOUT_THRESHOLD, LOCKOUT_DURATION,
  REFRESH_TTL, RESET_TTL,
  MaxTime            \* bound: the clock stops here

ASSUME RowNames ==
  /\ Users \cap RefreshIds = {} /\ Users \cap ResetIds = {}
  /\ RefreshIds \cap ResetIds = {} /\ Requests \cap RefreshIds = {}
  /\ None \notin Users \cup RefreshIds \cup ResetIds \cup Passwords
  /\ MultiOrg \subseteq Users

\* Times are instants of the model's clock; a TTL of zero would hand out dead tokens.
ASSUME Durations ==
  /\ LOCKOUT_THRESHOLD \in Nat \ {0} /\ LOCKOUT_DURATION \in Nat
  /\ REFRESH_TTL \in Nat \ {0} /\ RESET_TTL \in Nat \ {0}
  /\ MaxTime \in Nat

VARIABLES
  now,
  password, failed_login_attempts, lockout_until,      \* credentials
  refresh_state, refresh_user, refresh_expires,        \* refresh_tokens
  reset_state, reset_user, reset_expires,              \* verification_tokens
  delivered,       \* refresh tokens some client received
  mailed,          \* reset tokens that reached a mailbox
  pc,              \* the statement a request executes next
  txn,             \* what a request's handler knows
  held,            \* rows a request has updated: its row locks and its write set
  todo,            \* rows its running UPDATE has yet to reach
  raced            \* history: requests, and tokens minted by requests, in flight
                   \* during the latest password change of their user

credentials == <<password, failed_login_attempts, lockout_until>>
refresh_tokens == <<refresh_state, refresh_user, refresh_expires>>
verification_tokens == <<reset_state, reset_user, reset_expires>>
tables == <<credentials, refresh_tokens, verification_tokens>>
clients == <<delivered, mailed>>
vars == <<now, tables, clients, pc, txn, held, todo, raced>>

-----------------------------------------------------------------------------
Rows == Users \cup RefreshIds \cup ResetIds

\* the handlers that mint a refresh token, and those that set a password
SessionOps == {"login", "refresh"}
PasswordOps == {"change", "reset"}
Ops == SessionOps \cup PasswordOps \cup {"logout", "request", "none"}

Steps == {"idle", "flush", "member", "mint", "consume", "password", "revoke",
          "update", "commit", "respond", "mail", "raise"}

\* The organization a login names; refresh names none.
Orgs == {"unnamed", "own", "foreign"}

\* The local variables of a handler.
Txn == [op : Ops, user : Users \cup {None}, org : Orgs,
        presented : RefreshIds \cup ResetIds \cup {None},
        password : Passwords \cup {None}, minted : RefreshIds \cup {None},
        failed : Nat, lockout : Nat, expires : Nat]

NoTxn == [op |-> "none", user |-> None, org |-> "unnamed", presented |-> None, password |-> None,
          minted |-> None, failed |-> 0, lockout |-> 0, expires |-> 0]

\* The handlers that reach a statement; "commit" may follow in any but "request".
Reaching(step) ==
  CASE step = "idle" -> {"none"}
    [] step = "flush" -> {"login"}
    [] step \in {"member", "mint", "respond", "raise"} -> SessionOps
    [] step = "consume" -> {"reset"}
    [] step \in {"password", "revoke"} -> PasswordOps
    [] step = "update" -> {"refresh", "logout"} \cup PasswordOps
    [] step = "mail" -> {"request"}
    [] OTHER -> SessionOps \cup PasswordOps \cup {"logout"}

\* A handler has set the variables that its statements use.
Prepared(step, t) ==
  /\ t.op \in Reaching(step)
  /\ t.op # "none" => t.user \in Users
  /\ t.op \in PasswordOps => t.password \in Passwords
  /\ t.op \in {"reset", "request"} => t.presented \in ResetIds
  /\ t.op \in {"refresh", "logout"} => t.presented \in RefreshIds
  /\ \/ step \in {"respond", "commit"} /\ t.op \in SessionOps
     \/ step = "member" /\ t.op = "refresh"
     => t.minted \in RefreshIds
  /\ t.op \notin SessionOps => t.minted = None

\* A row that exists has an owner.
TablesOK ==
  /\ password \in [Users -> Passwords]
  /\ failed_login_attempts \in [Users -> Nat]
  /\ lockout_until \in [Users -> Nat]
  /\ refresh_state \in [RefreshIds -> {"absent", "live", "revoked"}]
  /\ refresh_user \in [RefreshIds -> Users \cup {None}]
  /\ refresh_expires \in [RefreshIds -> Nat]
  /\ reset_state \in [ResetIds -> {"absent", "unused", "used"}]
  /\ reset_user \in [ResetIds -> Users \cup {None}]
  /\ reset_expires \in [ResetIds -> Nat]
  /\ \A t \in RefreshIds : refresh_state[t] # "absent" => refresh_user[t] \in Users
  /\ \A v \in ResetIds : reset_state[v] # "absent" => reset_user[v] \in Users

HandlersOK ==
  /\ pc \in [Requests -> Steps]
  /\ txn \in [Requests -> Txn]
  /\ \A r \in Requests : Prepared(pc[r], txn[r])

LocksOK ==
  /\ held \in [Requests -> SUBSET Rows]
  /\ todo \in [Requests -> SUBSET RefreshIds]
  /\ raced \subseteq Requests \cup RefreshIds

TypeOK ==
  /\ now \in 0..MaxTime
  /\ delivered \subseteq RefreshIds
  /\ mailed \subseteq ResetIds
  /\ TablesOK /\ HandlersOK /\ LocksOK

-----------------------------------------------------------------------------
(* Row locks. *)

\* No other transaction has an uncommitted update of row x.
Free(r, x) == \A q \in Requests \ {r} : x \notin held[q]

Lock(r, x) == Free(r, x) /\ held' = [held EXCEPT ![r] = @ \cup {x}]

\* A transaction has set the password of u and not ended yet.
Changing(u) == \E q \in Requests : txn[q].op \in PasswordOps /\ u \in held[q]

SessionsOf(u) == {t \in RefreshIds : refresh_state[t] # "absent" /\ refresh_user[t] = u}

\* Bound: a login or a refresh starts only while there is an id left for its token.
Unminted == {t \in RefreshIds :
               refresh_state[t] = "absent" /\ \A q \in Requests : txn[q].minted # t}
IdsLeft ==
  Cardinality({q \in Requests : /\ txn[q].op \in SessionOps /\ txn[q].minted = None
                                /\ pc[q] # "raise"}) < Cardinality(Unminted)

-----------------------------------------------------------------------------
Init ==
  /\ now = 0
  /\ password \in [Users -> Passwords]
  /\ failed_login_attempts = [u \in Users |-> 0]
  /\ lockout_until = [u \in Users |-> 0]
  /\ refresh_state = [t \in RefreshIds |-> "absent"]
  /\ refresh_user = [t \in RefreshIds |-> None]
  /\ refresh_expires = [t \in RefreshIds |-> 0]
  /\ reset_state = [v \in ResetIds |-> "absent"]
  /\ reset_user = [v \in ResetIds |-> None]
  /\ reset_expires = [v \in ResetIds |-> 0]
  /\ delivered = {} /\ mailed = {} /\ raced = {}
  /\ pc = [r \in Requests |-> "idle"]
  /\ txn = [r \in Requests |-> NoTxn]
  /\ held = [r \in Requests |-> {}]
  /\ todo = [r \in Requests |-> {}]

Tick ==
  /\ now < MaxTime
  /\ now' = now + 1
  /\ UNCHANGED <<tables, clients, pc, txn, held, todo, raced>>

-----------------------------------------------------------------------------
(* The first step of a request: read, check, and go on or be refused. *)

Begin(r, step, t) ==
  /\ pc[r] = "idle"
  /\ pc' = [pc EXCEPT ![r] = step]
  /\ txn' = [txn EXCEPT ![r] = t]
  /\ UNCHANGED <<now, clients, held>>

\* A session handler of u that starts while u's password is being changed.
MarkIfRacing(r, u) == raced' = IF Changing(u) THEN raced \cup {r} ELSE raced

NotLockedOut(u) == lockout_until[u] <= now

LoginVerified(r, u, p, org) ==
  /\ NotLockedOut(u) /\ p = password[u] /\ IdsLeft
  /\ Begin(r, "flush", [NoTxn EXCEPT !.op = "login", !.user = u, !.org = org])
  /\ MarkIfRacing(r, u)
  /\ UNCHANGED <<tables, todo>>

\* The credential as _record_failed_login leaves it in the handler's memory.
RecordFailedLogin(u) ==
  LET failed == failed_login_attempts[u] + 1 IN
  [NoTxn EXCEPT !.op = "login", !.user = u, !.failed = failed,
                !.lockout = IF failed >= LOCKOUT_THRESHOLD THEN now + LOCKOUT_DURATION
                            ELSE lockout_until[u]]

\* login then raises, and nothing of it was flushed.
LoginWrongPassword(r, u, p) ==
  /\ NotLockedOut(u) /\ p # password[u]
  /\ Begin(r, "raise", RecordFailedLogin(u))
  /\ UNCHANGED <<tables, todo, raced>>

ValidRefresh(t) ==
  t \in delivered /\ refresh_state[t] = "live" /\ refresh_expires[t] > now

RefreshVerified(r, t) ==
  /\ ValidRefresh(t) /\ IdsLeft
  /\ Begin(r, "update", [NoTxn EXCEPT !.op = "refresh", !.user = refresh_user[t],
                                      !.presented = t])
  /\ todo' = [todo EXCEPT ![r] = {t}]
  /\ MarkIfRacing(r, refresh_user[t])
  /\ UNCHANGED tables

LogoutVerified(r, t) ==
  /\ ValidRefresh(t)
  /\ Begin(r, "update", [NoTxn EXCEPT !.op = "logout", !.user = refresh_user[t],
                                      !.presented = t])
  /\ todo' = [todo EXCEPT ![r] = {t}]
  /\ UNCHANGED <<tables, raced>>

\* Fault: the mail leaves before the row is committed, and the COMMIT never comes.
CreateResetTokenUncommitted(v, u) == UNCHANGED verification_tokens

CreateResetToken(v, u) ==
  /\ reset_state' = [reset_state EXCEPT ![v] = "unused"]
  /\ reset_user' = [reset_user EXCEPT ![v] = u]
  /\ reset_expires' = [reset_expires EXCEPT ![v] = now + RESET_TTL]

\* INSERT and COMMIT; the mail is sent afterwards.
ResetRequested(r, u) ==
  \E v \in ResetIds :
    /\ reset_state[v] = "absent"
    /\ CreateResetToken(v, u)
    /\ Begin(r, "mail", [NoTxn EXCEPT !.op = "request", !.user = u, !.presented = v])
    /\ UNCHANGED <<credentials, refresh_tokens, todo, raced>>

ConsumableReset(v) ==
  v \in mailed /\ reset_state[v] = "unused" /\ reset_expires[v] > now

ResetVerified(r, v, p) ==
  /\ ConsumableReset(v)
  /\ Begin(r, "consume", [NoTxn EXCEPT !.op = "reset", !.user = reset_user[v],
                                       !.presented = v, !.password = p])
  /\ UNCHANGED <<tables, todo, raced>>

\* get_current_user wants an access token and looks into none of these tables; with or
\* without sessions a user may have one, for the OAuth callback hands it out too.
PasswordAccepted(r, u, current, p) ==
  /\ current = password[u]
  /\ Begin(r, "password", [NoTxn EXCEPT !.op = "change", !.user = u, !.password = p])
  /\ UNCHANGED <<tables, todo, raced>>

-----------------------------------------------------------------------------
(* The statements of a request in flight. *)

At(r, step) == pc[r] = step /\ UNCHANGED <<now, tables, clients>>
Goto(r, step) == pc' = [pc EXCEPT ![r] = step]

\* _clear_failed_login is flushed by the SELECT of _resolve_membership.
LoginFlush(r) ==
  /\ At(r, "flush") /\ Goto(r, "member")
  /\ Lock(r, txn[r].user)
  /\ UNCHANGED <<txn, todo, raced>>

\* Without an organization scalar_one_or_none wants one membership and raises on two.
Resolvable(r) == \/ txn[r].org = "own"
                 \/ txn[r].org = "unnamed" /\ txn[r].user \notin MultiOrg

\* Fault: login goes on to its COMMIT before create_refresh_token.
ResolveWithoutMint(r) ==
  /\ At(r, "member")
  /\ Resolvable(r)
  /\ Goto(r, "commit")
  /\ UNCHANGED <<txn, held, todo, raced>>

Resolve(r) ==
  /\ At(r, "member")
  /\ Resolvable(r)
  /\ Goto(r, IF txn[r].op = "login" THEN "mint" ELSE "commit")
  /\ UNCHANGED <<txn, held, todo, raced>>

NoMembership(r) ==
  /\ At(r, "member")
  /\ ~Resolvable(r)
  /\ Goto(r, "raise")
  /\ UNCHANGED <<txn, held, todo, raced>>

\* create_refresh_token: an INSERT nobody else sees until the COMMIT.
Mint(r, t) ==
  /\ At(r, "mint") /\ t \in Unminted
  /\ Goto(r, IF txn[r].op = "login" THEN "commit" ELSE "member")
  /\ txn' = [txn EXCEPT ![r].minted = t, ![r].expires = now + REFRESH_TTL]
  /\ UNCHANGED <<held, todo, raced>>

\* Fault: used_at is committed on its own.
ConsumeResetAlone(r) ==
  /\ pc[r] = "consume" /\ Goto(r, "password")
  /\ reset_state' = [reset_state EXCEPT ![txn[r].presented] = "used"]
  /\ UNCHANGED <<now, clients, credentials, refresh_tokens, reset_user, reset_expires,
                 txn, held, todo, raced>>

\* used_at is flushed by the SELECT of the user.
ConsumeReset(r) ==
  /\ At(r, "consume") /\ Goto(r, "password")
  /\ Lock(r, txn[r].presented)
  /\ UNCHANGED <<txn, todo, raced>>

\* Fault: the new hash is not flushed before the sessions are revoked.
WritePasswordUnflushed(r) ==
  /\ At(r, "password") /\ Goto(r, "revoke")
  /\ UNCHANGED <<txn, held, todo, raced>>

\* The new hash is flushed before the UPDATE of the sessions starts.
WritePassword(r) ==
  /\ At(r, "password") /\ Goto(r, "revoke")
  /\ Lock(r, txn[r].user)
  /\ raced' = (raced \ {t \in RefreshIds : refresh_user[t] = txn[r].user})
                \cup {q \in Requests : /\ txn[q].op \in SessionOps
                                       /\ txn[q].user = txn[r].user
                                       /\ pc[q] # "respond"}
  /\ UNCHANGED <<txn, todo>>

\* Fault: rows that another transaction has locked are skipped.
RevokeUnlocked(r) ==
  LET free == {t \in SessionsOf(txn[r].user) : Free(r, t)} IN
  /\ At(r, "revoke")
  /\ todo' = [todo EXCEPT ![r] = free]
  /\ Goto(r, IF free = {} THEN "commit" ELSE "update")
  /\ UNCHANGED <<txn, held, raced>>

\* revoke_all_tokens_for_user: the UPDATE sees the rows committed when it starts.
RevokeAll(r) ==
  /\ At(r, "revoke")
  /\ todo' = [todo EXCEPT ![r] = SessionsOf(txn[r].user)]
  /\ Goto(r, IF SessionsOf(txn[r].user) = {} THEN "commit" ELSE "update")
  /\ UNCHANGED <<txn, held, raced>>

\* Fault: the UPDATE waits for a row that is still live.
UpdateLiveRow(r, t) ==
  /\ At(r, "update") /\ t \in todo[r] /\ refresh_state[t] = "live"
  /\ Lock(r, t)
  /\ todo' = [todo EXCEPT ![r] = @ \ {t}]
  /\ Goto(r, IF todo[r] # {t} THEN "update"
             ELSE IF txn[r].op = "refresh" THEN "mint" ELSE "commit")
  /\ UNCHANGED <<txn, raced>>

UpdateRow(r, t) ==
  /\ At(r, "update") /\ t \in todo[r]
  /\ Lock(r, t)
  /\ todo' = [todo EXCEPT ![r] = @ \ {t}]
  /\ Goto(r, IF todo[r] # {t} THEN "update"
             ELSE IF txn[r].op = "refresh" THEN "mint" ELSE "commit")
  /\ UNCHANGED <<txn, raced>>

-----------------------------------------------------------------------------
(* How a request ends. *)

Leave(r, step) ==
  /\ pc' = [pc EXCEPT ![r] = step]
  /\ held' = [held EXCEPT ![r] = {}]
  /\ todo' = [todo EXCEPT ![r] = {}]

\* session.commit(): the write set becomes visible and the locks are released.
Commit(r) ==
  LET t == txn[r] IN
  /\ pc[r] = "commit"
  /\ password' = [u \in Users |-> IF u \in held[r] /\ t.op \in PasswordOps
                                  THEN t.password ELSE password[u]]
  /\ failed_login_attempts' =
       [u \in Users |-> IF u \in held[r] /\ t.op = "login"
                        THEN 0 ELSE failed_login_attempts[u]]
  /\ lockout_until' = [u \in Users |-> IF u \in held[r] /\ t.op = "login"
                                       THEN 0 ELSE lockout_until[u]]
  /\ refresh_state' = [x \in RefreshIds |-> IF x \in held[r] THEN "revoked"
                                            ELSE IF x = t.minted THEN "live"
                                            ELSE refresh_state[x]]
  /\ refresh_user' = [x \in RefreshIds |-> IF x = t.minted THEN t.user
                                           ELSE refresh_user[x]]
  /\ refresh_expires' = [x \in RefreshIds |-> IF x = t.minted THEN t.expires
                                              ELSE refresh_expires[x]]
  /\ reset_state' = [v \in ResetIds |-> IF v \in held[r] THEN "used" ELSE reset_state[v]]
  /\ raced' = (raced \ {r}) \cup {x \in RefreshIds : x = t.minted /\ r \in raced}
  /\ Leave(r, IF t.op \in SessionOps THEN "respond" ELSE "idle")
  /\ txn' = IF t.op \in SessionOps THEN txn ELSE [txn EXCEPT ![r] = NoTxn]
  /\ UNCHANGED <<now, clients, reset_user, reset_expires>>

\* The token pair reaches the client, or the response is lost.
Respond(r) ==
  /\ pc[r] = "respond"
  /\ delivered' \in {delivered, delivered \cup {txn[r].minted}}
  /\ Leave(r, "idle")
  /\ txn' = [txn EXCEPT ![r] = NoTxn]
  /\ UNCHANGED <<now, tables, mailed, raced>>

\* The mail is delivered, or SMTP fails after the token was committed.
MailReset(r) ==
  /\ pc[r] = "mail"
  /\ mailed' \in {mailed, mailed \cup {txn[r].presented}}
  /\ Leave(r, "idle")
  /\ txn' = [txn EXCEPT ![r] = NoTxn]
  /\ UNCHANGED <<now, tables, delivered, raced>>

\* Fault: the connection goes back to its pool with the transaction open.
RollbackLater(r) ==
  /\ pc' = [pc EXCEPT ![r] = "idle"]
  /\ txn' = [txn EXCEPT ![r] = NoTxn]
  /\ todo' = [todo EXCEPT ![r] = {}]
  /\ raced' = raced \ {r}
  /\ UNCHANGED <<now, tables, clients, held>>

\* The session is closed without a COMMIT.
Rollback(r) ==
  /\ Leave(r, "idle")
  /\ txn' = [txn EXCEPT ![r] = NoTxn]
  /\ raced' = raced \ {r}
  /\ UNCHANGED <<now, tables, clients>>

\* A handler that raised.
Abort(r) == pc[r] = "raise" /\ Rollback(r)

\* The worker dies, or its database connection does, between two statements.
Fail(r) == pc[r] \notin {"idle", "respond", "mail", "raise"} /\ Rollback(r)

-----------------------------------------------------------------------------
Progress(r) ==
  \/ LoginFlush(r) \/ Resolve(r) \/ NoMembership(r)
  \/ ConsumeReset(r) \/ WritePassword(r) \/ RevokeAll(r)
  \/ \E t \in RefreshIds : Mint(r, t) \/ UpdateRow(r, t)
  \/ Commit(r) \/ Respond(r) \/ MailReset(r) \/ Abort(r)

Arrive(r) ==
  \/ \E u \in Users, p \in Passwords, org \in Orgs : LoginVerified(r, u, p, org)
  \/ \E u \in Users, p \in Passwords : LoginWrongPassword(r, u, p)
  \/ \E u \in Users : ResetRequested(r, u)
  \/ \E t \in RefreshIds : RefreshVerified(r, t) \/ LogoutVerified(r, t)
  \/ \E v \in ResetIds, p \in Passwords : ResetVerified(r, v, p)
  \/ \E u \in Users, current, p \in Passwords : PasswordAccepted(r, u, current, p)

Next ==
  \/ Tick
  \/ \E r \in Requests : Arrive(r) \/ Progress(r) \/ Fail(r)

Spec == Init /\ [][Next]_vars

(* The scheduler and PostgreSQL's lock queue, which is first come, first served,   *)
(* let every request in flight go on; nothing makes a request arrive or fail.       *)
FairSpec == Spec /\ \A r \in Requests : SF_vars(Progress(r))

-----------------------------------------------------------------------------
(* Safety. *)

\* What a client or a mailbox holds is a committed row: login and refresh answer,
\* and request_password_reset mails, only after their COMMIT.
HandedOutTokensArePersisted ==
  /\ \A t \in delivered : refresh_state[t] # "absent"
  /\ \A v \in mailed : reset_state[v] # "absent"

\* The rows that request r may be waiting to lock.
Wanted(r) == CASE pc[r] \in {"flush", "password"} -> {txn[r].user}
               [] pc[r] = "consume" -> {txn[r].presented}
               [] pc[r] = "update" -> todo[r]
               [] OTHER -> {}

WaitsFor(r, q) == q # r /\ Wanted(r) \cap held[q] # {}

\* No set of requests waits on itself: the handlers lock reset token, credential and
\* sessions in this order, so PostgreSQL never has to kill one to break a deadlock.
NoWaitCycle ==
  \A S \in (SUBSET Requests) \ {{}} : \E r \in S : \A q \in S : ~WaitsFor(r, q)

-----------------------------------------------------------------------------
(* The inductive invariant behind PasswordChangeRevokesSessions. *)

\* A row is locked by one request at a time.
LocksExclude == \A r, q \in Requests : r # q => held[r] \cap held[q] = {}

\* Requests lock, answer with and mail rows that exist.
RowsExist ==
  /\ HandedOutTokensArePersisted
  /\ \A r \in Requests :
       /\ \A t \in RefreshIds : t \in held[r] \cup todo[r] => refresh_state[t] # "absent"
       /\ \A v \in ResetIds : v \in held[r] => reset_state[v] # "absent"
       /\ pc[r] = "respond" => refresh_state[txn[r].minted] # "absent"
       /\ txn[r].op \in {"reset", "request"} => reset_state[txn[r].presented] # "absent"

\* Request c has written a password and not ended.
PastWrite(c) == txn[c].op \in PasswordOps /\ pc[c] \in {"revoke", "update", "commit"}

\* Request c holds the credential, knows of every login or refresh of the user in
\* flight, and has every session committed so far before it, behind it, or raced.
Covers(c) ==
  /\ txn[c].user \in held[c]
  /\ \A q \in Requests :
       /\ txn[q].op \in SessionOps /\ txn[q].user = txn[c].user
       /\ pc[q] \notin {"respond", "raise"}
       => q \in raced
  /\ pc[c] # "revoke" =>
       \A t \in SessionsOf(txn[c].user) : t \in todo[c] \cup held[c] \cup raced
  /\ pc[c] = "commit" => todo[c] = {}

\* So does every password change from its new hash to its COMMIT.
ChangeCoversSessions == \A c \in Requests : PastWrite(c) => Covers(c)

SessionsInv == TypeOK /\ LocksExclude /\ RowsExist /\ ChangeCoversSessions

\* Request r holds only rows its handler names, and only once it has reached them: login
\* its credential; refresh and logout the token presented; a password change the reset
\* token presented, then the credential, then sessions of its user.
HoldsOwnRows(r) ==
  LET t == txn[r] IN
  /\ \A u \in held[r] \cap Users :
       /\ u = t.user
       /\ \/ t.op = "login" /\ pc[r] \in {"member", "mint", "commit", "raise"}
          \/ PastWrite(r)
  /\ \A v \in held[r] \cap ResetIds :
       t.op = "reset" /\ v = t.presented /\ (pc[r] = "password" \/ PastWrite(r))
  /\ \A x \in held[r] \cap RefreshIds :
       \/ t.op \in {"refresh", "logout"} /\ x = t.presented /\ pc[r] # "update"
       \/ PastWrite(r) /\ pc[r] # "revoke" /\ refresh_user[x] = t.user
  /\ \A x \in todo[r] :
       /\ pc[r] = "update" /\ refresh_user[x] = t.user
       /\ t.op \in {"refresh", "logout"} => x = t.presented
  /\ t.op = "reset" /\ pc[r] # "consume" => t.presented \in held[r]

\* The handler of r works for the user whose token it was shown.
UsesOwnToken(r) ==
  LET t == txn[r] IN
  /\ t.op \in {"refresh", "logout"} =>
       t.presented \in delivered /\ refresh_user[t.presented] = t.user
  /\ t.op = "reset" => t.presented \in mailed /\ reset_user[t.presented] = t.user

\* The token r has minted is its own, and no row before the COMMIT.
MintsFreshToken(r) ==
  txn[r].minted # None =>
    /\ pc[r] = "respond" \/ refresh_state[txn[r].minted] = "absent"
    /\ \A q \in Requests \ {r} : txn[q].minted # txn[r].minted

AbsentRowsUnowned == \A x \in RefreshIds : refresh_state[x] = "absent" => refresh_user[x] = None

\* The inductive invariant behind NoWaitCycle, ResetTokenSpentWithPassword and the
\* refinement of SessionStore: which rows a handler has locked where it stands.
Discipline ==
  /\ \A r \in Requests : HoldsOwnRows(r) /\ UsesOwnToken(r) /\ MintsFreshToken(r)
  /\ AbsentRowsUnowned

-----------------------------------------------------------------------------
(* What a step may never do. *)

\* When change_password or confirm_password_reset commits, the only live sessions of
\* the user are those of a login or refresh that was in flight during the change:
\* revoke_all_tokens_for_user misses no session that was there before.
PasswordChangeRevokesSessions ==
  [][\A r \in Requests :
       Commit(r) /\ txn[r].op \in PasswordOps =>
         \A t \in SessionsOf(txn[r].user) : refresh_state'[t] = "live" => t \in raced]_vars

\* A reset token is spent in the very step that sets the password it was meant for,
\* and a password changes only for someone who presented its current value (to
\* change_password) or a token mailed to its owner (to confirm_password_reset).
ResetTokenSpentWithPassword ==
  [][/\ \A v \in ResetIds : reset_state[v] = "unused" /\ reset_state'[v] = "used" =>
          \E r \in Requests : /\ txn[r].presented = v /\ v \in mailed
                               /\ password'[reset_user[v]] = txn[r].password
     /\ \A u \in Users : password'[u] # password[u] =>
          \E r \in Requests : /\ txn[r].user = u /\ pc'[r] = "idle"
                               /\ \/ txn[r].op = "change"
                                  \/ reset_state'[txn[r].presented] = "used"]_vars

-----------------------------------------------------------------------------
(* What clients see of all this is SessionStore. *)

Store ==
  INSTANCE SessionStore WITH
    changing <- {u \in Users : Changing(u)},
    young <- {t \in RefreshIds : t \in raced /\ Changing(refresh_user[t])}

\* Interleaved statements, row locks, crashes and lost answers never show: every request
\* takes effect in one step or not at all, a reset token with the password and the
\* sessions, and no session that was open when a change began outlives it.
ImplementsSessionStore == Store!Spec

-----------------------------------------------------------------------------
(* Liveness. *)

\* Every request ends, whatever locks the others hold and whichever of them fail.
RequestsFinish == \A r \in Requests : pc[r] # "idle" ~> pc[r] = "idle"

-----------------------------------------------------------------------------
(* What the documentation says and the code does not do. *)

\* Request r has rotated the token it was shown and is about to answer with a successor.
HasRotated(r) == pc[r] = "respond" /\ txn[r].op = "refresh"

\* docs/ARCHITECTURE_OVERVIEW.md:109: rotation on refresh invalidates prior token.  So two
\* refreshes never both commit a successor of one token.
TokenRotatesOnce ==
  \A r, q \in Requests : r # q /\ HasRotated(r) /\ HasRotated(q) =>
    txn[r].presented # txn[q].presented

\* docs/ARCHITECTURE_OVERVIEW.md:120: one-time use semantics (used_at).
ResetTokenSingleUse ==
  [][\A r \in Requests : Commit(r) /\ txn[r].op = "reset" =>
       reset_state[txn[r].presented] = "unused"]_vars

\* docs/ARCHITECTURE_OVERVIEW.md:89: failed-attempt accounting + lockout progression.
FailedAttemptsAreCounted ==
  [][\A r \in Requests : pc[r] = "raise" /\ txn[r].failed > 0 /\ pc'[r] = "idle" =>
       failed_login_attempts'[txn[r].user] >= txn[r].failed]_vars

=============================================================================
