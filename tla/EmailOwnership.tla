--------------------------- MODULE EmailOwnership ---------------------------
(***************************************************************************)
(* Who owns an email address: AuthService.register, verify_email,          *)
(* request_email_change and confirm_email_change as concurrent requests,   *)
(* each one database transaction at READ COMMITTED.  Handlers check that   *)
(* an address is free on committed rows; the unique index on               *)
(* users.normalized_email decides when they write, and an UPDATE sets only *)
(* the columns whose values differ from those the handler loaded.          *)
(***************************************************************************)
EXTENDS FiniteSets

CONSTANTS
  Users,             \* ids of users rows
  Emails,            \* addresses as typed
  normalize_email,   \* the normal form of each address
  Allowed,           \* the addresses that the email domain hooks accept
  Slugs,             \* slugs of default organizations
  TokenIds,          \* ids of verification_tokens rows, EMAIL_VERIFY and EMAIL_CHANGE
  Requests,          \* request slots: how many requests may run at once
  None               \* no value (a NULL column, an unset variable)

\* strip and lower, applied twice, give what they gave once.
ASSUME NormalForms ==
  /\ normalize_email \in [Emails -> Emails]
  /\ \A e \in Emails : normalize_email[normalize_email[e]] = normalize_email[e]

\* The domain is compared in lower case, so an address is as good as its normal form.
ASSUME Domains ==
  /\ Allowed \subseteq Emails
  /\ \A e \in Emails : e \in Allowed <=> normalize_email[e] \in Allowed

ASSUME RowNames ==
  /\ Users \cap Emails = {} /\ Users \cap TokenIds = {} /\ Users \cap Slugs = {}
  /\ Emails \cap TokenIds = {} /\ Emails \cap Slugs = {} /\ TokenIds \cap Slugs = {}
  /\ None \notin Users \cup Emails \cup TokenIds \cup Slugs

VARIABLES
  email, normalized_email, is_verified, slug,       \* users, and their default organizations
  token_state, token_type, token_user, token_email, \* verification_tokens
  expired,         \* unused tokens whose expires_at has passed
  mailed,          \* the address at which a token arrived
  pc,              \* the statement a request executes next
  txn,             \* what a request's handler knows
  held,            \* rows and index entries that a request's transaction has locked
  proven           \* history: addresses whose token was presented for a user

users == <<email, normalized_email, is_verified, slug>>
verification_tokens == <<token_state, token_type, token_user, token_email>>
vars == <<users, verification_tokens, expired, mailed, pc, txn, held, proven>>

-----------------------------------------------------------------------------
Confirming == {"verify", "confirm"}
Columns == {"email", "normalized_email", "is_verified"}

Txn == [op : {"none", "register", "request"} \cup Confirming,
        user : Users \cup {None}, token : TokenIds \cup {None},
        email : Emails \cup {None}, slug : Slugs \cup {None},
        sets : SUBSET Columns]

NoTxn == [op |-> "none", user |-> None, token |-> None, email |-> None, slug |-> None,
          sets |-> {}]

Exists(u) == email[u] # None

TypeOK ==
  /\ email \in [Users -> Emails \cup {None}]
  /\ normalized_email \in [Users -> Emails \cup {None}]
  /\ is_verified \in [Users -> BOOLEAN]
  /\ slug \in [Users -> Slugs \cup {None}]
  /\ token_state \in [TokenIds -> {"absent", "unused", "used"}]
  /\ token_type \in [TokenIds -> {"EMAIL_VERIFY", "EMAIL_CHANGE"}]
  /\ token_user \in [TokenIds -> Users \cup {None}]
  /\ token_email \in [TokenIds -> Emails \cup {None}]
  /\ expired \subseteq TokenIds
  /\ mailed \in [TokenIds -> Emails \cup {None}]
  /\ pc \in [Requests -> {"idle", "user", "org", "token", "consume", "update", "commit", "mail"}]
  /\ txn \in [Requests -> Txn]
  /\ held \in [Requests -> SUBSET (Users \cup Emails \cup TokenIds \cup Slugs)]
  /\ proven \in [Users -> SUBSET Emails]
  \* users, credentials, organization, membership and token are one transaction
  /\ \A u \in Users : Exists(u) => normalized_email[u] # None /\ slug[u] # None
  /\ \A v \in TokenIds : token_state[v] # "absent" => /\ token_user[v] \in Users
                                                      /\ Exists(token_user[v])
                                                      /\ token_type[v] = "EMAIL_CHANGE" <=>
                                                         token_email[v] # None

-----------------------------------------------------------------------------
(* Locks and ids. *)

\* No other transaction has locked x.
Free(r, x) == \A q \in Requests \ {r} : x \notin held[q]

Hold(r, xs) == held' = [held EXCEPT ![r] = @ \cup xs]

\* Ids are drawn at random: any that no row and no request has.
NewUser(u) == ~Exists(u) /\ \A q \in Requests : txn[q].user # u
NewToken(v) == token_state[v] = "absent" /\ \A q \in Requests : txn[q].token # v

\* What the SELECT of a handler finds.
Taken(k) == \E w \in Users : normalized_email[w] = k

\* Fault: an index that is not unique.
IndexIgnored(k, u) == FALSE

\* The unique index on normalized_email has an entry of another user than u.
IndexTaken(k, u) == \E w \in Users \ {u} : normalized_email[w] = k

-----------------------------------------------------------------------------
Init ==
  /\ email = [u \in Users |-> None]
  /\ normalized_email = [u \in Users |-> None]
  /\ is_verified = [u \in Users |-> FALSE]
  /\ slug = [u \in Users |-> None]
  /\ token_state = [v \in TokenIds |-> "absent"]
  /\ token_type = [v \in TokenIds |-> "EMAIL_VERIFY"]
  /\ token_user = [v \in TokenIds |-> None]
  /\ token_email = [v \in TokenIds |-> None]
  /\ expired = {}
  /\ mailed = [v \in TokenIds |-> None]
  /\ pc = [r \in Requests |-> "idle"]
  /\ txn = [r \in Requests |-> NoTxn]
  /\ held = [r \in Requests |-> {}]
  /\ proven = [u \in Users |-> {}]

\* The clock passes expires_at.
Expire(v) ==
  /\ token_state[v] = "unused" /\ v \notin expired
  /\ expired' = expired \cup {v}
  /\ UNCHANGED <<users, verification_tokens, mailed, pc, txn, held, proven>>

-----------------------------------------------------------------------------
(* The first step of a request: read, check, and go on or be refused. *)

Begin(r, step, t) ==
  /\ pc[r] = "idle"
  /\ pc' = [pc EXCEPT ![r] = step]
  /\ txn' = [txn EXCEPT ![r] = t]
  /\ UNCHANGED <<users, verification_tokens, expired, mailed, held, proven>>

\* run_email_domain_checks
DomainAccepted(e) == e \in Allowed

RegisterChecked(r, e, s) ==
  /\ ~Taken(normalize_email[e]) /\ DomainAccepted(e)
  /\ \E u \in Users, v \in TokenIds :
       /\ NewUser(u) /\ NewToken(v)
       /\ Begin(r, "user", [NoTxn EXCEPT !.op = "register", !.user = u, !.token = v,
                                         !.email = e, !.slug = s])

\* ConflictError email_exists, or ValidationError email_domain_not_allowed.
RegisterRefused(r, e) ==
  /\ pc[r] = "idle" /\ (Taken(normalize_email[e]) \/ ~DomainAccepted(e))
  /\ UNCHANGED vars

\* Fault: the domain is a condition of registration only.
ChangeToAnyDomain(r, u, e) ==
  /\ Exists(u) /\ ~Taken(normalize_email[e])
  /\ \E v \in TokenIds :
       /\ NewToken(v)
       /\ Begin(r, "token", [NoTxn EXCEPT !.op = "request", !.user = u, !.token = v,
                                          !.email = e])

\* The caller has an access token.  It need not be verified: the OAuth callback answers an
\* account that is not, and its is_verified = True is never committed.
ChangeChecked(r, u, e) ==
  /\ Exists(u) /\ ~Taken(normalize_email[e]) /\ DomainAccepted(e)
  /\ \E v \in TokenIds :
       /\ NewToken(v)
       /\ Begin(r, "token", [NoTxn EXCEPT !.op = "request", !.user = u, !.token = v,
                                          !.email = e])

\* The first half of _consume_token, by someone who received the mail.
TokenChecked(r, v, type, op) ==
  /\ mailed[v] # None /\ token_type[v] = type
  /\ token_state[v] = "unused" /\ v \notin expired
  /\ Begin(r, "consume", [NoTxn EXCEPT !.op = op, !.user = token_user[v], !.token = v,
                                       !.email = token_email[v]])

VerifyChecked(r, v) == TokenChecked(r, v, "EMAIL_VERIFY", "verify")
ConfirmChecked(r, v) == TokenChecked(r, v, "EMAIL_CHANGE", "confirm")

-----------------------------------------------------------------------------
(* The statements of a request in flight. *)

At(r, step) == pc[r] = step /\ UNCHANGED <<users, verification_tokens, expired, mailed, proven>>
Goto(r, step) == pc' = [pc EXCEPT ![r] = step]

\* An INSERT or UPDATE waits for the transactions that hold the entry, and then finds it
\* free or fails with an IntegrityError.
InsertUser(r) ==
  LET key == normalize_email[txn[r].email] IN
  /\ At(r, "user") /\ Goto(r, "org")
  /\ Free(r, key) /\ ~IndexTaken(key, txn[r].user)
  /\ Hold(r, {key})
  /\ UNCHANGED txn

\* _create_default_org does not check the slug; the unique index does.
InsertOrg(r) ==
  /\ At(r, "org") /\ Goto(r, "commit")
  /\ Free(r, txn[r].slug) /\ \A w \in Users : slug[w] # txn[r].slug
  /\ Hold(r, {txn[r].slug})
  /\ UNCHANGED txn

\* The columns that a confirmation changes in the user row it has loaded.
Changed(t) ==
  {c \in Columns :
     \/ c = "is_verified" /\ ~is_verified[t.user]
     \/ c = "email" /\ t.op = "confirm" /\ email[t.user] # t.email
     \/ /\ c = "normalized_email" /\ t.op = "confirm"
        /\ normalized_email[t.user] # normalize_email[t.email]}

\* Fault: used_at is committed on its own.
ConsumeAlone(r) ==
  /\ pc[r] = "consume" /\ Free(r, txn[r].token)
  /\ token_state' = [token_state EXCEPT ![txn[r].token] = "used"]
  /\ txn' = [txn EXCEPT ![r].sets = Changed(txn[r])]
  /\ Goto(r, IF Changed(txn[r]) = {} THEN "commit" ELSE "update")
  /\ UNCHANGED <<users, token_type, token_user, token_email, expired, mailed, held, proven>>

\* used_at is flushed by the SELECT that loads the user.
Consume(r) ==
  /\ At(r, "consume") /\ Free(r, txn[r].token)
  /\ Hold(r, {txn[r].token})
  /\ txn' = [txn EXCEPT ![r].sets = Changed(txn[r])]
  /\ Goto(r, IF Changed(txn[r]) = {} THEN "commit" ELSE "update")

\* The index entries that the UPDATE of r replaces and adds.
Keys(r) == IF "normalized_email" \in txn[r].sets
           THEN {normalized_email[txn[r].user], normalize_email[txn[r].email]} ELSE {}

\* The flush of session.commit().
UpdateUser(r) ==
  LET xs == Keys(r) \cup {txn[r].user} IN
  /\ At(r, "update") /\ Goto(r, "commit")
  /\ \A x \in xs : Free(r, x)
  /\ \A k \in Keys(r) : ~IndexTaken(k, txn[r].user)
  /\ Hold(r, xs)
  /\ UNCHANGED txn

\* Fault: EMAIL_CHANGE tokens created without the new address (its default is None).
CreateTokenWithoutEmail(v, type, u, e) ==
  /\ token_state' = [token_state EXCEPT ![v] = "unused"]
  /\ token_type' = [token_type EXCEPT ![v] = type]
  /\ token_user' = [token_user EXCEPT ![v] = u]
  /\ UNCHANGED token_email

CreateToken(v, type, u, e) ==
  /\ token_state' = [token_state EXCEPT ![v] = "unused"]
  /\ token_type' = [token_type EXCEPT ![v] = type]
  /\ token_user' = [token_user EXCEPT ![v] = u]
  /\ token_email' = [token_email EXCEPT ![v] = e]

Leave(r, step) ==
  /\ pc' = [pc EXCEPT ![r] = step]
  /\ held' = [held EXCEPT ![r] = {}]

\* INSERT and COMMIT.  The foreign key waits for a change of the user's indexed column.
InsertToken(r) ==
  LET t == txn[r] IN
  /\ pc[r] = "token"
  /\ \A q \in Requests : "normalized_email" \in txn[q].sets => t.user \notin held[q]
  /\ CreateToken(t.token, "EMAIL_CHANGE", t.user, t.email)
  /\ Leave(r, "mail")
  /\ UNCHANGED <<users, expired, mailed, txn, proven>>

\* The COMMIT of register.
CommitRegistration(r) ==
  LET t == txn[r] IN
  /\ pc[r] = "commit" /\ t.op = "register"
  /\ email' = [email EXCEPT ![t.user] = t.email]
  /\ normalized_email' = [normalized_email EXCEPT ![t.user] = normalize_email[t.email]]
  /\ slug' = [slug EXCEPT ![t.user] = t.slug]
  /\ CreateToken(t.token, "EMAIL_VERIFY", t.user, None)
  /\ Leave(r, "mail")
  /\ UNCHANGED <<is_verified, expired, mailed, txn, proven>>

\* The COMMIT of verify_email and confirm_email_change.
CommitConfirmation(r) ==
  LET t == txn[r]
      u == t.user
      sets(c) == c \in t.sets
  IN
  /\ pc[r] = "commit" /\ t.op \in Confirming
  /\ email' = [email EXCEPT ![u] = IF sets("email") THEN t.email ELSE @]
  /\ normalized_email' = [normalized_email EXCEPT ![u] =
                            IF sets("normalized_email") THEN normalize_email[t.email] ELSE @]
  /\ is_verified' = [is_verified EXCEPT ![u] = sets("is_verified") \/ @]
  /\ token_state' = [token_state EXCEPT ![t.token] = "used"]
  /\ proven' = [proven EXCEPT ![u] = @ \cup {mailed[t.token]}]
  /\ Leave(r, "idle")
  /\ txn' = [txn EXCEPT ![r] = NoTxn]
  /\ UNCHANGED <<slug, token_type, token_user, token_email, expired, mailed>>

\* Fault: the confirmation of a change is mailed to the address it replaces.
MailCurrentAddress(r) ==
  /\ pc[r] = "mail"
  /\ mailed' = [mailed EXCEPT ![txn[r].token] = email[txn[r].user]]
  /\ Leave(r, "idle")
  /\ txn' = [txn EXCEPT ![r] = NoTxn]
  /\ UNCHANGED <<users, verification_tokens, expired, proven>>

\* The mail arrives, or SMTP fails after the token was committed.
Mail(r) ==
  /\ pc[r] = "mail"
  /\ \E arrived \in {None, txn[r].email} : mailed' = [mailed EXCEPT ![txn[r].token] = arrived]
  /\ Leave(r, "idle")
  /\ txn' = [txn EXCEPT ![r] = NoTxn]
  /\ UNCHANGED <<users, verification_tokens, expired, proven>>

\* The session is closed without a COMMIT.
Rollback(r) ==
  /\ Leave(r, "idle")
  /\ txn' = [txn EXCEPT ![r] = NoTxn]
  /\ UNCHANGED <<users, verification_tokens, expired, mailed, proven>>

\* A unique index refuses the statement, whatever the handler had checked.
IntegrityError(r) ==
  LET t == txn[r] IN
  /\ \/ /\ pc[r] = "user"
        /\ Free(r, normalize_email[t.email]) /\ IndexTaken(normalize_email[t.email], t.user)
     \/ pc[r] = "org" /\ Free(r, t.slug) /\ \E w \in Users : slug[w] = t.slug
     \/ /\ pc[r] = "update" /\ \A x \in Keys(r) \cup {t.user} : Free(r, x)
        /\ \E k \in Keys(r) : IndexTaken(k, t.user)
  /\ Rollback(r)

\* The worker or its database connection dies between two statements, or PostgreSQL
\* ends the transaction to break a deadlock.
Fail(r) == pc[r] \notin {"idle", "mail"} /\ Rollback(r)

-----------------------------------------------------------------------------
Next ==
  \/ \E v \in TokenIds : Expire(v)
  \/ \E r \in Requests :
       \/ \E e \in Emails, s \in Slugs : RegisterChecked(r, e, s)
       \/ \E e \in Emails : RegisterRefused(r, e)
       \/ \E u \in Users, e \in Emails : ChangeChecked(r, u, e)
       \/ \E v \in TokenIds : VerifyChecked(r, v) \/ ConfirmChecked(r, v)
       \/ InsertUser(r) \/ InsertOrg(r) \/ CommitRegistration(r)
       \/ InsertToken(r) \/ Mail(r)
       \/ Consume(r) \/ UpdateUser(r) \/ CommitConfirmation(r)
       \/ IntegrityError(r) \/ Fail(r)

Spec == Init /\ [][Next]_vars

-----------------------------------------------------------------------------
(* Safety. *)

\* No two accounts have the same normalized address, although register looks before it
\* inserts and confirm_email_change does not look at all.
OneAccountPerAddress ==
  \A u, w \in Users : u # w /\ Exists(u) => normalized_email[u] # normalized_email[w]

\* The address of a verified user, in the spelling the user has, once received a token
\* that was then presented for this user.
VerifiedAddressWasProven == \A u \in Users : is_verified[u] => email[u] \in proven[u]

\* No account ever has an address that the domain hooks would have refused, although
\* confirm_email_change, which sets one, does not ask them.
AddressesAreAllowed ==
  \A u \in Users : Exists(u) => {email[u], normalized_email[u]} \subseteq Allowed

\* An account that is not verified keeps a verification token that no confirmation has
\* spent, whatever refused or interrupted one: no operation would send another.
UnverifiedCanVerify ==
  \A u \in Users : Exists(u) /\ ~is_verified[u] =>
    \E v \in TokenIds : /\ token_user[v] = u /\ token_type[v] = "EMAIL_VERIFY"
                        /\ token_state[v] = "unused"

\* A token is spent in the step that has its effect: the user is verified, and the address
\* is the one in the token if the handler found another.  Nothing else changes an address
\* or verifies a user.
TokenSpentWithEffect ==
  [][/\ \A v \in TokenIds : token_state[v] = "unused" /\ token_state'[v] = "used" =>
          \E r \in Requests :
            /\ txn[r].token = v /\ is_verified'[token_user[v]]
            /\ "email" \in txn[r].sets => email'[token_user[v]] = token_email[v]
     /\ \A u \in Users :
          Exists(u) /\ <<email[u], is_verified[u]>> # <<email'[u], is_verified'[u]>> =>
            \E v \in TokenIds : /\ token_user[v] = u /\ token_state'[v] = "used"
                                /\ email'[u] # email[u] => token_email[v] = email'[u]]_vars

-----------------------------------------------------------------------------
(* The inductive invariant behind them. *)

Creating == {"register", "request"}

\* The handler of r has set the variables that its statements use.
Prepared(r) ==
  LET t == txn[r] IN
  /\ pc[r] \in {"user", "org"} => t.op = "register"
  /\ pc[r] = "token" => t.op = "request"
  /\ pc[r] \in {"consume", "update"} => t.op \in Confirming
  /\ pc[r] = "mail" => t.op \in Creating
  /\ t.op # "none" => t.user \in Users /\ t.token \in TokenIds
  /\ t.op \in Creating \cup {"confirm"} => t.email \in Allowed
  /\ t.op = "register" => t.slug \in Slugs
  /\ t.op = "verify" => t.sets \subseteq {"is_verified"}

\* What the handler of r found is still so, or a column of the row it updates covers it.
StillSo(r) ==
  LET t == txn[r]
      v == txn[r].token
  IN
  /\ t.op = "register" /\ pc[r] # "mail" => ~Exists(t.user)
  /\ t.op \in Creating => /\ mailed[v] = None
                          /\ pc[r] = "mail" <=> token_state[v] # "absent"
  /\ t.op = "request" => /\ Exists(t.user)
                         /\ pc[r] = "mail" => /\ token_type[v] = "EMAIL_CHANGE"
                                               /\ token_email[v] = t.email
  /\ t.op = "register" /\ pc[r] = "mail" =>
       /\ token_type[v] = "EMAIL_VERIFY" /\ token_user[v] = t.user
       /\ is_verified[t.user] \/ email[t.user] = t.email
  /\ t.op \in Confirming =>
       /\ token_state[v] # "absent" /\ mailed[v] # None
       /\ token_user[v] = t.user /\ token_email[v] = t.email
       /\ t.op = "confirm" <=> token_type[v] = "EMAIL_CHANGE"
       /\ pc[r] \in {"update", "commit"} =>
            /\ "is_verified" \in t.sets \/ is_verified[t.user]
            /\ t.op = "confirm" => \/ "email" \in t.sets \/ is_verified[t.user]
                                   \/ email[t.user] = t.email

\* r has written the index entry of the address it gives to its user.
WroteKey(r) ==
  \/ txn[r].op = "register" /\ pc[r] \in {"org", "commit"}
  \/ txn[r].op = "confirm" /\ pc[r] = "commit" /\ "normalized_email" \in txn[r].sets

\* Then nobody else has that address, and r has the entry locked.
KeyReserved(r) ==
  LET key == normalize_email[txn[r].email] IN
  WroteKey(r) => key \in held[r] /\ \A w \in Users \ {txn[r].user} : normalized_email[w] # key

\* Two requests lock different things and create different rows.
Apart(r, q) ==
  /\ held[r] \cap held[q] = {}
  /\ txn[r].op \in Creating /\ txn[q].op \in Creating => txn[r].token # txn[q].token
  /\ txn[r].op = "register" /\ txn[q].op = "register" => txn[r].user # txn[q].user

\* A token has been mailed to the address it is about: the new one for a change, and else
\* that of an account that was not verified since.
TokensInv ==
  /\ \A u \in Users : is_verified[u] => Exists(u)
  /\ \A v \in TokenIds :
       IF token_state[v] = "absent" THEN mailed[v] = None
       ELSE IF token_type[v] = "EMAIL_CHANGE"
       THEN token_email[v] \in Allowed /\ mailed[v] \in {None, token_email[v]}
       ELSE is_verified[token_user[v]] \/ mailed[v] \in {None, email[token_user[v]]}

\* What every request in flight relies on, and what each may rely on others for.
RequestsInv ==
  /\ TokensInv
  /\ \A r \in Requests : Prepared(r) /\ StillSo(r) /\ KeyReserved(r)
  /\ \A r, q \in Requests : r # q => Apart(r, q)

-----------------------------------------------------------------------------
(* What the documentation says and the code does not do. *)

\* docs/ARCHITECTURE_OVERVIEW.md:85: user + credential lookup by normalized email: the
\* normalized form of an account's address finds it.
LookupFindsEmail ==
  \A u \in Users : Exists(u) => normalized_email[u] = normalize_email[email[u]]
=============================================================================
