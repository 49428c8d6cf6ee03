------------------------------- MODULE OAuth -------------------------------
(***************************************************************************)
(* Login through an OAuth provider: OAuthService.authorization_url and     *)
(* callback over OAuthStateStore.  A flow begins with a state and a PKCE   *)
(* verifier put into Redis, goes through the browser and the provider, and *)
(* ends with a callback that consumes the state, exchanges the code, finds *)
(* or creates the account and answers with tokens.                         *)
(*                                                                         *)
(* A callback is one database transaction, which waits at the unique       *)
(* indexes for others that insert the same address or slug.  The route     *)
(* never commits it: closing the session rolls everything back, and so     *)
(* external_identities has no row and its SELECT finds none.               *)
(***************************************************************************)
EXTENDS FiniteSets

CONSTANTS
  Flows,             \* values of state: runs of the authorization endpoint
  Providers,
  Configured,        \* the providers with a redirect URI in the settings
  Subjects,          \* accounts at the providers
  subject_provider,  \* the provider of each
  subject_email,     \* its normalized address
  subject_slug,      \* the slug made of its display name
  Emails, Slugs,
  Requests,          \* request slots: how many callbacks may run at once
  None               \* no value (no row, an unset variable)

ASSUME Accounts ==
  /\ Configured \subseteq Providers
  /\ subject_provider \in [Subjects -> Providers]
  /\ subject_email \in [Subjects -> Emails]
  /\ subject_slug \in [Subjects -> Slugs]
ASSUME RowNames ==
  Emails \cap Slugs = {} /\ None \notin Emails \cup Slugs \cup Flows \cup Subjects \cup Providers

VARIABLES
  redis,          \* whether init_redis reached Redis
  state,          \* oauth:state:<state>: what became of the entry of each flow
  provider,       \* the provider a flow went to
  code,           \* the subject that consented, to whom the flow's code belongs
  spent,          \* codes that the provider has exchanged
  slug,           \* users by address: the slug of their organization, or None
  is_verified,
  joined,         \* users with a second membership
  pc,             \* the statement a callback executes next
  txn,            \* what a callback's handler knows
  answers         \* token pairs that reached a client

accounts == <<slug, is_verified, joined>>
flows == <<state, provider, code, spent>>
vars == <<redis, flows, accounts, pc, txn, answers>>

-----------------------------------------------------------------------------
Txn == [provider : Providers \cup {None}, flow : Flows \cup {None}, code : Flows \cup {None},
        subject : Subjects \cup {None}, new : BOOLEAN]

NoTxn == [provider |-> None, flow |-> None, code |-> None, subject |-> None, new |-> FALSE]

Steps == {"idle", "exchange", "identify", "insert", "org", "mint", "respond", "raise"}

\* A callback whose state was accepted, and one whose provider named a subject.
Accepted(r) == pc[r] \notin {"idle", "raise"}
Identified(r) == Accepted(r) /\ pc[r] # "exchange"

TypeOK ==
  /\ redis \in BOOLEAN
  /\ state \in [Flows -> {"absent", "stored", "lost", "expired", "consumed"}]
  /\ provider \in [Flows -> Providers \cup {None}]
  /\ code \in [Flows -> Subjects \cup {None}]
  /\ spent \subseteq Flows
  /\ slug \in [Emails -> Slugs \cup {None}]
  /\ is_verified \in [Emails -> BOOLEAN]
  /\ joined \subseteq Emails
  /\ pc \in [Requests -> Steps]
  /\ txn \in [Requests -> Txn]
  /\ answers \subseteq [flow : Flows, subject : Subjects, new : BOOLEAN]
  /\ \A r \in Requests : Accepted(r) => txn[r].flow # None
  /\ \A r \in Requests : Identified(r) => txn[r].subject # None

-----------------------------------------------------------------------------
(* Accounts, index entries and locks. *)

Exists(e) == slug[e] # None
EmailOf(r) == subject_email[txn[r].subject]
SlugOf(r) == subject_slug[txn[r].subject]

\* The index entries and rows that the transaction of r has locked: of the user it
\* inserts and the organization, or of the user it marks as verified.  A callback that
\* raises is as good as rolled back.
Held(r) ==
  CASE pc[r] = "org" -> {EmailOf(r)}
    [] pc[r] \in {"mint", "respond"} /\ txn[r].new -> {EmailOf(r), SlugOf(r)}
    [] pc[r] \in {"mint", "respond"} /\ ~txn[r].new /\ ~is_verified[EmailOf(r)] -> {EmailOf(r)}
    [] OTHER -> {}

Free(r, x) == \A q \in Requests \ {r} : x \notin Held(q)

\* Fault: indexes that are not unique.
IndexIgnored(x) == FALSE

\* The unique indexes on normalized_email and slug.
IndexTaken(x) == \E e \in Emails : Exists(e) /\ x \in {e, slug[e]}

-----------------------------------------------------------------------------
Init ==
  /\ redis \in BOOLEAN
  /\ state = [f \in Flows |-> "absent"]
  /\ provider = [f \in Flows |-> None]
  /\ code = [f \in Flows |-> None]
  /\ spent = {} /\ joined = {} /\ answers = {}
  /\ slug = [e \in Emails |-> None]
  /\ is_verified = [e \in Emails |-> FALSE]
  /\ pc = [r \in Requests |-> "idle"]
  /\ txn = [r \in Requests |-> NoTxn]

-----------------------------------------------------------------------------
(* What the rest of the application commits meanwhile. *)

\* register
Register(e, s) ==
  /\ ~Exists(e) /\ ~IndexTaken(s)
  /\ \A r \in Requests : {e, s} \cap Held(r) = {}
  /\ slug' = [slug EXCEPT ![e] = s]
  /\ UNCHANGED <<redis, flows, is_verified, joined, pc, txn, answers>>

\* verify_email waits for a callback that has marked the user too.
Verify(e) ==
  /\ Exists(e) /\ ~is_verified[e]
  /\ \A r \in Requests : e \notin Held(r)
  /\ is_verified' = [is_verified EXCEPT ![e] = TRUE]
  /\ UNCHANGED <<redis, flows, slug, joined, pc, txn, answers>>

\* accept_invitation, or create_org, also by a user to whom an earlier callback gave an
\* access token
Join(e) ==
  /\ Exists(e) /\ e \notin joined
  /\ joined' = joined \cup {e}
  /\ UNCHANGED <<redis, flows, slug, is_verified, pc, txn, answers>>

-----------------------------------------------------------------------------
(* A flow on its way. *)

\* SETEX with Redis; without, a dictionary that dies with the request that filled it.
Store(f) == state' = [state EXCEPT ![f] = IF redis THEN "stored" ELSE "lost"]

Authorize(f, p) ==
  /\ provider[f] = None /\ p \in Configured
  /\ Store(f)
  /\ provider' = [provider EXCEPT ![f] = p]
  /\ UNCHANGED <<redis, code, spent, accounts, pc, txn, answers>>

\* OAUTH_STATE_TTL_SECONDS have passed.
ExpireState(f) ==
  /\ state[f] = "stored"
  /\ state' = [state EXCEPT ![f] = "expired"]
  /\ UNCHANGED <<redis, provider, code, spent, accounts, pc, txn, answers>>

\* A subject logs in at the provider, which sends the browser back with a code.
Consent(f, s) ==
  /\ code[f] = None /\ provider[f] = subject_provider[s]
  /\ code' = [code EXCEPT ![f] = s]
  /\ UNCHANGED <<redis, state, provider, spent, accounts, pc, txn, answers>>

-----------------------------------------------------------------------------
(* The callback of a client that may confuse two flows, or send one twice. *)

Goto(r, step) == pc' = [pc EXCEPT ![r] = step]

\* Fault: GET, and a DEL that the callback leaves for later.
ConsumeByGet(f) == state[f] = "stored" /\ UNCHANGED state

\* Fault: an entry that nothing removes when its time is up.
ConsumeExpired(f) ==
  /\ state[f] \in {"stored", "expired"}
  /\ state' = [state EXCEPT ![f] = "consumed"]

\* GETDEL
Consume(f) ==
  /\ state[f] = "stored"
  /\ state' = [state EXCEPT ![f] = "consumed"]

StateAccepted(r, p, f, g) ==
  /\ pc[r] = "idle" /\ code[g] # None
  /\ Consume(f)
  /\ Goto(r, "exchange")
  /\ txn' = [txn EXCEPT ![r] = [provider |-> p, flow |-> f, code |-> g,
                                subject |-> None, new |-> FALSE]]
  /\ UNCHANGED <<redis, provider, code, spent, accounts, answers>>

\* AuthError oauth_state_invalid.
StateRefused(r, f) ==
  /\ pc[r] = "idle" /\ state[f] \notin {"absent", "stored"}
  /\ UNCHANGED vars

\* Fault: the authorization URL carries no code_challenge.
Unchallenged(t) == TRUE

\* The verifier found under the state is the one whose challenge went with the code.
ChallengeMatches(t) == t.flow = t.code

\* Fault: the code is exchanged, and nobody asks who the user is.
ExchangeOnly(r) ==
  LET t == txn[r] IN
  /\ pc[r] = "exchange"
  /\ t.code \notin spent /\ provider[t.code] = t.provider /\ ChallengeMatches(t)
  /\ spent' = spent \cup {t.code}
  /\ Goto(r, "identify")
  /\ UNCHANGED <<redis, state, provider, code, accounts, txn, answers>>

\* exchange_code and fetch_user_info
Exchange(r) ==
  LET t == txn[r] IN
  /\ pc[r] = "exchange"
  /\ t.code \notin spent /\ provider[t.code] = t.provider /\ ChallengeMatches(t)
  /\ spent' = spent \cup {t.code}
  /\ txn' = [txn EXCEPT ![r].subject = code[t.code]]
  /\ Goto(r, "identify")
  /\ UNCHANGED <<redis, state, provider, code, accounts, answers>>

\* The provider refuses, cannot be reached, or has not verified the address; it may have
\* taken the code before.
ExchangeFails(r) ==
  LET t == txn[r] IN
  /\ pc[r] = "exchange"
  /\ spent' \in {spent} \cup {spent \cup {t.code} : p \in Providers \cap {provider[t.code]}}
  /\ Goto(r, "raise")
  /\ UNCHANGED <<redis, state, provider, code, accounts, txn, answers>>

\* The SELECT by normalized address, and of the memberships: scalar_one_or_none raises
\* where there are two.  The SELECT flushes is_verified.
FindUser(r) ==
  LET e == EmailOf(r) IN
  /\ pc[r] = "identify" /\ Exists(e)
  /\ is_verified[e] \/ Free(r, e)
  /\ Goto(r, IF e \in joined THEN "raise" ELSE "mint")
  /\ UNCHANGED <<redis, flows, accounts, txn, answers>>

NoUser(r) ==
  /\ pc[r] = "identify" /\ ~Exists(EmailOf(r))
  /\ txn' = [txn EXCEPT ![r].new = TRUE]
  /\ Goto(r, "insert")
  /\ UNCHANGED <<redis, flows, accounts, answers>>

\* An INSERT waits for the transactions that hold its index entry, and then finds it
\* free or fails with an IntegrityError.
InsertUser(r) ==
  /\ pc[r] = "insert" /\ Free(r, EmailOf(r)) /\ ~IndexTaken(EmailOf(r))
  /\ Goto(r, "org")
  /\ UNCHANGED <<redis, flows, accounts, txn, answers>>

\* Credential, identity and organization; _ensure_personal_org does not check the slug.
InsertOrg(r) ==
  /\ pc[r] = "org" /\ Free(r, SlugOf(r)) /\ ~IndexTaken(SlugOf(r))
  /\ Goto(r, "mint")
  /\ UNCHANGED <<redis, flows, accounts, txn, answers>>

\* _get_primary_membership, which raises where there are two memberships by now,
\* create_access_token, and the INSERT of create_refresh_token
Mint(r) ==
  /\ pc[r] = "mint"
  /\ Goto(r, IF EmailOf(r) \in joined THEN "raise" ELSE "respond")
  /\ UNCHANGED <<redis, flows, accounts, txn, answers>>

-----------------------------------------------------------------------------
(* How a callback ends: in every case the session is closed without a COMMIT. *)

EndSession(r) ==
  /\ Goto(r, "idle")
  /\ txn' = [txn EXCEPT ![r] = NoTxn]
  /\ UNCHANGED <<redis, flows, accounts>>

\* The response arrives, or is lost.
Respond(r) ==
  LET t == txn[r] IN
  /\ pc[r] = "respond"
  /\ answers' \in {answers,
                   answers \cup {[flow |-> t.flow, subject |-> t.subject, new |-> t.new]}}
  /\ EndSession(r)

\* Fault: an INSERT that conflicts waits until the other row is gone.
ConflictWaits(r) == FALSE

\* A unique index refuses the statement.
IntegrityError(r) ==
  /\ \/ pc[r] = "insert" /\ Free(r, EmailOf(r)) /\ IndexTaken(EmailOf(r))
     \/ pc[r] = "org" /\ Free(r, SlugOf(r)) /\ IndexTaken(SlugOf(r))
  /\ EndSession(r) /\ UNCHANGED answers

\* A handler that raised.
Abort(r) == pc[r] = "raise" /\ EndSession(r) /\ UNCHANGED answers

\* The worker or a connection of it dies: the state stays consumed.
Fail(r) == Accepted(r) /\ EndSession(r) /\ UNCHANGED answers

-----------------------------------------------------------------------------
Progress(r) ==
  \/ Exchange(r) \/ ExchangeFails(r) \/ FindUser(r) \/ NoUser(r)
  \/ InsertUser(r) \/ InsertOrg(r) \/ Mint(r)
  \/ Respond(r) \/ IntegrityError(r) \/ Abort(r)

Next ==
  \/ \E e \in Emails : Verify(e) \/ Join(e) \/ \E s \in Slugs : Register(e, s)
  \/ \E f \in Flows :
       \/ \E p \in Providers : Authorize(f, p)
       \/ ExpireState(f)
       \/ \E s \in Subjects : Consent(f, s)
  \/ \E r \in Requests :
       \/ \E p \in Providers, f, g \in Flows : StateAccepted(r, p, f, g)
       \/ \E f \in Flows : StateRefused(r, f)
       \/ Progress(r) \/ Fail(r)

Spec == Init /\ [][Next]_vars

(* The event loop, the provider (or the client library's timeout) and PostgreSQL's lock *)
(* queue let every callback go on; nothing makes one arrive or fail.                    *)
FairSpec == Spec /\ \A r \in Requests : SF_vars(Progress(r))

-----------------------------------------------------------------------------
(* Safety. *)

\* However often and however close together a client sends a callback, each state lets
\* one of them through: consume reads and deletes it in one command.
StateAdmitsOneCallback ==
  \A r \in Requests : Accepted(r) =>
    /\ state[txn[r].flow] = "consumed"
    /\ \A q \in Requests : q # r /\ Accepted(q) => txn[q].flow # txn[r].flow

\* Whoever gets tokens consented in the very flow whose state came with the callback:
\* the stored verifier binds the code to it, and no flow is answered for two subjects.
AnswersMatchFlow ==
  \A a \in answers :
    /\ code[a.flow] = a.subject /\ a.flow \in spent
    /\ \A b \in answers : b.flow = a.flow => b = a

\* A user is never inserted for an address that has an account, nor by two callbacks at
\* once, although callback looks before others have inserted.
OneInsertPerAddress ==
  \A r \in Requests : pc[r] \in {"org", "mint", "respond"} /\ txn[r].new =>
    /\ ~Exists(EmailOf(r))
    /\ \A q \in Requests : q # r /\ pc[q] \in {"org", "mint", "respond"} =>
         EmailOf(q) # EmailOf(r)

\* Every callback ends, although callbacks wait for each other's rows, registrations
\* take their addresses and slugs, and some fail.
CallbacksFinish == \A r \in Requests : pc[r] # "idle" ~> pc[r] = "idle"

-----------------------------------------------------------------------------
(* The inductive invariant behind them. *)

\* The callback has a user: one it inserted, or one it found.
HasUser(r) == pc[r] \in {"org", "mint", "respond"}

\* What the handler of r knows, and that it is still so.
Knows(r) ==
  LET t == txn[r] IN
  /\ Accepted(r) => /\ t.flow \in Flows /\ t.code \in Flows
                    /\ state[t.flow] = "consumed" /\ code[t.code] # None
                    /\ \A a \in answers : a.flow # t.flow
  /\ Identified(r) => /\ t.subject \in Subjects /\ t.flow = t.code
                      /\ code[t.flow] = t.subject /\ t.flow \in spent
  /\ pc[r] \in {"exchange", "identify"} => ~t.new
  /\ pc[r] \in {"insert", "org"} => t.new
  /\ HasUser(r) => (t.new <=> ~Exists(EmailOf(r)))

\* Two callbacks have two states, and do not insert one address.
Apart(r, q) ==
  /\ Accepted(r) /\ Accepted(q) => txn[r].flow # txn[q].flow
  /\ HasUser(r) /\ HasUser(q) /\ (txn[r].new \/ txn[q].new) => EmailOf(r) # EmailOf(q)

\* A state is stored once, and gone when its flow has been answered.
CallbacksInv ==
  /\ \A f \in Flows : provider[f] = None => state[f] = "absent"
  /\ \A a \in answers : state[a.flow] = "consumed"
  /\ \A r \in Requests : Knows(r)
  /\ \A r, q \in Requests : r # q => Apart(r, q)

-----------------------------------------------------------------------------
(* OAuth implements Logins: a flow may be answered while its state is stored, and while *)
(* a callback that consumed the state is being handled.                                 *)

Pending(f) == state[f] = "stored" \/ \E r \in Requests : Accepted(r) /\ txn[r].flow = f

Promise ==
  INSTANCE Logins WITH
    pending <- {f \in Flows : Pending(f)},
    registered <- {e \in Emails : Exists(e)}

\* Whatever callbacks knew when others registered, consumed states or let them expire, a
\* login takes effect in one step that is right when the answer arrives: in a flow that had
\* not ended, for the subject that consented in it, as the user of its address if there
\* is one.
ImplementsLogins == Promise!Spec

-----------------------------------------------------------------------------
(* What the documentation says and the code does not do. *)

\* docs/ARCHITECTURE_OVERVIEW.md:144: no user found: create verified user + credential
\* placeholder + personal org.  Who was answered as a new user has an account.
NewUsersHaveAccounts ==
  \A a \in answers : a.new => Exists(subject_email[a.subject])

=============================================================================
