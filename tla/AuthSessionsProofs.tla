------------------------- MODULE AuthSessionsProofs -------------------------
(* Proofs of the safety properties of AuthSessions, for all values of its constants. *)
EXTENDS AuthSessions, TLAPS

-----------------------------------------------------------------------------
(* Type correctness and the existence of rows. *)

LEMMA InitOK == Init => TypeOK /\ RowsExist
  BY RowNames, Durations
  DEF Init, TypeOK, TablesOK, HandlersOK, LocksOK, Prepared, Reaching, Steps, Txn, NoTxn,
      Ops, Orgs, SessionOps, PasswordOps, RowsExist, HandedOutTokensArePersisted

\* A request that starts has set the variables of its handler.
LEMMA BeginOK ==
  ASSUME HandlersOK, NEW r \in Requests, NEW step \in Steps, NEW t \in Txn,
         Prepared(step, t), Begin(r, step, t)
  PROVE  HandlersOK'
  BY DEF HandlersOK, Begin

\* A request that goes on without touching its variables needs only Prepared.
LEMMA GotoOK ==
  ASSUME HandlersOK, NEW r \in Requests, NEW step \in Steps,
         Prepared(step, txn[r]), Goto(r, step), txn' = txn
  PROVE  HandlersOK'
  BY DEF HandlersOK, Goto

\* A request that ends forgets its variables and its locks.
LEMMA LeaveOK ==
  ASSUME HandlersOK, LocksOK, NEW r \in Requests, Leave(r, "idle"),
         txn' = [txn EXCEPT ![r] = NoTxn], raced' \subseteq Requests \cup RefreshIds
  PROVE  HandlersOK' /\ LocksOK'
  <1>1. NoTxn \in Txn /\ Prepared("idle", NoTxn) /\ "idle" \in Steps
    BY RowNames DEF NoTxn, Txn, Prepared, Reaching, Ops, Orgs, SessionOps, PasswordOps, Steps
  <1>2. HandlersOK'
    BY <1>1 DEF HandlersOK, Leave
  <1>3. LocksOK'
    BY DEF LocksOK, Leave
  <1> QED BY <1>2, <1>3

LEMMA LeaveShape ==
  ASSUME HandlersOK, NEW r \in Requests, NEW step, Leave(r, step), NEW t,
         txn' = [txn EXCEPT ![r] = t]
  PROVE  /\ held' = [held EXCEPT ![r] = {}] /\ todo' = [todo EXCEPT ![r] = {}]
         /\ \A q \in Requests : q # r => pc'[q] = pc[q] /\ txn'[q] = txn[q]
         /\ pc'[r] = step /\ txn'[r] = t
  BY DEF HandlersOK, Leave

LEMMA LockOK ==
  ASSUME LocksOK, NEW r \in Requests, NEW x \in Rows, Lock(r, x)
  PROVE  held' \in [Requests -> SUBSET Rows]
  BY DEF LocksOK, Lock

LEMMA SessionsExist ==
  ASSUME NEW u, NEW t \in SessionsOf(u)
  PROVE  t \in RefreshIds /\ refresh_state[t] # "absent" /\ refresh_user[t] = u
  BY DEF SessionsOf

\* The first step of a handler that reads but does not write.
LEMMA ReadOK ==
  ASSUME TypeOK, RowsExist, NEW r \in Requests, NEW step \in Steps \ {"respond", "mail"},
         NEW t \in Txn, Prepared(step, t), Begin(r, step, t), UNCHANGED tables,
         t.op \in {"reset", "request"} => reset_state[t.presented] # "absent",
         raced' \subseteq Requests \cup RefreshIds,
         todo' \in [Requests -> SUBSET RefreshIds],
         \A q \in Requests : \A x \in todo'[q] : x \in todo[q] \/ refresh_state[x] # "absent"
  PROVE  TypeOK' /\ RowsExist'
  <1>1. HandlersOK'
    BY BeginOK DEF TypeOK
  <1>2. TypeOK'
    BY <1>1 DEF TypeOK, TablesOK, LocksOK, Begin, tables, clients, credentials,
                refresh_tokens, verification_tokens
  <1>3. RowsExist'
    BY DEF TypeOK, HandlersOK, RowsExist, HandedOutTokensArePersisted, Begin, tables,
           clients, credentials, refresh_tokens, verification_tokens
  <1> QED BY <1>2, <1>3

LEMMA MarkOK ==
  ASSUME LocksOK, NEW r \in Requests, NEW u, MarkIfRacing(r, u)
  PROVE  raced' \subseteq Requests \cup RefreshIds
  BY DEF LocksOK, MarkIfRacing

LEMMA ArriveOK ==
  ASSUME TypeOK, RowsExist, NEW r \in Requests, Arrive(r)
  PROVE  TypeOK' /\ RowsExist'
  <1> USE DEF SessionOps, PasswordOps
  <1>1. ASSUME NEW u \in Users, NEW p \in Passwords, NEW org \in Orgs,
               LoginVerified(r, u, p, org)
        PROVE  TypeOK' /\ RowsExist'
    <2> DEFINE t == [NoTxn EXCEPT !.op = "login", !.user = u, !.org = org]
    <2>1. t \in Txn /\ Prepared("flush", t) /\ "flush" \in Steps /\ t.op = "login"
      BY RowNames DEF Txn, NoTxn, Prepared, Reaching, Ops, Orgs, Steps
    <2>2. raced' \subseteq Requests \cup RefreshIds
      BY <1>1, MarkOK DEF TypeOK, LoginVerified
    <2> HIDE DEF t
    <2> QED BY <1>1, <2>1, <2>2, ReadOK DEF LoginVerified, t, TypeOK, LocksOK
  <1>2. ASSUME NEW u \in Users, NEW p \in Passwords, LoginWrongPassword(r, u, p)
        PROVE  TypeOK' /\ RowsExist'
    <2> DEFINE failed == failed_login_attempts[u] + 1
               t == [NoTxn EXCEPT !.op = "login", !.user = u, !.failed = failed,
                                  !.lockout = IF failed >= LOCKOUT_THRESHOLD
                                              THEN now + LOCKOUT_DURATION
                                              ELSE lockout_until[u]]
    <2> DEFINE lockout == t.lockout
    <2>0. failed \in Nat /\ lockout \in Nat
      BY Durations DEF NoTxn, TypeOK, TablesOK
    <2> HIDE DEF failed
    <2>1. t \in Txn /\ Prepared("raise", t) /\ "raise" \in Steps /\ t.op = "login"
      BY <2>0, RowNames
      DEF Txn, NoTxn, Prepared, Reaching, Ops, Orgs, Steps
    <2>2. Begin(r, "raise", t) /\ UNCHANGED <<tables, todo, raced>>
      BY <1>2 DEF LoginWrongPassword, RecordFailedLogin, failed
    <2> HIDE DEF t
    <2> QED BY <2>1, <2>2, ReadOK DEF TypeOK, LocksOK
  <1>3. ASSUME NEW t \in RefreshIds, RefreshVerified(r, t) \/ LogoutVerified(r, t)
        PROVE  TypeOK' /\ RowsExist'
    <2>1. PICK op \in {"refresh", "logout"} :
            Begin(r, "update", [NoTxn EXCEPT !.op = op, !.user = refresh_user[t],
                                             !.presented = t])
      BY <1>3 DEF RefreshVerified, LogoutVerified
    <2> DEFINE h == [NoTxn EXCEPT !.op = op, !.user = refresh_user[t], !.presented = t]
    <2>2. /\ refresh_state[t] # "absent" /\ refresh_user[t] \in Users
          /\ todo' = [todo EXCEPT ![r] = {t}] /\ UNCHANGED tables
      BY <1>3 DEF RefreshVerified, LogoutVerified, ValidRefresh, TypeOK, TablesOK
    <2>3. h \in Txn /\ Prepared("update", h) /\ "update" \in Steps /\ h.op = op
      BY <2>2, RowNames DEF Txn, NoTxn, Prepared, Reaching, Ops, Orgs, Steps
    <2>4. raced' \subseteq Requests \cup RefreshIds
      BY <1>3, MarkOK DEF TypeOK, LocksOK, RefreshVerified, LogoutVerified
    <2>5. /\ todo' \in [Requests -> SUBSET RefreshIds]
          /\ \A q \in Requests : \A x \in todo'[q] :
               x \in todo[q] \/ refresh_state[x] # "absent"
      BY <2>2 DEF TypeOK, LocksOK
    <2> HIDE DEF h
    <2> QED BY <2>1, <2>2, <2>3, <2>4, <2>5, ReadOK DEF h
  <1>4. ASSUME NEW u \in Users, ResetRequested(r, u)
        PROVE  TypeOK' /\ RowsExist'
    <2>1. PICK v \in ResetIds :
            /\ reset_state' = [reset_state EXCEPT ![v] = "unused"]
            /\ reset_user' = [reset_user EXCEPT ![v] = u]
            /\ reset_expires' = [reset_expires EXCEPT ![v] = now + RESET_TTL]
            /\ Begin(r, "mail", [NoTxn EXCEPT !.op = "request", !.user = u,
                                              !.presented = v])
            /\ UNCHANGED <<credentials, refresh_tokens, todo, raced>>
      BY <1>4 DEF ResetRequested, CreateResetToken
    <2> DEFINE h == [NoTxn EXCEPT !.op = "request", !.user = u, !.presented = v]
    <2>2. h \in Txn /\ Prepared("mail", h) /\ "mail" \in Steps /\ h.presented = v
      BY RowNames DEF Txn, NoTxn, Prepared, Reaching, Ops, Orgs, Steps
    <2> HIDE DEF h
    <2>3. HandlersOK'
      BY <2>1, <2>2, BeginOK DEF h, TypeOK
    <2>4. TypeOK'
      BY <2>1, <2>3, Durations
      DEF TypeOK, TablesOK, LocksOK, Begin, clients, credentials, refresh_tokens
    <2>5. RowsExist'
      BY <2>1, <2>2
      DEF h, TypeOK, HandlersOK, TablesOK, RowsExist, HandedOutTokensArePersisted, Begin,
          clients, credentials, refresh_tokens
    <2> QED BY <2>4, <2>5
  <1>5. ASSUME NEW v \in ResetIds, NEW p \in Passwords, ResetVerified(r, v, p)
        PROVE  TypeOK' /\ RowsExist'
    <2> DEFINE h == [NoTxn EXCEPT !.op = "reset", !.user = reset_user[v],
                                  !.presented = v, !.password = p]
    <2>1. reset_user[v] \in Users /\ reset_state[v] # "absent"
      BY <1>5 DEF ResetVerified, ConsumableReset, TypeOK, TablesOK
    <2>2. h \in Txn /\ Prepared("consume", h) /\ "consume" \in Steps /\ h.presented = v
      BY <2>1, RowNames DEF Txn, NoTxn, Prepared, Reaching, Ops, Orgs, Steps
    <2>3. Begin(r, "consume", h) /\ UNCHANGED <<tables, todo, raced>>
      BY <1>5 DEF ResetVerified
    <2> HIDE DEF h
    <2> QED BY <2>1, <2>2, <2>3, ReadOK DEF TypeOK, LocksOK
  <1>6. ASSUME NEW u \in Users, NEW current \in Passwords, NEW p \in Passwords,
               PasswordAccepted(r, u, current, p)
        PROVE  TypeOK' /\ RowsExist'
    <2> DEFINE h == [NoTxn EXCEPT !.op = "change", !.user = u, !.password = p]
    <2>1. h \in Txn /\ Prepared("password", h) /\ "password" \in Steps /\ h.op = "change"
      BY RowNames DEF Txn, NoTxn, Prepared, Reaching, Ops, Orgs, Steps
    <2>2. Begin(r, "password", h) /\ UNCHANGED <<tables, todo, raced>>
      BY <1>6 DEF PasswordAccepted
    <2> HIDE DEF h
    <2> QED BY <2>1, <2>2, ReadOK DEF TypeOK, LocksOK
  <1> QED BY <1>1, <1>2, <1>3, <1>4, <1>5, <1>6 DEF Arrive

\* A statement that changes no table: the rows it locks or will lock exist.
LEMMA StatementOK ==
  ASSUME TypeOK, RowsExist, NEW r \in Requests, NEW step \in Steps \ {"respond", "mail"},
         NEW before, At(r, before), Goto(r, step), HandlersOK', LocksOK',
         \A q \in Requests : q # r => txn'[q] = txn[q],
         \A q \in Requests : \A x \in RefreshIds :
           x \in held'[q] \cup todo'[q] =>
             x \in held[q] \cup todo[q] \/ refresh_state[x] # "absent",
         \A q \in Requests : \A v \in ResetIds :
           v \in held'[q] => v \in held[q] \/ reset_state[v] # "absent",
         txn'[r].op = txn[r].op /\ txn'[r].presented = txn[r].presented
  PROVE  TypeOK' /\ RowsExist'
  <1>1. TypeOK'
    BY DEF TypeOK, TablesOK, At, tables, clients, credentials, refresh_tokens,
           verification_tokens
  <1>2. RowsExist'
    BY DEF TypeOK, HandlersOK, RowsExist, HandedOutTokensArePersisted, At, Goto, tables,
           clients, credentials, refresh_tokens, verification_tokens
  <1> QED BY <1>1, <1>2

LEMMA ProgressOK ==
  ASSUME TypeOK, RowsExist, NEW r \in Requests, Progress(r)
  PROVE  TypeOK' /\ RowsExist'
  <1> USE DEF SessionOps, PasswordOps
  <1>0. txn[r] \in Txn /\ pc[r] \in Steps /\ Prepared(pc[r], txn[r])
    BY DEF TypeOK, HandlersOK
  <1>1. CASE LoginFlush(r)
    <2>1. txn[r].op = "login" /\ txn[r].user \in Users
      BY <1>0, <1>1 DEF LoginFlush, At, Prepared, Reaching
    <2>2. Prepared("member", txn[r]) /\ "member" \in Steps
      BY <1>0, <2>1 DEF Prepared, Reaching, Steps
    <2>3. HandlersOK'
      BY <1>1, <2>2, GotoOK DEF LoginFlush, TypeOK
    <2>4. LocksOK' /\ held' = [held EXCEPT ![r] = @ \cup {txn[r].user}]
      BY <1>1, <2>1, LockOK DEF LoginFlush, TypeOK, LocksOK, Lock, Rows
    <2> QED BY <1>1, <2>1, <2>2, <2>3, <2>4, StatementOK, RowNames
            DEF LoginFlush, TypeOK, LocksOK
  <1>2. CASE Resolve(r) \/ NoMembership(r)
    <2>1. PICK step \in {"mint", "commit", "raise"} :
            Goto(r, step) /\ Prepared(step, txn[r]) /\ step \in Steps
      BY <1>0, <1>2 DEF Resolve, NoMembership, At, Prepared, Reaching, Steps
    <2>2. At(r, "member") /\ UNCHANGED <<txn, held, todo, raced>>
      BY <1>2 DEF Resolve, NoMembership
    <2>3. HandlersOK' /\ LocksOK'
      BY <2>1, <2>2, GotoOK DEF TypeOK, LocksOK
    <2> QED BY <2>1, <2>2, <2>3, StatementOK
  <1>3. CASE ConsumeReset(r)
    <2>1. /\ txn[r].op = "reset" /\ txn[r].presented \in ResetIds
          /\ reset_state[txn[r].presented] # "absent"
      BY <1>0, <1>3 DEF ConsumeReset, At, Prepared, Reaching, RowsExist
    <2>2. Prepared("password", txn[r]) /\ "password" \in Steps
      BY <1>0, <2>1 DEF Prepared, Reaching, Steps
    <2>3. HandlersOK'
      BY <1>3, <2>2, GotoOK DEF ConsumeReset, TypeOK
    <2>4. LocksOK' /\ held' = [held EXCEPT ![r] = @ \cup {txn[r].presented}]
      BY <1>3, <2>1, LockOK DEF ConsumeReset, TypeOK, LocksOK, Lock, Rows
    <2> QED BY <1>3, <2>1, <2>2, <2>3, <2>4, StatementOK, RowNames
            DEF ConsumeReset, TypeOK, LocksOK
  <1>4. CASE WritePassword(r)
    <2>1. txn[r].op \in PasswordOps /\ txn[r].user \in Users
      BY <1>0, <1>4 DEF WritePassword, At, Prepared, Reaching
    <2>2. Prepared("revoke", txn[r]) /\ "revoke" \in Steps
      BY <1>0, <2>1 DEF Prepared, Reaching, Steps
    <2>3. HandlersOK'
      BY <1>4, <2>2, GotoOK DEF WritePassword, TypeOK
    <2>4. LocksOK' /\ held' = [held EXCEPT ![r] = @ \cup {txn[r].user}]
      BY <1>4, <2>1, LockOK DEF WritePassword, TypeOK, LocksOK, Lock, Rows
    <2> QED BY <1>4, <2>1, <2>2, <2>3, <2>4, StatementOK, RowNames
            DEF WritePassword, TypeOK, LocksOK
  <1>5. CASE RevokeAll(r)
    <2> DEFINE S == SessionsOf(txn[r].user)
    <2>1. S \subseteq RefreshIds /\ \A t \in S : refresh_state[t] # "absent"
      BY SessionsExist
    <2> HIDE DEF S
    <2>2. /\ At(r, "revoke") /\ todo' = [todo EXCEPT ![r] = S]
          /\ UNCHANGED <<txn, held, raced>>
      BY <1>5 DEF RevokeAll, S
    <2>3. PICK step \in {"update", "commit"} : Goto(r, step)
      BY <1>5 DEF RevokeAll
    <2>4. Prepared(step, txn[r]) /\ step \in Steps
      BY <1>0, <2>2, <2>3 DEF At, Prepared, Reaching, Steps
    <2>5. HandlersOK' /\ LocksOK'
      BY <2>1, <2>2, <2>3, <2>4, GotoOK DEF TypeOK, LocksOK
    <2> QED BY <2>1, <2>2, <2>3, <2>4, <2>5, StatementOK DEF TypeOK, LocksOK
  <1>6. ASSUME NEW t \in RefreshIds, Mint(r, t) PROVE TypeOK' /\ RowsExist'
    <2>1. txn[r].op \in SessionOps /\ pc[r] = "mint"
      BY <1>0, <1>6 DEF Mint, At, Prepared, Reaching
    <2> DEFINE h == [txn[r] EXCEPT !.minted = t, !.expires = now + REFRESH_TTL]
               step == IF txn[r].op = "login" THEN "commit" ELSE "member"
    <2>2. now + REFRESH_TTL \in Nat
      BY Durations DEF TypeOK
    <2>3. /\ h \in Txn /\ Prepared(step, h) /\ step \in Steps
          /\ h.op = txn[r].op /\ h.presented = txn[r].presented
      BY <1>0, <2>1, <2>2 DEF Txn, Prepared, Reaching, Steps
    <2>4. txn' = [txn EXCEPT ![r] = h]
      BY <1>6 DEF Mint, TypeOK, HandlersOK
    <2>5. At(r, "mint") /\ Goto(r, step) /\ UNCHANGED <<held, todo, raced>>
      BY <1>6 DEF Mint
    <2> HIDE DEF h, step
    <2>6. HandlersOK' /\ LocksOK'
      BY <2>3, <2>4, <2>5 DEF TypeOK, HandlersOK, LocksOK, Goto
    <2>7. step \notin {"respond", "mail"}
      BY DEF step
    <2> QED BY <2>3, <2>4, <2>5, <2>6, <2>7, StatementOK DEF TypeOK, HandlersOK
  <1>7. ASSUME NEW t \in RefreshIds, UpdateRow(r, t) PROVE TypeOK' /\ RowsExist'
    <2>1. PICK step \in {"update", "mint", "commit"} :
            Goto(r, step) /\ Prepared(step, txn[r]) /\ step \in Steps
      BY <1>0, <1>7 DEF UpdateRow, At, Prepared, Reaching, Steps
    <2>2. /\ At(r, "update") /\ t \in todo[r] /\ UNCHANGED <<txn, raced>>
          /\ todo' = [todo EXCEPT ![r] = @ \ {t}]
          /\ held' = [held EXCEPT ![r] = @ \cup {t}]
      BY <1>7 DEF UpdateRow, Lock
    <2>3. HandlersOK'
      BY <2>1, <2>2, GotoOK DEF TypeOK
    <2>4. LocksOK'
      BY <2>2 DEF TypeOK, LocksOK, Rows
    <2> QED BY <2>1, <2>2, <2>3, <2>4, StatementOK, RowNames DEF TypeOK, LocksOK
  <1>8. CASE Commit(r)
    <2> DEFINE t == txn[r]
               ends == t.op \notin SessionOps
    <2>1. pc[r] = "commit" /\ t.op \in SessionOps \cup PasswordOps \cup {"logout"}
      BY <1>0, <1>8 DEF Commit, Prepared, Reaching
    <2>2. /\ t.user \in Users /\ t.expires \in Nat
          /\ t.op \in PasswordOps => t.password \in Passwords
          /\ t.op \in SessionOps => t.minted \in RefreshIds
      BY <1>0, <2>1 DEF Txn, Prepared
    <2>3. HandlersOK' /\ LocksOK'
      <3>1. CASE ends
        <4>1. Leave(r, "idle") /\ txn' = [txn EXCEPT ![r] = NoTxn]
          BY <1>8, <3>1 DEF Commit
        <4>2. raced' \subseteq Requests \cup RefreshIds
          BY <1>8 DEF Commit, TypeOK, LocksOK
        <4> QED BY <4>1, <4>2, LeaveOK DEF TypeOK
      <3>2. CASE ~ends
        <4>1. Leave(r, "respond") /\ txn' = txn
          BY <1>8, <3>2 DEF Commit
        <4>2. Prepared("respond", txn[r]) /\ "respond" \in Steps
          BY <1>0, <2>1, <2>2, <3>2 DEF Prepared, Reaching, Steps
        <4>3. HandlersOK'
          BY <4>1, <4>2 DEF TypeOK, HandlersOK, Leave
        <4>4. LocksOK'
          BY <1>8, <4>1 DEF Commit, TypeOK, LocksOK, Leave
        <4> QED BY <4>3, <4>4
      <3> QED BY <3>1, <3>2
    <2>4. \A x \in RefreshIds :
            refresh_state'[x] # "absent" <=>
              x \in held[r] \/ x = t.minted \/ refresh_state[x] # "absent"
      BY <1>8 DEF Commit
    <2>5. TablesOK'
      <3>1. /\ password' \in [Users -> Passwords]
            /\ failed_login_attempts' \in [Users -> Nat]
            /\ lockout_until' \in [Users -> Nat]
        BY <1>8, <2>2 DEF Commit, TypeOK, TablesOK
      <3>2. /\ refresh_state' \in [RefreshIds -> {"absent", "live", "revoked"}]
            /\ refresh_user' \in [RefreshIds -> Users \cup {None}]
            /\ refresh_expires' \in [RefreshIds -> Nat]
        BY <1>8, <2>2 DEF Commit, TypeOK, TablesOK
      <3>3. \A x \in RefreshIds : refresh_state'[x] # "absent" => refresh_user'[x] \in Users
        BY <1>8, <2>2, <2>4 DEF Commit, TypeOK, TablesOK, RowsExist
      <3>4. reset_state' \in [ResetIds -> {"absent", "unused", "used"}]
        BY <1>8 DEF Commit, TypeOK, TablesOK
      <3>5. \A v \in ResetIds : reset_state'[v] # "absent" => reset_user'[v] \in Users
        BY <1>8 DEF Commit, TypeOK, TablesOK, RowsExist
      <3> QED BY <1>8, <3>1, <3>2, <3>3, <3>4, <3>5 DEF Commit, TypeOK, TablesOK
    <2>6. TypeOK'
      BY <1>8, <2>3, <2>5 DEF Commit, TypeOK, clients
    <2>7. /\ held' = [held EXCEPT ![r] = {}] /\ todo' = [todo EXCEPT ![r] = {}]
          /\ \A q \in Requests : \/ q # r /\ pc'[q] = pc[q] /\ txn'[q] = txn[q]
                                 \/ q = r /\ pc'[q] = "idle" /\ txn'[q].op = "none"
                                 \/ /\ q = r /\ pc'[q] = "respond" /\ txn'[q] = t
                                    /\ t.op \in SessionOps
      <3>1. NoTxn.op = "none"
        BY DEF NoTxn
      <3>2. CASE ends
        <4>1. Leave(r, "idle") /\ txn' = [txn EXCEPT ![r] = NoTxn]
          BY <1>8, <3>2 DEF Commit
        <4>2. /\ held' = [held EXCEPT ![r] = {}] /\ todo' = [todo EXCEPT ![r] = {}]
              /\ \A q \in Requests : q # r => pc'[q] = pc[q] /\ txn'[q] = txn[q]
              /\ pc'[r] = "idle" /\ txn'[r] = NoTxn
          BY <4>1, LeaveShape DEF TypeOK
        <4> QED BY <3>1, <4>2
      <3>3. CASE ~ends
        <4>1. Leave(r, "respond") /\ txn' = [txn EXCEPT ![r] = t]
          BY <1>8, <3>3 DEF Commit, TypeOK, HandlersOK
        <4>2. t.op \in SessionOps
          BY <3>3
        <4>3. /\ held' = [held EXCEPT ![r] = {}] /\ todo' = [todo EXCEPT ![r] = {}]
              /\ \A q \in Requests : q # r => pc'[q] = pc[q] /\ txn'[q] = txn[q]
              /\ pc'[r] = "respond" /\ txn'[r] = t
          BY <4>1, LeaveShape DEF TypeOK
        <4> QED BY <4>2, <4>3
      <3> QED BY <3>2, <3>3
    <2>8. \A v \in ResetIds : reset_state[v] # "absent" => reset_state'[v] # "absent"
      BY <1>8 DEF Commit
    <2>9. HandedOutTokensArePersisted'
      BY <1>8, <2>4, <2>8 DEF Commit, TypeOK, RowsExist, HandedOutTokensArePersisted, clients
    <2>10. RowsExist'
      <3> SUFFICES ASSUME NEW q \in Requests
          PROVE  /\ \A x \in RefreshIds :
                      x \in held'[q] \cup todo'[q] => refresh_state'[x] # "absent"
                 /\ \A v \in ResetIds : v \in held'[q] => reset_state'[v] # "absent"
                 /\ pc'[q] = "respond" => refresh_state'[txn'[q].minted] # "absent"
                 /\ txn'[q].op \in {"reset", "request"} =>
                      reset_state'[txn'[q].presented] # "absent"
        BY <2>9 DEF RowsExist
      <3>1. /\ \A x \in RefreshIds :
                 x \in held'[q] \cup todo'[q] => refresh_state'[x] # "absent"
            /\ \A v \in ResetIds : v \in held'[q] => reset_state'[v] # "absent"
        BY <2>4, <2>7, <2>8 DEF TypeOK, LocksOK, RowsExist
      <3>2. Prepared(pc[q], txn[q])
        BY DEF TypeOK, HandlersOK
      <3>3. /\ pc'[q] = "respond" => refresh_state'[txn'[q].minted] # "absent"
            /\ txn'[q].op \in {"reset", "request"} =>
                 reset_state'[txn'[q].presented] # "absent"
        BY <2>2, <2>4, <2>7, <2>8, <3>2 DEF Prepared, Reaching, RowsExist
      <3> QED BY <3>1, <3>3
    <2> QED BY <2>6, <2>10
  <1>9. CASE Respond(r) \/ MailReset(r) \/ Abort(r)
    <2>1. HandlersOK' /\ LocksOK'
      BY <1>9, LeaveOK DEF Respond, MailReset, Abort, Rollback, TypeOK, LocksOK
    <2>2. pc[r] = "respond" => txn[r].minted \in RefreshIds
      BY <1>0 DEF Prepared, Reaching, Txn
    <2>3. pc[r] = "mail" => txn[r].presented \in ResetIds
      BY <1>0 DEF Prepared, Reaching
    <2>4. TypeOK'
      BY <1>9, <2>1, <2>2, <2>3
      DEF Respond, MailReset, Abort, Rollback, TypeOK, TablesOK, tables, clients,
          credentials, refresh_tokens, verification_tokens
    <2>5. /\ held' = [held EXCEPT ![r] = {}] /\ todo' = [todo EXCEPT ![r] = {}]
          /\ \A q \in Requests : \/ q # r /\ pc'[q] = pc[q] /\ txn'[q] = txn[q]
                                 \/ q = r /\ pc'[q] = "idle" /\ txn'[q].op = "none"
          /\ UNCHANGED <<refresh_state, reset_state>>
      <3>1. NoTxn.op = "none"
        BY DEF NoTxn
      <3>2. Leave(r, "idle") /\ txn' = [txn EXCEPT ![r] = NoTxn] /\ UNCHANGED tables
        BY <1>9 DEF Respond, MailReset, Abort, Rollback
      <3>3. /\ held' = [held EXCEPT ![r] = {}] /\ todo' = [todo EXCEPT ![r] = {}]
            /\ \A q \in Requests : q # r => pc'[q] = pc[q] /\ txn'[q] = txn[q]
            /\ pc'[r] = "idle" /\ txn'[r] = NoTxn
        BY <3>2, LeaveShape DEF TypeOK
      <3> QED BY <3>1, <3>2, <3>3 DEF tables, refresh_tokens, verification_tokens
    <2>6. HandedOutTokensArePersisted'
      BY <1>0, <1>9, <2>5
      DEF Respond, MailReset, Abort, Rollback, RowsExist, HandedOutTokensArePersisted,
          Prepared, Reaching, clients
    <2>7. RowsExist'
      BY <2>5, <2>6 DEF RowsExist, TypeOK, LocksOK
    <2> QED BY <2>4, <2>7
  <1> QED BY <1>1, <1>2, <1>3, <1>4, <1>5, <1>6, <1>7, <1>8, <1>9 DEF Progress

LEMMA FailOK ==
  ASSUME TypeOK, RowsExist, NEW r \in Requests, Fail(r)
  PROVE  TypeOK' /\ RowsExist'
  <1>1. HandlersOK' /\ LocksOK'
    BY LeaveOK DEF Fail, Rollback, TypeOK, LocksOK
  <1>2. TypeOK'
    BY <1>1 DEF Fail, Rollback, TypeOK, TablesOK, tables, clients, credentials,
                refresh_tokens, verification_tokens
  <1>3. RowsExist'
    BY DEF Fail, Rollback, Leave, NoTxn, TypeOK, HandlersOK, LocksOK, RowsExist,
           HandedOutTokensArePersisted, tables, clients, credentials, refresh_tokens,
           verification_tokens
  <1> QED BY <1>2, <1>3

LEMMA NextOK == TypeOK /\ RowsExist /\ [Next]_vars => TypeOK' /\ RowsExist'
  <1> SUFFICES ASSUME TypeOK, RowsExist, [Next]_vars PROVE TypeOK' /\ RowsExist'
    OBVIOUS
  <1>1. CASE Tick
    BY <1>1, Durations
    DEF Tick, TypeOK, TablesOK, HandlersOK, LocksOK, RowsExist,
        HandedOutTokensArePersisted, tables, clients, credentials, refresh_tokens,
        verification_tokens
  <1>2. CASE \E r \in Requests : Arrive(r) \/ Progress(r) \/ Fail(r)
    BY <1>2, ArriveOK, ProgressOK, FailOK
  <1>3. CASE UNCHANGED vars
    BY <1>3 DEF vars, TypeOK, TablesOK, HandlersOK, LocksOK, RowsExist,
                HandedOutTokensArePersisted, tables, clients, credentials,
                refresh_tokens, verification_tokens
  <1> QED BY <1>1, <1>2, <1>3 DEF Next

\* Whatever the instance, the state keeps its types, no handler uses a variable it has
\* not set, and every row that exists has an owner.
THEOREM TypeCorrect == Spec => []TypeOK
  <1>1. Spec => [](TypeOK /\ RowsExist)
    BY InitOK, NextOK, PTL DEF Spec
  <1> QED BY <1>1, PTL

\* Tokens in the hands of clients and mailboxes are committed rows: login, refresh and
\* request_password_reset never hand out what a rollback could take back.
THEOREM HandedOutCommitted == Spec => []HandedOutTokensArePersisted
  <1>1. Spec => [](TypeOK /\ RowsExist)
    BY InitOK, NextOK, PTL DEF Spec
  <1>2. RowsExist => HandedOutTokensArePersisted
    BY DEF RowsExist
  <1> QED BY <1>1, <1>2, PTL

-----------------------------------------------------------------------------
(* Row locks exclude each other, and a password change covers every session. *)

\* How a step may change the locks of a request: take a free row, or drop them all.
LockStep(r) ==
  \/ held' = held
  \/ \E x \in Rows : Lock(r, x)
  \/ held' = [held EXCEPT ![r] = {}]

LEMMA NextLockStep ==
  ASSUME TypeOK, NEW r \in Requests, Arrive(r) \/ Progress(r) \/ Fail(r)
  PROVE  LockStep(r)
  <1>1. txn[r] \in Txn /\ Prepared(pc[r], txn[r])
    BY DEF TypeOK, HandlersOK
  <1>2. CASE Arrive(r)
    BY <1>2 DEF Arrive, LoginVerified, LoginWrongPassword, ResetRequested, RefreshVerified,
                LogoutVerified, ResetVerified, PasswordAccepted, Begin, LockStep
  <1>3. CASE LoginFlush(r) \/ ConsumeReset(r) \/ WritePassword(r)
    <2>1. \/ Lock(r, txn[r].user) /\ txn[r].user \in Rows
          \/ Lock(r, txn[r].presented) /\ txn[r].presented \in Rows
      BY <1>1, <1>3 DEF LoginFlush, ConsumeReset, WritePassword, At, Prepared, Reaching, Rows,
                        SessionOps, PasswordOps
    <2> QED BY <2>1 DEF LockStep
  <1>4. CASE \E t \in RefreshIds : UpdateRow(r, t)
    BY <1>4 DEF UpdateRow, LockStep, Rows
  <1>5. CASE Resolve(r) \/ NoMembership(r) \/ RevokeAll(r) \/ \E t \in RefreshIds : Mint(r, t)
    BY <1>5 DEF Resolve, NoMembership, RevokeAll, Mint, LockStep
  <1>6. CASE Commit(r) \/ Respond(r) \/ MailReset(r) \/ Abort(r) \/ Fail(r)
    BY <1>6 DEF Commit, Respond, MailReset, Abort, Fail, Rollback, Leave, LockStep
  <1> QED BY <1>2, <1>3, <1>4, <1>5, <1>6 DEF Progress

LEMMA LocksExcludeNext ==
  ASSUME TypeOK, LocksExclude, [Next]_vars PROVE LocksExclude'
  <1>1. CASE UNCHANGED held
    BY <1>1 DEF LocksExclude
  <1>2. ASSUME NEW r \in Requests, LockStep(r) PROVE LocksExclude'
    BY <1>2 DEF LockStep, Lock, Free, LocksExclude, TypeOK, LocksOK
  <1> QED BY <1>1, <1>2, NextLockStep DEF Next, Tick, vars

\* What a step of r leaves alone for another request c that is changing a password.
LEMMA OtherChange ==
  ASSUME TypeOK, ChangeCoversSessions, NEW r \in Requests, NEW c \in Requests, c # r,
         PastWrite(c)', pc'[c] = pc[c], txn'[c] = txn[c],
         held'[c] = held[c], todo'[c] = todo[c],
         \A q \in Requests \ {r} : /\ pc'[q] = pc[q] /\ txn'[q] = txn[q]
                                   /\ q \in raced /\ txn[q].user = txn[c].user => q \in raced',
         /\ txn'[r].op \in SessionOps /\ txn'[r].user = txn[c].user
         /\ pc'[r] \notin {"respond", "raise"}
         => r \in raced',
         \A t \in SessionsOf(txn[c].user)' :
           \/ t \in raced'
           \/ t \in SessionsOf(txn[c].user) /\ (t \in raced => t \in raced')
  PROVE  Covers(c)'
  <1>1. PastWrite(c)
    BY DEF PastWrite
  <1>2. Covers(c)
    BY <1>1 DEF ChangeCoversSessions
  <1> USE DEF Covers
  <1>3. ASSUME NEW q \in Requests, txn'[q].op \in SessionOps,
               txn'[q].user = txn'[c].user, pc'[q] \notin {"respond", "raise"}
        PROVE  q \in raced'
    <2>1. CASE q = r
      BY <1>3, <2>1
    <2>2. CASE q # r
      BY <1>2, <1>3, <2>2
    <2> QED BY <2>1, <2>2
  <1>4. ASSUME pc'[c] # "revoke", NEW t \in SessionsOf(txn[c].user)'
        PROVE  t \in todo'[c] \cup held'[c] \cup raced'
    BY <1>2, <1>4
  <1> QED BY <1>2, <1>3, <1>4


\* The first step of a request: a session handler that starts during the change is raced.
LEMMA BeginCovers ==
  ASSUME TypeOK, ChangeCoversSessions, NEW r \in Requests, NEW c \in Requests, PastWrite(c)',
         NEW step, NEW t, Begin(r, step, t), UNCHANGED refresh_tokens,
         t.op \in PasswordOps => step \notin {"revoke", "update", "commit"},
         \A q \in Requests \ {r} : todo'[q] = todo[q],
         raced \subseteq raced',
         t.op \in SessionOps => step = "raise" \/ MarkIfRacing(r, t.user)
  PROVE  Covers(c)'
  <1>1. /\ pc'[r] = step /\ txn'[r] = t /\ held' = held
        /\ \A q \in Requests \ {r} : pc'[q] = pc[q] /\ txn'[q] = txn[q]
    BY DEF Begin, TypeOK, HandlersOK
  <1>2. c # r /\ PastWrite(c)
    BY <1>1 DEF PastWrite
  <1>3. Changing(txn[c].user)
    BY <1>2 DEF ChangeCoversSessions, Covers, PastWrite, Changing
  <1>4. /\ txn'[r].op \in SessionOps /\ txn'[r].user = txn[c].user
        /\ pc'[r] \notin {"respond", "raise"}
        => r \in raced'
    BY <1>1, <1>3 DEF MarkIfRacing
  <1>5. SessionsOf(txn[c].user)' = SessionsOf(txn[c].user)
    BY <1>1, <1>2 DEF SessionsOf, refresh_tokens
  <1> QED BY <1>1, <1>2, <1>4, <1>5, OtherChange

LEMMA ArriveCovers ==
  ASSUME TypeOK, ChangeCoversSessions, NEW r \in Requests, Arrive(r),
         NEW c \in Requests, PastWrite(c)'
  PROVE  Covers(c)'
  <1>1. ASSUME NEW u \in Users, NEW p \in Passwords, NEW org \in Orgs,
               LoginVerified(r, u, p, org)
        PROVE  Covers(c)'
    <2> DEFINE t == [NoTxn EXCEPT !.op = "login", !.user = u, !.org = org]
    <2>1. t.user = u /\ t.op \notin PasswordOps
      BY DEF NoTxn, PasswordOps
    <2>2. Begin(r, "flush", t) /\ MarkIfRacing(r, u) /\ UNCHANGED <<tables, todo>>
      BY <1>1 DEF LoginVerified
    <2> HIDE DEF t
    <2> QED BY <2>1, <2>2, BeginCovers DEF MarkIfRacing, tables
  <1>2. ASSUME NEW u \in Users, NEW p \in Passwords, LoginWrongPassword(r, u, p)
        PROVE  Covers(c)'
    <2>1. PICK t : Begin(r, "raise", t) /\ UNCHANGED <<tables, todo, raced>>
      BY <1>2 DEF LoginWrongPassword
    <2> QED BY <2>1, BeginCovers DEF tables
  <1>3. ASSUME NEW x \in RefreshIds, RefreshVerified(r, x)
        PROVE  Covers(c)'
    <2> DEFINE t == [NoTxn EXCEPT !.op = "refresh", !.user = refresh_user[x], !.presented = x]
    <2>1. t.user = refresh_user[x] /\ t.op \notin PasswordOps
      BY DEF NoTxn, PasswordOps
    <2>2. /\ Begin(r, "update", t) /\ MarkIfRacing(r, refresh_user[x])
          /\ todo' = [todo EXCEPT ![r] = {x}] /\ UNCHANGED tables
      BY <1>3 DEF RefreshVerified
    <2> HIDE DEF t
    <2> QED BY <2>1, <2>2, BeginCovers DEF MarkIfRacing, tables, TypeOK, LocksOK
  <1>4. ASSUME NEW x \in RefreshIds, LogoutVerified(r, x)
        PROVE  Covers(c)'
    <2> DEFINE t == [NoTxn EXCEPT !.op = "logout", !.user = refresh_user[x], !.presented = x]
    <2>1. t.op \notin PasswordOps \cup SessionOps
      BY DEF NoTxn, PasswordOps, SessionOps
    <2>2. /\ Begin(r, "update", t) /\ UNCHANGED <<tables, raced>>
          /\ todo' = [todo EXCEPT ![r] = {x}]
      BY <1>4 DEF LogoutVerified
    <2> HIDE DEF t
    <2> QED BY <2>1, <2>2, BeginCovers DEF tables, TypeOK, LocksOK
  <1>5. ASSUME NEW u \in Users, ResetRequested(r, u)
        PROVE  Covers(c)'
    <2>1. PICK v \in ResetIds :
            /\ Begin(r, "mail", [NoTxn EXCEPT !.op = "request", !.user = u, !.presented = v])
            /\ UNCHANGED <<credentials, refresh_tokens, todo, raced>>
      BY <1>5 DEF ResetRequested
    <2> DEFINE t == [NoTxn EXCEPT !.op = "request", !.user = u, !.presented = v]
    <2>2. t.op \notin PasswordOps \cup SessionOps
      BY DEF NoTxn, PasswordOps, SessionOps
    <2> HIDE DEF t
    <2> QED BY <2>1, <2>2, BeginCovers DEF t
  <1>6. ASSUME NEW v \in ResetIds, NEW p \in Passwords, ResetVerified(r, v, p)
        PROVE  Covers(c)'
    <2> DEFINE t == [NoTxn EXCEPT !.op = "reset", !.user = reset_user[v], !.presented = v,
                                  !.password = p]
    <2>1. t.op \notin SessionOps
      BY DEF NoTxn, SessionOps
    <2>2. Begin(r, "consume", t) /\ UNCHANGED <<tables, todo, raced>>
      BY <1>6 DEF ResetVerified
    <2> HIDE DEF t
    <2> QED BY <2>1, <2>2, BeginCovers DEF tables
  <1>7. ASSUME NEW u \in Users, NEW current \in Passwords, NEW p \in Passwords,
               PasswordAccepted(r, u, current, p)
        PROVE  Covers(c)'
    <2> DEFINE t == [NoTxn EXCEPT !.op = "change", !.user = u, !.password = p]
    <2>1. t.op \notin SessionOps
      BY DEF NoTxn, SessionOps
    <2>2. Begin(r, "password", t) /\ UNCHANGED <<tables, todo, raced>>
      BY <1>7 DEF PasswordAccepted
    <2> HIDE DEF t
    <2> QED BY <2>1, <2>2, BeginCovers DEF tables
  <1> QED BY <1>1, <1>2, <1>3, <1>4, <1>5, <1>6, <1>7 DEF Arrive

\* A statement of r that is not part of a password change, and mints nothing.
LEMMA StatementCovers ==
  ASSUME TypeOK, ChangeCoversSessions, NEW r \in Requests, NEW c \in Requests, PastWrite(c)',
         NEW before, NEW step, At(r, before), Goto(r, step), before \notin {"respond", "raise"},
         txn'[r].op = txn[r].op, txn'[r].user = txn[r].user,
         txn[r].op \in PasswordOps => step \notin {"revoke", "update", "commit"},
         raced' = raced,
         \A q \in Requests \ {r} :
           txn'[q] = txn[q] /\ held'[q] = held[q] /\ todo'[q] = todo[q]
  PROVE  Covers(c)'
  <1>1. /\ pc[r] = before /\ pc'[r] = step
        /\ \A q \in Requests \ {r} : pc'[q] = pc[q]
    BY DEF At, Goto, TypeOK, HandlersOK
  <1>2. c # r /\ PastWrite(c)
    BY <1>1 DEF PastWrite
  <1>3. /\ txn'[r].op \in SessionOps /\ txn'[r].user = txn[c].user
        /\ pc'[r] \notin {"respond", "raise"}
        => r \in raced'
    BY <1>1, <1>2 DEF ChangeCoversSessions, Covers
  <1>4. SessionsOf(txn[c].user)' = SessionsOf(txn[c].user)
    BY <1>2 DEF At, SessionsOf, tables, refresh_tokens
  <1> QED BY <1>1, <1>2, <1>3, <1>4, OtherChange

LEMMA WritePasswordCovers ==
  ASSUME TypeOK, LocksExclude, ChangeCoversSessions, NEW r \in Requests, WritePassword(r),
         NEW c \in Requests, PastWrite(c)'
  PROVE  Covers(c)'
  <1>1. /\ pc[r] = "password" /\ pc'[r] = "revoke" /\ txn' = txn /\ todo' = todo
        /\ \A q \in Requests \ {r} : pc'[q] = pc[q]
        /\ Free(r, txn[r].user) /\ held' = [held EXCEPT ![r] = @ \cup {txn[r].user}]
        /\ UNCHANGED tables
    BY DEF WritePassword, At, Goto, Lock, TypeOK, HandlersOK
  <1>2. raced' = (raced \ {t \in RefreshIds : refresh_user[t] = txn[r].user})
                   \cup {q \in Requests : /\ txn[q].op \in SessionOps
                                          /\ txn[q].user = txn[r].user
                                          /\ pc[q] # "respond"}
    BY DEF WritePassword
  <1>3. CASE c = r
    BY <1>1, <1>2, <1>3 DEF Covers, TypeOK, LocksOK
  <1>4. CASE c # r
    <2>1. PastWrite(c) /\ Covers(c)
      BY <1>1, <1>4 DEF PastWrite, ChangeCoversSessions
    <2>2. txn[c].user # txn[r].user
      BY <1>1, <1>4, <2>1 DEF Free, Covers
    <2>3. \A q \in Requests : q \in raced => q \in raced'
      BY <1>2, RowNames
    <2>4. txn[r].op \notin SessionOps
      BY <1>1 DEF TypeOK, HandlersOK, Prepared, Reaching, SessionOps, PasswordOps
    <2>5. \A t \in SessionsOf(txn[c].user)' :
            t \in SessionsOf(txn[c].user) /\ (t \in raced => t \in raced')
      BY <1>1, <1>2, <2>2 DEF SessionsOf, tables, refresh_tokens
    <2> QED BY <1>1, <1>4, <2>3, <2>4, <2>5, OtherChange DEF TypeOK, LocksOK
  <1> QED BY <1>3, <1>4

LEMMA RevokeCovers ==
  ASSUME TypeOK, ChangeCoversSessions, NEW r \in Requests, NEW c \in Requests, PastWrite(c)',
         RevokeAll(r) \/ \E t \in RefreshIds : UpdateRow(r, t)
  PROVE  Covers(c)'
  <1> DEFINE u == txn[r].user
  <1>1. /\ UNCHANGED <<tables, txn, raced>>
        /\ pc[r] \in {"revoke", "update"} /\ pc'[r] \notin {"respond", "raise"}
        /\ \A q \in Requests \ {r} :
             pc'[q] = pc[q] /\ held'[q] = held[q] /\ todo'[q] = todo[q]
    BY DEF RevokeAll, UpdateRow, At, Goto, Lock, TypeOK, HandlersOK, LocksOK
  <1>2. SessionsOf(txn[c].user)' = SessionsOf(txn[c].user)
    BY <1>1 DEF SessionsOf, tables, refresh_tokens
  <1>3. CASE c = r
    <2>1. PastWrite(r) /\ Covers(r)
      BY <1>1, <1>3 DEF PastWrite, ChangeCoversSessions
    <2>2. CASE RevokeAll(r)
      <3>1. /\ todo'[r] = SessionsOf(u) /\ held' = held
            /\ pc'[r] = "commit" => SessionsOf(u) = {}
        <4>1. todo' = [todo EXCEPT ![r] = SessionsOf(u)] /\ held' = held
          BY <2>2 DEF RevokeAll
        <4>2. pc' = [pc EXCEPT ![r] = IF SessionsOf(u) = {} THEN "commit" ELSE "update"]
          BY <2>2 DEF RevokeAll, Goto
        <4> QED BY <4>1, <4>2 DEF TypeOK, HandlersOK, LocksOK
      <3> QED BY <1>1, <1>2, <1>3, <2>1, <3>1 DEF Covers
    <2>3. ASSUME NEW t \in RefreshIds, UpdateRow(r, t)
          PROVE  Covers(c)'
      <3>1. /\ t \in todo[r] /\ todo'[r] = todo[r] \ {t} /\ held'[r] = held[r] \cup {t}
            /\ pc[r] = "update" /\ (todo[r] # {t} => pc'[r] = "update")
        BY <2>3 DEF UpdateRow, At, Goto, Lock, TypeOK, HandlersOK, LocksOK
      <3> QED BY <1>1, <1>2, <1>3, <2>1, <3>1 DEF Covers
    <2> QED BY <2>2, <2>3
  <1>4. CASE c # r
    <2>1. PastWrite(c) /\ Covers(c)
      BY <1>1, <1>4 DEF PastWrite, ChangeCoversSessions
    <2> QED BY <1>1, <1>2, <1>4, <2>1, OtherChange DEF Covers
  <1> QED BY <1>3, <1>4

\* The COMMIT of r: only a session handler adds a session, and it hands on its mark.
LEMMA CommitCovers ==
  ASSUME TypeOK, RowsExist, ChangeCoversSessions, NEW r \in Requests, Commit(r),
         NEW c \in Requests, PastWrite(c)'
  PROVE  Covers(c)'
  <1> DEFINE u == txn[c].user
  <1>1. /\ pc[r] = "commit" /\ pc'[r] \in {"idle", "respond"}
        /\ \A q \in Requests \ {r} :
             pc'[q] = pc[q] /\ txn'[q] = txn[q] /\ held'[q] = held[q] /\ todo'[q] = todo[q]
    BY DEF Commit, Leave, TypeOK, HandlersOK, LocksOK
  <1>2. pc'[r] = "respond" \/ txn'[r].op = "none"
    <2>1. CASE txn[r].op \in SessionOps
      BY <2>1 DEF Commit, Leave, TypeOK, HandlersOK
    <2>2. CASE txn[r].op \notin SessionOps
      BY <2>2 DEF Commit, Leave, NoTxn, TypeOK, HandlersOK
    <2> QED BY <2>1, <2>2
  <1>3. c # r /\ PastWrite(c) /\ Covers(c)
    BY <1>1 DEF PastWrite, ChangeCoversSessions
  <1>4. raced' = (raced \ {r}) \cup {x \in RefreshIds : x = txn[r].minted /\ r \in raced}
    BY DEF Commit
  <1>5. ASSUME NEW t \in SessionsOf(u)'
        PROVE  t \in raced' \/ (t \in SessionsOf(u) /\ (t \in raced => t \in raced'))
    <2>1. t \in RefreshIds /\ refresh_state'[t] # "absent" /\ refresh_user'[t] = u
      BY <1>1, <1>3, <1>5 DEF SessionsOf
    <2>2. t \in raced => t \in raced'
      BY <1>4, <2>1, RowNames
    <2>3. CASE t = txn[r].minted
      <3>1. txn[r].op \in SessionOps
        BY <2>1, <2>3, RowNames DEF TypeOK, HandlersOK, Prepared
      <3>2. txn[r].user = u
        BY <2>1, <2>3 DEF Commit
      <3>3. r \in raced
        BY <1>1, <1>3, <3>1, <3>2 DEF Covers
      <3> QED BY <1>4, <2>1, <2>3, <3>3
    <2>4. CASE t # txn[r].minted
      <3>1. refresh_state[t] # "absent" /\ refresh_user[t] = u
        BY <2>1, <2>4 DEF Commit, RowsExist
      <3> QED BY <2>1, <2>2, <3>1 DEF SessionsOf
    <2> QED BY <2>3, <2>4
  <1>6. \A q \in Requests \ {r} : q \in raced => q \in raced'
    BY <1>4
  <1>7. ~ (txn'[r].op \in SessionOps /\ pc'[r] \notin {"respond", "raise"})
    BY <1>2 DEF SessionOps
  <1> QED BY <1>1, <1>3, <1>5, <1>6, <1>7, OtherChange

\* The end of a request without a COMMIT, or after it.
LEMMA EndCovers ==
  ASSUME TypeOK, ChangeCoversSessions, NEW r \in Requests, NEW c \in Requests, PastWrite(c)',
         Respond(r) \/ MailReset(r) \/ Abort(r) \/ Fail(r)
  PROVE  Covers(c)'
  <1>1. /\ Leave(r, "idle") /\ txn' = [txn EXCEPT ![r] = NoTxn]
        /\ UNCHANGED tables /\ (raced' = raced \/ raced' = raced \ {r})
    BY DEF Respond, MailReset, Abort, Fail, Rollback
  <1>2. /\ pc'[r] = "idle" /\ txn'[r].op = "none"
        /\ \A q \in Requests \ {r} :
             pc'[q] = pc[q] /\ txn'[q] = txn[q] /\ held'[q] = held[q] /\ todo'[q] = todo[q]
    BY <1>1 DEF Leave, NoTxn, TypeOK, HandlersOK, LocksOK
  <1>3. c # r /\ PastWrite(c)
    BY <1>2 DEF PastWrite
  <1>4. txn'[r].op \notin SessionOps
    BY <1>2 DEF SessionOps
  <1>5. \A t \in SessionsOf(txn[c].user)' :
          t \in SessionsOf(txn[c].user) /\ (t \in raced => t \in raced')
    BY <1>1, <1>2, <1>3, RowNames DEF SessionsOf, tables, refresh_tokens
  <1> QED BY <1>1, <1>2, <1>3, <1>4, <1>5, OtherChange

LEMMA CoversNext ==
  ASSUME TypeOK, RowsExist, LocksExclude, ChangeCoversSessions, [Next]_vars
  PROVE  ChangeCoversSessions'
  <1> SUFFICES ASSUME NEW c \in Requests, PastWrite(c)' PROVE Covers(c)'
    BY DEF ChangeCoversSessions
  <1>1. CASE UNCHANGED <<tables, pc, txn, held, todo, raced>>
    BY <1>1 DEF ChangeCoversSessions, PastWrite, Covers, SessionsOf, tables, refresh_tokens
  <1>2. ASSUME NEW r \in Requests, LoginFlush(r) \/ Resolve(r) \/ NoMembership(r)
        PROVE  Covers(c)'
    <2>1. PICK step \in {"member", "mint", "commit", "raise"} : At(r, pc[r]) /\ Goto(r, step)
      BY <1>2 DEF LoginFlush, Resolve, NoMembership, At
    <2>2. pc[r] \in {"flush", "member"} /\ txn[r].op \in SessionOps
      BY <1>2 DEF LoginFlush, Resolve, NoMembership, At, TypeOK, HandlersOK, Prepared,
                  Reaching, SessionOps
    <2>3. /\ UNCHANGED <<txn, todo, raced>>
          /\ \A q \in Requests \ {r} : held'[q] = held[q]
      BY <1>2 DEF LoginFlush, Resolve, NoMembership, Lock, TypeOK, LocksOK
    <2> QED BY <2>1, <2>2, <2>3, StatementCovers DEF SessionOps, PasswordOps
  <1>3. ASSUME NEW r \in Requests, ConsumeReset(r)
        PROVE  Covers(c)'
    <2>1. /\ At(r, "consume") /\ Goto(r, "password") /\ UNCHANGED <<txn, todo, raced>>
          /\ \A q \in Requests \ {r} : held'[q] = held[q]
      BY <1>3 DEF ConsumeReset, Lock, TypeOK, LocksOK
    <2> QED BY <2>1, StatementCovers
  <1>4. ASSUME NEW r \in Requests, NEW t \in RefreshIds, Mint(r, t)
        PROVE  Covers(c)'
    <2>1. /\ At(r, "mint") /\ UNCHANGED <<held, todo, raced>>
          /\ \A q \in Requests \ {r} : txn'[q] = txn[q]
          /\ txn'[r].op = txn[r].op /\ txn'[r].user = txn[r].user
      BY <1>4 DEF Mint, TypeOK, HandlersOK, Txn
    <2>2. PICK step : Goto(r, step)
      BY <1>4 DEF Mint
    <2>3. txn[r].op \notin PasswordOps
      BY <2>1 DEF At, TypeOK, HandlersOK, Prepared, Reaching, SessionOps, PasswordOps
    <2> QED BY <2>1, <2>2, <2>3, StatementCovers
  <1>5. ASSUME NEW r \in Requests, Progress(r) PROVE Covers(c)'
    BY <1>2, <1>3, <1>4, <1>5, WritePasswordCovers, RevokeCovers, CommitCovers, EndCovers
    DEF Progress
  <1> QED BY <1>1, <1>5, ArriveCovers, EndCovers DEF Next, Tick, vars

LEMMA SessionsInvInit == Init => SessionsInv
  <1> SUFFICES ASSUME Init PROVE SessionsInv
    OBVIOUS
  <1>1. LocksExclude
    BY DEF Init, LocksExclude
  <1>2. ChangeCoversSessions
    BY DEF Init, ChangeCoversSessions, PastWrite, NoTxn, PasswordOps
  <1> QED BY <1>1, <1>2, InitOK DEF SessionsInv

LEMMA SessionsInvNext == SessionsInv /\ [Next]_vars => SessionsInv'
  BY NextOK, LocksExcludeNext, CoversNext DEF SessionsInv

\* The inductive invariant: types, exclusive row locks, no token without a row, and every
\* password change in flight covers the sessions of its user.
THEOREM SessionsInvariant == Spec => []SessionsInv
  BY SessionsInvInit, SessionsInvNext, PTL DEF Spec

\* When a password change commits, whatever else runs at the same time, no session of the
\* user stays live except those of a login or refresh in flight during the change.
THEOREM RevocationIsComplete == Spec => PasswordChangeRevokesSessions
  <1> DEFINE A == \A r \in Requests :
                    Commit(r) /\ txn[r].op \in PasswordOps =>
                      \A t \in SessionsOf(txn[r].user) :
                        refresh_state'[t] = "live" => t \in raced
  <1>1. ASSUME SessionsInv PROVE A
    <2> SUFFICES ASSUME NEW r \in Requests, Commit(r), txn[r].op \in PasswordOps,
                        NEW t \in SessionsOf(txn[r].user), refresh_state'[t] = "live"
                 PROVE  t \in raced
      OBVIOUS
    <2>1. Covers(r) /\ pc[r] = "commit"
      BY <1>1 DEF Commit, SessionsInv, ChangeCoversSessions, PastWrite
    <2>2. t \in RefreshIds
      BY DEF SessionsOf
    <2>3. t \notin held[r]
      BY <2>2 DEF Commit
    <2> QED BY <2>1, <2>3 DEF Covers
  <1>2. SessionsInv => [A]_vars
    BY <1>1
  <1> QED BY <1>2, SessionsInvariant, PTL DEF PasswordChangeRevokesSessions

=============================================================================
