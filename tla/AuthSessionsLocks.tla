-------------------------- MODULE AuthSessionsLocks --------------------------
(* Proofs about AuthSessions that need to know which rows a request has locked where it  *)
(* stands: no deadlock, and reset tokens spent together with the password they are for.  *)
EXTENDS AuthSessionsProofs

-----------------------------------------------------------------------------
(* What a step of r does to the rows and to the other requests. *)

Frame(r) ==
  /\ \A q \in Requests \ {r} :
       pc'[q] = pc[q] /\ txn'[q] = txn[q] /\ held'[q] = held[q] /\ todo'[q] = todo[q]
  /\ \A x \in RefreshIds :
       /\ refresh_state[x] # "absent" => refresh_user'[x] = refresh_user[x]
       /\ refresh_state[x] = "absent" =>
            \/ refresh_state'[x] = "absent" /\ refresh_user'[x] = refresh_user[x]
            \/ x = txn[r].minted /\ refresh_state'[x] # "absent"
       /\ refresh_state[x] # "absent" => refresh_state'[x] # "absent"
  /\ \A v \in ResetIds : reset_state[v] # "absent" => reset_user'[v] = reset_user[v]
  /\ delivered \subseteq delivered' /\ mailed \subseteq mailed'
  /\ txn'[r].minted \in {txn[r].minted, None} \cup Unminted

LEMMA ArriveFrame ==
  ASSUME TypeOK, NEW r \in Requests, Arrive(r) PROVE Frame(r)
  <1> DEFINE Moved == /\ txn'[r].minted = None /\ UNCHANGED clients
                      /\ \A q \in Requests \ {r} :
                           pc'[q] = pc[q] /\ txn'[q] = txn[q] /\ held'[q] = held[q]
  <1>0. ASSUME NEW step, NEW t, t.minted = None, Begin(r, step, t) PROVE Moved
    BY <1>0 DEF Begin, TypeOK, HandlersOK
  <1>1. Moved
    <2> HIDE DEF Moved
    <2>1. ASSUME NEW u \in Users, NEW p \in Passwords, NEW org \in Orgs,
                 LoginVerified(r, u, p, org)
          PROVE  Moved
      <3> DEFINE t == [NoTxn EXCEPT !.op = "login", !.user = u, !.org = org]
      <3>1. t.minted = None
        BY DEF NoTxn
      <3>2. Begin(r, "flush", t)
        BY <2>1 DEF LoginVerified
      <3> HIDE DEF t
      <3> QED BY <1>0, <3>1, <3>2
    <2>2. ASSUME NEW u \in Users, NEW p \in Passwords, LoginWrongPassword(r, u, p)
          PROVE  Moved
      <3> DEFINE t == RecordFailedLogin(u)
      <3>1. t.minted = None
        BY DEF RecordFailedLogin, NoTxn
      <3>2. Begin(r, "raise", t)
        BY <2>2 DEF LoginWrongPassword
      <3> HIDE DEF t
      <3> QED BY <1>0, <3>1, <3>2
    <2>3. ASSUME NEW x \in RefreshIds, RefreshVerified(r, x) \/ LogoutVerified(r, x)
          PROVE  Moved
      <3>1. PICK op : Begin(r, "update", [NoTxn EXCEPT !.op = op, !.user = refresh_user[x],
                                                       !.presented = x])
        BY <2>3 DEF RefreshVerified, LogoutVerified
      <3> DEFINE t == [NoTxn EXCEPT !.op = op, !.user = refresh_user[x], !.presented = x]
      <3>2. t.minted = None
        BY DEF NoTxn
      <3> HIDE DEF t
      <3> QED BY <1>0, <3>1, <3>2 DEF t
    <2>4. ASSUME NEW u \in Users, ResetRequested(r, u)
          PROVE  Moved
      <3>1. PICK v \in ResetIds :
              Begin(r, "mail", [NoTxn EXCEPT !.op = "request", !.user = u, !.presented = v])
        BY <2>4 DEF ResetRequested
      <3> DEFINE t == [NoTxn EXCEPT !.op = "request", !.user = u, !.presented = v]
      <3>2. t.minted = None
        BY DEF NoTxn
      <3> HIDE DEF t
      <3> QED BY <1>0, <3>1, <3>2 DEF t
    <2>5. ASSUME NEW v \in ResetIds, NEW p \in Passwords, ResetVerified(r, v, p)
          PROVE  Moved
      <3> DEFINE t == [NoTxn EXCEPT !.op = "reset", !.user = reset_user[v],
                                    !.presented = v, !.password = p]
      <3>1. t.minted = None
        BY DEF NoTxn
      <3>2. Begin(r, "consume", t)
        BY <2>5 DEF ResetVerified
      <3> HIDE DEF t
      <3> QED BY <1>0, <3>1, <3>2
    <2>6. ASSUME NEW u \in Users, NEW current \in Passwords, NEW p \in Passwords,
                 PasswordAccepted(r, u, current, p)
          PROVE  Moved
      <3> DEFINE t == [NoTxn EXCEPT !.op = "change", !.user = u, !.password = p]
      <3>1. t.minted = None
        BY DEF NoTxn
      <3>2. Begin(r, "password", t)
        BY <2>6 DEF PasswordAccepted
      <3> HIDE DEF t
      <3> QED BY <1>0, <3>1, <3>2
    <2> QED BY <2>1, <2>2, <2>3, <2>4, <2>5, <2>6 DEF Arrive
  <1>2. /\ \A q \in Requests \ {r} : todo'[q] = todo[q]
        /\ UNCHANGED refresh_tokens
        /\ \A v \in ResetIds : reset_state[v] # "absent" => reset_user'[v] = reset_user[v]
    BY DEF Arrive, LoginVerified, LoginWrongPassword, RefreshVerified, LogoutVerified,
           ResetRequested, CreateResetToken, ResetVerified, PasswordAccepted, tables,
           verification_tokens, TypeOK, TablesOK, LocksOK
  <1> QED BY <1>1, <1>2 DEF Frame, refresh_tokens, clients

LEMMA StatementFrame ==
  ASSUME TypeOK, NEW r \in Requests,
         \/ LoginFlush(r) \/ Resolve(r) \/ NoMembership(r) \/ ConsumeReset(r)
         \/ WritePassword(r) \/ RevokeAll(r) \/ \E t \in RefreshIds : UpdateRow(r, t)
  PROVE  Frame(r) /\ txn' = txn /\ UNCHANGED <<tables, clients>>
  <1>1. /\ \A q \in Requests \ {r} : held'[q] = held[q] /\ todo'[q] = todo[q]
        /\ UNCHANGED <<txn, tables, clients>>
    BY DEF LoginFlush, Resolve, NoMembership, ConsumeReset, WritePassword, RevokeAll,
           UpdateRow, At, Lock, TypeOK, LocksOK
  <1>2. \E step : Goto(r, step)
    BY DEF LoginFlush, Resolve, NoMembership, ConsumeReset, WritePassword, RevokeAll, UpdateRow
  <1>3. \A q \in Requests \ {r} : pc'[q] = pc[q]
    BY <1>2 DEF Goto, TypeOK, HandlersOK
  <1> QED BY <1>1, <1>3 DEF Frame, tables, refresh_tokens, verification_tokens, clients

LEMMA MintFrame ==
  ASSUME TypeOK, NEW r \in Requests, NEW t \in RefreshIds, Mint(r, t)
  PROVE  /\ Frame(r) /\ UNCHANGED <<tables, clients, held, todo>>
         /\ txn'[r].op = txn[r].op /\ txn'[r].user = txn[r].user
         /\ txn'[r].presented = txn[r].presented /\ txn'[r].minted = t
  <1>1. /\ UNCHANGED <<held, todo, tables, clients>> /\ t \in Unminted
        /\ \A q \in Requests \ {r} : txn'[q] = txn[q]
        /\ txn'[r].op = txn[r].op /\ txn'[r].user = txn[r].user
        /\ txn'[r].presented = txn[r].presented /\ txn'[r].minted = t
    BY DEF Mint, At, TypeOK, HandlersOK, Txn
  <1>2. \A q \in Requests \ {r} : pc'[q] = pc[q]
    BY DEF Mint, Goto, TypeOK, HandlersOK
  <1> QED BY <1>1, <1>2 DEF Frame, tables, refresh_tokens, verification_tokens, clients

LEMMA CommitFrame ==
  ASSUME TypeOK, RowsExist, NEW r \in Requests, MintsFreshToken(r), Commit(r)
  PROVE  /\ Frame(r) /\ held'[r] = {} /\ todo'[r] = {}
         /\ \/ txn[r].op \in SessionOps /\ txn'[r] = txn[r] /\ pc'[r] = "respond"
            \/ txn[r].op \notin SessionOps /\ txn'[r] = NoTxn /\ pc'[r] = "idle"
  <1>1. /\ held' = [held EXCEPT ![r] = {}] /\ todo' = [todo EXCEPT ![r] = {}]
        /\ \A q \in Requests \ {r} : pc'[q] = pc[q]
        /\ pc'[r] = IF txn[r].op \in SessionOps THEN "respond" ELSE "idle"
    BY DEF Commit, Leave, TypeOK, HandlersOK
  <1>2. /\ \A q \in Requests \ {r} : txn'[q] = txn[q]
        /\ txn'[r] = IF txn[r].op \in SessionOps THEN txn[r] ELSE NoTxn
    BY DEF Commit, TypeOK, HandlersOK
  <1>3. \A x \in RefreshIds :
          /\ refresh_state[x] # "absent" =>
               refresh_state'[x] # "absent" /\ refresh_user'[x] = refresh_user[x]
          /\ refresh_state[x] = "absent" =>
               \/ refresh_state'[x] = "absent" /\ refresh_user'[x] = refresh_user[x]
               \/ x = txn[r].minted /\ refresh_state'[x] # "absent"
    BY RowNames DEF Commit, RowsExist, MintsFreshToken
  <1> QED BY <1>1, <1>2, <1>3 DEF Frame, Commit, clients, TypeOK, LocksOK, NoTxn

LEMMA EndFrame ==
  ASSUME TypeOK, NEW r \in Requests, Respond(r) \/ MailReset(r) \/ Abort(r) \/ Fail(r)
  PROVE  /\ Frame(r) /\ held'[r] = {} /\ todo'[r] = {} /\ txn'[r] = NoTxn /\ pc'[r] = "idle"
         /\ UNCHANGED tables
  <1>1. /\ Leave(r, "idle") /\ txn' = [txn EXCEPT ![r] = NoTxn] /\ UNCHANGED tables
        /\ delivered \subseteq delivered' /\ mailed \subseteq mailed'
    BY DEF Respond, MailReset, Abort, Fail, Rollback, clients
  <1>2. /\ \A q \in Requests \ {r} :
             pc'[q] = pc[q] /\ txn'[q] = txn[q] /\ held'[q] = held[q] /\ todo'[q] = todo[q]
        /\ held'[r] = {} /\ todo'[r] = {} /\ txn'[r] = NoTxn /\ pc'[r] = "idle"
    BY <1>1 DEF Leave, TypeOK, HandlersOK, LocksOK
  <1> QED BY <1>1, <1>2 DEF Frame, NoTxn, tables, refresh_tokens, verification_tokens

\* A request of which no step is taken keeps to the discipline.
LEMMA OtherKeeps ==
  ASSUME TypeOK, RowsExist, Discipline, NEW r \in Requests, NEW q \in Requests \ {r}, Frame(r)
  PROVE  HoldsOwnRows(q)' /\ UsesOwnToken(q)' /\ MintsFreshToken(q)'
  <1>1. /\ pc'[q] = pc[q] /\ txn'[q] = txn[q] /\ held'[q] = held[q] /\ todo'[q] = todo[q]
        /\ PastWrite(q)' = PastWrite(q)
    BY DEF Frame, PastWrite
  <1>2. \A x \in RefreshIds : x \in held[q] \cup todo[q] \cup delivered =>
          refresh_user'[x] = refresh_user[x]
    BY DEF Frame, RowsExist, HandedOutTokensArePersisted
  <1>3. \A v \in ResetIds : v \in mailed => reset_user'[v] = reset_user[v]
    BY DEF Frame, RowsExist, HandedOutTokensArePersisted
  <1>4. HoldsOwnRows(q)'
    BY <1>1, <1>2 DEF HoldsOwnRows, Discipline, TypeOK, LocksOK
  <1>5. UsesOwnToken(q)'
    BY <1>1, <1>2, <1>3 DEF UsesOwnToken, Discipline, Frame, TypeOK
  <1>6. MintsFreshToken(q)'
    <2> SUFFICES ASSUME txn[q].minted # None PROVE MintsFreshToken(q)'
      BY <1>1 DEF MintsFreshToken
    <2>1. txn[q].minted \in RefreshIds
      BY DEF TypeOK, HandlersOK, Txn
    <2>2. /\ pc[q] = "respond" \/ refresh_state[txn[q].minted] = "absent"
          /\ \A p \in Requests \ {q} : txn[p].minted # txn[q].minted
      BY DEF Discipline, MintsFreshToken
    <2>3. pc'[q] = "respond" \/ refresh_state'[txn[q].minted] = "absent"
      BY <1>1, <2>1, <2>2 DEF Frame
    <2>4. txn'[r].minted # txn[q].minted
      BY <2>2 DEF Frame, Unminted
    <2>5. \A p \in Requests \ {q} : txn'[p].minted # txn[q].minted
      BY <2>2, <2>4 DEF Frame
    <2> QED BY <1>1, <2>3, <2>5 DEF MintsFreshToken
  <1> QED BY <1>4, <1>5, <1>6

-----------------------------------------------------------------------------
(* The request that takes the step. *)

Keeps(r) == HoldsOwnRows(r) /\ UsesOwnToken(r) /\ MintsFreshToken(r)

LEMMA IdleHoldsNothing ==
  ASSUME TypeOK, NEW r \in Requests, HoldsOwnRows(r), pc[r] = "idle"
  PROVE  held[r] = {} /\ todo[r] = {}
  <1>1. txn[r].op = "none" /\ ~PastWrite(r)
    BY DEF TypeOK, HandlersOK, Prepared, Reaching, PastWrite
  <1> QED BY <1>1 DEF HoldsOwnRows, TypeOK, LocksOK, Rows

\* A request that ends, or answers after its COMMIT, has nothing left to keep.
LEMMA LeaveKeeps ==
  ASSUME NEW r \in Requests, held'[r] = {}, todo'[r] = {},
         txn'[r] = NoTxn
  PROVE  Keeps(r)'
  BY DEF Keeps, HoldsOwnRows, UsesOwnToken, MintsFreshToken, NoTxn

LEMMA CommitKeeps ==
  ASSUME TypeOK, RowsExist, Discipline, NEW r \in Requests, Commit(r)
  PROVE  Keeps(r)'
  <1>1. /\ Frame(r) /\ held'[r] = {} /\ todo'[r] = {}
        /\ \/ txn[r].op \in SessionOps /\ txn'[r] = txn[r] /\ pc'[r] = "respond"
           \/ txn[r].op \notin SessionOps /\ txn'[r] = NoTxn /\ pc'[r] = "idle"
    BY CommitFrame DEF Discipline
  <1>2. CASE txn[r].op \in SessionOps
    <2>1. txn'[r] = txn[r] /\ pc'[r] = "respond" /\ txn[r].op # "reset"
      BY <1>1, <1>2 DEF SessionOps
    <2>2. HoldsOwnRows(r)'
      BY <1>1, <2>1 DEF HoldsOwnRows
    <2>3. UsesOwnToken(r)'
      <3>1. txn[r].op \in {"refresh", "logout"} =>
              /\ txn[r].presented \in delivered /\ txn[r].presented \in RefreshIds
              /\ refresh_user[txn[r].presented] = txn[r].user
        BY DEF Discipline, UsesOwnToken, TypeOK
      <3> QED BY <1>1, <2>1, <3>1
              DEF UsesOwnToken, Frame, RowsExist, HandedOutTokensArePersisted
    <2>4. MintsFreshToken(r)'
      BY <1>1, <2>1 DEF Discipline, MintsFreshToken, Frame
    <2> QED BY <2>2, <2>3, <2>4 DEF Keeps
  <1>3. CASE txn[r].op \notin SessionOps
    BY <1>1, <1>3, LeaveKeeps
  <1> QED BY <1>2, <1>3

\* A statement that only locks a row or moves on keeps the tokens as they were.
LEMMA StatementKeepsTokens ==
  ASSUME TypeOK, Discipline, NEW r \in Requests, pc[r] # "respond", txn' = txn,
         UNCHANGED <<tables, clients>>
  PROVE  UsesOwnToken(r)' /\ MintsFreshToken(r)'
  BY DEF Discipline, UsesOwnToken, MintsFreshToken, tables, refresh_tokens,
         verification_tokens, clients

LEMMA LockKeeps ==
  ASSUME TypeOK, Discipline, NEW r \in Requests,
         LoginFlush(r) \/ ConsumeReset(r) \/ WritePassword(r)
  PROVE  HoldsOwnRows(r)'
  <1> DEFINE t == txn[r]
  <1>1. /\ txn' = txn /\ UNCHANGED <<tables, todo>>
        /\ Prepared(pc[r], t) /\ held[r] \subseteq Rows
    BY DEF LoginFlush, ConsumeReset, WritePassword, At, TypeOK, HandlersOK, LocksOK
  <1>2. todo[r] = {}
    BY DEF Discipline, HoldsOwnRows, LoginFlush, ConsumeReset, WritePassword, At
  <1>3. CASE LoginFlush(r)
    <2>1. /\ t.op = "login" /\ t.user \in Users /\ pc[r] = "flush" /\ pc'[r] = "member"
          /\ held'[r] = held[r] \cup {t.user}
      BY <1>1, <1>3 DEF LoginFlush, At, Goto, Lock, Prepared, Reaching, TypeOK, HandlersOK, LocksOK
    <2>2. held[r] = {}
      BY <1>1, <2>1 DEF Discipline, HoldsOwnRows, PastWrite, PasswordOps, Rows
    <2> QED BY <1>1, <1>2, <2>1, <2>2, RowNames DEF HoldsOwnRows
  <1>4. CASE ConsumeReset(r)
    <2>1. /\ t.op = "reset" /\ t.presented \in ResetIds /\ pc[r] = "consume"
          /\ pc'[r] = "password" /\ held'[r] = held[r] \cup {t.presented}
      BY <1>1, <1>4 DEF ConsumeReset, At, Goto, Lock, Prepared, Reaching, TypeOK, HandlersOK, LocksOK
    <2>2. held[r] = {}
      BY <1>1, <2>1 DEF Discipline, HoldsOwnRows, PastWrite, Rows
    <2> QED BY <1>1, <1>2, <2>1, <2>2, RowNames DEF HoldsOwnRows
  <1>5. CASE WritePassword(r)
    <2>0. /\ pc[r] = "password" /\ pc'[r] = "revoke" /\ held'[r] = held[r] \cup {t.user}
      BY <1>1, <1>5 DEF WritePassword, At, Goto, Lock, TypeOK, HandlersOK, LocksOK
    <2>1. t.op \in PasswordOps /\ t.user \in Users
      BY <1>1, <2>0 DEF Prepared, Reaching, PasswordOps
    <2>2. PastWrite(r)' /\ ~PastWrite(r)
      BY <1>1, <2>0, <2>1 DEF PastWrite
    <2>3. \A x \in held[r] : x \in ResetIds /\ t.op = "reset" /\ x = t.presented
      BY <1>1, <2>0, <2>1, <2>2 DEF Discipline, HoldsOwnRows, Rows, PasswordOps
    <2>4. t.op = "reset" => t.presented \in held[r]
      BY <2>0 DEF Discipline, HoldsOwnRows
    <2> QED BY <1>1, <1>2, <2>0, <2>1, <2>2, <2>3, <2>4, RowNames DEF HoldsOwnRows, PasswordOps
  <1> QED BY <1>3, <1>4, <1>5

LEMMA MoveKeeps ==
  ASSUME TypeOK, Discipline, NEW r \in Requests, Resolve(r) \/ NoMembership(r)
  PROVE  HoldsOwnRows(r)'
  <1>1. /\ txn' = txn /\ UNCHANGED <<tables, held, todo>> /\ pc[r] = "member"
        /\ pc'[r] \in {"mint", "commit", "raise"}
    BY DEF Resolve, NoMembership, At, Goto, TypeOK, HandlersOK
  <1>2. txn[r].op \in {"login", "refresh"} /\ ~PastWrite(r)
    BY <1>1 DEF TypeOK, HandlersOK, Prepared, Reaching, SessionOps, PastWrite
  <1> QED BY <1>1, <1>2 DEF Discipline, HoldsOwnRows, tables, refresh_tokens

LEMMA RevokeKeeps ==
  ASSUME TypeOK, Discipline, NEW r \in Requests, RevokeAll(r)
  PROVE  HoldsOwnRows(r)'
  <1> DEFINE S == SessionsOf(txn[r].user)
  <1>1. /\ txn' = txn /\ UNCHANGED <<tables, held>> /\ pc[r] = "revoke"
        /\ todo'[r] = S /\ pc'[r] = IF S = {} THEN "commit" ELSE "update"
    BY DEF RevokeAll, At, Goto, TypeOK, HandlersOK, LocksOK
  <1>2. txn[r].op \in PasswordOps
    BY <1>1 DEF TypeOK, HandlersOK, Prepared, Reaching
  <1>3. PastWrite(r) /\ PastWrite(r)'
    BY <1>1, <1>2 DEF PastWrite
  <1>4. \A x \in S : refresh_user[x] = txn[r].user
    BY SessionsExist
  <1> HIDE DEF S
  <1>5. \A x \in held[r] : x \notin RefreshIds
    BY <1>1, <1>2 DEF Discipline, HoldsOwnRows, PasswordOps
  <1> QED BY <1>1, <1>2, <1>3, <1>4, <1>5
          DEF Discipline, HoldsOwnRows, PasswordOps, tables, refresh_tokens

LEMMA UpdateKeeps ==
  ASSUME TypeOK, Discipline, NEW r \in Requests, NEW x \in RefreshIds, UpdateRow(r, x)
  PROVE  HoldsOwnRows(r)'
  <1>1. /\ txn' = txn /\ UNCHANGED tables /\ pc[r] = "update" /\ x \in todo[r]
        /\ todo'[r] = todo[r] \ {x} /\ held'[r] = held[r] \cup {x}
        /\ pc'[r] = IF todo[r] # {x} THEN "update"
                    ELSE IF txn[r].op = "refresh" THEN "mint" ELSE "commit"
    BY DEF UpdateRow, At, Goto, Lock, TypeOK, HandlersOK, LocksOK
  <1>2. txn[r].op \in {"refresh", "logout"} \cup PasswordOps
    BY <1>1 DEF TypeOK, HandlersOK, Prepared, Reaching
  <1>3. CASE txn[r].op \in {"refresh", "logout"}
    <2>1. todo[r] = {x} /\ x = txn[r].presented
      BY <1>1, <1>3 DEF Discipline, HoldsOwnRows
    <2>2. held[r] = {}
      BY <1>1, <1>3 DEF Discipline, HoldsOwnRows, PastWrite, PasswordOps, TypeOK, LocksOK, Rows
    <2> QED BY <1>1, <1>3, <2>1, <2>2, RowNames DEF HoldsOwnRows
  <1>4. CASE txn[r].op \in PasswordOps
    <2>1. PastWrite(r) /\ PastWrite(r)' /\ pc'[r] \in {"update", "commit"}
      BY <1>1, <1>4 DEF PastWrite, PasswordOps
    <2>2. \A y \in todo'[r] : pc'[r] = "update"
      BY <1>1
    <2>3. x \notin Users /\ x \notin ResetIds
      BY RowNames
    <2> QED BY <1>1, <1>4, <2>1, <2>2, <2>3
            DEF Discipline, HoldsOwnRows, PasswordOps, tables, refresh_tokens
  <1> QED BY <1>2, <1>3, <1>4

LEMMA MintKeeps ==
  ASSUME TypeOK, Discipline, NEW r \in Requests, NEW x \in RefreshIds, Mint(r, x)
  PROVE  Keeps(r)'
  <1>1. /\ UNCHANGED <<tables, clients, held, todo>> /\ Frame(r)
        /\ txn'[r].op = txn[r].op /\ txn'[r].user = txn[r].user
        /\ txn'[r].presented = txn[r].presented /\ txn'[r].minted = x
    BY MintFrame
  <1>2. /\ pc[r] = "mint" /\ txn[r].op \in {"login", "refresh"} /\ x \in Unminted
        /\ pc'[r] = IF txn[r].op = "login" THEN "commit" ELSE "member"
    BY DEF Mint, At, Goto, TypeOK, HandlersOK, Prepared, Reaching, SessionOps
  <1>3. HoldsOwnRows(r)'
    BY <1>1, <1>2 DEF Discipline, HoldsOwnRows, PastWrite, PasswordOps, tables, refresh_tokens
  <1>4. UsesOwnToken(r)'
    BY <1>1, <1>2 DEF Discipline, UsesOwnToken, tables, refresh_tokens, clients
  <1>5. MintsFreshToken(r)'
    BY <1>1, <1>2 DEF MintsFreshToken, Unminted, Frame, tables, refresh_tokens
  <1> QED BY <1>3, <1>4, <1>5 DEF Keeps

\* The first step of a handler: it holds nothing yet.
LEMMA BeginKeeps ==
  ASSUME TypeOK, Discipline, NEW r \in Requests, NEW step, NEW t, Begin(r, step, t),
         t.minted = None, t.op = "reset" => step = "consume",
         \A x \in todo'[r] : /\ step = "update" /\ refresh_user'[x] = t.user
                             /\ x = t.presented,
         t.op \in {"refresh", "logout"} =>
           t.presented \in delivered /\ refresh_user'[t.presented] = t.user,
         t.op = "reset" => t.presented \in mailed /\ reset_user'[t.presented] = t.user
  PROVE  Keeps(r)'
  <1>1. held[r] = {}
    BY IdleHoldsNothing DEF Begin, Discipline
  <1>2. /\ held'[r] = {} /\ txn'[r] = t /\ pc'[r] = step /\ UNCHANGED clients
    BY <1>1 DEF Begin, TypeOK, HandlersOK
  <1> QED BY <1>2 DEF Keeps, HoldsOwnRows, UsesOwnToken, MintsFreshToken, clients

LEMMA ArriveKeeps ==
  ASSUME TypeOK, Discipline, NEW r \in Requests, Arrive(r)
  PROVE  Keeps(r)'
  <1>0. pc[r] = "idle" => todo[r] = {}
    BY IdleHoldsNothing DEF Discipline
  <1>1. ASSUME NEW u \in Users, NEW p \in Passwords, NEW org \in Orgs,
               LoginVerified(r, u, p, org)
        PROVE  Keeps(r)'
    <2> DEFINE t == [NoTxn EXCEPT !.op = "login", !.user = u, !.org = org]
    <2>1. t.minted = None /\ t.op = "login"
      BY DEF NoTxn
    <2>2. Begin(r, "flush", t) /\ todo' = todo
      BY <1>1 DEF LoginVerified
    <2> HIDE DEF t
    <2>3. todo'[r] = {}
      BY <1>0, <2>2 DEF Begin
    <2> QED BY <2>1, <2>2, <2>3, BeginKeeps
  <1>2. ASSUME NEW u \in Users, NEW p \in Passwords, LoginWrongPassword(r, u, p)
        PROVE  Keeps(r)'
    <2> DEFINE t == RecordFailedLogin(u)
    <2>1. t.minted = None /\ t.op = "login"
      BY DEF RecordFailedLogin, NoTxn
    <2>2. Begin(r, "raise", t) /\ todo' = todo
      BY <1>2 DEF LoginWrongPassword
    <2> HIDE DEF t
    <2>3. todo'[r] = {}
      BY <1>0, <2>2 DEF Begin
    <2> QED BY <2>1, <2>2, <2>3, BeginKeeps
  <1>3. ASSUME NEW x \in RefreshIds, RefreshVerified(r, x) \/ LogoutVerified(r, x)
        PROVE  Keeps(r)'
    <2>1. PICK op \in {"refresh", "logout"} :
            Begin(r, "update", [NoTxn EXCEPT !.op = op, !.user = refresh_user[x],
                                             !.presented = x])
      BY <1>3 DEF RefreshVerified, LogoutVerified
    <2> DEFINE t == [NoTxn EXCEPT !.op = op, !.user = refresh_user[x], !.presented = x]
    <2>2. t.minted = None /\ t.op = op /\ t.user = refresh_user[x] /\ t.presented = x
      BY DEF NoTxn
    <2> HIDE DEF t
    <2>3. Begin(r, "update", t)
      BY <2>1 DEF t
    <2>4. todo'[r] = {x} /\ UNCHANGED tables /\ x \in delivered
      BY <1>3 DEF RefreshVerified, LogoutVerified, ValidRefresh, TypeOK, LocksOK
    <2>5. refresh_user' = refresh_user
      BY <2>4 DEF tables, refresh_tokens
    <2> QED BY <2>2, <2>3, <2>4, <2>5, BeginKeeps
  <1>4. ASSUME NEW u \in Users, ResetRequested(r, u)
        PROVE  Keeps(r)'
    <2>1. PICK v \in ResetIds :
            /\ Begin(r, "mail", [NoTxn EXCEPT !.op = "request", !.user = u, !.presented = v])
            /\ todo' = todo
      BY <1>4 DEF ResetRequested
    <2> DEFINE t == [NoTxn EXCEPT !.op = "request", !.user = u, !.presented = v]
    <2>2. t.minted = None /\ t.op = "request"
      BY DEF NoTxn
    <2> HIDE DEF t
    <2>3. Begin(r, "mail", t)
      BY <2>1 DEF t
    <2>4. todo'[r] = {}
      BY <1>0, <2>1, <2>3 DEF Begin
    <2> QED BY <2>2, <2>3, <2>4, BeginKeeps
  <1>5. ASSUME NEW v \in ResetIds, NEW p \in Passwords, ResetVerified(r, v, p)
        PROVE  Keeps(r)'
    <2> DEFINE t == [NoTxn EXCEPT !.op = "reset", !.user = reset_user[v],
                                  !.presented = v, !.password = p]
    <2>1. t.minted = None /\ t.op = "reset" /\ t.user = reset_user[v] /\ t.presented = v
      BY DEF NoTxn
    <2>2. /\ Begin(r, "consume", t) /\ todo' = todo
          /\ v \in mailed /\ UNCHANGED tables
      BY <1>5 DEF ResetVerified, ConsumableReset
    <2> HIDE DEF t
    <2>3. todo'[r] = {}
      BY <1>0, <2>2 DEF Begin
    <2>4. reset_user' = reset_user
      BY <2>2 DEF tables, verification_tokens
    <2> QED BY <2>1, <2>2, <2>3, <2>4, BeginKeeps
  <1>6. ASSUME NEW u \in Users, NEW current \in Passwords, NEW p \in Passwords,
               PasswordAccepted(r, u, current, p)
        PROVE  Keeps(r)'
    <2> DEFINE t == [NoTxn EXCEPT !.op = "change", !.user = u, !.password = p]
    <2>1. t.minted = None /\ t.op = "change"
      BY DEF NoTxn
    <2>2. Begin(r, "password", t) /\ todo' = todo
      BY <1>6 DEF PasswordAccepted
    <2> HIDE DEF t
    <2>3. todo'[r] = {}
      BY <1>0, <2>2 DEF Begin
    <2> QED BY <2>1, <2>2, <2>3, BeginKeeps
  <1> QED BY <1>1, <1>2, <1>3, <1>4, <1>5, <1>6 DEF Arrive

LEMMA StepKeeps ==
  ASSUME TypeOK, RowsExist, Discipline, NEW r \in Requests, Arrive(r) \/ Progress(r) \/ Fail(r)
  PROVE  Frame(r) /\ Keeps(r)'
  <1>1. CASE Arrive(r)
    BY <1>1, ArriveFrame, ArriveKeeps
  <1>2. CASE \/ LoginFlush(r) \/ Resolve(r) \/ NoMembership(r) \/ ConsumeReset(r)
             \/ WritePassword(r) \/ RevokeAll(r) \/ \E t \in RefreshIds : UpdateRow(r, t)
    <2>1. Frame(r) /\ txn' = txn /\ UNCHANGED <<tables, clients>>
      BY <1>2, StatementFrame
    <2>2. pc[r] # "respond"
      BY <1>2 DEF LoginFlush, Resolve, NoMembership, ConsumeReset, WritePassword, RevokeAll,
                  UpdateRow, At
    <2>3. UsesOwnToken(r)' /\ MintsFreshToken(r)'
      BY <2>1, <2>2, StatementKeepsTokens
    <2>4. HoldsOwnRows(r)'
      BY <1>2, LockKeeps, MoveKeeps, RevokeKeeps, UpdateKeeps
    <2> QED BY <2>1, <2>3, <2>4 DEF Keeps
  <1>3. CASE \E t \in RefreshIds : Mint(r, t)
    BY <1>3, MintFrame, MintKeeps
  <1>4. CASE Commit(r)
    BY <1>4, CommitFrame, CommitKeeps DEF Discipline
  <1>5. CASE Respond(r) \/ MailReset(r) \/ Abort(r) \/ Fail(r)
    BY <1>5, EndFrame, LeaveKeeps
  <1> QED BY <1>1, <1>2, <1>3, <1>4, <1>5 DEF Progress

LEMMA DisciplineInit == Init => Discipline
  BY DEF Init, Discipline, HoldsOwnRows, UsesOwnToken, MintsFreshToken, AbsentRowsUnowned, NoTxn

LEMMA DisciplineNext == SessionsInv /\ Discipline /\ [Next]_vars => Discipline'
  <1> SUFFICES ASSUME TypeOK, RowsExist, Discipline, [Next]_vars PROVE Discipline'
    BY DEF SessionsInv
  <1>1. CASE UNCHANGED <<tables, clients, pc, txn, held, todo>>
    BY <1>1 DEF Discipline, HoldsOwnRows, UsesOwnToken, MintsFreshToken, AbsentRowsUnowned,
                PastWrite, tables, refresh_tokens, verification_tokens, clients
  <1>2. ASSUME NEW r \in Requests, Arrive(r) \/ Progress(r) \/ Fail(r)
        PROVE  Discipline'
    <2>1. Frame(r) /\ Keeps(r)'
      BY <1>2, StepKeeps
    <2>2. \A q \in Requests : HoldsOwnRows(q)' /\ UsesOwnToken(q)' /\ MintsFreshToken(q)'
      BY <2>1, OtherKeeps DEF Keeps
    <2>3. AbsentRowsUnowned'
      BY <2>1 DEF AbsentRowsUnowned, Discipline, Frame
    <2> QED BY <2>2, <2>3 DEF Discipline
  <1> QED BY <1>1, <1>2 DEF Next, Tick, vars

\* Whatever the instance, every request locks only the rows its handler names, in the
\* order reset token, credential, sessions.
THEOREM LockDiscipline == Spec => [](SessionsInv /\ Discipline)
  <1>1. Init => SessionsInv /\ Discipline
    BY SessionsInvInit, DisciplineInit
  <1>2. (SessionsInv /\ Discipline) /\ [Next]_vars => (SessionsInv /\ Discipline)'
    BY SessionsInvNext, DisciplineNext
  <1> QED BY <1>1, <1>2, PTL DEF Spec

-----------------------------------------------------------------------------
(* No deadlock. *)

\* How far request r is along the order in which rows are locked.
Rank(r) ==
  IF pc[r] = "consume" THEN 1
  ELSE IF pc[r] \in {"flush", "password"} THEN 2
  ELSE IF pc[r] = "update" /\ txn[r].op \notin PasswordOps THEN 3
  ELSE IF pc[r] = "update" THEN 4 ELSE 5

\* A request waits only for one that is further along.
LEMMA WaitsForHigher ==
  ASSUME SessionsInv, Discipline, NEW r \in Requests, NEW q \in Requests, WaitsFor(r, q)
  PROVE  Rank(r) < Rank(q)
  <1> USE DEF PasswordOps
  <1>1. PICK x : x \in Wanted(r) /\ x \in held[q]
    BY DEF WaitsFor
  <1>2. /\ pc[r] \in {"flush", "password", "consume", "update"} /\ Prepared(pc[r], txn[r])
        /\ pc[r] \in {"flush", "password"} => x = txn[r].user
        /\ pc[r] = "consume" => x = txn[r].presented
        /\ pc[r] = "update" => x \in todo[r]
    BY <1>1 DEF Wanted, SessionsInv, TypeOK, HandlersOK
  <1>3. HoldsOwnRows(q) /\ HoldsOwnRows(r)
    BY DEF Discipline
  <1>4. CASE pc[r] \in {"flush", "password"}
    <2>1. x \in Users
      BY <1>2, <1>4 DEF Prepared, Reaching
    <2>2. \/ txn[q].op = "login" /\ pc[q] \in {"member", "mint", "commit", "raise"}
          \/ PastWrite(q)
      BY <1>1, <1>3, <2>1 DEF HoldsOwnRows
    <2> QED BY <1>4, <2>2 DEF Rank, PastWrite
  <1>5. CASE pc[r] = "consume"
    <2>1. x \in ResetIds
      BY <1>2, <1>5 DEF Prepared, Reaching
    <2>2. pc[q] = "password" \/ PastWrite(q)
      BY <1>1, <1>3, <2>1 DEF HoldsOwnRows
    <2> QED BY <1>5, <2>2 DEF Rank, PastWrite
  <1>6. CASE pc[r] = "update"
    <2>1. x \in RefreshIds /\ refresh_user[x] = txn[r].user
      BY <1>2, <1>3, <1>6 DEF HoldsOwnRows, SessionsInv, TypeOK, LocksOK
    <2>2. \/ txn[q].op \in {"refresh", "logout"} /\ pc[q] # "update"
          \/ PastWrite(q) /\ pc[q] # "revoke" /\ refresh_user[x] = txn[q].user
      BY <1>1, <1>3, <2>1 DEF HoldsOwnRows
    <2>3. CASE txn[q].op \in {"refresh", "logout"} /\ pc[q] # "update"
      <3>1. pc[q] \notin {"consume", "flush", "password"}
        BY <2>3 DEF SessionsInv, TypeOK, HandlersOK, Prepared, Reaching
      <3> QED BY <1>6, <2>3, <3>1 DEF Rank
    <2>4. CASE PastWrite(q) /\ pc[q] # "revoke" /\ refresh_user[x] = txn[q].user
      <3>1. ~PastWrite(r)
        <4> SUFFICES ASSUME PastWrite(r) PROVE FALSE
          OBVIOUS
        <4>1. txn[r].user \in held[r] /\ txn[q].user \in held[q]
          BY <2>4 DEF SessionsInv, ChangeCoversSessions, Covers
        <4> QED BY <2>1, <2>4, <4>1 DEF WaitsFor, SessionsInv, LocksExclude
      <3>2. txn[r].op \notin PasswordOps
        BY <1>6, <3>1 DEF PastWrite
      <3> QED BY <1>6, <2>4, <3>2 DEF Rank, PastWrite
    <2> QED BY <2>2, <2>3, <2>4
  <1> QED BY <1>2, <1>4, <1>5, <1>6

\* Whatever the instance, no set of login, refresh, logout, reset and change requests
\* waits on itself for row locks.
THEOREM NoDeadlock == Spec => []NoWaitCycle
  <1>1. SessionsInv /\ Discipline => NoWaitCycle
    <2> SUFFICES ASSUME SessionsInv, Discipline, NEW S \in (SUBSET Requests) \ {{}}
                 PROVE  \E r \in S : \A q \in S : ~WaitsFor(r, q)
      BY DEF NoWaitCycle
    <2>1. \A r \in S : Rank(r) \in 1..5
      BY DEF Rank
    <2>2. \E r \in S : \A q \in S : Rank(q) <= Rank(r)
      <3> DEFINE Some(n) == \E r \in S : Rank(r) = n
      <3>1. Some(5) \/ Some(4) \/ Some(3) \/ Some(2) \/ Some(1)
        <4>1. PICK a : a \in S
          OBVIOUS
        <4>2. \/ Rank(a) = 1 \/ Rank(a) = 2 \/ Rank(a) = 3 \/ Rank(a) = 4 \/ Rank(a) = 5
          BY DEF Rank
        <4> QED BY <4>1, <4>2
      <3> QED BY <2>1, <3>1
    <2> QED BY <2>1, <2>2, WaitsForHigher
  <1> QED BY <1>1, LockDiscipline, PTL

-----------------------------------------------------------------------------
(* A reset token is spent with the password it is for. *)

LEMMA OnlyCommitWrites ==
  ASSUME TypeOK, [Next]_vars,
         \/ \E v \in ResetIds : reset_state[v] = "unused" /\ reset_state'[v] = "used"
         \/ \E u \in Users : password'[u] # password[u]
  PROVE  \E r \in Requests : Commit(r)
  <1>1. ASSUME NEW r \in Requests, Arrive(r) PROVE FALSE
    <2>1. password' = password
      BY <1>1 DEF Arrive, LoginVerified, LoginWrongPassword, RefreshVerified, LogoutVerified,
                  ResetRequested, ResetVerified, PasswordAccepted, tables, credentials
    <2>2. \A v \in ResetIds : reset_state'[v] = reset_state[v] \/ reset_state'[v] = "unused"
      BY <1>1 DEF Arrive, LoginVerified, LoginWrongPassword, RefreshVerified, LogoutVerified,
                  ResetRequested, CreateResetToken, ResetVerified, PasswordAccepted, tables,
                  verification_tokens, TypeOK, TablesOK
    <2> QED BY <2>1, <2>2
  <1>2. ~UNCHANGED tables
    BY DEF tables, credentials, verification_tokens
  <1>3. ASSUME NEW r \in Requests, Progress(r) \/ Fail(r) PROVE Commit(r)
    <2> SUFFICES ASSUME ~Commit(r) PROVE UNCHANGED tables
      BY <1>2
    <2> QED BY <1>3 DEF Progress, LoginFlush, Resolve, NoMembership, ConsumeReset, WritePassword,
                        RevokeAll, Mint, UpdateRow, At, Respond, MailReset, Abort, Fail, Rollback
  <1> QED BY <1>1, <1>2, <1>3 DEF Next, Tick, vars

\* Whatever the instance, a reset token is used up only by the COMMIT that sets its owner's
\* password, and a password changes only for the one who knew it or showed such a token.
THEOREM ResetIsAtomic == Spec => ResetTokenSpentWithPassword
  <1> DEFINE Spent == \A v \in ResetIds : reset_state[v] = "unused" /\ reset_state'[v] = "used" =>
                        \E r \in Requests : /\ txn[r].presented = v /\ v \in mailed
                                             /\ password'[reset_user[v]] = txn[r].password
             Known == \A u \in Users : password'[u] # password[u] =>
                        \E r \in Requests : /\ txn[r].user = u /\ pc'[r] = "idle"
                                             /\ \/ txn[r].op = "change"
                                                \/ reset_state'[txn[r].presented] = "used"
  <1>1. ASSUME SessionsInv, Discipline, NEW r \in Requests, Commit(r) PROVE Spent /\ Known
    <2> USE DEF PasswordOps
    <2>1. HoldsOwnRows(r) /\ UsesOwnToken(r) /\ pc[r] = "commit" /\ Prepared("commit", txn[r])
      BY <1>1 DEF Discipline, Commit, SessionsInv, TypeOK, HandlersOK
    <2>2. Spent
      <3> SUFFICES ASSUME NEW v \in ResetIds, v \in held[r]
                   PROVE  /\ txn[r].presented = v /\ v \in mailed
                          /\ password'[reset_user[v]] = txn[r].password
        BY <1>1 DEF Commit
      <3>1. txn[r].op = "reset" /\ v = txn[r].presented /\ PastWrite(r)
        BY <2>1 DEF HoldsOwnRows
      <3>2. v \in mailed /\ reset_user[v] = txn[r].user
        BY <2>1, <3>1 DEF UsesOwnToken
      <3>3. txn[r].user \in held[r] /\ txn[r].user \in Users
        BY <1>1, <2>1, <3>1 DEF SessionsInv, ChangeCoversSessions, Covers, Prepared
      <3>4. password'[txn[r].user] = txn[r].password
        BY <1>1, <3>1, <3>3 DEF Commit
      <3> QED BY <3>1, <3>2, <3>4
    <2>3. Known
      <3> SUFFICES ASSUME NEW u \in Users, u \in held[r], txn[r].op \in PasswordOps
                   PROVE  /\ txn[r].user = u /\ pc'[r] = "idle"
                          /\ \/ txn[r].op = "change"
                             \/ reset_state'[txn[r].presented] = "used"
        BY <1>1 DEF Commit
      <3>1. txn[r].user = u
        BY <2>1 DEF HoldsOwnRows
      <3>2. pc'[r] = "idle"
        BY <1>1 DEF Commit, Leave, SessionOps, SessionsInv, TypeOK, HandlersOK
      <3>3. txn[r].op = "reset" => reset_state'[txn[r].presented] = "used"
        BY <1>1, <2>1 DEF HoldsOwnRows, Prepared, Commit
      <3> QED BY <3>1, <3>2, <3>3
    <2> QED BY <2>2, <2>3
  <1>2. (SessionsInv /\ Discipline) /\ [Next]_vars => [Spent /\ Known]_vars
    <2> SUFFICES ASSUME SessionsInv, Discipline, [Next]_vars PROVE Spent /\ Known
      OBVIOUS
    <2>1. CASE \E r \in Requests : Commit(r)
      BY <1>1, <2>1
    <2>2. CASE ~\E r \in Requests : Commit(r)
      BY <2>2, OnlyCommitWrites DEF SessionsInv
    <2> QED BY <2>1, <2>2
  <1> QED BY <1>2, LockDiscipline, PTL DEF Spec, ResetTokenSpentWithPassword

=============================================================================
