----------------------- MODULE AuthSessionsRefinement -----------------------
(* AuthSessions implements SessionStore: concurrent requests, row locks, crashes and     *)
(* lost answers never show in what clients see of passwords, sessions and reset tokens.  *)
EXTENDS AuthSessionsLocks

-----------------------------------------------------------------------------
(* The two variables of SessionStore that the code has no table for. *)

Changed == {u \in Users : Changing(u)}
Young == {t \in RefreshIds : t \in raced /\ Changing(refresh_user[t])}

\* What a step that is no step of SessionStore leaves as it is.
Visible == <<password, refresh_state, refresh_user, reset_state, reset_user, delivered, mailed>>

LEMMA Stutters ==
  ASSUME UNCHANGED Visible, Changed' = Changed, Young' = Young
  PROVE  UNCHANGED Store!vars
  BY DEF Visible, Changed, Young, Store!vars, Store!sessions, Store!resets, Store!change

\* Only steps that take or drop the lock of a credential, in a request that sets a
\* password, change what is in the making.
LEMMA ChangeFrame ==
  ASSUME refresh_user' = refresh_user,
         \A t \in RefreshIds : t \in raced' <=> t \in raced,
         \A q \in Requests : \A u \in Users \cup {None} :
           (txn'[q].op \in PasswordOps /\ u \in held'[q]) <=>
             (txn[q].op \in PasswordOps /\ u \in held[q]),
         TypeOK
  PROVE  Changed' = Changed /\ Young' = Young
  <1>1. \A u \in Users \cup {None} : Changing(u)' <=> Changing(u)
    BY DEF Changing
  <1>2. \A t \in RefreshIds : refresh_user[t] \in Users \cup {None}
    BY DEF TypeOK, TablesOK
  <1> QED BY <1>1, <1>2 DEF Changed, Young

LEMMA QuietRefines ==
  ASSUME TypeOK, UNCHANGED Visible,
         \A t \in RefreshIds : t \in raced' <=> t \in raced,
         \A q \in Requests : \A u \in Users \cup {None} :
           (txn'[q].op \in PasswordOps /\ u \in held'[q]) <=>
             (txn[q].op \in PasswordOps /\ u \in held[q])
  PROVE  [Store!Next]_(Store!vars)
  <1>1. refresh_user' = refresh_user
    BY DEF Visible
  <1>2. Changed' = Changed /\ Young' = Young
    BY <1>1, ChangeFrame
  <1> QED BY <1>2, Stutters

\* A request that holds a credential for a password change is past its write.
LEMMA ChangerIsPastWrite ==
  ASSUME TypeOK, Discipline, NEW q \in Requests, NEW u \in Users \cup {None},
         txn[q].op \in PasswordOps, u \in held[q]
  PROVE  u \in Users /\ u = txn[q].user /\ PastWrite(q)
  <1>1. u \in Users
    BY RowNames DEF TypeOK, LocksOK, Rows
  <1> QED BY <1>1 DEF Discipline, HoldsOwnRows, PasswordOps

-----------------------------------------------------------------------------
(* The first step of a request. *)

LEMMA ArriveRefines ==
  ASSUME TypeOK, Discipline, NEW r \in Requests, Arrive(r)
  PROVE  [Store!Next]_(Store!vars)
  <1>1. /\ held' = held /\ held[r] = {} /\ UNCHANGED clients
        /\ \A q \in Requests \ {r} : txn'[q] = txn[q]
    <2>1. PICK step, t : Begin(r, step, t)
      BY DEF Arrive, LoginVerified, LoginWrongPassword, RefreshVerified, LogoutVerified,
             ResetRequested, ResetVerified, PasswordAccepted
    <2>2. held[r] = {}
      BY <2>1, IdleHoldsNothing DEF Begin, Discipline
    <2> QED BY <2>1, <2>2 DEF Begin, TypeOK, HandlersOK
  <1>2. \A q \in Requests : \A u \in Users \cup {None} :
          (txn'[q].op \in PasswordOps /\ u \in held'[q]) <=>
            (txn[q].op \in PasswordOps /\ u \in held[q])
    <2> SUFFICES ASSUME NEW q \in Requests, NEW u \in Users \cup {None}
                 PROVE  (txn'[q].op \in PasswordOps /\ u \in held'[q]) <=>
                          (txn[q].op \in PasswordOps /\ u \in held[q])
      OBVIOUS
    <2>1. CASE q = r
      BY <1>1, <2>1
    <2>2. CASE q # r
      BY <1>1, <2>2
    <2> QED BY <2>1, <2>2
  <1>3. \A t \in RefreshIds : t \in raced' <=> t \in raced
    BY RowNames DEF Arrive, LoginVerified, LoginWrongPassword, RefreshVerified, LogoutVerified,
                    ResetRequested, ResetVerified, PasswordAccepted, MarkIfRacing
  <1>4. CASE UNCHANGED tables
    <2>1. UNCHANGED Visible
      BY <1>1, <1>4 DEF Visible, tables, credentials, refresh_tokens, verification_tokens, clients
    <2> QED BY <1>2, <1>3, <2>1, QuietRefines
  <1>5. CASE \E u \in Users : ResetRequested(r, u)
    <2>1. PICK u \in Users, v \in ResetIds :
            /\ reset_state[v] = "absent"
            /\ reset_state' = [reset_state EXCEPT ![v] = "unused"]
            /\ reset_user' = [reset_user EXCEPT ![v] = u]
            /\ UNCHANGED <<credentials, refresh_tokens>>
      BY <1>5 DEF ResetRequested, CreateResetToken
    <2>2. refresh_user' = refresh_user
      BY <2>1 DEF refresh_tokens
    <2>3. Changed' = Changed /\ Young' = Young
      BY <1>2, <1>3, <2>2, ChangeFrame
    <2>4. Store!Issue(u, v)
      BY <1>1, <2>1, <2>3 DEF Store!Issue, Store!sessions, Store!change, Changed, Young,
                              credentials, refresh_tokens, clients
    <2> QED BY <2>4 DEF Store!Next
  <1> QED BY <1>4, <1>5 DEF Arrive, LoginVerified, LoginWrongPassword, RefreshVerified,
                            LogoutVerified, ResetVerified, PasswordAccepted

-----------------------------------------------------------------------------
(* Statements: only the one that writes a password shows. *)

LEMMA StatementRefines ==
  ASSUME TypeOK, NEW r \in Requests,
         \/ LoginFlush(r) \/ Resolve(r) \/ NoMembership(r) \/ ConsumeReset(r) \/ RevokeAll(r)
         \/ \E t \in RefreshIds : Mint(r, t) \/ UpdateRow(r, t)
  PROVE  [Store!Next]_(Store!vars)
  <1>0. UNCHANGED <<tables, clients, raced>>
    BY DEF LoginFlush, Resolve, NoMembership, ConsumeReset, RevokeAll, Mint, UpdateRow, At
  <1>1. /\ \A q \in Requests \ {r} : txn'[q] = txn[q] /\ held'[q] = held[q]
        /\ txn'[r].op = txn[r].op
    BY StatementFrame, MintFrame DEF Frame
  <1>2. ASSUME NEW u \in Users \cup {None}, txn[r].op \in PasswordOps
        PROVE  u \in held'[r] <=> u \in held[r]
    <2>1. CASE LoginFlush(r)
      BY <1>2, <2>1 DEF LoginFlush, At, TypeOK, HandlersOK, Prepared, Reaching, PasswordOps
    <2>2. CASE Resolve(r) \/ NoMembership(r) \/ RevokeAll(r) \/ \E t \in RefreshIds : Mint(r, t)
      BY <2>2 DEF Resolve, NoMembership, RevokeAll, Mint
    <2>3. CASE ConsumeReset(r) \/ \E t \in RefreshIds : UpdateRow(r, t)
      <3>1. PICK x : x \in ResetIds \cup RefreshIds /\ Lock(r, x)
        <4>1. CASE ConsumeReset(r)
          <5>1. txn[r].presented \in ResetIds
            BY <4>1 DEF ConsumeReset, At, TypeOK, HandlersOK, Prepared, Reaching
          <5> QED BY <4>1, <5>1 DEF ConsumeReset
        <4>2. CASE \E t \in RefreshIds : UpdateRow(r, t)
          BY <4>2 DEF UpdateRow
        <4> QED BY <2>3, <4>1, <4>2
      <3>2. x # u
        BY <3>1, RowNames
      <3> QED BY <3>1, <3>2 DEF Lock, TypeOK, LocksOK
    <2> QED BY <2>1, <2>2, <2>3
  <1>3. \A q \in Requests : \A u \in Users \cup {None} :
          (txn'[q].op \in PasswordOps /\ u \in held'[q]) <=>
            (txn[q].op \in PasswordOps /\ u \in held[q])
    <2> SUFFICES ASSUME NEW q \in Requests, NEW u \in Users \cup {None}
                 PROVE  (txn'[q].op \in PasswordOps /\ u \in held'[q]) <=>
                          (txn[q].op \in PasswordOps /\ u \in held[q])
      OBVIOUS
    <2>1. CASE q = r
      BY <1>1, <1>2, <2>1
    <2>2. CASE q # r
      BY <1>1, <2>2
    <2> QED BY <2>1, <2>2
  <1>4. UNCHANGED Visible
    BY <1>0 DEF Visible, tables, credentials, refresh_tokens, verification_tokens, clients
  <1> QED BY <1>0, <1>3, <1>4, QuietRefines

LEMMA WritePasswordRefines ==
  ASSUME TypeOK, Discipline, NEW r \in Requests, WritePassword(r),
         NEW u, u = txn[r].user
  PROVE  Store!Next
  <1>1. /\ txn' = txn /\ UNCHANGED <<tables, clients>> /\ Free(r, u)
        /\ held' = [held EXCEPT ![r] = @ \cup {u}]
        /\ pc[r] = "password" /\ Prepared("password", txn[r])
    BY DEF WritePassword, At, Lock, TypeOK, HandlersOK
  <1>2. u \in Users /\ txn[r].op \in PasswordOps
    BY <1>1 DEF Prepared, Reaching, PasswordOps
  <1>3. ~PastWrite(r)
    BY <1>1 DEF PastWrite
  <1>4. \A w \in Users \cup {None} : w \notin held[r]
    BY <1>2, <1>3, ChangerIsPastWrite
  <1>5. ~Changing(u)
    BY <1>1, <1>2, <1>4 DEF Changing, Free
  <1>6. \A w : Changing(w)' <=> Changing(w) \/ w = u
    BY <1>1, <1>2 DEF Changing, TypeOK, LocksOK
  <1>7. Changed' = Changed \cup {u}
    BY <1>2, <1>6 DEF Changed
  <1>8. \A t \in RefreshIds : t \in raced' <=> t \in raced /\ refresh_user[t] # u
    BY RowNames DEF WritePassword
  <1>9. refresh_user' = refresh_user
    BY <1>1 DEF tables, refresh_tokens
  <1>10. Young' = Young \ SessionsOf(u)
    BY <1>5, <1>6, <1>8, <1>9 DEF Young, SessionsOf
  <1>11. u \notin Changed
    BY <1>5 DEF Changed
  <1>12. UNCHANGED <<password, Store!sessions, Store!resets, delivered, mailed>>
    BY <1>1 DEF tables, credentials, refresh_tokens, verification_tokens, clients,
                Store!sessions, Store!resets
  <1>13. Store!BeginChange(u)
    BY <1>7, <1>10, <1>11, <1>12
    DEF Store!BeginChange, Store!SessionsOf, SessionsOf, Changed, Young
  <1> QED BY <1>2, <1>13 DEF Store!Next

-----------------------------------------------------------------------------
(* The COMMIT. *)

\* The request that changes u's password ends.
LEMMA ChangeEnds ==
  ASSUME TypeOK, LocksExclude, Discipline, NEW r \in Requests, NEW u \in Users,
         txn[r].op \in PasswordOps, u \in held[r], held'[r] = {},
         \A q \in Requests \ {r} : txn'[q] = txn[q] /\ held'[q] = held[q],
         \A t \in RefreshIds : t \in raced' <=> t \in raced,
         refresh_user' = refresh_user
  PROVE  u \in Changed /\ Changed' = Changed \ {u} /\ Young' = Young \ SessionsOf(u)
  <1>1. Changing(u) /\ u # None
    BY RowNames DEF Changing
  <1>2. \A w \in Users \cup {None} : w \in held[r] => w = u
    BY ChangerIsPastWrite
  <1>3. \A w \in Users \cup {None} : Changing(w)' <=> Changing(w) /\ w # u
    <2> SUFFICES ASSUME NEW w \in Users \cup {None} PROVE Changing(w)' <=> Changing(w) /\ w # u
      OBVIOUS
    <2>1. ASSUME Changing(w)' PROVE Changing(w) /\ w # u
      BY <2>1 DEF Changing, LocksExclude
    <2>2. ASSUME Changing(w), w # u PROVE Changing(w)'
      BY <1>2, <2>2 DEF Changing
    <2> QED BY <2>1, <2>2
  <1>4. \A t \in RefreshIds : /\ refresh_user[t] \in Users \cup {None}
                              /\ refresh_user[t] = u <=> t \in SessionsOf(u)
    BY <1>1 DEF TypeOK, TablesOK, Discipline, AbsentRowsUnowned, SessionsOf
  <1>5. Changed' = Changed \ {u} /\ u \in Changed
    BY <1>1, <1>3 DEF Changed
  <1>6. Young' = Young \ SessionsOf(u)
    BY <1>3, <1>4 DEF Young
  <1> QED BY <1>5, <1>6

LEMMA CommitChangeRefines ==
  ASSUME SessionsInv, Discipline, NEW r \in Requests, Commit(r), txn[r].op \in PasswordOps,
         NEW u, u = txn[r].user, NEW p, p = txn[r].password,
         NEW spent, spent = held[r] \cap ResetIds
  PROVE  Store!Next
  <1> DEFINE t == txn[r]
             kept == SessionsOf(u) \ held[r]
  <1> USE DEF SessionsInv
  <1>1. /\ t.minted = None /\ u \in Users /\ p \in Passwords
        /\ t.op \notin SessionOps
    BY DEF TypeOK, HandlersOK, Prepared, SessionOps, PasswordOps
  <1>2. PastWrite(r) /\ Covers(r) /\ pc[r] = "commit"
    BY DEF Commit, PastWrite, ChangeCoversSessions
  <1>3. HoldsOwnRows(r) /\ UsesOwnToken(r) /\ MintsFreshToken(r)
    BY DEF Discipline
  <1>4. u \in held[r] /\ \A w \in Users : w \in held[r] => w = u
    BY <1>2, <1>3 DEF Covers, HoldsOwnRows
  <1>5. password' = [password EXCEPT ![u] = p]
    BY <1>1, <1>4 DEF Commit, TypeOK, TablesOK
  <1>6. /\ reset_state' = [v \in ResetIds |-> IF v \in spent THEN "used" ELSE reset_state[v]]
        /\ reset_user' = reset_user /\ UNCHANGED <<delivered, mailed>>
    BY DEF Commit, clients
  <1>7. refresh_user' = refresh_user
    BY <1>1, RowNames DEF Commit, TypeOK, TablesOK
  <1>8. \A v \in spent : v = t.presented /\ v \in mailed /\ reset_user[v] = u
    BY <1>3 DEF HoldsOwnRows, UsesOwnToken
  <1>9. spent = {} \/ \E v \in ResetIds : spent = {v}
    BY <1>8
  <1>10. \A x \in RefreshIds : x \in held[r] => x \in SessionsOf(u)
    BY <1>2, <1>3 DEF HoldsOwnRows, RowsExist, SessionsOf, PasswordOps
  <1>11. \A x \in kept : x \in raced /\ x \in Young
    <2> SUFFICES ASSUME NEW x \in kept PROVE x \in raced /\ x \in Young
      OBVIOUS
    <2>1. x \in RefreshIds /\ refresh_user[x] = u
      BY DEF SessionsOf
    <2>2. x \in raced
      BY <1>2 DEF Covers
    <2>3. Changing(u)
      BY <1>4 DEF Changing
    <2> QED BY <2>1, <2>2, <2>3 DEF Young
  <1>12. refresh_state' = [x \in RefreshIds |-> IF x \in SessionsOf(u) \ kept THEN "revoked"
                                                ELSE refresh_state[x]]
    <2>1. \A x \in RefreshIds : x \in SessionsOf(u) \ kept <=> x \in held[r]
      BY <1>10
    <2>2. \A x \in RefreshIds : x # t.minted
      BY <1>1, RowNames
    <2> HIDE DEF kept
    <2> QED BY <2>1, <2>2 DEF Commit
  <1>13. /\ held'[r] = {}
         /\ \A q \in Requests \ {r} : txn'[q] = txn[q] /\ held'[q] = held[q]
    BY <1>3, CommitFrame DEF Frame
  <1>14. \A x \in RefreshIds : x \in raced' <=> x \in raced
    BY <1>1, RowNames DEF Commit
  <1>15. u \in Changed /\ Changed' = Changed \ {u} /\ Young' = Young \ SessionsOf(u)
    BY <1>1, <1>4, <1>7, <1>13, <1>14, ChangeEnds
  <1>16. kept \in SUBSET Young
    BY <1>11
  <1> HIDE DEF t, kept
  <1>17. Store!SessionsOf(u) = SessionsOf(u)
    BY DEF Store!SessionsOf, SessionsOf
  <1>18. Store!OverFor(u)
    BY <1>15, <1>17 DEF Store!OverFor, Changed, Young
  <1>19. spent \subseteq {v \in mailed : reset_user[v] = u}
    BY <1>8
  <1>20. \E k \in SUBSET Young :
           refresh_state' = [x \in RefreshIds |-> IF x \in Store!SessionsOf(u) \ k THEN "revoked"
                                                  ELSE refresh_state[x]]
    BY <1>12, <1>16, <1>17
  <1>21. Store!EndChange(u, p, spent)
    BY <1>5, <1>6, <1>7, <1>18, <1>19, <1>20 DEF Store!EndChange, Young
  <1>22. Store!EndChange(u, p, {}) \/
           \E v \in ResetIds : Store!EndChange(u, p, {v})
    BY <1>9, <1>21
  <1> QED BY <1>1, <1>22 DEF Store!Next

\* The token of a login or refresh that commits while the password is being changed is one
\* that the change has heard of.
LEMMA CommitSessionRefines ==
  ASSUME SessionsInv, Discipline, NEW r \in Requests, Commit(r), txn[r].op \in SessionOps,
         NEW u, u = txn[r].user, NEW s, s = txn[r].minted,
         NEW presented, presented = txn[r].presented
  PROVE  Store!Next
  <1> USE DEF SessionsInv
  <1>1. /\ u \in Users /\ s \in RefreshIds /\ txn[r].op \notin PasswordOps
        /\ pc[r] = "commit"
    BY DEF Commit, TypeOK, HandlersOK, Prepared, SessionOps, PasswordOps
  <1>2. HoldsOwnRows(r) /\ UsesOwnToken(r) /\ MintsFreshToken(r) /\ ~PastWrite(r)
    BY <1>1 DEF Discipline, PastWrite
  <1>3. refresh_state[s] = "absent" /\ refresh_user[s] = None
    BY <1>1, <1>2, RowNames DEF MintsFreshToken, Discipline, AbsentRowsUnowned
  <1>4. \A v \in ResetIds : v \notin held[r]
    BY <1>2, <1>1 DEF HoldsOwnRows, SessionOps
  <1>5. /\ password' = password /\ reset_state' = reset_state
        /\ UNCHANGED <<reset_user, delivered, mailed>>
    BY <1>1, <1>4 DEF Commit, clients, TypeOK, TablesOK
  <1>6. /\ held'[r] = {} /\ txn'[r] = txn[r]
        /\ \A q \in Requests \ {r} : txn'[q] = txn[q] /\ held'[q] = held[q]
    BY <1>2, CommitFrame DEF Frame
  <1>7. \A w : Changing(w)' <=> Changing(w)
    BY <1>1, <1>6 DEF Changing
  <1>8. Changed' = Changed
    BY <1>7 DEF Changed
  <1>9. ~Changing(None)
    BY ChangerIsPastWrite, RowNames DEF Changing
  <1>10. Changing(u) => r \in raced
    <2> SUFFICES ASSUME NEW q \in Requests, txn[q].op \in PasswordOps, u \in held[q]
                 PROVE  r \in raced
      BY DEF Changing
    <2>1. PastWrite(q) /\ u = txn[q].user
      BY <1>1, ChangerIsPastWrite
    <2> QED BY <1>1, <2>1 DEF ChangeCoversSessions, Covers
  <1>11. refresh_user' = [refresh_user EXCEPT ![s] = u]
    BY <1>1 DEF Commit, TypeOK, TablesOK
  <1>12. \A x \in RefreshIds : x \in raced' <=> x \in raced \/ (x = s /\ r \in raced)
    BY <1>1, RowNames DEF Commit
  <1>13. Young' = IF u \in Changed THEN Young \cup {s} ELSE Young
    <2>1. s \notin Young
      BY <1>3, <1>9 DEF Young
    <2>2. \A x \in RefreshIds \ {s} : x \in Young' <=> x \in Young
      BY <1>7, <1>11, <1>12 DEF Young, TypeOK, TablesOK
    <2>3. refresh_user'[s] = u
      BY <1>1, <1>11 DEF TypeOK, TablesOK
    <2>4. s \in Young' <=> Changing(u)
      BY <1>1, <1>7, <1>10, <1>12, <2>3 DEF Young
    <2>5. Young \subseteq RefreshIds /\ Young' \subseteq RefreshIds
      BY DEF Young
    <2>6. u \in Changed <=> Changing(u)
      BY <1>1 DEF Changed
    <2> QED BY <1>1, <2>1, <2>2, <2>4, <2>5, <2>6
  <1>14. \A x \in RefreshIds : x \in held[r] =>
           /\ x = presented /\ txn[r].op = "refresh" /\ x \in delivered
           /\ refresh_user[x] = u /\ refresh_state[x] # "absent"
    BY <1>2 DEF HoldsOwnRows, UsesOwnToken, RowsExist, SessionOps
  <1>15. CASE \A x \in RefreshIds : x \notin held[r]
    <2>1. refresh_state' = [x \in RefreshIds |-> IF x = s THEN "live"
                                                 ELSE IF x \in {} THEN "revoked"
                                                 ELSE refresh_state[x]]
      BY <1>15 DEF Commit
    <2>2. Store!Open(u, s, {})
      BY <1>3, <1>5, <1>8, <1>11, <1>13, <2>1
      DEF Store!Open, Store!resets, Changed, Young
    <2>3. Store!Login(u, s)
      BY <2>2 DEF Store!Login
    <2> QED BY <1>1, <2>3 DEF Store!Next
  <1>16. CASE presented \in RefreshIds /\ presented \in held[r]
    <2>1. refresh_state' = [x \in RefreshIds |-> IF x = s THEN "live"
                                                 ELSE IF x \in {presented} THEN "revoked"
                                                 ELSE refresh_state[x]]
      <3>1. s \notin held[r]
        BY <1>1, <1>3 DEF RowsExist
      <3>2. \A x \in RefreshIds : x \in held[r] <=> x = presented
        BY <1>14, <1>16
      <3> QED BY <3>1, <3>2 DEF Commit
    <2>2. {presented} \subseteq Store!SessionsOf(u)
      BY <1>14, <1>16 DEF Store!SessionsOf
    <2>3. Store!Open(u, s, {presented})
      BY <1>3, <1>5, <1>8, <1>11, <1>13, <2>1, <2>2
      DEF Store!Open, Store!resets, Changed, Young
    <2>4. Store!Refresh(u, s, presented)
      BY <1>14, <1>16, <2>3 DEF Store!Refresh
    <2> QED BY <1>1, <1>16, <2>4 DEF Store!Next
  <1> QED BY <1>14, <1>15, <1>16

LEMMA CommitLogoutRefines ==
  ASSUME SessionsInv, Discipline, NEW r \in Requests, Commit(r), txn[r].op = "logout",
         NEW s, s = txn[r].presented
  PROVE  [Store!Next]_(Store!vars)
  <1> USE DEF SessionsInv
  <1>1. /\ txn[r].op \notin PasswordOps \cup SessionOps /\ txn[r].minted = None
        /\ s \in RefreshIds
    BY DEF TypeOK, HandlersOK, Prepared, SessionOps, PasswordOps
  <1>2. HoldsOwnRows(r) /\ UsesOwnToken(r) /\ MintsFreshToken(r) /\ ~PastWrite(r)
    BY <1>1 DEF Discipline, PastWrite
  <1>3. /\ \A v \in ResetIds : v \notin held[r]
        /\ \A x \in RefreshIds : x \in held[r] => x = s /\ x \in delivered
    BY <1>2 DEF HoldsOwnRows, UsesOwnToken
  <1>4. \A x \in RefreshIds : x # txn[r].minted
    BY <1>1, RowNames
  <1>5. /\ password' = password /\ reset_state' = reset_state /\ refresh_user' = refresh_user
        /\ UNCHANGED <<reset_user, delivered, mailed>>
    BY <1>1, <1>3, <1>4 DEF Commit, clients, TypeOK, TablesOK
  <1>6. /\ held'[r] = {} /\ txn'[r] = NoTxn
        /\ \A q \in Requests \ {r} : txn'[q] = txn[q] /\ held'[q] = held[q]
    BY <1>1, <1>2, CommitFrame DEF Frame
  <1>7. \A x \in RefreshIds : x \in raced' <=> x \in raced
    BY <1>4, RowNames DEF Commit
  <1>8. \A q \in Requests : \A u \in Users \cup {None} :
          (txn'[q].op \in PasswordOps /\ u \in held'[q]) <=>
            (txn[q].op \in PasswordOps /\ u \in held[q])
    BY <1>1, <1>6 DEF NoTxn, PasswordOps
  <1>9. refresh_state' = [x \in RefreshIds |-> IF x \in held[r] THEN "revoked"
                                               ELSE refresh_state[x]]
    BY <1>4 DEF Commit
  <1>10. CASE s \notin held[r]
    <2>1. refresh_state' = refresh_state
      BY <1>3, <1>9, <1>10 DEF TypeOK, TablesOK
    <2> QED BY <1>5, <1>7, <1>8, <2>1, QuietRefines DEF Visible
  <1>11. CASE s \in held[r]
    <2>0. \A x \in RefreshIds : x \in held[r] <=> x = s
      BY <1>3, <1>11
    <2>1. refresh_state' = [refresh_state EXCEPT ![s] = "revoked"]
      BY <1>9, <2>0 DEF TypeOK, TablesOK
    <2>2. s \in delivered /\ refresh_state[s] # "absent"
      BY <1>1, <1>3, <1>11 DEF RowsExist
    <2>3. Changed' = Changed /\ Young' = Young
      BY <1>5, <1>7, <1>8, ChangeFrame
    <2>4. Store!Close(s)
      BY <1>5, <2>1, <2>2, <2>3
      DEF Store!Close, Store!resets, Store!change, Changed, Young
    <2> QED BY <1>1, <2>4 DEF Store!Next
  <1> QED BY <1>10, <1>11

-----------------------------------------------------------------------------
(* Answers, mails and failures. *)

LEMMA EndRefines ==
  ASSUME SessionsInv, Discipline, NEW r \in Requests,
         Respond(r) \/ MailReset(r) \/ Abort(r) \/ Fail(r)
  PROVE  [Store!Next]_(Store!vars)
  <1> USE DEF SessionsInv
  <1>1. /\ held'[r] = {} /\ txn'[r] = NoTxn /\ UNCHANGED tables
        /\ \A q \in Requests \ {r} : txn'[q] = txn[q] /\ held'[q] = held[q]
    BY EndFrame DEF Frame
  <1>2. \A t \in RefreshIds : t \in raced' <=> t \in raced
    BY RowNames DEF Respond, MailReset, Abort, Fail, Rollback
  <1>3. UNCHANGED <<password, refresh_state, refresh_user, reset_state, reset_user>>
    BY <1>1 DEF tables, credentials, refresh_tokens, verification_tokens
  <1>4. CASE \E u \in Users : txn[r].op \in PasswordOps /\ u \in held[r]
    <2>1. PICK u \in Users : txn[r].op \in PasswordOps /\ u \in held[r]
      BY <1>4
    <2>2. u \in Changed /\ Changed' = Changed \ {u} /\ Young' = Young \ SessionsOf(u)
      BY <1>1, <1>2, <1>3, <2>1, ChangeEnds
    <2>3. PastWrite(r)
      BY <2>1, ChangerIsPastWrite
    <2>4. UNCHANGED <<delivered, mailed>>
      BY <2>3 DEF PastWrite, Respond, MailReset, Abort, Fail, Rollback, clients
    <2>5. Store!SessionsOf(u) = SessionsOf(u)
      BY DEF Store!SessionsOf, SessionsOf
    <2>6. Store!OverFor(u)
      BY <2>2, <2>5 DEF Store!OverFor, Changed, Young
    <2>7. Store!CancelChange(u)
      BY <1>3, <2>4, <2>6 DEF Store!CancelChange, Store!sessions, Store!resets
    <2> QED BY <2>7 DEF Store!Next
  <1>5. CASE ~\E u \in Users : txn[r].op \in PasswordOps /\ u \in held[r]
    <2>1. \A u \in Users \cup {None} : ~(txn[r].op \in PasswordOps /\ u \in held[r])
      BY <1>5, ChangerIsPastWrite
    <2>2. \A q \in Requests : \A u \in Users \cup {None} :
            (txn'[q].op \in PasswordOps /\ u \in held'[q]) <=>
              (txn[q].op \in PasswordOps /\ u \in held[q])
      BY <1>1, <2>1
    <2>3. CASE UNCHANGED <<delivered, mailed>>
      BY <1>2, <1>3, <2>2, <2>3, QuietRefines DEF Visible
    <2>4. Changed' = Changed /\ Young' = Young
      BY <1>2, <1>3, <2>2, ChangeFrame
    <2>5. CASE Respond(r)
      <3>1. SUFFICES ASSUME NEW s, s = txn[r].minted, delivered' = delivered \cup {s}
            PROVE  [Store!Next]_(Store!vars)
        BY <2>3, <2>5 DEF Respond
      <3>2. mailed' = mailed
        BY <2>5 DEF Respond
      <3>3. s \in RefreshIds /\ refresh_state[s] # "absent"
        BY <2>5, <3>1 DEF Respond, RowsExist, TypeOK, HandlersOK, Prepared, Reaching
      <3>4. Store!Deliver(s)
        BY <1>3, <2>4, <3>1, <3>2, <3>3
        DEF Store!Deliver, Store!sessions, Store!resets, Store!change, Changed, Young
      <3> QED BY <3>3, <3>4 DEF Store!Next
    <2>6. CASE MailReset(r)
      <3>1. SUFFICES ASSUME NEW v, v = txn[r].presented, mailed' = mailed \cup {v}
            PROVE  [Store!Next]_(Store!vars)
        BY <2>3, <2>6 DEF MailReset
      <3>2. delivered' = delivered
        BY <2>6 DEF MailReset
      <3>3. v \in ResetIds /\ reset_state[v] # "absent"
        BY <2>6, <3>1 DEF MailReset, RowsExist, TypeOK, HandlersOK, Prepared, Reaching
      <3>4. Store!Mail(v)
        BY <1>3, <2>4, <3>1, <3>2, <3>3
        DEF Store!Mail, Store!sessions, Store!resets, Store!change, Changed, Young
      <3> QED BY <3>3, <3>4 DEF Store!Next
    <2>7. CASE Abort(r) \/ Fail(r)
      BY <2>3, <2>7 DEF Abort, Fail, Rollback, clients
    <2> QED BY <2>5, <2>6, <2>7
  <1> QED BY <1>4, <1>5

-----------------------------------------------------------------------------
LEMMA InitRefines == Init => Store!Init
  <1> SUFFICES ASSUME Init PROVE Store!Init
    OBVIOUS
  <1>1. Changed = {} /\ Young = {}
    BY DEF Init, Changed, Young, Changing
  <1> QED BY <1>1 DEF Init, Store!Init, Changed, Young

LEMMA NextRefines ==
  ASSUME SessionsInv, Discipline, [Next]_vars PROVE [Store!Next]_(Store!vars)
  <1>1. CASE Tick \/ UNCHANGED vars
    <2>1. UNCHANGED <<tables, clients, txn, held, raced>>
      BY <1>1 DEF Tick, vars
    <2>2. UNCHANGED Visible
      BY <2>1 DEF Visible, tables, credentials, refresh_tokens, verification_tokens, clients
    <2> QED BY <2>1, <2>2, QuietRefines DEF SessionsInv
  <1>2. ASSUME NEW r \in Requests, Arrive(r) PROVE [Store!Next]_(Store!vars)
    BY <1>2, ArriveRefines DEF SessionsInv
  <1>3. ASSUME NEW r \in Requests, Commit(r) PROVE [Store!Next]_(Store!vars)
    <2>1. txn[r].op \in SessionOps \cup PasswordOps \cup {"logout"}
      BY <1>3 DEF Commit, SessionsInv, TypeOK, HandlersOK, Prepared, Reaching
    <2> QED BY <1>3, <2>1, CommitSessionRefines, CommitChangeRefines, CommitLogoutRefines
  <1>4. ASSUME NEW r \in Requests, Progress(r) \/ Fail(r) PROVE [Store!Next]_(Store!vars)
    BY <1>3, <1>4, StatementRefines, WritePasswordRefines, EndRefines DEF Progress, SessionsInv
  <1> QED BY <1>1, <1>2, <1>4 DEF Next

\* Whatever the instance, every behaviour of the concurrent requests is, to their clients,
\* a behaviour of SessionStore.
THEOREM SessionsRefineStore == Spec => ImplementsSessionStore
  <1>1. SessionsInv /\ Discipline /\ [Next]_vars => [Store!Next]_(Store!vars)
    BY NextRefines
  <1> QED BY <1>1, InitRefines, LockDiscipline, PTL DEF Spec, ImplementsSessionStore, Store!Spec

=============================================================================
