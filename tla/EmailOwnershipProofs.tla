------------------------- MODULE EmailOwnershipProofs -------------------------
(* Proofs of the invariants of EmailOwnership, for any number of users, addresses and    *)
(* requests.  Frame says what a step may do to the rows and to the other requests; what  *)
(* they rely on and the invariants of the rows follow from it.                           *)
EXTENDS EmailOwnership, TLAPS

-----------------------------------------------------------------------------
(* What a step of r may do to the rows. *)

\* Tokens that exist keep their columns, but for used_at.
SameToken(v) ==
  /\ token_state[v] # "absent" /\ token_state'[v] # "absent"
  /\ token_type'[v] = token_type[v] /\ token_user'[v] = token_user[v]
  /\ token_email'[v] = token_email[v]

Creates(r, v) ==
  /\ v = txn[r].token /\ token_state[v] = "absent" /\ mailed'[v] = mailed[v]
  /\ token_user'[v] = txn[r].user
  /\ \/ /\ pc[r] = "token" /\ token_type'[v] = "EMAIL_CHANGE" /\ token_email'[v] = txn[r].email
        /\ UNCHANGED users
     \/ pc[r] = "commit" /\ txn[r].op = "register" /\ token_type'[v] = "EMAIL_VERIFY"

SameUser(u) ==
  /\ email'[u] = email[u] /\ normalized_email'[u] = normalized_email[u]
  /\ is_verified'[u] = is_verified[u] /\ proven'[u] = proven[u]

Registers(r, u) ==
  /\ pc[r] = "commit" /\ txn[r].op = "register" /\ u = txn[r].user
  /\ email'[u] = txn[r].email /\ normalized_email'[u] = normalize_email[txn[r].email]
  /\ is_verified'[u] = is_verified[u] /\ proven'[u] = proven[u]
  /\ token_user'[txn[r].token] = u /\ token_type'[txn[r].token] = "EMAIL_VERIFY"
  /\ token_state'[txn[r].token] = "unused"

Confirms(r, u) ==
  /\ pc[r] = "commit" /\ txn[r].op \in Confirming /\ u = txn[r].user
  /\ IF "email" \in txn[r].sets THEN txn[r].op = "confirm" /\ email'[u] = txn[r].email
     ELSE email'[u] = email[u]
  /\ \/ normalized_email'[u] = normalized_email[u]
     \/ WroteKey(r) /\ normalized_email'[u] = normalize_email[txn[r].email]
  /\ is_verified'[u]
  /\ proven'[u] = proven[u] \cup {mailed[txn[r].token]}

\* A step by one of `movers` (no request, when the clock moves).
Frame(movers) ==
  /\ \A q \in Requests \ movers : pc'[q] = pc[q] /\ txn'[q] = txn[q] /\ held'[q] = held[q]
  /\ \A v \in TokenIds : \/ SameToken(v)
                         \/ token_state[v] = "absent" /\ token_state'[v] = "absent"
                         \/ \E r \in movers : Creates(r, v)
  /\ \A u \in Users : \/ SameUser(u)
                      \/ \E r \in movers : Registers(r, u) \/ Confirms(r, u)
  /\ \A v \in TokenIds : \/ mailed'[v] = mailed[v]
                         \/ \E r \in movers : /\ pc[r] = "mail" /\ v = txn[r].token
                                              /\ mailed'[v] \in {None, txn[r].email}
                                              /\ UNCHANGED <<users, verification_tokens>>

-----------------------------------------------------------------------------
(* Frame keeps what the other requests rely on. *)

LEMMA Known ==
  ASSUME TypeOK, RequestsInv, NEW r \in Requests
  PROVE  /\ txn[r] \in Txn /\ Prepared(r) /\ StillSo(r) /\ KeyReserved(r)
         /\ \A q \in Requests \ {r} : Apart(r, q) /\ Apart(q, r)
  BY DEF TypeOK, RequestsInv

LEMMA AllowedAddresses ==
  /\ \A e \in Allowed : e \in Emails /\ normalize_email[e] \in Emails /\ normalize_email[e] \in Allowed
  /\ \A e \in Emails : e # None
  BY NormalForms, Domains, RowNames

\* Rows of users do not disappear, an address changes only with a verification, and
\* verified users stay verified.
LEMMA UsersStay ==
  ASSUME TypeOK, RequestsInv, NEW movers \in SUBSET Requests, Frame(movers), NEW u \in Users
  PROVE  /\ Exists(u) => Exists(u)'
         /\ Exists(u) /\ email'[u] # email[u] => is_verified'[u]
         /\ is_verified[u] => is_verified'[u]
  <1>1. CASE SameUser(u)
    BY <1>1 DEF SameUser, Exists
  <1>2. ASSUME NEW r \in movers, Registers(r, u)
        PROVE  ~Exists(u) /\ (is_verified[u] => is_verified'[u])
    <2>1. pc[r] = "commit" /\ txn[r].op = "register" /\ u = txn[r].user
          /\ is_verified'[u] = is_verified[u]
      BY <1>2 DEF Registers
    <2>2. StillSo(r)
      BY Known
    <2> QED BY <2>1, <2>2 DEF StillSo
  <1>3. ASSUME NEW r \in movers, Confirms(r, u)
        PROVE  (Exists(u) => Exists(u)') /\ is_verified'[u]
    <2>1. Prepared(r)
      BY Known
    <2>2. txn[r].op = "confirm" => txn[r].email # None
      BY <2>1, AllowedAddresses DEF Prepared
    <2> QED BY <1>3, <2>2 DEF Confirms, Exists
  <1> QED BY <1>1, <1>2, <1>3 DEF Frame

\* A token that exists stays as it is, and is mailed only by the request that created it.
LEMMA TokensStay ==
  ASSUME NEW movers \in SUBSET Requests, Frame(movers), NEW v \in TokenIds,
         token_state[v] # "absent"
  PROVE  SameToken(v)
  BY DEF Frame, Creates

LEMMA OthersKeep ==
  ASSUME TypeOK, TypeOK', RequestsInv, NEW movers \in SUBSET Requests, Frame(movers),
         NEW q \in Requests \ movers
  PROVE  Prepared(q)' /\ StillSo(q)' /\ KeyReserved(q)'
  <1>1. /\ pc'[q] = pc[q] /\ txn'[q] = txn[q] /\ held'[q] = held[q]
        /\ Prepared(q) /\ StillSo(q) /\ KeyReserved(q)
    BY Known DEF Frame
  <1>2. \A r \in movers : /\ r # q /\ Apart(r, q) /\ Prepared(r) /\ StillSo(r) /\ KeyReserved(r)
    BY Known
  <1> DEFINE t == txn[q]
  <1> DEFINE v == txn[q].token
  <1>3. Prepared(q)'
    BY <1>1 DEF Prepared
  <1>4. t.op # "none" => t.user \in Users /\ v \in TokenIds
    BY <1>1 DEF Prepared
  <1>5. t.op = "register" /\ pc[q] # "mail" => ~Exists(t.user)'
    <2> SUFFICES ASSUME t.op = "register", pc[q] # "mail" PROVE ~Exists(t.user)'
      OBVIOUS
    <2>1. t.user \in Users /\ ~Exists(t.user)
      BY <1>1, <1>4 DEF StillSo
    <2>2. ASSUME NEW r \in movers, Registers(r, t.user) PROVE FALSE
      BY <1>2, <2>2 DEF Registers, Apart
    <2>3. ASSUME NEW r \in movers, Confirms(r, t.user) PROVE FALSE
      <3>1. /\ txn[r].op \in Confirming /\ t.user = txn[r].user /\ StillSo(r) /\ Prepared(r)
        BY <1>2, <2>3 DEF Confirms
      <3>2. /\ token_state[txn[r].token] # "absent" /\ token_user[txn[r].token] = t.user
            /\ txn[r].token \in TokenIds
        BY <3>1 DEF StillSo, Prepared, Confirming
      <3> QED BY <2>1, <3>2 DEF TypeOK
    <2>4. SameUser(t.user)
      BY <2>1, <2>2, <2>3 DEF Frame
    <2> QED BY <1>1, <2>1, <2>4 DEF SameUser, Exists
  <1>6. t.op \in Creating => /\ mailed'[v] = None
                             /\ pc[q] = "mail" <=> token_state'[v] # "absent"
    <2> SUFFICES ASSUME t.op \in Creating
                 PROVE  /\ mailed'[v] = None
                        /\ pc[q] = "mail" <=> token_state'[v] # "absent"
      OBVIOUS
    <2>1. v \in TokenIds /\ mailed[v] = None /\ (pc[q] = "mail" <=> token_state[v] # "absent")
      BY <1>1, <1>4 DEF StillSo, Creating
    <2>2. \A r \in movers : ~(pc[r] = "mail" /\ v = txn[r].token)
      BY <1>2 DEF Apart, Prepared
    <2>3. mailed'[v] = mailed[v]
      BY <2>1, <2>2 DEF Frame
    <2>4. \A r \in movers : ~Creates(r, v)
      BY <1>2 DEF Apart, Prepared, Creates, Creating
    <2> QED BY <2>1, <2>3, <2>4 DEF Frame, SameToken
  <1>7. t.op = "request" => /\ Exists(t.user)'
                            /\ pc[q] = "mail" => /\ token_type'[v] = "EMAIL_CHANGE"
                                                  /\ token_email'[v] = t.email
    <2> SUFFICES ASSUME t.op = "request"
                 PROVE  /\ Exists(t.user)'
                        /\ pc[q] = "mail" => /\ token_type'[v] = "EMAIL_CHANGE"
                                              /\ token_email'[v] = t.email
      OBVIOUS
    <2>1. Exists(t.user)'
      BY <1>1, <1>4, UsersStay DEF StillSo
    <2>2. pc[q] = "mail" => SameToken(v) /\ token_type[v] = "EMAIL_CHANGE" /\ token_email[v] = t.email
      BY <1>1, <1>4, TokensStay DEF StillSo, Creating
    <2> QED BY <2>1, <2>2 DEF SameToken
  <1>8. t.op = "register" /\ pc[q] = "mail" =>
          /\ token_type'[v] = "EMAIL_VERIFY" /\ token_user'[v] = t.user
          /\ is_verified'[t.user] \/ email'[t.user] = t.email
    <2> SUFFICES ASSUME t.op = "register", pc[q] = "mail"
                 PROVE  /\ token_type'[v] = "EMAIL_VERIFY" /\ token_user'[v] = t.user
                        /\ is_verified'[t.user] \/ email'[t.user] = t.email
      OBVIOUS
    <2>1. /\ token_state[v] # "absent" /\ token_type[v] = "EMAIL_VERIFY"
          /\ token_user[v] = t.user /\ (is_verified[t.user] \/ email[t.user] = t.email)
      BY <1>1 DEF StillSo, Creating
    <2>2. SameToken(v)
      BY <1>4, <2>1, TokensStay
    <2>3. Exists(t.user)
      BY <1>4, <2>1 DEF TypeOK
    <2>4. is_verified'[t.user] \/ email'[t.user] = t.email
      BY <1>4, <2>1, <2>3, UsersStay
    <2> QED BY <2>1, <2>2, <2>4 DEF SameToken
  <1>9. t.op \in Confirming =>
          /\ token_state'[v] # "absent" /\ mailed'[v] # None
          /\ token_user'[v] = t.user /\ token_email'[v] = t.email
          /\ t.op = "confirm" <=> token_type'[v] = "EMAIL_CHANGE"
          /\ pc[q] \in {"update", "commit"} =>
               /\ "is_verified" \in t.sets \/ is_verified'[t.user]
               /\ t.op = "confirm" => \/ "email" \in t.sets \/ is_verified'[t.user]
                                      \/ email'[t.user] = t.email
    <2> SUFFICES ASSUME t.op \in Confirming
                 PROVE  /\ token_state'[v] # "absent" /\ mailed'[v] # None
                        /\ token_user'[v] = t.user /\ token_email'[v] = t.email
                        /\ t.op = "confirm" <=> token_type'[v] = "EMAIL_CHANGE"
                        /\ pc[q] \in {"update", "commit"} =>
                             /\ "is_verified" \in t.sets \/ is_verified'[t.user]
                             /\ t.op = "confirm" => \/ "email" \in t.sets
                                                    \/ is_verified'[t.user]
                                                    \/ email'[t.user] = t.email
      OBVIOUS
    <2>1. /\ t.user \in Users /\ v \in TokenIds
          /\ token_state[v] # "absent" /\ mailed[v] # None
          /\ token_user[v] = t.user /\ token_email[v] = t.email
          /\ t.op = "confirm" <=> token_type[v] = "EMAIL_CHANGE"
          /\ pc[q] \in {"update", "commit"} =>
               /\ "is_verified" \in t.sets \/ is_verified[t.user]
               /\ t.op = "confirm" => \/ "email" \in t.sets \/ is_verified[t.user]
                                      \/ email[t.user] = t.email
      BY <1>1, <1>4 DEF StillSo, Confirming
    <2>2. SameToken(v)
      BY <2>1, TokensStay
    <2>3. \A r \in movers : ~(pc[r] = "mail" /\ v = txn[r].token)
      BY <1>2, <2>1 DEF Prepared, StillSo
    <2>4. mailed'[v] = mailed[v]
      BY <2>1, <2>3 DEF Frame
    <2>5. /\ is_verified[t.user] => is_verified'[t.user]
          /\ email'[t.user] = email[t.user] \/ is_verified'[t.user]
      BY <2>1, UsersStay DEF TypeOK
    <2> QED BY <2>1, <2>2, <2>4, <2>5 DEF SameToken
  <1>10. StillSo(q)'
    BY <1>1, <1>5, <1>6, <1>7, <1>8, <1>9 DEF StillSo
  <1>11. KeyReserved(q)'
    <2> DEFINE key == normalize_email[t.email]
    <2>1. WroteKey(q)' <=> WroteKey(q)
      BY <1>1 DEF WroteKey
    <2>2. ASSUME WroteKey(q), NEW w \in Users \ {t.user}
          PROVE  normalized_email'[w] # key
      <3>1. key \in held[q] /\ normalized_email[w] # key
        BY <1>1, <2>2 DEF KeyReserved
      <3>2. ASSUME NEW r \in movers, WroteKey(r)
            PROVE  normalize_email[txn[r].email] # key
        BY <1>2, <3>1, <3>2 DEF KeyReserved, Apart
      <3>3. ASSUME NEW r \in movers, Registers(r, w)
            PROVE  normalized_email'[w] # key
        BY <3>2, <3>3 DEF Registers, WroteKey
      <3>4. ASSUME NEW r \in movers, Confirms(r, w)
            PROVE  normalized_email'[w] # key
        BY <3>1, <3>2, <3>4 DEF Confirms
      <3>5. CASE SameUser(w)
        BY <3>1, <3>5 DEF SameUser
      <3> HIDE DEF key
      <3> QED BY <3>3, <3>4, <3>5 DEF Frame
    <2> QED BY <1>1, <2>1, <2>2 DEF KeyReserved
  <1> QED BY <1>3, <1>10, <1>11

LEMMA OthersApart ==
  ASSUME RequestsInv, NEW movers \in SUBSET Requests, Frame(movers),
         NEW p \in Requests \ movers, NEW q \in Requests \ movers, p # q
  PROVE  Apart(p, q)'
  BY DEF Frame, RequestsInv, Apart

LEMMA ApartBothWays ==
  ASSUME NEW r \in Requests, NEW q \in Requests, Apart(r, q)'
  PROVE  Apart(q, r)'
  BY DEF Apart

LEMMA TokensKept ==
  ASSUME TypeOK, TypeOK', RequestsInv, NEW movers \in SUBSET Requests, Frame(movers),
         \A r, q \in movers : r = q
  PROVE  TokensInv'
  <1>1. ASSUME NEW u \in Users, is_verified'[u]
        PROVE  Exists(u)'
    <2>1. CASE Exists(u)
      BY <2>1, UsersStay
    <2>2. CASE SameUser(u)
      BY <1>1, <2>2 DEF SameUser, RequestsInv, TokensInv, Exists
    <2>3. ASSUME NEW r \in movers, Registers(r, u)
          PROVE  Exists(u)'
      BY <2>3, Known, AllowedAddresses DEF Registers, Prepared, Creating, Exists
    <2>4. ASSUME NEW r \in movers, Confirms(r, u)
          PROVE  Exists(u)
      <3>1. txn[r].op \in Confirming /\ u = txn[r].user /\ StillSo(r) /\ Prepared(r)
        BY <2>4, Known DEF Confirms
      <3>2. /\ token_state[txn[r].token] # "absent" /\ token_user[txn[r].token] = u
            /\ txn[r].token \in TokenIds
        BY <3>1 DEF StillSo, Prepared, Confirming
      <3> QED BY <3>2 DEF TypeOK
    <2> QED BY <2>1, <2>2, <2>3, <2>4 DEF Frame
  <1>2. ASSUME NEW v \in TokenIds, token_state'[v] = "absent"
        PROVE  mailed'[v] = None
    <2>1. token_state[v] = "absent"
      BY <1>2, TokensStay DEF SameToken
    <2>2. mailed[v] = None
      BY <2>1 DEF RequestsInv, TokensInv
    <2>3. ~\E r \in movers : pc[r] = "mail" /\ v = txn[r].token
      BY <2>1, Known DEF StillSo, Prepared
    <2> QED BY <2>2, <2>3 DEF Frame
  <1>3. ASSUME NEW v \in TokenIds, token_state[v] # "absent"
        PROVE  IF token_type'[v] = "EMAIL_CHANGE"
               THEN token_email'[v] \in Allowed /\ mailed'[v] \in {None, token_email'[v]}
               ELSE is_verified'[token_user'[v]] \/ mailed'[v] \in {None, email'[token_user'[v]]}
    <2> DEFINE u == token_user[v]
    <2>1. /\ token_type'[v] = token_type[v] /\ token_user'[v] = u
          /\ token_email'[v] = token_email[v] /\ u \in Users /\ Exists(u)
      BY <1>3, TokensStay DEF SameToken, TypeOK
    <2>2. IF token_type[v] = "EMAIL_CHANGE"
          THEN token_email[v] \in Allowed /\ mailed[v] \in {None, token_email[v]}
          ELSE is_verified[u] \/ mailed[v] \in {None, email[u]}
      BY <1>3 DEF RequestsInv, TokensInv
    <2>3. (is_verified[u] => is_verified'[u]) /\ (email'[u] # email[u] => is_verified'[u])
      BY <2>1, UsersStay
    <2> HIDE DEF u
    <2>4. CASE mailed'[v] = mailed[v]
      BY <2>1, <2>2, <2>3, <2>4
    <2>5. ASSUME NEW r \in movers, pc[r] = "mail", v = txn[r].token,
                 mailed'[v] \in {None, txn[r].email}
          PROVE  IF token_type[v] = "EMAIL_CHANGE" THEN mailed'[v] \in {None, token_email[v]}
                 ELSE is_verified[u] \/ mailed'[v] \in {None, email[u]}
      BY <2>5, Known DEF StillSo, Prepared, Creating, u
    <2> QED BY <2>1, <2>2, <2>3, <2>4, <2>5 DEF Frame
  <1>4. ASSUME NEW v \in TokenIds, NEW r \in movers, Creates(r, v)
        PROVE  IF token_type'[v] = "EMAIL_CHANGE"
               THEN token_email'[v] \in Allowed /\ mailed'[v] \in {None, token_email'[v]}
               ELSE is_verified'[token_user'[v]] \/ mailed'[v] \in {None, email'[token_user'[v]]}
    <2>1. token_state[v] = "absent" /\ mailed'[v] = mailed[v] /\ token_user'[v] = txn[r].user
      BY <1>4 DEF Creates
    <2>2. mailed'[v] = None
      BY <2>1 DEF RequestsInv, TokensInv
    <2>3. CASE pc[r] = "token" /\ token_email'[v] = txn[r].email
      <3>1. txn[r].op = "request" /\ txn[r].email \in Allowed /\ pc[r] # "commit"
        BY <2>3, Known DEF Prepared, Creating
      <3>2. token_type'[v] = "EMAIL_CHANGE"
        BY <1>4, <3>1 DEF Creates
      <3> QED BY <2>2, <2>3, <3>1, <3>2
    <2>4. CASE token_type'[v] = "EMAIL_VERIFY"
      BY <2>2, <2>4
    <2> QED BY <1>4, <2>3, <2>4 DEF Creates
  <1>5. ASSUME NEW v \in TokenIds, token_state'[v] # "absent"
        PROVE  token_state[v] # "absent" \/ \E r \in movers : Creates(r, v)
    BY <1>5 DEF Frame, SameToken
  <1> QED BY <1>1, <1>2, <1>3, <1>4, <1>5 DEF TokensInv

\* So of a step by r only what r itself relies on is left to show.
LEMMA RequestStep ==
  ASSUME TypeOK, TypeOK', RequestsInv, NEW r \in Requests, Frame({r}),
         Prepared(r)', StillSo(r)', KeyReserved(r)',
         \A q \in Requests \ {r} : Apart(r, q)'
  PROVE  RequestsInv'
  <1>1. \A q \in Requests \ {r} : Prepared(q)' /\ StillSo(q)' /\ KeyReserved(q)'
    BY OthersKeep
  <1>2. \A p, q \in Requests \ {r} : p # q => Apart(p, q)'
    BY OthersApart
  <1>3. \A q \in Requests \ {r} : Apart(q, r)'
    BY ApartBothWays
  <1>4. TokensInv'
    BY TokensKept
  <1> QED BY <1>1, <1>2, <1>3, <1>4 DEF RequestsInv

-----------------------------------------------------------------------------
(* Frame keeps what the rows promise. *)

RowsInv == OneAccountPerAddress /\ AddressesAreAllowed /\ VerifiedAddressWasProven

\* The normalized address of a user changes only to one that the mover has reserved.
LEMMA NewKeys ==
  ASSUME TypeOK, RequestsInv, NEW movers \in SUBSET Requests, Frame(movers), NEW u \in Users,
         normalized_email'[u] # normalized_email[u]
  PROVE  \E r \in movers : /\ u = txn[r].user /\ WroteKey(r) /\ KeyReserved(r)
                           /\ normalized_email'[u] = normalize_email[txn[r].email]
  <1>1. PICK r \in movers : Registers(r, u) \/ Confirms(r, u)
    BY DEF Frame, SameUser
  <1>2. /\ u = txn[r].user /\ WroteKey(r)
        /\ normalized_email'[u] = normalize_email[txn[r].email]
    BY <1>1 DEF Registers, Confirms, WroteKey
  <1> QED BY <1>2, Known

LEMMA AccountsKept ==
  ASSUME TypeOK, TypeOK', RequestsInv, NEW movers \in SUBSET Requests, Frame(movers),
         \A r, q \in movers : r = q, OneAccountPerAddress
  PROVE  OneAccountPerAddress'
  <1> SUFFICES ASSUME NEW u \in Users, NEW w \in Users, u # w, Exists(u)'
               PROVE  normalized_email'[u] # normalized_email'[w]
    BY DEF OneAccountPerAddress
  <1>0. normalized_email'[u] # None
    BY DEF TypeOK
  <1>1. CASE normalized_email'[u] = normalized_email[u] /\ normalized_email'[w] = normalized_email[w]
    <2>1. CASE Exists(u)
      BY <1>1, <2>1 DEF OneAccountPerAddress
    <2>2. CASE Exists(w)
      BY <1>1, <2>2 DEF OneAccountPerAddress
    <2>3. CASE ~Exists(w) /\ ~Exists(u)
      <3>1. SameUser(u) \/ \E r \in movers : Registers(r, u) \/ Confirms(r, u)
        BY DEF Frame
      <3>2. email[u] = None /\ email'[u] # None
        BY <2>3 DEF Exists
      <3>3. PICK r \in movers : Registers(r, u) \/ Confirms(r, u)
        BY <3>1, <3>2 DEF SameUser
      <3>4. WroteKey(r) \/ Confirms(r, u)
        BY <3>3 DEF Registers, WroteKey
      <3>5. ~Confirms(r, u)
        <4> SUFFICES ASSUME Confirms(r, u) PROVE FALSE
          OBVIOUS
        <4>1. txn[r].op \in Confirming /\ u = txn[r].user /\ StillSo(r) /\ Prepared(r)
          BY Known DEF Confirms
        <4>2. /\ token_state[txn[r].token] # "absent" /\ token_user[txn[r].token] = u
              /\ txn[r].token \in TokenIds
          BY <4>1 DEF StillSo, Prepared, Confirming
        <4> QED BY <2>3, <4>2 DEF TypeOK
      <3>6. /\ u = txn[r].user /\ KeyReserved(r)
            /\ normalized_email'[u] = normalize_email[txn[r].email]
        BY <3>3, <3>5, Known DEF Registers
      <3> QED BY <1>1, <3>4, <3>5, <3>6 DEF KeyReserved
    <2> QED BY <2>1, <2>2, <2>3
  <1>2. ASSUME NEW x \in Users, NEW y \in Users, x # y,
               normalized_email'[x] # normalized_email[x]
        PROVE  normalized_email'[x] # normalized_email'[y]
    <2>1. PICK r \in movers : /\ x = txn[r].user /\ WroteKey(r) /\ KeyReserved(r)
                              /\ normalized_email'[x] = normalize_email[txn[r].email]
      BY <1>2, NewKeys
    <2>2. normalized_email[y] # normalized_email'[x]
      BY <1>2, <2>1 DEF KeyReserved
    <2>3. normalized_email'[y] = normalized_email[y]
      <3> SUFFICES ASSUME normalized_email'[y] # normalized_email[y] PROVE FALSE
        OBVIOUS
      <3>1. PICK q \in movers : y = txn[q].user
        BY NewKeys
      <3> QED BY <1>2, <2>1, <3>1
    <2> QED BY <2>2, <2>3
  <1> QED BY <1>1, <1>2

LEMMA AllowedKept ==
  ASSUME TypeOK, RequestsInv, NEW movers \in SUBSET Requests, Frame(movers), AddressesAreAllowed
  PROVE  AddressesAreAllowed'
  <1> SUFFICES ASSUME NEW u \in Users, email'[u] # None
               PROVE  email'[u] \in Allowed /\ normalized_email'[u] \in Allowed
    BY DEF AddressesAreAllowed, Exists
  <1>1. CASE SameUser(u)
    BY <1>1 DEF SameUser, AddressesAreAllowed, Exists
  <1>2. ASSUME NEW r \in movers, Registers(r, u)
        PROVE  email'[u] \in Allowed /\ normalized_email'[u] \in Allowed
    BY <1>2, Known, AllowedAddresses DEF Registers, Prepared, Creating
  <1>3. ASSUME NEW r \in movers, Confirms(r, u)
        PROVE  email'[u] \in Allowed /\ normalized_email'[u] \in Allowed
    <2>1. /\ txn[r].op \in Confirming /\ u = txn[r].user /\ StillSo(r) /\ Prepared(r)
      BY <1>3, Known DEF Confirms
    <2>2. Exists(u)
      BY <2>1 DEF StillSo, Prepared, Confirming, TypeOK
    <2>3. email[u] \in Allowed /\ normalized_email[u] \in Allowed
      BY <2>2 DEF AddressesAreAllowed
    <2>4. txn[r].op = "confirm" =>
            txn[r].email \in Allowed /\ normalize_email[txn[r].email] \in Allowed
      BY <2>1, AllowedAddresses DEF Prepared
    <2>5. WroteKey(r) => txn[r].op = "confirm"
      BY <2>1 DEF WroteKey, Confirming
    <2> QED BY <1>3, <2>3, <2>4, <2>5 DEF Confirms
  <1> QED BY <1>1, <1>2, <1>3 DEF Frame

LEMMA ProofKept ==
  ASSUME TypeOK, RequestsInv, NEW movers \in SUBSET Requests, Frame(movers),
         VerifiedAddressWasProven
  PROVE  VerifiedAddressWasProven'
  <1> SUFFICES ASSUME NEW u \in Users, is_verified'[u]
               PROVE  email'[u] \in proven'[u]
    BY DEF VerifiedAddressWasProven
  <1>1. CASE SameUser(u)
    BY <1>1 DEF SameUser, VerifiedAddressWasProven
  <1>2. ASSUME NEW r \in movers, Registers(r, u)
        PROVE  FALSE
    <2>1. ~Exists(u)
      BY <1>2, Known DEF Registers, StillSo
    <2> QED BY <1>2, <2>1 DEF Registers, RequestsInv, TokensInv
  <1>3. ASSUME NEW r \in movers, Confirms(r, u)
        PROVE  email'[u] \in proven'[u]
    <2> DEFINE v == txn[r].token
    <2>1. /\ txn[r].op \in Confirming /\ u = txn[r].user /\ StillSo(r) /\ Prepared(r)
          /\ pc[r] = "commit" /\ proven'[u] = proven[u] \cup {mailed[v]}
          /\ IF "email" \in txn[r].sets THEN txn[r].op = "confirm" /\ email'[u] = txn[r].email
             ELSE email'[u] = email[u]
      BY <1>3, Known DEF Confirms
    <2>2. /\ v \in TokenIds /\ token_state[v] # "absent" /\ mailed[v] # None
          /\ token_user[v] = u /\ token_email[v] = txn[r].email
          /\ txn[r].op = "confirm" <=> token_type[v] = "EMAIL_CHANGE"
          /\ txn[r].op = "confirm" => \/ "email" \in txn[r].sets \/ is_verified[u]
                                      \/ email[u] = txn[r].email
      BY <2>1 DEF StillSo, Prepared, Confirming
    <2> HIDE DEF v
    <2>3. CASE is_verified[u] /\ email'[u] = email[u]
      BY <2>1, <2>3 DEF VerifiedAddressWasProven
    <2>4. CASE txn[r].op = "confirm" /\ email'[u] = txn[r].email
      <3>1. mailed[v] = txn[r].email
        BY <2>2, <2>4 DEF RequestsInv, TokensInv
      <3> QED BY <2>1, <2>4, <3>1
    <2>5. CASE ~is_verified[u] /\ email'[u] = email[u] /\ txn[r].op # "confirm"
      <3>1. mailed[v] = email[u]
        BY <2>2, <2>5 DEF RequestsInv, TokensInv
      <3> QED BY <2>1, <2>5, <3>1
    <2> QED BY <2>1, <2>2, <2>3, <2>4, <2>5
  <1> QED BY <1>1, <1>2, <1>3 DEF Frame

LEMMA RowsStep ==
  ASSUME TypeOK, TypeOK', RequestsInv, RowsInv, NEW movers \in SUBSET Requests, Frame(movers),
         \A r, q \in movers : r = q
  PROVE  RowsInv'
  BY AccountsKept, AllowedKept, ProofKept DEF RowsInv

-----------------------------------------------------------------------------
(* Requests begin. *)

Steps == {"idle", "user", "org", "token", "consume", "update", "commit", "mail"}

LEMMA NoTxnType == NoTxn \in Txn
  BY DEF NoTxn, Txn, Columns

\* The conjuncts of TypeOK about requests, and those about rows.
HandlersTyped ==
  /\ pc \in [Requests -> Steps] /\ txn \in [Requests -> Txn]
  /\ held \in [Requests -> SUBSET (Users \cup Emails \cup TokenIds \cup Slugs)]

LEMMA TypeUnchanged ==
  ASSUME TypeOK, HandlersTyped', UNCHANGED <<users, verification_tokens, expired, mailed, proven>>
  PROVE  TypeOK'
  BY DEF TypeOK, HandlersTyped, Steps, users, verification_tokens, Exists

LEMMA BeginPlaces ==
  ASSUME TypeOK, NEW r \in Requests, NEW step, NEW t, Begin(r, step, t)
  PROVE  /\ pc[r] = "idle" /\ pc'[r] = step /\ txn'[r] = t
         /\ \A q \in Requests \ {r} : pc'[q] = pc[q] /\ txn'[q] = txn[q]
         /\ UNCHANGED <<users, verification_tokens, expired, mailed, held, proven>>
         /\ UNCHANGED <<email, is_verified, token_state, token_type, token_user, token_email>>
  BY DEF Begin, TypeOK, users, verification_tokens

LEMMA QuietFrame ==
  ASSUME TypeOK, NEW movers \in SUBSET Requests,
         UNCHANGED <<users, verification_tokens, mailed, proven>>,
         \A q \in Requests \ movers : pc'[q] = pc[q] /\ txn'[q] = txn[q] /\ held'[q] = held[q]
  PROVE  Frame(movers)
  BY DEF Frame, SameToken, SameUser, users, verification_tokens

\* What a handler knows after its checks makes a good start.
LEMMA BeginStep ==
  ASSUME TypeOK, RequestsInv, NEW r \in Requests, NEW step \in Steps \ {"org", "commit"},
         NEW t \in Txn, Begin(r, step, t), Prepared(r)', StillSo(r)',
         t.op \in Creating => \A q \in Requests \ {r} : txn[q].token # t.token,
         t.op = "register" => \A q \in Requests \ {r} : txn[q].user # t.user
  PROVE  TypeOK' /\ Frame({r}) /\ RequestsInv'
  <1>1. TypeOK'
    <2>1. HandlersTyped'
      BY DEF Begin, TypeOK, HandlersTyped, Steps
    <2> QED BY <2>1, BeginPlaces, TypeUnchanged
  <1>2. Frame({r})
    BY BeginPlaces, QuietFrame
  <1>3. KeyReserved(r)'
    BY BeginPlaces DEF KeyReserved, WroteKey
  <1>4. \A q \in Requests \ {r} : Apart(r, q)'
    BY BeginPlaces, Known DEF Apart
  <1> QED BY <1>1, <1>2, <1>3, <1>4, RequestStep

LEMMA RegisterStep ==
  ASSUME TypeOK, RequestsInv, NEW r \in Requests, NEW e \in Emails, NEW s \in Slugs,
         RegisterChecked(r, e, s)
  PROVE  TypeOK' /\ Frame({r}) /\ RequestsInv'
  <1>1. PICK u \in Users, v \in TokenIds :
          /\ NewUser(u) /\ NewToken(v)
          /\ Begin(r, "user", [NoTxn EXCEPT !.op = "register", !.user = u, !.token = v,
                                            !.email = e, !.slug = s])
    BY DEF RegisterChecked
  <1> DEFINE t == [NoTxn EXCEPT !.op = "register", !.user = u, !.token = v, !.email = e,
                                !.slug = s]
  <1>2. /\ t \in Txn /\ t.op = "register" /\ t.user = u /\ t.token = v /\ t.email = e
        /\ t.slug = s
    BY NoTxnType DEF NoTxn, Txn
  <1>3. Begin(r, "user", t)
    BY <1>1
  <1> HIDE DEF t
  <1>4. /\ ~Exists(u) /\ token_state[v] = "absent" /\ e \in Allowed /\ mailed[v] = None
        /\ \A q \in Requests : txn[q].user # u /\ txn[q].token # v
    BY <1>1 DEF NewUser, NewToken, RegisterChecked, DomainAccepted, RequestsInv, TokensInv
  <1>5. /\ pc'[r] = "user" /\ txn'[r] = t /\ email' = email /\ token_state' = token_state
        /\ mailed' = mailed
    BY <1>3, BeginPlaces
  <1>6. Prepared(r)'
    BY <1>2, <1>4, <1>5 DEF Prepared, Creating, Confirming
  <1>7. StillSo(r)'
    BY <1>2, <1>4, <1>5 DEF StillSo, Creating, Confirming, Exists
  <1> QED BY <1>2, <1>3, <1>4, <1>6, <1>7, BeginStep DEF Steps

LEMMA ChangeStep ==
  ASSUME TypeOK, RequestsInv, NEW r \in Requests, NEW u \in Users, NEW e \in Emails,
         ChangeChecked(r, u, e)
  PROVE  TypeOK' /\ Frame({r}) /\ RequestsInv'
  <1>1. PICK v \in TokenIds :
          /\ NewToken(v)
          /\ Begin(r, "token", [NoTxn EXCEPT !.op = "request", !.user = u, !.token = v,
                                             !.email = e])
    BY DEF ChangeChecked
  <1> DEFINE t == [NoTxn EXCEPT !.op = "request", !.user = u, !.token = v, !.email = e]
  <1>2. t \in Txn /\ t.op = "request" /\ t.user = u /\ t.token = v /\ t.email = e
    BY NoTxnType DEF NoTxn, Txn
  <1>3. Begin(r, "token", t)
    BY <1>1
  <1> HIDE DEF t
  <1>4. /\ Exists(u) /\ token_state[v] = "absent" /\ e \in Allowed
        /\ mailed[v] = None /\ \A q \in Requests : txn[q].token # v
    BY <1>1 DEF NewToken, ChangeChecked, DomainAccepted, RequestsInv, TokensInv
  <1>5. /\ pc'[r] = "token" /\ txn'[r] = t /\ email' = email /\ token_state' = token_state
        /\ mailed' = mailed /\ is_verified' = is_verified
    BY <1>3, BeginPlaces
  <1>6. Prepared(r)'
    BY <1>2, <1>4, <1>5 DEF Prepared, Creating, Confirming
  <1>7. StillSo(r)'
    BY <1>2, <1>4, <1>5 DEF StillSo, Creating, Confirming, Exists
  <1> QED BY <1>2, <1>3, <1>4, <1>6, <1>7, BeginStep DEF Steps, Creating

LEMMA TokenStep ==
  ASSUME TypeOK, RequestsInv, NEW r \in Requests, NEW v \in TokenIds, NEW type,
         NEW op \in Confirming, op = "confirm" <=> type = "EMAIL_CHANGE",
         TokenChecked(r, v, type, op)
  PROVE  TypeOK' /\ Frame({r}) /\ RequestsInv'
  <1> DEFINE t == [NoTxn EXCEPT !.op = op, !.user = token_user[v], !.token = v,
                                !.email = token_email[v]]
  <1>1. /\ mailed[v] # None /\ token_type[v] = type /\ token_state[v] # "absent"
        /\ token_user[v] \in Users /\ token_email[v] \in Emails \cup {None}
        /\ type = "EMAIL_CHANGE" => token_email[v] \in Allowed
    BY DEF TokenChecked, TypeOK, RequestsInv, TokensInv
  <1>2. /\ t \in Txn /\ t.op = op /\ t.user = token_user[v] /\ t.token = v
        /\ t.email = token_email[v] /\ t.sets = {}
    BY <1>1, NoTxnType DEF NoTxn, Txn
  <1>3. Begin(r, "consume", t)
    BY DEF TokenChecked
  <1> HIDE DEF t
  <1>4. /\ pc'[r] = "consume" /\ txn'[r] = t /\ mailed' = mailed /\ token_state' = token_state
        /\ token_user' = token_user /\ token_email' = token_email /\ token_type' = token_type
    BY <1>3, BeginPlaces
  <1>5. Prepared(r)'
    BY <1>1, <1>2, <1>4 DEF Prepared, Creating, Confirming
  <1>6. StillSo(r)'
    BY <1>1, <1>2, <1>4 DEF StillSo, Creating, Confirming
  <1>7. t.op \notin Creating
    BY <1>2 DEF Creating, Confirming
  <1> QED BY <1>2, <1>3, <1>5, <1>6, <1>7, BeginStep DEF Steps, Creating

-----------------------------------------------------------------------------
(* The statements of a request in flight. *)

\* A statement moves r on, locks xs that nobody has locked, and changes no row.
LEMMA StatementStep ==
  ASSUME TypeOK, RequestsInv, NEW r \in Requests, NEW step, At(r, step),
         NEW next \in Steps, Goto(r, next),
         NEW xs \in SUBSET (Users \cup Emails \cup TokenIds \cup Slugs), Hold(r, xs),
         \A x \in xs : Free(r, x),
         NEW t \in Txn, txn' = [txn EXCEPT ![r] = t],
         t.op = txn[r].op /\ t.user = txn[r].user /\ t.token = txn[r].token,
         Prepared(r)', StillSo(r)', KeyReserved(r)'
  PROVE  TypeOK' /\ Frame({r}) /\ RequestsInv'
  <1>1. /\ held'[r] = held[r] \cup xs /\ pc'[r] = next /\ txn'[r] = t
        /\ \A q \in Requests \ {r} : pc'[q] = pc[q] /\ txn'[q] = txn[q] /\ held'[q] = held[q]
        /\ UNCHANGED <<users, verification_tokens, expired, mailed, proven>>
    BY DEF At, Goto, Hold, TypeOK
  <1>2. TypeOK'
    <2>1. HandlersTyped'
      BY DEF Goto, Hold, TypeOK, HandlersTyped, Steps
    <2> QED BY <1>1, <2>1, TypeUnchanged
  <1>3. Frame({r})
    BY <1>1, QuietFrame
  <1>4. \A q \in Requests \ {r} : Apart(r, q)'
    <2>1. \A q \in Requests \ {r} : (held[r] \cup xs) \cap held[q] = {}
      BY Known DEF Apart, Free
    <2> QED BY <1>1, <2>1, Known DEF Apart
  <1> QED BY <1>2, <1>3, <1>4, RequestStep

LEMMA Places ==
  ASSUME TypeOK, NEW r \in Requests, NEW step, At(r, step), NEW next, Goto(r, next),
         NEW xs, Hold(r, xs)
  PROVE  /\ pc[r] = step /\ pc'[r] = next /\ held'[r] = held[r] \cup xs
         /\ UNCHANGED <<email, normalized_email, is_verified, token_state, token_type,
                        token_user, token_email, mailed>>
  BY DEF At, Goto, Hold, TypeOK, users, verification_tokens

LEMMA InsertUserStep ==
  ASSUME TypeOK, RequestsInv, NEW r \in Requests, InsertUser(r)
  PROVE  TypeOK' /\ Frame({r}) /\ RequestsInv'
  <1> DEFINE key == normalize_email[txn[r].email]
  <1>1. /\ At(r, "user") /\ Goto(r, "org") /\ Hold(r, {key}) /\ Free(r, key)
        /\ ~IndexTaken(key, txn[r].user) /\ txn' = txn
    BY DEF InsertUser
  <1>2. /\ pc[r] = "user" /\ txn[r].op = "register" /\ txn[r] \in Txn
        /\ Prepared(r) /\ StillSo(r) /\ key \in Emails
    BY <1>1, Known, AllowedAddresses DEF At, Prepared, Creating
  <1>3. /\ pc'[r] = "org" /\ held'[r] = held[r] \cup {key}
        /\ UNCHANGED <<email, normalized_email, is_verified, token_state, token_type,
                       token_user, token_email, mailed>>
    BY <1>1, Places
  <1>4. Prepared(r)'
    BY <1>1, <1>2, <1>3 DEF Prepared
  <1>5. StillSo(r)'
    BY <1>1, <1>2, <1>3 DEF StillSo, Exists, Creating, Confirming
  <1>6. KeyReserved(r)'
    BY <1>1, <1>3 DEF KeyReserved, IndexTaken
  <1>7. txn' = [txn EXCEPT ![r] = txn[r]]
    BY <1>1 DEF TypeOK
  <1> DEFINE xs == {key}
  <1>8. xs \in SUBSET (Users \cup Emails \cup TokenIds \cup Slugs) /\ (\A x \in xs : Free(r, x)) /\ Hold(r, xs)
    BY <1>1, <1>2
  <1> HIDE DEF key, xs
  <1> QED BY <1>1, <1>2, <1>4, <1>5, <1>6, <1>7, <1>8, StatementStep DEF Steps

LEMMA InsertOrgStep ==
  ASSUME TypeOK, RequestsInv, NEW r \in Requests, InsertOrg(r)
  PROVE  TypeOK' /\ Frame({r}) /\ RequestsInv'
  <1> DEFINE s == txn[r].slug
  <1>1. At(r, "org") /\ Goto(r, "commit") /\ Hold(r, {s}) /\ Free(r, s) /\ txn' = txn
    BY DEF InsertOrg
  <1>2. /\ pc[r] = "org" /\ txn[r].op = "register" /\ txn[r] \in Txn
        /\ Prepared(r) /\ StillSo(r) /\ KeyReserved(r) /\ s \in Slugs
    BY <1>1, Known DEF At, Prepared
  <1>3. /\ pc'[r] = "commit" /\ held'[r] = held[r] \cup {s}
        /\ UNCHANGED <<email, normalized_email, is_verified, token_state, token_type,
                       token_user, token_email, mailed>>
    BY <1>1, Places
  <1>4. Prepared(r)'
    BY <1>1, <1>2, <1>3 DEF Prepared
  <1>5. StillSo(r)'
    BY <1>1, <1>2, <1>3 DEF StillSo, Exists, Creating, Confirming
  <1>6. KeyReserved(r)'
    BY <1>1, <1>2, <1>3 DEF KeyReserved, WroteKey
  <1>7. txn' = [txn EXCEPT ![r] = txn[r]]
    BY <1>1 DEF TypeOK
  <1> DEFINE xs == {s}
  <1>8. xs \in SUBSET (Users \cup Emails \cup TokenIds \cup Slugs) /\ (\A x \in xs : Free(r, x)) /\ Hold(r, xs)
    BY <1>1, <1>2
  <1> HIDE DEF s, xs
  <1> QED BY <1>1, <1>2, <1>4, <1>5, <1>6, <1>7, <1>8, StatementStep DEF Steps

LEMMA ConsumeStep ==
  ASSUME TypeOK, RequestsInv, NEW r \in Requests, Consume(r)
  PROVE  TypeOK' /\ Frame({r}) /\ RequestsInv'
  <1> DEFINE v == txn[r].token
  <1> DEFINE next == IF Changed(txn[r]) = {} THEN "commit" ELSE "update"
  <1> DEFINE t == [txn[r] EXCEPT !.sets = Changed(txn[r])]
  <1>1. /\ At(r, "consume") /\ Goto(r, next) /\ Hold(r, {v}) /\ Free(r, v)
        /\ txn' = [txn EXCEPT ![r] = t]
    BY DEF Consume, TypeOK
  <1>2. /\ pc[r] = "consume" /\ txn[r].op \in Confirming /\ txn[r] \in Txn
        /\ Prepared(r) /\ StillSo(r) /\ v \in TokenIds /\ txn[r].user \in Users
    BY <1>1, Known DEF At, Prepared, Confirming
  <1>3. /\ t \in Txn /\ t.op = txn[r].op /\ t.user = txn[r].user /\ t.token = v
        /\ t.email = txn[r].email /\ t.slug = txn[r].slug /\ t.sets = Changed(txn[r])
    BY <1>2 DEF Txn, Changed
  <1>4. /\ Changed(txn[r]) \subseteq Columns
        /\ txn[r].op = "verify" => Changed(txn[r]) \subseteq {"is_verified"}
        /\ "is_verified" \in Changed(txn[r]) \/ is_verified[txn[r].user]
        /\ txn[r].op = "confirm" => \/ "email" \in Changed(txn[r])
                                    \/ email[txn[r].user] = txn[r].email
    BY DEF Changed, Columns
  <1> HIDE DEF t
  <1>5. /\ pc'[r] = next /\ txn'[r] = t
        /\ UNCHANGED <<email, normalized_email, is_verified, token_state, token_type,
                       token_user, token_email, mailed>>
    BY <1>1, Places DEF TypeOK
  <1>6. Prepared(r)'
    BY <1>2, <1>3, <1>4, <1>5 DEF Prepared
  <1>7. StillSo(r)'
    BY <1>2, <1>3, <1>4, <1>5 DEF StillSo, Confirming, Creating
  <1>8. KeyReserved(r)'
    BY <1>2, <1>3, <1>5 DEF KeyReserved, WroteKey, Confirming
  <1>9. next \in Steps
    BY DEF Steps
  <1> DEFINE xs == {v}
  <1>10. xs \in SUBSET (Users \cup Emails \cup TokenIds \cup Slugs) /\ (\A x \in xs : Free(r, x)) /\ Hold(r, xs)
    BY <1>1, <1>2
  <1>11. t.token = txn[r].token
    BY <1>3
  <1> HIDE DEF v, next, xs
  <1> QED BY <1>1, <1>2, <1>3, <1>6, <1>7, <1>8, <1>9, <1>10, <1>11, StatementStep

LEMMA UpdateStep ==
  ASSUME TypeOK, RequestsInv, NEW r \in Requests, UpdateUser(r)
  PROVE  TypeOK' /\ Frame({r}) /\ RequestsInv'
  <1> DEFINE xs == Keys(r) \cup {txn[r].user}
  <1>1. /\ At(r, "update") /\ Goto(r, "commit") /\ Hold(r, xs) /\ txn' = txn
        /\ \A x \in xs : Free(r, x)
        /\ \A k \in Keys(r) : ~IndexTaken(k, txn[r].user)
    BY DEF UpdateUser
  <1>2. /\ pc[r] = "update" /\ txn[r].op \in Confirming /\ txn[r] \in Txn
        /\ Prepared(r) /\ StillSo(r) /\ txn[r].user \in Users
    BY <1>1, Known DEF At, Prepared, Confirming
  <1>3. normalized_email[txn[r].user] \in Emails
    BY <1>2 DEF StillSo, Prepared, Confirming, TypeOK
  <1>4. Keys(r) \subseteq Emails
    <2>1. "normalized_email" \in txn[r].sets => normalize_email[txn[r].email] \in Emails
      BY <1>2, AllowedAddresses DEF Prepared, Confirming
    <2> QED BY <1>3, <2>1 DEF Keys
  <1>5. /\ pc'[r] = "commit" /\ held'[r] = held[r] \cup xs
        /\ UNCHANGED <<email, normalized_email, is_verified, token_state, token_type,
                       token_user, token_email, mailed>>
    BY <1>1, Places
  <1>6. Prepared(r)'
    BY <1>1, <1>2, <1>5 DEF Prepared
  <1>7. StillSo(r)'
    BY <1>1, <1>2, <1>5 DEF StillSo, Confirming, Creating
  <1>8. KeyReserved(r)'
    BY <1>1, <1>2, <1>5 DEF KeyReserved, WroteKey, Confirming, Keys, IndexTaken
  <1>9. txn' = [txn EXCEPT ![r] = txn[r]]
    BY <1>1 DEF TypeOK
  <1>10. xs \in SUBSET (Users \cup Emails \cup TokenIds \cup Slugs)
    BY <1>2, <1>4
  <1> HIDE DEF xs
  <1> QED BY <1>1, <1>2, <1>6, <1>7, <1>8, <1>9, <1>10, StatementStep DEF Steps

-----------------------------------------------------------------------------
(* Requests commit, mail, and end. *)

\* A request that has ended relies on nothing.
LEMMA EndStep ==
  ASSUME TypeOK, TypeOK', RequestsInv, NEW r \in Requests, Leave(r, "idle"),
         txn' = [txn EXCEPT ![r] = NoTxn], Frame({r})
  PROVE  RequestsInv'
  <1>1. pc'[r] = "idle" /\ txn'[r] = NoTxn /\ held'[r] = {}
    BY DEF Leave, TypeOK
  <1>2. NoTxn.op = "none"
    BY DEF NoTxn
  <1>3. Prepared(r)' /\ StillSo(r)' /\ KeyReserved(r)'
    BY <1>1, <1>2 DEF Prepared, StillSo, KeyReserved, WroteKey, Creating, Confirming
  <1>4. \A q \in Requests \ {r} : Apart(r, q)'
    BY <1>1, <1>2 DEF Apart, Creating
  <1> QED BY <1>3, <1>4, RequestStep

LEMMA LeaveTyped ==
  ASSUME TypeOK, NEW r \in Requests, NEW step \in Steps, Leave(r, step),
         NEW t \in Txn, txn' = [txn EXCEPT ![r] = t]
  PROVE  /\ HandlersTyped' /\ pc'[r] = step /\ txn'[r] = t /\ held'[r] = {}
         /\ \A q \in Requests \ {r} : pc'[q] = pc[q] /\ txn'[q] = txn[q] /\ held'[q] = held[q]
  BY DEF Leave, TypeOK, HandlersTyped, Steps

LEMMA RollbackStep ==
  ASSUME TypeOK, RequestsInv, NEW r \in Requests, Rollback(r)
  PROVE  TypeOK' /\ Frame({r}) /\ RequestsInv'
  <1>1. /\ Leave(r, "idle") /\ txn' = [txn EXCEPT ![r] = NoTxn]
        /\ UNCHANGED <<users, verification_tokens, expired, mailed, proven>>
    BY DEF Rollback
  <1>2. TypeOK'
    BY <1>1, LeaveTyped, NoTxnType, TypeUnchanged DEF Steps
  <1>3. Frame({r})
    BY <1>1, LeaveTyped, NoTxnType, QuietFrame DEF Steps
  <1> QED BY <1>1, <1>2, <1>3, EndStep

LEMMA MailStep ==
  ASSUME TypeOK, RequestsInv, NEW r \in Requests, Mail(r)
  PROVE  TypeOK' /\ Frame({r}) /\ RequestsInv'
  <1> DEFINE v == txn[r].token
  <1>1. PICK arrived \in {None, txn[r].email} : mailed' = [mailed EXCEPT ![v] = arrived]
    BY DEF Mail
  <1>2. /\ pc[r] = "mail" /\ Leave(r, "idle") /\ txn' = [txn EXCEPT ![r] = NoTxn]
        /\ UNCHANGED <<users, verification_tokens, expired, proven>>
    BY DEF Mail
  <1>3. v \in TokenIds /\ txn[r].email \in Emails
    BY <1>2, Known, AllowedAddresses DEF Prepared, Creating
  <1> HIDE DEF v
  <1>4. /\ HandlersTyped'
        /\ \A q \in Requests \ {r} : pc'[q] = pc[q] /\ txn'[q] = txn[q] /\ held'[q] = held[q]
    BY <1>2, LeaveTyped, NoTxnType DEF Steps
  <1>5. mailed' \in [TokenIds -> Emails \cup {None}]
        /\ mailed'[v] = arrived /\ \A w \in TokenIds : w # v => mailed'[w] = mailed[w]
    BY <1>1, <1>3 DEF TypeOK
  <1>6. TypeOK'
    BY <1>2, <1>4, <1>5 DEF TypeOK, HandlersTyped, Steps, users, verification_tokens, Exists
  <1>7. Frame({r})
    <2>1. \A w \in TokenIds : SameToken(w) \/ (token_state[w] = "absent" /\ token_state'[w] = "absent")
      BY <1>2 DEF SameToken, verification_tokens
    <2>2. \A u \in Users : SameUser(u)
      BY <1>2 DEF SameUser, users
    <2> QED BY <1>2, <1>4, <1>5, <2>1, <2>2 DEF Frame, v
  <1> QED BY <1>2, <1>6, <1>7, EndStep

LEMMA InsertTokenStep ==
  ASSUME TypeOK, RequestsInv, NEW r \in Requests, InsertToken(r)
  PROVE  TypeOK' /\ Frame({r}) /\ RequestsInv'
  <1> DEFINE t == txn[r]
  <1> DEFINE v == txn[r].token
  <1>1. /\ pc[r] = "token" /\ CreateToken(v, "EMAIL_CHANGE", t.user, t.email)
        /\ Leave(r, "mail") /\ UNCHANGED <<users, expired, mailed, txn, proven>>
    BY DEF InsertToken
  <1>2. /\ t \in Txn /\ t.op = "request" /\ Prepared(r) /\ StillSo(r)
        /\ t.user \in Users /\ v \in TokenIds /\ t.email \in Emails /\ t.email # None
        /\ Exists(t.user) /\ token_state[v] = "absent" /\ mailed[v] = None
    BY <1>1, Known, AllowedAddresses DEF Prepared, StillSo, Creating
  <1>3. txn' = [txn EXCEPT ![r] = t]
    BY <1>1 DEF TypeOK
  <1> HIDE DEF t
  <1>4. /\ HandlersTyped' /\ pc'[r] = "mail" /\ txn'[r] = t /\ held'[r] = {}
        /\ \A q \in Requests \ {r} : pc'[q] = pc[q] /\ txn'[q] = txn[q] /\ held'[q] = held[q]
    BY <1>1, <1>2, <1>3, LeaveTyped DEF Steps
  <1>5. /\ token_state' \in [TokenIds -> {"absent", "unused", "used"}]
        /\ token_type' \in [TokenIds -> {"EMAIL_VERIFY", "EMAIL_CHANGE"}]
        /\ token_user' \in [TokenIds -> Users \cup {None}]
        /\ token_email' \in [TokenIds -> Emails \cup {None}]
        /\ token_state'[v] = "unused" /\ token_type'[v] = "EMAIL_CHANGE"
        /\ token_user'[v] = t.user /\ token_email'[v] = t.email
        /\ \A w \in TokenIds : w # v =>
             /\ token_state'[w] = token_state[w] /\ token_type'[w] = token_type[w]
             /\ token_user'[w] = token_user[w] /\ token_email'[w] = token_email[w]
    BY <1>1, <1>2 DEF CreateToken, TypeOK
  <1>6. UNCHANGED <<email, normalized_email, is_verified, slug>>
    BY <1>1 DEF users
  <1>7. TypeOK'
    <2>1. \A w \in TokenIds : token_state'[w] # "absent" =>
            /\ token_user'[w] \in Users /\ Exists(token_user'[w])
            /\ token_type'[w] = "EMAIL_CHANGE" <=> token_email'[w] # None
      BY <1>2, <1>5 DEF TypeOK
    <2> QED BY <1>1, <1>4, <1>5, <1>6, <2>1 DEF TypeOK, HandlersTyped, Steps, Exists
  <1>8. Frame({r})
    <2>1. \A w \in TokenIds : w # v => \/ SameToken(w)
                                       \/ token_state[w] = "absent" /\ token_state'[w] = "absent"
      BY <1>5 DEF SameToken
    <2>2. Creates(r, v)
      BY <1>1, <1>2, <1>5 DEF Creates, t
    <2>3. \A u \in Users : SameUser(u)
      BY <1>1, <1>6 DEF SameUser
    <2> QED BY <1>1, <1>4, <2>1, <2>2, <2>3 DEF Frame
  <1>9. Prepared(r)'
    BY <1>2, <1>4 DEF Prepared, Creating, Confirming, t
  <1>10. StillSo(r)'
    BY <1>1, <1>2, <1>4, <1>5, <1>6 DEF StillSo, Creating, Confirming, Exists, t
  <1>11. KeyReserved(r)'
    BY <1>2, <1>4 DEF KeyReserved, WroteKey
  <1>12. \A q \in Requests \ {r} : Apart(r, q)'
    BY <1>4, Known DEF Apart, t
  <1> QED BY <1>7, <1>8, <1>9, <1>10, <1>11, <1>12, RequestStep

LEMMA CommitRegistrationStep ==
  ASSUME TypeOK, RequestsInv, NEW r \in Requests, CommitRegistration(r)
  PROVE  TypeOK' /\ Frame({r}) /\ RequestsInv'
  <1> DEFINE t == txn[r]
  <1> DEFINE v == txn[r].token
  <1> DEFINE u == txn[r].user
  <1>1. /\ pc[r] = "commit" /\ t.op = "register"
        /\ email' = [email EXCEPT ![u] = t.email]
        /\ normalized_email' = [normalized_email EXCEPT ![u] = normalize_email[t.email]]
        /\ slug' = [slug EXCEPT ![u] = t.slug]
        /\ CreateToken(v, "EMAIL_VERIFY", u, None)
        /\ Leave(r, "mail") /\ UNCHANGED <<is_verified, expired, mailed, txn, proven>>
    BY DEF CommitRegistration
  <1>2. /\ t \in Txn /\ Prepared(r) /\ StillSo(r) /\ u \in Users /\ v \in TokenIds
        /\ t.email \in Emails /\ normalize_email[t.email] \in Emails /\ t.slug \in Slugs
        /\ t.email # None /\ normalize_email[t.email] # None /\ t.slug # None
        /\ ~Exists(u) /\ token_state[v] = "absent" /\ mailed[v] = None
    BY <1>1, Known, AllowedAddresses, RowNames DEF Prepared, StillSo, Creating
  <1>3. txn' = [txn EXCEPT ![r] = t]
    BY <1>1 DEF TypeOK
  <1> HIDE DEF t
  <1>4. /\ HandlersTyped' /\ pc'[r] = "mail" /\ txn'[r] = t /\ held'[r] = {}
        /\ \A q \in Requests \ {r} : pc'[q] = pc[q] /\ txn'[q] = txn[q] /\ held'[q] = held[q]
    BY <1>1, <1>2, <1>3, LeaveTyped DEF Steps
  <1>5. /\ token_state' \in [TokenIds -> {"absent", "unused", "used"}]
        /\ token_type' \in [TokenIds -> {"EMAIL_VERIFY", "EMAIL_CHANGE"}]
        /\ token_user' \in [TokenIds -> Users \cup {None}]
        /\ token_email' \in [TokenIds -> Emails \cup {None}]
        /\ token_state'[v] = "unused" /\ token_type'[v] = "EMAIL_VERIFY"
        /\ token_user'[v] = u /\ token_email'[v] = None
        /\ \A w \in TokenIds : w # v =>
             /\ token_state'[w] = token_state[w] /\ token_type'[w] = token_type[w]
             /\ token_user'[w] = token_user[w] /\ token_email'[w] = token_email[w]
    BY <1>1, <1>2 DEF CreateToken, TypeOK
  <1>6. /\ email' \in [Users -> Emails \cup {None}]
        /\ normalized_email' \in [Users -> Emails \cup {None}]
        /\ slug' \in [Users -> Slugs \cup {None}]
        /\ email'[u] = t.email /\ normalized_email'[u] = normalize_email[t.email]
        /\ slug'[u] = t.slug
        /\ \A w \in Users : w # u => /\ email'[w] = email[w] /\ slug'[w] = slug[w]
                                     /\ normalized_email'[w] = normalized_email[w]
    BY <1>1, <1>2 DEF TypeOK
  <1>7. TypeOK'
    <2>1. \A w \in Users : email'[w] # None => normalized_email'[w] # None /\ slug'[w] # None
      BY <1>2, <1>6 DEF TypeOK, Exists
    <2>2. \A w \in TokenIds : token_state'[w] # "absent" =>
            /\ token_user'[w] \in Users /\ email'[token_user'[w]] # None
            /\ token_type'[w] = "EMAIL_CHANGE" <=> token_email'[w] # None
      BY <1>2, <1>5, <1>6 DEF TypeOK, Exists
    <2> QED BY <1>1, <1>4, <1>5, <1>6, <2>1, <2>2 DEF TypeOK, HandlersTyped, Steps, Exists
  <1>8. Frame({r})
    <2>1. \A w \in TokenIds : w # v => \/ SameToken(w)
                                       \/ token_state[w] = "absent" /\ token_state'[w] = "absent"
      BY <1>5 DEF SameToken
    <2>2. Creates(r, v)
      BY <1>1, <1>2, <1>5 DEF Creates, t
    <2>3. \A w \in Users : w # u => SameUser(w)
      BY <1>1, <1>6 DEF SameUser
    <2>4. Registers(r, u)
      BY <1>1, <1>5, <1>6 DEF Registers, t
    <2> QED BY <1>1, <1>4, <2>1, <2>2, <2>3, <2>4 DEF Frame
  <1>9. Prepared(r)'
    BY <1>1, <1>2, <1>4 DEF Prepared, Creating, Confirming, t
  <1>10. StillSo(r)'
    BY <1>1, <1>2, <1>4, <1>5, <1>6 DEF StillSo, Creating, Confirming, Exists, t
  <1>11. KeyReserved(r)'
    BY <1>1, <1>4 DEF KeyReserved, WroteKey
  <1>12. \A q \in Requests \ {r} : Apart(r, q)'
    BY <1>4, Known DEF Apart, t
  <1> QED BY <1>7, <1>8, <1>9, <1>10, <1>11, <1>12, RequestStep

LEMMA CommitConfirmationStep ==
  ASSUME TypeOK, RequestsInv, NEW r \in Requests, CommitConfirmation(r)
  PROVE  /\ TypeOK' /\ Frame({r}) /\ RequestsInv'
         /\ token_state'[txn[r].token] = "used"
         /\ \A v \in TokenIds : v # txn[r].token => token_state'[v] = token_state[v]
         /\ \A u \in Users : u # txn[r].user =>
              email'[u] = email[u] /\ is_verified'[u] = is_verified[u]
         /\ is_verified'[txn[r].user]
         /\ email'[txn[r].user] = IF "email" \in txn[r].sets THEN txn[r].email
                                  ELSE email[txn[r].user]
  <1> DEFINE t == txn[r]
  <1> DEFINE v == txn[r].token
  <1> DEFINE u == txn[r].user
  <1> DEFINE address == IF "email" \in t.sets THEN t.email ELSE email[u]
  <1> DEFINE key == IF "normalized_email" \in t.sets THEN normalize_email[t.email]
                    ELSE normalized_email[u]
  <1>1. /\ pc[r] = "commit" /\ t.op \in Confirming /\ Leave(r, "idle")
        /\ txn' = [txn EXCEPT ![r] = NoTxn]
        /\ UNCHANGED <<slug, token_type, token_user, token_email, expired, mailed>>
    BY DEF CommitConfirmation
  <1>2. /\ t \in Txn /\ Prepared(r) /\ StillSo(r) /\ u \in Users /\ v \in TokenIds
        /\ token_state[v] # "absent" /\ token_user[v] = u /\ token_email[v] = t.email
        /\ mailed[v] \in Emails /\ Exists(u)
        /\ "is_verified" \in t.sets \/ is_verified[u]
    BY <1>1, Known DEF Prepared, StillSo, Confirming, TypeOK
  <1>3. t.op = "confirm" => /\ t.email \in Emails /\ t.email # None
                            /\ normalize_email[t.email] \in Emails
                            /\ normalize_email[t.email] # None
    BY <1>2, AllowedAddresses DEF Prepared
  <1>4. t.op = "verify" => "email" \notin t.sets /\ "normalized_email" \notin t.sets
    BY <1>2 DEF Prepared
  <1>5. /\ email' = [email EXCEPT ![u] = address]
        /\ normalized_email' = [normalized_email EXCEPT ![u] = key]
        /\ is_verified' = [is_verified EXCEPT ![u] = TRUE]
        /\ token_state' = [token_state EXCEPT ![v] = "used"]
        /\ proven' = [proven EXCEPT ![u] = proven[u] \cup {mailed[v]}]
    <2>1. is_verified' = [is_verified EXCEPT ![u] = ("is_verified" \in t.sets) \/ is_verified[u]]
      BY DEF CommitConfirmation
    <2>2. email' = [email EXCEPT ![u] = address]
      BY DEF CommitConfirmation
    <2>3. normalized_email' = [normalized_email EXCEPT ![u] = key]
      BY DEF CommitConfirmation
    <2>4. /\ token_state' = [token_state EXCEPT ![v] = "used"]
          /\ proven' = [proven EXCEPT ![u] = proven[u] \cup {mailed[v]}]
      BY DEF CommitConfirmation
    <2> QED BY <1>2, <2>1, <2>2, <2>3, <2>4
  <1>6. /\ address \in Emails /\ address # None /\ key \in Emails \cup {None} /\ key # None
        /\ IF "email" \in t.sets THEN t.op = "confirm" /\ address = t.email
           ELSE address = email[u]
        /\ \/ key = normalized_email[u]
           \/ WroteKey(r) /\ key = normalize_email[t.email]
    BY <1>1, <1>2, <1>3, <1>4 DEF Confirming, TypeOK, Exists, WroteKey
  <1>a. address = IF "email" \in txn[r].sets THEN txn[r].email ELSE email[txn[r].user]
    OBVIOUS
  <1> HIDE DEF address, key
  <1>7. /\ email' \in [Users -> Emails \cup {None}]
        /\ normalized_email' \in [Users -> Emails \cup {None}]
        /\ is_verified' \in [Users -> BOOLEAN] /\ proven' \in [Users -> SUBSET Emails]
        /\ token_state' \in [TokenIds -> {"absent", "unused", "used"}]
    BY <1>2, <1>5, <1>6 DEF TypeOK
  <1>8. /\ email'[u] = address /\ normalized_email'[u] = key /\ is_verified'[u]
        /\ proven'[u] = proven[u] \cup {mailed[v]} /\ token_state'[v] = "used"
        /\ \A w \in Users : w # u =>
             /\ email'[w] = email[w] /\ normalized_email'[w] = normalized_email[w]
             /\ is_verified'[w] = is_verified[w] /\ proven'[w] = proven[w]
        /\ \A w \in TokenIds : w # v => token_state'[w] = token_state[w]
    BY <1>2, <1>5 DEF TypeOK
  <1>9. /\ HandlersTyped'
        /\ \A q \in Requests \ {r} : pc'[q] = pc[q] /\ txn'[q] = txn[q] /\ held'[q] = held[q]
    BY <1>1, LeaveTyped, NoTxnType DEF Steps
  <1>10. TypeOK'
    <2>1. \A w \in Users : email'[w] # None => normalized_email'[w] # None /\ slug[w] # None
      BY <1>2, <1>6, <1>8 DEF TypeOK, Exists
    <2>2. \A w \in TokenIds : token_state'[w] # "absent" =>
            /\ token_user[w] \in Users /\ email'[token_user[w]] # None
            /\ token_type[w] = "EMAIL_CHANGE" <=> token_email[w] # None
      BY <1>2, <1>6, <1>8 DEF TypeOK, Exists
    <2> QED BY <1>1, <1>7, <1>9, <2>1, <2>2 DEF TypeOK, HandlersTyped, Steps, Exists
  <1>11. Frame({r})
    <2>1. \A w \in TokenIds : SameToken(w) \/ (token_state[w] = "absent" /\ token_state'[w] = "absent")
      BY <1>1, <1>2, <1>8 DEF SameToken
    <2>2. \A w \in Users : w # u => SameUser(w)
      BY <1>8 DEF SameUser
    <2>3. Confirms(r, u)
      BY <1>1, <1>6, <1>8 DEF Confirms
    <2> QED BY <1>1, <1>9, <2>1, <2>2, <2>3 DEF Frame
  <1>12. RequestsInv'
    BY <1>1, <1>10, <1>11, EndStep
  <1> QED BY <1>8, <1>10, <1>11, <1>12, <1>a

-----------------------------------------------------------------------------
(* Every step, and the invariants. *)

\* A step that leaves requests and rows alone.
LEMMA NobodyMoves ==
  ASSUME TypeOK, RequestsInv, expired' \subseteq TokenIds,
         UNCHANGED <<users, verification_tokens, mailed, proven, pc, txn, held>>
  PROVE  TypeOK' /\ Frame({}) /\ RequestsInv'
  <1>1. TypeOK'
    BY DEF TypeOK, users, verification_tokens, Exists
  <1>2. Frame({})
    BY QuietFrame
  <1>3. \A q \in Requests : Prepared(q)' /\ StillSo(q)' /\ KeyReserved(q)'
    BY <1>1, <1>2, OthersKeep
  <1>4. \A p, q \in Requests : p # q => Apart(p, q)'
    BY <1>2, OthersApart
  <1>5. TokensInv'
    BY <1>1, <1>2, TokensKept
  <1> QED BY <1>1, <1>2, <1>3, <1>4, <1>5 DEF RequestsInv

LEMMA NextStep ==
  ASSUME TypeOK, RequestsInv, [Next]_vars
  PROVE  TypeOK' /\ RequestsInv' /\ \E movers \in SUBSET Requests :
           Frame(movers) /\ \A r, q \in movers : r = q
  <1> DEFINE Kept(movers) == TypeOK' /\ Frame(movers) /\ RequestsInv'
  <1>1. ASSUME \/ \E v \in TokenIds : Expire(v)
               \/ \E r \in Requests, e \in Emails : RegisterRefused(r, e)
               \/ UNCHANGED vars
        PROVE  Kept({})
    <2>1. /\ expired' \subseteq TokenIds
          /\ UNCHANGED <<users, verification_tokens, mailed, proven, pc, txn, held>>
      BY <1>1 DEF Expire, RegisterRefused, vars, TypeOK
    <2> QED BY <2>1, NobodyMoves
  <1>2. ASSUME NEW r \in Requests,
               \/ \E e \in Emails, s \in Slugs : RegisterChecked(r, e, s)
               \/ \E u \in Users, e \in Emails : ChangeChecked(r, u, e)
        PROVE  Kept({r})
    BY <1>2, RegisterStep, ChangeStep
  <1>3. ASSUME NEW r \in Requests, NEW v \in TokenIds, VerifyChecked(r, v) \/ ConfirmChecked(r, v)
        PROVE  Kept({r})
    BY <1>3, TokenStep DEF VerifyChecked, ConfirmChecked, Confirming
  <1>4. ASSUME NEW r \in Requests,
               InsertUser(r) \/ InsertOrg(r) \/ Consume(r) \/ UpdateUser(r)
        PROVE  Kept({r})
    BY <1>4, InsertUserStep, InsertOrgStep, ConsumeStep, UpdateStep
  <1>5. ASSUME NEW r \in Requests,
               CommitRegistration(r) \/ InsertToken(r) \/ CommitConfirmation(r) \/ Mail(r)
        PROVE  Kept({r})
    BY <1>5, CommitRegistrationStep, InsertTokenStep, CommitConfirmationStep, MailStep
  <1>6. ASSUME NEW r \in Requests, IntegrityError(r) \/ Fail(r)
        PROVE  Kept({r})
    BY <1>6, RollbackStep DEF IntegrityError, Fail
  <1>7. Kept({}) \/ \E r \in Requests : Kept({r})
    <2> HIDE DEF Kept
    <2>1. CASE Next
      BY <2>1, <1>1, <1>2, <1>3, <1>4, <1>5, <1>6 DEF Next
    <2> QED BY <2>1, <1>1
  <1>8. CASE Kept({})
    <2>1. {} \in SUBSET Requests /\ \A r, q \in {} : r = q
      OBVIOUS
    <2> QED BY <1>8, <2>1
  <1>9. ASSUME NEW r \in Requests, Kept({r})
        PROVE  \E movers \in SUBSET Requests : Frame(movers) /\ \A p, q \in movers : p = q
    <2>1. {r} \in SUBSET Requests /\ \A p, q \in {r} : p = q
      OBVIOUS
    <2> QED BY <1>9, <2>1
  <1> QED BY <1>7, <1>8, <1>9

LEMMA InitInv ==
  ASSUME Init
  PROVE  TypeOK /\ RequestsInv /\ RowsInv
  <1>1. TypeOK
    BY NoTxnType DEF Init, TypeOK, Exists
  <1>2. \A r \in Requests : pc[r] = "idle" /\ txn[r].op = "none" /\ held[r] = {}
    BY DEF Init, NoTxn
  <1>3. TokensInv
    BY DEF Init, TokensInv
  <1>4. RequestsInv
    BY <1>2, <1>3 DEF RequestsInv, Prepared, StillSo, KeyReserved, WroteKey, Apart, Creating,
                      Confirming
  <1>5. RowsInv
    BY DEF Init, RowsInv, OneAccountPerAddress, AddressesAreAllowed, VerifiedAddressWasProven,
           Exists
  <1> QED BY <1>1, <1>4, <1>5

\* What every request relies on holds: no two have reserved one address, and a token
\* that is presented was mailed to the address that it proves.
THEOREM EmailInvariant == Spec => [](TypeOK /\ RequestsInv /\ RowsInv)
  <1> DEFINE Inv == TypeOK /\ RequestsInv /\ RowsInv
  <1>1. Init => Inv
    BY InitInv
  <1>2. Inv /\ [Next]_vars => Inv'
    BY NextStep, RowsStep
  <1> QED BY <1>1, <1>2, PTL DEF Spec

\* Rows and requests keep their types, and a user row always has its organization.
THEOREM EmailTypeOK == Spec => []TypeOK
  BY EmailInvariant, PTL

\* No two accounts have one normalized address (register, confirm_email_change).
THEOREM AccountsTheorem == Spec => []OneAccountPerAddress
  <1>1. RowsInv => OneAccountPerAddress
    BY DEF RowsInv
  <1> QED BY <1>1, EmailInvariant, PTL

\* No account has an address that run_email_domain_checks refuses.
THEOREM DomainsTheorem == Spec => []AddressesAreAllowed
  <1>1. RowsInv => AddressesAreAllowed
    BY DEF RowsInv
  <1> QED BY <1>1, EmailInvariant, PTL

\* The address of a verified user was proven by a token mailed to it (verify_email,
\* confirm_email_change).
THEOREM ProofTheorem == Spec => []VerifiedAddressWasProven
  <1>1. RowsInv => VerifiedAddressWasProven
    BY DEF RowsInv
  <1> QED BY <1>1, EmailInvariant, PTL

\* Which rows a step leaves as they are, unless it is the COMMIT of a confirmation.
LEMMA RowsUntouched ==
  ASSUME TypeOK, RequestsInv, Next, \A r \in Requests : ~CommitConfirmation(r)
  PROVE  /\ \A v \in TokenIds : token_state[v] = "unused" => token_state'[v] = "unused"
         /\ \A u \in Users : Exists(u) => email'[u] = email[u] /\ is_verified'[u] = is_verified[u]
  <1> DEFINE Untouched ==
        /\ \A v \in TokenIds : token_state[v] = "unused" => token_state'[v] = "unused"
        /\ \A u \in Users : Exists(u) => email'[u] = email[u] /\ is_verified'[u] = is_verified[u]
  <1>1. ASSUME UNCHANGED <<users, verification_tokens>>
        PROVE  Untouched
    BY <1>1 DEF users, verification_tokens
  <1>2. ASSUME NEW r \in Requests, InsertToken(r)
        PROVE  Untouched
    BY <1>2 DEF InsertToken, CreateToken, users, TypeOK
  <1>3. ASSUME NEW r \in Requests, CommitRegistration(r)
        PROVE  Untouched
    <2>1. ~Exists(txn[r].user)
      BY <1>3, Known DEF CommitRegistration, StillSo
    <2> QED BY <1>3, <2>1 DEF CommitRegistration, CreateToken, TypeOK
  <1>4. \/ UNCHANGED <<users, verification_tokens>>
        \/ \E r \in Requests : InsertToken(r) \/ CommitRegistration(r)
    <2> DEFINE Quiet == UNCHANGED <<users, verification_tokens>>
    <2>1. ASSUME NEW r \in Requests, NEW step, NEW t, Begin(r, step, t)
          PROVE  Quiet
      BY <2>1 DEF Begin
    <2>2. ASSUME NEW r \in Requests,
                 \/ \E e \in Emails, s \in Slugs : RegisterChecked(r, e, s)
                 \/ \E u \in Users, e \in Emails : ChangeChecked(r, u, e)
                 \/ \E v \in TokenIds : VerifyChecked(r, v) \/ ConfirmChecked(r, v)
          PROVE  Quiet
      <3> HIDE DEF Quiet
      <3> QED BY <2>1, <2>2 DEF RegisterChecked, ChangeChecked, VerifyChecked, ConfirmChecked,
                                TokenChecked
    <2>3. ASSUME NEW r \in Requests, InsertUser(r) \/ InsertOrg(r) \/ Consume(r) \/ UpdateUser(r)
          PROVE  Quiet
      BY <2>3 DEF InsertUser, InsertOrg, Consume, UpdateUser, At
    <2>4. ASSUME NEW r \in Requests, Mail(r) \/ IntegrityError(r) \/ Fail(r)
          PROVE  Quiet
      BY <2>4 DEF Mail, IntegrityError, Fail, Rollback
    <2>5. ASSUME \/ \E v \in TokenIds : Expire(v)
                 \/ \E r \in Requests, e \in Emails : RegisterRefused(r, e)
          PROVE  Quiet
      BY <2>5 DEF Expire, RegisterRefused, vars
    <2> HIDE DEF Quiet
    <2>6. Quiet \/ \E r \in Requests : InsertToken(r) \/ CommitRegistration(r)
      BY <2>2, <2>3, <2>4, <2>5 DEF Next
    <2> QED BY <2>6 DEF Quiet
  <1> QED BY <1>1, <1>2, <1>3, <1>4

LEMMA SpentStep ==
  ASSUME TypeOK, RequestsInv, Next
  PROVE  /\ \A v \in TokenIds : token_state[v] = "unused" /\ token_state'[v] = "used" =>
              \E r \in Requests :
                /\ txn[r].token = v /\ is_verified'[token_user[v]]
                /\ "email" \in txn[r].sets => email'[token_user[v]] = token_email[v]
         /\ \A u \in Users :
              Exists(u) /\ <<email[u], is_verified[u]>> # <<email'[u], is_verified'[u]>> =>
                \E v \in TokenIds : /\ token_user[v] = u /\ token_state'[v] = "used"
                                    /\ email'[u] # email[u] => token_email[v] = email'[u]
  <1>1. CASE \A r \in Requests : ~CommitConfirmation(r)
    BY <1>1, RowsUntouched
  <1>2. ASSUME NEW r \in Requests, CommitConfirmation(r)
        PROVE  /\ txn[r].user \in Users /\ txn[r].token \in TokenIds
               /\ token_user[txn[r].token] = txn[r].user
               /\ token_email[txn[r].token] = txn[r].email
               /\ token_state'[txn[r].token] = "used"
               /\ \A v \in TokenIds : v # txn[r].token => token_state'[v] = token_state[v]
               /\ \A u \in Users : u # txn[r].user =>
                    email'[u] = email[u] /\ is_verified'[u] = is_verified[u]
               /\ is_verified'[txn[r].user]
               /\ email'[txn[r].user] = IF "email" \in txn[r].sets THEN txn[r].email
                                        ELSE email[txn[r].user]
    <2>1. /\ txn[r].user \in Users /\ txn[r].token \in TokenIds
          /\ token_user[txn[r].token] = txn[r].user
          /\ token_email[txn[r].token] = txn[r].email
      BY <1>2, Known DEF CommitConfirmation, Prepared, StillSo, Confirming
    <2> QED BY <1>2, <2>1, CommitConfirmationStep
  <1> QED BY <1>1, <1>2

\* A token is spent by the step that has its effect, and nothing else verifies a user or
\* changes an address (_consume_token and its callers).
THEOREM SpentTheorem == Spec => TokenSpentWithEffect
  <1> DEFINE A ==
        /\ \A v \in TokenIds : token_state[v] = "unused" /\ token_state'[v] = "used" =>
             \E r \in Requests :
               /\ txn[r].token = v /\ is_verified'[token_user[v]]
               /\ "email" \in txn[r].sets => email'[token_user[v]] = token_email[v]
        /\ \A u \in Users :
             Exists(u) /\ <<email[u], is_verified[u]>> # <<email'[u], is_verified'[u]>> =>
               \E v \in TokenIds : /\ token_user[v] = u /\ token_state'[v] = "used"
                                   /\ email'[u] # email[u] => token_email[v] = email'[u]
  <1>1. (TypeOK /\ RequestsInv /\ RowsInv) /\ [Next]_vars => [A]_vars
    BY SpentStep
  <1>2. [][A]_vars => TokenSpentWithEffect
    BY DEF TokenSpentWithEffect
  <1> QED BY <1>1, <1>2, EmailInvariant, PTL DEF Spec

LEMMA UnverifiedStep ==
  ASSUME TypeOK, TypeOK', RequestsInv, UnverifiedCanVerify, Next,
         NEW movers \in SUBSET Requests, Frame(movers)
  PROVE  UnverifiedCanVerify'
  <1> SUFFICES ASSUME NEW u \in Users, Exists(u)', ~is_verified'[u]
               PROVE  \E v \in TokenIds : /\ token_user'[v] = u /\ token_type'[v] = "EMAIL_VERIFY"
                                         /\ token_state'[v] = "unused"
    BY DEF UnverifiedCanVerify
  <1>1. CASE Exists(u)
    <2>1. ~is_verified[u]
      BY UsersStay
    <2>2. PICK v \in TokenIds : /\ token_user[v] = u /\ token_type[v] = "EMAIL_VERIFY"
                               /\ token_state[v] = "unused"
      BY <1>1, <2>1 DEF UnverifiedCanVerify
    <2>3. SameToken(v)
      BY <2>2, TokensStay
    <2>4. token_state'[v] # "used"
      BY <2>2, SpentStep
    <2>5. token_state'[v] \in {"absent", "unused", "used"}
      BY DEF TypeOK
    <2> QED BY <2>2, <2>3, <2>4, <2>5 DEF SameToken
  <1>2. CASE ~Exists(u)
    <2>1. PICK r \in movers : Registers(r, u) \/ Confirms(r, u)
      BY <1>2 DEF Frame, SameUser, Exists
    <2>2. txn[r].token \in TokenIds
      BY <2>1, Known DEF Registers, Confirms, Prepared, Confirming
    <2>3. ~Confirms(r, u)
      BY <1>2, Known DEF Confirms, StillSo, Prepared, Confirming, TypeOK
    <2> QED BY <2>1, <2>2, <2>3 DEF Registers
  <1> QED BY <1>1, <1>2

\* No refused, failed or interrupted verification takes the last token of an account
\* (register, verify_email).
THEOREM UnverifiedTheorem == Spec => []UnverifiedCanVerify
  <1>1. Init => UnverifiedCanVerify
    BY DEF Init, UnverifiedCanVerify, Exists
  <1>2. ASSUME TypeOK, TypeOK', RequestsInv, UnverifiedCanVerify, [Next]_vars
        PROVE  UnverifiedCanVerify'
    <2>1. CASE UNCHANGED vars
      <3>1. UNCHANGED <<email, is_verified, token_user, token_type, token_state>>
        BY <2>1 DEF vars, users, verification_tokens
      <3> QED BY <1>2, <3>1 DEF UnverifiedCanVerify, Exists
    <2>2. CASE Next
      <3>1. PICK movers \in SUBSET Requests : Frame(movers)
        BY <1>2, NextStep
      <3> QED BY <1>2, <2>2, <3>1, UnverifiedStep
    <2> QED BY <1>2, <2>1, <2>2
  <1> QED BY <1>1, <1>2, EmailInvariant, PTL DEF Spec

=============================================================================
