-------------------------- MODULE RateLimitProofs --------------------------
(* Proofs about the rate limiter, for any limits, periods and numbers of requests. *)
EXTENDS RateLimit, TLAPS

-----------------------------------------------------------------------------
\* Wherever a request goes after a hit, it has no EXPIRE to do, and keeps a type.
LEMMA Passes ==
  ASSUME TypeOK, NEW r \in Requests, Pass(r) \/ End(r)
  PROVE  /\ pc' \in [Requests -> {"idle", "hit", "expire"}] /\ pc'[r] # "expire"
         /\ txn' \in [Requests -> [route : Routes \cup {None}, key : Keys]]
         /\ \A q \in Requests : txn'[q].key \in {"global", txn'[q].route}
         /\ \A q \in Requests \ {r} : pc'[q] = pc[q] /\ txn'[q] = txn[q]
  <1>1. ASSUME End(r)
        PROVE  /\ pc' = [pc EXCEPT ![r] = "idle"]
               /\ txn' = [txn EXCEPT ![r] = [route |-> None, key |-> "global"]]
    BY <1>1 DEF End, NoTxn
  <1>2. ASSUME Pass(r), ~End(r)
        PROVE  /\ pc' = [pc EXCEPT ![r] = "hit"] /\ txn[r].route \in Routes
               /\ txn' = [txn EXCEPT ![r] = [route |-> txn[r].route, key |-> txn[r].route]]
    <2>1. /\ pc' = [pc EXCEPT ![r] = "hit"] /\ txn[r].route # None
          /\ txn' = [txn EXCEPT ![r].key = txn[r].route]
      BY <1>2 DEF Pass
    <2>2. txn[r] \in [route : Routes \cup {None}, key : Keys]
      BY DEF TypeOK
    <2>3. [txn[r] EXCEPT !.key = txn[r].route] = [route |-> txn[r].route, key |-> txn[r].route]
      BY <2>2
    <2> QED BY <2>1, <2>2, <2>3
  <1>3. CASE End(r)
    <2>1. [route |-> None, key |-> "global"] \in [route : Routes \cup {None}, key : Keys]
      BY DEF Keys
    <2>2. \A q \in Requests : txn'[q].key \in {"global", txn'[q].route}
      BY <1>1, <1>3 DEF TypeOK
    <2>3. /\ pc \in [Requests -> {"idle", "hit", "expire"}]
          /\ txn \in [Requests -> [route : Routes \cup {None}, key : Keys]]
      BY DEF TypeOK
    <2> QED BY <1>1, <1>3, <2>1, <2>2, <2>3
  <1>4. CASE Pass(r) /\ ~End(r)
    <2>1. \E route \in Routes :
            /\ pc' = [pc EXCEPT ![r] = "hit"]
            /\ txn' = [txn EXCEPT ![r] = [route |-> route, key |-> route]]
      BY <1>2, <1>4
    <2> QED BY <2>1 DEF TypeOK, Keys
  <1> QED BY <1>3, <1>4

\* A counted hit that passed.
LEMMA Records ==
  ASSUME TypeOK, NEW k \in Keys, Record(k)
  PROVE  /\ passed' \in [Keys -> [Ages -> Nat]]
         /\ \A a \in Ages : passed'[k][a] = passed[k][a] + 1
         /\ \A j \in Keys \ {k} : passed'[j] = passed[j]
  <1>1. \A a \in Ages : passed[k][a] + 1 \in Nat
    BY DEF TypeOK
  <1>2. [a \in Ages |-> passed[k][a] + 1] \in [Ages -> Nat]
    BY <1>1
  <1>3. passed' = [passed EXCEPT ![k] = [a \in Ages |-> passed[k][a] + 1]]
    BY DEF Record
  <1> QED BY <1>2, <1>3 DEF TypeOK

LEMMA TickStep ==
  ASSUME TypeOK, CountersExpire, Tick
  PROVE  TypeOK' /\ CountersExpire'
  <1>1. passed' \in [Keys -> [Ages -> Nat]]
    <2>1. ASSUME NEW k \in Keys, NEW a \in Ages, a # 0
          PROVE  passed[k][a - 1] \in Nat
      <3>1. a - 1 \in Ages
        BY <2>1, Limits DEF Ages
      <3> QED BY <3>1 DEF TypeOK
    <2> QED BY <2>1 DEF Tick
  <1>2. \A k \in Keys : ttl[k] = None \/ ttl[k] = 1 \/ (ttl[k] \in 2..Period /\ ttl[k] # None)
    BY Limits DEF TypeOK
  <1>3. ttl' \in [Keys -> 1..Period \cup {None}]
    BY <1>2, Limits DEF Tick
  <1>4. value' \in [Keys -> Nat] /\ \A k \in Keys : value'[k] <= limit[k] + 1
    BY Limits DEF Tick, TypeOK
  <1>5. \A k \in Keys : ttl'[k] = None => value'[k] = 0 \/ (ttl[k] = None /\ value'[k] = value[k])
    <2> SUFFICES ASSUME NEW k \in Keys, ttl'[k] = None, ttl[k] # 1
                 PROVE  ttl[k] = None /\ value'[k] = value[k]
      BY Limits DEF Tick
    <2>1. CASE ttl[k] # None
      <3>1. ttl[k] \in 2..Period
        BY <1>2, <2>1
      <3>2. ttl'[k] = ttl[k] - 1
        BY <2>1 DEF Tick
      <3> QED BY <3>1, <3>2, Limits
    <2> QED BY <2>1, Limits DEF Tick
  <1>6. \A k \in Keys : value'[k] = 0 => ttl'[k] = None
    BY Limits DEF Tick, TypeOK
  <1>7. TypeOK'
    BY <1>1, <1>3, <1>4, <1>6 DEF TypeOK, Tick
  <1> QED BY <1>5, <1>7 DEF CountersExpire, Tick

LEMMA ArriveStep ==
  ASSUME TypeOK, CountersExpire, NEW r \in Requests, NEW route \in Routes \cup {None},
         Arrive(r, route)
  PROVE  TypeOK' /\ CountersExpire'
  <1>1. TypeOK'
    BY DEF Arrive, TypeOK, counters, Keys
  <1>2. \A q \in Requests : pc[q] = "expire" => pc'[q] = "expire" /\ txn'[q] = txn[q]
    BY DEF Arrive, TypeOK
  <1> QED BY <1>1, <1>2 DEF CountersExpire, Arrive, counters

LEMMA HitStep ==
  ASSUME TypeOK, CountersExpire, NEW r \in Requests, Hit(r)
  PROVE  TypeOK' /\ CountersExpire'
  <1> DEFINE k == txn[r].key
             count == Incremented(k)
  <1>1. k \in Keys /\ value[k] \in Nat /\ limit[k] \in Nat \ {0} /\ value[k] <= limit[k] + 1
    BY Limits DEF TypeOK
  <1>2. /\ count \in Nat \ {0} /\ count <= limit[k] + 1
        /\ value[k] = 0 => count = 1
        /\ value[k] # 0 => count # 1
    BY <1>1 DEF Incremented
  <1>3. /\ pc[r] = "hit" /\ value' = [value EXCEPT ![k] = count]
        /\ UNCHANGED <<redis, ttl, orphaned>>
        /\ \/ count = 1 /\ pc' = [pc EXCEPT ![r] = "expire"] /\ UNCHANGED <<txn, passed>>
           \/ count # 1 /\ ((Pass(r) /\ Record(k)) \/ (End(r) /\ UNCHANGED passed))
    BY DEF Hit, SetsExpiry
  <1>4. k = txn[r].key
    OBVIOUS
  <1> HIDE DEF k, count
  <1>5. value' \in [Keys -> Nat] /\ \A j \in Keys : value'[j] <= limit[j] + 1
    BY <1>1, <1>2, <1>3 DEF TypeOK
  <1>6. \A j \in Keys : value'[j] = 0 => ttl'[j] = None
    BY <1>1, <1>2, <1>3 DEF TypeOK
  <1>7. CASE count = 1 /\ pc' = [pc EXCEPT ![r] = "expire"] /\ UNCHANGED <<txn, passed>>
    <2>1. TypeOK'
      BY <1>3, <1>5, <1>6, <1>7 DEF TypeOK
    <2>2. /\ pc'[r] = "expire" /\ txn'[r].key = k
          /\ \A q \in Requests : pc[q] = "expire" => pc'[q] = "expire" /\ txn'[q] = txn[q]
      BY <1>4, <1>7 DEF TypeOK
    <2>3. \A j \in Keys : j # k => value'[j] = value[j]
      BY <1>3 DEF TypeOK
    <2> QED BY <1>3, <2>1, <2>2, <2>3 DEF CountersExpire
  <1>8. CASE count # 1 /\ ((Pass(r) /\ Record(k)) \/ (End(r) /\ UNCHANGED passed))
    <2>1. passed' \in [Keys -> [Ages -> Nat]]
      BY <1>1, <1>8, Records DEF TypeOK
    <2>2. TypeOK'
      BY <1>3, <1>5, <1>6, <1>8, <2>1, Passes DEF TypeOK
    <2>3. \A q \in Requests : pc[q] = "expire" => pc'[q] = "expire" /\ txn'[q] = txn[q]
      BY <1>3, <1>8, Passes
    <2>4. \A j \in Keys : value'[j] > 0 => value[j] > 0
      BY <1>1, <1>2, <1>3, <1>8 DEF TypeOK
    <2>5. ASSUME NEW j \in Keys, value'[j] > 0, ttl'[j] = None
          PROVE  j \in orphaned' \/ \E q \in Requests : pc'[q] = "expire" /\ txn'[q].key = j
      <3>1. value[j] > 0 /\ ttl[j] = None /\ orphaned' = orphaned
        BY <1>3, <2>4, <2>5
      <3> QED BY <2>3, <3>1 DEF CountersExpire
    <2> QED BY <2>2, <2>5 DEF CountersExpire
  <1> QED BY <1>3, <1>7, <1>8

LEMMA ExpireStep ==
  ASSUME TypeOK, CountersExpire, NEW r \in Requests, Expire(r)
  PROVE  TypeOK' /\ CountersExpire'
  <1> DEFINE k == txn[r].key
             expiry == IF value[k] = 0 THEN None ELSE Period
  <1>1. /\ pc[r] = "expire" /\ ttl' = [ttl EXCEPT ![k] = expiry]
        /\ Pass(r) /\ Record(k) /\ UNCHANGED <<redis, value, orphaned>>
    BY DEF Expire
  <1>2. k \in Keys /\ expiry \in 1..Period \cup {None} /\ (expiry = None <=> value[k] = 0)
    BY Limits DEF TypeOK
  <1>3. k = txn[r].key
    OBVIOUS
  <1> HIDE DEF k, expiry
  <1>4. TypeOK'
    BY <1>1, <1>2, Passes, Records DEF TypeOK
  <1>5. \A q \in Requests : pc[q] = "expire" /\ txn[q].key # k =>
          pc'[q] = "expire" /\ txn'[q] = txn[q]
    BY <1>1, <1>3, Passes
  <1>6. \A j \in Keys : ttl'[j] = IF j = k THEN expiry ELSE ttl[j]
    BY <1>1 DEF TypeOK
  <1>7. ASSUME NEW j \in Keys, value'[j] > 0, ttl'[j] = None
        PROVE  j \in orphaned' \/ \E q \in Requests : pc'[q] = "expire" /\ txn'[q].key = j
    <2>1. j # k /\ ttl[j] = None /\ value[j] > 0
      BY <1>1, <1>2, <1>6, <1>7 DEF TypeOK
    <2> QED BY <1>1, <1>5, <2>1 DEF CountersExpire
  <1> QED BY <1>4, <1>7 DEF CountersExpire

LEMMA MemoryHitOrFailStep ==
  ASSUME TypeOK, CountersExpire, NEW r \in Requests, MemoryHit(r) \/ Fail(r)
  PROVE  TypeOK' /\ CountersExpire'
  <1>1. /\ Pass(r) \/ End(r)
        /\ orphaned \subseteq orphaned' /\ orphaned' \subseteq Keys
        /\ pc[r] = "expire" => txn[r].key \in orphaned'
        /\ UNCHANGED <<redis, value, ttl, passed>>
    BY DEF MemoryHit, Fail, TypeOK, counters
  <1>2. TypeOK'
    BY <1>1, Passes DEF TypeOK
  <1>3. \A q \in Requests : q # r => pc'[q] = pc[q] /\ txn'[q] = txn[q]
    BY <1>1, Passes
  <1> QED BY <1>1, <1>2, <1>3 DEF CountersExpire

LEMMA NextStep ==
  ASSUME TypeOK, CountersExpire, [Next]_vars
  PROVE  TypeOK' /\ CountersExpire'
  <1>1. CASE UNCHANGED vars
    BY <1>1 DEF vars, counters, TypeOK, CountersExpire
  <1>2. CASE Next
    BY <1>2, TickStep, ArriveStep, HitStep, ExpireStep, MemoryHitOrFailStep DEF Next, Progress
  <1> QED BY <1>1, <1>2

LEMMA Initially ==
  ASSUME Init
  PROVE  TypeOK /\ CountersExpire
  <1>1. passed \in [Keys -> [Ages -> Nat]]
    BY DEF Init
  <1>2. txn \in [Requests -> [route : Routes \cup {None}, key : Keys]]
    BY DEF Init, NoTxn, Keys
  <1> QED BY <1>1, <1>2, Limits DEF Init, TypeOK, CountersExpire, NoTxn

-----------------------------------------------------------------------------
(* The bound on what passes.  Its invariant speaks of one key at a time. *)

\* The numbers the invariant relates.
LEMMA Numbers ==
  ASSUME TypeOK, NEW k \in Keys, Window(k)
  PROVE  /\ 0 \in Ages /\ Period - 1 \in Ages /\ WindowAge(k) \in Ages
         /\ value[k] \in Nat /\ limit[k] \in Nat \ {0}
         /\ Admitted(k) \in 0..limit[k]
         /\ \A a \in Ages : passed[k][a] \in Nat
         /\ \A a \in Ages : passed[k][a] <= passed[k][Period - 1]
  <1>1. 0 \in Ages /\ Period - 1 \in Ages
    BY Limits DEF Ages
  <1>2. WindowAge(k) \in Ages
    BY Limits DEF TypeOK, WindowAge, Ages
  <1>3. value[k] \in Nat /\ limit[k] \in Nat \ {0} /\ \A a \in Ages : passed[k][a] \in Nat
    BY Limits DEF TypeOK
  <1>4. Admitted(k) \in 0..limit[k]
    <2>1. Opening(k) # {} => value[k] > 0
      BY DEF Window
    <2> QED BY <1>3, <2>1 DEF Admitted
  <1>5. \A a \in Ages : a <= Period - 1
    BY Limits DEF Ages
  <1> QED BY <1>1, <1>2, <1>3, <1>4, <1>5 DEF Window

\* A key that a step does not touch.
LEMMA SameWindow ==
  ASSUME NEW k \in Keys, Window(k), Opening(k)' = Opening(k),
         value'[k] = value[k], ttl'[k] = ttl[k], passed'[k] = passed[k]
  PROVE  Window(k)'
  BY DEF Window, Admitted, WindowAge

\* A step that neither opens a window nor sets an expiry.
LEMMA SameOpening ==
  ASSUME NEW k \in Keys, \A q \in Requests : pc[q] = "expire" <=> pc'[q] = "expire",
         \A q \in Requests : pc[q] = "expire" => txn'[q] = txn[q]
  PROVE  Opening(k)' = Opening(k)
  BY DEF Opening

\* What the others are opening does not change.
LEMMA OpeningOfOthers ==
  ASSUME NEW k \in Keys, NEW r \in Requests,
         \A q \in Requests \ {r} : pc'[q] = pc[q] /\ txn'[q] = txn[q]
  PROVE  /\ txn[r].key # k /\ txn'[r].key # k => Opening(k)' = Opening(k)
         /\ pc[r] # "expire" /\ pc'[r] # "expire" => Opening(k)' = Opening(k)
         /\ Opening(k) \subseteq {r} /\ pc'[r] # "expire" => Opening(k)' = {}
  BY DEF Opening

LEMMA TickWindow ==
  ASSUME TypeOK, NEW k \in Keys, Window(k), Tick
  PROVE  Window(k)'
  <1>1. /\ \A a \in Ages : passed'[k][a] = IF a = 0 THEN 0 ELSE passed[k][a - 1]
        /\ value'[k] = IF ttl[k] = 1 THEN 0 ELSE value[k]
        /\ ttl'[k] = IF ttl[k] \in {None, 1} THEN None ELSE ttl[k] - 1
        /\ Opening(k)' = Opening(k)
    BY DEF Tick, Opening
  <1>2. \A a \in Ages : a # 0 => a - 1 \in Ages
    BY Limits DEF Ages
  <1>3. \A a, b \in Ages : a <= b => passed'[k][a] <= passed'[k][b]
    <2> SUFFICES ASSUME NEW a \in Ages, NEW b \in Ages, a <= b
                 PROVE  passed'[k][a] <= passed'[k][b]
      OBVIOUS
    <2>1. CASE a = 0
      BY <1>1, <1>2, <2>1, Numbers
    <2>2. CASE a # 0
      <3>1. b # 0 /\ a - 1 <= b - 1
        BY <2>2 DEF Ages
      <3> QED BY <1>1, <1>2, <2>2, <3>1 DEF Window
    <2> QED BY <2>1, <2>2
  <1>4. passed'[k][0] = 0 /\ passed'[k][Period - 1] <= passed[k][Period - 1]
    <2>1. 0 \in Ages /\ Period - 1 \in Ages
      BY Numbers
    <2>2. CASE Period - 1 = 0
      BY <1>1, <2>1, <2>2, Numbers
    <2>3. CASE Period - 1 # 0
      BY <1>1, <1>2, <2>1, <2>3, Numbers
    <2> QED BY <1>1, <2>1, <2>2, <2>3
  <1>5. CASE ttl[k] = None
    <2>1. value'[k] = value[k] /\ ttl'[k] = None /\ Admitted(k)' = Admitted(k)
      BY <1>1, <1>5, Limits DEF Admitted
    <2>2. WindowAge(k)' = 0 /\ Admitted(k) \in 0..limit[k]
      BY <2>1, Numbers DEF WindowAge
    <2>3. passed'[k][Period - 1] <= Admitted(k) + limit[k]
      BY <1>1, <1>2, <1>4, <2>2, Numbers DEF Window
    <2> QED BY <1>1, <1>3, <1>4, <1>5, <2>1, <2>2, <2>3 DEF Window
  <1>6. CASE ttl[k] = 1
    <2>1. value'[k] = 0 /\ ttl'[k] = None /\ Opening(k) = {} /\ 1 # None
      BY <1>1, <1>6, Limits DEF Window
    <2>2. Admitted(k)' = 0 /\ WindowAge(k)' = 0
      BY <1>1, <2>1, Limits DEF Admitted, WindowAge
    <2>3. passed[k][Period - 1] <= Admitted(k)
      BY <1>6, <2>1 DEF Window, WindowAge
    <2>4. passed'[k][Period - 1] <= limit[k]
      BY <1>1, <1>2, <1>4, <2>3, Numbers
    <2> QED BY <1>1, <1>3, <1>4, <2>1, <2>2, <2>4, Numbers DEF Window
  <1>7. CASE ttl[k] # None /\ ttl[k] # 1
    <2>1. ttl[k] \in 2..Period /\ ttl'[k] = ttl[k] - 1 /\ ttl'[k] # None
      BY <1>1, <1>7, Limits DEF TypeOK
    <2>2. value'[k] = value[k] /\ Admitted(k)' = Admitted(k)
      BY <1>1, <1>7 DEF Admitted
    <2>3. WindowAge(k)' = WindowAge(k) + 1 /\ WindowAge(k)' \in Ages /\ WindowAge(k) \in Ages
      BY <1>7, <2>1, Limits DEF WindowAge, Ages
    <2>4. passed'[k][WindowAge(k) + 1] = passed[k][WindowAge(k)]
      BY <1>1, <2>3 DEF Ages
    <2>5. Opening(k)' = {}
      BY <1>1, <1>7 DEF Window
    <2>6. passed'[k][Period - 1] <= Admitted(k) + limit[k]
      BY <1>1, <1>2, <1>4, Numbers DEF Window
    <2> QED BY <1>3, <2>2, <2>3, <2>4, <2>5, <2>6 DEF Window
  <1> QED BY <1>5, <1>6, <1>7

\* A hit that passes adds one to what passed and to what its window admitted.
LEMMA PassingWindow ==
  ASSUME TypeOK, NEW k \in Keys, Window(k), Record(k),
         \A q, s \in Opening(k)' : q = s /\ value'[k] > 0 /\ ttl'[k] = None,
         Admitted(k)' = Admitted(k) + 1,
         WindowAge(k)' \in Ages, passed[k][WindowAge(k)'] <= Admitted(k)
  PROVE  Window(k)'
  <1>1. \A a \in Ages : passed'[k][a] = passed[k][a] + 1
    BY Records
  <1>2. passed'[k][WindowAge(k)'] <= Admitted(k)'
    BY <1>1, Numbers
  <1>3. passed'[k][Period - 1] <= Admitted(k)' + limit[k]
    BY <1>1, Numbers DEF Window
  <1>4. \A a, b \in Ages : a <= b => passed'[k][a] <= passed'[k][b]
    BY <1>1, Numbers DEF Window
  <1> QED BY <1>2, <1>3, <1>4 DEF Window

LEMMA HitWindow ==
  ASSUME TypeOK, WindowsInv, NEW r \in Requests, Hit(r)
  PROVE  WindowsInv'
  <1>1. PICK k \in Keys : txn[r].key = k
    BY DEF TypeOK
  <1> DEFINE count == Incremented(k)
  <1>2. /\ value[k] > limit[k] => count = value[k]
        /\ ~(value[k] > limit[k]) => count = value[k] + 1
    BY DEF Incremented
  <1>3. /\ pc[r] = "hit" /\ value' = [value EXCEPT ![k] = count] /\ ttl' = ttl
        /\ \/ count = 1 /\ pc' = [pc EXCEPT ![r] = "expire"] /\ UNCHANGED <<txn, passed>>
           \/ count # 1 /\ count <= limit[k] /\ Pass(r) /\ Record(k)
           \/ count # 1 /\ count > limit[k] /\ End(r) /\ UNCHANGED passed
    <2>1. value[k] \in Nat /\ limit[k] \in Nat
      BY <1>1, Limits DEF TypeOK
    <2> QED BY <1>1, <1>2, <2>1 DEF Hit, SetsExpiry
  <1> HIDE DEF count
  <1>4. /\ Window(k) /\ value[k] \in Nat /\ limit[k] \in Nat \ {0} /\ Admitted(k) \in 0..limit[k]
        /\ WindowAge(k) \in Ages /\ value'[k] = count
        /\ passed[k][WindowAge(k)] <= Admitted(k)
    BY <1>1, <1>3, Numbers DEF WindowsInv, Window, TypeOK
  <1>5. WindowAge(k)' = WindowAge(k)
    BY <1>3 DEF WindowAge
  <1>6. CASE count = 1 /\ pc' = [pc EXCEPT ![r] = "expire"] /\ UNCHANGED <<txn, passed>>
    <2>1. value[k] = 0 /\ ttl[k] = None
      <3>1. value[k] = 0
        BY <1>2, <1>4, <1>6
      <3> QED BY <3>1 DEF TypeOK
    <2>2. Opening(k) = {} /\ Opening(k)' = {r}
      <3>1. Opening(k) = {}
        BY <1>4, <2>1 DEF Window
      <3>2. \A q \in Requests \ {r} : pc'[q] = pc[q] /\ txn'[q] = txn[q]
        BY <1>6 DEF TypeOK
      <3>3. pc'[r] = "expire" /\ txn'[r].key = k
        BY <1>1, <1>6 DEF TypeOK
      <3> QED BY <3>1, <3>2, <3>3 DEF Opening
    <2>3. Admitted(k) = 0 /\ Admitted(k)' = 0
      BY <1>3, <1>4, <1>6, <2>1, <2>2, Limits DEF Admitted
    <2>4. Window(k)'
      BY <1>3, <1>4, <1>5, <1>6, <2>1, <2>2, <2>3, Limits DEF Window
    <2>5. ASSUME NEW j \in Keys, j # k
          PROVE  Window(j)'
      <3>1. Opening(j)' = Opening(j)
        BY <1>1, <1>3, <1>6, <2>5 DEF Opening, TypeOK
      <3> QED BY <1>3, <1>6, <2>5, <3>1, SameWindow DEF WindowsInv, TypeOK
    <2> QED BY <2>4, <2>5 DEF WindowsInv
  <1>7. CASE count # 1
    <2>1. \A j \in Keys : Opening(j)' = Opening(j)
      <3>1. /\ pc'[r] # "expire"
            /\ \A q \in Requests \ {r} : pc'[q] = pc[q] /\ txn'[q] = txn[q]
        BY <1>3, <1>7, Passes
      <3> QED BY <1>3, <3>1, OpeningOfOthers
    <2>2. value[k] > 0
      BY <1>2, <1>4, <1>7
    <2>3. ASSUME count <= limit[k], Record(k)
          PROVE  Window(k)'
      <3>1. Admitted(k)' = Admitted(k) + 1
        BY <1>2, <1>3, <1>4, <2>1, <2>3, <1>1, Limits DEF Admitted
      <3>2. \A q, s \in Opening(k)' : q = s /\ value'[k] > 0 /\ ttl'[k] = None
        BY <1>2, <1>3, <1>4, <2>1, <2>2 DEF Window
      <3> QED BY <1>1, <1>4, <1>5, <2>3, <3>1, <3>2, PassingWindow
    <2>4. ASSUME count > limit[k], UNCHANGED passed
          PROVE  Window(k)'
      <3>1. Admitted(k)' = Admitted(k)
        BY <1>1, <1>2, <1>3, <1>4, <2>1, <2>4, Limits DEF Admitted
      <3> QED BY <1>2, <1>3, <1>4, <1>5, <2>1, <2>2, <2>4, <3>1, Limits DEF Window
    <2>5. ASSUME NEW j \in Keys, j # k
          PROVE  Window(j)'
      <3>1. passed'[j] = passed[j]
        BY <1>1, <1>3, <1>7, <2>5, Records
      <3> QED BY <1>3, <2>1, <2>5, <3>1, SameWindow DEF WindowsInv, TypeOK
    <2>6. (count <= limit[k] /\ Record(k)) \/ (count > limit[k] /\ UNCHANGED passed)
      BY <1>3, <1>7
    <2>7. Window(k)'
      BY <2>3, <2>4, <2>6
    <2> QED BY <2>5, <2>7 DEF WindowsInv
  <1> QED BY <1>3, <1>6, <1>7

LEMMA ExpireWindow ==
  ASSUME TypeOK, WindowsInv, NEW r \in Requests, Expire(r)
  PROVE  WindowsInv'
  <1>1. PICK k \in Keys : txn[r].key = k
    BY DEF TypeOK
  <1>2. /\ pc[r] = "expire" /\ Pass(r) /\ Record(k) /\ value' = value
        /\ ttl' = [ttl EXCEPT ![k] = IF value[k] = 0 THEN None ELSE Period]
    BY <1>1 DEF Expire
  <1>3. /\ pc'[r] # "expire"
        /\ \A q \in Requests \ {r} : pc'[q] = pc[q] /\ txn'[q] = txn[q]
    BY <1>2, Passes
  <1>4. Window(k) /\ Opening(k) = {r} /\ value[k] > 0 /\ ttl[k] = None
    <2>1. r \in Opening(k)
      BY <1>1, <1>2 DEF Opening
    <2> QED BY <1>1, <2>1 DEF WindowsInv, Window
  <1>5. Window(k)'
    <2>1. Opening(k)' = {}
      BY <1>1, <1>3, <1>4, OpeningOfOthers
    <2>2. value'[k] = value[k] /\ ttl'[k] = Period /\ value[k] \in Nat
      BY <1>1, <1>2, <1>4 DEF TypeOK
    <2>3. Admitted(k)' = Admitted(k) + 1
      BY <1>1, <1>2, <1>4, <2>1, <2>2, Numbers DEF Admitted
    <2>4. WindowAge(k)' = 0 /\ WindowAge(k) = 0 /\ 0 \in Ages
      BY <1>1, <1>4, <2>2, Numbers, Limits DEF WindowAge
    <2>5. passed[k][WindowAge(k)'] <= Admitted(k)
      BY <1>4, <2>4 DEF Window
    <2> QED BY <1>1, <1>2, <1>4, <2>1, <2>3, <2>4, <2>5, PassingWindow
  <1>6. ASSUME NEW j \in Keys, j # k
        PROVE  Window(j)'
    <2>1. Opening(j)' = Opening(j)
      BY <1>1, <1>3, <1>6 DEF Opening
    <2> QED BY <1>1, <1>2, <1>6, <2>1, Records, SameWindow DEF WindowsInv, TypeOK
  <1> QED BY <1>5, <1>6 DEF WindowsInv

\* Where the first hit of a window dies, what it would have added is free for another.
LEMMA MemoryHitOrFailWindow ==
  ASSUME TypeOK, WindowsInv, NEW r \in Requests, MemoryHit(r) \/ Fail(r)
  PROVE  WindowsInv'
  <1>1. Pass(r) \/ End(r)
    BY DEF MemoryHit, Fail
  <1>2. /\ pc'[r] # "expire" /\ UNCHANGED <<value, ttl, passed>>
        /\ \A q \in Requests \ {r} : pc'[q] = pc[q] /\ txn'[q] = txn[q]
    BY <1>1, Passes DEF MemoryHit, Fail, counters
  <1> SUFFICES ASSUME NEW k \in Keys
               PROVE  Window(k)'
    BY DEF WindowsInv
  <1>3. Window(k) /\ WindowAge(k)' = WindowAge(k)
    BY <1>2 DEF WindowsInv, WindowAge
  <1>4. CASE r \notin Opening(k)
    <2>1. Opening(k)' = Opening(k)
      BY <1>2, <1>4 DEF Opening
    <2> QED BY <1>2, <1>3, <2>1, SameWindow
  <1>5. CASE r \in Opening(k)
    <2>1. Opening(k)' = {}
      BY <1>2, <1>3, <1>5 DEF Opening, Window
    <2>2. Admitted(k)' = Admitted(k) + 1
      BY <1>2, <1>3, <1>5, <2>1, Numbers DEF Admitted
    <2> QED BY <1>2, <1>3, <2>1, <2>2, Numbers DEF Window
  <1> QED BY <1>4, <1>5

LEMMA WindowsStep ==
  ASSUME TypeOK, WindowsInv, [Next]_vars
  PROVE  WindowsInv'
  <1>1. CASE UNCHANGED vars
    <2>1. \A k \in Keys : Opening(k)' = Opening(k)
      BY <1>1 DEF vars, Opening
    <2> QED BY <1>1, <2>1, SameWindow DEF vars, counters, WindowsInv
  <1>2. CASE Tick
    BY <1>2, TickWindow DEF WindowsInv
  <1>3. ASSUME NEW r \in Requests, NEW route \in Routes \cup {None}, Arrive(r, route)
        PROVE  WindowsInv'
    <2>1. /\ pc[r] # "expire" /\ pc'[r] # "expire" /\ UNCHANGED <<value, ttl, passed>>
          /\ \A q \in Requests \ {r} : pc'[q] = pc[q] /\ txn'[q] = txn[q]
      BY <1>3 DEF Arrive, TypeOK, counters
    <2> QED BY <2>1, OpeningOfOthers, SameWindow DEF WindowsInv
  <1> QED BY <1>1, <1>2, <1>3, HitWindow, ExpireWindow, MemoryHitOrFailWindow
          DEF Next, Progress

LEMMA NoWindowsYet ==
  ASSUME Init
  PROVE  WindowsInv
  <1> SUFFICES ASSUME NEW k \in Keys
               PROVE  Window(k)
    BY DEF WindowsInv
  <1>1. Opening(k) = {} /\ value[k] = 0 /\ \A a \in Ages : passed[k][a] = 0
    BY DEF Init, Opening
  <1>2. Admitted(k) = 0 /\ WindowAge(k) = 0 /\ limit[k] \in Nat
    BY <1>1, Limits DEF Admitted, WindowAge, Init
  <1>3. 0 \in Ages /\ Period - 1 \in Ages
    BY Limits DEF Ages
  <1> QED BY <1>1, <1>2, <1>3 DEF Window

-----------------------------------------------------------------------------
\* The counters keep their types; none runs past its limit by more than the hit that is
\* refused, and a key without a count has no expiry.
THEOREM LimiterTypeOK == Spec => []TypeOK
  <1>1. TypeOK /\ CountersExpire /\ [Next]_vars => (TypeOK /\ CountersExpire)'
    BY NextStep
  <1> QED BY <1>1, Initially, PTL DEF Spec

\* A counter without an expiry is about to get one, unless the worker of its first hit
\* died between INCR and EXPIRE.
THEOREM ExpiryTheorem == Spec => []CountersExpire
  <1>1. TypeOK /\ CountersExpire /\ [Next]_vars => (TypeOK /\ CountersExpire)'
    BY NextStep
  <1> QED BY <1>1, Initially, PTL DEF Spec

\* No window lets more than its limit pass, whoever counts and whoever dies while it is open.
THEOREM WindowsHold == Spec => []WindowsInv
  <1>1. TypeOK /\ WindowsInv /\ [Next]_vars => WindowsInv'
    BY WindowsStep
  <1>2. Init => WindowsInv
    BY NoWindowsYet
  <1> QED BY <1>1, <1>2, LimiterTypeOK, PTL DEF Spec

\* However many requests a client has in flight, no more than twice the limit gets through
\* in any period.
THEOREM TwiceTheLimit == Spec => []AtMostTwiceTheLimit
  <1>1. TypeOK /\ WindowsInv => AtMostTwiceTheLimit
    <2> SUFFICES ASSUME TypeOK, WindowsInv, NEW k \in Keys
                 PROVE  passed[k][Period - 1] <= 2 * limit[k]
      BY DEF AtMostTwiceTheLimit
    <2> QED BY Numbers DEF WindowsInv, Window
  <1> QED BY <1>1, LimiterTypeOK, WindowsHold, PTL

=============================================================================
