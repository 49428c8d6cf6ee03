----------------------------- MODULE RateLimit -----------------------------
(***************************************************************************)
(* The rate limiter for the requests of one client address:                *)
(* GlobalRateLimitMiddleware counts every request, and the dependency of a *)
(* limited route counts those that get there, each with RateLimiter.hit on *)
(* a key of its own.  In Redis a hit is an INCR, and for the first hit of  *)
(* a window an EXPIRE after it; workers run these commands concurrently    *)
(* and may die between the two.                                            *)
(*                                                                         *)
(* Time is what remains of each window: Tick is the clock.                 *)
(***************************************************************************)
EXTENDS Integers

CONSTANTS
  Routes,            \* routes with a limit of their own
  limit,             \* of each key
  Period,            \* period_seconds, in steps of the clock
  Requests,          \* request slots: how many requests may run at once
  None               \* a route without a limit; no expiry

Keys == Routes \cup {"global"}

ASSUME Limits ==
  /\ limit \in [Keys -> Nat \ {0}] /\ Period \in Nat \ {0}
  /\ None \notin Nat /\ None \notin Routes /\ "global" \notin Routes

VARIABLES
  redis,          \* whether init_redis reached Redis
  value, ttl,     \* the counters: 0 and None where there is no key
  pc,             \* the command a request executes next
  txn,            \* its route, and the key it is counting
  passed,         \* history: how many hits of each key passed since a clock steps ago
  orphaned        \* history: keys whose first hit died before its EXPIRE

counters == <<value, ttl>>
vars == <<redis, counters, pc, txn, passed, orphaned>>

-----------------------------------------------------------------------------
Ages == 0..Period - 1
NoTxn == [route |-> None, key |-> "global"]

TypeOK ==
  /\ redis \in BOOLEAN
  /\ value \in [Keys -> Nat] /\ \A k \in Keys : value[k] <= limit[k] + 1
  /\ ttl \in [Keys -> 1..Period \cup {None}]
  /\ pc \in [Requests -> {"idle", "hit", "expire"}]
  /\ txn \in [Requests -> [route : Routes \cup {None}, key : Keys]]
  /\ \A r \in Requests : txn[r].key \in {"global", txn[r].route}
  /\ passed \in [Keys -> [Ages -> Nat]]
  /\ orphaned \subseteq Keys
  /\ \A k \in Keys : value[k] = 0 => ttl[k] = None

Init ==
  /\ redis \in BOOLEAN
  /\ value = [k \in Keys |-> 0]
  /\ ttl = [k \in Keys |-> None]
  /\ pc = [r \in Requests |-> "idle"]
  /\ txn = [r \in Requests |-> NoTxn]
  /\ passed = [k \in Keys |-> [a \in Ages |-> 0]]
  /\ orphaned = {}

-----------------------------------------------------------------------------
\* The clock: a key whose time is up is gone.
Tick ==
  /\ ttl' = [k \in Keys |-> IF ttl[k] \in {None, 1} THEN None ELSE ttl[k] - 1]
  /\ value' = [k \in Keys |-> IF ttl[k] = 1 THEN 0 ELSE value[k]]
  /\ passed' = [k \in Keys |-> [a \in Ages |-> IF a = 0 THEN 0 ELSE passed[k][a - 1]]]
  /\ UNCHANGED <<redis, pc, txn, orphaned>>

\* A request reaches the middleware.
Arrive(r, route) ==
  /\ pc[r] = "idle"
  /\ pc' = [pc EXCEPT ![r] = "hit"]
  /\ txn' = [txn EXCEPT ![r] = [route |-> route, key |-> "global"]]
  /\ UNCHANGED <<redis, counters, passed, orphaned>>

End(r) ==
  /\ pc' = [pc EXCEPT ![r] = "idle"]
  /\ txn' = [txn EXCEPT ![r] = NoTxn]

\* Fault: every route has a dependency, also one without a limit.
PassToRoute(r) ==
  IF txn[r].key = "global"
  THEN /\ pc' = [pc EXCEPT ![r] = "hit"]
       /\ txn' = [txn EXCEPT ![r].key = txn[r].route]
  ELSE End(r)

\* A hit within the limit: on to the dependency of the route, or to the handler.
Pass(r) ==
  IF txn[r].key = "global" /\ txn[r].route # None
  THEN /\ pc' = [pc EXCEPT ![r] = "hit"]
       /\ txn' = [txn EXCEPT ![r].key = txn[r].route]
  ELSE End(r)

Record(k) == passed' = [passed EXCEPT ![k] = [a \in Ages |-> passed[k][a] + 1]]

-----------------------------------------------------------------------------
(* RateLimiter.hit *)

\* Fault: GET and SET: the second hit of a window reads the count before the first wrote.
LoseIncrement(k) == IF value[k] = 1 THEN 1 ELSE value[k] + 1

\* INCR.  A count beyond the limit stays there: nothing tells it from a higher one.
Incremented(k) == IF value[k] > limit[k] THEN value[k] ELSE value[k] + 1

\* Fault: the first hit counts one, not zero.
FirstIsZero(count) == count = 0

\* Fault: every hit sets the expiry.
EveryHit(count) == TRUE

SetsExpiry(count) == count = 1

\* A first hit goes on to its EXPIRE; another passes, or raises RateLimitError.
Hit(r) ==
  LET k == txn[r].key
      count == Incremented(k)
  IN
  /\ redis /\ pc[r] = "hit"
  /\ value' = [value EXCEPT ![k] = count]
  /\ IF SetsExpiry(count)
     THEN pc' = [pc EXCEPT ![r] = "expire"] /\ UNCHANGED <<txn, passed>>
     ELSE IF count <= limit[k] THEN Pass(r) /\ Record(k)
          ELSE End(r) /\ UNCHANGED passed
  /\ UNCHANGED <<redis, ttl, orphaned>>

Expire(r) ==
  LET k == txn[r].key IN
  /\ pc[r] = "expire"
  /\ ttl' = [ttl EXCEPT ![k] = IF value[k] = 0 THEN None ELSE Period]
  /\ Pass(r) /\ Record(k)
  /\ UNCHANGED <<redis, value, orphaned>>

\* InMemoryRateLimiter: RateLimiter makes a new one for every hit, so each finds a count
\* of one and passes.
MemoryHit(r) ==
  /\ ~redis /\ pc[r] = "hit"
  /\ Pass(r)
  /\ UNCHANGED <<redis, counters, passed, orphaned>>

\* The worker dies, or the connection to Redis breaks, between two commands.
Fail(r) ==
  /\ pc[r] # "idle"
  /\ orphaned' = orphaned \cup {k \in Keys : pc[r] = "expire" /\ k = txn[r].key}
  /\ End(r)
  /\ UNCHANGED <<redis, counters, passed>>

-----------------------------------------------------------------------------
Progress(r) == Hit(r) \/ Expire(r) \/ MemoryHit(r)

Next ==
  \/ Tick
  \/ \E r \in Requests :
       \/ \E route \in Routes \cup {None} : Arrive(r, route)
       \/ Progress(r) \/ Fail(r)

Spec == Init /\ [][Next]_vars

(* Time passes, and the event loop lets every request go on. *)
FairSpec == Spec /\ WF_vars(Tick) /\ \A r \in Requests : WF_vars(Progress(r))

-----------------------------------------------------------------------------
(* What the limiter promises where there is Redis. *)

\* However many workers count at once, and wherever they die, no more than twice the
\* limit passes in any period: a fixed window admits its limit, and a period touches two.
AtMostTwiceTheLimit == \A k \in Keys : passed[k][Period - 1] <= 2 * limit[k]

\* A counter that no expiry will ever remove is one whose first hit died: otherwise that
\* request is about to set it.
CountersExpire ==
  \A k \in Keys : value[k] > 0 /\ ttl[k] = None =>
    k \in orphaned \/ \E r \in Requests : pc[r] = "expire" /\ txn[r].key = k

-----------------------------------------------------------------------------
(* The inductive invariant behind the bound. *)

\* The requests that have made the first hit of a window of k and not set its expiry.
Opening(k) == {r \in Requests : pc[r] = "expire" /\ txn[r].key = k}

\* What the hits of the current window of k may have added to passed: all but the refused
\* ones and the one that is still to set the expiry.
Admitted(k) ==
  (IF value[k] > limit[k] THEN limit[k] ELSE value[k]) - (IF Opening(k) = {} THEN 0 ELSE 1)

\* The age since which nothing but the current window of k has passed: when ttl began to
\* run, or now.
WindowAge(k) == IF ttl[k] = None THEN 0 ELSE Period - ttl[k]

\* One request opens a window, which has no expiry until then.  No window lets more than
\* its limit pass, and before the current one a period reaches back to one only.
Window(k) ==
  /\ \A r, q \in Opening(k) : r = q /\ value[k] > 0 /\ ttl[k] = None
  /\ \A a, b \in Ages : a <= b => passed[k][a] <= passed[k][b]
  /\ passed[k][WindowAge(k)] <= Admitted(k)
  /\ passed[k][Period - 1] <= Admitted(k) + limit[k]

WindowsInv == \A k \in Keys : Window(k)

-----------------------------------------------------------------------------
\* A client over the limit is let in again, although its refused requests go on being
\* counted, unless a worker died between INCR and EXPIRE.
ReadmittedInTime ==
  \A k \in Keys : value[k] > limit[k] ~> value[k] = 0 \/ k \in orphaned

=============================================================================
