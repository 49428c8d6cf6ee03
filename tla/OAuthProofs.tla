---------------------------- MODULE OAuthProofs ----------------------------
(* Proofs of the safety of OAuth logins, for any number of flows, subjects and callbacks. *)
(* As in the other proofs, Frame describes a step once, and what the callbacks that do    *)
(* not move rely on follows from it.                                                      *)
EXTENDS OAuth, TLAPS

-----------------------------------------------------------------------------
\* A step by one of `movers` (no callback, when the rest of the application moves).
Frame(movers) ==
  /\ \A q \in Requests \ movers : pc'[q] = pc[q] /\ txn'[q] = txn[q]
  /\ \A f \in Flows :
       /\ state[f] = "consumed" => state'[f] = "consumed"
       /\ provider'[f] = None => provider[f] = None /\ state'[f] = state[f]
       /\ code[f] # None => code'[f] = code[f]
  /\ spent \subseteq spent'
  /\ \A e \in Emails :
       /\ Exists(e) => Exists(e)'
       /\ Exists(e)' => Exists(e) \/ \A r \in Requests : e \notin Held(r)
  /\ \A a \in answers' : a \in answers \/ \E r \in movers :
       Identified(r) /\ a.flow = txn[r].flow /\ a.subject = txn[r].subject /\ answers' = answers \cup {a}

LEMMA Known ==
  ASSUME TypeOK, CallbacksInv, NEW r \in Requests
  PROVE  /\ txn[r] \in Txn /\ pc[r] \in Steps /\ Knows(r)
         /\ \A q \in Requests \ {r} : Apart(r, q) /\ Apart(q, r)
         /\ Identified(r) => Accepted(r) /\ EmailOf(r) \in Emails
  BY Accounts DEF TypeOK, CallbacksInv, Identified, Knows, EmailOf

LEMMA OthersKeep ==
  ASSUME TypeOK, CallbacksInv, NEW movers \in SUBSET Requests, Frame(movers),
         NEW q \in Requests \ movers
  PROVE  Knows(q)'
  <1>1. pc'[q] = pc[q] /\ txn'[q] = txn[q] /\ Knows(q) /\ (Identified(q) => Accepted(q))
    BY Known DEF Frame
  <1>2. \A r \in movers : Apart(r, q) /\ (Identified(r) => Accepted(r))
    BY Known
  <1>3. Accepted(q) =>
          /\ txn[q].flow \in Flows /\ txn[q].code \in Flows
          /\ state'[txn[q].flow] = "consumed" /\ code'[txn[q].code] # None
          /\ \A a \in answers' : a.flow # txn[q].flow
    BY <1>1, <1>2 DEF Knows, Frame, Apart
  <1>4. Identified(q) =>
          /\ txn[q].subject \in Subjects /\ txn[q].flow = txn[q].code
          /\ code'[txn[q].flow] = txn[q].subject /\ txn[q].flow \in spent'
    BY <1>1, RowNames DEF Knows, Frame
  <1>5. HasUser(q) => (txn[q].new <=> ~(slug'[EmailOf(q)] # None))
    <2> SUFFICES ASSUME HasUser(q) PROVE txn[q].new <=> ~(slug'[EmailOf(q)] # None)
      OBVIOUS
    <2>1. EmailOf(q) \in Emails
      BY Known DEF HasUser, Identified, Accepted
    <2>2. txn[q].new <=> ~Exists(EmailOf(q))
      BY <1>1 DEF Knows
    <2>3. txn[q].new => EmailOf(q) \in Held(q)
      BY DEF HasUser, Held
    <2> QED BY <2>1, <2>2, <2>3 DEF Frame, Exists
  <1>6. /\ pc[q] \in {"exchange", "identify"} => ~txn[q].new
        /\ pc[q] \in {"insert", "org"} => txn[q].new
    BY <1>1 DEF Knows
  <1> QED BY <1>1, <1>3, <1>4, <1>5, <1>6
          DEF Knows, Accepted, Identified, HasUser, EmailOf, Exists

LEMMA OthersApart ==
  ASSUME CallbacksInv, NEW movers \in SUBSET Requests, Frame(movers),
         NEW p \in Requests \ movers, NEW q \in Requests \ movers, p # q
  PROVE  Apart(p, q)'
  BY DEF Frame, CallbacksInv, Apart, Accepted, HasUser, EmailOf

LEMMA ApartBothWays ==
  ASSUME NEW r \in Requests, NEW q \in Requests, Apart(r, q)'
  PROVE  Apart(q, r)'
  BY DEF Apart

\* States stay stored once, and answered flows consumed.
LEMMA FlowsKept ==
  ASSUME TypeOK, TypeOK', CallbacksInv, NEW movers \in SUBSET Requests, Frame(movers)
  PROVE  /\ \A f \in Flows : provider'[f] = None => state'[f] = "absent"
         /\ \A a \in answers' : state'[a.flow] = "consumed"
  <1>1. \A f \in Flows : provider'[f] = None => state'[f] = "absent"
    BY DEF Frame, CallbacksInv
  <1>2. \A a \in answers : a.flow \in Flows /\ state[a.flow] = "consumed"
    BY DEF CallbacksInv, TypeOK
  <1>3. \A r \in movers : Identified(r) => txn[r].flow \in Flows /\ state[txn[r].flow] = "consumed"
    BY Known DEF Knows
  <1>4. \A a \in answers' : state'[a.flow] = "consumed"
    BY <1>2, <1>3 DEF Frame
  <1> QED BY <1>1, <1>4

\* Of a step by r only what r itself relies on is left to show.
LEMMA CallbackStep ==
  ASSUME TypeOK, TypeOK', CallbacksInv, NEW r \in Requests, Frame({r}),
         Knows(r)', \A q \in Requests \ {r} : Apart(r, q)'
  PROVE  CallbacksInv'
  <1>1. \A q \in Requests \ {r} : Knows(q)'
    BY OthersKeep
  <1>2. \A p, q \in Requests \ {r} : p # q => Apart(p, q)'
    BY OthersApart
  <1>3. \A q \in Requests \ {r} : Apart(q, r)'
    BY ApartBothWays
  <1> QED BY <1>1, <1>2, <1>3, FlowsKept DEF CallbacksInv

\* Nor of a step by nobody.
LEMMA NobodyMoves ==
  ASSUME TypeOK, TypeOK', CallbacksInv, Frame({})
  PROVE  CallbacksInv'
  <1>1. \A q \in Requests : Knows(q)'
    BY OthersKeep
  <1>2. \A p, q \in Requests : p # q => Apart(p, q)'
    BY OthersApart
  <1> QED BY <1>1, <1>2, FlowsKept DEF CallbacksInv

\* Whoever got tokens consented in the flow they came back with.
LEMMA AnswersKept ==
  ASSUME TypeOK, TypeOK', CallbacksInv, AnswersMatchFlow,
         NEW movers \in SUBSET Requests, Frame(movers)
  PROVE  AnswersMatchFlow'
  <1>1. ASSUME NEW a \in answers
        PROVE  code'[a.flow] = a.subject /\ a.flow \in spent'
    BY <1>1, RowNames DEF AnswersMatchFlow, TypeOK, Frame
  <1>2. ASSUME NEW a \in answers', a \notin answers
        PROVE  /\ code'[a.flow] = a.subject /\ a.flow \in spent' /\ answers' = answers \cup {a}
               /\ \A b \in answers : b.flow # a.flow
    <2>1. PICK r \in movers : /\ Identified(r) /\ a.flow = txn[r].flow
                              /\ a.subject = txn[r].subject /\ answers' = answers \cup {a}
      BY <1>2 DEF Frame
    <2>2. /\ a.subject \in Subjects /\ a.flow \in Flows /\ code[a.flow] = a.subject
          /\ a.flow \in spent /\ \A b \in answers : b.flow # a.flow
      BY <2>1, Known DEF Knows
    <2> QED BY <2>1, <2>2, RowNames DEF Frame
  <1> QED BY <1>1, <1>2 DEF AnswersMatchFlow

-----------------------------------------------------------------------------
(* What the rest of the application and the browser do. *)

LEMMA WorldStep ==
  ASSUME TypeOK, CallbacksInv,
         \/ \E e \in Emails : Verify(e) \/ Join(e) \/ \E s \in Slugs : Register(e, s)
         \/ \E f \in Flows : \/ \E p \in Providers : Authorize(f, p)
                             \/ ExpireState(f)
                             \/ \E s \in Subjects : Consent(f, s)
         \/ UNCHANGED vars
  PROVE  TypeOK' /\ Frame({}) /\ CallbacksInv'
  <1>1. ASSUME NEW e \in Emails, Verify(e) \/ Join(e)
        PROVE  TypeOK' /\ Frame({})
    BY <1>1 DEF Verify, Join, TypeOK, Frame, flows, Accepted, Identified, Exists
  <1>2. ASSUME NEW e \in Emails, NEW s \in Slugs, Register(e, s)
        PROVE  TypeOK' /\ Frame({})
    <2>1. /\ ~Exists(e) /\ slug' = [slug EXCEPT ![e] = s] /\ \A r \in Requests : e \notin Held(r)
          /\ UNCHANGED <<redis, state, provider, code, spent, is_verified, joined, pc, txn, answers>>
      BY <1>2 DEF Register, flows
    <2>2. TypeOK'
      BY <2>1 DEF TypeOK, Accepted, Identified
    <2>3. Frame({})
      BY <2>1, RowNames DEF Frame, Exists, TypeOK
    <2> QED BY <2>2, <2>3
  <1>3. ASSUME NEW f \in Flows, NEW p \in Providers, Authorize(f, p)
        PROVE  TypeOK' /\ Frame({})
    <2>1. /\ state[f] = "absent" /\ p # None
          /\ state' \in [Flows -> {"absent", "stored", "lost", "expired", "consumed"}]
          /\ \A g \in Flows : g # f => state'[g] = state[g]
          /\ provider' = [provider EXCEPT ![f] = p]
          /\ UNCHANGED <<redis, code, spent, slug, is_verified, joined, pc, txn, answers>>
      BY <1>3, RowNames DEF Authorize, Store, accounts, CallbacksInv, TypeOK
    <2>2. TypeOK'
      BY <2>1 DEF TypeOK, Accepted, Identified
    <2>3. Frame({})
      BY <2>1 DEF Frame, Exists, TypeOK
    <2> QED BY <2>2, <2>3
  <1>4. ASSUME NEW f \in Flows, ExpireState(f)
        PROVE  TypeOK' /\ Frame({})
    <2>1. /\ state[f] = "stored" /\ provider[f] # None
          /\ state' = [state EXCEPT ![f] = "expired"]
          /\ UNCHANGED <<redis, provider, code, spent, slug, is_verified, joined, pc, txn, answers>>
      BY <1>4 DEF ExpireState, accounts, CallbacksInv
    <2>2. TypeOK'
      BY <2>1 DEF TypeOK, Accepted, Identified
    <2>3. Frame({})
      BY <2>1 DEF Frame, Exists, TypeOK
    <2> QED BY <2>2, <2>3
  <1>5. ASSUME NEW f \in Flows, NEW s \in Subjects, Consent(f, s)
        PROVE  TypeOK' /\ Frame({})
    <2>1. /\ code[f] = None /\ code' = [code EXCEPT ![f] = s]
          /\ UNCHANGED <<redis, state, provider, spent, slug, is_verified, joined, pc, txn, answers>>
      BY <1>5 DEF Consent, accounts
    <2>2. TypeOK'
      BY <2>1 DEF TypeOK, Accepted, Identified
    <2>3. Frame({})
      BY <2>1 DEF Frame, Exists, TypeOK
    <2> QED BY <2>2, <2>3
  <1>6. ASSUME UNCHANGED vars
        PROVE  TypeOK' /\ Frame({})
    <2>1. UNCHANGED <<redis, state, provider, code, spent, slug, is_verified, joined, pc, txn, answers>>
      BY <1>6 DEF vars, flows, accounts
    <2>2. TypeOK'
      BY <2>1 DEF TypeOK, Accepted, Identified
    <2>3. Frame({})
      BY <2>1 DEF Frame, Exists
    <2> QED BY <2>2, <2>3
  <1>7. TypeOK' /\ Frame({})
    BY <1>1, <1>2, <1>3, <1>4, <1>5, <1>6
  <1> QED BY <1>7, NobodyMoves

-----------------------------------------------------------------------------
(* What a callback does. *)

LEMMA StateAcceptedStep ==
  ASSUME TypeOK, CallbacksInv, NEW r \in Requests, NEW p \in Providers,
         NEW f \in Flows, NEW g \in Flows, StateAccepted(r, p, f, g)
  PROVE  TypeOK' /\ Frame({r}) /\ CallbacksInv'
  <1> DEFINE t == [provider |-> p, flow |-> f, code |-> g, subject |-> None, new |-> FALSE]
  <1>1. /\ pc[r] = "idle" /\ state[f] = "stored" /\ code[g] # None
        /\ state' = [state EXCEPT ![f] = "consumed"]
        /\ pc' = [pc EXCEPT ![r] = "exchange"] /\ txn' = [txn EXCEPT ![r] = t]
        /\ UNCHANGED <<redis, provider, code, spent, slug, is_verified, joined, answers>>
    BY DEF StateAccepted, Consume, Goto, accounts
  <1>2. /\ t \in Txn /\ t.flow = f /\ t.code = g /\ ~t.new /\ f # None
        /\ provider[f] # None
    BY <1>1, RowNames DEF Txn, CallbacksInv
  <1> HIDE DEF t
  <1>3. pc'[r] = "exchange" /\ txn'[r] = t /\ state'[f] = "consumed"
    BY <1>1 DEF TypeOK
  <1>4. \A q \in Requests \ {r} : pc'[q] = pc[q] /\ txn'[q] = txn[q]
    BY <1>1 DEF TypeOK
  <1>5. TypeOK'
    BY <1>1, <1>2 DEF TypeOK, Accepted, Identified, Steps
  <1>6. Frame({r})
    BY <1>1, <1>2, <1>4 DEF Frame, Exists, TypeOK
  <1>7. Knows(r)'
    BY <1>1, <1>2, <1>3 DEF Knows, Accepted, Identified, HasUser, CallbacksInv
  <1>8. ASSUME NEW q \in Requests \ {r}
        PROVE  Apart(r, q)'
    <2>1. Accepted(q) => txn[q].flow # f
      BY <1>1, Known DEF Knows
    <2> QED BY <1>2, <1>3, <1>4, <2>1 DEF Apart, Accepted, HasUser
  <1> QED BY <1>5, <1>6, <1>7, <1>8, CallbackStep

LEMMA ExchangeStep ==
  ASSUME TypeOK, CallbacksInv, NEW r \in Requests, Exchange(r)
  PROVE  TypeOK' /\ Frame({r}) /\ CallbacksInv'
  <1> DEFINE t == [txn[r] EXCEPT !.subject = code[txn[r].code]]
  <1>1. /\ pc[r] = "exchange" /\ txn[r].flow = txn[r].code
        /\ spent' = spent \cup {txn[r].code}
        /\ pc' = [pc EXCEPT ![r] = "identify"] /\ txn' = [txn EXCEPT ![r] = t]
        /\ UNCHANGED <<redis, state, provider, code, slug, is_verified, joined, answers>>
    BY DEF Exchange, ChallengeMatches, Goto, accounts
  <1>2. /\ txn[r].flow \in Flows /\ state[txn[r].flow] = "consumed" /\ ~txn[r].new
        /\ code[txn[r].code] # None /\ \A a \in answers : a.flow # txn[r].flow
        /\ txn[r] \in Txn
    BY <1>1, Known DEF Knows, Accepted
  <1>3. code[txn[r].code] \in Subjects
    BY <1>1, <1>2 DEF TypeOK
  <1>4. /\ t \in Txn /\ t.flow = txn[r].flow /\ t.code = txn[r].code
        /\ t.subject = code[txn[r].code] /\ ~t.new
    BY <1>2, <1>3 DEF Txn
  <1> HIDE DEF t
  <1>5. pc'[r] = "identify" /\ txn'[r] = t
    BY <1>1 DEF TypeOK
  <1>6. \A q \in Requests \ {r} : pc'[q] = pc[q] /\ txn'[q] = txn[q]
    BY <1>1 DEF TypeOK
  <1>7. TypeOK'
    BY <1>1, <1>2, <1>3, <1>4, RowNames DEF TypeOK, Accepted, Identified, Steps
  <1>8. Frame({r})
    BY <1>1, <1>6 DEF Frame, Exists, TypeOK
  <1>9. Knows(r)'
    BY <1>1, <1>2, <1>3, <1>4, <1>5 DEF Knows, Accepted, Identified, HasUser
  <1>10. ASSUME NEW q \in Requests \ {r}
         PROVE  Apart(r, q)'
    BY <1>1, <1>4, <1>5, <1>6, Known DEF Apart, Accepted, HasUser
  <1> QED BY <1>7, <1>8, <1>9, <1>10, CallbackStep

\* A callback that gives up relies on nothing.
LEMMA GivesUp ==
  ASSUME TypeOK, CallbacksInv, NEW r \in Requests, NEW step \in {"raise", "idle"},
         NEW t \in Txn, TypeOK', Frame({r}),
         pc' = [pc EXCEPT ![r] = step], ~ t.new, UNCHANGED txn \/ txn' = [txn EXCEPT ![r] = t]
  PROVE  CallbacksInv'
  <1>1. pc'[r] = step
    BY DEF TypeOK
  <1>2. Knows(r)'
    BY <1>1 DEF Knows, Accepted, Identified, HasUser
  <1>3. \A q \in Requests \ {r} : Apart(r, q)'
    BY <1>1 DEF Apart, Accepted, HasUser
  <1> QED BY <1>2, <1>3, CallbackStep

LEMMA ExchangeFailsStep ==
  ASSUME TypeOK, CallbacksInv, NEW r \in Requests, ExchangeFails(r)
  PROVE  TypeOK' /\ Frame({r}) /\ CallbacksInv'
  <1>1. /\ pc[r] = "exchange" /\ spent \subseteq spent'
        /\ spent' \subseteq spent \cup {txn[r].code}
        /\ pc' = [pc EXCEPT ![r] = "raise"]
        /\ UNCHANGED <<redis, state, provider, code, slug, is_verified, joined, txn, answers>>
    BY DEF ExchangeFails, Goto, accounts
  <1>2. txn[r].code \in Flows
    BY <1>1, Known DEF Knows, Accepted
  <1>3. TypeOK'
    BY <1>1, <1>2 DEF TypeOK, Accepted, Identified, Steps
  <1>4. Frame({r})
    BY <1>1 DEF Frame, Exists, TypeOK
  <1>5. [NoTxn EXCEPT !.new = FALSE] \in Txn /\ ~[NoTxn EXCEPT !.new = FALSE].new
    BY DEF NoTxn, Txn
  <1> QED BY <1>1, <1>3, <1>4, <1>5, GivesUp

LEMMA FindUserStep ==
  ASSUME TypeOK, CallbacksInv, NEW r \in Requests, FindUser(r)
  PROVE  TypeOK' /\ Frame({r}) /\ CallbacksInv'
  <1>1. /\ pc[r] = "identify" /\ Exists(EmailOf(r))
        /\ \E step \in {"raise", "mint"} : pc' = [pc EXCEPT ![r] = step]
        /\ UNCHANGED <<redis, state, provider, code, spent, slug, is_verified, joined, txn, answers>>
    BY DEF FindUser, Goto, accounts, flows
  <1>2. Knows(r) /\ ~txn[r].new
    BY <1>1, Known DEF Knows
  <1>3. /\ pc'[r] \in {"raise", "mint"} /\ EmailOf(r)' = EmailOf(r)
        /\ \A q \in Requests \ {r} : pc'[q] = pc[q] /\ txn'[q] = txn[q] /\ EmailOf(q)' = EmailOf(q)
    BY <1>1 DEF TypeOK, EmailOf
  <1>4. TypeOK'
    BY <1>1 DEF TypeOK, Accepted, Identified, Steps
  <1>5. Frame({r})
    BY <1>1, <1>3 DEF Frame, Exists
  <1>6. Knows(r)'
    BY <1>1, <1>2, <1>3 DEF Knows, Accepted, Identified, HasUser, Exists
  <1>7. ASSUME NEW q \in Requests \ {r}
        PROVE  Apart(r, q)'
    <2>1. /\ Apart(r, q) /\ (Accepted(q) => txn[q].flow # txn[r].flow)
          /\ (HasUser(q) /\ txn[q].new => ~Exists(EmailOf(q)))
      BY <1>1, Known DEF Apart, Accepted, Knows
    <2> QED BY <1>1, <1>2, <1>3, <2>1 DEF Apart, Accepted, HasUser
  <1> QED BY <1>4, <1>5, <1>6, <1>7, CallbackStep

LEMMA NoUserStep ==
  ASSUME TypeOK, CallbacksInv, NEW r \in Requests, NoUser(r)
  PROVE  TypeOK' /\ Frame({r}) /\ CallbacksInv'
  <1> DEFINE t == [txn[r] EXCEPT !.new = TRUE]
  <1>1. /\ pc[r] = "identify"
        /\ pc' = [pc EXCEPT ![r] = "insert"] /\ txn' = [txn EXCEPT ![r] = t]
        /\ UNCHANGED <<redis, state, provider, code, spent, slug, is_verified, joined, answers>>
    BY DEF NoUser, Goto, accounts, flows
  <1>2. txn[r] \in Txn /\ Knows(r)
    BY Known
  <1>3. /\ t \in Txn /\ t.flow = txn[r].flow /\ t.code = txn[r].code
        /\ t.subject = txn[r].subject /\ t.new
    BY <1>2 DEF Txn
  <1> HIDE DEF t
  <1>4. pc'[r] = "insert" /\ txn'[r] = t
    BY <1>1 DEF TypeOK
  <1>5. \A q \in Requests \ {r} : pc'[q] = pc[q] /\ txn'[q] = txn[q]
    BY <1>1 DEF TypeOK
  <1>6. TypeOK'
    BY <1>1, <1>3 DEF TypeOK, Accepted, Identified, Steps
  <1>7. Frame({r})
    BY <1>1, <1>5 DEF Frame, Exists
  <1>8. Knows(r)'
    BY <1>1, <1>2, <1>3, <1>4 DEF Knows, Accepted, Identified, HasUser
  <1>9. ASSUME NEW q \in Requests \ {r}
        PROVE  Apart(r, q)'
    BY <1>1, <1>3, <1>4, <1>5, Known DEF Apart, Accepted, HasUser
  <1> QED BY <1>6, <1>7, <1>8, <1>9, CallbackStep

LEMMA InsertUserStep ==
  ASSUME TypeOK, CallbacksInv, NEW r \in Requests, InsertUser(r)
  PROVE  TypeOK' /\ Frame({r}) /\ CallbacksInv'
  <1>1. /\ pc[r] = "insert" /\ Free(r, EmailOf(r)) /\ ~IndexTaken(EmailOf(r))
        /\ pc' = [pc EXCEPT ![r] = "org"]
        /\ UNCHANGED <<redis, state, provider, code, spent, slug, is_verified, joined, txn, answers>>
    BY DEF InsertUser, Goto, accounts, flows
  <1>2. Knows(r) /\ txn[r].new /\ EmailOf(r) \in Emails
    BY <1>1, Known DEF Knows, Identified, Accepted
  <1>3. ~Exists(EmailOf(r))
    BY <1>1, <1>2 DEF IndexTaken
  <1>4. /\ pc'[r] = "org" /\ EmailOf(r)' = EmailOf(r)
        /\ \A q \in Requests \ {r} : pc'[q] = pc[q] /\ txn'[q] = txn[q] /\ EmailOf(q)' = EmailOf(q)
    BY <1>1 DEF TypeOK, EmailOf
  <1>5. TypeOK'
    BY <1>1 DEF TypeOK, Accepted, Identified, Steps
  <1>6. Frame({r})
    BY <1>1, <1>4 DEF Frame, Exists
  <1>7. Knows(r)'
    BY <1>1, <1>2, <1>3, <1>4 DEF Knows, Accepted, Identified, HasUser, Exists
  <1>8. ASSUME NEW q \in Requests \ {r}
        PROVE  Apart(r, q)'
    <2>1. Apart(r, q) /\ Knows(q)
      BY Known
    <2>2. HasUser(q) => EmailOf(q) # EmailOf(r)
      <3>1. HasUser(q) /\ txn[q].new => EmailOf(q) \in Held(q)
        BY DEF HasUser, Held
      <3>2. HasUser(q) /\ ~txn[q].new => Exists(EmailOf(q))
        BY <2>1 DEF Knows
      <3> QED BY <1>1, <1>3, <3>1, <3>2 DEF Free
    <2> QED BY <1>1, <1>4, <2>1, <2>2 DEF Apart, Accepted, HasUser
  <1> QED BY <1>5, <1>6, <1>7, <1>8, CallbackStep

LEMMA InsertOrgOrMintStep ==
  ASSUME TypeOK, CallbacksInv, NEW r \in Requests, InsertOrg(r) \/ Mint(r)
  PROVE  TypeOK' /\ Frame({r}) /\ CallbacksInv'
  <1>1. /\ pc[r] \in {"org", "mint"}
        /\ \E step \in {"mint", "respond", "raise"} : pc' = [pc EXCEPT ![r] = step]
        /\ UNCHANGED <<redis, state, provider, code, spent, slug, is_verified, joined, txn, answers>>
    BY DEF InsertOrg, Mint, Goto, accounts, flows
  <1>2. Knows(r)
    BY Known
  <1>3. /\ pc'[r] \in {"mint", "respond", "raise"} /\ EmailOf(r)' = EmailOf(r)
        /\ \A q \in Requests \ {r} : pc'[q] = pc[q] /\ txn'[q] = txn[q] /\ EmailOf(q)' = EmailOf(q)
    BY <1>1 DEF TypeOK, EmailOf
  <1>4. TypeOK'
    BY <1>1 DEF TypeOK, Accepted, Identified, Steps
  <1>5. Frame({r})
    BY <1>1, <1>3 DEF Frame, Exists
  <1>6. Knows(r)'
    BY <1>1, <1>2, <1>3 DEF Knows, Accepted, Identified, HasUser, Exists
  <1>7. ASSUME NEW q \in Requests \ {r}
        PROVE  Apart(r, q)'
    BY <1>1, <1>3, Known DEF Apart, Accepted, HasUser
  <1> QED BY <1>4, <1>5, <1>6, <1>7, CallbackStep

\* Closing the session: of the callback's own work only an answer stays.
LEMMA EndStep ==
  ASSUME TypeOK, CallbacksInv, NEW r \in Requests,
         Respond(r) \/ IntegrityError(r) \/ Abort(r) \/ Fail(r)
  PROVE  TypeOK' /\ Frame({r}) /\ CallbacksInv'
  <1> DEFINE a == [flow |-> txn[r].flow, subject |-> txn[r].subject, new |-> txn[r].new]
  <1>1. /\ pc' = [pc EXCEPT ![r] = "idle"] /\ txn' = [txn EXCEPT ![r] = NoTxn]
        /\ UNCHANGED <<redis, state, provider, code, spent, slug, is_verified, joined>>
    BY DEF Respond, IntegrityError, Abort, Fail, EndSession, Goto, accounts, flows
  <1>2. answers' = answers \/ (pc[r] = "respond" /\ answers' = answers \cup {a})
    <2>1. CASE Respond(r)
      BY <2>1, Zenon DEF Respond
    <2>2. CASE IntegrityError(r) \/ Abort(r) \/ Fail(r)
      BY <2>2 DEF IntegrityError, Abort, Fail
    <2> QED BY <2>1, <2>2
  <1>3. NoTxn \in Txn /\ ~NoTxn.new
    BY DEF NoTxn, Txn
  <1>4. Knows(r) /\ txn[r] \in Txn
    BY Known
  <1>5. pc[r] = "respond" =>
          /\ Identified(r) /\ a.flow = txn[r].flow /\ a.subject = txn[r].subject
          /\ a \in [flow : Flows, subject : Subjects, new : BOOLEAN]
    BY <1>4 DEF Knows, Identified, Accepted, Txn
  <1> HIDE DEF a
  <1>6. TypeOK'
    <2>1. answers' \subseteq [flow : Flows, subject : Subjects, new : BOOLEAN]
      BY <1>2, <1>5 DEF TypeOK
    <2> QED BY <1>1, <1>3, <2>1 DEF TypeOK, Accepted, Identified, Steps
  <1>7. \A q \in Requests \ {r} : pc'[q] = pc[q] /\ txn'[q] = txn[q]
    BY <1>1 DEF TypeOK
  <1>8. Frame({r})
    BY <1>1, <1>2, <1>5, <1>7 DEF Frame, Exists
  <1> QED BY <1>1, <1>3, <1>6, <1>8, GivesUp

LEMMA NextStep ==
  ASSUME TypeOK, CallbacksInv, [Next]_vars
  PROVE  TypeOK' /\ CallbacksInv' /\ \E movers \in SUBSET Requests : Frame(movers)
  <1>1. ASSUME NEW r \in Requests, \/ \E p \in Providers, f, g \in Flows : StateAccepted(r, p, f, g)
                                   \/ Progress(r) \/ Fail(r)
        PROVE  TypeOK' /\ Frame({r}) /\ CallbacksInv'
    BY <1>1, StateAcceptedStep, ExchangeStep, ExchangeFailsStep, FindUserStep, NoUserStep,
       InsertUserStep, InsertOrgOrMintStep, EndStep DEF Progress
  <1>2. ASSUME NEW r \in Requests, NEW f \in Flows, StateRefused(r, f)
        PROVE  UNCHANGED vars
    BY <1>2 DEF StateRefused
  <1>3. \/ \E r \in Requests : TypeOK' /\ Frame({r}) /\ CallbacksInv'
        \/ TypeOK' /\ Frame({}) /\ CallbacksInv'
    BY <1>1, <1>2, WorldStep DEF Next
  <1> QED BY <1>3

LEMMA Initially ==
  ASSUME Init
  PROVE  TypeOK /\ CallbacksInv /\ AnswersMatchFlow
  <1>1. NoTxn \in Txn /\ ~NoTxn.new
    BY DEF NoTxn, Txn
  <1>2. TypeOK
    BY <1>1 DEF Init, TypeOK, Steps, Accepted, Identified
  <1>3. \A r \in Requests : Knows(r)
    BY DEF Init, Knows, Accepted, Identified, HasUser
  <1>4. CallbacksInv
    BY <1>3 DEF Init, CallbacksInv, Apart, Accepted, HasUser
  <1> QED BY <1>2, <1>4 DEF Init, AnswersMatchFlow

-----------------------------------------------------------------------------
(* The theorems. *)

\* What every callback knows of its flow and its user stays so until it ends: steps of
\* others neither reopen its state nor take the address it inserts.
THEOREM OAuthInvariant == Spec => [](TypeOK /\ CallbacksInv)
  <1>1. Init => TypeOK /\ CallbacksInv
    BY Initially
  <1>2. TypeOK /\ CallbacksInv /\ [Next]_vars => (TypeOK /\ CallbacksInv)'
    BY NextStep
  <1> QED BY <1>1, <1>2, PTL DEF Spec

\* Every variable has its type, and a callback past the state check has a flow, past the
\* provider a subject.
THEOREM OAuthTypeOK == Spec => []TypeOK
  BY OAuthInvariant, PTL

\* consume admits one callback per state, however many arrive.
THEOREM StateTheorem == Spec => []StateAdmitsOneCallback
  <1>1. CallbacksInv => StateAdmitsOneCallback
    BY DEF CallbacksInv, StateAdmitsOneCallback, Knows, Apart
  <1> QED BY <1>1, OAuthInvariant, PTL

\* Tokens go to whoever consented in the flow that the callback's state names.
THEOREM AnswersTheorem == Spec => []AnswersMatchFlow
  <1>1. Init => AnswersMatchFlow
    BY Initially
  <1>2. TypeOK /\ CallbacksInv /\ AnswersMatchFlow /\ [Next]_vars => AnswersMatchFlow'
    BY NextStep, AnswersKept
  <1> QED BY <1>1, <1>2, OAuthInvariant, PTL DEF Spec

\* Callbacks do not insert a second user for an address.
THEOREM InsertTheorem == Spec => []OneInsertPerAddress
  <1>1. CallbacksInv => OneInsertPerAddress
    BY DEF CallbacksInv, OneInsertPerAddress, Knows, Apart, HasUser
  <1> QED BY <1>1, OAuthInvariant, PTL

-----------------------------------------------------------------------------
(* OAuth implements Logins. *)

Waiting == {f \in Flows : Pending(f)}
Registered == {e \in Emails : Exists(e)}

LEMMA Lapses ==
  ASSUME UNCHANGED <<provider, code, slug, answers>>, Waiting' \subseteq Waiting
  PROVE  [Promise!Next]_(Promise!vars)
  BY DEF Promise!Next, Promise!Lapse, Promise!vars, Waiting, Exists

\* Verification, memberships and stuttering do not show.
LEMMA AccountRefines ==
  ASSUME TypeOK, NEW e \in Emails, Verify(e) \/ Join(e) \/ \E s \in Slugs : Register(e, s)
  PROVE  [Promise!Next]_(Promise!vars)
  <1>1. UNCHANGED <<state, provider, code, pc, txn, answers>>
    BY DEF Verify, Join, Register, flows
  <1>2. Waiting' = Waiting
    BY <1>1 DEF Waiting, Pending, Accepted
  <1>3. CASE Verify(e) \/ Join(e)
    <2>1. slug' = slug
      BY <1>3 DEF Verify, Join
    <2> QED BY <1>1, <1>2, <2>1, Lapses
  <1>4. ASSUME NEW s \in Slugs, Register(e, s)
        PROVE  [Promise!Next]_(Promise!vars)
    <2>1. ~Exists(e) /\ slug' = [slug EXCEPT ![e] = s] /\ s # None
      BY <1>4, RowNames DEF Register
    <2>2. e \notin Registered /\ Registered' = Registered \cup {e}
      BY <2>1 DEF Registered, Exists, TypeOK
    <2>3. Promise!SignUp(e)
      BY <1>1, <1>2, <2>2 DEF Promise!SignUp, Waiting, Registered
    <2> QED BY <2>3 DEF Promise!Next
  <1> QED BY <1>3, <1>4

LEMMA FlowRefines ==
  ASSUME TypeOK, CallbacksInv, NEW f \in Flows,
         \/ \E p \in Providers : Authorize(f, p)
         \/ ExpireState(f)
         \/ \E s \in Subjects : Consent(f, s)
  PROVE  [Promise!Next]_(Promise!vars)
  <1>1. /\ UNCHANGED <<slug, pc, txn, answers>> /\ Registered' = Registered
        /\ \A g \in Flows \ {f} : state'[g] = state[g]
    BY DEF Authorize, Store, ExpireState, Consent, accounts, TypeOK, Registered, Exists
  <1>2. /\ \A g \in Flows \ {f} : g \in Waiting' <=> g \in Waiting
        /\ state'[f] = state[f] => Waiting' = Waiting
    BY <1>1 DEF Waiting, Pending, Accepted
  <1>3. ASSUME NEW p \in Providers, Authorize(f, p)
        PROVE  [Promise!Next]_(Promise!vars)
    <2>1. /\ provider[f] = None /\ provider' = [provider EXCEPT ![f] = p]
          /\ UNCHANGED code /\ state[f] = "absent"
      BY <1>3 DEF Authorize, CallbacksInv
    <2>2. f \notin Waiting
      BY <2>1, Known DEF Waiting, Pending, Knows
    <2>3. Waiting' \in {Waiting, Waiting \cup {f}}
      BY <1>2, <2>2 DEF Waiting
    <2>4. Promise!Begin(f, p)
      BY <1>1, <2>1, <2>3 DEF Promise!Begin, Waiting, Registered
    <2> QED BY <2>4 DEF Promise!Next
  <1>4. CASE ExpireState(f)
    <2>1. UNCHANGED <<provider, code>> /\ state[f] = "stored"
      BY <1>4 DEF ExpireState
    <2>2. Waiting' \subseteq Waiting
      BY <1>2, <2>1 DEF Waiting, Pending
    <2> QED BY <1>1, <2>1, <2>2, Lapses
  <1>5. ASSUME NEW s \in Subjects, Consent(f, s)
        PROVE  [Promise!Next]_(Promise!vars)
    <2>1. /\ code[f] = None /\ provider[f] = subject_provider[s]
          /\ code' = [code EXCEPT ![f] = s] /\ UNCHANGED <<provider, state>>
      BY <1>5 DEF Consent
    <2>2. Promise!Consent(f, s)
      BY <1>1, <1>2, <2>1 DEF Promise!Consent, Waiting, Registered
    <2> QED BY <2>2 DEF Promise!Next
  <1> QED BY <1>3, <1>4, <1>5

LEMMA AcceptedRefines ==
  ASSUME TypeOK, NEW r \in Requests, NEW p \in Providers, NEW f \in Flows, NEW g \in Flows,
         StateAccepted(r, p, f, g)
  PROVE  [Promise!Next]_(Promise!vars)
  <1>1. /\ pc[r] = "idle" /\ state[f] = "stored" /\ pc'[r] = "exchange" /\ txn'[r].flow = f
        /\ \A q \in Requests \ {r} : pc'[q] = pc[q] /\ txn'[q] = txn[q]
        /\ \A h \in Flows \ {f} : state'[h] = state[h]
        /\ UNCHANGED <<provider, code, slug, answers>>
    BY DEF StateAccepted, Consume, Goto, accounts, TypeOK
  <1>2. \A h \in Flows \ {f} : h \in Waiting' => h \in Waiting
    BY <1>1 DEF Waiting, Pending, Accepted
  <1>3. f \in Waiting
    BY <1>1 DEF Waiting, Pending
  <1>4. Waiting' \subseteq Waiting
    BY <1>2, <1>3 DEF Waiting
  <1> QED BY <1>1, <1>4, Lapses

\* A callback on its way keeps its flow, or gives it up.
LEMMA CallbackRefines ==
  ASSUME NEW r \in Requests, UNCHANGED <<state, provider, code, slug, answers>>,
         \A q \in Requests \ {r} : pc'[q] = pc[q] /\ txn'[q] = txn[q],
         Accepted(r)' => Accepted(r) /\ txn'[r].flow = txn[r].flow
  PROVE  [Promise!Next]_(Promise!vars)
  <1>1. \A q \in Requests : Accepted(q)' => Accepted(q) /\ txn'[q].flow = txn[q].flow
    BY DEF Accepted
  <1>2. Waiting' \subseteq Waiting
    BY <1>1 DEF Waiting, Pending
  <1> QED BY <1>2, Lapses

LEMMA StatementRefines ==
  ASSUME TypeOK, NEW r \in Requests,
         \/ Exchange(r) \/ ExchangeFails(r) \/ FindUser(r) \/ NoUser(r)
         \/ InsertUser(r) \/ InsertOrg(r) \/ Mint(r)
         \/ IntegrityError(r) \/ Abort(r) \/ Fail(r)
  PROVE  [Promise!Next]_(Promise!vars)
  <1>1. /\ UNCHANGED <<state, provider, code, slug, answers>>
        /\ \A q \in Requests \ {r} : pc'[q] = pc[q] /\ txn'[q] = txn[q]
    BY DEF Exchange, ExchangeFails, FindUser, NoUser, InsertUser, InsertOrg, Mint,
           IntegrityError, Abort, Fail, EndSession, Goto, flows, accounts, TypeOK
  <1>2. CASE IntegrityError(r) \/ Abort(r) \/ Fail(r)
    <2>1. pc'[r] = "idle"
      BY <1>2 DEF IntegrityError, Abort, Fail, EndSession, Goto, TypeOK
    <2> QED BY <1>1, <2>1, CallbackRefines DEF Accepted
  <1>3. CASE ~(IntegrityError(r) \/ Abort(r) \/ Fail(r))
    <2>1. Accepted(r) /\ txn'[r].flow = txn[r].flow
      BY <1>3 DEF Exchange, ExchangeFails, FindUser, NoUser, InsertUser, InsertOrg, Mint,
                  Accepted, TypeOK, Txn, flows, accounts
    <2> QED BY <1>1, <2>1, CallbackRefines
  <1> QED BY <1>2, <1>3

\* The answer is the abstract step, unless it is lost: the flow was waiting for it, and the
\* address has an account just where the handler found one.
LEMMA RespondRefines ==
  ASSUME TypeOK, CallbacksInv, NEW r \in Requests, Respond(r)
  PROVE  [Promise!Next]_(Promise!vars)
  <1>1. PICK f, s, new : f = txn[r].flow /\ s = txn[r].subject /\ new = txn[r].new
    OBVIOUS
  <1>2. /\ pc[r] = "respond" /\ pc'[r] = "idle"
        /\ answers' \in {answers, answers \cup {[flow |-> f, subject |-> s, new |-> new]}}
        /\ UNCHANGED <<state, provider, code, slug>>
        /\ \A q \in Requests \ {r} : pc'[q] = pc[q] /\ txn'[q] = txn[q]
    BY <1>1 DEF Respond, EndSession, Goto, flows, accounts, TypeOK
  <1>3. /\ f \in Flows /\ state[f] = "consumed" /\ s \in Subjects /\ code[f] = s
        /\ new \in BOOLEAN /\ (new <=> ~Exists(subject_email[s]))
    BY <1>1, <1>2, Known DEF Knows, Accepted, Identified, HasUser, EmailOf, Txn
  <1>4. Waiting' = Waiting \ {f}
    <2>1. ~Pending(f)'
      <3>1. \A q \in Requests \ {r} : Accepted(q) => txn[q].flow # f
        BY <1>1, <1>2, Known DEF Apart, Accepted
      <3> QED BY <1>2, <1>3, <3>1 DEF Pending, Accepted
    <2>2. \A g \in Flows \ {f} : Pending(g)' <=> Pending(g)
      BY <1>1, <1>2 DEF Pending, Accepted
    <2> QED BY <2>1, <2>2 DEF Waiting
  <1>5. CASE answers' = answers
    BY <1>2, <1>4, <1>5, Lapses
  <1>6. CASE answers' = answers \cup {[flow |-> f, subject |-> s, new |-> new]}
    <2>1. f \in Waiting
      BY <1>1, <1>2, <1>3 DEF Waiting, Pending, Accepted
    <2>2. new = (subject_email[s] \notin Registered) /\ Registered' = Registered
      BY <1>2, <1>3, Accounts DEF Registered, Exists
    <2>3. s # None
      BY <1>3, RowNames
    <2>4. Promise!Answer(f)
      BY <1>2, <1>3, <1>4, <1>6, <2>1, <2>2, <2>3 DEF Promise!Answer, Waiting, Registered
    <2> QED BY <1>3, <2>4 DEF Promise!Next
  <1> QED BY <1>2, <1>5, <1>6

LEMMA InitRefines == Init => Promise!Init
  BY DEF Init, Promise!Init, Pending, Accepted, Exists

LEMMA NextRefines ==
  ASSUME TypeOK, CallbacksInv, [Next]_vars
  PROVE  [Promise!Next]_(Promise!vars)
  <1>1. CASE UNCHANGED vars \/ \E r \in Requests, f \in Flows : StateRefused(r, f)
    <2>1. UNCHANGED <<state, provider, code, slug, pc, txn, answers>>
      BY <1>1 DEF StateRefused, vars, flows, accounts
    <2>2. Waiting' = Waiting
      BY <2>1 DEF Waiting, Pending, Accepted
    <2> QED BY <2>1, <2>2, Lapses
  <1> HIDE DEF Promise!Next, Promise!vars
  <1> QED BY <1>1, AccountRefines, FlowRefines, AcceptedRefines, StatementRefines,
             RespondRefines DEF Next, Progress

\* Whatever the instance, and however callbacks, registrations and the clock interleave,
\* logins take effect only in steps of Logins.
THEOREM OAuthRefinesLogins == Spec => ImplementsLogins
  <1>1. TypeOK /\ CallbacksInv /\ [Next]_vars => [Promise!Next]_(Promise!vars)
    BY NextRefines
  <1> QED BY <1>1, InitRefines, OAuthInvariant, PTL
          DEF Spec, ImplementsLogins, Promise!Spec

=============================================================================
