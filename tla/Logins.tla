------------------------------- MODULE Logins -------------------------------
(***************************************************************************)
(* What a login through a provider promises, without states, verifiers,    *)
(* callbacks or transactions: each flow that was begun ends once, in an    *)
(* answer to the subject that consented in it, or in nothing.              *)
(*                                                                         *)
(* A flow whose time is over while a callback of it is being handled is    *)
(* over, here, when that callback ends.                                    *)
(***************************************************************************)
CONSTANTS Flows, Providers, Subjects, subject_provider, subject_email, Emails, None

VARIABLES
  provider,       \* the provider a flow went to
  code,           \* the subject that consented in it
  pending,        \* flows that may still be answered
  registered,     \* addresses that have an account
  answers         \* who was logged in, in which flow, and whether as a new user

vars == <<provider, code, pending, registered, answers>>

-----------------------------------------------------------------------------
Init ==
  /\ provider = [f \in Flows |-> None]
  /\ code = [f \in Flows |-> None]
  /\ pending = {} /\ registered = {} /\ answers = {}

\* authorization_url: without Redis the flow ends as it begins.
Begin(f, p) ==
  /\ provider[f] = None
  /\ provider' = [provider EXCEPT ![f] = p]
  /\ pending' \in {pending, pending \cup {f}}
  /\ UNCHANGED <<code, registered, answers>>

Consent(f, s) ==
  /\ code[f] = None /\ provider[f] = subject_provider[s]
  /\ code' = [code EXCEPT ![f] = s]
  /\ UNCHANGED <<provider, pending, registered, answers>>

SignUp(e) ==
  /\ e \notin registered
  /\ registered' = registered \cup {e}
  /\ UNCHANGED <<provider, code, pending, answers>>

\* callback: a subject whose address has an account is that user, another is new.
Answer(f) ==
  LET who == code[f] IN
  /\ f \in pending /\ who # None
  /\ answers' = answers \cup
       {[flow |-> f, subject |-> who, new |-> subject_email[who] \notin registered]}
  /\ pending' = pending \ {f}
  /\ UNCHANGED <<provider, code, registered>>

\* Flows expire, callbacks fail, answers are lost.
Lapse ==
  /\ pending' \subseteq pending
  /\ UNCHANGED <<provider, code, registered, answers>>

Next ==
  \/ Lapse
  \/ \E e \in Emails : SignUp(e)
  \/ \E f \in Flows :
       \/ Answer(f)
       \/ \E p \in Providers : Begin(f, p)
       \/ \E s \in Subjects : Consent(f, s)

Spec == Init /\ [][Next]_vars

=============================================================================
