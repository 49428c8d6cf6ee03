-------------------------- MODULE MCEmailOwnership --------------------------
(* Instances of EmailOwnership for TLC. *)
EXTENDS EmailOwnership, Integers, TLC

CONSTANTS a, A, b, c   \* a and A are two spellings of one address

MCnormalize_email == [e \in Emails |-> IF e = A THEN a ELSE e]

\* Bound: how many unused tokens are past expires_at at once.
MaxExpired == 1
FewExpired == Cardinality(expired) <= MaxExpired

\* Nothing tells two ids, two request slots or two slugs apart.
Interchangeable ==
  Permutations(Users) \cup Permutations(TokenIds) \cup Permutations(Requests)
    \cup Permutations(Slugs)
=============================================================================
