--------------------------- MODULE MCAuthSessions ---------------------------
(* Instances of AuthSessions for TLC. *)
EXTENDS AuthSessions, TLC

\* Nothing tells two ids, two request slots or two passwords apart.
Interchangeable ==
  Permutations(Requests) \cup Permutations(RefreshIds) \cup Permutations(ResetIds)
    \cup Permutations(Passwords)

\* Bound: a login names no organization or a foreign one.  Where nobody has two memberships,
\* naming one's own is the same as naming none.
OwnOrgUnnamed == \A r \in Requests : txn[r].org # "own"

\* Bound: how many sessions' tokens were lost on their way to the client.
MaxLost == 1
FewLost ==
  Cardinality({t \in RefreshIds \ delivered :
                 /\ refresh_state[t] # "absent"
                 /\ \A r \in Requests : txn[r].minted # t}) <= MaxLost
=============================================================================
