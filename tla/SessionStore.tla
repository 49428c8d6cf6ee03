---------------------------- MODULE SessionStore ----------------------------
(***************************************************************************)
(* What login, refresh, logout, password reset and password change promise *)
(* their users, without requests, statements, locks or transactions: every *)
(* step is a change that clients can see.                                  *)
(*                                                                         *)
(* A password change takes time.  The promise is that whoever was logged   *)
(* in when it began is logged out when it ends; a session opened in        *)
(* between may or may not survive.                                         *)
(***************************************************************************)
CONSTANTS Users, Passwords, RefreshIds, ResetIds, None

VARIABLES
  password,
  refresh_state, refresh_user,   \* the sessions
  reset_state, reset_user,       \* the password-reset tokens
  delivered,                     \* sessions whose token a client received
  mailed,                        \* reset tokens that reached a mailbox
  changing,                      \* users whose password is being changed
  young                          \* their sessions opened since that began

sessions == <<refresh_state, refresh_user>>
resets == <<reset_state, reset_user>>
change == <<changing, young>>
vars == <<password, sessions, resets, delivered, mailed, change>>

-----------------------------------------------------------------------------
Init ==
  /\ password \in [Users -> Passwords]
  /\ refresh_state = [s \in RefreshIds |-> "absent"]
  /\ refresh_user = [s \in RefreshIds |-> None]
  /\ reset_state = [v \in ResetIds |-> "absent"]
  /\ reset_user = [v \in ResetIds |-> None]
  /\ delivered = {} /\ mailed = {} /\ changing = {} /\ young = {}

SessionsOf(u) == {s \in RefreshIds : refresh_state[s] # "absent" /\ refresh_user[s] = u}

\* Session s of u opens, and those in `closed` close.
Open(u, s, closed) ==
  /\ refresh_state[s] = "absent" /\ closed \subseteq SessionsOf(u)
  /\ refresh_state' = [x \in RefreshIds |-> IF x = s THEN "live"
                                            ELSE IF x \in closed THEN "revoked"
                                            ELSE refresh_state[x]]
  /\ refresh_user' = [refresh_user EXCEPT ![s] = u]
  /\ young' = IF u \in changing THEN young \cup {s} ELSE young
  /\ UNCHANGED <<password, resets, delivered, mailed, changing>>

\* login
Login(u, s) == Open(u, s, {})

\* refresh: the session that is presented closes with the opening of its successor.
Refresh(u, s, presented) == presented \in delivered /\ Open(u, s, {presented})

\* logout
Close(s) ==
  /\ s \in delivered /\ refresh_state[s] # "absent"
  /\ refresh_state' = [refresh_state EXCEPT ![s] = "revoked"]
  /\ UNCHANGED <<password, refresh_user, resets, delivered, mailed, change>>

\* The answer to login or refresh arrives.
Deliver(s) ==
  /\ refresh_state[s] # "absent"
  /\ delivered' = delivered \cup {s}
  /\ UNCHANGED <<password, sessions, resets, mailed, change>>

\* request_password_reset creates a token, and mails it.
Issue(u, v) ==
  /\ reset_state[v] = "absent"
  /\ reset_state' = [reset_state EXCEPT ![v] = "unused"]
  /\ reset_user' = [reset_user EXCEPT ![v] = u]
  /\ UNCHANGED <<password, sessions, delivered, mailed, change>>

Mail(v) ==
  /\ reset_state[v] # "absent"
  /\ mailed' = mailed \cup {v}
  /\ UNCHANGED <<password, sessions, resets, delivered, change>>

-----------------------------------------------------------------------------
(* A change of u's password: one at a time. *)

BeginChange(u) ==
  /\ u \notin changing
  /\ changing' = changing \cup {u}
  /\ young' = young \ SessionsOf(u)
  /\ UNCHANGED <<password, sessions, resets, delivered, mailed>>

OverFor(u) ==
  /\ u \in changing
  /\ changing' = changing \ {u}
  /\ young' = young \ SessionsOf(u)

\* It fails, and nothing has happened.
CancelChange(u) ==
  /\ OverFor(u)
  /\ UNCHANGED <<password, sessions, resets, delivered, mailed>>

\* It succeeds: password, sessions, and the reset token that allowed it, all at once.
\* change_password needs no token; spent is empty.
EndChange(u, p, spent) ==
  /\ OverFor(u)
  /\ spent \subseteq {v \in mailed : reset_user[v] = u}
  /\ password' = [password EXCEPT ![u] = p]
  /\ reset_state' = [v \in ResetIds |-> IF v \in spent THEN "used" ELSE reset_state[v]]
  /\ \E kept \in SUBSET young :
       refresh_state' = [s \in RefreshIds |-> IF s \in SessionsOf(u) \ kept THEN "revoked"
                                              ELSE refresh_state[s]]
  /\ UNCHANGED <<refresh_user, reset_user, delivered, mailed>>

-----------------------------------------------------------------------------
Next ==
  \/ \E u \in Users :
       \/ \E s \in RefreshIds : Login(u, s) \/ \E x \in RefreshIds : Refresh(u, s, x)
       \/ BeginChange(u) \/ CancelChange(u)
       \/ \E p \in Passwords :
            EndChange(u, p, {}) \/ \E v \in ResetIds : EndChange(u, p, {v})
       \/ \E v \in ResetIds : Issue(u, v)
  \/ \E s \in RefreshIds : Close(s) \/ Deliver(s)
  \/ \E v \in ResetIds : Mail(v)

Spec == Init /\ [][Next]_vars

=============================================================================
