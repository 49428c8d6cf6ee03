------------------------------ MODULE MCOAuth ------------------------------
(* Instances of OAuth for TLC. *)
EXTENDS OAuth, TLC

CONSTANTS google, microsoft, alice, bob, a, b, s, w

\* Two people of the same display name, one at each provider.
MCprovider == alice :> google @@ bob :> microsoft
MCemail == alice :> a @@ bob :> b
MCslug == alice :> s @@ bob :> s
=============================================================================
