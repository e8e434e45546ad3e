----------------------------- MODULE MCCodeMsg -----------------------------
(* Small instances of CodeMsg for TLC. *)
EXTENDS CodeMsg, TLC

CONSTANTS ann, bob

\* The oldest task has no logins, the next is unreadable; the first that calls
\* has a repeated and a blank login.
Files == 1 :> <<Blank>> @@ 2 :> <<ann>> @@ 3 :> <<ann, Blank, bob, ann>> @@ 4 :> <<bob>>
=============================================================================
