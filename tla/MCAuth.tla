------------------------------- MODULE MCAuth -------------------------------
(* Three requests of one source and two slots: overlapping setups, logins  *)
(* that a change of the password overtakes, lockouts and a third request   *)
(* that waits for a slot all happen within four calls.                     *)
EXTENDS Auth
=============================================================================
