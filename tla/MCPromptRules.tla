--------------------------- MODULE MCPromptRules ---------------------------
(***************************************************************************)
(* Instances of PromptRules for TLC: a group g and the models m (of provider *)
(* p) and n (of q); at the start the first rule claims g and the second m.   *)
(***************************************************************************)
EXTENDS PromptRules, TLC

CONSTANTS g, m, n, p, q

Owner == m :> p
Owners == (m :> p) @@ (n :> q)
Claims == {<<1, g>>, <<2, m>>}
Pair == 1..2
JustG == {<<1, g>>}
One == 1..1
Three == 1..3

OneName == <<"x", "x", "x">>
TwoNames == <<"x", "x">>
=============================================================================
