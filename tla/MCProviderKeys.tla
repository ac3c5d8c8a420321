--------------------------- MODULE MCProviderKeys ---------------------------
(* A pool of up to two keys, two requests in flight, five calls.           *)
EXTENDS ProviderKeys, TLC

\* The requests in flight are alike
AnyCaller == Permutations(Callers)

Line(n, s) == [name |-> n, secret |-> s]

\* A key without a name, a named one, and no key (a provider added without one)
MCLines == {Line(Blank, 3), Line(Other, 2), Line(Blank, 0)}

\* Names mixed with blanks, a repeated secret, a line without a secret
MCBatches == {<<Line(Blank, 2), Line(Blank, 3)>>,
              <<Line(Other, 3), Line(Blank, 4), Line(Blank, 3)>>,
              <<Line(Other, 0), Line(3, 4)>>}
=============================================================================
