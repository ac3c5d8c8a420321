----------------------------- MODULE MCGateway -----------------------------
(***************************************************************************)
(* Instances of Gateway for TLC. The plans have every shape failover can     *)
(* take: a second key, a second target, two models of one provider sharing   *)
(* its keys, a key that does not decrypt.                                    *)
(***************************************************************************)
EXTENDS GatewayFailover, TLC

CONSTANTS k1, k2, k3

\* Two models of one provider with keys k1, k2; only the first has a rule.
SharedKeys == <<[keys |-> <<k1, k2>>, rules |-> "terse"],
                [keys |-> <<k1, k2>>, rules |-> None]>>
\* A direct call to a provider whose first key does not decrypt.
SealedFirst == <<[keys |-> <<k3, k1>>, rules |-> None]>>

DeepPlans == {SharedKeys, SealedFirst}
=============================================================================
