-------------------------- MODULE GatewayFailover --------------------------
(***************************************************************************)
(* The gateway's handler implements the promise of module Failover.        *)
(***************************************************************************)
EXTENDS Gateway

\* The candidates of a plan, as <<target, slot>> pairs.
Positions(p) == UNION {{<<t, k>> : k \in 1..Len(p[t].keys)} : t \in 1..Len(p)}

\* A client has heard an upstream attempt (its own error body is source 0).
Heard(r) == \E n \in client[r].from : n # 0

Stage(r) ==
    IF h[r].pc = "idle" THEN "new"
    ELSE IF client[r].whole \/ h[r].pc \in Settled \cup {"finishing", "publishing", "respond"}
    THEN "over"
    ELSE IF Heard(r) THEN "answering" ELSE "trying"

\* The candidates at or after the handler's loop indices.
Left(r) == {c \in Positions(h[r].plan) :
              c[1] > h[r].ti \/ (c[1] = h[r].ti /\ c[2] >= h[r].ki)}

Source(r) == IF Heard(r) THEN <<h[r].ti, h[r].ki>> ELSE None

\* What the last error of an unheard request allows: a credential that could not
\* be used, or a credential status to a caller who is there, is a refusal.
Failure(r) ==
    LET res == h[r].res IN
    IF h[r].pc # "closing" \/ h[r].committed THEN "none"
    ELSE IF \/ res.kind = "local"
            \/ res.kind = "error" /\ ~res.gone /\ res.status \in {401, 402, 403, 429}
    THEN "refused" ELSE "final"

Promise == INSTANCE Failover WITH
    Menus <- {Positions(p) : p \in Plans},
    Nobody <- None,
    stage <- [r \in Requests |-> Stage(r)],
    left <- [r \in Requests |-> Left(r)],
    failure <- [r \in Requests |-> Failure(r)],
    source <- [r \in Requests |-> Source(r)]

\* Every behaviour of the gateway, with hang-ups, deleted keys, failed writes
\* and crashes, is one the promise allows.
PromiseKept == Promise!Spec
=============================================================================
