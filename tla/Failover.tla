------------------------------ MODULE Failover ------------------------------
(***************************************************************************)
(* What the gateway promises about one request, without saying how: a      *)
(* request is offered to an ordered menu of candidates (a credential of a  *)
(* target each), one at a time; it moves on exactly from a candidate that  *)
(* refused it, and ends unheard only when nobody is left or a failure      *)
(* forbids asking anybody else; the first candidate to answer is the only  *)
(* one the client ever hears; after that nobody else is asked.             *)
(***************************************************************************)
EXTENDS Integers

CONSTANTS
    Requests,
    Menus,      \* the candidate lists: sets of pairs <<target, slot>>
    Nobody      \* no candidate

VARIABLES
    stage,      \* "new", "trying", "answering" or "over"
    left,       \* candidates not given up yet, the current one included
    failure,    \* how the current one failed: "none", "refused" or "final"
    source      \* the candidate the client hears, or Nobody

vars == <<stage, left, failure, source>>

\* Candidates are tried by target, then by slot.
Before(a, b) == a[1] < b[1] \/ (a[1] = b[1] /\ a[2] < b[2])
IsFirst(c, S) == c \in S /\ \A d \in S \ {c} : Before(c, d)

Accept(r) ==
    /\ stage[r] = "new"
    /\ stage' = [stage EXCEPT ![r] = "trying"]
    /\ \E m \in Menus : left' = [left EXCEPT ![r] = m]
    /\ UNCHANGED <<failure, source>>

\* The current candidate refuses the request, or cannot be asked; or it fails in
\* a way no other candidate could mend (or the client has left).
Fail(r) ==
    /\ stage[r] = "trying"
    /\ failure[r] = "none"
    /\ left[r] # {}
    /\ \E f \in {"refused", "final"} : failure' = [failure EXCEPT ![r] = f]
    /\ UNCHANGED <<stage, left, source>>

\* The next candidate is tried after a refusal, and after nothing else.
MoveOn(r) ==
    /\ stage[r] = "trying"
    /\ failure[r] = "refused"
    /\ failure' = [failure EXCEPT ![r] = "none"]
    /\ \E c \in left[r] :
        /\ IsFirst(c, left[r])
        /\ left' = [left EXCEPT ![r] = @ \ {c}]
    /\ UNCHANGED <<stage, source>>

\* The current candidate begins to answer, or answers as a whole.
Answer(r) ==
    /\ stage[r] = "trying"
    /\ failure[r] = "none"
    /\ \E c \in left[r] :
        /\ IsFirst(c, left[r])
        /\ source' = [source EXCEPT ![r] = c]
    /\ \E s \in {"answering", "over"} : stage' = [stage EXCEPT ![r] = s]
    /\ UNCHANGED <<left, failure>>

\* The answer ends or is cut short; or there is none, and nobody to ask.
End(r) ==
    /\ \/ stage[r] = "answering"
       \/ stage[r] = "trying" /\ (failure[r] = "final" \/ left[r] = {})
    /\ stage' = [stage EXCEPT ![r] = "over"]
    /\ failure' = [failure EXCEPT ![r] = "none"]
    /\ UNCHANGED <<left, source>>

\* A crash ends every request under way at once.
EndAll ==
    /\ stage' = [r \in Requests |-> IF stage[r] = "new" THEN "new" ELSE "over"]
    /\ failure' = [r \in Requests |-> "none"]
    /\ UNCHANGED <<left, source>>

Init ==
    /\ stage = [r \in Requests |-> "new"]
    /\ left = [r \in Requests |-> {}]
    /\ failure = [r \in Requests |-> "none"]
    /\ source = [r \in Requests |-> Nobody]

Next ==
    \/ \E r \in Requests : Accept(r) \/ Fail(r) \/ MoveOn(r) \/ Answer(r) \/ End(r)
    \/ EndAll

Spec == Init /\ [][Next]_vars

\* The promise in one formula: once a candidate is heard, the request is never
\* offered to another one, and what was heard is not changed.
HeardOnce ==
    [][\A r \in Requests : source[r] # Nobody
          => source'[r] = source[r] /\ left'[r] = left[r]]_vars
=============================================================================
