-------------------------------- MODULE Auth --------------------------------
(***************************************************************************)
(* The administrator's account: first-run setup, login, sessions and the   *)
(* change of the password (httpapi/auth.go, httpapi/settings.go,           *)
(* service/auth.go, service/admin.go, cmd/pogu/serve.go).                  *)
(*                                                                         *)
(* Each request is a goroutine.  A step is one critical section of setupMu *)
(* or loginMu, one operation on the channel loginSlots, one SQL statement  *)
(* or one transaction.  Passwords are numbers, 0 one of less than 12       *)
(* characters.  Time is abstract: a lockout or a session may run out at    *)
(* any moment.                                                             *)
(***************************************************************************)
EXTENDS Naturals, FiniteSets

CONSTANTS
    Requests,    \* goroutines serving the administration API
    Sources,     \* remote addresses
    Passwords,   \* passwords long enough to be accepted
    Slots,       \* capacity of loginSlots (4 in api.go)
    Threshold,   \* failures before a source is locked out (5)
    Cap,         \* where a source's failures stop counting (12)
    MaxCalls     \* bound: requests ever started

ASSUME AuthAssumption ==
    /\ Sources # {} /\ Passwords \subseteq Nat \ {0}
    /\ Slots \in Nat \ {0} /\ MaxCalls \in Nat
    /\ Threshold \in Nat /\ Cap \in Nat /\ Threshold <= Cap

VARIABLES
    admin,     \* the administrator's password, 0 when there is none
    setup,     \* setupActive
    slots,     \* requests holding a place in loginSlots
    attempts,  \* loginAttempts: source -> failures and whether it is locked out
    sessions,  \* the sessions table
    req,       \* what each request is doing
    calls,     \* requests started (bound)
    changes,   \* ghost: password changes committed; a session is stamped with
               \* the changes before the check of the password it rests on
    claims     \* ghost: times an administrator was created

vars == <<admin, setup, slots, attempts, sessions, req, calls, changes, claims>>

Short == 0
Idle == [op |-> "none", at |-> "done", src |-> CHOOSE s \in Sources : TRUE,
         given |-> Short, next |-> Short, token |-> TRUE, since |-> 0]
Clean == [count |-> 0, locked |-> FALSE]

Goto(r, op, at) == req[r].op = op /\ req[r].at = at
Move(r, at) == req' = [req EXCEPT ![r].at = at]

\* The handler returns; its deferred receive gives the slot back
Holding == {"verify", "token", "claim", "failed", "open", "clear", "session"}

\* Mutation: an early return before the deferred receive is set up
SlotsAfterLeak(r) == IF req[r].at \in Holding \ {"token"} THEN slots - 1 ELSE slots

SlotsAfter(r) == IF req[r].at \in Holding THEN slots - 1 ELSE slots
Leave(r) == req' = [req EXCEPT ![r] = Idle] /\ slots' = SlotsAfter(r)

Rest == <<admin, setup, attempts, sessions, calls, changes, claims>>

Start(r, fields) ==
    /\ req[r].at = "done" /\ calls < MaxCalls
    /\ calls' = calls + 1
    /\ req' = [req EXCEPT ![r] = fields]
    /\ UNCHANGED <<admin, setup, slots, attempts, sessions, changes, claims>>

-----------------------------------------------------------------------------
(* login and completeSetup: throttle, slot, then the slow password hash. *)

CallLogin(r) ==
    \E s \in Sources, p \in Passwords :
        Start(r, [Idle EXCEPT !.op = "login", !.at = "gate", !.src = s, !.given = p])

CallSetup(r) ==
    \E s \in Sources, p \in Passwords \cup {Short}, t \in BOOLEAN :
        Start(r, [Idle EXCEPT !.op = "setup", !.at = "throttle", !.src = s,
                              !.given = p, !.token = t])

\* The middleware, and login once more, refuse while setup is required
Gate(r) ==
    /\ Goto(r, "login", "gate")
    /\ IF setup THEN Leave(r) ELSE Move(r, "throttle") /\ UNCHANGED slots
    /\ UNCHANGED Rest

AllowLogin(r) ==
    /\ req[r].at = "throttle"
    /\ IF attempts[req[r].src].locked
       THEN Leave(r) ELSE Move(r, "slot") /\ UNCHANGED slots
    /\ UNCHANGED Rest

TakeSlot(r) ==
    /\ req[r].at = "slot" /\ slots < Slots
    /\ slots' = slots + 1
    /\ Move(r, IF req[r].op = "login" THEN "verify" ELSE "token")
    /\ UNCHANGED Rest

\* <-r.Context().Done(): the client left while waiting for a slot
GiveUp(r) == req[r].at = "slot" /\ Leave(r) /\ UNCHANGED Rest

\* CheckAdminPassword: false as well when there is no administrator
Matches(p) == admin # 0 /\ p = admin

CheckLogin(r) ==
    /\ Goto(r, "login", "verify")
    /\ IF Matches(req[r].given)
       THEN req' = [req EXCEPT ![r].at = "clear", ![r].since = changes]
       ELSE Move(r, "failed")
    /\ UNCHANGED slots /\ UNCHANGED Rest

Failed(a) ==
    LET n == a.count + 1
    IN  [count |-> IF n > Cap THEN Cap ELSE n, locked |-> a.locked \/ n >= Threshold]

\* With 256 entries in the table, of whatever addresses, those of a lockout
\* that is over are forgotten first
Swept == [s \in Sources |-> IF attempts[s].count >= Threshold /\ ~attempts[s].locked
                            THEN Clean ELSE attempts[s]]

RecordLoginFailure(r) ==
    /\ req[r].at = "failed"
    /\ \E table \in {attempts, Swept} :
           attempts' = [table EXCEPT ![req[r].src] = Failed(@)]
    /\ Leave(r)
    /\ UNCHANGED <<admin, setup, sessions, calls, changes, claims>>

ClearLoginFailures(r) ==
    /\ req[r].at = "clear"
    /\ attempts' = [attempts EXCEPT ![req[r].src] = Clean]
    /\ Move(r, "session")
    /\ UNCHANGED <<admin, setup, slots, sessions, calls, changes, claims>>

\* The token of a new session is like no other's
FreshID(table) == CHOOSE i \in 0..Cardinality(table) : \A s \in table : s.id # i

\* CreateSession sweeps expired sessions and inserts a new one (two
\* statements; what the sweep removes no request could use any more)
CreateSession(r) ==
    /\ req[r].at = "session"
    /\ LET kept == {s \in sessions : ~s.expired}
       IN  sessions' = kept \cup {[id |-> FreshID(kept), expired |-> FALSE,
                                   since |-> req[r].since]}
    /\ Leave(r)
    /\ UNCHANGED <<admin, setup, attempts, calls, changes, claims>>

\* completeSetup under setupMu: still active, and the right token?
CheckToken(r) ==
    /\ Goto(r, "setup", "token")
    /\ IF ~setup THEN Leave(r)
       ELSE /\ Move(r, IF req[r].token THEN "claim" ELSE "failed")
            /\ UNCHANGED slots
    /\ UNCHANGED Rest

\* Mutation: the row is replaced, as SetAdminPassword does
ClaimableAgain == TRUE

\* INSERT INTO admin(id...) VALUES(1...): the row may be there already
Claimable == admin = 0

\* InitializeAdmin; a password that is too short changes nothing
Claim(r) ==
    /\ Goto(r, "setup", "claim")
    /\ IF req[r].given = Short
       THEN Leave(r) /\ UNCHANGED <<admin, claims>>
       ELSE IF Claimable
       THEN /\ admin' = req[r].given /\ claims' = claims + 1
            /\ req' = [req EXCEPT ![r].at = "open", ![r].since = changes]
            /\ UNCHANGED slots
       ELSE /\ req' = [req EXCEPT ![r].at = "open", ![r].op = "late"]
            /\ UNCHANGED <<admin, claims, slots>>
    /\ UNCHANGED <<setup, attempts, sessions, calls, changes>>

\* Setup mode ends, for the winner and for whoever finds the account taken
EndSetup(r) ==
    /\ req[r].at = "open"
    /\ setup' = FALSE
    /\ IF req[r].op = "late" THEN Leave(r) ELSE Move(r, "clear") /\ UNCHANGED slots
    /\ UNCHANGED <<admin, attempts, sessions, calls, changes, claims>>

-----------------------------------------------------------------------------
(* Requests that carry a session, and the passing of time. *)

\* changePassword behind the middleware's validSession
CallChange(r) ==
    \E s \in sessions, p \in Passwords, n \in Passwords \cup {Short} :
        /\ ~setup /\ ~s.expired
        /\ Start(r, [Idle EXCEPT !.op = "change", !.at = "current",
                                 !.given = p, !.next = n])

CheckCurrent(r) ==
    /\ Goto(r, "change", "current")
    /\ IF Matches(req[r].given) /\ req[r].next # Short
       THEN Move(r, "change") /\ UNCHANGED slots ELSE Leave(r)
    /\ UNCHANGED Rest

\* Mutation: the sessions are left to expire
RemainingAll == sessions

\* DELETE FROM sessions, in the transaction that stores the hash
Remaining == {}

SetAdminPassword(r) ==
    /\ Goto(r, "change", "change")
    /\ admin' = req[r].next /\ changes' = changes + 1
    /\ sessions' = Remaining
    /\ Leave(r)
    /\ UNCHANGED <<setup, attempts, calls, claims>>

\* logout, or a session that is found expired
DeleteSession ==
    /\ \E s \in sessions : sessions' = sessions \ {s}
    /\ UNCHANGED <<admin, setup, slots, attempts, req, calls, changes, claims>>

Expire ==
    /\ \E s \in sessions : /\ ~s.expired
                           /\ sessions' = (sessions \ {s})
                                          \cup {[s EXCEPT !.expired = TRUE]}
    /\ UNCHANGED <<admin, setup, slots, attempts, req, calls, changes, claims>>

\* time.Now() passes BlockedUntil: the failures stay counted
Unlock(s) ==
    /\ attempts[s].locked
    /\ attempts' = [attempts EXCEPT ![s].locked = FALSE]
    /\ UNCHANGED <<admin, setup, slots, sessions, req, calls, changes, claims>>

\* A statement fails or its context is cancelled: the handler answers 500
StatementFails(r) ==
    /\ req[r].at \in {"verify", "claim", "session", "current", "change"}
    /\ Leave(r) /\ UNCHANGED Rest

\* `pogu init` by another process, on the same database
InitCommand ==
    /\ calls < MaxCalls /\ admin = 0
    /\ calls' = calls + 1
    /\ admin' \in Passwords /\ claims' = claims + 1
    /\ UNCHANGED <<setup, slots, attempts, sessions, req, changes>>

\* The daemon dies and openRuntime starts it again: the database is all that
\* is left, and whether it holds an administrator decides about setup mode
Restart ==
    /\ calls < MaxCalls
    /\ calls' = calls + 1
    /\ req' = [r \in Requests |-> Idle]
    /\ slots' = 0
    /\ attempts' = [s \in Sources |-> Clean]
    /\ setup' = (admin = 0)
    /\ UNCHANGED <<admin, sessions, changes, claims>>

-----------------------------------------------------------------------------
Init ==
    /\ admin \in Passwords \cup {0}
    /\ setup = (admin = 0)
    /\ slots = 0
    /\ attempts = [s \in Sources |-> Clean]
    /\ sessions = {}
    /\ req = [r \in Requests |-> Idle]
    /\ calls = 0 /\ changes = 0
    /\ claims = IF admin = 0 THEN 0 ELSE 1

\* What a request does by itself once it has started
Go(r) == \/ Gate(r) \/ AllowLogin(r) \/ CheckLogin(r) \/ RecordLoginFailure(r)
         \/ ClearLoginFailures(r) \/ CreateSession(r) \/ CheckToken(r) \/ Claim(r)
         \/ EndSetup(r) \/ CheckCurrent(r) \/ SetAdminPassword(r)

Next == \/ \E r \in Requests : \/ CallLogin(r) \/ CallSetup(r) \/ CallChange(r)
                               \/ Go(r) \/ TakeSlot(r) \/ GiveUp(r) \/ StatementFails(r)
        \/ DeleteSession \/ Expire \/ InitCommand \/ Restart
        \/ \E s \in Sources : Unlock(s)

\* Goroutines run; a channel serves the goroutines waiting on it in turn
Fairness == \A r \in Requests : WF_vars(Go(r)) /\ SF_vars(TakeSlot(r))

Spec == Init /\ [][Next]_vars /\ Fairness

-----------------------------------------------------------------------------
(* Properties. *)

\* Of all setup requests, overlapping ones included, and of `pogu init` next
\* to a daemon in setup mode, only one ever creates the administrator, across
\* restarts too, and setup mode never ends before there is one
\* (auth.go:160-179, admin.go:51, serve.go:112).
SetupHappensOnce ==
    /\ claims <= 1
    /\ ~setup => admin # 0

\* A login that checked the former password may insert its session after the
\* change that deletes all others (auth.go:93-104, admin.go:24-35), but never
\* more sessions outlive a change than logins were past their check when it
\* committed, and those all held a place in loginSlots (auth.go:87-91).
FewSessionsOutliveAChange ==
    Cardinality({s \in sessions : s.since < changes}) <= Slots

\* Every login, setup or change request is answered: no path keeps its place
\* in loginSlots (auth.go:87-91), so nobody waits for ever behind the others.
\* (Requests are bounded: once all have been answered, none is in progress.)
EveryoneIsAnswered == <>[](\A r \in Requests : req[r].at = "done")
=============================================================================
