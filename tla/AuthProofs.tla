----------------------------- MODULE AuthProofs -----------------------------
(***************************************************************************)
(* SetupHappensOnce and FewSessionsOutliveAChange of module Auth, and the  *)
(* count of the login slots the second rests on, for any number of         *)
(* requests, sources and passwords, and any order of their steps, restarts *)
(* and failures.                                                           *)
(***************************************************************************)
EXTENDS Auth, FiniteSetTheorems, TLAPS

Ops == {"none", "login", "setup", "late", "change"}
Places == {"done", "gate", "throttle", "slot", "current", "change"} \cup Holding

Calls == [op : Ops, at : Places, src : Sources, given : Nat, next : Nat,
          token : BOOLEAN, since : Nat]

Sessions == [id : Nat, expired : BOOLEAN, since : Nat]

TypeInv ==
    /\ admin \in Nat /\ setup \in BOOLEAN
    /\ sessions \subseteq Sessions /\ IsFiniteSet(sessions)
    /\ req \in [Requests -> Calls]
    /\ calls \in Nat /\ changes \in Nat /\ claims \in Nat

\* Whoever is about to end setup mode has seen an administrator in the table,
\* a change in progress brings an acceptable password, and there is no
\* administrator that was not counted.
SetupInv ==
    /\ SetupHappensOnce
    /\ admin = 0 => claims = 0
    /\ \A r \in Requests : /\ req[r].at = "open" => admin # 0
                           /\ req[r].at = "change" => req[r].next # Short

IInv == TypeInv /\ SetupInv

-----------------------------------------------------------------------------
(* Requests that come and go *)

LEMMA IdleType == Idle \in Calls
BY AuthAssumption DEF Idle, Calls, Ops, Places, Short

\* A request moves on, or starts, or ends; the account stays.
LEMMA RequestStep ==
    ASSUME IInv, NEW r \in Requests, NEW x \in Calls,
           req' = [req EXCEPT ![r] = x],
           x.at = "open" => admin # 0,
           x.at = "change" => x.next # Short,
           UNCHANGED <<admin, claims, changes, sessions>>, calls' \in Nat,
           setup' = setup \/ (setup' = FALSE /\ admin # 0)
    PROVE  IInv'
<1>1. TypeInv'
  BY DEF IInv, TypeInv
<1>2. SetupInv'
  <2>1. SetupHappensOnce' /\ (admin = 0 => claims = 0)'
    BY DEF IInv, SetupInv, SetupHappensOnce
  <2>2. \A q \in Requests : /\ req'[q].at = "open" => admin' # 0
                            /\ req'[q].at = "change" => req'[q].next # Short
    BY DEF IInv, TypeInv, SetupInv
  <2> QED
    BY <2>1, <2>2 DEF SetupInv
<1> QED
  BY <1>1, <1>2 DEF IInv

LEMMA LeaveStep ==
    ASSUME IInv, NEW r \in Requests, Leave(r), UNCHANGED Rest
    PROVE  IInv'
<1>1. Idle.at # "open" /\ Idle.at # "change"
  BY DEF Idle
<1> QED
  BY <1>1, IdleType, RequestStep DEF Leave, Rest, IInv, TypeInv

LEMMA MoveStep ==
    ASSUME IInv, NEW r \in Requests, NEW p \in Places, Move(r, p),
           p = "open" => admin # 0, p = "change" => req[r].next # Short,
           UNCHANGED <<admin, setup, sessions, calls, changes, claims>>
    PROVE  IInv'
<1> DEFINE x == [req[r] EXCEPT !.at = p]
<1>1. x \in Calls /\ x.at = p /\ x.next = req[r].next
  BY DEF IInv, TypeInv, Calls
<1>2. req' = [req EXCEPT ![r] = x]
  BY DEF Move
<1> HIDE DEF x
<1> QED
  BY <1>1, <1>2, RequestStep DEF IInv, TypeInv

\* A request that starts asks for nothing yet.
LEMMA Starting ==
    ASSUME IInv, NEW r \in Requests, NEW x \in Calls, x.at \notin {"open", "change"},
           Start(r, x)
    PROVE  IInv'
<1>1. calls' \in Nat
  BY DEF Start, IInv, TypeInv
<1> QED
  BY <1>1, RequestStep DEF Start

\* Of one number more than a finite table has rows, one is free.
LEMMA FreshIDIsFree ==
    ASSUME NEW T, IsFiniteSet(T)
    PROVE  FreshID(T) \in Nat /\ \A s \in T : s.id # FreshID(T)
<1> DEFINE n == Cardinality(T)
           used == {s.id : s \in T}
<1>1. n \in Nat
  BY FS_CardinalityType
<1>2. IsFiniteSet(used) /\ Cardinality(used) <= n
  <2> DEFINE f == [s \in T |-> s.id]
  <2>1. f \in Surjection(T, used)
    BY DEF Surjection
  <2> QED
    BY <2>1, FS_Surjection
<1>3. IsFiniteSet(0..n) /\ Cardinality(0..n) = n + 1
  BY <1>1, FS_Interval
<1>4. ~ (0..n \subseteq used)
  <2>1. Cardinality(used) \in Nat
    BY <1>2, FS_CardinalityType
  <2>2. 0..n \subseteq used => Cardinality(0..n) <= Cardinality(used)
    BY <1>2, FS_Subset
  <2> QED
    BY <1>1, <1>2, <1>3, <2>1, <2>2
<1>5. \E i \in 0..n : \A s \in T : s.id # i
  BY <1>4
<1>6. FreshID(T) \in 0..n /\ \A s \in T : s.id # FreshID(T)
  BY <1>5 DEF FreshID
<1> QED
  BY <1>1, <1>6

LEMMA StartSteps ==
    ASSUME IInv, NEW r \in Requests, CallLogin(r) \/ CallSetup(r) \/ CallChange(r)
    PROVE  IInv'
<1> USE IdleType, AuthAssumption
<1>1. CASE CallLogin(r)
  <2>1. PICK s \in Sources, p \in Passwords :
          Start(r, [Idle EXCEPT !.op = "login", !.at = "gate", !.src = s, !.given = p])
    BY <1>1 DEF CallLogin
  <2> DEFINE x == [Idle EXCEPT !.op = "login", !.at = "gate", !.src = s, !.given = p]
  <2>2. x \in Calls /\ x.at = "gate"
    BY DEF Calls, Ops, Places
  <2> QED
    BY <2>1, <2>2, Starting
<1>2. CASE CallSetup(r)
  <2>1. PICK s \in Sources, p \in Passwords \cup {Short}, t \in BOOLEAN :
          Start(r, [Idle EXCEPT !.op = "setup", !.at = "throttle", !.src = s,
                                !.given = p, !.token = t])
    BY <1>2 DEF CallSetup
  <2> DEFINE x == [Idle EXCEPT !.op = "setup", !.at = "throttle", !.src = s,
                               !.given = p, !.token = t]
  <2>2. p \in Nat
    BY DEF Short
  <2>3. x \in Calls /\ x.at = "throttle"
    BY <2>2 DEF Calls, Ops, Places
  <2> QED
    BY <2>1, <2>3, Starting
<1>3. CASE CallChange(r)
  <2>1. PICK p \in Passwords, n \in Passwords \cup {Short} :
          Start(r, [Idle EXCEPT !.op = "change", !.at = "current",
                                !.given = p, !.next = n])
    BY <1>3 DEF CallChange
  <2> DEFINE x == [Idle EXCEPT !.op = "change", !.at = "current",
                               !.given = p, !.next = n]
  <2>2. p \in Nat /\ n \in Nat
    BY DEF Short
  <2>3. x \in Calls /\ x.at = "current"
    BY <2>2 DEF Calls, Ops, Places
  <2> QED
    BY <2>1, <2>3, Starting
<1> QED
  BY <1>1, <1>2, <1>3

-----------------------------------------------------------------------------
(* Steps of login and setup *)

\* The steps that leave the account, the sessions and setup mode alone.
LEMMA QuietSteps ==
    ASSUME IInv, NEW r \in Requests,
           \/ Gate(r) \/ AllowLogin(r) \/ TakeSlot(r) \/ GiveUp(r) \/ CheckLogin(r)
           \/ CheckToken(r) \/ CheckCurrent(r) \/ StatementFails(r)
    PROVE  IInv'
<1> USE LeaveStep, MoveStep DEF Rest, Places, Holding
<1>1. CASE Gate(r)
  BY <1>1 DEF Gate
<1>2. CASE AllowLogin(r)
  BY <1>2 DEF AllowLogin
<1>3. CASE TakeSlot(r)
  BY <1>3 DEF TakeSlot
<1>4. CASE GiveUp(r)
  BY <1>4 DEF GiveUp
<1>5. CASE CheckLogin(r)
  <2>1. CASE Matches(req[r].given)
    <3> DEFINE x == [req[r] EXCEPT !.at = "clear", !.since = changes]
    <3>1. x \in Calls /\ x.at = "clear"
      BY DEF IInv, TypeInv, Calls, Places, Holding
    <3>2. req' = [req EXCEPT ![r] = x]
      BY <1>5, <2>1 DEF CheckLogin, IInv, TypeInv, Calls
    <3> HIDE DEF x
    <3> QED
      BY <1>5, <3>1, <3>2, RequestStep DEF CheckLogin, IInv, TypeInv
  <2>2. CASE ~Matches(req[r].given)
    BY <1>5, <2>2 DEF CheckLogin
  <2> QED
    BY <2>1, <2>2
<1>6. CASE CheckToken(r)
  BY <1>6 DEF CheckToken
<1>7. CASE CheckCurrent(r)
  BY <1>7 DEF CheckCurrent
<1>8. CASE StatementFails(r)
  BY <1>8 DEF StatementFails
<1> QED
  BY <1>1, <1>2, <1>3, <1>4, <1>5, <1>6, <1>7, <1>8

\* What a request does to the table of failures touches nothing of this.
LEMMA FailureSteps ==
    ASSUME IInv, NEW r \in Requests, RecordLoginFailure(r) \/ ClearLoginFailures(r)
    PROVE  IInv'
<1>1. CASE RecordLoginFailure(r)
  <2>1. Idle.at # "open" /\ Idle.at # "change"
    BY DEF Idle
  <2> QED
    BY <1>1, <2>1, IdleType, RequestStep DEF RecordLoginFailure, Leave, IInv, TypeInv
<1>2. CASE ClearLoginFailures(r)
  BY <1>2, MoveStep DEF ClearLoginFailures, Places, Holding
<1> QED
  BY <1>1, <1>2

\* The statements that write: InitializeAdmin, the end of setup mode,
\* CreateSession and SetAdminPassword.
LEMMA WritingSteps ==
    ASSUME IInv, NEW r \in Requests,
           Claim(r) \/ EndSetup(r) \/ CreateSession(r) \/ SetAdminPassword(r)
    PROVE  IInv'
<1> USE DEF Short
<1>0. Idle \in Calls /\ Idle.at # "open" /\ Idle.at # "change"
  BY IdleType DEF Idle
<1>1. CASE Claim(r)
  <2>1. CASE req[r].given = Short
    BY <1>1, <2>1, LeaveStep DEF Claim, Rest
  <2>2. CASE req[r].given # Short /\ Claimable
    <3>1. /\ admin' = req[r].given /\ admin' \in Nat \ {0}
          /\ claims' = 1 /\ UNCHANGED <<setup, sessions, calls, changes>>
          /\ req' = [req EXCEPT ![r].at = "open", ![r].since = changes]
      BY <1>1, <2>2 DEF Claim, Claimable, IInv, SetupInv, TypeInv, Calls
    <3>2. req' \in [Requests -> Calls]
      BY <3>1, ZenonT(30) DEF IInv, TypeInv, Calls, Places, Holding
    <3>3. \A q \in Requests : req'[q].at = "change" => req'[q].next # Short
      BY <3>1 DEF IInv, TypeInv, SetupInv, Calls
    <3> QED
      BY <3>1, <3>2, <3>3
         DEF IInv, TypeInv, SetupInv, SetupHappensOnce
  <2>3. CASE req[r].given # Short /\ ~Claimable
    <3> DEFINE x == [req[r] EXCEPT !.at = "open", !.op = "late"]
    <3>1. x \in Calls /\ x.at = "open"
      BY DEF IInv, TypeInv, Calls, Ops, Places, Holding
    <3>2. req' = [req EXCEPT ![r].at = "open", ![r].op = "late"]
      BY <1>1, <2>3 DEF Claim
    <3>3. req' = [req EXCEPT ![r] = x]
      BY <3>2 DEF IInv, TypeInv, Calls
    <3> HIDE DEF x
    <3> QED
      BY <1>1, <2>3, <3>1, <3>3, RequestStep DEF Claim, Claimable, IInv, TypeInv
  <2> QED
    BY <2>1, <2>2, <2>3
<1>2. CASE EndSetup(r)
  <2>1. admin # 0 /\ setup' = FALSE
    BY <1>2 DEF EndSetup, IInv, SetupInv
  <2>2. CASE Leave(r)
    BY <1>0, <1>2, <2>1, <2>2, RequestStep DEF EndSetup, Leave, IInv, TypeInv
  <2>3. CASE Move(r, "clear")
    <3> DEFINE x == [req[r] EXCEPT !.at = "clear"]
    <3>1. x \in Calls /\ x.at = "clear" /\ req' = [req EXCEPT ![r] = x]
      BY <2>3 DEF Move, IInv, TypeInv, Calls, Places, Holding
    <3> HIDE DEF x
    <3> QED
      BY <1>2, <2>1, <3>1, RequestStep DEF EndSetup, IInv, TypeInv
  <2> QED
    BY <1>2, <2>2, <2>3 DEF EndSetup
<1>3. CASE CreateSession(r)
  <2> DEFINE kept == {s \in sessions : ~s.expired}
             new == [id |-> FreshID(kept), expired |-> FALSE, since |-> req[r].since]
  <2>1. IsFiniteSet(kept) /\ kept \subseteq Sessions
    BY FS_Subset DEF IInv, TypeInv
  <2>2. FreshID(kept) \in Nat
    BY <2>1, FreshIDIsFree
  <2>3. new \in Sessions
    BY <2>2 DEF Sessions, IInv, TypeInv, Calls
  <2>4. sessions' = kept \cup {new}
    BY <1>3 DEF CreateSession
  <2> HIDE DEF kept, new
  <2>5. sessions' \subseteq Sessions /\ IsFiniteSet(sessions')
    BY <2>1, <2>3, <2>4, FS_AddElement
  <2>6. /\ req' = [req EXCEPT ![r] = Idle]
        /\ UNCHANGED <<admin, setup, calls, changes, claims>>
    BY <1>3 DEF CreateSession, Leave
  <2> QED
    BY <1>0, <2>5, <2>6 DEF IInv, TypeInv, SetupInv, SetupHappensOnce
<1>4. CASE SetAdminPassword(r)
  <2>1. /\ admin' \in Nat \ {0} /\ changes' \in Nat /\ sessions' = {}
        /\ UNCHANGED <<setup, calls, claims>> /\ req' = [req EXCEPT ![r] = Idle]
    BY <1>4 DEF SetAdminPassword, Goto, Leave, Remaining, IInv, TypeInv, SetupInv, Calls
  <2> QED
    BY <1>0, <2>1, FS_EmptySet DEF IInv, TypeInv, SetupInv, SetupHappensOnce
<1> QED
  BY <1>1, <1>2, <1>3, <1>4

-----------------------------------------------------------------------------
(* Steps that are nobody's, and the theorems *)

LEMMA OtherSteps ==
    ASSUME IInv, \/ DeleteSession \/ Expire \/ InitCommand \/ Restart
                 \/ \E s \in Sources : Unlock(s)
    PROVE  IInv'
<1> USE DEF IInv, TypeInv, SetupInv, SetupHappensOnce
<1>1. CASE DeleteSession
  BY <1>1, FS_RemoveElement DEF DeleteSession
<1>2. CASE Expire
  <2>1. PICK s \in sessions : sessions' = (sessions \ {s})
                                          \cup {[s EXCEPT !.expired = TRUE]}
    BY <1>2 DEF Expire
  <2>2. [s EXCEPT !.expired = TRUE] \in Sessions
    BY DEF Sessions
  <2>3. IsFiniteSet(sessions')
    BY <2>1, FS_RemoveElement, FS_AddElement
  <2> QED
    BY <1>2, <2>1, <2>2, <2>3 DEF Expire
<1>3. CASE InitCommand
  BY <1>3, AuthAssumption DEF InitCommand
<1>4. CASE Restart
  <2>1. req' \in [Requests -> Calls] /\ \A r \in Requests : req'[r] = Idle
    BY <1>4, IdleType DEF Restart
  <2>2. Idle.at = "done"
    BY DEF Idle
  <2> QED
    BY <1>4, <2>1, <2>2 DEF Restart
<1>5. CASE \E s \in Sources : Unlock(s)
  BY <1>5 DEF Unlock
<1> QED
  BY <1>1, <1>2, <1>3, <1>4, <1>5

LEMMA Initial == Init => IInv
<1> SUFFICES ASSUME Init PROVE IInv
  OBVIOUS
<1>1. req \in [Requests -> Calls] /\ \A r \in Requests : req[r] = Idle
  BY IdleType DEF Init
<1>2. Idle.at = "done"
  BY DEF Idle
<1>3. admin \in Nat /\ claims = IF admin = 0 THEN 0 ELSE 1
  BY AuthAssumption DEF Init
<1>4. setup \in BOOLEAN /\ (~setup => admin # 0)
  BY Zenon DEF Init
<1> QED
  BY <1>1, <1>2, <1>3, <1>4, FS_EmptySet
     DEF Init, IInv, TypeInv, SetupInv, SetupHappensOnce

LEMMA Inductive == IInv /\ [Next]_vars => IInv'
<1> SUFFICES ASSUME IInv, [Next]_vars PROVE IInv'
  OBVIOUS
<1>1. CASE UNCHANGED vars
  BY <1>1 DEF vars, IInv, TypeInv, SetupInv, SetupHappensOnce
<1>2. ASSUME NEW r \in Requests, CallLogin(r) \/ CallSetup(r) \/ CallChange(r)
      PROVE  IInv'
  BY <1>2, StartSteps
<1>3. ASSUME NEW r \in Requests, Go(r) \/ TakeSlot(r) \/ GiveUp(r) \/ StatementFails(r)
      PROVE  IInv'
  BY <1>3, QuietSteps, FailureSteps, WritingSteps DEF Go
<1> QED
  BY <1>1, <1>2, <1>3, OtherSteps DEF Next

\* IInv holds in every reachable state: besides the property below, a
\* request that is about to end setup mode has seen the administrator's row, and
\* a password too short is never stored.
THEOREM AccountInvariant == Spec => []IInv
<1> QED
  BY Initial, Inductive, PTL DEF Spec

\* Of any number of overlapping setup requests, restarts of the daemon and runs
\* of `pogu init`, one creates the administrator, and setup mode lasts until then.
THEOREM OneSetup == Spec => []SetupHappensOnce
<1>1. IInv => SetupHappensOnce
  BY DEF IInv, SetupInv
<1> QED
  BY <1>1, AccountInvariant, PTL

-----------------------------------------------------------------------------
(* The places in loginSlots *)

Holders == {r \in Requests : req[r].at \in Holding}

SlotsCounted == slots = Cardinality(Holders) /\ slots <= Slots

\* The other steps of a request neither take nor give back a place.
LEMMA SameHolders ==
    ASSUME IInv, SlotsCounted, NEW r \in Requests, slots' = slots,
           NEW x, req' = [req EXCEPT ![r] = x], x.at \in Holding <=> req[r].at \in Holding
    PROVE  SlotsCounted'
<1>1. Holders' = Holders
  BY DEF Holders, IInv, TypeInv
<1> QED
  BY <1>1 DEF SlotsCounted

\* A request that ends gives back the place it has, if it has one.
LEMMA LeaveGivesBack ==
    ASSUME IInv, IsFiniteSet(Requests), SlotsCounted, NEW r \in Requests, Leave(r)
    PROVE  SlotsCounted'
<1>1. IsFiniteSet(Holders) /\ slots \in Nat
  BY FS_Subset, FS_CardinalityType DEF Holders, SlotsCounted
<1>2. Holders' = Holders \ {r}
  BY DEF Holders, Leave, Idle, Holding, IInv, TypeInv
<1>3. Cardinality(Holders') = IF r \in Holders THEN slots - 1 ELSE slots
  BY <1>1, <1>2, FS_RemoveElement DEF SlotsCounted
<1>4. slots' = IF r \in Holders THEN slots - 1 ELSE slots
  BY DEF Leave, SlotsAfter, Holders
<1> QED
  BY <1>1, <1>3, <1>4, AuthAssumption DEF SlotsCounted

LEMMA MoveKeeps ==
    ASSUME IInv, SlotsCounted, NEW r \in Requests, NEW p, Move(r, p), slots' = slots,
           p \in Holding <=> req[r].at \in Holding
    PROVE  SlotsCounted'
<1> DEFINE x == [req[r] EXCEPT !.at = p]
<1>1. x.at = p /\ req' = [req EXCEPT ![r] = x]
  BY DEF Move, IInv, TypeInv, Calls
<1> HIDE DEF x
<1> QED
  BY <1>1, SameHolders

LEMMA TakeSlotCounts ==
    ASSUME IInv, IsFiniteSet(Requests), SlotsCounted, NEW r \in Requests, TakeSlot(r)
    PROVE  SlotsCounted'
<1>1. IsFiniteSet(Holders) /\ slots \in Nat
  BY FS_Subset, FS_CardinalityType DEF Holders, SlotsCounted
<1>2. PICK p \in {"verify", "token"} : req' = [req EXCEPT ![r].at = p]
  BY DEF TakeSlot, Move
<1>3. req'[r].at = p /\ \A q \in Requests \ {r} : req'[q] = req[q]
  BY <1>2 DEF IInv, TypeInv, Calls
<1>4. Holders' = Holders \cup {r} /\ r \notin Holders
  BY <1>3 DEF Holders, Holding, TakeSlot
<1>5. Cardinality(Holders') = slots + 1
  BY <1>1, <1>4, FS_AddElement DEF SlotsCounted
<1> QED
  BY <1>1, <1>5, AuthAssumption DEF SlotsCounted, TakeSlot

LEMMA RequestsCount ==
    ASSUME IInv, IsFiniteSet(Requests), SlotsCounted, NEW r \in Requests,
           \/ CallLogin(r) \/ CallSetup(r) \/ CallChange(r)
           \/ Go(r) \/ TakeSlot(r) \/ GiveUp(r) \/ StatementFails(r)
    PROVE  SlotsCounted'
<1> USE LeaveGivesBack, MoveKeeps DEF Holding, Goto
<1>1. CASE CallLogin(r) \/ CallSetup(r) \/ CallChange(r)
  <2>1. SUFFICES ASSUME NEW x, Start(r, x), x.at \notin Holding
                 PROVE  SlotsCounted'
    BY <1>1 DEF CallLogin, CallSetup, CallChange, Idle
  <2> QED
    BY <2>1, SameHolders DEF Start
<1>2. CASE Gate(r)
  BY <1>2 DEF Gate
<1>3. CASE AllowLogin(r)
  BY <1>3 DEF AllowLogin
<1>4. CASE CheckLogin(r)
  <2>1. CASE Matches(req[r].given)
    <3> DEFINE x == [req[r] EXCEPT !.at = "clear", !.since = changes]
    <3>1. x.at = "clear" /\ req' = [req EXCEPT ![r] = x]
      BY <1>4, <2>1 DEF CheckLogin, IInv, TypeInv, Calls
    <3> HIDE DEF x
    <3> QED
      BY <1>4, <3>1, SameHolders DEF CheckLogin
  <2>2. CASE ~Matches(req[r].given)
    BY <1>4, <2>2 DEF CheckLogin
  <2> QED
    BY <2>1, <2>2
<1>5. CASE RecordLoginFailure(r)
  BY <1>5 DEF RecordLoginFailure
<1>6. CASE ClearLoginFailures(r)
  BY <1>6 DEF ClearLoginFailures
<1>7. CASE CreateSession(r)
  BY <1>7 DEF CreateSession
<1>8. CASE CheckToken(r)
  BY <1>8 DEF CheckToken
<1>9. CASE Claim(r)
  <2>1. CASE Leave(r)
    BY <2>1
  <2>2. CASE ~Leave(r)
    <3>1. /\ req[r].at \in Holding /\ slots' = slots
          /\ \/ req' = [req EXCEPT ![r].at = "open", ![r].since = changes]
             \/ req' = [req EXCEPT ![r].at = "open", ![r].op = "late"]
      BY <1>9, <2>2 DEF Claim
    <3>2. req'[r].at = "open" /\ \A q \in Requests \ {r} : req'[q] = req[q]
      BY <3>1 DEF IInv, TypeInv, Calls
    <3>3. Holders' = Holders
      BY <3>1, <3>2 DEF Holders
    <3> QED
      BY <3>1, <3>3 DEF SlotsCounted
  <2> QED
    BY <2>1, <2>2
<1>10. CASE EndSetup(r)
  BY <1>10 DEF EndSetup
<1>11. CASE CheckCurrent(r)
  BY <1>11 DEF CheckCurrent
<1>12. CASE SetAdminPassword(r)
  BY <1>12 DEF SetAdminPassword
<1>13. CASE TakeSlot(r)
  BY <1>13, TakeSlotCounts
<1>14. CASE GiveUp(r) \/ StatementFails(r)
  BY <1>14 DEF GiveUp, StatementFails
<1> QED
  BY <1>1, <1>2, <1>3, <1>4, <1>5, <1>6, <1>7, <1>8, <1>9, <1>10, <1>11, <1>12,
     <1>13, <1>14 DEF Go

\* The channel loginSlots holds one place for each request between taking one
\* and its answer, and never more than its capacity: no path of a handler keeps
\* its place or gives one back twice.
THEOREM SlotsAreGivenBack ==
    ASSUME IsFiniteSet(Requests)
    PROVE  Spec => []SlotsCounted
<1>1. Init => SlotsCounted
  <2> SUFFICES ASSUME Init PROVE SlotsCounted
    OBVIOUS
  <2>1. Holders = {}
    BY DEF Init, Idle, Holders, Holding
  <2> QED
    BY <2>1, FS_EmptySet, AuthAssumption DEF Init, SlotsCounted
<1>2. IInv /\ SlotsCounted /\ [Next]_vars => SlotsCounted'
  <2> SUFFICES ASSUME IInv, SlotsCounted, [Next]_vars PROVE SlotsCounted'
    OBVIOUS
  <2>1. ASSUME UNCHANGED <<req, slots>> PROVE SlotsCounted'
    BY <2>1 DEF SlotsCounted, Holders
  <2>2. CASE UNCHANGED vars
    BY <2>1, <2>2 DEF vars
  <2>3. CASE \/ DeleteSession \/ Expire \/ InitCommand \/ \E s \in Sources : Unlock(s)
    BY <2>1, <2>3 DEF DeleteSession, Expire, InitCommand, Unlock
  <2>4. CASE Restart
    <3>1. Holders' = {} /\ slots' = 0
      BY <2>4 DEF Restart, Idle, Holders, Holding
    <3> QED
      BY <3>1, FS_EmptySet, AuthAssumption DEF SlotsCounted
  <2> QED
    BY <2>2, <2>3, <2>4, RequestsCount DEF Next
<1> QED
  BY <1>1, <1>2, AccountInvariant, PTL DEF Spec

-----------------------------------------------------------------------------
(* Sessions that outlive a change *)

\* Sessions of a former password, and requests that will still insert one: these
\* have checked the password before the last change and hold a place.
Stale == {s \in sessions : s.since < changes}
Late == {r \in Requests : /\ req[r].since < changes
                          /\ \/ req[r].at \in {"clear", "session"}
                             \/ req[r].at = "open" /\ req[r].op # "late"}

FewStale == Cardinality(Late) + Cardinality(Stale) <= Slots

LEMMA StaleAreFinite ==
    ASSUME IInv, IsFiniteSet(Requests)
    PROVE  /\ IsFiniteSet(Late) /\ IsFiniteSet(Stale)
           /\ Cardinality(Late) \in Nat /\ Cardinality(Stale) \in Nat
<1>1. IsFiniteSet(Late)
  BY FS_Subset DEF Late
<1>2. IsFiniteSet(Stale)
  BY FS_Subset DEF Stale, IInv, TypeInv
<1> QED
  BY <1>1, <1>2, FS_CardinalityType

\* No step but a change brings in a request or a session that was not counted.
LEMMA NoneAdded ==
    ASSUME IInv, IsFiniteSet(Requests), FewStale, Late' \subseteq Late,
           Stale' \subseteq Stale
    PROVE  FewStale'
<1>1. /\ IsFiniteSet(Late) /\ IsFiniteSet(Stale)
      /\ Cardinality(Late) \in Nat /\ Cardinality(Stale) \in Nat
  BY StaleAreFinite
<1>2. /\ IsFiniteSet(Late') /\ IsFiniteSet(Stale')
      /\ Cardinality(Late') <= Cardinality(Late)
      /\ Cardinality(Stale') <= Cardinality(Stale)
  BY <1>1, FS_Subset
<1>3. Cardinality(Late') \in Nat /\ Cardinality(Stale') \in Nat
  BY <1>2, FS_CardinalityType
<1> QED
  BY <1>1, <1>2, <1>3, AuthAssumption DEF FewStale

\* One element more makes a finite set larger by one at most.
LEMMA OneMore ==
    ASSUME NEW S, NEW x, IsFiniteSet(S), Cardinality(S) \in Nat
    PROVE  /\ IsFiniteSet(S \cup {x})
           /\ Cardinality(S \cup {x}) <= Cardinality(S) + 1
<1>1. /\ IsFiniteSet(S \cup {x})
      /\ Cardinality(S \cup {x}) = IF x \in S THEN Cardinality(S) ELSE Cardinality(S) + 1
  BY FS_AddElement
<1>2. CASE x \in S
  BY <1>1, <1>2
<1>3. CASE x \notin S
  BY <1>1, <1>3
<1> QED
  BY <1>2, <1>3

\* The session a late request inserts takes its place in the count.
LEMMA SessionTakesThePlace ==
    ASSUME IInv, IsFiniteSet(Requests), FewStale, NEW r \in Requests, CreateSession(r)
    PROVE  FewStale'
<1> DEFINE kept == {s \in sessions : ~s.expired}
           new == [id |-> FreshID(kept), expired |-> FALSE, since |-> req[r].since]
<1>1. /\ IsFiniteSet(Late) /\ IsFiniteSet(Stale)
      /\ Cardinality(Late) \in Nat /\ Cardinality(Stale) \in Nat
  BY StaleAreFinite
<1>2. sessions' = kept \cup {new} /\ changes' = changes
  BY DEF CreateSession
<1>3. new.since = req[r].since
  OBVIOUS
<1>4. kept \subseteq sessions
  OBVIOUS
<1> HIDE DEF kept, new
<1>5. req' = [req EXCEPT ![r] = Idle] /\ Idle.at = "done"
  BY DEF CreateSession, Leave, Idle
<1>6. Late' = Late \ {r}
  BY <1>2, <1>5 DEF Late, IInv, TypeInv
<1>7. CASE req[r].since < changes
  <2>1. r \in Late
    BY <1>7 DEF Late, CreateSession
  <2>2. Cardinality(Late') = Cardinality(Late) - 1
    BY <1>1, <1>6, <2>1, FS_RemoveElement
  <2>3. Stale' \subseteq Stale \cup {new}
    BY <1>2, <1>4 DEF Stale
  <2>4. IsFiniteSet(Stale \cup {new}) /\ Cardinality(Stale \cup {new}) <= Cardinality(Stale) + 1
    BY <1>1, OneMore
  <2>5. Cardinality(Stale \cup {new}) \in Nat
    BY <2>4, FS_CardinalityType
  <2>6. IsFiniteSet(Stale') /\ Cardinality(Stale') <= Cardinality(Stale \cup {new})
    BY <2>3, <2>4, FS_Subset
  <2>7. Cardinality(Stale') \in Nat
    BY <2>6, FS_CardinalityType
  <2> QED
    BY <1>1, <2>2, <2>4, <2>5, <2>6, <2>7, AuthAssumption DEF FewStale
<1>8. CASE ~(req[r].since < changes)
  <2>1. Stale' \subseteq Stale
    BY <1>2, <1>3, <1>4, <1>8 DEF Stale
  <2> QED
    BY <1>6, <2>1, NoneAdded
<1> QED
  BY <1>7, <1>8

\* A request that stays where it was, or is not past its check, adds nothing.
LEMMA OneMoves ==
    ASSUME IInv, IsFiniteSet(Requests), FewStale, NEW r \in Requests,
           NEW x, req' = [req EXCEPT ![r] = x], UNCHANGED <<sessions, changes>>,
           \/ x.at \notin {"open", "clear", "session"}
           \/ x.at = "open" /\ x.op = "late"
           \/ x.since = changes
    PROVE  FewStale'
<1>1. ~(changes < changes)
  BY DEF IInv, TypeInv
<1>2. Late' \subseteq Late
  BY <1>1 DEF Late, IInv, TypeInv
<1>3. Stale' \subseteq Stale
  BY DEF Stale
<1> QED
  BY <1>2, <1>3, NoneAdded

LEMMA MoveAddsNone ==
    ASSUME IInv, IsFiniteSet(Requests), FewStale, NEW r \in Requests, NEW p, Move(r, p),
           p \notin {"open", "clear", "session"}, UNCHANGED <<sessions, changes>>
    PROVE  FewStale'
<1> DEFINE x == [req[r] EXCEPT !.at = p]
<1>1. x.at = p /\ req' = [req EXCEPT ![r] = x]
  BY DEF Move, IInv, TypeInv, Calls
<1> HIDE DEF x
<1> QED
  BY <1>1, OneMoves

LEMMA LeaveAddsNone ==
    ASSUME IInv, IsFiniteSet(Requests), FewStale, NEW r \in Requests, Leave(r),
           UNCHANGED <<sessions, changes>>
    PROVE  FewStale'
<1>1. Idle.at = "done"
  BY DEF Idle
<1> QED
  BY <1>1, OneMoves DEF Leave

\* Past its check a request goes on with the stamp it has.
LEMMA MoveKeepsLate ==
    ASSUME IInv, IsFiniteSet(Requests), FewStale, NEW r \in Requests, NEW p, Move(r, p),
           p \in {"clear", "session"}, UNCHANGED <<sessions, changes>>,
           \/ req[r].at = "clear"
           \/ req[r].at = "open" /\ req[r].op # "late"
    PROVE  FewStale'
<1>1. req'[r].since = req[r].since /\ \A q \in Requests \ {r} : req'[q] = req[q]
  BY DEF Move, IInv, TypeInv, Calls
<1>2. Late' \subseteq Late
  BY <1>1 DEF Late
<1>3. Stale' \subseteq Stale
  BY DEF Stale
<1> QED
  BY <1>2, <1>3, NoneAdded

LEMMA RequestsAddFew ==
    ASSUME IInv, IsFiniteSet(Requests), SlotsCounted, SlotsCounted', FewStale,
           NEW r \in Requests,
           \/ CallLogin(r) \/ CallSetup(r) \/ CallChange(r)
           \/ Go(r) \/ TakeSlot(r) \/ GiveUp(r) \/ StatementFails(r)
    PROVE  FewStale'
<1> USE LeaveAddsNone, MoveAddsNone DEF Goto, Rest
<1>1. CASE CallLogin(r) \/ CallSetup(r) \/ CallChange(r)
  <2>1. SUFFICES ASSUME NEW x, Start(r, x), x.at \notin {"open", "clear", "session"}
                 PROVE  FewStale'
    BY <1>1 DEF CallLogin, CallSetup, CallChange, Idle
  <2> QED
    BY <2>1, OneMoves DEF Start
<1>2. CASE Gate(r)
  BY <1>2 DEF Gate
<1>3. CASE AllowLogin(r)
  BY <1>3 DEF AllowLogin
<1>4. CASE CheckLogin(r)
  <2>1. CASE Matches(req[r].given)
    <3> DEFINE x == [req[r] EXCEPT !.at = "clear", !.since = changes]
    <3>1. x.since = changes /\ req' = [req EXCEPT ![r] = x]
      BY <1>4, <2>1 DEF CheckLogin, IInv, TypeInv, Calls
    <3> HIDE DEF x
    <3> QED
      BY <1>4, <3>1, OneMoves DEF CheckLogin
  <2>2. CASE ~Matches(req[r].given)
    BY <1>4, <2>2 DEF CheckLogin
  <2> QED
    BY <2>1, <2>2
<1>5. CASE RecordLoginFailure(r)
  BY <1>5 DEF RecordLoginFailure
<1>6. CASE ClearLoginFailures(r)
  BY <1>6, MoveKeepsLate DEF ClearLoginFailures
<1>7. CASE CreateSession(r)
  BY <1>7, SessionTakesThePlace
<1>8. CASE CheckToken(r)
  BY <1>8 DEF CheckToken
<1>9. CASE Claim(r)
  <2>1. CASE Leave(r)
    BY <1>9, <2>1 DEF Claim
  <2>2. CASE req' = [req EXCEPT ![r].at = "open", ![r].since = changes]
    <3> DEFINE x == [req[r] EXCEPT !.at = "open", !.since = changes]
    <3>1. x.since = changes /\ req' = [req EXCEPT ![r] = x]
      BY <2>2 DEF IInv, TypeInv, Calls
    <3> HIDE DEF x
    <3> QED
      BY <1>9, <3>1, OneMoves DEF Claim
  <2>3. CASE req' = [req EXCEPT ![r].at = "open", ![r].op = "late"]
    <3> DEFINE x == [req[r] EXCEPT !.at = "open", !.op = "late"]
    <3>1. x.at = "open" /\ x.op = "late" /\ req' = [req EXCEPT ![r] = x]
      BY <2>3 DEF IInv, TypeInv, Calls
    <3> HIDE DEF x
    <3> QED
      BY <1>9, <3>1, OneMoves DEF Claim
  <2> QED
    BY <1>9, <2>1, <2>2, <2>3 DEF Claim
<1>10. CASE EndSetup(r)
  BY <1>10, MoveKeepsLate DEF EndSetup
<1>11. CASE CheckCurrent(r)
  BY <1>11 DEF CheckCurrent
<1>12. CASE SetAdminPassword(r)
  <2>1. Stale' = {} /\ Late' \subseteq Holders'
    BY <1>12 DEF SetAdminPassword, Remaining, Stale, Late, Holders, Holding
  <2>2. /\ IsFiniteSet(Holders') /\ Cardinality(Holders') \in Nat
        /\ Cardinality(Holders') <= Slots
    BY FS_Subset, FS_CardinalityType DEF Holders, SlotsCounted
  <2>3. IsFiniteSet(Late') /\ Cardinality(Late') <= Cardinality(Holders')
    BY <2>1, <2>2, FS_Subset
  <2>4. Cardinality(Late') \in Nat /\ Cardinality(Stale') = 0
    BY <2>1, <2>3, FS_CardinalityType, FS_EmptySet
  <2> QED
    BY <2>2, <2>3, <2>4, AuthAssumption DEF FewStale
<1>13. CASE TakeSlot(r)
  BY <1>13 DEF TakeSlot
<1>14. CASE GiveUp(r) \/ StatementFails(r)
  BY <1>14 DEF GiveUp, StatementFails
<1> QED
  BY <1>1, <1>2, <1>3, <1>4, <1>5, <1>6, <1>7, <1>8, <1>9, <1>10, <1>11, <1>12,
     <1>13, <1>14 DEF Go

LEMMA OthersAddNone ==
    ASSUME IInv, IsFiniteSet(Requests), FewStale,
           \/ DeleteSession \/ Expire \/ InitCommand \/ Restart
           \/ \E s \in Sources : Unlock(s)
    PROVE  FewStale'
<1>1. CASE DeleteSession
  <2>1. Late' \subseteq Late /\ Stale' \subseteq Stale
    BY <1>1 DEF DeleteSession, Late, Stale
  <2> QED
    BY <2>1, NoneAdded
<1>2. CASE Expire
  <2>1. PICK s \in sessions : sessions' = (sessions \ {s})
                                          \cup {[s EXCEPT !.expired = TRUE]}
    BY <1>2 DEF Expire
  <2> DEFINE old == [s EXCEPT !.expired = TRUE]
  <2>2. old.since = s.since /\ sessions' = (sessions \ {s}) \cup {old}
    BY <2>1 DEF IInv, TypeInv, Sessions
  <2> HIDE DEF old
  <2>3. UNCHANGED <<req, changes>>
    BY <1>2 DEF Expire
  <2>4. Late' = Late
    BY <2>3 DEF Late
  <2>5. /\ IsFiniteSet(Stale) /\ Cardinality(Stale) \in Nat
        /\ Cardinality(Late) \in Nat
    BY StaleAreFinite
  <2>6. CASE s.since < changes
    <3>1. s \in Stale /\ Stale' \subseteq (Stale \ {s}) \cup {old}
      BY <2>2, <2>3, <2>6 DEF Stale
    <3>2. /\ IsFiniteSet(Stale \ {s})
          /\ Cardinality(Stale \ {s}) = Cardinality(Stale) - 1
      BY <2>5, <3>1, FS_RemoveElement
    <3>3. /\ IsFiniteSet((Stale \ {s}) \cup {old})
          /\ Cardinality((Stale \ {s}) \cup {old}) <= Cardinality(Stale)
      <4> DEFINE less == Stale \ {s}
      <4>1. /\ IsFiniteSet(less \cup {old})
            /\ Cardinality(less \cup {old}) =
                 IF old \in less THEN Cardinality(less) ELSE Cardinality(less) + 1
        BY <3>2, FS_AddElement
      <4> QED
        BY <2>5, <3>2, <4>1
    <3>4. IsFiniteSet(Stale') /\ Cardinality(Stale') <= Cardinality((Stale \ {s}) \cup {old})
      BY <3>1, <3>3, FS_Subset
    <3>5. Cardinality(Stale') \in Nat /\ Cardinality((Stale \ {s}) \cup {old}) \in Nat
      BY <3>3, <3>4, FS_CardinalityType
    <3> QED
      BY <2>4, <2>5, <3>3, <3>4, <3>5, AuthAssumption DEF FewStale
  <2>7. CASE ~(s.since < changes)
    <3>1. Stale' \subseteq Stale
      BY <2>2, <2>3, <2>7 DEF Stale
    <3> QED
      BY <2>4, <3>1, NoneAdded
  <2> QED
    BY <2>6, <2>7
<1>3. CASE InitCommand \/ \E s \in Sources : Unlock(s)
  <2>1. Late' \subseteq Late /\ Stale' \subseteq Stale
    BY <1>3 DEF InitCommand, Unlock, Late, Stale
  <2> QED
    BY <2>1, NoneAdded
<1>4. CASE Restart
  <2>1. Late' \subseteq Late /\ Stale' \subseteq Stale
    BY <1>4 DEF Restart, Idle, Late, Stale
  <2> QED
    BY <2>1, NoneAdded
<1> QED
  BY <1>1, <1>2, <1>3, <1>4

\* However many logins and changes overlap, the sessions in the table that rest
\* on a former password are never more than there are places in loginSlots: a
\* change deletes all sessions, and only requests that held a place as it
\* committed can still insert one that rests on an older check.
THEOREM FewSessionsRemain ==
    ASSUME IsFiniteSet(Requests)
    PROVE  Spec => []FewSessionsOutliveAChange
<1>1. Init => FewStale
  <2> SUFFICES ASSUME Init PROVE FewStale
    OBVIOUS
  <2>1. Late = {} /\ Stale = {}
    BY DEF Init, Idle, Late, Stale
  <2> QED
    BY <2>1, FS_EmptySet, AuthAssumption DEF FewStale
<1>2. IInv /\ SlotsCounted /\ SlotsCounted' /\ FewStale /\ [Next]_vars => FewStale'
  <2> SUFFICES ASSUME IInv, SlotsCounted, SlotsCounted', FewStale, [Next]_vars
               PROVE  FewStale'
    OBVIOUS
  <2>1. CASE UNCHANGED vars
    BY <2>1 DEF vars, FewStale, Late, Stale
  <2> QED
    BY <2>1, RequestsAddFew, OthersAddNone DEF Next
<1>3. IInv /\ FewStale => FewSessionsOutliveAChange
  BY StaleAreFinite, AuthAssumption DEF FewStale, Stale, FewSessionsOutliveAChange
<1> QED
  BY <1>1, <1>2, <1>3, AccountInvariant, SlotsAreGivenBack, PTL DEF Spec
======================================================================
