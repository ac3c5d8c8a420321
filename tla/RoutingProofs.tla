--------------------------- MODULE RoutingProofs ---------------------------
(***************************************************************************)
(* Type correctness and CredentialsStayHome of module Routing, for any      *)
(* catalog, any number of callers and any number of edits.                   *)
(***************************************************************************)
EXTENDS Routing, FiniteSetTheorems, SequenceTheorems, TLAPS

Group == [policy : {"first", "round_robin"}, enabled : BOOLEAN]

\* What TypeOK leaves out of the other variables.
Rest ==
    /\ group \in Group \cup {None}
    /\ \A d \in DOMAIN cursor : cursor[d] \in Nat
    /\ edits \in Nat
    /\ DOMAIN model \subseteq Models
    /\ DOMAIN key \subseteq Keys
    /\ DOMAIN member \subseteq Members

\* A target whose credentials are its own provider's.
IsHome(t) == /\ ProviderOf[t.model] = t.provider
             /\ \A k \in Elems(t.keys) : ProviderOf[k] = t.provider

\* A resolution x on its way from a route to a target: the provider it goes on
\* with is the model's, and the credentials it is about to rotate are that
\* provider's.
Home(x) ==
    /\ x.pc \in {"provider", "policy", "keys", "rotate"} =>
          /\ x.todo # <<>>
          /\ x.model \in Models /\ x.provider = ProviderOf[x.model]
    /\ x.pc = "rotate" => /\ x.keys # <<>>
                          /\ \A k \in Elems(x.keys) : ProviderOf[k] = x.provider
    /\ \A i \in 1..Len(x.out) : IsHome(x.out[i])

IInv == TypeOK /\ Rest /\ \A c \in Callers : Home(call[c])

-----------------------------------------------------------------------------
(* Lists *)

\* Rotating a list moves its elements and adds none.
LEMMA RotatedType ==
    ASSUME NEW T, NEW s \in Seq(T), s # <<>>, NEW n \in Nat
    PROVE  /\ Rotated(s, n) \in Seq(T)
           /\ Len(Rotated(s, n)) = Len(s)
           /\ \A i \in 1..Len(s) : \E j \in 1..Len(s) : Rotated(s, n)[i] = s[j]
<1>1. Len(s) \in Nat \ {0}
  OBVIOUS
<1>2. \A i \in 1..Len(s) : ((n + i - 1) % Len(s)) + 1 \in 1..Len(s)
  BY <1>1
<1>3. \A i \in 1..Len(s) : s[((n + i - 1) % Len(s)) + 1] \in T
  BY <1>2
<1>4. Rotated(s, n) = [i \in 1..Len(s) |-> s[((n + i - 1) % Len(s)) + 1]]
  BY DEF Rotated
<1>5. Rotated(s, n) \in [1..Len(s) -> T]
  BY <1>3, <1>4
<1>6. Rotated(s, n) \in Seq(T) /\ Len(Rotated(s, n)) = Len(s)
  BY <1>1, <1>5, LenProperties, SeqDef
<1>7. \A i \in 1..Len(s) : \E j \in 1..Len(s) : Rotated(s, n)[i] = s[j]
  BY <1>2, <1>4
<1> QED
  BY <1>6, <1>7

\* What ORDER BY returns of a set of rows is a list of those rows.
LEMMA InOrderType ==
    ASSUME NEW T, IsFiniteSet(T), NEW S \in SUBSET T, NEW s \in InOrder(S)
    PROVE  s \in Seq(T) /\ Elems(s) \subseteq S
<1>1. Cardinality(S) \in Nat
  BY FS_Subset, FS_CardinalityType
<1>2. s \in [1..Cardinality(S) -> S]
  BY DEF InOrder
<1> QED
  BY <1>1, <1>2 DEF Elems

\* The tables hold finitely many rows.
LEMMA FiniteRows == IsFiniteSet(Keys) /\ IsFiniteSet(Members)
BY RoutingAssumption, FS_Subset

-----------------------------------------------------------------------------
(* A resolution's steps *)

\* A step of one resolution that leaves the catalog alone, and takes at most a
\* cursor's position.
LEMMA CallStep ==
    ASSUME IInv, NEW c \in Callers, NEW x \in Calls, Home(x),
           call' = [call EXCEPT ![c] = x], UNCHANGED catalog,
           \A d \in DOMAIN cursor' : cursor'[d] \in Nat
    PROVE  IInv'
<1>1. call' \in [Callers -> Calls]
  BY DEF IInv, TypeOK
<1>2. \A d \in Callers : Home(call'[d])
  BY DEF IInv, TypeOK
<1>3. TypeOK' /\ Rest'
  BY <1>1 DEF IInv, TypeOK, Rest, catalog
<1> QED
  BY <1>2, <1>3 DEF IInv, Home, IsHome

\* The call of a resolution, typed.
LEMMA CallType ==
    ASSUME IInv, NEW c \in Callers
    PROVE  call[c] \in Calls /\ Home(call[c]) /\ call[c].out \in Plans
BY DEF IInv, TypeOK, Calls

LEMMA GiveUpStep ==
    ASSUME IInv, NEW c \in Callers, GiveUp(c), call[c].todo # <<>>,
           UNCHANGED <<catalog, cursor, turns, calls>>
    PROVE  IInv'
<1> DEFINE x == [call[c] EXCEPT !.pc = IF call[c].grouped THEN "route" ELSE "failed",
                                !.todo = Tail(call[c].todo)]
<1>1. x \in Calls /\ Home(x)
  <2>1. Tail(call[c].todo) \in Seq(Ids)
    BY CallType DEF Calls
  <2> QED
    BY <2>1, CallType DEF Calls, Home
<1>2. call' = [call EXCEPT ![c] = x]
  BY DEF GiveUp
<1> QED
  BY <1>1, <1>2, CallStep DEF IInv, Rest

LEMMA StartSteps ==
    ASSUME IInv, NEW c \in Callers, CallModel(c) \/ CallGroup(c) \/ Return(c)
    PROVE  IInv'
<1>1. Idle \in Calls /\ Home(Idle)
  BY DEF Idle, Calls, Plans, Home
<1>2. CASE CallModel(c)
  <2>1. PICK i \in Ids : call' = [call EXCEPT ![c] = [Idle EXCEPT !.pc = "route", !.todo = <<i>>,
                                                            !.since = edits]]
    BY <1>2 DEF CallModel, Ids
  <2> DEFINE x == [Idle EXCEPT !.pc = "route", !.todo = <<i>>, !.since = edits]
  <2>2. <<i>> \in Seq(Ids) /\ edits \in Nat
    BY DEF IInv, Rest
  <2>3. x \in Calls
    BY <1>1, <2>2 DEF Idle, Calls
  <2>4. Home(x)
    BY <1>1 DEF Idle, Home
  <2> QED
    BY <1>2, <2>1, <2>3, <2>4, CallStep DEF CallModel, IInv, Rest
<1>3. CASE CallGroup(c)
  <2> DEFINE pol == IF group # None THEN group.policy ELSE "first"
             x == [Idle EXCEPT !.pc = IF group # None /\ group.enabled THEN "members" ELSE "failed",
                               !.grouped = TRUE, !.since = edits, !.policy = pol]
  <2>1. pol \in {"first", "round_robin"} /\ edits \in Nat
    BY DEF IInv, Rest, Group
  <2>2. x \in Calls /\ Home(x)
    BY <1>1, <2>1 DEF Idle, Calls, Home
  <2>3. call' = [call EXCEPT ![c] = x]
    BY <1>3 DEF CallGroup
  <2> QED
    BY <1>3, <2>2, <2>3, CallStep DEF CallGroup, IInv, Rest
<1>4. CASE Return(c)
  BY <1>1, <1>4, CallStep DEF Return, IInv, Rest
<1> QED
  BY <1>2, <1>3, <1>4

\* ResolveGroupTargets lists the enabled members.
LEMMA ListMembersStep ==
    ASSUME IInv, NEW c \in Callers, ListMembers(c)
    PROVE  IInv'
<1>1. PICK s \in InOrder({gm \in DOMAIN member : member[gm].enabled}) :
          call' = [call EXCEPT ![c].pc = "route",
                               ![c].todo = [i \in 1..Len(s) |-> PublicId(ModelOf[s[i]])]]
  BY DEF ListMembers
<1> DEFINE todo == [i \in 1..Len(s) |-> PublicId(ModelOf[s[i]])]
           x == [call[c] EXCEPT !.pc = "route", !.todo = todo]
<1>2. s \in Seq(DOMAIN member)
  <2>1. IsFiniteSet(DOMAIN member)
    BY FS_Subset, FiniteRows DEF IInv, Rest
  <2> QED
    BY <2>1, InOrderType
<1>3. \A gm \in DOMAIN member : PublicId(ModelOf[gm]) \in Ids
  BY DEF IInv, TypeOK, PublicId, Ids
<1>4. todo \in Seq(Ids)
  BY <1>2, <1>3
<1>5. x \in Calls /\ Home(x)
  BY <1>4, CallType DEF Calls, Home
<1>6. call' = [call EXCEPT ![c] = x]
  BY <1>1
<1> QED
  BY <1>5, <1>6, CallStep DEF ListMembers, IInv, Rest

\* ResolveRoute: the model's row brings its provider.
LEMMA RouteModelStep ==
    ASSUME IInv, NEW c \in Callers, RouteModel(c)
    PROVE  IInv'
<1>1. CASE \E m \in Routes(Head(call[c].todo)) :
             call' = [call EXCEPT ![c].pc = "provider", ![c].model = m,
                                  ![c].provider = ProviderOf[m]]
  <2>1. PICK m \in Routes(Head(call[c].todo)) :
             call' = [call EXCEPT ![c].pc = "provider", ![c].model = m,
                                  ![c].provider = ProviderOf[m]]
    BY <1>1
  <2> DEFINE x == [call[c] EXCEPT !.pc = "provider", !.model = m, !.provider = ProviderOf[m]]
  <2>2. m \in Models /\ ProviderOf[m] \in Providers
    BY RoutingAssumption DEF Routes, IInv, Rest
  <2>3. x \in Calls /\ Home(x)
    BY <2>2, CallType DEF Calls, Home, RouteModel
  <2>4. call' = [call EXCEPT ![c] = x]
    BY <2>1
  <2> QED
    BY <2>3, <2>4, CallStep DEF RouteModel, IInv, Rest
<1>2. CASE GiveUp(c)
  BY <1>2, GiveUpStep DEF RouteModel
<1> QED
  BY <1>1, <1>2 DEF RouteModel

\* ResolveRoute's second statement, and the policy EligibleKeys reads.
LEMMA ProviderSteps ==
    ASSUME IInv, NEW c \in Callers, RouteProvider(c) \/ KeyPolicy(c)
    PROVE  IInv'
<1>1. call[c].todo # <<>>
  BY CallType DEF Home, RouteProvider, KeyPolicy
<1>2. CASE GiveUp(c)
  BY <1>1, <1>2, GiveUpStep DEF RouteProvider, KeyPolicy
<1>3. CASE RouteProvider(c) /\ ~GiveUp(c)
  <2> DEFINE x == [call[c] EXCEPT !.pc = "policy"]
  <2>1. x \in Calls /\ Home(x)
    BY <1>3, CallType DEF Calls, Home, RouteProvider
  <2>2. call' = [call EXCEPT ![c] = x]
    BY <1>3 DEF RouteProvider
  <2> QED
    BY <1>3, <2>1, <2>2, CallStep DEF RouteProvider, IInv, Rest
<1>4. CASE KeyPolicy(c) /\ ~GiveUp(c)
  <2> DEFINE x == [call[c] EXCEPT !.pc = "keys",
                                  !.rr = provider[call[c].provider].policy = "round_robin"]
  <2>1. x \in Calls /\ Home(x)
    BY <1>4, CallType DEF Calls, Home, KeyPolicy
  <2>2. call' = [call EXCEPT ![c] = x]
    BY <1>4 DEF KeyPolicy
  <2> QED
    BY <1>4, <2>1, <2>2, CallStep DEF KeyPolicy, IInv, Rest
<1> QED
  BY <1>2, <1>3, <1>4

\* A target with credentials of the resolution's provider joins the plan.
LEMMA AddTargetStep ==
    ASSUME IInv, NEW c \in Callers, NEW ks \in Seq(Keys), AddTarget(c, ks),
           call[c].pc \in {"keys", "rotate"},
           \A k \in Elems(ks) : ProviderOf[k] = call[c].provider,
           UNCHANGED catalog, \A d \in DOMAIN cursor' : cursor'[d] \in Nat
    PROVE  IInv'
<1> DEFINE t == Target(c, ks)
           out == Append(call[c].out, t)
           x == [call[c] EXCEPT !.pc = "route", !.todo = Tail(call[c].todo), !.out = out]
<1>1. call[c] \in Calls /\ call[c].todo # <<>> /\ call[c].model \in Models
      /\ call[c].provider = ProviderOf[call[c].model]
  BY CallType DEF Home
<1>2. t \in [provider : Providers, model : Models, keys : Seq(Keys)] /\ IsHome(t)
  BY <1>1, RoutingAssumption DEF Target, IsHome
<1>3. out \in Plans /\ \A i \in 1..Len(out) : IsHome(out[i])
  <2>1. call[c].out \in Seq([provider : Providers, model : Models, keys : Seq(Keys)])
    BY CallType DEF Plans
  <2>2. \A i \in 1..Len(call[c].out) : IsHome(call[c].out[i])
    BY CallType DEF Home
  <2>3. out \in Plans
    BY <1>2, <2>1 DEF Plans
  <2>4. /\ Len(call[c].out) \in Nat
        /\ Len(out) = Len(call[c].out) + 1
        /\ \A i \in 1..Len(call[c].out) : out[i] = call[c].out[i]
        /\ out[Len(call[c].out) + 1] = t
    BY <1>2, <2>1, AppendProperties, LenProperties
  <2>5. \A i \in 1..Len(out) : IsHome(out[i])
    <3> SUFFICES ASSUME NEW i \in 1..Len(out)
                 PROVE  IsHome(out[i])
      OBVIOUS
    <3>1. CASE i <= Len(call[c].out)
      <4>1. i \in 1..Len(call[c].out) /\ out[i] = call[c].out[i]
        BY <2>1, <2>4, <3>1
      <4> QED
        BY <2>2, <4>1
    <3>2. CASE ~(i <= Len(call[c].out))
      <4>1. out[i] = t
        BY <2>4, <3>2
      <4> QED
        BY <1>2, <4>1
    <3> QED
      BY <3>1, <3>2
  <2> QED
    BY <2>3, <2>5
<1>4. Tail(call[c].todo) \in Seq(Ids)
  BY <1>1 DEF Calls
<1>5. x \in Calls
  BY <1>1, <1>3, <1>4 DEF Calls
<1>6. Home(x)
  <2>1. x.pc = "route" /\ x.out = out
    BY <1>1 DEF Calls
  <2> QED
    BY <1>3, <2>1 DEF Home
<1>7. call' = [call EXCEPT ![c] = x]
  BY DEF AddTarget
<1> QED
  BY <1>5, <1>6, <1>7, CallStep

\* A cursor's position is a number, and stays one when it is advanced.
LEMMA CursorType ==
    ASSUME IInv, NEW d
    PROVE  /\ CursorOf(d) \in Nat
           /\ Advance(d) => \A x \in DOMAIN cursor' : cursor'[x] \in Nat
<1>1. CursorOf(d) \in Nat
  BY DEF CursorOf, IInv, Rest
<1> QED
  BY <1>1 DEF Advance, IInv, Rest

\* EligibleKeys lists the enabled credentials of the resolution's provider.
LEMMA ListKeysStep ==
    ASSUME IInv, NEW c \in Callers, ListKeys(c)
    PROVE  IInv'
<1>1. PICK ks \in InOrder(EnabledKeys(call[c].provider)) :
          IF ks = <<>> THEN GiveUp(c)
          ELSE IF call[c].rr /\ Len(ks) > 1
          THEN call' = [call EXCEPT ![c].pc = "rotate", ![c].keys = ks]
          ELSE AddTarget(c, ks)
  BY DEF ListKeys
<1>2. ks \in Seq(Keys) /\ \A k \in Elems(ks) : ProviderOf[k] = call[c].provider
  <2>1. EnabledKeys(call[c].provider) \subseteq Keys
    BY DEF EnabledKeys, IInv, Rest
  <2>2. ks \in Seq(Keys) /\ Elems(ks) \subseteq EnabledKeys(call[c].provider)
    BY <2>1, FiniteRows, InOrderType
  <2> QED
    BY <2>2 DEF EnabledKeys
<1>3. call[c].pc = "keys" /\ call[c].todo # <<>>
  BY CallType DEF ListKeys, Home
<1>4. CASE ks = <<>>
  BY <1>1, <1>3, <1>4, GiveUpStep DEF ListKeys
<1>5. CASE ks # <<>> /\ call[c].rr /\ Len(ks) > 1
  <2> DEFINE x == [call[c] EXCEPT !.pc = "rotate", !.keys = ks]
  <2>1. x \in Calls
    BY <1>2, CallType DEF Calls
  <2>2. Home(x)
    <3>1. /\ x.pc = "rotate" /\ x.keys = ks /\ x.todo = call[c].todo /\ x.out = call[c].out
          /\ x.model = call[c].model /\ x.provider = call[c].provider
      BY CallType DEF Calls
    <3> QED
      BY <1>2, <1>3, <1>5, <3>1, CallType DEF Home
  <2>3. call' = [call EXCEPT ![c] = x]
    BY <1>1, <1>5
  <2> QED
    BY <2>1, <2>2, <2>3, CallStep DEF ListKeys, IInv, Rest
<1>6. CASE ks # <<>> /\ ~(call[c].rr /\ Len(ks) > 1)
  <2>1. AddTarget(c, ks)
    BY <1>1, <1>6
  <2>2. UNCHANGED catalog /\ \A d \in DOMAIN cursor' : cursor'[d] \in Nat
    BY DEF ListKeys, IInv, Rest
  <2> QED
    BY <1>2, <1>3, <2>1, <2>2, AddTargetStep
<1> QED
  BY <1>4, <1>5, <1>6

LEMMA RotateKeysStep ==
    ASSUME IInv, NEW c \in Callers, RotateKeys(c)
    PROVE  IInv'
<1> DEFINE d == Domain("provider", call[c].provider)
           list == call[c].keys
           n == CursorOf(d)
           ks == Rotated(list, n)
<1>1. call[c].pc = "rotate" /\ Advance(d) /\ AddTarget(c, ks) /\ UNCHANGED catalog
  BY DEF RotateKeys
<1>2. /\ call[c].keys \in Seq(Keys) /\ call[c].keys # <<>>
      /\ \A k \in Elems(call[c].keys) : ProviderOf[k] = call[c].provider
  BY <1>1, CallType DEF Calls, Home
<1>3. CursorOf(d) \in Nat /\ \A x \in DOMAIN cursor' : cursor'[x] \in Nat
  BY <1>1, CursorType
<1>4. /\ ks \in Seq(Keys) /\ Len(ks) = Len(list)
      /\ \A i \in 1..Len(ks) : \E j \in 1..Len(list) : ks[i] = list[j]
  <2>1. list \in Seq(Keys) /\ list # <<>> /\ n \in Nat
    BY <1>2, <1>3
  <2> HIDE DEF list, n
  <2> QED
    BY <2>1, RotatedType
<1>5. \A k \in Elems(ks) : ProviderOf[k] = call[c].provider
  <2>1. \A k \in Elems(list) : ProviderOf[k] = call[c].provider
    BY <1>2
  <2> HIDE DEF list, ks
  <2>2. Elems(ks) \subseteq Elems(list)
    BY <1>4 DEF Elems
  <2> QED
    BY <2>1, <2>2
<1>6. ks \in Seq(Keys) /\ call[c].pc \in {"keys", "rotate"}
  BY <1>1, <1>4
<1>7. \A x \in DOMAIN cursor' : cursor'[x] \in Nat
  BY <1>3
<1> HIDE DEF d, ks
<1> QED
  BY <1>1, <1>5, <1>6, <1>7, AddTargetStep

\* The plan is handed over, a round-robin group's from the next target on.
LEMMA ResolvedStep ==
    ASSUME IInv, NEW c \in Callers, Resolved(c)
    PROVE  IInv'
<1> DEFINE out == call[c].out
           spin == call[c].policy = "round_robin" /\ Len(out) > 1
           d == Domain("group", 1)
           plan == IF spin THEN Rotated(out, CursorOf(d)) ELSE out
<1>1. call[c].pc = "route" /\ UNCHANGED catalog
  BY DEF Resolved
<1>2. CASE out = <<>>
  <2> DEFINE x == [call[c] EXCEPT !.pc = "failed"]
  <2>1. x \in Calls /\ Home(x)
    BY CallType DEF Calls, Home
  <2>2. call' = [call EXCEPT ![c] = x] /\ UNCHANGED cursor
    BY <1>2 DEF Resolved
  <2> QED
    BY <1>1, <2>1, <2>2, CallStep DEF IInv, Rest
<1>3. CASE out # <<>>
  <2> DEFINE T == [provider : Providers, model : Models, keys : Seq(Keys)]
             x == [call[c] EXCEPT !.pc = "done", !.out = plan]
  <2>1. CursorOf(d) \in Nat /\ (Advance(d) => \A y \in DOMAIN cursor' : cursor'[y] \in Nat)
    BY CursorType
  <2>2. out \in Seq(T)
    BY CallType DEF Plans
  <2>3. /\ Rotated(out, CursorOf(d)) \in Seq(T)
        /\ Len(Rotated(out, CursorOf(d))) = Len(out)
        /\ \A i \in 1..Len(out) : \E j \in 1..Len(out) : Rotated(out, CursorOf(d))[i] = out[j]
    <3> HIDE DEF T, out, d
    <3> QED
      BY <1>3, <2>1, <2>2, RotatedType
  <2>4. /\ plan \in Plans /\ Len(plan) = Len(out)
        /\ \A i \in 1..Len(out) : \E j \in 1..Len(out) : plan[i] = out[j]
    BY <2>2, <2>3 DEF Plans
  <2>5. \A i \in 1..Len(out) : IsHome(out[i])
    BY CallType DEF Home
  <2>6. \A i \in 1..Len(plan) : IsHome(plan[i])
    BY <2>4, <2>5
  <2>7. x \in Calls
    BY <2>4, CallType DEF Calls
  <2>8. Home(x)
    <3>1. x.pc = "done" /\ x.out = plan
      BY CallType DEF Calls
    <3> QED
      BY <2>6, <3>1 DEF Home
  <2>9. call' = [call EXCEPT ![c] = x] /\ (Advance(d) \/ UNCHANGED cursor)
    BY <1>3 DEF Resolved
  <2> QED
    BY <1>1, <2>1, <2>7, <2>8, <2>9, CallStep DEF IInv, Rest
<1> QED
  BY <1>2, <1>3

-----------------------------------------------------------------------------
(* The administrators' edits *)

\* The tables after an edit: what TypeOK and Rest say of them.
Tables ==
    /\ DOMAIN provider \subseteq Providers
    /\ \A p \in DOMAIN provider :
          provider[p] \in [prefix : Prefixes, policy : Policies, enabled : BOOLEAN]
    /\ DOMAIN model \subseteq Models
    /\ \A m \in DOMAIN model : /\ model[m] \in [name : Names, enabled : BOOLEAN]
                               /\ ProviderOf[m] \in DOMAIN provider
    /\ DOMAIN key \subseteq Keys
    /\ \A k \in DOMAIN key : key[k] \in [enabled : BOOLEAN] /\ ProviderOf[k] \in DOMAIN provider
    /\ DOMAIN member \subseteq Members
    /\ \A gm \in DOMAIN member : /\ member[gm] \in [enabled : BOOLEAN]
                                 /\ ModelOf[gm] \in DOMAIN model
    /\ group \in Group \cup {None}

LEMMA EditStep ==
    ASSUME IInv, Edit, Tables'
    PROVE  IInv'
<1>1. TypeOK'
  BY DEF IInv, TypeOK, Edit, Tables
<1>2. Rest'
  BY DEF IInv, Rest, Edit, Tables
<1> QED
  BY <1>1, <1>2 DEF IInv, Edit, Home, IsHome

LEMMA ProviderEdits ==
    ASSUME IInv, NEW p \in DOMAIN provider, UpdateProvider(p) \/ DeleteProvider(p)
    PROVE  IInv'
<1>1. Tables
  BY DEF IInv, TypeOK, Rest, Tables
<1>2. CASE UpdateProvider(p)
  <2>1. Tables'
    BY <1>1, <1>2 DEF UpdateProvider, Tables
  <2> QED
    BY <1>2, <2>1, EditStep DEF UpdateProvider
<1>3. CASE DeleteProvider(p)
  <2>1. /\ DOMAIN provider' = DOMAIN provider \ {p}
        /\ DOMAIN model' = DOMAIN model \ {m \in Models : ProviderOf[m] = p}
        /\ DOMAIN key' = DOMAIN key \ {k \in Keys : ProviderOf[k] = p}
        /\ DOMAIN member' = DOMAIN member \ {gm \in Members : ProviderOf[ModelOf[gm]] = p}
        /\ \A x \in DOMAIN provider' : provider'[x] = provider[x]
        /\ \A x \in DOMAIN model' : model'[x] = model[x]
        /\ \A x \in DOMAIN key' : key'[x] = key[x]
        /\ \A x \in DOMAIN member' : member'[x] = member[x]
    BY <1>3 DEF DeleteProvider, Drop
  <2>2. Tables'
    BY <1>1, <1>3, <2>1 DEF DeleteProvider, Tables
  <2> QED
    BY <1>3, <2>2, EditStep DEF DeleteProvider
<1> QED
  BY <1>2, <1>3

LEMMA ModelEdits ==
    ASSUME IInv, NEW m \in DOMAIN model, UpdateModel(m) \/ DeleteModel(m)
    PROVE  IInv'
<1>1. Tables
  BY DEF IInv, TypeOK, Rest, Tables
<1>2. CASE UpdateModel(m)
  <2>1. Tables'
    BY <1>1, <1>2 DEF UpdateModel, Tables
  <2> QED
    BY <1>2, <2>1, EditStep DEF UpdateModel
<1>3. CASE DeleteModel(m)
  <2>1. /\ DOMAIN model' = DOMAIN model \ {m}
        /\ DOMAIN member' = DOMAIN member \ {gm \in Members : ModelOf[gm] = m}
        /\ \A x \in DOMAIN model' : model'[x] = model[x]
        /\ \A x \in DOMAIN member' : member'[x] = member[x]
    BY <1>3 DEF DeleteModel, Drop
  <2>2. Tables'
    BY <1>1, <1>3, <2>1 DEF DeleteModel, Tables
  <2> QED
    BY <1>3, <2>2, EditStep DEF DeleteModel
<1> QED
  BY <1>2, <1>3

LEMMA KeyEdits ==
    ASSUME IInv, NEW k \in DOMAIN key, UpdateProviderKey(k) \/ DeleteProviderKey(k)
    PROVE  IInv'
<1>1. Tables
  BY DEF IInv, TypeOK, Rest, Tables
<1>2. Edit
  BY DEF UpdateProviderKey, DeleteProviderKey
<1>3. CASE UpdateProviderKey(k)
  <2>1. Tables'
    BY <1>1, <1>3 DEF UpdateProviderKey, Tables
  <2> QED
    BY <1>2, <2>1, EditStep
<1>4. CASE DeleteProviderKey(k)
  <2>1. DOMAIN key' = DOMAIN key \ {k} /\ \A x \in DOMAIN key' : key'[x] = key[x]
    BY <1>4 DEF DeleteProviderKey, Drop
  <2>2. Tables'
    BY <1>1, <1>4, <2>1 DEF DeleteProviderKey, Tables
  <2> QED
    BY <1>2, <2>2, EditStep
<1> QED
  BY <1>3, <1>4

LEMMA GroupEdits ==
    ASSUME IInv,
           \/ \E gm \in DOMAIN member : UpdateGroupMember(gm) \/ DeleteGroupMember(gm)
           \/ EditGroup
    PROVE  IInv'
<1>1. Tables
  BY DEF IInv, TypeOK, Rest, Tables
<1>2. Edit
  BY DEF UpdateGroupMember, DeleteGroupMember, EditGroup
<1>3. ASSUME NEW gm \in DOMAIN member, UpdateGroupMember(gm)
      PROVE  Tables'
  BY <1>1, <1>3 DEF UpdateGroupMember, Tables
<1>4. ASSUME NEW gm \in DOMAIN member, DeleteGroupMember(gm)
      PROVE  Tables'
  <2>1. DOMAIN member' = DOMAIN member \ {gm} /\ \A x \in DOMAIN member' : member'[x] = member[x]
    BY <1>4 DEF DeleteGroupMember, Drop
  <2> QED
    BY <1>1, <1>4, <2>1 DEF DeleteGroupMember, Tables
<1>5. ASSUME EditGroup
      PROVE  Tables'
  <2>1. CASE \E sel \in Policies, on \in BOOLEAN : group' = [policy |-> sel, enabled |-> on]
    <3>1. group' \in Group
      BY <2>1, RoutingAssumption DEF Group
    <3>2. UNCHANGED <<provider, model, key>> /\ (UNCHANGED member \/ member' = Drop(member, Members))
      BY <1>5 DEF EditGroup
    <3>3. DOMAIN member' \subseteq DOMAIN member /\ \A x \in DOMAIN member' : member'[x] = member[x]
      BY <3>2 DEF Drop
    <3> QED
      BY <1>1, <3>1, <3>2, <3>3 DEF Tables
  <2>2. CASE group' = None /\ member' = Drop(member, Members)
    <3>1. DOMAIN member' \subseteq DOMAIN member /\ \A x \in DOMAIN member' : member'[x] = member[x]
      BY <2>2 DEF Drop
    <3> QED
      BY <1>1, <1>5, <2>2, <3>1 DEF EditGroup, Tables
  <2> QED
    BY <1>5, <2>1, <2>2 DEF EditGroup
<1> QED
  BY <1>2, <1>3, <1>4, <1>5, EditStep

-----------------------------------------------------------------------------
(* The theorems *)

LEMMA InitInvariant == Init => IInv
<1> SUFFICES ASSUME Init
             PROVE  IInv
  OBVIOUS
<1>1. Idle \in Calls /\ Home(Idle)
  BY DEF Idle, Calls, Plans, Home
<1>2. call \in [Callers -> Calls] /\ \A c \in Callers : Home(call[c])
  BY <1>1 DEF Init
<1>3. /\ DOMAIN provider = Providers /\ DOMAIN model = Models
      /\ DOMAIN key = Keys /\ DOMAIN member = Members
  BY DEF Init
<1>4. /\ \A p \in Providers : provider[p] \in [prefix : Prefixes, policy : Policies, enabled : BOOLEAN]
      /\ \A m \in Models : model[m] \in [name : Names, enabled : BOOLEAN]
      /\ \A k \in Keys : key[k] \in [enabled : BOOLEAN]
      /\ \A gm \in Members : member[gm] \in [enabled : BOOLEAN]
  BY DEF Init
<1>5. /\ \A x \in Models \cup Keys : ProviderOf[x] \in Providers
      /\ \A gm \in Members : ModelOf[gm] \in Models
  BY RoutingAssumption
<1>6. TypeOK
  BY <1>2, <1>3, <1>4, <1>5 DEF TypeOK
<1>7. Rest
  <2>1. group \in Group
    BY RoutingAssumption DEF Init, Group
  <2> QED
    BY <1>3, <2>1 DEF Init, Rest
<1> QED
  BY <1>2, <1>6, <1>7 DEF IInv

LEMMA NextInvariant == IInv /\ [Next]_vars => IInv'
<1> SUFFICES ASSUME IInv, [Next]_vars
             PROVE  IInv'
  OBVIOUS
<1>1. ASSUME NEW c \in Callers, Resolve(c)
      PROVE  IInv'
  BY <1>1, StartSteps, ListMembersStep, RouteModelStep, ProviderSteps, ListKeysStep,
     RotateKeysStep, ResolvedStep DEF Resolve
<1>2. CASE Administer
  BY <1>2, ProviderEdits, ModelEdits, KeyEdits, GroupEdits DEF Administer
<1>3. CASE UNCHANGED vars
  BY <1>3 DEF vars, catalog, IInv, TypeOK, Rest, Home, IsHome
<1> QED
  BY <1>1, <1>2, <1>3 DEF Next

\* Every reachable state: the tables keep their references, every resolution is
\* well typed, and what it has collected belongs together.
THEOREM RoutingInvariant == Spec => []IInv
BY InitInvariant, NextInvariant, PTL DEF Spec

\* Foreign keys and their cascades keep every reference, and every resolution's
\* locals are well typed, whatever administrators edit meanwhile.
THEOREM TypeCorrect == Spec => []TypeOK
<1>1. IInv => TypeOK
  BY DEF IInv
<1> QED
  BY <1>1, RoutingInvariant, PTL

\* No credential is ever handed over for another provider's model, for any
\* catalog, callers and edits.
THEOREM SecretsStayHome == Spec => []CredentialsStayHome
<1>1. IInv => CredentialsStayHome
  BY DEF IInv, Home, IsHome, CredentialsStayHome
<1> QED
  BY <1>1, RoutingInvariant, PTL
=============================================================================
