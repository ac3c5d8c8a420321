------------------------------ MODULE Routing ------------------------------
(***************************************************************************)
(* How the daemon turns the model a client names into targets: a direct     *)
(* prefix/model call, or a group, whose members are resolved one after the  *)
(* other, each to its provider and that provider's enabled credentials, in  *)
(* order or rotated by a round-robin cursor.                                *)
(*                                                                         *)
(* A resolution is a series of database statements and cursor calls, and    *)
(* administrators edit the catalog between any two of them. Rows are        *)
(* identified by their AUTOINCREMENT ids, so a deleted id never comes back. *)
(* Credentials and members keep the order they start in (their reordering   *)
(* is not part of this module); so an id stands for its place.              *)
(***************************************************************************)
EXTENDS Integers, Sequences, FiniteSets

CONSTANTS
    Providers, Models, Keys, Members, \* row ids of the four tables
    ProviderOf,   \* models.provider_id and provider_keys.provider_id: never updated
    ModelOf,      \* group_members.model_id: never updated
    Prefixes,     \* provider prefixes
    Names,        \* model names
    Policies,     \* key_selection and group selection at the start
    Callers,      \* requests being resolved at the same time
    None,
    MaxCalls,     \* bound: resolutions
    MaxEdits      \* bound: administrators' edits

ASSUME RoutingAssumption ==
    /\ Models \cup Keys \cup Members \subseteq Nat
    /\ IsFiniteSet(Models \cup Keys \cup Members)
    /\ Models \cap Keys = {}
    /\ ProviderOf \in [Models \cup Keys -> Providers]
    /\ ModelOf \in [Members -> Models]
    /\ Policies \subseteq {"first", "round_robin"}

VARIABLES
    provider,   \* providers: by id, its prefix, policy and enabled flag
    model,      \* models: by id, its name and enabled flag
    key,        \* provider_keys: by id, its enabled flag
    member,     \* group_members of the group: by id, its enabled flag
    group,      \* the group's row: its policy and enabled flag
    cursor,     \* Service.rrCursors
    call,       \* the resolution each caller runs: its locals
    turns,      \* how often a credential (a model) headed a rotated list
    calls, edits

catalog == <<provider, model, key, member, group, edits>>
vars == <<catalog, cursor, call, turns, calls>>

\* The rows of a set, in ascending order: what ORDER BY returns.
InOrder(S) == {s \in [1..Cardinality(S) -> S] :
                  \A i, j \in 1..Cardinality(S) : i < j => s[i] < s[j]}
Elems(s) == {s[i] : i \in 1..Len(s)}

Drop(f, S) == [x \in DOMAIN f \ S |-> f[x]]

\* Mutation: the list is read without wrapping round.
RotatedShort(s, c) == SubSeq(s, (c % Len(s)) + 1, Len(s))

\* ordered[i] = enabled[(cursor+i) % n].
Rotated(s, c) == [i \in 1..Len(s) |-> s[((c + i - 1) % Len(s)) + 1]]

-----------------------------------------------------------------------------
(* Resolutions *)

Idle == [pc |-> "idle", grouped |-> FALSE, policy |-> "first", todo |-> <<>>,
         provider |-> None, model |-> None, rr |-> FALSE, keys |-> <<>>,
         out |-> <<>>, since |-> 0]

\* The public ids a resolution still has to look up, prefix and name.
PublicId(m) == <<provider[ProviderOf[m]].prefix, model[m].name>>

\* resolveTargets of a model reference.
CallModel(c) ==
    /\ call[c].pc = "idle" /\ calls < MaxCalls
    /\ \E x \in Prefixes, n \in Names :
          call' = [call EXCEPT ![c] = [Idle EXCEPT !.pc = "route", !.todo = <<<<x, n>>>>,
                                                   !.since = edits]]
    /\ calls' = calls + 1
    /\ UNCHANGED <<catalog, cursor, turns>>

\* ResolveGroupTargets: the group's row; an unknown or disabled one is no route.
CallGroup(c) ==
    /\ call[c].pc = "idle" /\ calls < MaxCalls
    /\ call' = [call EXCEPT ![c] =
          [Idle EXCEPT !.pc = IF group # None /\ group.enabled THEN "members" ELSE "failed",
                       !.grouped = TRUE, !.since = edits,
                       !.policy = IF group # None THEN group.policy ELSE "first"]]
    /\ calls' = calls + 1
    /\ UNCHANGED <<catalog, cursor, turns>>

\* Its members joined with their models and providers; disabled ones are skipped.
ListMembers(c) ==
    /\ call[c].pc = "members"
    /\ \E s \in InOrder({gm \in DOMAIN member : member[gm].enabled}) :
          call' = [call EXCEPT ![c].pc = "route",
                               ![c].todo = [i \in 1..Len(s) |-> PublicId(ModelOf[s[i]])]]
    /\ UNCHANGED <<catalog, cursor, turns, calls>>

\* A member that does not resolve is skipped; a direct call fails.
GiveUp(c) ==
    call' = [call EXCEPT ![c].pc = IF call[c].grouped THEN "route" ELSE "failed",
                         ![c].todo = Tail(call[c].todo)]

\* ResolveRoute, first statement: the enabled model of that name under the
\* enabled provider of that prefix.
Routes(id) == {m \in DOMAIN model :
                 /\ ProviderOf[m] \in DOMAIN provider
                 /\ PublicId(m) = id
                 /\ model[m].enabled /\ provider[ProviderOf[m]].enabled}

RouteModel(c) ==
    /\ call[c].pc = "route" /\ call[c].todo # <<>>
    /\ \/ \E m \in Routes(Head(call[c].todo)) :
             call' = [call EXCEPT ![c].pc = "provider", ![c].model = m,
                                  ![c].provider = ProviderOf[m]]
       \/ Routes(Head(call[c].todo)) = {} /\ GiveUp(c)
    /\ UNCHANGED <<catalog, cursor, turns, calls>>

\* ResolveRoute, second statement: the provider's row.
RouteProvider(c) ==
    /\ call[c].pc = "provider"
    /\ IF call[c].provider \in DOMAIN provider
       THEN call' = [call EXCEPT ![c].pc = "policy"]
       ELSE GiveUp(c)
    /\ UNCHANGED <<catalog, cursor, turns, calls>>

\* EligibleKeys reads the provider once more, for its key selection.
KeyPolicy(c) ==
    /\ call[c].pc = "policy"
    /\ IF call[c].provider \in DOMAIN provider
       THEN call' = [call EXCEPT ![c].pc = "keys",
                        ![c].rr = provider[call[c].provider].policy = "round_robin"]
       ELSE GiveUp(c)
    /\ UNCHANGED <<catalog, cursor, turns, calls>>

Target(c, ks) == [provider |-> call[c].provider, model |-> call[c].model, keys |-> ks]

\* The candidate is complete: on to the next member, or to the end.
AddTarget(c, ks) ==
    call' = [call EXCEPT ![c].pc = "route", ![c].todo = Tail(call[c].todo),
                         ![c].out = Append(call[c].out, Target(c, ks))]

\* Mutation: the credentials are found by the prefix the member was listed with.
EnabledKeysByPrefix(p) ==
    {k \in DOMAIN key : ProviderOf[k] \in DOMAIN provider /\ key[k].enabled
                          /\ \E c \in Callers : call[c].pc = "keys" /\ call[c].provider = p
                                 /\ provider[ProviderOf[k]].prefix = Head(call[c].todo)[1]}

\* EligibleKeys lists the provider's credentials and keeps the enabled ones.
EnabledKeys(p) == {k \in DOMAIN key : ProviderOf[k] = p /\ key[k].enabled}

ListKeys(c) ==
    /\ call[c].pc = "keys"
    /\ \E ks \in InOrder(EnabledKeys(call[c].provider)) :
          IF ks = <<>> THEN GiveUp(c)
          ELSE IF call[c].rr /\ Len(ks) > 1
          THEN call' = [call EXCEPT ![c].pc = "rotate", ![c].keys = ks]
          ELSE AddTarget(c, ks)
    /\ UNCHANGED <<catalog, cursor, turns, calls>>

\* Mutation: the counters of groups and providers are not kept apart.
DomainShared(kind, id) == <<"list", 1>>

\* nextRoundRobinCursor: one counter per rotated list, under rrMu.
Domain(kind, id) == <<kind, id>>

CursorOf(d) == IF d \in DOMAIN cursor THEN cursor[d] ELSE 0
Advance(d) == cursor' = [x \in DOMAIN cursor \cup {d} |->
                            IF x = d THEN CursorOf(d) + 1 ELSE cursor[x]]

RotateKeys(c) ==
    /\ call[c].pc = "rotate"
    /\ LET d == Domain("provider", call[c].provider)
           ks == Rotated(call[c].keys, CursorOf(d))
       IN  /\ Advance(d)
           /\ AddTarget(c, ks)
           /\ turns' = [turns EXCEPT ![ks[1]] = @ + 1]
    /\ UNCHANGED <<catalog, calls>>

\* Everything is resolved. A group without a candidate has no targets; a
\* round-robin group starts at the next one.
Resolved(c) ==
    /\ call[c].pc = "route" /\ call[c].todo = <<>>
    /\ IF call[c].out = <<>>
       THEN /\ call' = [call EXCEPT ![c].pc = "failed"]
            /\ UNCHANGED <<cursor, turns>>
       ELSE LET spin == call[c].policy = "round_robin" /\ Len(call[c].out) > 1
                d == Domain("group", 1)
                plan == IF spin THEN Rotated(call[c].out, CursorOf(d)) ELSE call[c].out
            IN  /\ call' = [call EXCEPT ![c].pc = "done", ![c].out = plan]
                /\ IF spin THEN Advance(d) ELSE UNCHANGED cursor
                /\ turns' = IF spin THEN [turns EXCEPT ![plan[1].model] = @ + 1] ELSE turns
    /\ UNCHANGED <<catalog, calls>>

\* The gateway has taken the plan, or answered that there is none.
Return(c) ==
    /\ call[c].pc \in {"done", "failed"}
    /\ call' = [call EXCEPT ![c] = Idle]
    /\ UNCHANGED <<catalog, cursor, turns, calls>>

-----------------------------------------------------------------------------
(* Edits of the catalog, one statement or transaction each *)

Edit == /\ edits < MaxEdits
        /\ edits' = edits + 1
        /\ UNCHANGED <<cursor, call, turns, calls>>

\* UpdateProvider; prefixes are UNIQUE.
UpdateProvider(p) ==
    /\ Edit
    /\ \E x \in Prefixes, sel \in Policies, on \in BOOLEAN :
          /\ \A q \in DOMAIN provider \ {p} : provider[q].prefix # x
          /\ provider' = [provider EXCEPT ![p] = [prefix |-> x, policy |-> sel, enabled |-> on]]
    /\ UNCHANGED <<model, key, member, group>>

\* Mutation: the memberships of the provider's models stay.
DeleteProviderNoCascade(p) ==
    /\ Edit
    /\ provider' = Drop(provider, {p})
    /\ model' = Drop(model, {m \in Models : ProviderOf[m] = p})
    /\ key' = Drop(key, {k \in Keys : ProviderOf[k] = p})
    /\ UNCHANGED <<member, group>>

\* DeleteProvider: credentials, models and their memberships cascade.
DeleteProvider(p) ==
    /\ Edit
    /\ provider' = Drop(provider, {p})
    /\ model' = Drop(model, {m \in Models : ProviderOf[m] = p})
    /\ key' = Drop(key, {k \in Keys : ProviderOf[k] = p})
    /\ member' = Drop(member, {gm \in Members : ProviderOf[ModelOf[gm]] = p})
    /\ UNCHANGED group

\* UpdateModel; (provider_id, name) is UNIQUE.
UpdateModel(m) ==
    /\ Edit
    /\ \E n \in Names, on \in BOOLEAN :
          /\ \A q \in DOMAIN model \ {m} : ProviderOf[q] = ProviderOf[m] => model[q].name # n
          /\ model' = [model EXCEPT ![m] = [name |-> n, enabled |-> on]]
    /\ UNCHANGED <<provider, key, member, group>>

DeleteModel(m) ==
    /\ Edit
    /\ model' = Drop(model, {m})
    /\ member' = Drop(member, {gm \in Members : ModelOf[gm] = m})
    /\ UNCHANGED <<provider, key, group>>

UpdateProviderKey(k) ==
    /\ Edit
    /\ key' = [key EXCEPT ![k].enabled = ~@]
    /\ UNCHANGED <<provider, model, member, group>>

DeleteProviderKey(k) ==
    /\ Edit
    /\ key' = Drop(key, {k})
    /\ UNCHANGED <<provider, model, member, group>>

UpdateGroupMember(gm) ==
    /\ Edit
    /\ member' = [member EXCEPT ![gm].enabled = ~@]
    /\ UNCHANGED <<provider, model, key, group>>

DeleteGroupMember(gm) ==
    /\ Edit
    /\ member' = Drop(member, {gm})
    /\ UNCHANGED <<provider, model, key, group>>

\* UpdateGroup and SetGroupSelection; DeleteGroup, whose members cascade.
EditGroup ==
    /\ Edit
    /\ group # None
    /\ \/ /\ \E sel \in Policies, on \in BOOLEAN : group' = [policy |-> sel, enabled |-> on]
          /\ UNCHANGED member
       \/ group' = None /\ member' = Drop(member, Members)
    /\ UNCHANGED <<provider, model, key>>

-----------------------------------------------------------------------------
(* Specification *)

\* Every provider has a prefix of its own, and its models names of their own.
Init ==
    /\ provider \in [Providers -> [prefix : Prefixes, policy : Policies, enabled : {TRUE}]]
    /\ \A p, q \in Providers : p # q => provider[p].prefix # provider[q].prefix
    /\ model \in [Models -> [name : Names, enabled : {TRUE}]]
    /\ \A m, n \in Models : m < n /\ ProviderOf[m] = ProviderOf[n] => model[m].name # model[n].name
    /\ key = [k \in Keys |-> [enabled |-> TRUE]]
    /\ member = [gm \in Members |-> [enabled |-> TRUE]]
    /\ group \in [policy : Policies, enabled : {TRUE}]
    /\ cursor = <<>>
    /\ call = [c \in Callers |-> Idle]
    /\ turns = [x \in Keys \cup Models |-> 0]
    /\ calls = 0 /\ edits = 0

Resolve(c) ==
    \/ CallModel(c) \/ CallGroup(c) \/ ListMembers(c) \/ RouteModel(c) \/ RouteProvider(c)
    \/ KeyPolicy(c) \/ ListKeys(c) \/ RotateKeys(c) \/ Resolved(c) \/ Return(c)

Administer ==
    \/ \E p \in DOMAIN provider : UpdateProvider(p) \/ DeleteProvider(p)
    \/ \E m \in DOMAIN model : UpdateModel(m) \/ DeleteModel(m)
    \/ \E k \in DOMAIN key : UpdateProviderKey(k) \/ DeleteProviderKey(k)
    \/ \E gm \in DOMAIN member : UpdateGroupMember(gm) \/ DeleteGroupMember(gm)
    \/ EditGroup

Next == (\E c \in Callers : Resolve(c)) \/ Administer

Spec == Init /\ [][Next]_vars

-----------------------------------------------------------------------------
(* Properties *)

Ids == Prefixes \X Names
Plans == Seq([provider : Providers, model : Models, keys : Seq(Keys)])
Calls == [pc : {"idle", "members", "route", "provider", "policy", "keys", "rotate",
                "done", "failed"},
          grouped : BOOLEAN, policy : {"first", "round_robin"}, todo : Seq(Ids),
          provider : Providers \cup {None}, model : Models \cup {None}, rr : BOOLEAN,
          keys : Seq(Keys), out : Plans, since : Nat]

\* Type correctness, with the references the foreign keys keep: every model
\* and credential row has its provider's row, every member its model's.
TypeOK ==
    /\ DOMAIN provider \subseteq Providers
    /\ \A p \in DOMAIN provider :
          provider[p] \in [prefix : Prefixes, policy : Policies, enabled : BOOLEAN]
    /\ \A m \in DOMAIN model : /\ model[m] \in [name : Names, enabled : BOOLEAN]
                               /\ ProviderOf[m] \in DOMAIN provider
    /\ \A k \in DOMAIN key : key[k] \in [enabled : BOOLEAN] /\ ProviderOf[k] \in DOMAIN provider
    /\ \A gm \in DOMAIN member : /\ member[gm] \in [enabled : BOOLEAN]
                                 /\ ModelOf[gm] \in DOMAIN model
    /\ call \in [Callers -> Calls]

\* A credential is only ever handed over together with its own provider and a
\* model of it, whatever was renamed, deleted or disabled while the call was
\* being resolved: a secret cannot go to another provider's URL.
CredentialsStayHome ==
    \A c \in Callers : \A i \in 1..Len(call[c].out) : LET t == call[c].out[i] IN
        /\ ProviderOf[t.model] = t.provider
        /\ \A k \in Elems(t.keys) : ProviderOf[k] = t.provider

\* Distinct ids in ascending order, starting anywhere.
IsRotation(s) == Cardinality({i \in 1..Len(s) : s[i] > s[(i % Len(s)) + 1]}) <= 1
Ascending(s) == \A i \in 1..(Len(s) - 1) : s[i] < s[i + 1]

\* The targets a group call has now: its enabled members whose model, provider
\* and at least one credential are enabled.
Available == {gm \in DOMAIN member :
                /\ member[gm].enabled
                /\ model[ModelOf[gm]].enabled
                /\ provider[ProviderOf[ModelOf[gm]]].enabled
                /\ EnabledKeys(ProviderOf[ModelOf[gm]]) # {}}
Place(m) == CHOOSE gm \in Members : ModelOf[gm] = m

\* Whatever was edited meanwhile, a plan is one the gateway can use (its
\* PlansAssumption): it has a target, each target a credential, none of them
\* twice. A resolution no edit overlapped hands over exactly what is
\* configured: all available members, each with all enabled credentials of its
\* provider, in their order, rotated only where the policy is round robin; and
\* it fails only when there is none.
ResolvesTheCatalog ==
    \A c \in Callers :
        LET out == call[c].out
            places == [i \in 1..Len(out) |-> Place(out[i].model)]
        IN
        /\ call[c].pc = "done" =>
              /\ out # <<>>
              /\ \A i \in 1..Len(out) : LET ks == out[i].keys IN
                    ks # <<>> /\ \A a, b \in 1..Len(ks) : ks[a] = ks[b] => a = b
        /\ call[c].pc \in {"done", "failed"} /\ call[c].since = edits =>
              /\ \A i \in 1..Len(out) : LET t == out[i] IN
                    /\ model[t.model].enabled /\ provider[t.provider].enabled
                    /\ Elems(t.keys) = EnabledKeys(t.provider) /\ IsRotation(t.keys)
                    /\ provider[t.provider].policy = "first" => Ascending(t.keys)
              /\ call[c].grouped =>
                    /\ Elems(places) = IF group # None /\ group.enabled THEN Available ELSE {}
                    /\ IsRotation(places)
                    /\ group # None /\ group.policy = "first" => Ascending(places)
                    /\ call[c].pc = "failed" <=> out = <<>>

\* As long as nobody edits the catalog, rotation is fair: no credential of a
\* provider, and no member of the group its rotated list more than once
\* more often than another. The counters do not disturb each other.
RotationIsFair ==
    edits = 0 =>
        /\ \A k, l \in Keys : ProviderOf[k] = ProviderOf[l] => turns[k] <= turns[l] + 1
        /\ \A gm, hm \in Available : turns[ModelOf[gm]] <= turns[ModelOf[hm]] + 1

=============================================================================
