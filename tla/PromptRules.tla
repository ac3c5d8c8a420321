---------------------------- MODULE PromptRules ----------------------------
(***************************************************************************)
(* The system-prompt rules of the daemon: the tables administrators edit,    *)
(* the cache the gateway resolves requests from, and the lock and the single *)
(* database connection the two sides meet at.                                *)
(*                                                                         *)
(* A save validates outside its transaction, writes and commits inside it,   *)
(* and drops the cache afterwards. A request that finds no cache loads it    *)
(* under the write lock, with two statements.                                *)
(***************************************************************************)
EXTENDS Integers, Sequences, FiniteSets

CONSTANTS
    Rules,        \* ids prompt_rules can hand out (AUTOINCREMENT), a bound
    NameOf,       \* the name of a rule
    Groups, Models, Providers,
    ProviderOf,   \* models.provider_id
    FirstRules,   \* the rules at the start, with FirstClaims, those of
    FirstClaims,  \* FirstInherit leaving the global prompt on
    FirstInherit,
    Readers,      \* requests resolving their rules
    Admins,       \* administrators' calls
    Names,        \* values of the X-Pogu-Prompt header
    None,
    MaxAsks, MaxEdits, MaxFaults  \* bounds: resolutions, edits, failed loads

Targets == Groups \cup Models

ASSUME PromptRulesAssumption ==
    /\ NameOf \in [Rules -> Names]
    /\ ProviderOf \in [Models -> Providers]
    /\ IsFiniteSet(FirstRules) /\ FirstRules = 1..Cardinality(FirstRules)
    /\ Rules = 1..(Cardinality(FirstRules) + MaxEdits)
    /\ FirstClaims \subseteq FirstRules \X Targets
    /\ FirstInherit \subseteq FirstRules
    /\ \A c, d \in FirstClaims : c[2] = d[2] => c = d
    /\ None \notin Targets \cup Names \cup Readers

VARIABLES
    rule,       \* prompt_rules: by id, its flags and position
    claims,     \* prompt_rule_targets: pairs of a rule and its target
    alive,      \* the rows of groups and models
    used,       \* ids handed out so far
    cache,      \* Service.promptLoaded, promptRules
    poisoned,   \* the cache holds what a failed load left
    mu,         \* who holds promptMu for writing
    conn,       \* whose transaction holds the connection
    reader,     \* resolvePromptSegments: its locals
    admin,      \* an administrator's call: its locals
    asks, edits, faults

tables == <<rule, claims, alive, used>>
vars == <<tables, cache, poisoned, mu, conn, reader, admin, asks, edits, faults>>

-----------------------------------------------------------------------------
(* The tables, as a load reads them *)

\* ORDER BY position, id.
Before(i, j) == \/ rule[i].position < rule[j].position
                \/ rule[i].position = rule[j].position /\ i < j
Ordered(S) == CHOOSE s \in [1..Cardinality(S) -> S] :
                 \A i, j \in 1..Cardinality(S) : i < j => Before(s[i], s[j])

\* The rows of the first statement, and of the second for each of them.
Rows == LET s == Ordered(DOMAIN rule) IN
    [i \in 1..Len(s) |-> [id |-> s[i], inherit |-> rule[s[i]].inherit,
                          enabled |-> rule[s[i]].enabled, on |-> {}]]
Attach(rows) ==
    [i \in 1..Len(rows) |->
        [rows[i] EXCEPT !.on = {t \in Targets : <<rows[i].id, t>> \in claims}]]

-----------------------------------------------------------------------------
(* Resolving *)

Matches(row, ask) == row.enabled /\ row.on \cap {ask.group, ask.model} # {}
Flags(rows, t) == {rows[i].inherit : i \in {j \in 1..Len(rows) : rows[j].enabled /\ t \in rows[j].on}}

\* Mutation: the group's rule decides even when the model has one.
SuppressedByGroup(rows, ask) ==
    LET flags == IF Flags(rows, ask.group) # {} THEN Flags(rows, ask.group)
                 ELSE Flags(rows, ask.model)
    IN  FALSE \in flags

\* The model's rule decides on the global prompt, then the group's.
Suppressed(rows, ask) ==
    LET flags == IF Flags(rows, ask.model) # {} THEN Flags(rows, ask.model)
                 ELSE Flags(rows, ask.group)
    IN  FALSE \in flags

\* ResolvePromptRules and PromptRuleByName, on a snapshot.
Resolution(rows, ask) ==
    LET hits == SelectSeq(rows, LAMBDA row : Matches(row, ask)) IN
    [segments |-> [i \in 1..Len(hits) |-> hits[i].id], suppressed |-> Suppressed(rows, ask)]

Named(rows, name) == {i \in 1..Len(rows) : rows[i].enabled /\ NameOf[rows[i].id] = name}
ByName(rows, name) ==
    LET first == rows[CHOOSE i \in Named(rows, name) : \A j \in Named(rows, name) : i <= j] IN
    [segments |-> <<first.id>>, suppressed |-> ~first.inherit]

Nothing == [segments |-> <<>>, suppressed |-> FALSE]
NoAsk == [group |-> None, model |-> None, name |-> None]
ReaderIdle == [pc |-> "idle", ask |-> NoAsk, wanted |-> NoAsk, rows |-> <<>>,
               out |-> Nothing, clean |-> TRUE, poisoned |-> FALSE]

\* Whether an administrator's call is under way.
Editing == \E a \in Admins : admin[a].pc # "idle"

\* A target of the request is about to be called: a model, through a group or
\* not, with an X-Pogu-Prompt header or not.
Ask(r) ==
    /\ reader[r].pc = "idle" /\ asks < MaxAsks
    /\ \E g \in Groups \cup {None}, m \in Models, name \in Names \cup {None} :
          LET ask == [group |-> g, model |-> m, name |-> name] IN
          reader' = [reader EXCEPT ![r] = [ReaderIdle EXCEPT
              !.pc = "fast", !.ask = ask, !.wanted = ask, !.clean = ~Editing]]
    /\ asks' = asks + 1
    /\ UNCHANGED <<tables, cache, poisoned, mu, conn, admin, edits, faults>>

\* A snapshot is there. An override that names no enabled rule falls back on
\* ResolvePromptRules, which takes a snapshot of its own.
Answer(r, rows, bad) ==
    LET ask == reader[r].ask IN
    [reader[r] EXCEPT
        !.pc = IF ask.name # None /\ Named(rows, ask.name) = {} THEN "fast" ELSE "done",
        !.ask.name = None,
        !.rows = <<>>,
        !.out = IF ask.name # None
                THEN IF Named(rows, ask.name) # {} THEN ByName(rows, ask.name) ELSE Nothing
                ELSE Resolution(rows, ask),
        !.poisoned = @ \/ bad]

\* promptRuleSnapshot: the cache, under the read lock.
FastPath(r) ==
    /\ reader[r].pc = "fast" /\ mu = None
    /\ reader' = [reader EXCEPT ![r] =
          IF cache.loaded THEN Answer(r, cache.rows, poisoned) ELSE [@ EXCEPT !.pc = "lock"]]
    /\ UNCHANGED <<tables, cache, poisoned, mu, conn, admin, asks, edits, faults>>

\* The write lock, and the cache once more: another request may have loaded it.
SlowPath(r) ==
    /\ reader[r].pc = "lock" /\ mu = None
    /\ IF cache.loaded
       THEN /\ reader' = [reader EXCEPT ![r] = Answer(r, cache.rows, poisoned)]
            /\ UNCHANGED mu
       ELSE /\ reader' = [reader EXCEPT ![r].pc = "rules"]
            /\ mu' = r
    /\ UNCHANGED <<tables, cache, poisoned, conn, admin, asks, edits, faults>>

\* The load is over: whatever it brought is cached, and the lock released.
Store(r, rows, bad) ==
    /\ cache' = [loaded |-> TRUE, rows |-> rows]
    /\ poisoned' = bad
    /\ mu' = None
    /\ reader' = [reader EXCEPT ![r] = [Answer(r, rows, bad) EXCEPT !.clean = @ /\ ~bad]]

\* loadPromptRules, first statement; without a rule there is no second.
LoadRules(r) ==
    /\ reader[r].pc = "rules" /\ conn = None
    /\ IF rule = <<>>
       THEN Store(r, <<>>, FALSE)
       ELSE /\ reader' = [reader EXCEPT ![r].pc = "targets", ![r].rows = Rows]
            /\ UNCHANGED <<cache, poisoned, mu>>
    /\ UNCHANGED <<tables, conn, admin, asks, edits, faults>>

LoadTargets(r) ==
    /\ reader[r].pc = "targets" /\ conn = None
    /\ Store(r, Attach(reader[r].rows), FALSE)
    /\ UNCHANGED <<tables, conn, admin, asks, edits, faults>>

\* A statement fails, or the client of this request is gone and its context
\* cancelled: what was read so far is returned as if it were everything.
LoadFails(r) ==
    /\ reader[r].pc \in {"rules", "targets"} /\ faults < MaxFaults
    /\ Store(r, reader[r].rows, TRUE)
    /\ faults' = faults + 1
    /\ UNCHANGED <<tables, conn, admin, asks, edits>>

Return(r) ==
    /\ reader[r].pc = "done"
    /\ reader' = [reader EXCEPT ![r] = ReaderIdle]
    /\ UNCHANGED <<tables, cache, poisoned, mu, conn, admin, asks, edits, faults>>

-----------------------------------------------------------------------------
(* Editing *)

AdminIdle == [pc |-> "idle", id |-> None, inherit |-> TRUE, enabled |-> TRUE,
              on |-> {}, order |-> <<>>]

\* Mutation: the cache is dropped inside the transaction.
AfterSwapped == [write |-> "drop", drop |-> "commit", commit |-> "idle"]

\* What follows a step of a call: after its statements the commit, after the
\* commit the cache.
After == [write |-> "commit", commit |-> "drop", drop |-> "idle"]

Step(a, pc) == admin' = [admin EXCEPT ![a].pc = pc]
\* The call's statements are done; its input is not needed any more.
Write(a) == admin' = [admin EXCEPT ![a] = [AdminIdle EXCEPT !.pc = After.write]]
Finish(a) == admin' = [admin EXCEPT ![a] = AdminIdle]

\* A call begins. No resolution under way can be held to one state of the tables.
Begin(a, call) ==
    /\ admin[a].pc = "idle" /\ edits < MaxEdits
    /\ edits' = edits + 1
    /\ admin' = [admin EXCEPT ![a] = call]
    /\ reader' = [r \in Readers |-> [reader[r] EXCEPT !.clean = FALSE]]

\* CreatePromptRule (id None) and UpdatePromptRule of a rule that is there.
SavePromptRule(a) ==
    /\ \E id \in DOMAIN rule \cup {None}, inherit, enabled \in BOOLEAN, on \in SUBSET Targets :
          /\ on # {}
          /\ Begin(a, [AdminIdle EXCEPT !.pc = "exist", !.id = id, !.inherit = inherit,
                                        !.enabled = enabled, !.on = on])
    /\ UNCHANGED <<tables, cache, poisoned, mu, conn, asks, faults>>

\* validateTargetsExist.
ValidateTargetsExist(a) ==
    /\ admin[a].pc = "exist" /\ conn = None
    /\ IF admin[a].on \subseteq alive THEN Step(a, "claim") ELSE Finish(a)
    /\ UNCHANGED <<tables, cache, poisoned, mu, conn, reader, asks, edits, faults>>

\* validateTargetsClaimable: no other rule has one of the targets.
ValidateTargetsClaimable(a) ==
    /\ admin[a].pc = "claim" /\ conn = None
    /\ IF \E c \in claims : c[1] # admin[a].id /\ c[2] \in admin[a].on
       THEN Finish(a) ELSE Step(a, "save")
    /\ UNCHANGED <<tables, cache, poisoned, mu, conn, reader, asks, edits, faults>>

\* Mutation: the transaction relies on the validation, there is no unique index.
TargetsFreeUnchecked(on, id) == TRUE

\* UNIQUE (target_type, target_id), once the rule's own rows are gone.
TargetsFree(on, id) == \A c \in claims : c[2] \in on => c[1] = id

Position == {rule[i].position : i \in DOMAIN rule}
NextPosition == IF rule = <<>> THEN 0 ELSE 1 + CHOOSE p \in Position : \A q \in Position : q <= p

Put(id, row) == [i \in DOMAIN rule \cup {id} |-> IF i = id THEN row ELSE rule[i]]

\* The transaction of a save; when a statement fails everything is rolled back.
SaveTransaction(a) ==
    /\ admin[a].pc = "save" /\ conn = None
    /\ LET call == admin[a]
           new == used + 1
           id == IF call.id = None THEN new ELSE call.id
           position == IF call.id = None THEN NextPosition ELSE rule[id].position
       IN  IF (call.id # None => id \in DOMAIN rule) /\ TargetsFree(call.on, id)
           THEN /\ rule' = Put(id, [inherit |-> call.inherit, enabled |-> call.enabled,
                                    position |-> position])
                /\ claims' = {c \in claims : c[1] # id} \cup ({id} \X call.on)
                /\ used' = IF call.id = None THEN new ELSE used
                /\ conn' = a
                /\ Write(a)
           ELSE Finish(a) /\ UNCHANGED <<rule, claims, used, conn>>
    /\ UNCHANGED <<alive, cache, poisoned, mu, reader, asks, edits, faults>>

\* ReorderPromptRules: the list is checked against the rules of the moment.
ReorderPromptRules(a) ==
    /\ conn = None
    /\ \E order \in [1..Cardinality(DOMAIN rule) -> DOMAIN rule] :
          /\ \A i, j \in DOMAIN order : order[i] = order[j] => i = j
          /\ Begin(a, [AdminIdle EXCEPT !.pc = "order", !.order = order])
    /\ UNCHANGED <<tables, cache, poisoned, mu, conn, asks, faults>>

\* Its transaction; a rule deleted meanwhile is not updated.
OrderTransaction(a) ==
    /\ admin[a].pc = "order" /\ conn = None
    /\ LET order == admin[a].order IN
       rule' = [id \in DOMAIN rule |->
                   IF \E i \in DOMAIN order : order[i] = id
                   THEN [rule[id] EXCEPT !.position = (CHOOSE i \in DOMAIN order : order[i] = id) - 1]
                   ELSE rule[id]]
    /\ conn' = a
    /\ Write(a)
    /\ UNCHANGED <<claims, alive, used, cache, poisoned, mu, reader, asks, edits, faults>>

\* DeletePromptRule: one statement, its target rows cascade.
DeletePromptRule(a) ==
    /\ conn = None
    /\ \E id \in DOMAIN rule :
          /\ rule' = [i \in DOMAIN rule \ {id} |-> rule[i]]
          /\ claims' = {c \in claims : c[1] # id}
    /\ Begin(a, [AdminIdle EXCEPT !.pc = "drop"])
    /\ UNCHANGED <<alive, used, cache, poisoned, mu, conn, asks, faults>>

\* DeleteGroup and DeleteModel: the rows that point at the target go with it.
DeleteTarget(a) ==
    /\ conn = None
    /\ \E t \in alive :
          /\ alive' = alive \ {t}
          /\ claims' = {c \in claims : c[2] # t}
    /\ conn' = a
    /\ Begin(a, [AdminIdle EXCEPT !.pc = After.write])
    /\ UNCHANGED <<rule, used, cache, poisoned, mu, asks, faults>>

\* DeleteProvider: its models cascade, and nothing is done about their rules.
DeleteProvider(a) ==
    /\ conn = None
    /\ \E p \in Providers :
          /\ \E m \in Models \cap alive : ProviderOf[m] = p
          /\ alive' = alive \ {m \in Models : ProviderOf[m] = p}
    /\ Begin(a, AdminIdle)
    /\ UNCHANGED <<rule, claims, used, cache, poisoned, mu, conn, asks, faults>>

Commit(a) ==
    /\ admin[a].pc = "commit"
    /\ conn' = None
    /\ IF After.commit = "idle" THEN Finish(a) ELSE Step(a, After.commit)
    /\ UNCHANGED <<tables, cache, poisoned, mu, reader, asks, edits, faults>>

\* Mutation: the cache is dropped without waiting for a load to end.
InvalidateNoLock(a) ==
    /\ admin[a].pc = "drop"
    /\ cache' = [loaded |-> FALSE, rows |-> <<>>]
    /\ poisoned' = FALSE
    /\ IF After.drop = "idle" THEN Finish(a) ELSE Step(a, After.drop)
    /\ UNCHANGED <<tables, mu, conn, reader, asks, edits, faults>>

\* invalidatePromptRules.
Invalidate(a) ==
    /\ admin[a].pc = "drop" /\ mu = None
    /\ cache' = [loaded |-> FALSE, rows |-> <<>>]
    /\ poisoned' = FALSE
    /\ IF After.drop = "idle" THEN Finish(a) ELSE Step(a, After.drop)
    /\ UNCHANGED <<tables, mu, conn, reader, asks, edits, faults>>

-----------------------------------------------------------------------------
(* Specification *)

Init ==
    /\ rule = [i \in FirstRules |->
                  [inherit |-> i \in FirstInherit, enabled |-> TRUE, position |-> i - 1]]
    /\ claims = FirstClaims
    /\ alive = Targets
    /\ used = Cardinality(FirstRules)
    /\ cache = [loaded |-> FALSE, rows |-> <<>>]
    /\ poisoned = FALSE
    /\ mu = None /\ conn = None
    /\ reader = [r \in Readers |-> ReaderIdle]
    /\ admin = [a \in Admins |-> AdminIdle]
    /\ asks = 0 /\ edits = 0 /\ faults = 0

\* The steps a call in progress takes by itself.
ReaderSteps(r) == FastPath(r) \/ SlowPath(r) \/ LoadRules(r) \/ LoadTargets(r) \/ Return(r)
AdminSteps(a) ==
    \/ ValidateTargetsExist(a) \/ ValidateTargetsClaimable(a) \/ SaveTransaction(a)
    \/ OrderTransaction(a) \/ Commit(a) \/ Invalidate(a)

Edits(a) == \/ SavePromptRule(a) \/ ReorderPromptRules(a) \/ DeletePromptRule(a)
            \/ DeleteTarget(a) \/ DeleteProvider(a)

Next ==
    \/ \E r \in Readers : Ask(r) \/ ReaderSteps(r) \/ LoadFails(r)
    \/ \E a \in Admins : Edits(a) \/ AdminSteps(a)

Spec == Init /\ [][Next]_vars

\* Every goroutine runs on, and a free mutex or connection is handed to a
\* waiter in the end. Nobody has to send a request or to edit.
FairSpec == /\ Spec
            /\ \A r \in Readers : WF_vars(ReaderSteps(r))
            /\ \A a \in Admins : WF_vars(AdminSteps(a))

-----------------------------------------------------------------------------
(* Properties *)

\* README, "System prompts": a target can be claimed by only one rule. Two saves
\* can both pass the validation, and a load can read the two tables with an edit
\* in between; still neither the tables nor the cache ever hold two claims, which
\* would make "the model's rule" ambiguous.
OneRulePerTarget ==
    /\ \A c, d \in claims : c[2] = d[2] => c = d
    /\ \A i, j \in 1..Len(cache.rows) :
          cache.rows[i].on \cap cache.rows[j].on # {} => i = j

\* A cache that no failed load left is what the tables hold, except while an
\* edit that has written still has to drop it: a load torn by an edit does not
\* outlive that edit's call.
CacheIsCurrent ==
    cache.loaded /\ ~poisoned /\ (\A a \in Admins : admin[a].pc \notin {"commit", "drop"})
        => cache.rows = Attach(Rows)

\* The documented resolution, on the tables: the enabled rules that claim the
\* model or the group, in list order, and the more specific rule deciding on the
\* global prompt; with an override, the first enabled rule of that name alone.
Claiming(t) == {i \in DOMAIN rule : rule[i].enabled /\ <<i, t>> \in claims}
Called(name) == {i \in DOMAIN rule : rule[i].enabled /\ NameOf[i] = name}
Lists(s, S) == /\ {s[i] : i \in 1..Len(s)} = S
               /\ \A i, j \in 1..Len(s) : i < j => Before(s[i], s[j])

IsDocumented(out, ask) ==
    IF Called(ask.name) # {}
    THEN \E i \in Called(ask.name) :
            /\ \A j \in Called(ask.name) \ {i} : Before(i, j)
            /\ out = [segments |-> <<i>>, suppressed |-> ~rule[i].inherit]
    ELSE /\ Lists(out.segments, Claiming(ask.group) \cup Claiming(ask.model))
         /\ out.suppressed <=>
               LET deciding == IF Claiming(ask.model) # {} THEN ask.model ELSE ask.group
               IN  \E i \in Claiming(deciding) : ~rule[i].inherit

\* A resolution that no edit overlapped, and that met no poisoned cache, answers
\* as documented: in particular every edit that has returned is seen.
ResolutionsFollowTheRules ==
    \A r \in Readers :
        reader[r].pc = "done" /\ reader[r].clean /\ ~reader[r].poisoned
            => IsDocumented(reader[r].out, reader[r].wanted)

\* Loads wait for the connection under promptMu, edits wait for promptMu after
\* they have released the connection: every call returns. (Calls are bounded, so
\* that a system in which every call returns is at rest in the end.)
CallsReturn ==
    <>[](/\ \A r \in Readers : reader[r].pc = "idle"
         /\ \A a \in Admins : admin[a].pc = "idle")

-----------------------------------------------------------------------------
(* Statements of the documentation that the code does not keep *)

\* README, "System prompts": rules each add a prompt when their targets are
\* called. A request that no edit overlaps and whose own statements succeed gets
\* the prompts of the rules that claim its targets.
RulesAddTheirPrompts ==
    \A r \in Readers :
        reader[r].pc = "done" /\ reader[r].clean
            => IsDocumented(reader[r].out, reader[r].wanted)
=============================================================================
