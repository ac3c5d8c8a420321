---------------------------- MODULE ProviderKeys ----------------------------
(***************************************************************************)
(* The credential pool of one provider while several administrators edit   *)
(* it (service/provider_keys.go, service/import.go, service/providers.go,  *)
(* httpapi/provider_keys.go).                                              *)
(*                                                                         *)
(* The database has one connection (store.go SetMaxOpenConns(1)), so one   *)
(* SQL statement, or one transaction, is one atomic step; everything a     *)
(* call reads in an earlier statement may be stale when it writes.  A      *)
(* request whose client goes away loses its context, so any call may fail  *)
(* between two of its statements.                                          *)
(*                                                                         *)
(* A secret is a positive number (0: a blank one).  A name is a number     *)
(* too: n > 0 is "Key n", Other any other name, Blank none given.          *)
(***************************************************************************)
EXTENDS Integers, FiniteSets, Sequences

CONSTANTS
    Callers,     \* concurrent administrative requests
    Batches,     \* the batches of lines a client imports
    Lines,       \* the single keys a client adds
    MaxSeeds,    \* at most this many keys exist when the model starts
    MaxKeys,     \* bound: key rows ever inserted
    MaxCalls     \* bound: calls ever started, and reads that ever break

ASSUME ProviderKeysAssumption ==
    /\ Lines \subseteq [name : Int, secret : Nat]
    /\ Batches \subseteq Seq([name : Int, secret : Nat])
    /\ MaxSeeds \in Nat /\ MaxKeys \in Nat /\ MaxCalls \in Nat

VARIABLES
    provider,  \* id of the provider row, 0 when there is none
    latest,    \* id of the newest provider row ever inserted (AUTOINCREMENT)
    keys,      \* provider_keys: id -> row
    nextKey,   \* id of the next row (AUTOINCREMENT: ids are never reused)
    call,      \* what each request is doing
    calls,     \* calls started and reads broken (bound)
    primary    \* ghost: the key a call last moved to the front

vars == <<provider, latest, keys, nextKey, call, calls, primary>>

Blank == 0
Other == -1

Idle == [op |-> "none", at |-> "done", pid |-> 0, key |-> 0, lines |-> <<>>,
         known |-> {}, top |-> 0, sort |-> 0, index |-> <<>>, enabled |-> TRUE,
         alone |-> TRUE, ok |-> TRUE, added |-> {}]

-----------------------------------------------------------------------------
(* What the statements read. *)

\* ORDER BY sort_order ASC, id ASC
Before(j, k) == \/ keys[j].sort < keys[k].sort
                \/ keys[j].sort = keys[k].sort /\ j < k

\* The index of a key in ListProviderKeys
Rank(k) == Cardinality({j \in DOMAIN keys : Before(j, k)})

\* COALESCE(MAX(sort_order), -1)
HighestSort ==
    LET sorts == {-1} \cup {keys[k].sort : k \in DOMAIN keys}
    IN  CHOOSE m \in sorts : \A s \in sorts : s <= m

\* Mutation: the number of keys
TopNumberCount(seen) == Cardinality(seen)

\* The largest n of a key named "Key n" among the rows seen
TopNumber(seen) ==
    LET numbers == {0} \cup {keys[k].name : k \in seen}
    IN  CHOOSE m \in numbers : \A n \in numbers : n <= m

SecretsOf(seen) == {keys[k].secret : k \in seen}
SecretsHeld == SecretsOf(DOMAIN keys)

\* WHERE provider_id=?
OwnKeys(c) == IF call[c].pid = provider THEN DOMAIN keys ELSE {}

\* The lines of a batch that are accepted: a secret, not one of the pool,
\* not one of an earlier line
Valid(lines, known) ==
    {i \in DOMAIN lines : /\ lines[i].secret # 0
                          /\ lines[i].secret \notin known
                          /\ \A j \in 1..(i - 1) : lines[j].secret # lines[i].secret}

\* The place of line i among the lines S
Place(S, i) == Cardinality({j \in S : j <= i})

\* The name line i is stored under: its own, or the next free number
NameOf(c, S, i) ==
    LET unnamed == {j \in S : call[c].lines[j].name = Blank}
    IN  IF call[c].lines[i].name = Blank
        THEN call[c].top + Place(unnamed, i) ELSE call[c].lines[i].name

\* Rows a call inserts: the accepted lines in order, after the sort it read
Rows(c) ==
    LET S == Valid(call[c].lines, call[c].known)
    IN  [n \in 1..Cardinality(S) |->
            LET i == CHOOSE j \in S : Place(S, j) = n
            IN  [name |-> NameOf(c, S, i), secret |-> call[c].lines[i].secret,
                 enabled |-> TRUE, sort |-> call[c].sort + n]]

\* Mutation: the schema does not declare the pair unique
AcceptsTwice(c, rows) == call[c].pid = provider

\* UNIQUE (provider_id, secret_hash), REFERENCES providers(id)
Accepts(c, rows) ==
    /\ call[c].pid = provider
    /\ \A n \in DOMAIN rows : rows[n].secret \notin SecretsHeld

-----------------------------------------------------------------------------
(* How a call starts, goes on and ends. *)

Goto(c, op, at) == call[c].op = op /\ call[c].at = at

\* Others in flight have read a table that is about to change
Disturb(c, mine) ==
    call' = [d \in Callers |-> IF d = c THEN mine
                               ELSE IF call[d].at = "done" THEN call[d]
                               ELSE [call[d] EXCEPT !.alone = FALSE]]

Proceed(c, mine) == call' = [call EXCEPT ![c] = mine]

\* Only the outcome of an import is looked at afterwards
Ended(c, ok, ids) ==
    IF call[c].op = "import"
    THEN [Idle EXCEPT !.op = "import", !.lines = call[c].lines,
                      !.known = call[c].known, !.ok = ok, !.added = ids]
    ELSE Idle

End(c, ok) ==
    /\ Proceed(c, Ended(c, ok, {}))
    /\ UNCHANGED <<provider, latest, keys, nextKey, calls, primary>>

Start(c, fields) ==
    /\ call[c].at = "done" /\ calls < MaxCalls
    /\ calls' = calls + 1
    /\ Proceed(c, fields)
    /\ UNCHANGED <<provider, latest, keys, nextKey, primary>>

Table == <<provider, latest, keys, nextKey, calls, primary>>

\* The request's context is cancelled, or a statement fails
Fail(c) == call[c].at # "done" /\ End(c, FALSE)

-----------------------------------------------------------------------------
(* CreateProviderKey and ImportProviderKeys. *)

CallCreate(c) ==
    \E line \in Lines :
        /\ line.secret # 0
        /\ Start(c, [Idle EXCEPT !.op = "create", !.at = "exists", !.pid = provider,
                                 !.lines = <<line>>])

CallImport(c) ==
    \E batch \in Batches :
        Start(c, [Idle EXCEPT !.op = "import", !.at = "exists", !.pid = provider,
                              !.lines = batch])

\* SELECT 1 FROM providers WHERE id=?
FindProvider(c) ==
    /\ call[c].at = "exists"
    /\ IF call[c].pid # provider \/ provider = 0
       THEN End(c, FALSE)
       ELSE Proceed(c, [call[c] EXCEPT
                !.at = IF call[c].op = "import" THEN "read" ELSE "duplicate"])
            /\ UNCHANGED Table

\* SELECT id FROM provider_keys WHERE provider_id=? AND secret_hash=?
FindDuplicate(c) ==
    /\ Goto(c, "create", "duplicate")
    /\ IF call[c].pid = provider /\ call[c].lines[1].secret \in SecretsHeld
       THEN End(c, FALSE)
       ELSE Proceed(c, [call[c] EXCEPT
                !.at = IF call[c].lines[1].name = Blank THEN "name" ELSE "max"])
            /\ UNCHANGED Table

\* A read of several rows; nobody asks rows.Err(), so one that breaks leaves the
\* call with the rows it has seen
Reads(c, seen) ==
    \/ seen = OwnKeys(c) /\ calls' = calls
    \/ seen # OwnKeys(c) /\ calls < MaxCalls /\ calls' = calls + 1

\* nextMonotonicKeyName reads every name
NextName(c) ==
    /\ Goto(c, "create", "name")
    /\ \E seen \in SUBSET OwnKeys(c) :
         /\ Reads(c, seen)
         /\ Proceed(c, [call[c] EXCEPT !.at = "max", !.top = TopNumber(seen),
                                       !.alone = @ /\ seen = OwnKeys(c)])
    /\ UNCHANGED <<provider, latest, keys, nextKey, primary>>

\* An import reads names and fingerprints at once, in the same way; a preview, or
\* a batch with nothing to accept, stops here
ReadPool(c) ==
    /\ Goto(c, "import", "read")
    /\ \/ \E seen \in SUBSET OwnKeys(c) :
             /\ Valid(call[c].lines, SecretsOf(seen)) # {} /\ Reads(c, seen)
             /\ Proceed(c, [call[c] EXCEPT !.known = SecretsOf(seen), !.at = "max",
                                           !.top = TopNumber(seen),
                                           !.alone = @ /\ seen = OwnKeys(c)])
       \/ Proceed(c, Idle) /\ calls' = calls
    /\ UNCHANGED <<provider, latest, keys, nextKey, primary>>

\* SELECT COALESCE(MAX(sort_order), -1): its error is dropped and leaves 0
ReadMaxSort(c) ==
    /\ call[c].at = "max"
    /\ \/ Proceed(c, [call[c] EXCEPT !.at = "store",
                        !.sort = IF call[c].pid = provider THEN HighestSort ELSE -1])
       \/ Proceed(c, [call[c] EXCEPT !.at = "store", !.sort = 0, !.alone = FALSE])
    /\ UNCHANGED Table

\* Mutation: no transaction around the inserts
RefusedHalfway(c, rows) ==
    LET held == {n \in DOMAIN rows : \A m \in 1..n : rows[m].secret \notin SecretsHeld}
        ids == {nextKey + n - 1 : n \in held}
    IN  [k \in DOMAIN keys \cup ids |-> IF k \in ids THEN rows[k - nextKey + 1] ELSE keys[k]]

\* What is left in the table when the database refuses a row of the batch
Refused(c, rows) == keys

\* The INSERT of a key, or the transaction of an import: every row or none
Store(c) ==
    /\ call[c].at = "store"
    /\ LET rows == Rows(c)
           ids == nextKey..(nextKey + Len(rows) - 1)
       IN  IF Accepts(c, rows)
           THEN /\ nextKey + Len(rows) - 1 <= MaxKeys
                /\ keys' = [k \in DOMAIN keys \cup ids |->
                              IF k \in ids THEN rows[k - nextKey + 1] ELSE keys[k]]
                /\ nextKey' = nextKey + Len(rows)
                /\ Disturb(c, Ended(c, TRUE, ids))
                /\ UNCHANGED <<provider, latest, calls, primary>>
           ELSE /\ keys' = Refused(c, rows)
                /\ Proceed(c, Ended(c, FALSE, DOMAIN keys' \ DOMAIN keys))
                /\ UNCHANGED <<provider, latest, nextKey, calls, primary>>

-----------------------------------------------------------------------------
(* SetProviderKeyPrimary: list, then renumber what was listed. *)

CallPrimary(c) ==
    \E k \in 1..MaxKeys :
        Start(c, [Idle EXCEPT !.op = "primary", !.at = "list", !.pid = provider, !.key = k])

ListKeys(c) ==
    /\ Goto(c, "primary", "list")
    /\ IF call[c].key \notin OwnKeys(c) \/ Rank(call[c].key) = 0
       THEN End(c, call[c].key \in OwnKeys(c))
       ELSE /\ Proceed(c, [call[c] EXCEPT !.at = "reorder",
                                          !.index = [k \in DOMAIN keys |-> Rank(k)]])
            /\ UNCHANGED Table

\* Mutation: only the target is renumbered
NewSortTarget(c, k) == IF k = call[c].key THEN 0 ELSE keys[k].sort

\* The target goes to the front; what stood before it moves one back
NewSort(c, k) ==
    LET index == call[c].index
    IN  IF k = call[c].key THEN 0
        ELSE IF index[k] < index[call[c].key] THEN index[k] + 1 ELSE index[k]

Reorder(c) ==
    /\ Goto(c, "primary", "reorder")
    /\ keys' = [k \in DOMAIN keys |->
                  IF k \in DOMAIN call[c].index
                  THEN [keys[k] EXCEPT !.sort = NewSort(c, k)] ELSE keys[k]]
    /\ primary' = call[c].key
    /\ Disturb(c, Idle)
    /\ UNCHANGED <<provider, latest, nextKey, calls>>

-----------------------------------------------------------------------------
(* The PUT handler keeps the enabled flag it reads when the body has none. *)

CallRename(c) ==
    \E k \in 1..MaxKeys :
        Start(c, [Idle EXCEPT !.op = "rename", !.at = "get", !.key = k])

GetKey(c) ==
    /\ Goto(c, "rename", "get")
    /\ IF call[c].key \in DOMAIN keys
       THEN /\ Proceed(c, [call[c] EXCEPT !.at = "update",
                                          !.enabled = keys[call[c].key].enabled])
            /\ UNCHANGED Table
       ELSE End(c, FALSE)

UpdateKey(c) ==
    /\ Goto(c, "rename", "update")
    /\ IF call[c].key \in DOMAIN keys
       THEN /\ keys' = [keys EXCEPT ![call[c].key].name = Other,
                                    ![call[c].key].enabled = call[c].enabled]
            /\ Disturb(c, Idle)
            /\ UNCHANGED <<provider, latest, nextKey, calls, primary>>
       ELSE End(c, FALSE)

\* A request of one statement, by somebody who is not among Callers
Atomic == /\ calls < MaxCalls
          /\ calls' = calls + 1
          /\ call' = [d \in Callers |-> IF call[d].at = "done" THEN call[d]
                                        ELSE [call[d] EXCEPT !.alone = FALSE]]

\* PUT with the enabled flag given
SwitchKey(k) ==
    /\ k \in DOMAIN keys /\ Atomic
    /\ keys' = [keys EXCEPT ![k].enabled = ~keys[k].enabled]
    /\ UNCHANGED <<provider, latest, nextKey, primary>>

DeleteProviderKey(k) ==
    /\ k \in DOMAIN keys /\ Atomic
    /\ keys' = [j \in DOMAIN keys \ {k} |-> keys[j]]
    /\ UNCHANGED <<provider, latest, nextKey, primary>>

\* ON DELETE CASCADE takes the keys along
DeleteProvider ==
    /\ provider # 0 /\ Atomic
    /\ provider' = 0
    /\ keys' = [k \in {} |-> 0]
    /\ UNCHANGED <<latest, nextKey, primary>>

\* CreateProvider inserts the provider; its first key is another statement
CreateProvider(c) ==
    /\ provider = 0 /\ call[c].at = "done" /\ calls < MaxCalls
    /\ calls' = calls + 1
    /\ provider' = latest + 1 /\ latest' = latest + 1
    /\ \E line \in Lines :
         /\ line.name = Blank
         /\ Proceed(c, IF line.secret = 0 THEN Idle
                       ELSE [Idle EXCEPT !.op = "create", !.at = "exists",
                                         !.pid = latest + 1, !.lines = <<line>>])
    /\ UNCHANGED <<keys, nextKey, primary>>

-----------------------------------------------------------------------------
Init ==
    /\ provider = 1 /\ latest = 1
    /\ \E n \in 0..MaxSeeds :
         /\ keys = [k \in 1..n |-> [name |-> k, secret |-> k, enabled |-> TRUE,
                                    sort |-> k - 1]]
         /\ nextKey = n + 1
    /\ call = [c \in Callers |-> Idle]
    /\ calls = 0 /\ primary = 0

Adds(c) == \/ CallCreate(c) \/ CallImport(c) \/ FindProvider(c) \/ FindDuplicate(c)
           \/ NextName(c) \/ ReadPool(c) \/ ReadMaxSort(c) \/ Store(c)
Edits(c) == \/ CallPrimary(c) \/ ListKeys(c) \/ Reorder(c)
            \/ CallRename(c) \/ GetKey(c) \/ UpdateKey(c)

Next == \/ \E c \in Callers : Adds(c) \/ Edits(c) \/ CreateProvider(c) \/ Fail(c)
        \/ \E k \in 1..MaxKeys : SwitchKey(k) \/ DeleteProviderKey(k)
        \/ DeleteProvider

Spec == Init /\ [][Next]_vars

-----------------------------------------------------------------------------
(* Properties. *)

\* Two overlapping adds or imports of one secret never store it twice, though
\* each looks for duplicates before it inserts (import.go:30, provider_keys.go:73).
SecretsAreUnique ==
    \A j, k \in DOMAIN keys : keys[j].secret = keys[k].secret => j = k

\* The key a call moved to the front stays first, whatever other calls insert,
\* renumber or delete from what they read before, until a later call moves
\* another (provider_keys.go:186): its requests go out with that credential.
PrimaryStaysFirst ==
    primary \in DOMAIN keys => \A k \in DOMAIN keys \ {primary} : Before(primary, k)

\* An import that reports an error has stored none of its lines; one that
\* reports success leaves no secret of the batch out unless the pool held it
\* when the batch was checked (import.go:131-155).
ImportIsWholeOrNothing ==
    \A c \in Callers : Goto(c, "import", "done") =>
        LET stored == Cardinality(call[c].added)
        IN  IF call[c].ok
            THEN stored = Cardinality({call[c].lines[i].secret : i \in DOMAIN call[c].lines}
                                      \ (call[c].known \cup {0}))
            ELSE stored = 0

\* A call nobody overlaps does what its single caller expects: new keys are
\* listed last, in line order, under names no key had; a key made primary
\* leaves the others in their order; a rename does not switch a key.
UndisturbedCallsAreExact ==
    [][\A c \in Callers : call[c].alone /\ call[c].at # "done" /\ call'[c].at = "done" =>
        LET new == DOMAIN keys' \ DOMAIN keys
            auto == {k \in new : keys'[k].name > 0 /\ \E i \in DOMAIN call[c].lines :
                        call[c].lines[i] = [name |-> Blank, secret |-> keys'[k].secret]}
        IN  /\ \A k \in new, j \in DOMAIN keys : Before(j, k)'
            /\ \A k \in auto : /\ \A j \in DOMAIN keys : keys'[j].name # keys'[k].name
                               /\ \A j \in auto \ {k} : keys'[j].name # keys'[k].name
            /\ \A j, k \in DOMAIN keys \cap DOMAIN keys' :
                  call[c].key \notin {j, k} => (Before(j, k) <=> Before(j, k)')
            /\ \A k \in DOMAIN keys \cap DOMAIN keys' : keys'[k].enabled = keys[k].enabled
      ]_vars
=============================================================================
