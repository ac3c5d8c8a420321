-------------------------- MODULE PromptRulesProofs --------------------------
(***************************************************************************)
(* OneRulePerTarget and CacheIsCurrent of module PromptRules, for any rules, *)
(* targets, requests, edits and failed loads.                              *)
(***************************************************************************)
EXTENDS PromptRules, FiniteSetTheorems, TLAPS

-----------------------------------------------------------------------------
(* The inductive invariant *)

Flagged == [inherit : BOOLEAN, enabled : BOOLEAN, position : Int]
Row == [id : Nat, inherit : BOOLEAN, enabled : BOOLEAN, on : SUBSET Targets]
Orders == UNION {[1..n -> Nat] : n \in Nat}
Calls == [pc : {"idle", "exist", "claim", "save", "order", "commit", "drop"},
          id : Nat \cup {None}, inherit : BOOLEAN, enabled : BOOLEAN,
          on : SUBSET Targets, order : Orders]

TablesOK ==
    /\ used \in Nat
    /\ DOMAIN rule \subseteq 1..used
    /\ rule \in [DOMAIN rule -> Flagged]
    /\ claims \subseteq Nat \X Targets

\* A snapshot of the rules lists none twice.
Snapshot(rows) ==
    /\ rows \in Seq(Row)
    /\ \A i, j \in 1..Len(rows) : rows[i].id = rows[j].id => i = j

ReadersOK ==
    /\ DOMAIN reader = Readers
    /\ \A r \in Readers : {"pc", "rows"} \subseteq DOMAIN reader[r]

TypeInv == TablesOK /\ ReadersOK /\ admin \in [Admins -> Calls]

\* A load is under way only under promptMu.
Loading(r) == reader[r].pc \in {"rules", "targets"}
Mutex == \A r \in Readers : Loading(r) => mu = r

\* What a load has read so far: each rule once, and no target yet.
Bare(rows) == \A i \in 1..Len(rows) : rows[i].on = {}
LoadsAreSnapshots ==
    \A r \in Readers : Snapshot(reader[r].rows) /\ Bare(reader[r].rows)

\* An edit has written and has still to drop the cache.
Dirty == \E a \in Admins : admin[a].pc \in {"commit", "drop"}

\* Between the statements of a load that no edit tore, its rows are the table's.
LoadIsCurrent == ~Dirty => \A r \in Readers : reader[r].pc = "targets" => reader[r].rows = Rows

OneClaim == \A c, d \in claims : c[2] = d[2] => c = d
Apart(rows) == \A i, j \in 1..Len(rows) : rows[i].on \cap rows[j].on # {} => i = j

IInv ==
    /\ TypeInv /\ Mutex /\ LoadsAreSnapshots
    /\ LoadIsCurrent /\ CacheIsCurrent
    /\ OneClaim /\ Apart(cache.rows)

-----------------------------------------------------------------------------
(* The order of the rules *)

\* The rules of S listed up to one of them.
UpTo(S, i) == {j \in S : j = i \/ Before(j, i)}
RankIn(S) == [i \in S |-> Cardinality(UpTo(S, i))]

\* Comparing two numbers in turn is transitive.
LEMMA LexicographicOrder ==
    ASSUME NEW p \in Int, NEW q \in Int, NEW o \in Int,
           NEW i \in Int, NEW j \in Int, NEW k \in Int,
           p < q \/ (p = q /\ i < j), q < o \/ (q = o /\ j < k)
    PROVE  p < o \/ (p = o /\ i < k)
OBVIOUS

\* (position, id) orders any two rules, one way only.
LEMMA TotalOrder ==
    ASSUME TablesOK
    PROVE  /\ \A i, j \in DOMAIN rule : i = j \/ Before(i, j) \/ Before(j, i)
           /\ \A i \in DOMAIN rule : ~Before(i, i)
           /\ \A i, j, k \in DOMAIN rule : Before(i, j) /\ Before(j, k) => Before(i, k)
<1>1. \A i \in DOMAIN rule : i \in Int /\ rule[i].position \in Int
  BY DEF TablesOK, Flagged
<1>2. \A i, j \in DOMAIN rule : i = j \/ Before(i, j) \/ Before(j, i)
  BY <1>1 DEF Before
<1>3. \A i \in DOMAIN rule : ~Before(i, i)
  BY <1>1 DEF Before
<1>4. ASSUME NEW i \in DOMAIN rule, NEW j \in DOMAIN rule, NEW k \in DOMAIN rule,
             Before(i, j), Before(j, k)
      PROVE  Before(i, k)
  <2>1. i \in Int /\ j \in Int /\ k \in Int
    BY <1>1
  <2>2. rule[i].position \in Int /\ rule[j].position \in Int /\ rule[k].position \in Int
    BY <1>1
  <2> QED
    BY <2>1, <2>2, <1>4, LexicographicOrder DEF Before
<1> QED
  BY <1>2, <1>3, <1>4

\* ORDER BY position, id lists every rule, each before those after it.
LEMMA RulesCanBeListed ==
    ASSUME TablesOK
    PROVE  LET S == DOMAIN rule IN
           /\ IsFiniteSet(S) /\ Cardinality(S) \in Nat
           /\ \E s \in [1..Cardinality(S) -> S] :
                 /\ \A i, j \in 1..Cardinality(S) : i < j => Before(s[i], s[j])
                 /\ \A x \in S : \E i \in 1..Cardinality(S) : s[i] = x
<1> DEFINE S == DOMAIN rule
           N == Cardinality(S)
<1>0. IsFiniteSet(S) /\ N \in Nat
  <2>0. used \in Int
    BY DEF TablesOK
  <2>1. IsFiniteSet(1..used)
    BY <2>0, FS_Interval
  <2>2. S \in SUBSET (1..used)
    BY Zenon DEF TablesOK
  <2>3. IsFiniteSet(S)
    BY <2>1, <2>2, FS_Subset
  <2> QED
    BY <2>3, FS_CardinalityType
<1> HIDE DEF S
<1>t. /\ \A i, j \in S : i = j \/ Before(i, j) \/ Before(j, i)
      /\ \A i \in S : ~Before(i, i)
      /\ \A i, j, k \in S : Before(i, j) /\ Before(j, k) => Before(i, k)
  BY TotalOrder DEF S
<1>2. ASSUME NEW i \in S
      PROVE  /\ IsFiniteSet(UpTo(S, i)) /\ i \in UpTo(S, i)
             /\ Cardinality(UpTo(S, i)) \in 1..N
  <2>1. UpTo(S, i) \in SUBSET S /\ i \in UpTo(S, i)
    BY DEF UpTo
  <2>2. IsFiniteSet(UpTo(S, i)) /\ Cardinality(UpTo(S, i)) <= N
    BY <1>0, <2>1, FS_Subset
  <2>3. Cardinality(UpTo(S, i)) \in Nat /\ Cardinality(UpTo(S, i)) # 0
    BY <2>1, <2>2, FS_CardinalityType, FS_EmptySet
  <2> QED
    BY <1>0, <2>1, <2>2, <2>3
<1>3. ASSUME NEW i \in S, NEW j \in S, Before(i, j)
      PROVE  Cardinality(UpTo(S, i)) < Cardinality(UpTo(S, j))
  <2>1. UpTo(S, i) \in SUBSET UpTo(S, j) /\ j \in UpTo(S, j) /\ j \notin UpTo(S, i)
    <3>1. \A x \in S : (x = i \/ Before(x, i)) => Before(x, j)
      BY <1>3, <1>t
    <3>2. j # i /\ ~Before(j, i)
      BY <1>3, <1>t
    <3> QED
      BY <3>1, <3>2 DEF UpTo
  <2>2. IsFiniteSet(UpTo(S, j))
    BY <1>2
  <2>3. Cardinality(UpTo(S, i)) <= Cardinality(UpTo(S, j))
    BY <2>1, <2>2, FS_Subset
  <2>4. Cardinality(UpTo(S, j)) = Cardinality(UpTo(S, i)) => UpTo(S, j) = UpTo(S, i)
    BY <2>1, <2>2, FS_Subset
  <2>5. Cardinality(UpTo(S, i)) \in Nat /\ Cardinality(UpTo(S, j)) \in Nat
    BY <1>0, <1>2
  <2> QED
    BY <2>1, <2>3, <2>4, <2>5
<1>4. RankIn(S) \in Injection(S, 1..N)
  <2>1. RankIn(S) \in [S -> 1..N]
    BY <1>2 DEF RankIn
  <2>2. \A i, j \in S : RankIn(S)[i] = RankIn(S)[j] => i = j
    <3> SUFFICES ASSUME NEW i \in S, NEW j \in S, i # j
                 PROVE  RankIn(S)[i] # RankIn(S)[j]
      OBVIOUS
    <3>1. RankIn(S)[i] \in Int /\ RankIn(S)[j] \in Int
      BY <2>1
    <3>2. CASE Before(i, j)
      BY <3>1, <3>2, <1>3 DEF RankIn
    <3>3. CASE Before(j, i)
      BY <3>1, <3>3, <1>3 DEF RankIn
    <3> QED
      BY <3>2, <3>3, <1>t
  <2> QED
    BY <2>1, <2>2 DEF Injection, IsInjective
<1>5. RankIn(S) \in Surjection(S, 1..N)
  <2>1. IsFiniteSet(1..N) /\ Cardinality(1..N) = N
    BY <1>0, FS_Interval
  <2> QED
    BY <1>0, <1>4, <2>1, FS_Injection
<1> DEFINE s == [n \in 1..N |-> CHOOSE i \in S : RankIn(S)[i] = n]
<1>6. \A n \in 1..N : s[n] \in S /\ RankIn(S)[s[n]] = n
  BY <1>5 DEF Surjection
<1>7. s \in [1..N -> S]
  BY <1>6
<1>8. ASSUME NEW m \in 1..N, NEW n \in 1..N, m < n
      PROVE  Before(s[m], s[n])
  <2>1. s[m] \in S /\ s[n] \in S /\ RankIn(S)[s[m]] = m /\ RankIn(S)[s[n]] = n
    BY <1>6
  <2> HIDE DEF s
  <2>2. m \in Int /\ n \in Int
    BY <1>0
  <2>3. Before(s[n], s[m]) => n < m
    BY <2>1, <1>3 DEF RankIn
  <2>4. s[m] # s[n]
    BY <2>1, <2>2, <1>8
  <2> QED
    BY <2>1, <2>2, <2>3, <2>4, <1>8, <1>t
<1>9. ASSUME NEW x \in S
      PROVE  \E n \in 1..N : s[n] = x
  <2>1. RankIn(S)[x] \in 1..N
    BY <1>4 DEF Injection
  <2>2. s[RankIn(S)[x]] = x
    BY <2>1, <1>6, <1>4 DEF Injection, IsInjective
  <2> QED
    BY <2>1, <2>2
<1> HIDE DEF s
<1>10. \E z \in [1..N -> S] : /\ \A i, j \in 1..N : i < j => Before(z[i], z[j])
                             /\ \A x \in S : \E i \in 1..N : z[i] = x
  BY <1>7, <1>8, <1>9
<1> QED
  BY <1>0, <1>10 DEF S

\* What the first statement reads lists every rule once, without targets; from
\* an empty table it reads nothing.
LEMMA RowsAreASnapshot ==
    ASSUME TablesOK
    PROVE  /\ Snapshot(Rows) /\ Bare(Rows)
           /\ DOMAIN rule = {} => Rows = <<>>
<1> DEFINE S == DOMAIN rule
           N == Cardinality(S)
           s == Ordered(S)
<1>0. IsFiniteSet(S) /\ N \in Nat
  BY RulesCanBeListed
<1>1. s \in [1..N -> S] /\ \A i, j \in 1..N : i < j => Before(s[i], s[j])
  BY RulesCanBeListed, Zenon DEF Ordered
<1>2. Len(s) = N /\ N \in Nat
  BY <1>0, <1>1
<1>3. Rows = [i \in 1..N |-> [id |-> s[i], inherit |-> rule[s[i]].inherit,
                              enabled |-> rule[s[i]].enabled, on |-> {}]]
  BY <1>2 DEF Rows
<1>4. \A i \in 1..N : s[i] \in S /\ s[i] \in Nat /\ rule[s[i]] \in Flagged
  <2>1. \A x \in S : x \in Nat /\ rule[x] \in Flagged
    BY DEF TablesOK
  <2>2. \A i \in 1..N : s[i] \in S
    BY <1>1
  <2> QED
    BY <2>1, <2>2
<1>5. \A i, j \in 1..N : s[i] = s[j] => i = j
  <2> SUFFICES ASSUME NEW i \in 1..N, NEW j \in 1..N, s[i] = s[j], i # j
               PROVE  FALSE
    OBVIOUS
  <2>0. i \in Int /\ j \in Int /\ s[i] \in S /\ s[j] \in S
    BY <1>2, <1>4
  <2>1. Before(s[i], s[j]) \/ Before(s[j], s[i])
    BY <2>0, <1>1
  <2> HIDE DEF s
  <2>2. Before(s[i], s[i])
    BY <2>1
  <2> QED
    BY <2>0, <2>2, TotalOrder
<1> HIDE DEF s
<1>6. \A i \in 1..N : Rows[i] \in Row /\ Rows[i].id = s[i] /\ Rows[i].on = {}
  BY <1>3, <1>4 DEF Row, Flagged
<1>7. Rows \in Seq(Row) /\ Len(Rows) = N
  BY <1>2, <1>3, <1>6
<1>8. Snapshot(Rows)
  BY <1>5, <1>6, <1>7 DEF Snapshot
<1>9. S = {} => Rows = <<>>
  <2>1. S = {} => N = 0
    BY FS_EmptySet, <1>0
  <2> QED
    BY <2>1, <1>7
<1> QED
  BY <1>6, <1>7, <1>8, <1>9 DEF Bare

\* The second statement gives no target to two rules, as the table has none twice.
LEMMA AttachKeepsApart ==
    ASSUME NEW rows, Snapshot(rows), OneClaim
    PROVE  Apart(Attach(rows))
<1>1. Len(rows) \in Nat
  BY DEF Snapshot
<1>2. \A i \in 1..Len(rows) : rows[i] \in Row
  BY DEF Snapshot
<1>3. \A i \in 1..Len(rows) :
         Attach(rows)[i].on = {t \in Targets : <<rows[i].id, t>> \in claims}
  BY <1>2 DEF Attach, Row
<1>4. Len(Attach(rows)) = Len(rows)
  BY <1>1 DEF Attach
<1> SUFFICES ASSUME NEW i \in 1..Len(rows), NEW j \in 1..Len(rows),
                    Attach(rows)[i].on \cap Attach(rows)[j].on # {}
             PROVE  i = j
  BY <1>4 DEF Apart
<1>5. PICK t : <<rows[i].id, t>> \in claims /\ <<rows[j].id, t>> \in claims
  BY <1>3
<1>6. <<rows[i].id, t>> = <<rows[j].id, t>>
  BY <1>5 DEF OneClaim
<1> QED
  BY <1>6 DEF Snapshot

\* Rules without targets, as a failed load leaves them, share none.
LEMMA BareRowsAreApart ==
    ASSUME NEW rows, Bare(rows)
    PROVE  Apart(rows)
BY DEF Apart, Bare

\* MAX(position) + 1.
LEMMA NextPositionIsANumber ==
    ASSUME TablesOK
    PROVE  NextPosition \in Int
<1> DEFINE S == DOMAIN rule
           N == Cardinality(S)
<1>1. CASE rule = <<>>
  BY <1>1 DEF NextPosition
<1>2. CASE rule # <<>>
  <2>1. S # {}
    BY <1>2 DEF TablesOK
  <2>2. IsFiniteSet(S) /\ N \in Nat /\ N # 0
    BY <2>1, RulesCanBeListed, FS_EmptySet
  <2>3. PICK s \in [1..N -> S] : /\ \A i, j \in 1..N : i < j => Before(s[i], s[j])
                                 /\ \A x \in S : \E i \in 1..N : s[i] = x
    BY RulesCanBeListed
  <2>4. \A i \in S : rule[i].position \in Int
    BY DEF TablesOK, Flagged
  <2>5. s[N] \in S
    BY <2>2, <2>3
  <2>6. ASSUME NEW x \in S
        PROVE  rule[x].position <= rule[s[N]].position
    <3>1. PICK i \in 1..N : s[i] = x
      BY <2>3
    <3>2. i = N \/ Before(x, s[N])
      BY <2>2, <2>3, <3>1
    <3> QED
      BY <2>4, <2>5, <3>1, <3>2 DEF Before
  <2>7. rule[s[N]].position \in Position /\ \A q \in Position : q <= rule[s[N]].position
    BY <2>5, <2>6 DEF Position
  <2>8. \A p \in Position : p \in Int
    BY <2>4 DEF Position
  <2> DEFINE top == CHOOSE p \in Position : \A q \in Position : q <= p
  <2>9. top \in Position
    BY <2>7
  <2>10. top \in Int
    BY <2>8, <2>9
  <2> HIDE DEF top
  <2>11. 1 + top \in Int
    BY <2>10
  <2> QED
    BY <2>11, <1>2 DEF NextPosition, top
<1> QED
  BY <1>1, <1>2

-----------------------------------------------------------------------------
(* What a step of an administrator does *)

\* The locals of the loads are left alone.
ReaderKept ==
    /\ DOMAIN reader' = Readers
    /\ \A r \in Readers : /\ {"pc", "rows"} \subseteq DOMAIN reader'[r]
                          /\ reader'[r].pc = reader[r].pc
                          /\ reader'[r].rows = reader[r].rows

\* Nothing a load reads has changed, or the edit still has to drop the cache.
Declared == \/ Dirty'
            \/ ~Dirty /\ rule' = rule /\ claims' = claims

Dropped == mu = None /\ ~cache'.loaded /\ cache'.rows = <<>>

Edited ==
    /\ TablesOK' /\ OneClaim' /\ admin' \in [Admins -> Calls]
    /\ ReaderKept /\ mu' = mu
    /\ \/ cache' = cache /\ poisoned' = poisoned /\ Declared
       \/ Dropped

LEMMA IdleIsACall == AdminIdle \in Calls
<1>1. <<>> \in [1..0 -> Nat]
  OBVIOUS
<1>2. <<>> \in Orders
  BY <1>1 DEF Orders
<1> QED
  BY <1>2 DEF AdminIdle, Calls

\* A call moves to a step of its own that leaves its debt to the cache as it is.
LEMMA OthersStay ==
    ASSUME TypeInv, NEW a \in Admins, NEW call \in Calls,
           admin' = [admin EXCEPT ![a] = call],
           admin[a].pc \notin {"commit", "drop"}
    PROVE  /\ admin' \in [Admins -> Calls]
           /\ Dirty => Dirty'
           /\ call.pc \in {"commit", "drop"} => Dirty'
<1>1. admin' \in [Admins -> Calls] /\ admin'[a] = call
      /\ \A b \in Admins \ {a} : admin'[b] = admin[b]
  BY DEF TypeInv
<1>2. Dirty => Dirty'
  BY <1>1 DEF Dirty
<1>3. call.pc \in {"commit", "drop"} => Dirty'
  BY <1>1 DEF Dirty
<1> QED
  BY <1>1, <1>2, <1>3

LEMMA BeginKeepsReaders ==
    ASSUME TypeInv, NEW a \in Admins, NEW c, Begin(a, c)
    PROVE  ReaderKept
BY DEF Begin, TypeInv, ReadersOK, ReaderKept

LEMMA UntouchedReaders ==
    ASSUME TypeInv, reader' = reader
    PROVE  ReaderKept
BY DEF TypeInv, ReadersOK, ReaderKept

\* Calls that write nothing yet.
LEMMA QuietStep ==
    ASSUME TypeInv, OneClaim, NEW a \in Admins, NEW call \in Calls,
           admin' = [admin EXCEPT ![a] = call],
           admin[a].pc \notin {"commit", "drop"},
           ReaderKept, rule' = rule, claims' = claims, used' = used,
           cache' = cache, poisoned' = poisoned, mu' = mu
    PROVE  Edited
<1>1. TablesOK' /\ OneClaim'
  BY DEF TypeInv, TablesOK, OneClaim
<1> QED
  BY <1>1, OthersStay DEF Edited, Declared

\* Calls that write, and owe the cache from then on.
LEMMA WritingStep ==
    ASSUME TypeInv, NEW a \in Admins, NEW call \in Calls,
           admin' = [admin EXCEPT ![a] = call],
           admin[a].pc \notin {"commit", "drop"}, call.pc \in {"commit", "drop"},
           TablesOK', OneClaim',
           ReaderKept, cache' = cache, poisoned' = poisoned, mu' = mu
    PROVE  Edited
BY OthersStay DEF Edited, Declared

LEMMA SaveEdited ==
    ASSUME TypeInv, OneClaim, NEW a \in Admins, SavePromptRule(a)
    PROVE  Edited
<1>1. PICK id \in DOMAIN rule \cup {None}, inherit \in BOOLEAN, enabled \in BOOLEAN,
           on \in SUBSET Targets :
             Begin(a, [AdminIdle EXCEPT !.pc = "exist", !.id = id, !.inherit = inherit,
                                        !.enabled = enabled, !.on = on])
  BY DEF SavePromptRule
<1> DEFINE call == [AdminIdle EXCEPT !.pc = "exist", !.id = id, !.inherit = inherit,
                                     !.enabled = enabled, !.on = on]
<1>2. id \in Nat \cup {None}
  BY DEF TypeInv, TablesOK
<1>3. call \in Calls
  BY <1>2, IdleIsACall DEF Calls
<1> HIDE DEF call
<1>4. admin' = [admin EXCEPT ![a] = call] /\ admin[a].pc = "idle" /\ ReaderKept
  BY <1>1, BeginKeepsReaders DEF Begin, call
<1> QED
  BY <1>3, <1>4, QuietStep DEF SavePromptRule, tables

LEMMA ReorderEdited ==
    ASSUME TypeInv, OneClaim, NEW a \in Admins, ReorderPromptRules(a)
    PROVE  Edited
<1>1. PICK order \in [1..Cardinality(DOMAIN rule) -> DOMAIN rule] :
             Begin(a, [AdminIdle EXCEPT !.pc = "order", !.order = order])
  BY DEF ReorderPromptRules
<1> DEFINE call == [AdminIdle EXCEPT !.pc = "order", !.order = order]
<1>2. order \in Orders
  <2>1. Cardinality(DOMAIN rule) \in Nat
    BY RulesCanBeListed DEF TypeInv
  <2>2. \A i \in 1..Cardinality(DOMAIN rule) : order[i] \in Nat
    BY DEF TypeInv, TablesOK
  <2>3. order \in [1..Cardinality(DOMAIN rule) -> Nat]
    BY <2>2
  <2> QED
    BY <2>1, <2>3 DEF Orders
<1>3. call \in Calls
  BY <1>2, IdleIsACall DEF Calls
<1> HIDE DEF call
<1>4. admin' = [admin EXCEPT ![a] = call] /\ admin[a].pc = "idle" /\ ReaderKept
  BY <1>1, BeginKeepsReaders DEF Begin, call
<1> QED
  BY <1>3, <1>4, QuietStep DEF ReorderPromptRules, tables

\* validateTargetsExist and validateTargetsClaimable.
LEMMA ValidationEdited ==
    ASSUME TypeInv, OneClaim, NEW a \in Admins,
           ValidateTargetsExist(a) \/ ValidateTargetsClaimable(a)
    PROVE  Edited
<1>1. admin[a].pc \notin {"commit", "drop"}
  BY DEF ValidateTargetsExist, ValidateTargetsClaimable
<1>2. PICK call \in Calls : admin' = [admin EXCEPT ![a] = call]
  <2>1. admin[a] \in Calls
    BY DEF TypeInv
  <2>2. [admin[a] EXCEPT !.pc = "claim"] \in Calls /\ [admin[a] EXCEPT !.pc = "save"] \in Calls
    BY <2>1 DEF Calls
  <2>3. Step(a, "claim") => admin' = [admin EXCEPT ![a] = [admin[a] EXCEPT !.pc = "claim"]]
    BY DEF Step, TypeInv
  <2>4. Step(a, "save") => admin' = [admin EXCEPT ![a] = [admin[a] EXCEPT !.pc = "save"]]
    BY DEF Step, TypeInv
  <2>5. Step(a, "claim") \/ Step(a, "save") \/ Finish(a)
    BY DEF ValidateTargetsExist, ValidateTargetsClaimable
  <2> QED
    BY <2>2, <2>3, <2>4, <2>5, IdleIsACall DEF Finish
<1>3. ReaderKept
  BY UntouchedReaders DEF ValidateTargetsExist, ValidateTargetsClaimable
<1> QED
  BY <1>1, <1>2, <1>3, QuietStep DEF ValidateTargetsExist, ValidateTargetsClaimable, tables

\* Write(a) leaves the call with its commit still to come.
LEMMA WriteIsAStep ==
    ASSUME NEW a \in Admins, Write(a)
    PROVE  \E call \in Calls : call.pc = "commit" /\ admin' = [admin EXCEPT ![a] = call]
<1> DEFINE call == [AdminIdle EXCEPT !.pc = "commit"]
<1>1. call \in Calls /\ call.pc = "commit"
  BY IdleIsACall DEF Calls
<1>2. admin' = [admin EXCEPT ![a] = call]
  BY DEF Write, After
<1> HIDE DEF call
<1> QED
  BY <1>1, <1>2

LEMMA SaveTransactionEdited ==
    ASSUME TypeInv, OneClaim, NEW a \in Admins, SaveTransaction(a)
    PROVE  Edited
<1> DEFINE on == admin[a].on
           new == used + 1
           id == IF admin[a].id = None THEN new ELSE admin[a].id
           position == IF admin[a].id = None THEN NextPosition ELSE rule[id].position
           row == [inherit |-> admin[a].inherit, enabled |-> admin[a].enabled,
                   position |-> position]
           Goes == (admin[a].id # None => id \in DOMAIN rule) /\ TargetsFree(on, id)
<1>0. admin[a] \in Calls /\ admin[a].pc = "save" /\ used \in Nat
  BY DEF TypeInv, TablesOK, SaveTransaction
<1>k. ReaderKept /\ cache' = cache /\ poisoned' = poisoned /\ mu' = mu
  BY UntouchedReaders DEF SaveTransaction
<1>1. CASE Goes
  <2>1. /\ rule' = Put(id, row)
        /\ claims' = {c \in claims : c[1] # id} \cup ({id} \X on)
        /\ used' = IF admin[a].id = None THEN new ELSE used
        /\ Write(a)
    BY <1>1 DEF SaveTransaction
  <2>2. used' \in Nat /\ used <= used' /\ id \in 1..used'
    BY <1>0, <1>1, <2>1 DEF TypeInv, TablesOK
  <2>3. position \in Int
    <3>1. \A i \in DOMAIN rule : rule[i].position \in Int
      BY DEF TypeInv, TablesOK, Flagged
    <3>2. NextPosition \in Int
      BY NextPositionIsANumber DEF TypeInv
    <3> QED
      BY <1>1, <3>1, <3>2
  <2>4. row \in Flagged
    BY <1>0, <2>3 DEF Calls, Flagged
  <2>p. id \in Nat /\ on \subseteq Targets
    BY <1>0, <2>2 DEF Calls
  <2> HIDE DEF row, id, on, position
  <2>5. DOMAIN rule' = DOMAIN rule \cup {id} /\ \A i \in DOMAIN rule' : rule'[i] \in Flagged
    BY <2>1, <2>4 DEF Put, TypeInv, TablesOK
  <2>6. rule' \in [DOMAIN rule' -> Flagged]
    BY <2>1, <2>5 DEF Put
  <2>7. DOMAIN rule' \subseteq 1..used'
    BY <1>0, <2>2, <2>5 DEF TypeInv, TablesOK
  <2>8. claims' \subseteq Nat \X Targets
    BY <2>1, <2>p DEF TypeInv, TablesOK
  <2>9. TablesOK'
    BY <2>2, <2>6, <2>7, <2>8 DEF TablesOK
  <2>10. OneClaim'
    <3> SUFFICES ASSUME NEW c \in claims', NEW d \in claims', c[2] = d[2]
                 PROVE  c = d
      BY DEF OneClaim
    <3>1. \A e \in claims' : (e \in claims /\ e[1] # id) \/ (e \in {id} \X on)
      BY <2>1
    <3>2. \A e \in claims : e[2] \in on => e[1] = id
      BY <1>1 DEF TargetsFree
    <3>3. \A e \in {id} \X on : e = <<id, e[2]>> /\ e[2] \in on
      OBVIOUS
    <3>4. CASE c \in claims /\ d \in claims
      BY <3>4 DEF OneClaim
    <3>5. CASE c \in {id} \X on /\ d \in {id} \X on
      <4>1. c = <<id, c[2]>> /\ d = <<id, d[2]>>
        BY <3>3, <3>5
      <4> QED
        BY <4>1
    <3>6. CASE c \in claims /\ c[1] # id /\ d \in {id} \X on
      BY <3>2, <3>3, <3>6
    <3>7. CASE d \in claims /\ d[1] # id /\ c \in {id} \X on
      BY <3>2, <3>3, <3>7
    <3> QED
      BY <3>1, <3>4, <3>5, <3>6, <3>7
  <2>11. PICK call \in Calls : call.pc = "commit" /\ admin' = [admin EXCEPT ![a] = call]
    BY <2>1, WriteIsAStep
  <2> QED
    BY <1>0, <1>k, <2>9, <2>10, <2>11, WritingStep
<1>2. CASE ~Goes
  <2>1. admin' = [admin EXCEPT ![a] = AdminIdle] /\ rule' = rule /\ claims' = claims /\ used' = used
    BY <1>2 DEF SaveTransaction, Finish
  <2> QED
    BY <1>0, <1>k, <2>1, IdleIsACall, QuietStep
<1> QED
  BY <1>1, <1>2

LEMMA OrderTransactionEdited ==
    ASSUME TypeInv, OneClaim, NEW a \in Admins, OrderTransaction(a)
    PROVE  Edited
<1> DEFINE order == admin[a].order
           At(x) == (CHOOSE i \in DOMAIN order : order[i] = x) - 1
<1>0. admin[a] \in Calls /\ admin[a].pc = "order"
  BY DEF TypeInv, OrderTransaction
<1>k. ReaderKept /\ cache' = cache /\ poisoned' = poisoned /\ mu' = mu
      /\ claims' = claims /\ used' = used /\ Write(a)
  BY UntouchedReaders DEF OrderTransaction
<1>1. rule' = [x \in DOMAIN rule |->
                 IF \E i \in DOMAIN order : order[i] = x
                 THEN [rule[x] EXCEPT !.position = At(x)] ELSE rule[x]]
  BY DEF OrderTransaction
<1>2. \A i \in DOMAIN order : i \in Int
  BY <1>0 DEF Calls, Orders
<1> HIDE DEF order
<1>3. ASSUME NEW x \in DOMAIN rule, \E i \in DOMAIN order : order[i] = x
      PROVE  At(x) \in Int
  <2>1. (CHOOSE i \in DOMAIN order : order[i] = x) \in DOMAIN order
    BY <1>3
  <2> QED
    BY <1>2, <2>1
<1> HIDE DEF At
<1>4. ASSUME NEW x \in DOMAIN rule
      PROVE  rule'[x] \in Flagged
  <2>1. rule[x] \in Flagged
    BY DEF TypeInv, TablesOK
  <2> QED
    BY <1>1, <1>3, <2>1 DEF Flagged
<1>5. rule' \in [DOMAIN rule -> Flagged] /\ DOMAIN rule' = DOMAIN rule
  BY <1>1, <1>4
<1>6. TablesOK' /\ OneClaim'
  BY <1>5, <1>k DEF TypeInv, TablesOK, OneClaim
<1>7. PICK call \in Calls : call.pc = "commit" /\ admin' = [admin EXCEPT ![a] = call]
  BY <1>k, WriteIsAStep
<1> QED
  BY <1>0, <1>k, <1>6, <1>7, WritingStep

LEMMA DeleteRuleEdited ==
    ASSUME TypeInv, OneClaim, NEW a \in Admins, DeletePromptRule(a)
    PROVE  Edited
<1> DEFINE call == [AdminIdle EXCEPT !.pc = "drop"]
<1>1. call \in Calls /\ call.pc = "drop"
  BY IdleIsACall DEF Calls
<1>2. Begin(a, call) /\ cache' = cache /\ poisoned' = poisoned /\ mu' = mu /\ used' = used
  BY DEF DeletePromptRule
<1> HIDE DEF call
<1>3. admin' = [admin EXCEPT ![a] = call] /\ admin[a].pc = "idle" /\ ReaderKept
  BY <1>2, BeginKeepsReaders DEF Begin
<1>4. PICK id \in DOMAIN rule : /\ rule' = [i \in DOMAIN rule \ {id} |-> rule[i]]
                                /\ claims' = {c \in claims : c[1] # id}
  BY DEF DeletePromptRule
<1>5. rule' \in [DOMAIN rule \ {id} -> Flagged] /\ DOMAIN rule' = DOMAIN rule \ {id}
  BY <1>4 DEF TypeInv, TablesOK
<1>6. TablesOK' /\ OneClaim'
  BY <1>2, <1>4, <1>5 DEF TypeInv, TablesOK, OneClaim
<1> QED
  BY <1>1, <1>2, <1>3, <1>6, WritingStep

LEMMA DeleteTargetEdited ==
    ASSUME TypeInv, OneClaim, NEW a \in Admins, DeleteTarget(a)
    PROVE  Edited
<1> DEFINE call == [AdminIdle EXCEPT !.pc = After.write]
<1>1. call \in Calls /\ call.pc = "commit"
  BY IdleIsACall DEF Calls, After
<1>2. /\ Begin(a, call) /\ cache' = cache /\ poisoned' = poisoned /\ mu' = mu
      /\ used' = used /\ rule' = rule
  BY DEF DeleteTarget
<1> HIDE DEF call
<1>3. admin' = [admin EXCEPT ![a] = call] /\ admin[a].pc = "idle" /\ ReaderKept
  BY <1>2, BeginKeepsReaders DEF Begin
<1>4. claims' \subseteq claims
  BY DEF DeleteTarget
<1>5. TablesOK' /\ OneClaim'
  BY <1>2, <1>4 DEF TypeInv, TablesOK, OneClaim
<1> QED
  BY <1>1, <1>2, <1>3, <1>5, WritingStep

LEMMA DeleteProviderEdited ==
    ASSUME TypeInv, OneClaim, NEW a \in Admins, DeleteProvider(a)
    PROVE  Edited
<1>1. Begin(a, AdminIdle)
  BY DEF DeleteProvider
<1>2. admin' = [admin EXCEPT ![a] = AdminIdle] /\ admin[a].pc = "idle" /\ ReaderKept
  BY <1>1, BeginKeepsReaders DEF Begin
<1> QED
  BY <1>2, IdleIsACall, QuietStep DEF DeleteProvider

LEMMA CommitEdited ==
    ASSUME TypeInv, OneClaim, NEW a \in Admins, Commit(a)
    PROVE  Edited
<1>0. admin[a] \in Calls
  BY DEF TypeInv
<1>1. admin' = [admin EXCEPT ![a] = [admin[a] EXCEPT !.pc = "drop"]]
  BY DEF Commit, After, Step, TypeInv
<1>2. [admin[a] EXCEPT !.pc = "drop"] \in Calls
  BY <1>0 DEF Calls
<1>3. admin' \in [Admins -> Calls] /\ admin'[a].pc = "drop"
  BY <1>0, <1>1, <1>2 DEF TypeInv, Calls
<1>4. Dirty'
  BY <1>3 DEF Dirty
<1>5. TablesOK' /\ OneClaim'
  BY DEF Commit, tables, TypeInv, TablesOK, OneClaim
<1> QED
  BY <1>3, <1>4, <1>5, UntouchedReaders DEF Commit, Edited, Declared

LEMMA InvalidateEdited ==
    ASSUME TypeInv, OneClaim, NEW a \in Admins, Invalidate(a)
    PROVE  Edited
<1>1. admin' = [admin EXCEPT ![a] = AdminIdle]
  BY DEF Invalidate, After, Finish
<1>2. admin' \in [Admins -> Calls]
  BY <1>1, IdleIsACall DEF TypeInv
<1>3. TablesOK' /\ OneClaim'
  BY DEF Invalidate, tables, TypeInv, TablesOK, OneClaim
<1>4. Dropped
  BY DEF Invalidate, Dropped
<1> QED
  BY <1>2, <1>3, <1>4, UntouchedReaders DEF Invalidate, Edited

LEMMA AdminsEdit ==
    ASSUME TypeInv, OneClaim, NEW a \in Admins, Edits(a) \/ AdminSteps(a)
    PROVE  Edited
BY SaveEdited, ReorderEdited, DeleteRuleEdited, DeleteTargetEdited, DeleteProviderEdited,
   ValidationEdited, SaveTransactionEdited, OrderTransactionEdited, CommitEdited,
   InvalidateEdited
   DEF Edits, AdminSteps

-----------------------------------------------------------------------------
(* What a step of a request does *)

SameCache == cache' = cache /\ poisoned' = poisoned

\* Nothing is being loaded by this request.
Passes(r) == ~Loading(r)' /\ SameCache /\ mu' = mu
StartsLoad(r) == reader'[r].pc = "rules" /\ SameCache /\ mu = None /\ mu' = r
ReadsRules(r) == /\ Loading(r) /\ reader'[r].pc = "targets" /\ reader'[r].rows = Rows
                 /\ SameCache /\ mu' = mu
EndsLoad(r) ==
    /\ Loading(r) /\ ~Loading(r)' /\ mu' = None
    /\ Apart(cache'.rows)
    /\ poisoned' \/ Dirty \/ cache'.rows = Attach(Rows)

Moved(r) ==
    /\ DOMAIN reader' = Readers /\ \A o \in Readers \ {r} : reader'[o] = reader[o]
    /\ {"pc", "rows"} \subseteq DOMAIN reader'[r]
    /\ Snapshot(reader'[r].rows) /\ Bare(reader'[r].rows)
    /\ rule' = rule /\ claims' = claims /\ used' = used /\ admin' = admin
    /\ Passes(r) \/ StartsLoad(r) \/ ReadsRules(r) \/ EndsLoad(r)

LEMMA NothingIsASnapshot == Snapshot(<<>>) /\ Bare(<<>>)
BY DEF Snapshot, Bare

\* With a snapshot at hand the request is answered, or starts over without its
\* override.
LEMMA AnswerIsNoLoad ==
    ASSUME TypeInv, NEW r \in Readers, NEW rows, NEW bad
    PROVE  /\ {"pc", "rows"} \subseteq DOMAIN Answer(r, rows, bad)
           /\ Answer(r, rows, bad).pc \in {"fast", "done"}
           /\ Answer(r, rows, bad).rows = <<>>
BY DEF TypeInv, ReadersOK, Answer

LEMMA StoreMoves ==
    ASSUME TypeInv, NEW r \in Readers, NEW rows, NEW bad, Loading(r),
           Store(r, rows, bad), Apart(rows),
           bad \/ Dirty \/ rows = Attach(Rows),
           rule' = rule, claims' = claims, used' = used, admin' = admin
    PROVE  Moved(r)
<1> DEFINE new == [Answer(r, rows, bad) EXCEPT !.clean = @ /\ ~bad]
<1>1. /\ {"pc", "rows"} \subseteq DOMAIN new
      /\ new.pc \in {"fast", "done"} /\ new.rows = <<>>
  BY AnswerIsNoLoad
<1>2. /\ reader' = [reader EXCEPT ![r] = new]
      /\ cache'.rows = rows /\ poisoned' = bad /\ mu' = None
  BY DEF Store
<1> HIDE DEF new
<1>3. /\ DOMAIN reader' = Readers /\ \A o \in Readers \ {r} : reader'[o] = reader[o]
      /\ reader'[r] = new
  BY <1>2 DEF TypeInv, ReadersOK
<1>4. ~Loading(r)'
  BY <1>1, <1>3 DEF Loading
<1>5. EndsLoad(r)
  BY <1>2, <1>4 DEF EndsLoad
<1> QED
  BY <1>1, <1>3, <1>5, NothingIsASnapshot DEF Moved

LEMMA RequestMoves ==
    ASSUME IInv, NEW r \in Readers, Ask(r) \/ FastPath(r) \/ SlowPath(r) \/ Return(r)
    PROVE  Moved(r)
<1>0. /\ rule' = rule /\ claims' = claims /\ used' = used /\ admin' = admin
      /\ SameCache
  BY DEF Ask, FastPath, SlowPath, Return, tables, SameCache
<1>o. /\ DOMAIN reader = Readers /\ {"pc", "rows"} \subseteq DOMAIN reader[r]
      /\ Snapshot(reader[r].rows) /\ Bare(reader[r].rows)
  BY DEF IInv, TypeInv, ReadersOK, LoadsAreSnapshots
<1>p. TypeInv
  BY DEF IInv
<1> DEFINE Becomes(new) == /\ {"pc", "rows"} \subseteq DOMAIN new
                           /\ Snapshot(new.rows) /\ Bare(new.rows)
                           /\ reader' = [reader EXCEPT ![r] = new]
<1>1. ASSUME NEW new, Becomes(new), new.pc \notin {"rules", "targets"}, mu' = mu
      PROVE  Moved(r)
  <2>1. /\ DOMAIN reader' = Readers /\ \A o \in Readers \ {r} : reader'[o] = reader[o]
        /\ reader'[r] = new
    BY <1>o, <1>1
  <2>2. Passes(r)
    BY <1>0, <1>1, <2>1 DEF Passes, Loading
  <2> QED
    BY <1>0, <1>1, <2>1, <2>2 DEF Moved
<1>2. CASE Ask(r)
  <2>1. PICK g \in Groups \cup {None}, m \in Models, name \in Names \cup {None} :
          LET ask == [group |-> g, model |-> m, name |-> name] IN
          reader' = [reader EXCEPT ![r] = [ReaderIdle EXCEPT
              !.pc = "fast", !.ask = ask, !.wanted = ask, !.clean = ~Editing]]
    BY <1>2 DEF Ask
  <2> DEFINE ask == [group |-> g, model |-> m, name |-> name]
             new == [ReaderIdle EXCEPT
              !.pc = "fast", !.ask = ask, !.wanted = ask, !.clean = ~Editing]
  <2>2. {"pc", "rows"} \subseteq DOMAIN new /\ new.pc = "fast" /\ new.rows = <<>>
    BY DEF ReaderIdle
  <2>3. reader' = [reader EXCEPT ![r] = new] /\ mu' = mu
    BY <1>2, <2>1 DEF Ask
  <2> HIDE DEF new
  <2> QED
    BY <2>2, <2>3, <1>1, NothingIsASnapshot
<1>3. ASSUME NEW bad, reader' = [reader EXCEPT ![r] = Answer(r, cache.rows, bad)], mu' = mu
      PROVE  Moved(r)
  <2> DEFINE new == Answer(r, cache.rows, bad)
  <2>1. /\ {"pc", "rows"} \subseteq DOMAIN new
        /\ new.pc \in {"fast", "done"} /\ new.rows = <<>>
    BY <1>p, AnswerIsNoLoad
  <2>2. reader' = [reader EXCEPT ![r] = new]
    BY <1>3
  <2> HIDE DEF new
  <2> QED
    BY <2>1, <2>2, <1>1, <1>3, NothingIsASnapshot
<1>4. CASE FastPath(r)
  <2>1. CASE cache.loaded
    BY <1>3, <1>4, <2>1 DEF FastPath
  <2>2. CASE ~cache.loaded
    <3> DEFINE new == [reader[r] EXCEPT !.pc = "lock"]
    <3>1. reader' = [reader EXCEPT ![r] = new] /\ mu' = mu
      BY <1>4, <2>2 DEF FastPath
    <3>2. {"pc", "rows"} \subseteq DOMAIN new /\ new.pc = "lock" /\ new.rows = reader[r].rows
      BY <1>o
    <3> HIDE DEF new
    <3> QED
      BY <1>o, <1>1, <3>1, <3>2
  <2> QED
    BY <2>1, <2>2
<1>5. CASE SlowPath(r)
  <2>1. CASE cache.loaded
    BY <1>3, <1>5, <2>1 DEF SlowPath
  <2>2. CASE ~cache.loaded
    <3> DEFINE new == [reader[r] EXCEPT !.pc = "rules"]
    <3>1. reader' = [reader EXCEPT ![r] = new] /\ mu = None /\ mu' = r
      BY <1>5, <2>2 DEF SlowPath
    <3>2. {"pc", "rows"} \subseteq DOMAIN new /\ new.pc = "rules" /\ new.rows = reader[r].rows
      BY <1>o
    <3> HIDE DEF new
    <3>3. /\ DOMAIN reader' = Readers /\ \A o \in Readers \ {r} : reader'[o] = reader[o]
          /\ reader'[r] = new
      BY <1>o, <3>1
    <3>4. StartsLoad(r)
      BY <1>0, <3>1, <3>2, <3>3 DEF StartsLoad
    <3> QED
      BY <1>0, <1>o, <3>2, <3>3, <3>4 DEF Moved
  <2> QED
    BY <2>1, <2>2
<1>6. CASE Return(r)
  <2>1. {"pc", "rows"} \subseteq DOMAIN ReaderIdle /\ ReaderIdle.pc = "idle" /\ ReaderIdle.rows = <<>>
    BY DEF ReaderIdle
  <2>2. reader' = [reader EXCEPT ![r] = ReaderIdle] /\ mu' = mu
    BY <1>6 DEF Return
  <2> QED
    BY <1>1, <2>1, <2>2, NothingIsASnapshot
<1> QED
  BY <1>2, <1>4, <1>5, <1>6

\* loadPromptRules: its two statements, and its failures.
LEMMA LoadMoves ==
    ASSUME IInv, NEW r \in Readers, LoadRules(r) \/ LoadTargets(r) \/ LoadFails(r)
    PROVE  Moved(r)
<1>0. /\ rule' = rule /\ claims' = claims /\ used' = used /\ admin' = admin
      /\ Loading(r) /\ TypeInv /\ TablesOK /\ OneClaim
  BY DEF LoadRules, LoadTargets, LoadFails, tables, Loading, IInv, TypeInv
<1>o. /\ DOMAIN reader = Readers /\ {"pc", "rows"} \subseteq DOMAIN reader[r]
      /\ Snapshot(reader[r].rows) /\ Bare(reader[r].rows)
  BY DEF IInv, TypeInv, ReadersOK, LoadsAreSnapshots
<1>1. CASE LoadRules(r) /\ rule = <<>>
  <2>1. Store(r, <<>>, FALSE)
    BY <1>1 DEF LoadRules
  <2>2. Apart(<<>>)
    BY NothingIsASnapshot, BareRowsAreApart
  <2>3. <<>> = Attach(Rows)
    <3>1. Rows = <<>>
      BY <1>0, <1>1, RowsAreASnapshot
    <3> QED
      BY <3>1 DEF Attach
  <2> QED
    BY <1>0, <2>1, <2>2, <2>3, StoreMoves
<1>2. CASE LoadRules(r) /\ rule # <<>>
  <2> DEFINE new == [reader[r] EXCEPT !.pc = "targets", !.rows = Rows]
  <2>1. reader' = [reader EXCEPT ![r] = new] /\ SameCache /\ mu' = mu
    BY <1>2, <1>o DEF LoadRules, SameCache
  <2>2. {"pc", "rows"} \subseteq DOMAIN new /\ new.pc = "targets" /\ new.rows = Rows
    BY <1>o
  <2> HIDE DEF new
  <2>3. /\ DOMAIN reader' = Readers /\ \A o \in Readers \ {r} : reader'[o] = reader[o]
        /\ reader'[r] = new
    BY <1>o, <2>1
  <2>4. ReadsRules(r)
    BY <1>0, <2>1, <2>2, <2>3 DEF ReadsRules
  <2>5. Snapshot(Rows) /\ Bare(Rows)
    BY <1>0, RowsAreASnapshot
  <2> QED
    BY <1>0, <2>2, <2>3, <2>4, <2>5 DEF Moved
<1>3. CASE LoadTargets(r)
  <2>1. Store(r, Attach(reader[r].rows), FALSE) /\ reader[r].pc = "targets"
    BY <1>3 DEF LoadTargets
  <2>2. Apart(Attach(reader[r].rows))
    BY <1>0, <1>o, AttachKeepsApart
  <2>3. Dirty \/ reader[r].rows = Rows
    BY <2>1 DEF IInv, LoadIsCurrent
  <2>4. Dirty \/ Attach(reader[r].rows) = Attach(Rows)
    BY <2>3
  <2> QED
    BY <1>0, <2>1, <2>2, <2>4, StoreMoves
<1>4. CASE LoadFails(r)
  <2>1. Store(r, reader[r].rows, TRUE)
    BY <1>4 DEF LoadFails
  <2>2. Apart(reader[r].rows)
    BY <1>o, BareRowsAreApart
  <2> QED
    BY <1>0, <2>1, <2>2, StoreMoves
<1> QED
  BY <1>0, <1>1, <1>2, <1>3, <1>4

-----------------------------------------------------------------------------
(* The invariant *)

\* What a load would read depends on the two tables only.
LEMMA SameRows ==
    ASSUME rule' = rule
    PROVE  Rows' = Rows
BY DEF Rows, Ordered, Before

LEMMA SameAttach ==
    ASSUME claims' = claims, rule' = rule
    PROVE  Attach(Rows)' = Attach(Rows)
BY SameRows DEF Attach

LEMMA EditsKeep ==
    ASSUME IInv, Edited
    PROVE  IInv'
<1>1. /\ TablesOK' /\ OneClaim' /\ admin' \in [Admins -> Calls]
      /\ ReaderKept /\ mu' = mu
  BY DEF Edited
<1>2. \A r \in Readers : reader'[r].pc = reader[r].pc /\ reader'[r].rows = reader[r].rows
  BY <1>1 DEF ReaderKept
<1>3. TypeInv'
  BY <1>1 DEF TypeInv, ReaderKept, ReadersOK
<1>4. Mutex'
  BY <1>1, <1>2 DEF Mutex, Loading, IInv
<1>5. LoadsAreSnapshots'
  BY <1>2 DEF LoadsAreSnapshots, IInv, Snapshot, Bare
<1>6. CASE Dropped
  <2>1. \A r \in Readers : ~Loading(r)
    BY <1>6, PromptRulesAssumption DEF Dropped, IInv, Mutex
  <2>2. LoadIsCurrent'
    BY <1>2, <2>1 DEF LoadIsCurrent, Loading
  <2>3. CacheIsCurrent'
    BY <1>6 DEF CacheIsCurrent, Dropped
  <2>4. Apart(cache.rows)'
    BY <1>6 DEF Apart, Dropped
  <2> QED
    BY <1>1, <1>3, <1>4, <1>5, <2>2, <2>3, <2>4 DEF IInv
<1>7. CASE SameCache /\ Declared
  <2>1. Apart(cache.rows)'
    BY <1>7 DEF SameCache, IInv, Apart
  <2>2. CASE Dirty'
    <3>1. LoadIsCurrent'
      BY <2>2 DEF LoadIsCurrent
    <3>2. CacheIsCurrent'
      BY <2>2 DEF CacheIsCurrent, Dirty
    <3> QED
      BY <1>1, <1>3, <1>4, <1>5, <2>1, <3>1, <3>2 DEF IInv
  <2>3. CASE ~Dirty /\ rule' = rule /\ claims' = claims
    <3>1. Rows' = Rows /\ Attach(Rows)' = Attach(Rows)
      BY <2>3, SameRows, SameAttach
    <3>2. LoadIsCurrent'
      BY <1>2, <2>3, <3>1 DEF LoadIsCurrent, IInv
    <3>3. CacheIsCurrent'
      BY <1>7, <2>3, <3>1 DEF CacheIsCurrent, Dirty, SameCache, IInv
    <3> QED
      BY <1>1, <1>3, <1>4, <1>5, <2>1, <3>2, <3>3 DEF IInv
  <2> QED
    BY <1>7, <2>2, <2>3 DEF Declared
<1> QED
  BY <1>6, <1>7 DEF Edited, SameCache

LEMMA MovesKeep ==
    ASSUME IInv, NEW r \in Readers, Moved(r)
    PROVE  IInv'
<1>1. /\ DOMAIN reader' = Readers /\ \A o \in Readers \ {r} : reader'[o] = reader[o]
      /\ {"pc", "rows"} \subseteq DOMAIN reader'[r]
      /\ Snapshot(reader'[r].rows) /\ Bare(reader'[r].rows)
      /\ rule' = rule /\ claims' = claims /\ used' = used /\ admin' = admin
  BY DEF Moved
<1>2. TypeInv' /\ OneClaim'
  BY <1>1 DEF IInv, TypeInv, TablesOK, ReadersOK, OneClaim
<1>3. LoadsAreSnapshots'
  BY <1>1, SMTT(30) DEF LoadsAreSnapshots, IInv, Snapshot, Bare
<1>4. Rows' = Rows /\ Attach(Rows)' = Attach(Rows) /\ (Dirty' <=> Dirty)
  <2>1. Dirty' <=> Dirty
    BY <1>1 DEF Dirty
  <2> QED
    BY <1>1, <2>1, SameRows, SameAttach
<1>5. \A o \in Readers \ {r} : Loading(o)' <=> Loading(o)
  BY <1>1 DEF Loading
<1>6. r # None
  BY PromptRulesAssumption
<1>7. Mutex'
  BY <1>5, <1>6, PromptRulesAssumption
     DEF Mutex, IInv, Moved, Passes, StartsLoad, ReadsRules, EndsLoad
<1>8. LoadIsCurrent'
  <2>1. reader'[r].pc = "targets" => reader'[r].rows = Rows
    BY DEF Moved, Passes, StartsLoad, ReadsRules, EndsLoad, Loading
  <2> QED
    BY <1>1, <1>4, <2>1 DEF LoadIsCurrent, IInv
<1>9. CacheIsCurrent' /\ Apart(cache.rows)'
  <2>1. CASE SameCache
    <3>1. Apart(cache.rows)'
      BY <2>1 DEF SameCache, IInv, Apart
    <3>2. CacheIsCurrent'
      BY <1>1, <1>4, <2>1 DEF CacheIsCurrent, SameCache, IInv
    <3> QED
      BY <3>1, <3>2
  <2>2. CASE EndsLoad(r)
    <3>1. Apart(cache.rows)'
      BY <2>2 DEF EndsLoad, Apart
    <3>2. CacheIsCurrent'
      BY <1>1, <1>4, <2>2 DEF CacheIsCurrent, EndsLoad, Dirty
    <3> QED
      BY <3>1, <3>2
  <2> QED
    BY <2>1, <2>2 DEF Moved, Passes, StartsLoad, ReadsRules
<1> QED
  BY <1>2, <1>3, <1>7, <1>8, <1>9 DEF IInv

LEMMA InitEstablishes == Init => IInv
<1> SUFFICES ASSUME Init PROVE IInv
  OBVIOUS
<1>1. rule = [i \in FirstRules |->
                [inherit |-> i \in FirstInherit, enabled |-> TRUE, position |-> i - 1]]
  BY DEF Init
<1> DEFINE N == Cardinality(FirstRules)
<1>2. N \in Nat /\ FirstRules = 1..N
  BY PromptRulesAssumption, FS_CardinalityType
<1> HIDE DEF N
<1>3. used = N
  BY DEF Init, N
<1>4. DOMAIN rule = 1..N /\ rule \in [1..N -> Flagged]
  BY <1>1, <1>2 DEF Flagged
<1>5. claims = FirstClaims
  BY DEF Init
<1>6. claims \subseteq Nat \X Targets /\ OneClaim
  <2>1. FirstClaims \subseteq FirstRules \X Targets
    BY PromptRulesAssumption
  <2>2. \A c, d \in FirstClaims : c[2] = d[2] => c = d
    BY PromptRulesAssumption
  <2>3. FirstRules \subseteq Nat
    BY <1>2
  <2>4. claims \subseteq Nat \X Targets
    BY <1>5, <2>1, <2>3
  <2>5. OneClaim
    BY <1>5, <2>2 DEF OneClaim
  <2> QED
    BY <2>4, <2>5
<1>7. TablesOK
  BY <1>2, <1>3, <1>4, <1>6 DEF TablesOK
<1>8. reader = [r \in Readers |-> ReaderIdle] /\ admin = [a \in Admins |-> AdminIdle]
      /\ cache = [loaded |-> FALSE, rows |-> <<>>]
  BY DEF Init
<1>9. {"pc", "rows"} \subseteq DOMAIN ReaderIdle /\ ReaderIdle.pc = "idle" /\ ReaderIdle.rows = <<>>
  BY DEF ReaderIdle
<1>10. TypeInv
  BY <1>7, <1>8, <1>9, IdleIsACall DEF TypeInv, ReadersOK
<1>11. Mutex /\ LoadIsCurrent
  BY <1>8, <1>9 DEF Mutex, Loading, LoadIsCurrent
<1>12. LoadsAreSnapshots
  BY <1>8, <1>9, NothingIsASnapshot DEF LoadsAreSnapshots
<1>13. CacheIsCurrent /\ Apart(cache.rows)
  BY <1>8 DEF CacheIsCurrent, Apart
<1> QED
  BY <1>6, <1>10, <1>11, <1>12, <1>13 DEF IInv

LEMMA NextKeeps == IInv /\ [Next]_vars => IInv'
<1> SUFFICES ASSUME IInv, [Next]_vars PROVE IInv'
  OBVIOUS
<1>0. TypeInv /\ OneClaim
  BY DEF IInv
<1>1. ASSUME NEW r \in Readers, Ask(r) \/ ReaderSteps(r) \/ LoadFails(r)
      PROVE  IInv'
  <2>1. Moved(r)
    BY <1>1, RequestMoves, LoadMoves DEF ReaderSteps
  <2> QED
    BY <2>1, MovesKeep
<1>2. ASSUME NEW a \in Admins, Edits(a) \/ AdminSteps(a)
      PROVE  IInv'
  BY <1>0, <1>2, AdminsEdit, EditsKeep
<1>3. CASE UNCHANGED vars
  <2>1. /\ rule' = rule /\ claims' = claims /\ used' = used /\ admin' = admin
        /\ reader' = reader /\ mu' = mu /\ cache' = cache /\ poisoned' = poisoned
    BY <1>3 DEF vars, tables
  <2>2. Dirty => Dirty'
    BY <2>1 DEF Dirty
  <2>3. TablesOK' /\ OneClaim' /\ admin' \in [Admins -> Calls]
    BY <1>0, <2>1 DEF TypeInv, TablesOK, OneClaim
  <2>4. Edited
    BY <1>0, <2>1, <2>2, <2>3, UntouchedReaders DEF Edited, Declared
  <2> QED
    BY <2>4, EditsKeep
<1> QED
  BY <1>1, <1>2, <1>3 DEF Next

\* Between any two statements of any loads and edits: who is loading holds
\* promptMu, and what the cache lacks an edit under way is about to drop.
THEOREM PromptInvariant == Spec => []IInv
<1>1. Init => IInv
  BY InitEstablishes
<1>2. IInv /\ [Next]_vars => IInv'
  BY NextKeeps
<1> QED
  BY <1>1, <1>2, PTL DEF Spec

\* For any number of requests, administrators and edits, whatever loads fail:
\* a cache that no failed load left, with no edit under way that has written,
\* is what the tables hold (promptRuleSnapshot, invalidatePromptRules).
THEOREM CacheFollowsTheTables == Spec => []CacheIsCurrent
<1>1. IInv => CacheIsCurrent
  BY DEF IInv
<1> QED
  BY <1>1, PromptInvariant, PTL

\* Neither the tables nor a snapshot ever give a target to two rules, though
\* every save is validated outside its transaction and a load can be torn.
THEOREM TargetsHaveOneRule == Spec => []OneRulePerTarget
<1>1. IInv => OneRulePerTarget
  BY DEF IInv, OneClaim, Apart, OneRulePerTarget
<1> QED
  BY <1>1, PromptInvariant, PTL
=============================================================================
