------------------------- MODULE ProviderKeysProofs -------------------------
(***************************************************************************)
(* SecretsAreUnique and PrimaryStaysFirst of module ProviderKeys, for any  *)
(* number of administrators, keys and lines, and any order of their        *)
(* statements.                                                             *)
(***************************************************************************)
EXTENDS ProviderKeys, FiniteSetTheorems, SequenceTheorems, TLAPS

-----------------------------------------------------------------------------
(* Finite sets of integers *)

UpTo(S, i) == {j \in S : j <= i}
RankIn(S) == [i \in S |-> Cardinality(UpTo(S, i))]

\* Counting the members up to each one numbers a finite set of integers.
LEMMA RanksNumber ==
    ASSUME NEW S, S \subseteq Int, IsFiniteSet(S)
    PROVE  /\ Cardinality(S) \in Nat
           /\ \A n \in 1..Cardinality(S) : \E i \in S : Cardinality(UpTo(S, i)) = n
<1> DEFINE N == Cardinality(S)
<1>1. N \in Nat
  BY FS_CardinalityType
<1>2. ASSUME NEW i \in S
      PROVE  /\ IsFiniteSet(UpTo(S, i)) /\ UpTo(S, i) \subseteq S
             /\ Cardinality(UpTo(S, i)) \in 1..N
  <2>1. UpTo(S, i) \in SUBSET S /\ i \in UpTo(S, i)
    BY DEF UpTo
  <2>2. IsFiniteSet(UpTo(S, i)) /\ Cardinality(UpTo(S, i)) <= N
    BY <2>1, FS_Subset
  <2>3. Cardinality(UpTo(S, i)) \in Nat /\ Cardinality(UpTo(S, i)) # 0
    BY <2>1, <2>2, FS_CardinalityType, FS_EmptySet
  <2> QED
    BY <1>1, <2>1, <2>2, <2>3
<1>3. ASSUME NEW i \in S, NEW j \in S, i < j
      PROVE  Cardinality(UpTo(S, i)) # Cardinality(UpTo(S, j))
  <2>0. i \in Int /\ j \in Int /\ \A x \in S : x \in Int
    OBVIOUS
  <2>1. UpTo(S, i) \in SUBSET UpTo(S, j) /\ j \in UpTo(S, j) /\ j \notin UpTo(S, i)
    <3>1. \A x \in S : x <= i => x <= j
      BY <1>3, <2>0
    <3>2. j <= j /\ ~(j <= i)
      BY <1>3, <2>0
    <3> QED
      BY <3>1, <3>2 DEF UpTo
  <2>2. IsFiniteSet(UpTo(S, j))
    BY <1>2
  <2>3. Cardinality(UpTo(S, j)) = Cardinality(UpTo(S, i)) => UpTo(S, j) = UpTo(S, i)
    BY <2>1, <2>2, FS_Subset
  <2> QED
    BY <2>1, <2>3
<1>4. RankIn(S) \in Injection(S, 1..N)
  <2>1. RankIn(S) \in [S -> 1..N]
    BY <1>2 DEF RankIn
  <2>2. \A i, j \in S : RankIn(S)[i] = RankIn(S)[j] => i = j
    <3> SUFFICES ASSUME NEW i \in S, NEW j \in S, i # j
                 PROVE  RankIn(S)[i] # RankIn(S)[j]
      OBVIOUS
    <3>1. i < j \/ j < i
      OBVIOUS
    <3> QED
      BY <3>1, <1>3 DEF RankIn
  <2> QED
    BY <2>1, <2>2 DEF Injection, IsInjective
<1>5. IsFiniteSet(1..N) /\ Cardinality(1..N) = N
  BY <1>1, FS_Interval
<1>6. RankIn(S) \in Surjection(S, 1..N)
  BY <1>4, <1>5, FS_Injection
<1> QED
  BY <1>1, <1>6 DEF Surjection, RankIn

\* A finite set of integers has a largest member.
LEMMA LargestExists ==
    ASSUME NEW S, S \subseteq Int, IsFiniteSet(S), S # {}
    PROVE  \E m \in S : \A s \in S : s <= m
<1>1. Cardinality(S) \in Nat /\ Cardinality(S) # 0
  BY FS_CardinalityType, FS_EmptySet
<1>2. PICK m \in S : Cardinality(UpTo(S, m)) = Cardinality(S)
  <2>1. Cardinality(S) \in 1..Cardinality(S)
    BY <1>1
  <2>2. \A n \in 1..Cardinality(S) : \E i \in S : Cardinality(UpTo(S, i)) = n
    BY RanksNumber
  <2> QED
    BY <2>1, <2>2
<1>3. UpTo(S, m) = S
  <2>1. UpTo(S, m) \in SUBSET S
    BY DEF UpTo
  <2>2. Cardinality(S) = Cardinality(UpTo(S, m)) => S = UpTo(S, m)
    BY <2>1, FS_Subset
  <2> QED
    BY <2>2, <1>2
<1> QED
  BY <1>3 DEF UpTo

\* What a function takes to is no more than what it takes from.
LEMMA ImageFinite ==
    ASSUME NEW D, NEW f, DOMAIN f = D, IsFiniteSet(D), f = [x \in D |-> f[x]]
    PROVE  IsFiniteSet({f[x] : x \in D})
<1> DEFINE T == {f[x] : x \in D}
<1>1. f \in Surjection(D, T)
  <2>1. f \in [D -> T]
    OBVIOUS
  <2>2. \A t \in T : \E x \in D : f[x] = t
    OBVIOUS
  <2> QED
    BY <2>1, <2>2 DEF Surjection
<1> QED
  BY <1>1, FS_Surjection

-----------------------------------------------------------------------------
(* The inductive invariant *)

Line == [name : Int, secret : Nat]
Row == [name : Int, secret : Nat, enabled : BOOLEAN, sort : Nat]
Sorts == Nat \cup {-1}
Indexes == UNION {[D -> Nat] : D \in SUBSET Nat}

Ops == {"none", "create", "import", "primary", "rename"}
Places == {"done", "exists", "duplicate", "name", "read", "max", "store", "list",
           "reorder", "get", "update"}

Calls == [op : Ops, at : Places, pid : Nat, key : Nat, lines : Seq(Line),
          known : SUBSET Nat, top : Int, sort : Sorts, index : Indexes,
          enabled : BOOLEAN, alone : BOOLEAN, ok : BOOLEAN, added : SUBSET Nat]

\* Ids are handed out in order and never again.
Ids == 1..(nextKey - 1)

TypeInv ==
    /\ provider \in Nat /\ latest \in Nat /\ calls \in Nat
    /\ nextKey \in Nat \ {0} /\ primary \in Nat /\ primary < nextKey
    /\ DOMAIN keys \subseteq Ids
    /\ keys \in [DOMAIN keys -> Row]
    /\ call \in [Callers -> Calls]

\* A call about to renumber listed its target, not at the front, and a key it
\* has not listed is younger than the target.
Ready(x) ==
    /\ x.key \in DOMAIN x.index /\ x.key < nextKey
    /\ x.index[x.key] # 0
    /\ \A k \in DOMAIN keys \ DOMAIN x.index : x.key < k

Front == primary \in DOMAIN keys =>
    /\ keys[primary].sort = 0
    /\ \A k \in DOMAIN keys \ {primary} : keys[k].sort # 0 \/ primary < k

CallsReady == \A c \in Callers : call[c].at = "reorder" => Ready(call[c])

IInv == /\ TypeInv /\ SecretsAreUnique /\ Front
        /\ CallsReady

-----------------------------------------------------------------------------
(* Calls *)

LEMMA IdleType == Idle \in Calls /\ Idle.at = "done"
<1>1. <<>> \in Seq(Line) /\ <<>> \in Indexes
  <2>1. <<>> \in [{} -> Nat]
    OBVIOUS
  <2> QED
    BY <2>1 DEF Indexes
<1>2. {} \in SUBSET Nat /\ 0 \in Sorts
  BY DEF Sorts
<1> DEFINE none == <<>>
<1>3. [op |-> "none", at |-> "done", pid |-> 0, key |-> 0, lines |-> none,
       known |-> {}, top |-> 0, sort |-> 0, index |-> none, enabled |-> TRUE,
       alone |-> TRUE, ok |-> TRUE, added |-> {}] \in Calls
  <2> DEFINE nobody == {}
  <2>1. none \in Seq(Line) /\ none \in Indexes /\ nobody \in SUBSET Nat
    BY <1>1
  <2> HIDE DEF none, nobody
  <2>2. 0 \in Sorts /\ 0 \in Int /\ 0 \in Nat
    BY <1>2
  <2>3. [op |-> "none", at |-> "done", pid |-> 0, key |-> 0, lines |-> none,
         known |-> nobody, top |-> 0, sort |-> 0, index |-> none, enabled |-> TRUE,
         alone |-> TRUE, ok |-> TRUE, added |-> nobody] \in Calls
    BY <2>1, <2>2 DEF Calls, Ops, Places
  <2> QED
    BY <2>3 DEF nobody
<1> QED
  BY <1>3 DEF Idle

LEMMA KeysAreFinite == TypeInv => IsFiniteSet(DOMAIN keys)
<1> SUFFICES ASSUME TypeInv PROVE IsFiniteSet(DOMAIN keys)
  OBVIOUS
<1>0. 1 \in Int /\ nextKey - 1 \in Int
  BY DEF TypeInv
<1>1. IsFiniteSet(1..(nextKey - 1))
  BY <1>0, FS_Interval
<1>2. DOMAIN keys \in SUBSET (1..(nextKey - 1))
  BY DEF TypeInv, Ids
<1> QED
  BY <1>1, <1>2, FS_Subset

\* The highest place in the list, and the highest number of the rows seen, exist.
LEMMA SortIsTyped ==
    ASSUME TypeInv
    PROVE  HighestSort \in Sorts
<1>1. IsFiniteSet(DOMAIN keys)
  BY KeysAreFinite
<1> DEFINE sorts == {-1} \cup {keys[k].sort : k \in DOMAIN keys}
<1>2. IsFiniteSet(sorts) /\ sorts \subseteq Sorts /\ sorts # {}
  <2> DEFINE f == [k \in DOMAIN keys |-> keys[k].sort]
  <2>0. IsFiniteSet({f[k] : k \in DOMAIN keys})
    BY <1>1, ImageFinite
  <2>1. IsFiniteSet({keys[k].sort : k \in DOMAIN keys})
    BY <2>0
  <2>2. \A k \in DOMAIN keys : keys[k].sort \in Sorts
    BY DEF TypeInv, Row, Sorts
  <2>3. IsFiniteSet({keys[k].sort : k \in DOMAIN keys} \cup {-1})
    BY <2>1, FS_AddElement
  <2>4. sorts = {keys[k].sort : k \in DOMAIN keys} \cup {-1}
    OBVIOUS
  <2> QED
    BY <2>2, <2>3, <2>4 DEF Sorts
<1>3. \E m \in sorts : \A s \in sorts : s <= m
  <2>1. sorts \subseteq Int
    BY <1>2 DEF Sorts
  <2> HIDE DEF sorts
  <2> QED
    BY <1>2, <2>1, LargestExists
<1>4. HighestSort \in sorts
  BY <1>3 DEF HighestSort
<1> QED
  BY <1>2, <1>4

LEMMA TopIsTyped ==
    ASSUME TypeInv, NEW seen \in SUBSET DOMAIN keys
    PROVE  TopNumber(seen) \in Int
<1>1. IsFiniteSet(seen)
  BY KeysAreFinite, FS_Subset
<1> DEFINE numbers == {0} \cup {keys[k].name : k \in seen}
<1>2. IsFiniteSet(numbers) /\ numbers \subseteq Int /\ numbers # {}
  <2> DEFINE f == [k \in seen |-> keys[k].name]
  <2>0. IsFiniteSet({f[k] : k \in seen})
    BY <1>1, ImageFinite
  <2>1. IsFiniteSet({keys[k].name : k \in seen})
    BY <2>0
  <2>2. \A k \in seen : keys[k].name \in Int
    BY DEF TypeInv, Row
  <2>3. IsFiniteSet({keys[k].name : k \in seen} \cup {0})
    BY <2>1, FS_AddElement
  <2>4. numbers = {keys[k].name : k \in seen} \cup {0}
    OBVIOUS
  <2>5. numbers \subseteq Int /\ numbers # {}
    BY <2>2
  <2> HIDE DEF numbers
  <2> QED
    BY <2>3, <2>4, <2>5
<1>3. \E m \in numbers : \A n \in numbers : n <= m
  BY <1>2, LargestExists
<1>4. TopNumber(seen) \in numbers
  BY <1>3 DEF TopNumber
<1> QED
  BY <1>2, <1>4

-----------------------------------------------------------------------------
(* The rows a call inserts *)

LEMMA ValidLines ==
    ASSUME NEW lines \in Seq(Line), NEW known
    PROVE  LET S == Valid(lines, known)
           IN  /\ S \subseteq DOMAIN lines /\ S \subseteq Nat /\ IsFiniteSet(S)
               /\ \A i, j \in S : lines[i].secret = lines[j].secret => i = j
<1> DEFINE S == Valid(lines, known)
<1>1. DOMAIN lines = 1..Len(lines) /\ Len(lines) \in Nat
  BY LenProperties
<1>2. S \in SUBSET (1..Len(lines))
  BY <1>1 DEF Valid
<1>3. IsFiniteSet(1..Len(lines))
  BY <1>1, FS_Interval
<1>4. IsFiniteSet(S)
  BY <1>2, <1>3, FS_Subset
<1>5. ASSUME NEW i \in S, NEW j \in S, i < j
      PROVE  lines[i].secret # lines[j].secret
  <2>1. i \in 1..(j - 1)
    BY <1>2, <1>5
  <2> QED
    BY <2>1 DEF Valid
<1>6. \A i, j \in S : i = j \/ i < j \/ j < i
  BY <1>2
<1> QED
  BY <1>1, <1>2, <1>4, <1>5, <1>6

\* They are rows of distinct secrets that go to the end of the list read.
LEMMA RowsType ==
    ASSUME TypeInv, NEW c \in Callers
    PROVE  /\ Rows(c) \in Seq(Row) /\ Len(Rows(c)) \in Nat
           /\ DOMAIN Rows(c) = 1..Len(Rows(c))
           /\ \A m, n \in DOMAIN Rows(c) :
                 Rows(c)[m].secret = Rows(c)[n].secret => m = n
<1> DEFINE lines == call[c].lines
           S == Valid(lines, call[c].known)
           N == Cardinality(S)
           Line_(n) == CHOOSE j \in S : Place(S, j) = n
<1>1. lines \in Seq(Line) /\ call[c].top \in Int /\ call[c].sort \in Sorts
  BY DEF TypeInv, Calls
<1>2. /\ S \subseteq DOMAIN lines /\ S \subseteq Nat /\ IsFiniteSet(S)
      /\ \A i, j \in S : lines[i].secret = lines[j].secret => i = j
  BY <1>1, ValidLines
<1>3. N \in Nat /\ \A n \in 1..N : \E i \in S : Place(S, i) = n
  <2>1. \A i \in S : Place(S, i) = Cardinality(UpTo(S, i))
    BY DEF Place, UpTo
  <2>2. S \subseteq Int /\ IsFiniteSet(S)
    BY <1>2
  <2> HIDE DEF S
  <2>3. N \in Nat /\ \A n \in 1..N : \E i \in S : Cardinality(UpTo(S, i)) = n
    BY <2>2, RanksNumber
  <2> QED
    BY <2>1, <2>3
<1>4. \A n \in 1..N : Line_(n) \in S /\ Place(S, Line_(n)) = n
  BY <1>3
<1>5. \A i \in S : lines[i] \in Line
  BY <1>1, <1>2, ElementOfSeq, LenProperties
<1>6. \A i \in S : NameOf(c, S, i) \in Int
  <2> SUFFICES ASSUME NEW i \in S PROVE NameOf(c, S, i) \in Int
    OBVIOUS
  <2> DEFINE unnamed == {j \in S : lines[j].name = Blank}
  <2>1. {j \in unnamed : j <= i} \in SUBSET S
    OBVIOUS
  <2>2. Place(unnamed, i) \in Nat
    BY <2>1, <1>2, FS_Subset, FS_CardinalityType DEF Place
  <2> QED
    BY <2>2, <1>1, <1>5 DEF NameOf, Line
<1>7. Rows(c) = [n \in 1..N |-> [name |-> NameOf(c, S, Line_(n)),
                                 secret |-> lines[Line_(n)].secret,
                                 enabled |-> TRUE, sort |-> call[c].sort + n]]
  BY DEF Rows
<1> HIDE DEF S, N, Line_, lines
<1>8. \A n \in 1..N : call[c].sort + n \in Nat
  BY <1>1, <1>3 DEF Sorts
<1>9. Rows(c) \in [1..N -> Row]
  BY <1>4, <1>5, <1>6, <1>7, <1>8 DEF Row, Line
<1>10. Rows(c) \in Seq(Row) /\ Len(Rows(c)) = N /\ DOMAIN Rows(c) = 1..N
  BY <1>3, <1>9, SeqDef, LenProperties
<1>11. \A m, n \in 1..N : Rows(c)[m].secret = Rows(c)[n].secret => m = n
  <2> SUFFICES ASSUME NEW m \in 1..N, NEW n \in 1..N,
                      Rows(c)[m].secret = Rows(c)[n].secret
               PROVE  m = n
    OBVIOUS
  <2>1. lines[Line_(m)].secret = lines[Line_(n)].secret
    BY <1>7
  <2>2. Line_(m) = Line_(n)
    BY <2>1, <1>2, <1>4
  <2> QED
    BY <2>2, <1>4
<1> QED
  BY <1>3, <1>10, <1>11

-----------------------------------------------------------------------------
(* Steps by what they do to the table and to the calls *)

\* A step of one call: the others are at most told that they were overlapped.
LEMMA CallsStay ==
    ASSUME IInv, NEW c \in Callers, NEW mine \in Calls,
           Proceed(c, mine) \/ Disturb(c, mine),
           mine.at = "reorder" => Ready(mine)',
           nextKey' \in Nat, nextKey' >= nextKey,
           \A k \in DOMAIN keys' \ DOMAIN keys : k \in Nat /\ k >= nextKey
    PROVE  /\ call' \in [Callers -> Calls]
           /\ CallsReady'
<1>1. /\ call' \in [Callers -> Calls] /\ call'[c] = mine
      /\ \A d \in Callers \ {c} : /\ call'[d].at = call[d].at
                                  /\ call'[d].key = call[d].key
                                  /\ call'[d].index = call[d].index
  <2>1. \A d \in Callers : /\ call[d] \in Calls
                           /\ [call[d] EXCEPT !.alone = FALSE] \in Calls
                           /\ [call[d] EXCEPT !.alone = FALSE].at = call[d].at
                           /\ [call[d] EXCEPT !.alone = FALSE].key = call[d].key
                           /\ [call[d] EXCEPT !.alone = FALSE].index = call[d].index
    BY DEF IInv, TypeInv, Calls
  <2>2. CASE Proceed(c, mine)
    BY <2>1, <2>2 DEF Proceed, IInv, TypeInv
  <2>3. CASE Disturb(c, mine)
    BY <2>1, <2>3 DEF Disturb
  <2> QED
    BY <2>2, <2>3
<1>2. ASSUME NEW d \in Callers, call'[d].at = "reorder"
      PROVE  Ready(call[d])'
  <2>1. CASE d = c
    <3>1. Ready(mine)' /\ call'[d] = mine
      BY <1>1, <1>2, <2>1
    <3> QED
      BY <3>1 DEF Ready
  <2>2. CASE d # c
    <3>1. call[d] \in Calls /\ Ready(call[d])
      BY <1>1, <1>2, <2>2 DEF IInv, TypeInv, CallsReady
    <3>2. call[d].key \in Nat /\ call'[d].key = call[d].key /\ call'[d].index = call[d].index
      BY <3>1, <1>1, <2>2 DEF Calls
    <3> QED
      BY <3>1, <3>2 DEF Ready, IInv, TypeInv
  <2> QED
    BY <2>1, <2>2
<1> QED
  BY <1>1, <1>2 DEF CallsReady

\* A step that leaves the table alone.
LEMMA TableStays ==
    ASSUME IInv, UNCHANGED <<latest, keys, nextKey, primary>>, calls' \in Nat,
           provider' \in Nat, NEW c \in Callers, NEW mine \in Calls, Proceed(c, mine),
           mine.at = "reorder" => Ready(mine)
    PROVE  IInv'
<1>1. mine.at = "reorder" => Ready(mine)'
  BY DEF Ready
<1>2. /\ call' \in [Callers -> Calls]
      /\ CallsReady'
  BY <1>1, CallsStay DEF IInv, TypeInv
<1> QED
  BY <1>2 DEF IInv, TypeInv, SecretsAreUnique, Front, Ids

\* A step that keeps, of the rows it leaves, secret and place.
LEMMA RowsStay ==
    ASSUME IInv, UNCHANGED <<nextKey, primary>>, calls' \in Nat,
           provider' \in Nat, latest' \in Nat,
           DOMAIN keys' \subseteq DOMAIN keys, keys' \in [DOMAIN keys' -> Row],
           \A k \in DOMAIN keys' : /\ keys'[k].secret = keys[k].secret
                                   /\ keys'[k].sort = keys[k].sort,
           call' \in [Callers -> Calls],
           CallsReady'
    PROVE  IInv'
BY DEF IInv, TypeInv, SecretsAreUnique, Front, Ids

-----------------------------------------------------------------------------
(* The steps *)

\* A call that ends does not look ready to renumber.
LEMMA EndedType ==
    ASSUME TypeInv, NEW c \in Callers, NEW ok \in BOOLEAN, NEW ids \in SUBSET Nat
    PROVE  Ended(c, ok, ids) \in Calls /\ Ended(c, ok, ids).at = "done"
<1>1. call[c] \in Calls
  BY DEF TypeInv
<1>2. [Idle EXCEPT !.op = "import", !.lines = call[c].lines,
                   !.known = call[c].known, !.ok = ok, !.added = ids] \in Calls
  BY <1>1, IdleType DEF Calls, Ops
<1>3. [Idle EXCEPT !.op = "import", !.lines = call[c].lines, !.known = call[c].known,
                   !.ok = ok, !.added = ids].at = "done"
  BY IdleType DEF Calls
<1> QED
  BY <1>2, <1>3, IdleType DEF Ended

LEMMA EndStep ==
    ASSUME IInv, NEW c \in Callers, NEW ok \in BOOLEAN, End(c, ok)
    PROVE  IInv'
<1>1. {} \in SUBSET Nat
  OBVIOUS
<1>2. Ended(c, ok, {}) \in Calls /\ Ended(c, ok, {}).at = "done"
  BY <1>1, EndedType DEF IInv
<1> QED
  BY <1>2, TableStays DEF End, IInv, TypeInv

LEMMA StartStep ==
    ASSUME IInv, NEW c \in Callers, NEW x \in Calls, x.at # "reorder", Start(c, x)
    PROVE  IInv'
BY TableStays DEF Start, IInv, TypeInv

LEMMA GoOnStep ==
    ASSUME IInv, NEW c \in Callers, NEW x \in Calls, x.at = "reorder" => Ready(x),
           Proceed(c, x), UNCHANGED Table
    PROVE  IInv'
BY TableStays DEF Table, IInv, TypeInv

LEMMA ReadOnStep ==
    ASSUME IInv, NEW c \in Callers, NEW x \in Calls, x.at # "reorder", Proceed(c, x),
           calls' \in {calls, calls + 1},
           UNCHANGED <<provider, latest, keys, nextKey, primary>>
    PROVE  IInv'
BY TableStays DEF IInv, TypeInv

\* The statements of a create or an import before its insert.
LEMMA ReadingSteps ==
    ASSUME IInv, NEW c \in Callers,
           FindProvider(c) \/ FindDuplicate(c) \/ NextName(c) \/ ReadPool(c) \/ ReadMaxSort(c)
    PROVE  IInv'
<1> DEFINE x == call[c]
<1>0. x \in Calls /\ HighestSort \in Sorts /\ -1 \in Sorts /\ 0 \in Sorts
  BY SortIsTyped DEF IInv, TypeInv, Sorts
<1>1. CASE FindProvider(c)
  <2>1. [x EXCEPT !.at = "read"] \in Calls /\ [x EXCEPT !.at = "read"].at = "read"
    BY <1>0 DEF Calls, Places
  <2>2. [x EXCEPT !.at = "duplicate"] \in Calls /\ [x EXCEPT !.at = "duplicate"].at = "duplicate"
    BY <1>0 DEF Calls, Places
  <2> QED
    BY <1>1, <2>1, <2>2, EndStep, GoOnStep DEF FindProvider
<1>2. CASE FindDuplicate(c)
  <2>1. [x EXCEPT !.at = "name"] \in Calls /\ [x EXCEPT !.at = "name"].at = "name"
    BY <1>0 DEF Calls, Places
  <2>2. [x EXCEPT !.at = "max"] \in Calls /\ [x EXCEPT !.at = "max"].at = "max"
    BY <1>0 DEF Calls, Places
  <2> QED
    BY <1>2, <2>1, <2>2, EndStep, GoOnStep DEF FindDuplicate
<1>3. CASE NextName(c)
  <2>1. PICK seen \in SUBSET OwnKeys(c) :
          /\ Reads(c, seen)
          /\ Proceed(c, [x EXCEPT !.at = "max", !.top = TopNumber(seen),
                                  !.alone = @ /\ seen = OwnKeys(c)])
    BY <1>3 DEF NextName
  <2> DEFINE n == TopNumber(seen)
             b == x.alone /\ seen = OwnKeys(c)
             y == [x EXCEPT !.at = "max", !.top = n, !.alone = b]
  <2>2. n \in Int
    BY TopIsTyped DEF OwnKeys, IInv
  <2>3. b \in BOOLEAN
    BY <1>0 DEF Calls
  <2>4. Proceed(c, y)
    BY <2>1, <1>0 DEF Calls
  <2> HIDE DEF n, b
  <2>5. y \in Calls /\ y.at = "max"
    BY <1>0, <2>2, <2>3 DEF Calls, Places
  <2> HIDE DEF y
  <2> QED
    BY <1>3, <2>1, <2>4, <2>5, ReadOnStep DEF NextName, Reads
<1>4. CASE ReadPool(c)
  <2>1. CASE Proceed(c, Idle) /\ calls' = calls
    BY <1>4, <2>1, IdleType, ReadOnStep DEF ReadPool
  <2>2. ASSUME NEW seen \in SUBSET OwnKeys(c), Reads(c, seen),
               Proceed(c, [x EXCEPT !.known = SecretsOf(seen), !.at = "max",
                                    !.top = TopNumber(seen),
                                    !.alone = @ /\ seen = OwnKeys(c)])
        PROVE  IInv'
    <3> DEFINE n == TopNumber(seen)
               known == SecretsOf(seen)
               b == x.alone /\ seen = OwnKeys(c)
               y == [x EXCEPT !.known = known, !.at = "max", !.top = n, !.alone = b]
    <3>1. n \in Int
      BY TopIsTyped DEF OwnKeys, IInv
    <3>2. known \in SUBSET Nat
      BY DEF SecretsOf, OwnKeys, IInv, TypeInv, Row
    <3>3. b \in BOOLEAN
      BY <1>0 DEF Calls
    <3>4. Proceed(c, y)
      BY <2>2, <1>0 DEF Calls
    <3> HIDE DEF n, known, b
    <3>5. y \in Calls /\ y.at = "max"
      BY <1>0, <3>1, <3>2, <3>3 DEF Calls, Places
    <3> HIDE DEF y
    <3> QED
      BY <1>4, <2>2, <3>4, <3>5, ReadOnStep DEF ReadPool, Reads
  <2> QED
    BY <1>4, <2>1, <2>2 DEF ReadPool
<1>5. CASE ReadMaxSort(c)
  <2> DEFINE n == IF call[c].pid = provider THEN HighestSort ELSE -1
             y == [x EXCEPT !.at = "store", !.sort = n]
             z == [x EXCEPT !.at = "store", !.sort = 0, !.alone = FALSE]
  <2>1. n \in Sorts
    BY <1>0
  <2>2. Proceed(c, y) \/ Proceed(c, z)
    BY <1>5 DEF ReadMaxSort
  <2> HIDE DEF n
  <2>3. y \in Calls /\ y.at = "store" /\ z \in Calls /\ z.at = "store"
    BY <1>0, <2>1 DEF Calls, Places
  <2> HIDE DEF y, z
  <2> QED
    BY <1>5, <2>2, <2>3, GoOnStep DEF ReadMaxSort
<1> QED
  BY <1>1, <1>2, <1>3, <1>4, <1>5

LEMMA StartSteps ==
    ASSUME IInv, NEW c \in Callers,
           CallCreate(c) \/ CallImport(c) \/ CallPrimary(c) \/ CallRename(c)
    PROVE  IInv'
<1>0. provider \in Nat
  BY DEF IInv, TypeInv
<1>1. ASSUME NEW x \in Calls, x.at # "reorder", Start(c, x) PROVE IInv'
  BY <1>1, StartStep
<1>2. CASE CallCreate(c)
  <2>1. PICK line \in Lines :
          Start(c, [Idle EXCEPT !.op = "create", !.at = "exists", !.pid = provider,
                                !.lines = <<line>>])
    BY <1>2 DEF CallCreate
  <2>2. <<line>> \in Seq(Line)
    BY ProviderKeysAssumption DEF Line
  <2> DEFINE one == <<line>>
             x == [Idle EXCEPT !.op = "create", !.at = "exists", !.pid = provider,
                               !.lines = one]
  <2> HIDE DEF one
  <2>3. x \in Calls /\ x.at = "exists"
    BY <1>0, <2>2, IdleType DEF Calls, Ops, Places, one
  <2>4. Start(c, x)
    BY <2>1 DEF one
  <2> HIDE DEF x
  <2> QED
    BY <1>1, <2>3, <2>4
<1>3. CASE CallImport(c)
  <2>1. PICK batch \in Batches :
          Start(c, [Idle EXCEPT !.op = "import", !.at = "exists", !.pid = provider,
                                !.lines = batch])
    BY <1>3 DEF CallImport
  <2>2. batch \in Seq(Line)
    BY ProviderKeysAssumption DEF Line
  <2> DEFINE x == [Idle EXCEPT !.op = "import", !.at = "exists", !.pid = provider,
                               !.lines = batch]
  <2>3. x \in Calls /\ x.at = "exists"
    BY <1>0, <2>2, IdleType DEF Calls, Ops, Places
  <2> QED
    BY <1>1, <2>1, <2>3
<1>4. CASE CallPrimary(c)
  <2>1. PICK k \in 1..MaxKeys :
          Start(c, [Idle EXCEPT !.op = "primary", !.at = "list", !.pid = provider,
                                !.key = k])
    BY <1>4 DEF CallPrimary
  <2> DEFINE x == [Idle EXCEPT !.op = "primary", !.at = "list", !.pid = provider,
                               !.key = k]
  <2>2. k \in Nat
    BY ProviderKeysAssumption
  <2>3. x \in Calls /\ x.at = "list"
    BY <1>0, <2>2, IdleType DEF Calls, Ops, Places
  <2> QED
    BY <1>1, <2>1, <2>3
<1>5. CASE CallRename(c)
  <2>1. PICK k \in 1..MaxKeys : Start(c, [Idle EXCEPT !.op = "rename", !.at = "get", !.key = k])
    BY <1>5 DEF CallRename
  <2> DEFINE x == [Idle EXCEPT !.op = "rename", !.at = "get", !.key = k]
  <2>2. k \in Nat
    BY ProviderKeysAssumption
  <2>3. x \in Calls /\ x.at = "get"
    BY <2>2, IdleType DEF Calls, Ops, Places
  <2> QED
    BY <1>1, <2>1, <2>3
<1> QED
  BY <1>2, <1>3, <1>4, <1>5

\* The insert: the unique index refuses a secret the pool has got meanwhile, and
\* the new rows are younger than every other and not in front.
LEMMA StoreStep ==
    ASSUME IInv, NEW c \in Callers, Store(c)
    PROVE  IInv'
<1> DEFINE rows == Rows(c)
           ids == nextKey..(nextKey + Len(rows) - 1)
<1>0. /\ rows \in Seq(Row) /\ Len(rows) \in Nat /\ DOMAIN rows = 1..Len(rows)
      /\ \A m, n \in DOMAIN rows : rows[m].secret = rows[n].secret => m = n
      /\ \A n \in DOMAIN rows : rows[n] \in Row
  BY RowsType, ElementOfSeq DEF IInv
<1>1. nextKey \in Nat \ {0} /\ ids \in SUBSET Nat /\ \A k \in ids : k >= nextKey
  BY <1>0 DEF IInv, TypeInv
<1>2. CASE Accepts(c, rows)
  <2>1. /\ keys' = [k \in DOMAIN keys \cup ids |->
                      IF k \in ids THEN rows[k - nextKey + 1] ELSE keys[k]]
        /\ nextKey' = nextKey + Len(rows)
        /\ Disturb(c, Ended(c, TRUE, ids))
        /\ UNCHANGED <<provider, latest, calls, primary>>
    BY <1>2 DEF Store
  <2> HIDE DEF rows
  <2>2. \A k \in ids : k - nextKey + 1 \in DOMAIN rows
    BY <1>0, <1>1
  <2>3. DOMAIN keys' = DOMAIN keys \cup ids
    BY <2>1
  <2>4. \A k \in DOMAIN keys : k \notin ids /\ keys'[k] = keys[k] /\ k < nextKey /\ k \in Nat
    BY <1>1, <2>1 DEF IInv, TypeInv, Ids
  <2>5. \A k \in ids : keys'[k] = rows[k - nextKey + 1] /\ keys'[k] \in Row
    BY <1>0, <2>1, <2>2
  <2>6. TRUE \in BOOLEAN
    OBVIOUS
  <2>7. Ended(c, TRUE, ids) \in Calls /\ Ended(c, TRUE, ids).at = "done"
    BY <1>1, <2>6, EndedType DEF IInv
  <2>8. nextKey' \in Nat \ {0} /\ nextKey' >= nextKey
    BY <1>0, <1>1, <2>1
  <2>9. call' \in [Callers -> Calls] /\ CallsReady'
    BY <1>1, <2>1, <2>3, <2>7, <2>8, CallsStay
  <2>10. TypeInv'
    <3>1. DOMAIN keys' \subseteq Ids'
      <4>1. \A k \in DOMAIN keys : k \in 1..(nextKey + Len(rows) - 1)
        BY <1>0, <1>1 DEF IInv, TypeInv, Ids
      <4>2. \A k \in ids : k \in 1..(nextKey + Len(rows) - 1)
        BY <1>0, <1>1
      <4>3. Ids' = 1..(nextKey + Len(rows) - 1)
        BY <1>0, <1>1, <2>1 DEF Ids
      <4> QED
        BY <2>3, <4>1, <4>2, <4>3
    <3>2. keys' \in [DOMAIN keys' -> Row]
      <4>1. \A k \in DOMAIN keys' : keys'[k] \in Row
        BY <2>3, <2>4, <2>5 DEF IInv, TypeInv
      <4> QED
        BY <2>1, <4>1
    <3> QED
      BY <2>1, <2>8, <2>9, <3>1, <3>2 DEF IInv, TypeInv
  <2>11. SecretsAreUnique'
    <3> SUFFICES ASSUME NEW j \in DOMAIN keys', NEW k \in DOMAIN keys',
                        keys'[j].secret = keys'[k].secret
                 PROVE  j = k
      BY DEF SecretsAreUnique
    <3>1. \A a \in ids, b \in DOMAIN keys : keys'[a].secret # keys'[b].secret
      BY <1>2, <2>2, <2>4, <2>5 DEF Accepts, SecretsHeld, SecretsOf, rows
    <3>2. CASE j \in DOMAIN keys /\ k \in DOMAIN keys
      BY <2>4, <3>2 DEF IInv, SecretsAreUnique
    <3>3. CASE j \in ids /\ k \in ids
      <4>1. j - nextKey + 1 = k - nextKey + 1
        BY <1>0, <2>2, <2>5, <3>3
      <4> QED
        BY <1>1, <3>3, <4>1
    <3> QED
      BY <2>3, <3>1, <3>2, <3>3
  <2>12. Front'
    <3> SUFFICES ASSUME primary \in DOMAIN keys'
                 PROVE  /\ keys'[primary].sort = 0
                        /\ \A k \in DOMAIN keys' \ {primary} :
                              keys'[k].sort # 0 \/ primary < k
      BY <2>1 DEF Front
    <3>1. primary \in DOMAIN keys /\ primary \in Nat /\ primary < nextKey
      BY <1>1, <2>3 DEF IInv, TypeInv
    <3>2. \A k \in ids : primary < k
      BY <1>1, <3>1
    <3> QED
      BY <2>3, <2>4, <3>1, <3>2 DEF IInv, Front
  <2> QED
    BY <2>9, <2>10, <2>11, <2>12 DEF IInv
<1>3. CASE ~Accepts(c, rows)
  <2>1. /\ keys' = keys /\ UNCHANGED <<provider, latest, nextKey, calls, primary>>
        /\ Proceed(c, Ended(c, FALSE, {}))
    BY <1>3 DEF Store, Refused
  <2>2. FALSE \in BOOLEAN /\ {} \in SUBSET Nat
    OBVIOUS
  <2>3. Ended(c, FALSE, {}) \in Calls /\ Ended(c, FALSE, {}).at = "done"
    BY <2>2, EndedType DEF IInv
  <2> QED
    BY <2>1, <2>3, TableStays DEF IInv, TypeInv
<1> QED
  BY <1>2, <1>3

\* What SetProviderKeyPrimary lists.
LEMMA ListStep ==
    ASSUME IInv, NEW c \in Callers, ListKeys(c)
    PROVE  IInv'
<1>1. CASE call[c].key \notin OwnKeys(c) \/ Rank(call[c].key) = 0
  <2> DEFINE ok == call[c].key \in OwnKeys(c)
  <2>1. ok \in BOOLEAN /\ End(c, ok)
    BY <1>1 DEF ListKeys
  <2> HIDE DEF ok
  <2> QED
    BY <2>1, EndStep
<1>2. CASE ~(call[c].key \notin OwnKeys(c) \/ Rank(call[c].key) = 0)
  <2> DEFINE index == [k \in DOMAIN keys |-> Rank(k)]
             x == [call[c] EXCEPT !.at = "reorder", !.index = index]
  <2>1. /\ call[c].key \in DOMAIN keys /\ Rank(call[c].key) # 0
        /\ Proceed(c, x) /\ UNCHANGED Table
    BY <1>2 DEF ListKeys, OwnKeys
  <2>2. \A k \in DOMAIN keys : Rank(k) \in Nat
    <3> SUFFICES ASSUME NEW k \in DOMAIN keys PROVE Rank(k) \in Nat
      OBVIOUS
    <3>1. IsFiniteSet(DOMAIN keys)
      BY KeysAreFinite DEF IInv
    <3>2. {j \in DOMAIN keys : Before(j, k)} \in SUBSET DOMAIN keys
      OBVIOUS
    <3>3. IsFiniteSet({j \in DOMAIN keys : Before(j, k)})
      BY <3>1, <3>2, FS_Subset
    <3> QED
      BY <3>3, FS_CardinalityType DEF Rank
  <2>3. index \in Indexes /\ DOMAIN index = DOMAIN keys
    <3>1. index \in [DOMAIN keys -> Nat] /\ DOMAIN keys \in SUBSET Nat
      BY <2>2 DEF IInv, TypeInv, Ids
    <3> QED
      BY <3>1 DEF Indexes
  <2>4. index[call[c].key] # 0
    BY <2>1
  <2> HIDE DEF index
  <2>5. x \in Calls /\ x.key = call[c].key /\ x.index = index
    BY <2>3, ZenonT(30) DEF IInv, TypeInv, Calls, Places
  <2>6. Ready(x)
    BY <2>1, <2>3, <2>4, <2>5 DEF Ready, IInv, TypeInv, Ids
  <2> HIDE DEF x
  <2> QED
    BY <2>1, <2>5, <2>6, GoOnStep
<1> QED
  BY <1>1, <1>2

\* The transaction of SetProviderKeyPrimary: whatever happened to the table since
\* the list was read, the target is in front afterwards.
LEMMA ReorderStep ==
    ASSUME IInv, NEW c \in Callers, Reorder(c)
    PROVE  IInv'
<1> DEFINE x == call[c]
<1>1. /\ x \in Calls /\ Ready(x)
      /\ keys' = [k \in DOMAIN keys |->
                    IF k \in DOMAIN x.index
                    THEN [keys[k] EXCEPT !.sort = NewSort(c, k)] ELSE keys[k]]
      /\ primary' = x.key /\ Disturb(c, Idle)
      /\ UNCHANGED <<provider, latest, nextKey, calls>>
  BY DEF Reorder, Goto, IInv, TypeInv, CallsReady
<1>2. x.key \in Nat /\ x.key \in DOMAIN x.index /\ \A k \in DOMAIN x.index : x.index[k] \in Nat
  <2>1. x.index \in Indexes /\ x.key \in Nat
    BY <1>1 DEF Calls
  <2>2. PICK D \in SUBSET Nat : x.index \in [D -> Nat]
    BY <2>1 DEF Indexes
  <2> QED
    BY <1>1, <2>1, <2>2 DEF Ready
<1>3. /\ NewSort(c, x.key) = 0
      /\ \A k \in DOMAIN x.index : /\ NewSort(c, k) \in Nat
                                   /\ k # x.key => NewSort(c, k) # 0
  BY <1>1, <1>2 DEF NewSort, Ready
<1>4. \A k \in DOMAIN keys : /\ keys'[k] \in Row /\ keys'[k].secret = keys[k].secret
                             /\ keys'[k].sort = IF k \in DOMAIN x.index
                                                THEN NewSort(c, k) ELSE keys[k].sort
  <2> SUFFICES ASSUME NEW k \in DOMAIN keys
               PROVE  /\ keys'[k] \in Row /\ keys'[k].secret = keys[k].secret
                      /\ keys'[k].sort = IF k \in DOMAIN x.index
                                         THEN NewSort(c, k) ELSE keys[k].sort
    OBVIOUS
  <2>1. keys[k] \in Row
    BY DEF IInv, TypeInv
  <2>2. CASE k \in DOMAIN x.index
    <3>1. keys'[k] = [keys[k] EXCEPT !.sort = NewSort(c, k)] /\ NewSort(c, k) \in Nat
      BY <1>1, <1>3, <2>2
    <3> QED
      BY <2>1, <2>2, <3>1 DEF Row
  <2>3. CASE k \notin DOMAIN x.index
    BY <1>1, <2>1, <2>3
  <2> QED
    BY <2>2, <2>3
<1>5. DOMAIN keys' = DOMAIN keys
  BY <1>1
<1>6. call' \in [Callers -> Calls] /\ CallsReady'
  <2>1. Idle \in Calls /\ Idle.at # "reorder"
    BY IdleType
  <2>2. nextKey' \in Nat /\ nextKey' >= nextKey
    BY <1>1 DEF IInv, TypeInv
  <2> QED
    BY <1>1, <1>5, <2>1, <2>2, CallsStay
<1>7. TypeInv'
  <2>1. keys' \in [DOMAIN keys' -> Row]
    BY <1>1, <1>4, <1>5
  <2>2. primary' \in Nat /\ primary' < nextKey'
    BY <1>1, <1>2 DEF Ready
  <2> QED
    BY <1>1, <1>5, <1>6, <2>1, <2>2 DEF IInv, TypeInv, Ids
<1>8. SecretsAreUnique'
  BY <1>4, <1>5 DEF IInv, SecretsAreUnique
<1>9. Front'
  <2> SUFFICES ASSUME x.key \in DOMAIN keys
               PROVE  /\ keys'[x.key].sort = 0
                      /\ \A k \in DOMAIN keys \ {x.key} : keys'[k].sort # 0 \/ x.key < k
    BY <1>1, <1>5 DEF Front
  <2>1. \A k \in DOMAIN keys \ {x.key} : keys'[k].sort # 0 \/ x.key < k
    BY <1>1, <1>3, <1>4 DEF Ready
  <2> QED
    BY <1>2, <1>3, <1>4, <2>1
<1> QED
  BY <1>6, <1>7, <1>8, <1>9 DEF IInv

\* The PUT handler and its two statements.
LEMMA RenameSteps ==
    ASSUME IInv, NEW c \in Callers, GetKey(c) \/ UpdateKey(c)
    PROVE  IInv'
<1>1. CASE End(c, FALSE)
  BY <1>1, EndStep
<1>2. CASE GetKey(c) /\ ~End(c, FALSE)
  <2> DEFINE b == keys[call[c].key].enabled
             x == [call[c] EXCEPT !.at = "update", !.enabled = b]
  <2>1. Proceed(c, x) /\ UNCHANGED Table /\ b \in BOOLEAN
    BY <1>2 DEF GetKey, IInv, TypeInv, Row
  <2> HIDE DEF b
  <2>2. x \in Calls /\ x.at = "update"
    BY <2>1, ZenonT(30) DEF IInv, TypeInv, Calls, Places
  <2> HIDE DEF x
  <2> QED
    BY <2>1, <2>2, GoOnStep
<1>3. CASE UpdateKey(c) /\ ~End(c, FALSE)
  <2> DEFINE t == call[c].key
             row == [keys[t] EXCEPT !.name = Other, !.enabled = call[c].enabled]
  <2>1. /\ t \in DOMAIN keys /\ Disturb(c, Idle)
        /\ keys' = [keys EXCEPT ![t].name = Other, ![t].enabled = call[c].enabled]
        /\ UNCHANGED <<provider, latest, nextKey, calls, primary>>
    BY <1>3 DEF UpdateKey
  <2>2. row \in Row /\ row.secret = keys[t].secret /\ row.sort = keys[t].sort
    <3>1. keys[t] \in Row /\ call[c].enabled \in BOOLEAN /\ Other \in Int
      BY <2>1 DEF IInv, TypeInv, Calls, Other
    <3> QED
      BY <3>1 DEF Row
  <2>3. keys' = [keys EXCEPT ![t] = row]
    BY <2>1 DEF IInv, TypeInv, Row
  <2> HIDE DEF row
  <2>4. /\ DOMAIN keys' = DOMAIN keys /\ keys' \in [DOMAIN keys' -> Row]
        /\ \A k \in DOMAIN keys' : /\ keys'[k].secret = keys[k].secret
                                   /\ keys'[k].sort = keys[k].sort
    BY <2>1, <2>2, <2>3 DEF IInv, TypeInv
  <2>5. call' \in [Callers -> Calls] /\ CallsReady'
    <3>1. Idle \in Calls /\ Idle.at # "reorder"
      BY IdleType
    <3>2. nextKey' \in Nat /\ nextKey' >= nextKey
      BY <2>1 DEF IInv, TypeInv
    <3> QED
      BY <2>1, <2>4, <3>1, <3>2, CallsStay
  <2> QED
    BY <2>1, <2>4, <2>5, RowsStay DEF IInv, TypeInv
<1> QED
  BY <1>1, <1>2, <1>3

\* Requests of one statement.
LEMMA AtomicCalls ==
    ASSUME IInv, Atomic, nextKey' = nextKey, DOMAIN keys' \subseteq DOMAIN keys
    PROVE  call' \in [Callers -> Calls] /\ CallsReady' /\ calls' \in Nat
<1>1. \A d \in Callers : /\ call[d] \in Calls
                         /\ [call[d] EXCEPT !.alone = FALSE] \in Calls
                         /\ [call[d] EXCEPT !.alone = FALSE].at = call[d].at
                         /\ [call[d] EXCEPT !.alone = FALSE].key = call[d].key
                         /\ [call[d] EXCEPT !.alone = FALSE].index = call[d].index
  BY DEF IInv, TypeInv, Calls
<1>2. /\ call' \in [Callers -> Calls]
      /\ \A d \in Callers : /\ call'[d].at = call[d].at /\ call'[d].key = call[d].key
                            /\ call'[d].index = call[d].index
  BY <1>1 DEF Atomic
<1>3. CallsReady'
  BY <1>2 DEF CallsReady, Ready, IInv
<1> QED
  BY <1>2, <1>3 DEF Atomic, IInv, TypeInv

LEMMA OneStatementSteps ==
    ASSUME IInv, \/ \E k \in 1..MaxKeys : SwitchKey(k) \/ DeleteProviderKey(k)
                 \/ DeleteProvider
    PROVE  IInv'
<1>1. ASSUME NEW k \in 1..MaxKeys, SwitchKey(k) PROVE IInv'
  <2> DEFINE row == [keys[k] EXCEPT !.enabled = ~keys[k].enabled]
  <2>1. k \in DOMAIN keys /\ keys[k] \in Row
    BY <1>1 DEF SwitchKey, IInv, TypeInv
  <2>2. row \in Row /\ row.secret = keys[k].secret /\ row.sort = keys[k].sort
    BY <2>1 DEF Row
  <2>3. keys' = [keys EXCEPT ![k] = row]
    BY <1>1 DEF SwitchKey, IInv, TypeInv
  <2> HIDE DEF row
  <2>4. /\ DOMAIN keys' = DOMAIN keys /\ keys' \in [DOMAIN keys' -> Row]
        /\ \A j \in DOMAIN keys' : /\ keys'[j].secret = keys[j].secret
                                   /\ keys'[j].sort = keys[j].sort
    BY <2>1, <2>2, <2>3 DEF IInv, TypeInv
  <2> QED
    BY <1>1, <2>4, AtomicCalls, RowsStay DEF SwitchKey, IInv, TypeInv
<1>2. ASSUME NEW k \in 1..MaxKeys, DeleteProviderKey(k) PROVE IInv'
  <2>1. /\ DOMAIN keys' \subseteq DOMAIN keys /\ keys' \in [DOMAIN keys' -> Row]
        /\ \A j \in DOMAIN keys' : keys'[j] = keys[j]
    BY <1>2 DEF DeleteProviderKey, IInv, TypeInv
  <2> QED
    BY <1>2, <2>1, AtomicCalls, RowsStay DEF DeleteProviderKey, IInv, TypeInv
<1>3. CASE DeleteProvider
  <2>1. DOMAIN keys' = {} /\ keys' \in [DOMAIN keys' -> Row]
    BY <1>3 DEF DeleteProvider
  <2> QED
    BY <1>3, <2>1, AtomicCalls, RowsStay DEF DeleteProvider, IInv, TypeInv
<1> QED
  BY <1>1, <1>2, <1>3

LEMMA CreateProviderStep ==
    ASSUME IInv, NEW c \in Callers, CreateProvider(c)
    PROVE  IInv'
<1>1. PICK line \in Lines :
        Proceed(c, IF line.secret = 0 THEN Idle
                   ELSE [Idle EXCEPT !.op = "create", !.at = "exists",
                                     !.pid = latest + 1, !.lines = <<line>>])
  BY DEF CreateProvider
<1> DEFINE one == <<line>>
           x == [Idle EXCEPT !.op = "create", !.at = "exists", !.pid = latest + 1,
                             !.lines = one]
<1>2. one \in Seq(Line) /\ latest + 1 \in Nat
  BY ProviderKeysAssumption DEF Line, IInv, TypeInv
<1>3. Proceed(c, Idle) \/ Proceed(c, x)
  BY <1>1
<1> HIDE DEF one
<1>4. x \in Calls /\ x.at = "exists"
  BY <1>2, IdleType DEF Calls, Ops, Places
<1> HIDE DEF x
<1>5. PICK y \in {Idle, x} : Proceed(c, y) /\ y \in Calls /\ y.at # "reorder"
  BY <1>3, <1>4, IdleType
<1>6. nextKey' \in Nat /\ nextKey' >= nextKey /\ keys' = keys
  BY DEF CreateProvider, IInv, TypeInv
<1>7. call' \in [Callers -> Calls] /\ CallsReady'
  BY <1>5, <1>6, CallsStay
<1> QED
  BY <1>6, <1>7, RowsStay DEF CreateProvider, IInv, TypeInv

-----------------------------------------------------------------------------
(* The theorems *)

LEMMA Initial == Init => IInv
<1> SUFFICES ASSUME Init PROVE IInv
  OBVIOUS
<1>1. PICK n \in 0..MaxSeeds :
        /\ keys = [k \in 1..n |-> [name |-> k, secret |-> k, enabled |-> TRUE,
                                   sort |-> k - 1]]
        /\ nextKey = n + 1
  BY DEF Init
<1>2. n \in Nat /\ DOMAIN keys = 1..n
  BY <1>1, ProviderKeysAssumption
<1>3. keys \in [1..n -> Row]
  BY <1>1, <1>2 DEF Row
<1>4. call \in [Callers -> Calls] /\ \A c \in Callers : call[c].at = "done"
  BY IdleType DEF Init
<1>5. primary \notin DOMAIN keys
  BY <1>2 DEF Init
<1>6. SecretsAreUnique
  BY <1>1, <1>2 DEF SecretsAreUnique
<1> QED
  BY <1>1, <1>2, <1>3, <1>4, <1>5, <1>6
     DEF Init, IInv, TypeInv, Ids, Front, CallsReady

LEMMA Inductive == IInv /\ [Next]_vars => IInv'
<1> SUFFICES ASSUME IInv, [Next]_vars PROVE IInv'
  OBVIOUS
<1>1. CASE UNCHANGED vars
  BY <1>1 DEF vars, IInv, TypeInv, SecretsAreUnique, Front, CallsReady, Ready, Ids
<1>2. ASSUME NEW c \in Callers, Adds(c) PROVE IInv'
  BY <1>2, StartSteps, ReadingSteps, StoreStep DEF Adds
<1>3. ASSUME NEW c \in Callers, Edits(c) PROVE IInv'
  BY <1>3, StartSteps, ListStep, ReorderStep, RenameSteps DEF Edits
<1>4. ASSUME NEW c \in Callers, Fail(c) PROVE IInv'
  BY <1>4, EndStep DEF Fail
<1> QED
  BY <1>1, <1>2, <1>3, <1>4, CreateProviderStep, OneStatementSteps DEF Next

\* IInv holds in every reachable state: besides the two properties below, a call
\* about to renumber knows its target, and every key it has not listed is younger.
THEOREM PoolInvariant == Spec => []IInv
<1> QED
  BY Initial, Inductive, PTL DEF Spec

\* However many creates and imports overlap, and however stale their look for
\* duplicates was, the pool never holds a secret twice.
THEOREM NoSecretTwice == Spec => []SecretsAreUnique
<1>1. IInv => SecretsAreUnique
  BY DEF IInv
<1> QED
  BY <1>1, PoolInvariant, PTL

\* The key made primary last stays first in the list, through any inserts,
\* renumberings and deletions by calls that read the table before it moved.
THEOREM FirstStaysFirst == Spec => []PrimaryStaysFirst
<1>1. IInv => PrimaryStaysFirst
  <2> SUFFICES ASSUME IInv, primary \in DOMAIN keys, NEW k \in DOMAIN keys \ {primary}
               PROVE  Before(primary, k)
    BY DEF PrimaryStaysFirst
  <2>1. keys[primary].sort = 0 /\ keys[k].sort \in Nat
    BY DEF IInv, TypeInv, Row, Front
  <2>2. keys[k].sort # 0 \/ primary < k
    BY DEF IInv, Front
  <2> QED
    BY <2>1, <2>2 DEF Before
<1> QED
  BY <1>1, PoolInvariant, PTL
=============================================================================
