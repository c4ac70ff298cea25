---------------------------- MODULE TodoeyProofs ----------------------------
(***************************************************************************)
(* Todoey, for every set of titles and texts and every bound.  First what  *)
(* it does to its Realm file: every step is one of six Realm steps,        *)
(* whatever the tables and the search bar show.  Then the order of the     *)
(* rows, and with it the tables: they hold exactly what the Realm holds.   *)
(***************************************************************************)
EXTENDS Todoey, FiniteSetTheorems, TLAPS

NewItem(title) == [title |-> title, dateCreated |-> clock + 1]

AddsCategory == /\ clock < MaxObjects
                /\ clock' = clock + 1
                /\ Write(WithCategory(clock + 1))
RemovesCategory == clock' = clock /\ \E key : Write(WithoutCategory(key))
AddsItem == /\ clock < MaxObjects
            /\ clock' = clock + 1
            /\ \E category : \E title \in Titles : Write(WithItem(category, NewItem(title)))
RemovesItem == clock' = clock /\ \E category, item : Write(WithoutItem(category, item))

RealmStep == \/ AddsCategory \/ RemovesCategory \/ AddsItem \/ RemovesItem
             \/ Reopen
             \/ UNCHANGED realmVars

(* The inductive invariant: the two stores differ only over an open
   transaction, and no item of either is newer than the clock. *)
NoneNewer(store) == \A c \in Keys : \A i \in store.items[c] : i.dateCreated <= clock

RealmInv == /\ RealmTypeOK
            /\ ~open => live = disk
            /\ NoneNewer(live)
            /\ NoneNewer(disk)

(* A step saves no item that was there before it. *)
SavesOnlyNew == \A c \in Keys : \A i \in disk'.items[c] \ disk.items[c] : i.dateCreated > clock

-----------------------------------------------------------------------------
(* Every handler of the two screens performs one of the six Realm steps. *)
LEMMA StepsOfTheRealm == ASSUME [Next]_vars PROVE RealmStep
<1>1. CASE AddCategory
  <2>1. CASE CanWrite
    BY <1>1, <2>1 DEF AddCategory, RealmStep, AddsCategory
  <2>2. CASE ~CanWrite
    BY <1>1, <2>2 DEF AddCategory, Raise, RealmStep
  <2> QED BY <2>1, <2>2
<1>2. ASSUME NEW row \in DOMAIN categoryRows, DeleteCategory(row)
      PROVE RealmStep
  <2>1. CASE CanWrite /\ row <= Len(CategoryResults(live))
    <3>1. Write(WithoutCategory(CategoryResults(live)[row])) /\ clock' = clock
      BY <1>2, <2>1 DEF DeleteCategory
    <3> QED BY <3>1 DEF RealmStep, RemovesCategory
  <2>2. CASE ~(CanWrite /\ row <= Len(CategoryResults(live)))
    BY <1>2, <2>2 DEF DeleteCategory, Raise, RealmStep
  <2> QED BY <2>1, <2>2
<1>3. ASSUME NEW row \in DOMAIN categoryRows, SelectCategory(row)
      PROVE RealmStep
  BY <1>3 DEF SelectCategory, Raise, RealmStep
<1>4. ASSUME NEW title \in Titles, AddItem(title)
      PROVE RealmStep
  <2>1. CASE CanWrite
    <3>1. /\ clock < MaxObjects
          /\ clock' = clock + 1
          /\ Write(WithItem(selectedCategory, NewItem(title)))
      BY <1>4, <2>1 DEF AddItem, NewItem
    <3> QED BY <3>1 DEF RealmStep, AddsItem
  <2>2. CASE ~CanWrite
    BY <1>4, <2>2 DEF AddItem, Raise, RealmStep
  <2> QED BY <2>1, <2>2
<1>5. ASSUME NEW row \in DOMAIN itemRows, DeleteItem(row)
      PROVE RealmStep
  <2>1. CASE CanWrite /\ row <= Len(itemArray)
    <3>1. Write(WithoutItem(selectedCategory, itemArray[row])) /\ clock' = clock
      BY <1>5, <2>1 DEF DeleteItem
    <3> QED BY <3>1 DEF RealmStep, RemovesItem
  <2>2. CASE ~(CanWrite /\ row <= Len(itemArray))
    BY <1>5, <2>2 DEF DeleteItem, Raise, RealmStep
  <2> QED BY <2>1, <2>2
<1>6. ASSUME NEW text \in Texts, Search(text)
      PROVE RealmStep
  BY <1>6 DEF Search, RealmStep
<1>7. CASE EmptySearch \/ Back \/ Kill
  BY <1>7 DEF EmptySearch, Back, Kill, RealmStep
<1>8. CASE Relaunch
  BY <1>8 DEF Relaunch, RealmStep
<1>9. CASE UNCHANGED vars
  BY <1>9 DEF vars, RealmStep
<1> QED BY <1>1, <1>2, <1>3, <1>4, <1>5, <1>6, <1>7, <1>8, <1>9 DEF Next

(* A write of a well-formed store with nothing newer than the next clock keeps
   the invariant, whether or not its commit succeeds. *)
LEMMA WriteKeeps ==
    ASSUME RealmInv, clock' \in 0..MaxObjects, clock <= clock',
           NEW store \in Stores, Write(store),
           \A c \in Keys : \A i \in store.items[c] : i.dateCreated <= clock'
    PROVE  RealmInv'
<1>1. live' = store /\ disk' \in {store, disk} /\ open' \in BOOLEAN
      /\ (~open' => disk' = store)
  BY DEF Write, Commit, CommitFails
<1>2. RealmTypeOK'
  BY <1>1 DEF RealmInv, RealmTypeOK
<1>3. \A c \in Keys : \A i \in disk.items[c] : i.dateCreated <= clock'
  <2> SUFFICES ASSUME NEW c \in Keys, NEW i \in disk.items[c]
               PROVE  i.dateCreated <= clock'
    OBVIOUS
  <2>1. i.dateCreated <= clock
    BY DEF RealmInv, NoneNewer
  <2>2. i.dateCreated \in Nat
    <3>1. disk.items[c] \subseteq Items
      BY DEF RealmInv, RealmTypeOK, Stores
    <3> QED BY <3>1 DEF Items, Keys
  <2>3. clock \in Nat /\ clock' \in Nat
    BY DEF RealmInv, RealmTypeOK
  <2> QED BY <2>1, <2>2, <2>3
<1>4. NoneNewer(live)' /\ NoneNewer(disk)'
  BY <1>1, <1>3 DEF NoneNewer
<1> QED BY <1>1, <1>2, <1>4 DEF RealmInv

LEMMA RealmInvHolds == ASSUME RealmInv, RealmStep PROVE RealmInv' /\ SavesOnlyNew
<1> USE RealmAssumption
<1>0. /\ live \in Stores /\ disk \in Stores /\ clock \in 0..MaxObjects /\ clock \in Nat
      /\ \A c \in Keys : live.items[c] \subseteq Items
      /\ \A i \in Items : i.dateCreated \in Nat
  BY DEF RealmInv, RealmTypeOK, Stores, Items, Keys
<1>1. CASE AddsCategory
  <2>1. WithCategory(clock + 1) \in Stores
        /\ WithCategory(clock + 1).items = live.items
    BY <1>0, <1>1 DEF AddsCategory, WithCategory, Stores, Keys
  <2>2. \A c \in Keys : \A i \in live.items[c] : i.dateCreated <= clock'
    BY <1>0, <1>1 DEF AddsCategory, RealmInv, NoneNewer
  <2>3. RealmInv'
    BY <1>0, <1>1, <2>1, <2>2, WriteKeeps DEF AddsCategory
  <2>4. disk'.items \in {live.items, disk.items} /\ live = disk
    BY <1>1, <2>1 DEF AddsCategory, Write, Commit, CommitFails, CanWrite, RealmInv
  <2> QED BY <2>3, <2>4 DEF SavesOnlyNew
<1>2. CASE RemovesCategory
  <2> PICK key : Write(WithoutCategory(key))
    BY <1>2 DEF RemovesCategory
  <2>1. WithoutCategory(key) \in Stores
        /\ WithoutCategory(key).items = live.items
    BY <1>0 DEF WithoutCategory, Stores
  <2>2. \A c \in Keys : \A i \in live.items[c] : i.dateCreated <= clock'
    BY <1>2 DEF RemovesCategory, RealmInv, NoneNewer
  <2>3. RealmInv'
    BY <1>0, <1>2, <2>1, <2>2, WriteKeeps DEF RemovesCategory
  <2>4. disk'.items \in {live.items, disk.items} /\ live = disk
    BY <2>1 DEF Write, Commit, CommitFails, CanWrite, RealmInv
  <2> QED BY <2>3, <2>4 DEF SavesOnlyNew
<1>3. CASE AddsItem
  <2> PICK category : \E title \in Titles : Write(WithItem(category, NewItem(title)))
    BY <1>3 DEF AddsItem
  <2> PICK title \in Titles : Write(WithItem(category, NewItem(title)))
    OBVIOUS
  <2> DEFINE new == NewItem(title)
  <2>1. new \in Items /\ new.dateCreated = clock + 1
    BY <1>0, <1>3 DEF AddsItem, NewItem, Items, Keys
  <2>2. WithItem(category, new) \in Stores
        /\ \A c \in Keys : WithItem(category, new).items[c] \subseteq live.items[c] \cup {new}
    <3> HIDE DEF new
    <3> QED BY <1>0, <2>1 DEF WithItem, Stores
  <2>3. \A c \in Keys : \A i \in WithItem(category, new).items[c] : i.dateCreated <= clock'
    <3> HIDE DEF new
    <3>1. \A c \in Keys : \A i \in live.items[c] \cup {new} : i.dateCreated <= clock + 1
      BY <1>0, <2>1 DEF RealmInv, NoneNewer
    <3> QED BY <1>3, <2>2, <3>1 DEF AddsItem
  <2>4. RealmInv'
    BY <1>0, <1>3, <2>2, <2>3, WriteKeeps DEF AddsItem
  <2>5. live = disk /\ disk' \in {WithItem(category, new), disk}
    BY DEF Write, Commit, CommitFails, CanWrite, RealmInv
  <2>6. SavesOnlyNew
    <3> HIDE DEF new
    <3> SUFFICES ASSUME NEW c \in Keys, NEW i \in disk'.items[c] \ disk.items[c]
                 PROVE  i.dateCreated > clock
      BY DEF SavesOnlyNew
    <3>1. i = new
      BY <2>2, <2>5
    <3> QED BY <1>0, <2>1, <3>1
  <2> QED BY <2>4, <2>6
<1>4. CASE RemovesItem
  <2> PICK category, item : Write(WithoutItem(category, item))
    BY <1>4 DEF RemovesItem
  <2>1. WithoutItem(category, item) \in Stores
        /\ \A c \in Keys : WithoutItem(category, item).items[c] \subseteq live.items[c]
    BY <1>0 DEF WithoutItem, Stores
  <2>2. \A c \in Keys : \A i \in WithoutItem(category, item).items[c] : i.dateCreated <= clock'
    BY <1>4, <2>1 DEF RemovesItem, RealmInv, NoneNewer
  <2>3. RealmInv'
    BY <1>0, <1>4, <2>1, <2>2, WriteKeeps DEF RemovesItem
  <2>4. live = disk /\ disk' \in {WithoutItem(category, item), disk}
    BY DEF Write, Commit, CommitFails, CanWrite, RealmInv
  <2> QED BY <2>1, <2>3, <2>4 DEF SavesOnlyNew
<1>5. CASE Reopen
  BY <1>5 DEF Reopen, RealmInv, RealmTypeOK, NoneNewer, SavesOnlyNew
<1>6. CASE UNCHANGED realmVars
  BY <1>6 DEF realmVars, RealmInv, RealmTypeOK, NoneNewer, SavesOnlyNew
<1> QED BY <1>1, <1>2, <1>3, <1>4, <1>5, <1>6 DEF RealmStep

LEMMA RealmInvStarts == Init => RealmInv
<1> SUFFICES ASSUME Init PROVE RealmInv
  OBVIOUS
<1>1. live \in Stores /\ \A c \in Keys : live.items[c] = {}
  BY DEF Init, RealmInit, Stores
<1>2. RealmTypeOK
  <2>1. 0 \in 0..MaxObjects
    BY RealmAssumption
  <2>2. clock = 0 /\ disk = live /\ open = FALSE
    BY DEF Init, RealmInit
  <2> QED BY <1>1, <2>1, <2>2 DEF RealmTypeOK
<1> QED BY <1>1, <1>2 DEF Init, RealmInit, RealmInv, NoneNewer

LEMMA RealmInvAlways == Spec => []RealmInv
<1>1. RealmInv /\ [Next]_vars => RealmInv'
  BY StepsOfTheRealm, RealmInvHolds
<1> QED BY <1>1, RealmInvStarts, PTL DEF Spec

(* The file and what the process sees of it differ only over a transaction that
   a failed commit left open: nothing else that is on screen can be lost. *)
THEOREM LostOnlyWhenOpen == Spec => [](~open => live = disk)
<1>1. RealmInv => (~open => live = disk)
  BY DEF RealmInv
<1> QED BY <1>1, RealmInvAlways, PTL

(* No step of the app saves an item it did not make in that step: an item whose
   commit failed, or one deleted from the file, never comes back to it. *)
THEOREM NothingComesBack == Spec => SavedOnlyWhenMade
<1>1. RealmInv /\ [Next]_vars => [SavesOnlyNew]_vars
  BY StepsOfTheRealm, RealmInvHolds
<1>2. [SavesOnlyNew]_vars <=>
        [\A c \in Keys : \A i \in disk'.items[c] \ disk.items[c] : i.dateCreated > clock]_vars
  BY DEF SavesOnlyNew
<1> QED BY <1>1, <1>2, RealmInvAlways, PTL DEF Spec, SavedOnlyWhenMade

-----------------------------------------------------------------------------
(* Sorted: each object of the set has one row, and each row one object. *)

Before(S, Order, x) == {y \in S : <<y, x>> \in Order}
Rank(S, Order, x) == Cardinality(Before(S, Order, x))

Orders(Order, S) ==
  /\ \A x \in S : <<x, x>> \notin Order
  /\ \A x, y \in S : x # y => <<x, y>> \in Order \/ <<y, x>> \in Order
  /\ \A x, y, z \in S : <<x, y>> \in Order /\ <<y, z>> \in Order => <<x, z>> \in Order

LEMMA RankIsNat ==
    ASSUME NEW S, IsFiniteSet(S), NEW Order, NEW x
    PROVE  IsFiniteSet(Before(S, Order, x)) /\ Rank(S, Order, x) \in Nat
<1>1. Before(S, Order, x) \in SUBSET S
  BY DEF Before
<1>2. IsFiniteSet(Before(S, Order, x))
  BY <1>1, FS_Subset
<1> QED BY <1>2, FS_CardinalityType DEF Rank

LEMMA RankGrows ==
    ASSUME NEW S, IsFiniteSet(S), NEW Order, Orders(Order, S),
           NEW x \in S, NEW y \in S, <<x, y>> \in Order
    PROVE  Rank(S, Order, x) < Rank(S, Order, y)
<1> DEFINE A == Before(S, Order, x)
           B == Before(S, Order, y)
<1>1. A \in SUBSET B /\ x \in B /\ x \notin A
  BY DEF Before, Orders
<1>2. IsFiniteSet(A) /\ IsFiniteSet(B) /\ Cardinality(A) \in Nat /\ Cardinality(B) \in Nat
  BY RankIsNat DEF Rank
<1> HIDE DEF A, B
<1>3. Cardinality(A) <= Cardinality(B) /\ Cardinality(A) # Cardinality(B)
  BY <1>1, <1>2, FS_Subset
<1>4. Cardinality(A) < Cardinality(B)
  BY <1>2, <1>3
<1> QED BY <1>4 DEF Rank, A, B

(* The row of an object is its rank plus one. *)
LEMMA RankIsRow ==
    ASSUME NEW S, IsFiniteSet(S), NEW Order, Orders(Order, S), NEW x \in S
    PROVE  Rank(S, Order, x) + 1 \in 1..Cardinality(S)
<1> DEFINE A == Before(S, Order, x)
<1>1. A \in SUBSET S /\ x \notin A
  BY DEF Before, Orders
<1>2. Cardinality(A) \in Nat /\ Cardinality(S) \in Nat
  BY RankIsNat, FS_CardinalityType DEF Rank
<1> HIDE DEF A
<1>3. Cardinality(A) <= Cardinality(S) /\ Cardinality(A) # Cardinality(S)
  BY <1>1, FS_Subset
<1>4. Cardinality(A) + 1 \in 1..Cardinality(S)
  BY <1>2, <1>3
<1> QED BY <1>4 DEF Rank, A

LEMMA RankIsUnique ==
    ASSUME NEW S, IsFiniteSet(S), NEW Order, Orders(Order, S),
           NEW x \in S, NEW y \in S, Rank(S, Order, x) = Rank(S, Order, y)
    PROVE  x = y
<1> SUFFICES ASSUME x # y PROVE FALSE
  OBVIOUS
<1>1. <<x, y>> \in Order \/ <<y, x>> \in Order
  BY DEF Orders
<1>2. Rank(S, Order, x) \in Nat /\ Rank(S, Order, y) \in Nat
  BY RankIsNat
<1>3. Rank(S, Order, x) < Rank(S, Order, y) \/ Rank(S, Order, y) < Rank(S, Order, x)
  BY <1>1, RankGrows
<1> QED BY <1>2, <1>3

(* Ranks are distinct and there are as many rows as objects: no row is empty. *)
LEMMA EveryRowIsTaken ==
    ASSUME NEW S, IsFiniteSet(S), NEW Order, Orders(Order, S),
           NEW n \in 1..Cardinality(S)
    PROVE  \E x \in S : Rank(S, Order, x) = n - 1
<1> DEFINE rows == 1..Cardinality(S)
           row == [x \in S |-> Rank(S, Order, x) + 1]
<1>0. Cardinality(S) \in Nat
  BY FS_CardinalityType
<1>1. IsFiniteSet(rows) /\ Cardinality(rows) = Cardinality(S)
  BY <1>0, FS_Interval
<1>2. \A x \in S : Rank(S, Order, x) \in Nat
  BY RankIsNat
<1>3. row \in Injection(S, rows)
  <2>1. row \in [S -> rows]
    BY RankIsRow
  <2>2. ASSUME NEW x \in S, NEW y \in S, row[x] = row[y]
        PROVE  x = y
    <3>1. Rank(S, Order, x) = Rank(S, Order, y)
      BY <1>2, <2>2
    <3> QED BY <3>1, RankIsUnique
  <2> QED BY <2>1, <2>2 DEF Injection, IsInjective
<1> HIDE DEF row
<1>4. row \in Surjection(S, rows)
  BY <1>1, <1>3, FS_Injection
<1>5. PICK x \in S : row[x] = n
  BY <1>4 DEF Surjection
<1>6. Rank(S, Order, x) + 1 = n
  BY <1>5 DEF row
<1> QED BY <1>2, <1>6

LEMMA SortedByRank ==
    ASSUME NEW S, IsFiniteSet(S), NEW Order, Orders(Order, S)
    PROVE  /\ DOMAIN Sorted(S, Order) = 1..Cardinality(S)
           /\ \A n \in 1..Cardinality(S) :
                 Sorted(S, Order)[n] \in S /\ Rank(S, Order, Sorted(S, Order)[n]) = n - 1
           /\ \A x \in S : Sorted(S, Order)[Rank(S, Order, x) + 1] = x
<1>1. DOMAIN Sorted(S, Order) = 1..Cardinality(S)
  BY DEF Sorted
<1>2. ASSUME NEW n \in 1..Cardinality(S)
      PROVE  Sorted(S, Order)[n] \in S /\ Rank(S, Order, Sorted(S, Order)[n]) = n - 1
  <2>1. Sorted(S, Order)[n] = CHOOSE x \in S : Rank(S, Order, x) = n - 1
    BY DEF Sorted, Rank, Before
  <2>2. \E x \in S : Rank(S, Order, x) = n - 1
    BY EveryRowIsTaken
  <2> QED BY <2>1, <2>2
<1>3. ASSUME NEW x \in S
      PROVE  Sorted(S, Order)[Rank(S, Order, x) + 1] = x
  <2> DEFINE n == Rank(S, Order, x) + 1
  <2>1. n \in 1..Cardinality(S) /\ n - 1 = Rank(S, Order, x)
    BY RankIsRow, RankIsNat
  <2>2. Sorted(S, Order)[n] \in S /\ Rank(S, Order, Sorted(S, Order)[n]) = Rank(S, Order, x)
    BY <1>2, <2>1
  <2> QED BY <2>2, RankIsUnique
<1> QED BY <1>1, <1>2, <1>3

(* The rows show the set, each object once. *)
LEMMA SortedShowsAll ==
    ASSUME NEW S, IsFiniteSet(S), NEW Order, Orders(Order, S)
    PROVE  /\ Sorted(S, Order) \in Seq(S)
           /\ Len(Sorted(S, Order)) = Cardinality(S)
           /\ ToSet(Sorted(S, Order)) = S
<1> DEFINE s == Sorted(S, Order)
           N == Cardinality(S)
<1>1. N \in Nat
  BY FS_CardinalityType
<1>2. DOMAIN s = 1..N /\ \A n \in 1..N : s[n] \in S
  BY SortedByRank
<1>3. s \in [1..N -> S]
  BY <1>2 DEF Sorted
<1>4. s \in Seq(S) /\ Len(s) = N
  <2> HIDE DEF s, N
  <2> QED BY <1>1, <1>3
<1>5. \A x \in S : \E n \in 1..N : s[n] = x
  BY RankIsRow, SortedByRank
<1> HIDE DEF s, N
<1>6. ToSet(s) = S
  BY <1>2, <1>5 DEF ToSet
<1> QED BY <1>4, <1>6 DEF s, N

(* Without one object, the others keep their order and close the gap. *)
LEMMA SortedWithout ==
    ASSUME NEW S, IsFiniteSet(S), NEW Order, Orders(Order, S),
           NEW row \in 1..Cardinality(S)
    PROVE  Sorted(S \ {Sorted(S, Order)[row]}, Order) = RemoveAt(Sorted(S, Order), row)
<1> DEFINE s == Sorted(S, Order)
           N == Cardinality(S)
           x == s[row]
           T == S \ {x}
           t == Sorted(T, Order)
<1>0. N \in Nat /\ N - 1 \in Nat /\ row \in 1..N
  BY FS_CardinalityType
<1>1. x \in S /\ Rank(S, Order, x) = row - 1
  BY SortedByRank
<1>2. IsFiniteSet(T) /\ Cardinality(T) = N - 1
  BY <1>1, FS_RemoveElement
<1>3. Orders(Order, T)
  BY DEF Orders
<1>4. DOMAIN t = 1..(N - 1) /\ \A y \in T : t[Rank(T, Order, y) + 1] = y
  <2> HIDE DEF T
  <2>1. /\ DOMAIN t = 1..Cardinality(T)
        /\ \A y \in T : t[Rank(T, Order, y) + 1] = y
    BY <1>2, <1>3, SortedByRank
  <2> QED BY <1>2, <2>1
<1>5. s \in Seq(S) /\ Len(s) = N
  BY SortedShowsAll
<1>6. ASSUME NEW n \in 1..(N - 1)
      PROVE  t[n] = IF n < row THEN s[n] ELSE s[n + 1]
  <2> DEFINE y == IF n < row THEN s[n] ELSE s[n + 1]
             m == IF n < row THEN n ELSE n + 1
  <2>1. m \in 1..N /\ m # row /\ y = s[m]
    BY <1>0
  <2>2. y \in S /\ Rank(S, Order, y) = m - 1
    BY <2>1, SortedByRank
  <2>3. y \in T
    BY <1>0, <1>1, <2>1, <2>2
  <2>4. Rank(T, Order, y) = n - 1
    <3>1. CASE n < row
      <4>1. <<x, y>> \notin Order
        <5>1. <<x, y>> \in Order => Rank(S, Order, x) < Rank(S, Order, y)
          BY <1>1, <2>2, RankGrows
        <5> QED BY <1>0, <1>1, <2>2, <3>1, <5>1
      <4>2. Before(T, Order, y) = Before(S, Order, y)
        BY <4>1 DEF Before
      <4> QED BY <2>2, <3>1, <4>2 DEF Rank
    <3>2. CASE ~(n < row)
      <4>1. <<x, y>> \in Order
        <5>1. <<y, x>> \in Order => Rank(S, Order, y) < Rank(S, Order, x)
          BY <1>1, <2>2, RankGrows
        <5>2. <<x, y>> \in Order \/ <<y, x>> \in Order
          BY <1>1, <2>2, <2>3 DEF Orders
        <5> QED BY <1>0, <1>1, <2>2, <3>2, <5>1, <5>2
      <4> DEFINE B == Before(S, Order, y)
      <4>2. Before(T, Order, y) = B \ {x} /\ x \in B
        BY <1>1, <4>1 DEF Before
      <4>3. IsFiniteSet(B) /\ Cardinality(B) = n
        BY <2>2, <3>2, RankIsNat DEF Rank
      <4> HIDE DEF B
      <4>4. Cardinality(B \ {x}) = n - 1
        BY <4>2, <4>3, FS_RemoveElement
      <4> QED BY <4>2, <4>4 DEF Rank
    <3> QED BY <3>1, <3>2
  <2> HIDE DEF t, T, y
  <2>5. t[Rank(T, Order, y) + 1] = y
    BY <1>4, <2>3
  <2>6. t[n] = y
    BY <1>0, <2>4, <2>5
  <2> QED BY <2>6 DEF y
<1>7. t \in [1..(N - 1) -> S]
  <2>1. t \in Seq(T) /\ Len(t) = N - 1
    BY <1>2, <1>3, SortedShowsAll
  <2> HIDE DEF t, N, s
  <2> QED BY <2>1, <1>0
<1> HIDE DEF s, t, N
<1> DEFINE before == SubSeq(s, 1, row - 1)
           after == SubSeq(s, row + 1, N)
<1>8. before \in Seq(S) /\ Len(before) = row - 1
      /\ \A n \in 1..(row - 1) : before[n] = s[n]
  BY <1>0, <1>5
<1>9. after \in Seq(S) /\ Len(after) = N - row
      /\ \A n \in 1..(N - row) : after[n] = s[row + n]
  <2>1. row + 1 \in 1..(N + 1) /\ N \in row..N
    BY <1>0
  <2>2. after \in Seq(S)
    BY <1>0, <1>5, <2>1
  <2>3. Len(after) = N - row
    BY <1>0, <1>5, <2>1
  <2>4. ASSUME NEW n \in 1..(N - row)
        PROVE  after[n] = s[row + n]
    <3>1. after[n] = s[row + 1 + n - 1]
      BY <1>0, <1>5, <2>1
    <3>2. row + 1 + n - 1 = row + n
      BY <1>0
    <3> QED BY <3>1, <3>2
  <2> QED BY <2>2, <2>3, <2>4
<1> HIDE DEF before, after
<1>10. RemoveAt(s, row) = before \o after
  BY <1>5 DEF RemoveAt, before, after
<1>11. RemoveAt(s, row) \in Seq(S) /\ Len(RemoveAt(s, row)) = N - 1
  <2>1. before \o after \in Seq(S) /\ Len(before \o after) = (row - 1) + (N - row)
    BY <1>0, <1>8, <1>9
  <2> QED BY <1>0, <1>10, <2>1
<1>12. ASSUME NEW n \in 1..(N - 1)
       PROVE  RemoveAt(s, row)[n] = IF n < row THEN s[n] ELSE s[n + 1]
  <2>1. CASE n < row
    <3>1. n \in 1..(row - 1)
      BY <1>0, <2>1
    <3>2. (before \o after)[n] = before[n]
      BY <1>0, <1>8, <1>9, <3>1
    <3> QED BY <1>8, <1>10, <2>1, <3>1, <3>2
  <2>2. CASE ~(n < row)
    <3>1. n - (row - 1) \in 1..(N - row) /\ row + (n - (row - 1)) = n + 1
      BY <1>0, <2>2
    <3>2. (before \o after)[n] = after[n - (row - 1)]
      BY <1>0, <1>8, <1>9, <3>1
    <3> QED BY <1>9, <1>10, <2>2, <3>1, <3>2
  <2> QED BY <2>1, <2>2
<1>13. t = RemoveAt(s, row)
  BY <1>0, <1>6, <1>7, <1>11, <1>12
<1> QED BY <1>13 DEF s, t, T, x

-----------------------------------------------------------------------------
(* The tables over the Realm: what they hold besides being well typed. *)

(* The clock never gives two items of a category the same date. *)
DatesDiffer(store) ==
  \A c \in Keys : \A i, j \in store.items[c] : i.dateCreated = j.dateCreated => i = j

SearchInv ==
  /\ searchText # NoText => searchText \in filters
  /\ searchText = NoText => filters = {}

ScreenInv ==
  /\ TypeOK
  /\ DatesDiffer(live) /\ DatesDiffer(disk)
  /\ selectedCategory \in live.categories \cup {NoCategory}
  /\ SearchInv
  /\ RowsFollowResults
  /\ RaisesOnlyAfterFailedCommit

TodoInv == RealmInv /\ ScreenInv

LEMMA DatesStay ==
    ASSUME RealmInv, DatesDiffer(live), DatesDiffer(disk), RealmStep
    PROVE  DatesDiffer(live)' /\ DatesDiffer(disk)'
<1> USE RealmAssumption
<1>0. /\ live \in Stores /\ disk \in Stores /\ clock \in Nat
      /\ \A c \in Keys : \A i \in live.items[c] : i.dateCreated \in Nat /\ i.dateCreated <= clock
  <2>1. live \in Stores /\ disk \in Stores /\ clock \in 0..MaxObjects /\ NoneNewer(live)
    BY DEF RealmInv, RealmTypeOK
  <2> QED BY <2>1 DEF Stores, Items, Keys, NoneNewer
<1>1. ASSUME NEW store, Write(store), DatesDiffer(store)
      PROVE  DatesDiffer(live)' /\ DatesDiffer(disk)'
  BY <1>1 DEF Write, Commit, CommitFails, DatesDiffer
<1>2. CASE AddsCategory
  <2>1. DatesDiffer(WithCategory(clock + 1))
    BY <1>0 DEF WithCategory, DatesDiffer, Stores
  <2> QED BY <1>1, <1>2, <2>1 DEF AddsCategory
<1>3. CASE RemovesCategory
  <2> PICK key : Write(WithoutCategory(key))
    BY <1>3 DEF RemovesCategory
  <2>1. DatesDiffer(WithoutCategory(key))
    BY <1>0 DEF WithoutCategory, DatesDiffer, Stores
  <2> QED BY <1>1, <2>1
<1>4. CASE AddsItem
  <2> PICK category : \E title \in Titles : Write(WithItem(category, NewItem(title)))
    BY <1>4 DEF AddsItem
  <2> PICK title \in Titles : Write(WithItem(category, NewItem(title)))
    OBVIOUS
  <2> DEFINE new == NewItem(title)
  <2>1. new.dateCreated = clock + 1
    BY DEF NewItem
  <2> HIDE DEF new
  <2>2. \A c \in Keys : WithItem(category, new).items[c] \subseteq live.items[c] \cup {new}
    BY <1>0 DEF WithItem, Stores
  <2>3. \A c \in Keys : \A i \in live.items[c] : i.dateCreated # new.dateCreated
    BY <1>0, <2>1
  <2>4. DatesDiffer(WithItem(category, new))
    BY <2>2, <2>3 DEF DatesDiffer
  <2> QED BY <1>1, <2>4 DEF new
<1>5. CASE RemovesItem
  <2> PICK category, item : Write(WithoutItem(category, item))
    BY <1>5 DEF RemovesItem
  <2>1. \A c \in Keys : WithoutItem(category, item).items[c] \subseteq live.items[c]
    BY <1>0 DEF WithoutItem, Stores
  <2>2. DatesDiffer(WithoutItem(category, item))
    BY <2>1 DEF DatesDiffer
  <2> QED BY <1>1, <2>2
<1>6. CASE Reopen
  BY <1>6 DEF Reopen, DatesDiffer
<1>7. CASE UNCHANGED realmVars
  BY <1>7 DEF realmVars, DatesDiffer
<1> QED BY <1>2, <1>3, <1>4, <1>5, <1>6, <1>7 DEF RealmStep

(* Both tables show sets their order is total on. *)
LEMMA CategoryRowsShow ==
    ASSUME NEW store \in Stores
    PROVE  /\ IsFiniteSet(store.categories) /\ Orders(ByKey, store.categories)
           /\ CategoryResults(store) \in Seq(Keys)
           /\ Len(CategoryResults(store)) = Cardinality(store.categories)
           /\ ToSet(CategoryResults(store)) = store.categories
<1> DEFINE S == store.categories
<1>1. S \in SUBSET Keys
  BY DEF Stores
<1>2. IsFiniteSet(Keys)
  BY RealmAssumption, FS_Interval DEF Keys
<1>3. IsFiniteSet(S)
  BY <1>1, <1>2, FS_Subset
<1>4. Orders(ByKey, S)
  BY <1>1, RealmAssumption DEF Orders, ByKey, Keys
<1>5. /\ Sorted(S, ByKey) \in Seq(S)
      /\ Len(Sorted(S, ByKey)) = Cardinality(S)
      /\ ToSet(Sorted(S, ByKey)) = S
  BY <1>3, <1>4, SortedShowsAll
<1>6. Sorted(S, ByKey) \in Seq(Keys)
  BY <1>1, <1>5
<1> QED BY <1>3, <1>4, <1>5, <1>6 DEF CategoryResults

OrderOf(dates) == IF dates THEN ByDate ELSE ByTitle
Matching(store, category, texts) ==
  {i \in store.items[category] : texts \subseteq TextsIn[i.title]}

LEMMA ItemRowsShow ==
    ASSUME NEW store \in Stores, DatesDiffer(store), NEW category \in Keys,
           NEW texts, NEW dates
    PROVE  /\ IsFiniteSet(Matching(store, category, texts))
           /\ Orders(OrderOf(dates), Matching(store, category, texts))
           /\ ItemResults(store, category, texts, dates)
                = Sorted(Matching(store, category, texts), OrderOf(dates))
           /\ ItemResults(store, category, texts, dates) \in Seq(Items)
           /\ Len(ItemResults(store, category, texts, dates))
                = Cardinality(Matching(store, category, texts))
           /\ ToSet(ItemResults(store, category, texts, dates))
                = Matching(store, category, texts)
<1> DEFINE S == Matching(store, category, texts)
           R == OrderOf(dates)
<1>0. /\ S \in SUBSET Items
      /\ \A i, j \in S : i.dateCreated = j.dateCreated => i = j
  BY DEF Matching, Stores, DatesDiffer
<1>1. \A i \in Items : i.dateCreated \in Keys /\ i.dateCreated \in Int /\ i.title \in Int
  <2>1. Keys \subseteq Int /\ Titles \subseteq Int
    BY RealmAssumption DEF Keys
  <2> QED BY <2>1 DEF Items
<1>2. IsFiniteSet(S)
  <2> DEFINE date == [i \in S |-> i.dateCreated]
  <2>1. IsFiniteSet(Keys)
    BY RealmAssumption, FS_Interval DEF Keys
  <2> HIDE DEF S
  <2>2. date \in Injection(S, Keys)
    BY <1>0, <1>1 DEF Injection, IsInjective
  <2> HIDE DEF date
  <2> QED BY <2>1, <2>2, FS_Injection
<1> HIDE DEF S
<1>3. Orders(ByDate, S)
  BY <1>0, <1>1 DEF Orders, ByDate
<1>4. Orders(ByTitle, S)
  BY <1>0, <1>1 DEF Orders, ByTitle
<1>5. Orders(R, S)
  BY <1>3, <1>4 DEF OrderOf
<1>6. ItemResults(store, category, texts, dates) = Sorted(S, R)
  BY DEF ItemResults, S, Matching, OrderOf
<1>7. /\ Sorted(S, R) \in Seq(S)
      /\ Len(Sorted(S, R)) = Cardinality(S)
      /\ ToSet(Sorted(S, R)) = S
  BY <1>2, <1>5, SortedShowsAll
<1>8. Sorted(S, R) \in Seq(Items)
  BY <1>0, <1>7
<1> QED BY <1>2, <1>5, <1>6, <1>7, <1>8 DEF S

LEMMA ScreenInvStarts == Init => ScreenInv
<1> SUFFICES ASSUME Init PROVE ScreenInv
  OBVIOUS
<1>1. RealmTypeOK /\ live.categories = {} /\ \A c \in Keys : live.items[c] = {}
  BY RealmInvStarts DEF RealmInv, Init, RealmInit
<1>2. TypeOK
  <2>1. 0 \in 0..MaxRelaunches
    BY TodoeyAssumption
  <2>2. <<>> \in Seq(Keys) /\ <<>> \in Seq(Items)
    OBVIOUS
  <2> QED BY <1>1, <2>1, <2>2 DEF Init, TypeOK
<1>3. DatesDiffer(live) /\ DatesDiffer(disk)
  BY <1>1 DEF Init, RealmInit, DatesDiffer
<1>4. CategoryResults(live) = <<>>
  <2>1. CategoryResults(live) \in Seq(Keys) /\ Len(CategoryResults(live)) = Cardinality({})
    BY <1>1, CategoryRowsShow DEF RealmTypeOK
  <2> QED BY <2>1, FS_EmptySet
<1>5. RowsFollowResults
  BY <1>4 DEF RowsFollowResults, Init, OnItems
<1> QED BY <1>2, <1>3, <1>5 DEF Init, ScreenInv, SearchInv, RaisesOnlyAfterFailedCommit

(* A row that leaves the results leaves the table. *)
LEMMA CategoryRowGoes ==
    ASSUME NEW store \in Stores, NEW left \in Stores,
           NEW row \in DOMAIN CategoryResults(store),
           left.categories = store.categories \ {CategoryResults(store)[row]}
    PROVE  /\ CategoryResults(left) = RemoveAt(CategoryResults(store), row)
           /\ Len(CategoryResults(left)) = Len(CategoryResults(store)) - 1
<1> DEFINE S == store.categories
           x == CategoryResults(store)[row]
<1>1. /\ IsFiniteSet(S) /\ Orders(ByKey, S)
      /\ CategoryResults(store) \in Seq(Keys)
      /\ Len(CategoryResults(store)) = Cardinality(S)
      /\ ToSet(CategoryResults(store)) = S
  BY CategoryRowsShow
<1>2. row \in 1..Cardinality(S)
  BY <1>1
<1>3. CategoryResults(store) = Sorted(S, ByKey) /\ CategoryResults(left) = Sorted(S \ {x}, ByKey)
  BY DEF CategoryResults
<1>4. CategoryResults(left) = RemoveAt(CategoryResults(store), row)
  BY <1>1, <1>2, <1>3, SortedWithout
<1>5. x \in S
  BY <1>1, <1>2 DEF ToSet
<1>6. Len(CategoryResults(left)) = Cardinality(S \ {x})
  BY CategoryRowsShow
<1>7. Cardinality(S \ {x}) = Cardinality(S) - 1
  BY <1>1, <1>5, FS_RemoveElement
<1> QED BY <1>1, <1>4, <1>6, <1>7

LEMMA ItemRowGoes ==
    ASSUME NEW store \in Stores, NEW left \in Stores,
           DatesDiffer(store), DatesDiffer(left),
           NEW category \in Keys, NEW texts, NEW dates,
           NEW row \in DOMAIN ItemResults(store, category, texts, dates),
           left.items[category] = store.items[category]
                                    \ {ItemResults(store, category, texts, dates)[row]}
    PROVE  /\ ItemResults(left, category, texts, dates)
                = RemoveAt(ItemResults(store, category, texts, dates), row)
           /\ Len(ItemResults(left, category, texts, dates))
                = Len(ItemResults(store, category, texts, dates)) - 1
<1> DEFINE S == Matching(store, category, texts)
           T == Matching(left, category, texts)
           R == OrderOf(dates)
           before == ItemResults(store, category, texts, dates)
           after == ItemResults(left, category, texts, dates)
           x == before[row]
<1>1. /\ IsFiniteSet(S) /\ Orders(R, S)
      /\ before = Sorted(S, R) /\ before \in Seq(Items)
      /\ Len(before) = Cardinality(S) /\ ToSet(before) = S
  BY ItemRowsShow
<1>2. after = Sorted(T, R) /\ Len(after) = Cardinality(T)
  BY ItemRowsShow
<1>3. T = S \ {x}
  BY DEF Matching
<1>4. row \in 1..Cardinality(S)
  BY <1>1
<1> HIDE DEF S, T, R, before, after
<1>5. after = RemoveAt(before, row)
  BY <1>1, <1>2, <1>3, <1>4, SortedWithout
<1>6. x \in S
  BY <1>1, <1>4 DEF ToSet
<1>7. Cardinality(S \ {x}) = Cardinality(S) - 1
  BY <1>1, <1>6, FS_RemoveElement
<1>8. Len(after) = Len(before) - 1
  BY <1>1, <1>2, <1>3, <1>7
<1> QED BY <1>5, <1>8 DEF before, after

(* What loadItems shows is what it loads. *)
LEMMA LoadKeeps ==
    ASSUME RealmInv', DatesDiffer(live)', live' = live,
           NEW category \in live.categories \cup {NoCategory}, LoadItems(category)
    PROVE  /\ selectedCategory' \in Keys \cup {NoCategory}
           /\ filters' = {} /\ byDate' = FALSE /\ searchText' = NoText
           /\ itemRows' \in Seq(Items)
           /\ (OnItems => itemRows = itemArray)'
           /\ SearchInv'
<1>1. live' \in Stores /\ DatesDiffer(live')
  BY DEF RealmInv, RealmTypeOK, DatesDiffer
<1>2. category \in Keys \cup {NoCategory}
  BY <1>1 DEF Stores
<1>3. selectedCategory' = category /\ filters' = {} /\ byDate' = FALSE /\ searchText' = NoText
  BY DEF LoadItems
<1>4. itemRows' \in Seq(Items)
  <2>1. CASE category = NoCategory
    BY <2>1 DEF LoadItems
  <2>2. CASE category # NoCategory
    <3>1. itemRows' = ItemResults(live, category, {}, FALSE) /\ category \in Keys
      BY <1>2, <2>2 DEF LoadItems
    <3>2. ItemResults(live, category, {}, FALSE) \in Seq(Items)
      BY <1>1, <3>1, ItemRowsShow
    <3> QED BY <3>1, <3>2
  <2> QED BY <2>1, <2>2
<1>5. (OnItems => itemRows = itemArray)'
  BY <1>3 DEF LoadItems, OnItems, itemArray
<1> QED BY <1>2, <1>3, <1>4, <1>5 DEF SearchInv

(* An exception leaves everything else as it was. *)
LEMMA RaiseKeeps == ASSUME RealmInv', ScreenInv, open, Raise PROVE ScreenInv'
<1>1. TypeOK'
  BY DEF Raise, ScreenInv, TypeOK, realmVars, itemVars, RealmTypeOK
<1>2. (DatesDiffer(live) /\ DatesDiffer(disk))'
  BY DEF Raise, ScreenInv, realmVars, DatesDiffer
<1>3. SearchInv'
  BY DEF Raise, ScreenInv, itemVars, SearchInv
<1>4. (selectedCategory \in live.categories \cup {NoCategory})'
  BY DEF Raise, ScreenInv, realmVars, itemVars
<1>5. app' = "Raised" /\ open'
  BY DEF Raise, realmVars
<1>6. RowsFollowResults' /\ RaisesOnlyAfterFailedCommit'
  BY <1>5 DEF RowsFollowResults, RaisesOnlyAfterFailedCommit
<1> QED BY <1>1, <1>2, <1>3, <1>4, <1>6 DEF ScreenInv

LEMMA AddCategoryKeeps ==
    ASSUME TodoInv, RealmInv', (DatesDiffer(live) /\ DatesDiffer(disk))', AddCategory
    PROVE  ScreenInv'
<1>1. CASE ~CanWrite
  BY <1>1, RaiseKeeps DEF AddCategory, CanWrite, TodoInv
<1>2. CASE CanWrite
  <2>1. /\ app' = "Running" /\ selectedCategory' = NoCategory
        /\ categoryRows' = CategoryResults(live')
        /\ UNCHANGED <<itemVars, relaunches>>
    BY <1>2 DEF AddCategory, OnCategories, itemVars
  <2>2. live' \in Stores
    BY DEF RealmInv, RealmTypeOK
  <2>3. categoryRows' \in Seq(Keys)
    BY <2>1, <2>2, CategoryRowsShow
  <2>4. TypeOK'
    BY <2>1, <2>3 DEF RealmInv, TodoInv, ScreenInv, TypeOK, itemVars
  <2>5. SearchInv'
    BY <2>1 DEF TodoInv, ScreenInv, SearchInv, itemVars
  <2>6. RowsFollowResults' /\ RaisesOnlyAfterFailedCommit'
    BY <2>1 DEF RowsFollowResults, RaisesOnlyAfterFailedCommit, OnItems
  <2> QED BY <2>1, <2>4, <2>5, <2>6 DEF ScreenInv
<1> QED BY <1>1, <1>2

LEMMA DeleteCategoryKeeps ==
    ASSUME TodoInv, RealmInv', (DatesDiffer(live) /\ DatesDiffer(disk))',
           NEW row \in DOMAIN categoryRows, DeleteCategory(row)
    PROVE  ScreenInv'
<1>1. /\ live \in Stores /\ live' \in Stores
      /\ app = "Running" /\ selectedCategory = NoCategory
      /\ categoryRows = CategoryResults(live) /\ categoryRows \in Seq(Keys)
  BY DEF RealmInv, RealmTypeOK, TodoInv, ScreenInv, TypeOK, RowsFollowResults,
         DeleteCategory, OnCategories
<1>2. row <= Len(CategoryResults(live)) /\ row \in DOMAIN CategoryResults(live)
  BY <1>1
<1>3. CASE ~CanWrite
  BY <1>3, RaiseKeeps DEF DeleteCategory, CanWrite, TodoInv
<1>4. CASE CanWrite
  <2>1. /\ live' = WithoutCategory(CategoryResults(live)[row])
        /\ UNCHANGED <<itemVars, relaunches>>
        /\ IF Len(CategoryResults(live')) = Len(categoryRows) - 1
             THEN categoryRows' = RemoveAt(categoryRows, row) /\ UNCHANGED app
             ELSE app' = "Raised" /\ UNCHANGED categoryRows
    BY <1>2, <1>4 DEF DeleteCategory, Write
  <2>2. live'.categories = live.categories \ {CategoryResults(live)[row]}
    BY <1>1, <2>1 DEF WithoutCategory, Stores
  <2>3. /\ CategoryResults(live') = RemoveAt(CategoryResults(live), row)
        /\ Len(CategoryResults(live')) = Len(CategoryResults(live)) - 1
    BY <1>1, <1>2, <2>2, CategoryRowGoes
  <2>4. categoryRows' = CategoryResults(live') /\ app' = "Running" /\ selectedCategory' = NoCategory
    BY <1>1, <2>1, <2>3 DEF itemVars
  <2>5. categoryRows' \in Seq(Keys)
    BY <1>1, <2>4, CategoryRowsShow
  <2>6. TypeOK'
    BY <2>1, <2>4, <2>5 DEF RealmInv, TodoInv, ScreenInv, TypeOK, itemVars
  <2>7. SearchInv'
    BY <2>1 DEF TodoInv, ScreenInv, SearchInv, itemVars
  <2>8. RowsFollowResults' /\ RaisesOnlyAfterFailedCommit'
    BY <2>4 DEF RowsFollowResults, RaisesOnlyAfterFailedCommit, OnItems
  <2> QED BY <2>4, <2>6, <2>7, <2>8 DEF ScreenInv
<1> QED BY <1>3, <1>4

LEMMA SelectCategoryKeeps ==
    ASSUME TodoInv, RealmInv', (DatesDiffer(live) /\ DatesDiffer(disk))',
           NEW row \in DOMAIN categoryRows, SelectCategory(row)
    PROVE  ScreenInv'
<1>1. /\ live \in Stores /\ app = "Running"
      /\ categoryRows = CategoryResults(live) /\ categoryRows \in Seq(Keys)
  BY DEF RealmInv, RealmTypeOK, TodoInv, ScreenInv, TypeOK, RowsFollowResults,
         SelectCategory, OnCategories
<1> DEFINE key == CategoryResults(live)[row]
<1>2. /\ LoadItems(key)
      /\ UNCHANGED <<realmVars, app, categoryRows, relaunches>>
  BY <1>1 DEF SelectCategory
<1>3. key \in live.categories
  <2>1. ToSet(CategoryResults(live)) = live.categories
    BY <1>1, CategoryRowsShow
  <2> QED BY <1>1, <2>1 DEF ToSet
<1> HIDE DEF key
<1>4. live' = live /\ app' = app /\ categoryRows' = categoryRows /\ relaunches' = relaunches
  BY <1>2 DEF realmVars
<1>5. /\ selectedCategory' \in Keys \cup {NoCategory}
      /\ filters' = {} /\ byDate' = FALSE /\ searchText' = NoText
      /\ itemRows' \in Seq(Items)
      /\ (OnItems => itemRows = itemArray)'
      /\ SearchInv'
  BY <1>2, <1>3, <1>4, LoadKeeps
<1>6. TypeOK'
  BY <1>4, <1>5 DEF RealmInv, TodoInv, ScreenInv, TypeOK
<1>7. RowsFollowResults' /\ RaisesOnlyAfterFailedCommit'
  BY <1>1, <1>4, <1>5 DEF RowsFollowResults, RaisesOnlyAfterFailedCommit
<1>8. (selectedCategory \in live.categories \cup {NoCategory})'
  BY <1>2, <1>3, <1>4 DEF LoadItems
<1> QED BY <1>5, <1>6, <1>7, <1>8 DEF ScreenInv

(* On the item screen the rows are those of the selected category. *)
LEMMA ItemScreen ==
    ASSUME TodoInv, OnItems
    PROVE  /\ live \in Stores /\ DatesDiffer(live)
           /\ app = "Running" /\ selectedCategory \in live.categories
           /\ selectedCategory \in Keys /\ selectedCategory # NoCategory
           /\ categoryRows = CategoryResults(live)
           /\ itemRows = ItemResults(live, selectedCategory, filters, byDate)
           /\ itemRows \in Seq(Items)
BY DEF RealmInv, RealmTypeOK, TodoInv, ScreenInv, TypeOK, RowsFollowResults, OnItems,
       itemArray

LEMMA AddItemKeeps ==
    ASSUME TodoInv, RealmInv', (DatesDiffer(live) /\ DatesDiffer(disk))',
           NEW title \in Titles, AddItem(title)
    PROVE  ScreenInv'
<1>1. CASE ~CanWrite
  BY <1>1, RaiseKeeps DEF AddItem, CanWrite, TodoInv
<1>2. CASE CanWrite
  <2> DEFINE new == [title |-> title, dateCreated |-> clock + 1]
  <2>0. /\ live \in Stores /\ selectedCategory \in live.categories
        /\ selectedCategory \in Keys
        /\ app = "Running" /\ categoryRows = CategoryResults(live)
    BY ItemScreen DEF AddItem
  <2>1. /\ live' = WithItem(selectedCategory, new)
        /\ itemRows' = ItemResults(live', selectedCategory, filters, byDate)
        /\ UNCHANGED <<app, selectedCategory, filters, byDate, searchText,
                       categoryRows, relaunches>>
    BY <1>2 DEF AddItem, Write
  <2> HIDE DEF new
  <2>2. live'.categories = live.categories
    BY <2>0, <2>1 DEF WithItem, Stores
  <2>3. live' \in Stores /\ DatesDiffer(live')
    BY DEF RealmInv, RealmTypeOK, DatesDiffer
  <2>4. itemRows' \in Seq(Items)
    BY <2>0, <2>1, <2>3, ItemRowsShow
  <2>5. TypeOK'
    BY <2>1, <2>4 DEF RealmInv, TodoInv, ScreenInv, TypeOK
  <2>6. SearchInv'
    BY <2>1 DEF TodoInv, ScreenInv, SearchInv
  <2>7. categoryRows' = CategoryResults(live')
    BY <2>0, <2>1, <2>2 DEF CategoryResults
  <2>8. RowsFollowResults' /\ RaisesOnlyAfterFailedCommit'
    BY <2>0, <2>1, <2>7 DEF RowsFollowResults, RaisesOnlyAfterFailedCommit, OnItems, itemArray
  <2>9. (selectedCategory \in live.categories \cup {NoCategory})'
    BY <2>0, <2>1, <2>2
  <2> QED BY <2>5, <2>6, <2>8, <2>9 DEF ScreenInv
<1> QED BY <1>1, <1>2

LEMMA DeleteItemKeeps ==
    ASSUME TodoInv, RealmInv', (DatesDiffer(live) /\ DatesDiffer(disk))',
           NEW row \in DOMAIN itemRows, DeleteItem(row)
    PROVE  ScreenInv'
<1>1. /\ live \in Stores /\ DatesDiffer(live)
      /\ app = "Running" /\ selectedCategory \in live.categories
      /\ selectedCategory \in Keys /\ selectedCategory # NoCategory
      /\ categoryRows = CategoryResults(live)
      /\ itemRows = itemArray /\ itemArray \in Seq(Items)
  BY ItemScreen DEF DeleteItem, itemArray
<1>2. row <= Len(itemArray) /\ row \in DOMAIN itemArray
  BY <1>1
<1>3. CASE ~CanWrite
  BY <1>3, RaiseKeeps DEF DeleteItem, CanWrite, TodoInv
<1>4. CASE CanWrite
  <2>1. /\ live' = WithoutItem(selectedCategory, itemArray[row])
        /\ IF Len(ItemResults(live', selectedCategory, filters, byDate))
                = Len(itemRows) - 1
             THEN itemRows' = RemoveAt(itemRows, row) /\ UNCHANGED app
             ELSE app' = "Raised" /\ UNCHANGED itemRows
        /\ UNCHANGED <<selectedCategory, filters, byDate, searchText,
                       categoryRows, relaunches>>
    BY <1>2, <1>4 DEF DeleteItem, Write
  <2>2. /\ live'.categories = live.categories
        /\ live'.items[selectedCategory] = live.items[selectedCategory] \ {itemArray[row]}
    BY <1>1, <2>1 DEF WithoutItem, Stores
  <2>3. live' \in Stores /\ DatesDiffer(live')
    BY DEF RealmInv, RealmTypeOK, DatesDiffer
  <2> DEFINE after == ItemResults(live', selectedCategory, filters, byDate)
  <2>4. after = RemoveAt(itemArray, row) /\ Len(after) = Len(itemArray) - 1
    BY <1>1, <1>2, <2>2, <2>3, ItemRowGoes DEF itemArray
  <2>5. itemRows' = after /\ app' = app
    BY <1>1, <2>1, <2>4
  <2>6. itemRows' \in Seq(Items)
    BY <1>1, <2>3, <2>5, ItemRowsShow
  <2>7. TypeOK'
    BY <2>1, <2>5, <2>6 DEF RealmInv, TodoInv, ScreenInv, TypeOK
  <2>8. SearchInv'
    BY <2>1 DEF TodoInv, ScreenInv, SearchInv
  <2>9. categoryRows' = CategoryResults(live')
    BY <1>1, <2>1, <2>2 DEF CategoryResults
  <2>10. RowsFollowResults' /\ RaisesOnlyAfterFailedCommit'
    BY <1>1, <2>1, <2>5, <2>9
       DEF RowsFollowResults, RaisesOnlyAfterFailedCommit, OnItems, itemArray
  <2>11. (selectedCategory \in live.categories \cup {NoCategory})'
    BY <1>1, <2>1, <2>2
  <2> QED BY <2>7, <2>8, <2>10, <2>11 DEF ScreenInv
<1> QED BY <1>3, <1>4

LEMMA SearchKeeps ==
    ASSUME TodoInv, RealmInv', (DatesDiffer(live) /\ DatesDiffer(disk))',
           NEW text \in Texts, Search(text)
    PROVE  ScreenInv'
<1>1. /\ live \in Stores /\ DatesDiffer(live)
      /\ app = "Running" /\ selectedCategory \in live.categories
      /\ selectedCategory \in Keys
      /\ categoryRows = CategoryResults(live)
  BY ItemScreen DEF Search
<1>2. /\ searchText' = text /\ filters' = filters \cup {text} /\ byDate' = TRUE
      /\ itemRows' = ItemResults(live, selectedCategory, filters', byDate')
      /\ UNCHANGED <<app, selectedCategory, categoryRows, relaunches>> /\ live' = live
  BY DEF Search, realmVars
<1>3. itemRows' \in Seq(Items)
  BY <1>1, <1>2, ItemRowsShow
<1>4. TypeOK'
  BY <1>2, <1>3 DEF RealmInv, TodoInv, ScreenInv, TypeOK
<1>5. SearchInv'
  BY <1>2, TodoeyAssumption DEF SearchInv
<1>6. RowsFollowResults' /\ RaisesOnlyAfterFailedCommit'
  BY <1>1, <1>2 DEF RowsFollowResults, RaisesOnlyAfterFailedCommit, OnItems, itemArray
<1> QED BY <1>1, <1>2, <1>4, <1>5, <1>6 DEF ScreenInv

(* The emptied search bar and the way back both load a screen afresh. *)
LEMMA LoadScreenKeeps ==
    ASSUME TodoInv, RealmInv', (DatesDiffer(live) /\ DatesDiffer(disk))',
           EmptySearch \/ Back
    PROVE  ScreenInv'
<1>1. /\ app = "Running" /\ selectedCategory \in live.categories
      /\ categoryRows = CategoryResults(live)
  BY ItemScreen DEF EmptySearch, Back
<1>2. PICK category \in live.categories \cup {NoCategory} :
        /\ LoadItems(category)
        /\ UNCHANGED <<realmVars, app, categoryRows, relaunches>>
  BY <1>1 DEF EmptySearch, Back
<1>3. live' = live /\ app' = app /\ categoryRows' = categoryRows /\ relaunches' = relaunches
  BY <1>2 DEF realmVars
<1>4. /\ selectedCategory' \in Keys \cup {NoCategory}
      /\ filters' = {} /\ byDate' = FALSE /\ searchText' = NoText
      /\ itemRows' \in Seq(Items)
      /\ (OnItems => itemRows = itemArray)'
      /\ SearchInv'
  BY <1>2, <1>3, LoadKeeps
<1>5. TypeOK'
  BY <1>3, <1>4 DEF RealmInv, TodoInv, ScreenInv, TypeOK
<1>6. RowsFollowResults' /\ RaisesOnlyAfterFailedCommit'
  BY <1>1, <1>3, <1>4 DEF RowsFollowResults, RaisesOnlyAfterFailedCommit
<1>7. (selectedCategory \in live.categories \cup {NoCategory})'
  BY <1>2, <1>3 DEF LoadItems
<1> QED BY <1>4, <1>5, <1>6, <1>7 DEF ScreenInv

LEMMA KillKeeps ==
    ASSUME TodoInv, RealmInv', (DatesDiffer(live) /\ DatesDiffer(disk))', Kill
    PROVE  ScreenInv'
<1>1. app' = "Killed" /\ live' = live
      /\ UNCHANGED <<selectedCategory, filters, byDate, searchText, itemRows,
                     categoryRows, relaunches>>
  BY DEF Kill, realmVars, itemVars
<1>2. TypeOK'
  BY <1>1 DEF RealmInv, TodoInv, ScreenInv, TypeOK
<1>3. SearchInv' /\ RowsFollowResults' /\ RaisesOnlyAfterFailedCommit'
  BY <1>1 DEF TodoInv, ScreenInv, SearchInv, RowsFollowResults, RaisesOnlyAfterFailedCommit
<1> QED BY <1>1, <1>2, <1>3 DEF TodoInv, ScreenInv

LEMMA RelaunchKeeps ==
    ASSUME TodoInv, RealmInv', (DatesDiffer(live) /\ DatesDiffer(disk))', Relaunch
    PROVE  ScreenInv'
<1>1. /\ app' = "Running" /\ relaunches' = relaunches + 1 /\ relaunches < MaxRelaunches
      /\ categoryRows' = CategoryResults(live')
      /\ selectedCategory' = NoCategory /\ filters' = {} /\ byDate' = FALSE
      /\ searchText' = NoText /\ itemRows' = <<>>
  BY DEF Relaunch, LoadItems
<1>2. categoryRows' \in Seq(Keys)
  BY <1>1, CategoryRowsShow DEF RealmInv, RealmTypeOK
<1>3. relaunches' \in 0..MaxRelaunches
  BY <1>1, TodoeyAssumption DEF TodoInv, ScreenInv, TypeOK
<1>4. TypeOK'
  <2>1. itemRows' \in Seq(Items) /\ filters' \subseteq Texts
    BY <1>1
  <2> QED BY <1>1, <1>2, <1>3, <2>1 DEF RealmInv, TypeOK
<1>5. SearchInv' /\ RowsFollowResults' /\ RaisesOnlyAfterFailedCommit'
  BY <1>1 DEF SearchInv, RowsFollowResults, RaisesOnlyAfterFailedCommit, OnItems
<1> QED BY <1>1, <1>4, <1>5 DEF ScreenInv

LEMMA TodoInvHolds == ASSUME TodoInv, [Next]_vars PROVE TodoInv'
<1>1. RealmInv' /\ (DatesDiffer(live) /\ DatesDiffer(disk))'
  BY StepsOfTheRealm, RealmInvHolds, DatesStay DEF TodoInv, ScreenInv
<1>2. CASE UNCHANGED vars
  <2>1. TypeOK'
    BY <1>1, <1>2 DEF vars, itemVars, RealmInv, TodoInv, ScreenInv, TypeOK
  <2>2. SearchInv' /\ RowsFollowResults' /\ RaisesOnlyAfterFailedCommit'
    BY <1>2 DEF vars, itemVars, realmVars, TodoInv, ScreenInv, SearchInv, RowsFollowResults,
                RaisesOnlyAfterFailedCommit, OnItems, itemArray
  <2>3. (selectedCategory \in live.categories \cup {NoCategory})'
    BY <1>2 DEF vars, itemVars, realmVars, TodoInv, ScreenInv
  <2> QED BY <1>1, <2>1, <2>2, <2>3 DEF TodoInv, ScreenInv
<1>3. CASE Next
  <2>1. ScreenInv'
    BY <1>1, <1>3, AddCategoryKeeps, DeleteCategoryKeeps, SelectCategoryKeeps, AddItemKeeps,
       DeleteItemKeeps, SearchKeeps, LoadScreenKeeps, KillKeeps, RelaunchKeeps DEF Next
  <2> QED BY <1>1, <2>1 DEF TodoInv
<1> QED BY <1>2, <1>3

LEMMA TodoInvAlways == Spec => []TodoInv
<1>1. Init => TodoInv
  BY RealmInvStarts, ScreenInvStarts DEF TodoInv
<1>2. TodoInv /\ [Next]_vars => TodoInv'
  BY TodoInvHolds
<1> QED BY <1>1, <1>2, PTL DEF Spec

(* Both stores, tables, the search bar and the navigation keep their types. *)
THEOREM TodoeyTypeCorrect == Spec => []TypeOK
<1>1. TodoInv => TypeOK
  BY DEF TodoInv, ScreenInv
<1> QED BY <1>1, TodoInvAlways, PTL

(* After every handler each table holds the rows of its Results, for any number
   of objects: a swipe deletes the object it was made on
   (CategoryViewController.swift:73-84, ItemsCategory.swift:110-121). *)
THEOREM RowsAreResults == Spec => []RowsFollowResults
<1>1. TodoInv => RowsFollowResults
  BY DEF TodoInv, ScreenInv
<1> QED BY <1>1, TodoInvAlways, PTL

(* deleteRows always finds one row gone, and an index always its object: only a
   write over an open transaction raises. *)
THEOREM OnlyOpenWritesRaise == Spec => []RaisesOnlyAfterFailedCommit
<1>1. TodoInv => RaisesOnlyAfterFailedCommit
  BY DEF TodoInv, ScreenInv
<1> QED BY <1>1, TodoInvAlways, PTL

(* While no commit has failed, a new process would find what the tables show. *)
THEOREM TablesAreSaved == Spec => []ShownIsSaved
<1>1. TodoInv => ShownIsSaved
  <2> SUFFICES ASSUME TodoInv, app = "Running", ~open
               PROVE  /\ ToSet(categoryRows) = disk.categories
                      /\ OnItems =>
                           /\ selectedCategory \in disk.categories
                           /\ ToSet(itemRows) \subseteq disk.items[selectedCategory]
                           /\ searchText = NoText =>
                                ToSet(itemRows) = disk.items[selectedCategory]
    BY DEF ShownIsSaved
  <2>1. live = disk /\ live \in Stores
    BY DEF TodoInv, RealmInv, RealmTypeOK
  <2>2. ToSet(categoryRows) = disk.categories
    BY <2>1, CategoryRowsShow DEF TodoInv, ScreenInv, RowsFollowResults
  <2>3. ASSUME OnItems
        PROVE  /\ selectedCategory \in disk.categories
               /\ ToSet(itemRows) \subseteq disk.items[selectedCategory]
               /\ searchText = NoText => ToSet(itemRows) = disk.items[selectedCategory]
    <3>1. ToSet(itemRows) = Matching(live, selectedCategory, filters)
      BY <2>3, ItemScreen, ItemRowsShow
    <3>2. searchText = NoText => filters = {}
      BY DEF TodoInv, ScreenInv, SearchInv
    <3> QED BY <2>1, <2>3, <3>1, <3>2, ItemScreen DEF Matching
  <2> QED BY <2>2, <2>3
<1> QED BY <1>1, TodoInvAlways, PTL

(* Every row shown while something is typed contains it: searches only ever
   add to the texts the Results are filtered by (ItemsCategory.swift:150-153). *)
THEOREM SearchShowsMatches == Spec => []SearchIsSound
<1>1. TodoInv => SearchIsSound
  <2> SUFFICES ASSUME TodoInv, OnItems, searchText # NoText, NEW i \in ToSet(itemRows)
               PROVE  searchText \in TextsIn[i.title]
    BY DEF SearchIsSound
  <2>1. ToSet(itemRows) = Matching(live, selectedCategory, filters)
    BY ItemScreen, ItemRowsShow
  <2>2. searchText \in filters
    BY DEF TodoInv, ScreenInv, SearchInv
  <2> QED BY <2>1, <2>2 DEF Matching
<1> QED BY <1>1, TodoInvAlways, PTL

(* The step of TypingOnlyNarrows. *)
Narrows ==
  app' = "Running" /\ selectedCategory' = selectedCategory
    /\ clock' = clock /\ searchText' # NoText
       => ToSet(itemRows') \subseteq ToSet(itemRows)

LEMMA DeletingNarrows ==
    ASSUME TodoInv, TodoInv', NEW row \in DOMAIN itemRows, DeleteItem(row)
    PROVE  Narrows
<1> SUFFICES ASSUME app' = "Running", selectedCategory' = selectedCategory
             PROVE  ToSet(itemRows') \subseteq ToSet(itemRows)
  BY DEF Narrows
<1>1. /\ live \in Stores /\ DatesDiffer(live)
      /\ selectedCategory \in Keys
      /\ itemRows = ItemResults(live, selectedCategory, filters, byDate)
  BY ItemScreen DEF DeleteItem
<1>2. OnItems'
  BY DEF DeleteItem, OnItems
<1>3. /\ live' \in Stores /\ DatesDiffer(live')
      /\ itemRows' = ItemResults(live', selectedCategory, filters', byDate')
  BY <1>2 DEF TodoInv, RealmInv, RealmTypeOK, ScreenInv, RowsFollowResults, itemArray,
              DatesDiffer, OnItems
<1>4. \/ live' = WithoutItem(selectedCategory, itemArray[row]) /\ filters' = filters
      \/ app' = "Raised"
  BY DEF DeleteItem, Write, Raise
<1>5. live' = WithoutItem(selectedCategory, itemArray[row]) /\ filters' = filters
  BY <1>4
<1>6. live'.items[selectedCategory] \subseteq live.items[selectedCategory]
  BY <1>1, <1>5 DEF WithoutItem, Stores
<1>7. ToSet(itemRows) = Matching(live, selectedCategory, filters)
  BY <1>1, ItemRowsShow
<1>8. ToSet(itemRows') = Matching(live', selectedCategory, filters')
  BY <1>1, <1>3, ItemRowsShow
<1> QED BY <1>5, <1>6, <1>7, <1>8 DEF Matching

LEMMA SearchingNarrows ==
    ASSUME TodoInv, NEW text \in Texts, Search(text)
    PROVE  Narrows
<1>1. /\ live \in Stores /\ DatesDiffer(live)
      /\ selectedCategory \in Keys
      /\ itemRows = ItemResults(live, selectedCategory, filters, byDate)
  BY ItemScreen DEF Search
<1>2. filters' = filters \cup {text}
      /\ itemRows' = ItemResults(live, selectedCategory, filters', byDate')
  BY DEF Search
<1>3. ToSet(itemRows) = Matching(live, selectedCategory, filters)
  BY <1>1, ItemRowsShow
<1>4. ToSet(itemRows') = Matching(live, selectedCategory, filters')
  BY <1>1, <1>2, ItemRowsShow
<1> QED BY <1>2, <1>3, <1>4 DEF Matching, Narrows

LEMMA StepsNarrow == ASSUME TodoInv, TodoInv', [Next]_vars PROVE Narrows
<1>0. clock \in Nat
  BY DEF TodoInv, RealmInv, RealmTypeOK
<1>1. CASE AddCategory
  BY <1>0, <1>1 DEF AddCategory, Raise, Narrows
<1>2. ASSUME NEW row \in DOMAIN categoryRows, DeleteCategory(row) \/ SelectCategory(row)
      PROVE  Narrows
  BY <1>2 DEF DeleteCategory, SelectCategory, LoadItems, Raise, itemVars, Narrows
<1>3. ASSUME NEW title \in Titles, AddItem(title)
      PROVE  Narrows
  BY <1>0, <1>3 DEF AddItem, Raise, Narrows
<1>4. ASSUME NEW row \in DOMAIN itemRows, DeleteItem(row)
      PROVE  Narrows
  BY <1>4, DeletingNarrows
<1>5. ASSUME NEW text \in Texts, Search(text)
      PROVE  Narrows
  BY <1>5, SearchingNarrows
<1>6. CASE EmptySearch \/ Back \/ Relaunch
  BY <1>6 DEF EmptySearch, Back, Relaunch, LoadItems, Narrows
<1>7. CASE Kill
  BY <1>7 DEF Kill, Narrows
<1>8. CASE UNCHANGED vars
  BY <1>8 DEF vars, itemVars, Narrows
<1> QED BY <1>1, <1>2, <1>3, <1>4, <1>5, <1>6, <1>7, <1>8 DEF Next

(* No keystroke but the one that empties the search bar brings a row back: the
   Results are filtered further, never anew (ItemsCategory.swift:150-172). *)
THEOREM TypingNarrows == Spec => TypingOnlyNarrows
<1>1. TodoInv /\ TodoInv' /\ [Next]_vars => [Narrows]_vars
  BY StepsNarrow
<1>2. [Narrows]_vars <=>
        [app' = "Running" /\ selectedCategory' = selectedCategory
           /\ clock' = clock /\ searchText' # NoText
              => ToSet(itemRows') \subseteq ToSet(itemRows)]_vars
  BY DEF Narrows
<1> QED BY <1>1, <1>2, TodoInvAlways, PTL DEF Spec, TypingOnlyNarrows
=============================================================================
