---------------------------- MODULE MenuProofs ------------------------------
(***************************************************************************)
(* Theorems about Menu and MenuJobs, for any sessions, names, sheets and   *)
(* jobs.                                                                   *)
(***************************************************************************)
EXTENDS MenuJobs, SumLemmas

-----------------------------------------------------------------------------
(* Sets, sequences and the places rows go to. *)

\* The elements of a finite set in some order, each once.
LEMMA SetInOrder ==
    ASSUME NEW S, IsFiniteSet(S)
    PROVE  /\ Cardinality(S) \in Nat
           /\ SetToSeq(S) \in [1..Cardinality(S) -> S]
           /\ Len(SetToSeq(S)) = Cardinality(S)
           /\ \A i, j \in 1..Cardinality(S) : SetToSeq(S)[i] = SetToSeq(S)[j] => i = j
           /\ \A x \in S : \E i \in 1..Cardinality(S) : SetToSeq(S)[i] = x
<1> DEFINE n == Cardinality(S)
           q == SetToSeq(S)
<1>1. n \in Nat /\ ExistsBijection(1..n, S)
  BY FS_CardinalityType
<1>2. \E f \in [1..n -> S] : IsInjective(f)
  BY <1>1 DEF ExistsBijection, Bijection, Injection, IsInjective
<1>3. q \in [1..n -> S] /\ IsInjective(q)
  BY <1>2 DEF SetToSeq
<1>4. q \in Injection(1..n, S)
  BY <1>3 DEF Injection, IsInjective
<1>5. q \in Surjection(1..n, S)
  BY <1>1, <1>4, FS_Injection, FS_Interval
<1>6. Len(q) = n
  BY <1>1, <1>3
<1>7. \A i, j \in 1..n : q[i] = q[j] => i = j
  BY <1>3 DEF IsInjective
<1>8. \A x \in S : \E i \in 1..n : q[i] = x
  BY <1>5 DEF Surjection
<1>. QED
  BY <1>1, <1>3, <1>6, <1>7, <1>8

\* The highest row of some, and the lowest.
LEMMA Highmost ==
    ASSUME NEW n \in Nat, NEW S \in SUBSET (1..n)
    PROVE  /\ S = {} => Highest(S) = None
           /\ S # {} => /\ Highest(S) \in S /\ Highest(S) # None
                        /\ \A x \in S : x <= Highest(S)
<1>1. CASE S = {}
  BY <1>1 DEF Highest
<1>2. CASE S # {}
  <2> DEFINE D == {n - x : x \in S}
  <2>0. \A x \in S : x \in Nat /\ n - x \in Nat
    OBVIOUS
  <2>1. D \in SUBSET Nat /\ D # {}
    BY <1>2, <2>0
  <2>2. PICK d \in D : \A e \in D : d <= e
    BY <2>1, LeastNumber
  <2>3. PICK x \in S : d = n - x
    OBVIOUS
  <2>4. \A y \in S : y <= x
    BY <2>2, <2>3
  <2>5. Highest(S) \in S /\ \A y \in S : y <= Highest(S)
    BY <1>2, <2>4 DEF Highest
  <2>. QED
    BY <1>2, <2>5 DEF None
<1>. QED
  BY <1>1, <1>2

LEMMA Lowmost ==
    ASSUME NEW n \in Nat, NEW S \in SUBSET (1..n)
    PROVE  /\ S = {} => Lowest(S) = None
           /\ S # {} => /\ Lowest(S) \in S /\ Lowest(S) # None
                        /\ \A x \in S : Lowest(S) <= x
<1>1. CASE S = {}
  BY <1>1 DEF Lowest
<1>2. CASE S # {}
  <2>1. PICK x \in S : \A y \in S : x <= y
    BY <1>2, LeastNumber, S \subseteq Nat
  <2>2. Lowest(S) \in S /\ \A y \in S : Lowest(S) <= y
    BY <1>2, <2>1 DEF Lowest
  <2>. QED
    BY <1>2, <2>2 DEF None
<1>. QED
  BY <1>1, <1>2

\* What a request inserts is finite.
Dish == [row : Row, home : Categories \cup {None}]

LEMMA RowsAreFinite == IsFiniteSet(Row) /\ IsFiniteSet(Dish)
<1>1. IsFiniteSet(Dishes) /\ IsFiniteSet(Sections)
  BY MenuAssumption
<1>2. IsFiniteSet(Row)
  <2> DEFINE f == [p \in Dishes \X Sections |-> [name |-> p[1], section |-> p[2]]]
  <2>1. f \in Surjection(Dishes \X Sections, Row)
    <3>1. f \in [Dishes \X Sections -> Row]
      BY DEF Row
    <3>2. ASSUME NEW r \in Row PROVE \E p \in Dishes \X Sections : f[p] = r
      <4>1. <<r.name, r.section>> \in Dishes \X Sections
            /\ r = [name |-> r.name, section |-> r.section]
        BY DEF Row
      <4>. QED
        BY <4>1
    <3>. QED
      BY <3>1, <3>2 DEF Surjection
  <2>2. IsFiniteSet(Dishes \X Sections)
    BY <1>1, FS_Product
  <2>. QED
    BY <2>1, <2>2, FS_Surjection
<1>3. IsFiniteSet(Categories \cup {None})
  <2>1. MaxCategories \in Int /\ 1 \in Int
    BY MenuAssumption
  <2>2. IsFiniteSet(1..MaxCategories)
    BY <2>1, FS_Interval
  <2>. QED
    BY <2>2, FS_AddElement DEF Categories
<1>4. IsFiniteSet(Dish)
  <2> DEFINE H == Categories \cup {None}
             f == [p \in Row \X H |-> [row |-> p[1], home |-> p[2]]]
  <2> HIDE DEF H
  <2>1. f \in Surjection(Row \X H, [row : Row, home : H])
    <3>1. f \in [Row \X H -> [row : Row, home : H]]
      OBVIOUS
    <3>2. ASSUME NEW d \in [row : Row, home : H] PROVE \E p \in Row \X H : f[p] = d
      <4>1. <<d.row, d.home>> \in Row \X H
            /\ d = [row |-> d.row, home |-> d.home]
        OBVIOUS
      <4>. QED
        BY <4>1
    <3>. QED
      BY <3>1, <3>2 DEF Surjection
  <2>2. IsFiniteSet(Row \X H)
    BY <1>2, <1>3, FS_Product DEF H
  <2>3. IsFiniteSet([row : Row, home : H])
    BY <2>1, <2>2, FS_Surjection
  <2>. QED
    BY <2>3 DEF Dish, H
<1>. QED
  BY <1>2, <1>4

-----------------------------------------------------------------------------
(* What a commit makes of the menu. *)

\* Rows are numbered from 1 without a gap, and a dish on the card is in a row of
\* categories or in none.
InOrder(m) ==
    /\ \E n \in 0..MaxCategories : Listed(m) = 1..n
    /\ \E n \in 0..MaxItems : OnCard(m) = 1..n
    /\ \A i \in OnCard(m) : m.items[i].category \in Listed(m) \cup {None}

\* A new dish goes to a category that is listed, or to the one of its name.
Housed(m, changes) ==
    \A dish \in changes.dishes : dish.home \in Listed(m) \cup {None}

\* The categories after a commit: the old ones with their names, then the new ones,
\* then nothing.
LEMMA NewCategories ==
    ASSUME NEW m \in Tables, NEW ch \in Changes,
           NEW n \in 0..MaxCategories, Listed(m) = 1..n
    PROVE  LET k == Cardinality(ch.insert)
               b == CategoriesAfter(m, ch)
           IN  /\ k \in Nat
               /\ b \in [Categories -> Category]
               /\ \A c \in Categories : c <= n \/ n + k < c =>
                     /\ b[c].name = m.categories[c].name
                     /\ b[c].odd = m.categories[c].odd
                     /\ b[c].active = ((m.categories[c].active \/ c \in ch.show)
                                       /\ c \notin ch.hide)
               /\ \A c \in Categories : n < c /\ c <= n + k =>
                     /\ b[c].name \in ch.insert /\ b[c].odd = ch.odd
                     /\ b[c].active
               /\ \A c, d \in Categories :
                     n < c /\ c <= n + k /\ n < d /\ d <= n + k /\ b[c].name = b[d].name
                     => c = d
               /\ n + k <= MaxCategories =>
                     \A name \in ch.insert : \E c \in Categories :
                         n < c /\ c <= n + k /\ b[c].name = name
<1> DEFINE k == Cardinality(ch.insert)
           q == SetToSeq(ch.insert)
           b == CategoriesAfter(m, ch)
<1>1. IsFiniteSet(ch.insert) /\ ch.insert \subseteq Sections
  BY MenuAssumption, FS_Subset DEF Changes
<1>2. /\ k \in Nat /\ q \in [1..k -> ch.insert] /\ Len(q) = k
      /\ \A i, j \in 1..k : q[i] = q[j] => i = j
      /\ \A x \in ch.insert : \E i \in 1..k : q[i] = x
  BY <1>1, SetInOrder
<1>3. n \in Nat /\ MaxCategories \in Nat /\ n <= MaxCategories /\ Cardinality(Listed(m)) = n
  BY MenuAssumption, FS_Interval
<1> HIDE DEF k, q
<1>4. b = [c \in Categories |->
              IF c \in (n + 1)..(n + k)
              THEN [name |-> q[c - n], odd |-> ch.odd, active |-> TRUE]
              ELSE [m.categories[c] EXCEPT
                       !.active = (@ \/ c \in ch.show) /\ c \notin ch.hide]]
  BY <1>2, <1>3 DEF CategoriesAfter, q
<1> HIDE DEF b
<1>5. ASSUME NEW c \in Categories, n < c /\ c <= n + k
      PROVE  c - n \in 1..k /\ b[c] = [name |-> q[c - n], odd |-> ch.odd, active |-> TRUE]
  BY <1>2, <1>3, <1>4, <1>5 DEF Categories
<1>6. ASSUME NEW c \in Categories, c <= n \/ n + k < c
      PROVE  b[c] = [m.categories[c] EXCEPT
                        !.active = (@ \/ c \in ch.show) /\ c \notin ch.hide]
  BY <1>2, <1>3, <1>4, <1>6 DEF Categories
<1>7. ASSUME NEW c \in Categories PROVE c \in Nat /\ m.categories[c] \in Category
  <2>1. c \in Nat
    BY <1>3 DEF Categories
  <2>2. m.categories[c] \in Category
    BY DEF Tables
  <2>. QED
    BY <2>1, <2>2
<1>8. b \in [Categories -> Category]
  <2>1. ASSUME NEW c \in Categories PROVE b[c] \in Category
    <3>1. CASE n < c /\ c <= n + k
      <4>1. c - n \in 1..k /\ b[c] = [name |-> q[c - n], odd |-> ch.odd, active |-> TRUE]
        BY <1>5, <3>1
      <4>2. q[c - n] \in Sections /\ ch.odd \in BOOLEAN
        BY <1>1, <1>2, <4>1 DEF Changes
      <4>. QED
        BY <4>1, <4>2 DEF Category
    <3>2. CASE c <= n \/ n + k < c
      BY <1>6, <1>7, <3>2 DEF Category
    <3>. QED
      BY <1>2, <1>3, <1>7, <3>1, <3>2
  <2>. QED
    BY <1>4, <2>1
<1>9. ASSUME NEW c \in Categories, c <= n \/ n + k < c
      PROVE  /\ b[c].name = m.categories[c].name
             /\ b[c].odd = m.categories[c].odd
             /\ b[c].active = ((m.categories[c].active \/ c \in ch.show)
                               /\ c \notin ch.hide)
  BY <1>6, <1>7, <1>9 DEF Category
<1>10. ASSUME NEW c \in Categories, n < c /\ c <= n + k
       PROVE  b[c].name \in ch.insert /\ b[c].odd = ch.odd /\ b[c].active
  <2>1. c - n \in 1..k /\ b[c] = [name |-> q[c - n], odd |-> ch.odd, active |-> TRUE]
    BY <1>5, <1>10
  <2>. QED
    BY <1>2, <2>1
<1>11. ASSUME NEW c \in Categories, NEW d \in Categories,
              n < c /\ c <= n + k, n < d /\ d <= n + k, b[c].name = b[d].name
       PROVE  c = d
  <2>1. c - n \in 1..k /\ b[c] = [name |-> q[c - n], odd |-> ch.odd, active |-> TRUE]
    BY <1>5, <1>11
  <2>2. d - n \in 1..k /\ b[d] = [name |-> q[d - n], odd |-> ch.odd, active |-> TRUE]
    BY <1>5, <1>11
  <2>3. q[c - n] = q[d - n]
    BY <1>11, <2>1, <2>2
  <2>4. c - n = d - n
    BY <1>2, <2>1, <2>2, <2>3
  <2>. QED
    BY <1>3, <1>7, <2>4
<1>12. ASSUME n + k <= MaxCategories, NEW name \in ch.insert
       PROVE  \E c \in Categories : n < c /\ c <= n + k /\ b[c].name = name
  <2>1. PICK i \in 1..k : q[i] = name
    BY <1>2
  <2>2. n + i \in Categories /\ n < n + i /\ n + i <= n + k /\ (n + i) - n = i
    BY <1>2, <1>3, <1>12 DEF Categories
  <2>3. b[n + i] = [name |-> q[(n + i) - n], odd |-> ch.odd, active |-> TRUE]
    BY <1>5, <2>2
  <2>. QED
    BY <2>1, <2>2, <2>3
<1>. QED
  BY <1>2, <1>8, <1>9, <1>10, <1>11, <1>12 DEF k, b

\* The rows of categories that are taken after a commit.
LEMMA ListedAfter ==
    ASSUME NEW m \in Tables, NEW ch \in Changes,
           NEW n \in 0..MaxCategories, Listed(m) = 1..n
    PROVE  LET k == Cardinality(ch.insert)
               b == CategoriesAfter(m, ch)
           IN  \A c \in Categories : b[c].name # Blank <=> c <= n + k
<1> DEFINE k == Cardinality(ch.insert)
           b == CategoriesAfter(m, ch)
<1>1. /\ k \in Nat
      /\ \A c \in Categories : c <= n \/ n + k < c => b[c].name = m.categories[c].name
      /\ \A c \in Categories : n < c /\ c <= n + k => b[c].name \in ch.insert
  BY NewCategories
<1>2. n \in Nat /\ \A c \in Categories : c \in Nat /\ c >= 1
  BY MenuAssumption DEF Categories
<1>3. ch.insert \subseteq Sections /\ Blank \notin Sections
  BY MenuAssumption DEF Changes
<1>4. \A c \in Categories : m.categories[c].name # Blank <=> c <= n
  BY <1>2 DEF Listed
<1> HIDE DEF k, b
<1>5. ASSUME NEW c \in Categories PROVE b[c].name # Blank <=> c <= n + k
  <2>1. CASE c <= n
    BY <1>1, <1>2, <1>4, <2>1
  <2>2. CASE n < c /\ c <= n + k
    BY <1>1, <1>2, <1>3, <2>2
  <2>3. CASE n + k < c
    BY <1>1, <1>2, <1>4, <2>3
  <2>. QED
    BY <1>1, <1>2, <2>1, <2>2, <2>3
<1>. QED
  BY <1>5 DEF k, b

\* A dish without a home of its own goes to a category of its section, if there is one.
LEMMA HomeIsListed ==
    ASSUME NEW m \in Tables, NEW ch \in Changes, NEW dish \in ch.dishes,
           NEW n \in 0..MaxCategories, Listed(m) = 1..n, Housed(m, ch)
    PROVE  LET b == CategoriesAfter(m, ch)
               h == Home(b, dish)
           IN  /\ dish.home # None => h = dish.home /\ h \in Listed(m)
               /\ dish.home = None =>
                     \/ h \in Categories /\ b[h].name = dish.row.section
                        /\ h # None /\ b[h].name # Blank
                     \/ h = None /\ \A c \in Categories : b[c].name # dish.row.section
<1> DEFINE b == CategoriesAfter(m, ch)
           h == Home(b, dish)
           S == {c \in Categories : b[c].name = dish.row.section}
<1>1. dish \in Dish
  BY DEF Changes, Dish
<1>2. dish.row.section \in Sections /\ dish.row.section # Blank
  BY <1>1, MenuAssumption DEF Dish, Row
<1>3. S \in SUBSET (1..MaxCategories) /\ MaxCategories \in Nat
  BY MenuAssumption DEF Categories
<1>4. dish.home \in Listed(m) \cup {None}
  BY DEF Housed
<1>5. CASE dish.home # None
  BY <1>4, <1>5 DEF Home
<1>6. CASE dish.home = None
  <2>1. h = Highest(S)
    BY <1>6 DEF Home
  <2> HIDE DEF h, b
  <2>2. CASE S = {}
    <3>1. h = None
      <4> HIDE DEF S
      <4>. QED
        BY <1>3, <2>1, <2>2, Highmost
    <3>. QED
      BY <1>6, <2>2, <3>1 DEF h, b
  <2>3. CASE S # {}
    <3>1. h \in S /\ h # None
      <4> HIDE DEF S
      <4>. QED
        BY <1>3, <2>1, <2>3, Highmost
    <3>. QED
      BY <1>2, <1>6, <3>1 DEF h, b
  <2>. QED
    BY <2>2, <2>3
<1>. QED
  BY <1>5, <1>6

\* The dishes after a commit: the old ones with their names, then the new ones.
LEMMA NewItems ==
    ASSUME NEW m \in Tables, NEW ch \in Changes, InOrder(m), Housed(m, ch),
           NEW n \in 0..MaxItems, OnCard(m) = 1..n
    PROVE  LET k == Cardinality(ch.dishes)
               b == ItemsAfter(m, ch)
               cats == CategoriesAfter(m, ch)
           IN  /\ k \in Nat
               /\ b \in [Items -> Item]
               /\ \A i \in Items : i <= n \/ n + k < i =>
                     /\ b[i].name = m.items[i].name
                     /\ b[i].category = m.items[i].category
                     /\ b[i].available = ((m.items[i].available \/ i \in ch.offer)
                                          /\ i \notin ch.withdraw)
               /\ \A i \in Items : n < i /\ i <= n + k =>
                     \E dish \in ch.dishes :
                         b[i] = [category |-> Home(cats, dish),
                                 name |-> dish.row.name, available |-> TRUE]
               /\ n + k <= MaxItems =>
                     \A dish \in ch.dishes : \E i \in Items :
                         n < i /\ i <= n + k /\
                         b[i] = [category |-> Home(cats, dish),
                                 name |-> dish.row.name, available |-> TRUE]
<1> DEFINE k == Cardinality(ch.dishes)
           q == SetToSeq(ch.dishes)
           b == ItemsAfter(m, ch)
           cats == CategoriesAfter(m, ch)
           Made(dish) == [category |-> Home(cats, dish),
                          name |-> dish.row.name, available |-> TRUE]
<1>1. IsFiniteSet(ch.dishes) /\ ch.dishes \subseteq Dish
  <2>1. ch.dishes \subseteq Dish
    BY DEF Changes, Dish
  <2>. QED
    BY <2>1, RowsAreFinite, FS_Subset
<1>2. /\ k \in Nat /\ q \in [1..k -> ch.dishes] /\ Len(q) = k
      /\ \A x \in ch.dishes : \E i \in 1..k : q[i] = x
  BY <1>1, SetInOrder
<1>3. n \in Nat /\ MaxItems \in Nat /\ n <= MaxItems /\ Cardinality(OnCard(m)) = n
  <2>1. n \in Nat /\ MaxItems \in Nat /\ n <= MaxItems
    BY MenuAssumption
  <2>2. Cardinality(1..n) = n
    BY <2>1, FS_Interval
  <2>. QED
    BY <2>1, <2>2
<1>4. ASSUME NEW dish \in ch.dishes PROVE Made(dish) \in Item
  <2>1. PICK l \in 0..MaxCategories : Listed(m) = 1..l
    BY DEF InOrder
  <2>2. Home(cats, dish) \in Categories \cup {None}
    BY <2>1, HomeIsListed DEF Listed
  <2>3. dish.row.name \in Dishes
    BY <1>1 DEF Dish, Row
  <2>. QED
    BY <2>2, <2>3 DEF Item
<1> HIDE DEF k, q
<1>5. b = [i \in Items |->
              IF i \in (n + 1)..(n + k) THEN Made(q[i - n])
              ELSE [m.items[i] EXCEPT
                       !.available = (@ \/ i \in ch.offer) /\ i \notin ch.withdraw]]
  BY <1>2, <1>3 DEF ItemsAfter, q
<1> HIDE DEF b, Made
<1>6. ASSUME NEW i \in Items PROVE i \in Nat /\ m.items[i] \in Item
  <2>1. i \in Nat
    BY <1>3 DEF Items
  <2>2. m.items[i] \in Item
    BY DEF Tables
  <2>. QED
    BY <2>1, <2>2
<1>7. ASSUME NEW i \in Items, n < i /\ i <= n + k
      PROVE  i - n \in 1..k /\ b[i] = Made(q[i - n]) /\ q[i - n] \in ch.dishes
  <2>1. i - n \in 1..k /\ i \in (n + 1)..(n + k)
    BY <1>2, <1>3, <1>6, <1>7
  <2>2. b[i] = Made(q[i - n])
    BY <1>5, <2>1
  <2>. QED
    BY <1>2, <2>1, <2>2
<1>8. ASSUME NEW i \in Items, i <= n \/ n + k < i
      PROVE  b[i] = [m.items[i] EXCEPT
                        !.available = (@ \/ i \in ch.offer) /\ i \notin ch.withdraw]
  <2>1. i \notin (n + 1)..(n + k)
    BY <1>2, <1>3, <1>6, <1>8
  <2>. QED
    BY <1>5, <2>1
<1>9. b \in [Items -> Item]
  <2>1. ASSUME NEW i \in Items PROVE b[i] \in Item
    <3>1. CASE n < i /\ i <= n + k
      BY <1>4, <1>7, <3>1
    <3>2. CASE i <= n \/ n + k < i
      BY <1>6, <1>8, <3>2 DEF Item
    <3>. QED
      BY <1>2, <1>3, <1>6, <3>1, <3>2
  <2>. QED
    BY <1>5, <2>1
<1>10. ASSUME NEW i \in Items, i <= n \/ n + k < i
       PROVE  /\ b[i].name = m.items[i].name
              /\ b[i].category = m.items[i].category
              /\ b[i].available = ((m.items[i].available \/ i \in ch.offer)
                                   /\ i \notin ch.withdraw)
  BY <1>6, <1>8, <1>10 DEF Item
<1>11. ASSUME NEW i \in Items, n < i /\ i <= n + k
       PROVE  \E dish \in ch.dishes : b[i] = Made(dish)
  BY <1>7, <1>11
<1>12. ASSUME n + k <= MaxItems, NEW dish \in ch.dishes
       PROVE  \E i \in Items : n < i /\ i <= n + k /\ b[i] = Made(dish)
  <2>1. PICK j \in 1..k : q[j] = dish
    BY <1>2
  <2>2. n + j \in Items /\ n < n + j /\ n + j <= n + k /\ (n + j) - n = j
    BY <1>2, <1>3, <1>12 DEF Items
  <2>3. b[n + j] = Made(q[(n + j) - n])
    BY <1>7, <2>2
  <2>. QED
    BY <2>1, <2>2, <2>3
<1>. QED
  BY <1>2, <1>9, <1>10, <1>11, <1>12 DEF k, b, Made

\* A commit keeps the tables typed and in order, and takes no category away.
LEMMA CommitInOrder ==
    ASSUME NEW m \in Tables, NEW ch \in Changes, InOrder(m), Housed(m, ch)
    PROVE  /\ Applied(m, ch) \in Tables
           /\ InOrder(Applied(m, ch))
           /\ Listed(m) \subseteq Listed(Applied(m, ch))
<1> DEFINE a == Applied(m, ch)
           cats == CategoriesAfter(m, ch)
           its == ItemsAfter(m, ch)
           kc == Cardinality(ch.insert)
           ki == Cardinality(ch.dishes)
<1>1. a.categories = cats /\ a.items = its
      /\ a.upsells = (m.upsells \ ch.unpair) \cup ch.pair
      /\ a = [categories |-> cats, items |-> its, upsells |-> a.upsells]
  BY DEF Applied
<1>2. PICK n \in 0..MaxCategories : Listed(m) = 1..n
  BY DEF InOrder
<1>3. PICK l \in 0..MaxItems : OnCard(m) = 1..l
  BY DEF InOrder
<1>4. /\ kc \in Nat /\ cats \in [Categories -> Category]
      /\ \A c \in Categories : cats[c].name # Blank <=> c <= n + kc
  BY <1>2, NewCategories, ListedAfter
<1>5. /\ ki \in Nat /\ its \in [Items -> Item]
      /\ \A i \in Items : i <= l \/ l + ki < i =>
            its[i].name = m.items[i].name /\ its[i].category = m.items[i].category
      /\ \A i \in Items : l < i /\ i <= l + ki =>
            \E dish \in ch.dishes :
                its[i] = [category |-> Home(cats, dish),
                          name |-> dish.row.name, available |-> TRUE]
  BY <1>3, NewItems
<1> HIDE DEF a, cats, its, kc, ki
<1>6. /\ n \in Nat /\ l \in Nat /\ MaxCategories \in Nat /\ MaxItems \in Nat
      /\ n <= MaxCategories /\ l <= MaxItems
  BY MenuAssumption
<1>7. a \in Tables
  <2>1. a.upsells \in SUBSET (Items \X Items)
    BY <1>1 DEF Tables, Changes
  <2>. QED
    BY <1>1, <1>4, <1>5, <2>1 DEF Tables
<1>8. Listed(a) = {c \in Categories : c <= n + kc}
  BY <1>1, <1>4 DEF Listed
<1>9. \E p \in 0..MaxCategories : Listed(a) = 1..p
  <2>1. CASE n + kc <= MaxCategories
    <3>1. Listed(a) = 1..(n + kc)
      BY <1>4, <1>6, <1>8, <2>1 DEF Categories
    <3>2. n + kc \in 0..MaxCategories
      BY <1>4, <1>6, <2>1
    <3>. QED
      BY <3>1, <3>2
  <2>2. CASE MaxCategories < n + kc
    <3>1. Listed(a) = 1..MaxCategories
      BY <1>4, <1>6, <1>8, <2>2 DEF Categories
    <3>. QED
      BY <1>6, <3>1
  <2>. QED
    BY <1>4, <1>6, <2>1, <2>2
<1>10. Listed(m) \subseteq Listed(a)
  BY <1>2, <1>4, <1>6, <1>8 DEF Listed, Categories
<1>11. ASSUME NEW i \in Items
       PROVE  /\ its[i].name # Blank <=> i <= l + ki
              /\ its[i].name # Blank => its[i].category \in Listed(a) \cup {None}
  <2>1. i \in Nat /\ i >= 1
    BY <1>6 DEF Items
  <2>2. CASE l < i /\ i <= l + ki
    <3>1. PICK dish \in ch.dishes :
              its[i] = [category |-> Home(cats, dish),
                        name |-> dish.row.name, available |-> TRUE]
      BY <1>5, <2>2
    <3>2. dish.row.name # Blank
      BY MenuAssumption DEF Changes, Row
    <3>3. Home(cats, dish) \in Listed(a) \cup {None}
      <4>1. CASE dish.home # None
        BY <1>2, <1>10, <4>1, HomeIsListed DEF cats
      <4>2. CASE dish.home = None
        <5>1. \/ Home(cats, dish) \in Categories /\ cats[Home(cats, dish)].name # Blank
              \/ Home(cats, dish) = None
          BY <1>2, <4>2, HomeIsListed DEF cats
        <5>. QED
          BY <1>1, <5>1 DEF Listed
      <4>. QED
        BY <4>1, <4>2
    <3>. QED
      BY <2>2, <3>1, <3>2, <3>3
  <2>3. CASE i <= l
    <3>1. i \in OnCard(m)
      BY <1>3, <1>6, <2>1, <2>3
    <3>2. m.items[i].category \in Listed(m) \cup {None} /\ m.items[i].name # Blank
      BY <3>1 DEF InOrder, OnCard
    <3>. QED
      BY <1>5, <1>6, <1>10, <2>1, <2>3, <3>2
  <2>4. CASE l + ki < i
    <3>1. i \notin OnCard(m)
      BY <1>3, <1>5, <1>6, <2>1, <2>4
    <3>2. m.items[i].name = Blank
      BY <3>1 DEF OnCard
    <3>. QED
      BY <1>5, <1>6, <2>1, <2>4, <3>2
  <2>. QED
    BY <1>5, <1>6, <2>1, <2>2, <2>3, <2>4
<1>12. OnCard(a) = {i \in Items : i <= l + ki}
  BY <1>1, <1>11 DEF OnCard
<1>13. \E p \in 0..MaxItems : OnCard(a) = 1..p
  <2>1. CASE l + ki <= MaxItems
    <3>1. OnCard(a) = 1..(l + ki)
      BY <1>5, <1>6, <1>12, <2>1 DEF Items
    <3>. QED
      BY <1>5, <1>6, <2>1, <3>1
  <2>2. CASE MaxItems < l + ki
    <3>1. OnCard(a) = 1..MaxItems
      BY <1>5, <1>6, <1>12, <2>2 DEF Items
    <3>. QED
      BY <1>6, <3>1
  <2>. QED
    BY <1>5, <1>6, <2>1, <2>2
<1>14. \A i \in OnCard(a) : a.items[i].category \in Listed(a) \cup {None}
  BY <1>1, <1>11 DEF OnCard
<1>15. InOrder(a)
  BY <1>9, <1>13, <1>14 DEF InOrder
<1>. QED
  BY <1>7, <1>10, <1>15 DEF a

-----------------------------------------------------------------------------
(* What an import reads. *)

\* The dishes an import takes for one that a row names.
Alike(m, row) ==
    {i \in OnCard(m) : /\ m.items[i].name = row.name
                       /\ m.items[i].category \in {Target(m, row)} \ {None}}

LEMMA TargetIs ==
    ASSUME NEW m \in Tables, NEW row
    PROVE  /\ row.section \in Missing(m) => Target(m, row) = None
           /\ Named(m, row.section) = {} => Target(m, row) = None
           /\ row.section \notin Missing(m) /\ Named(m, row.section) # {} =>
                 /\ Target(m, row) \in Named(m, row.section) /\ Target(m, row) # None
                 /\ \A c \in Named(m, row.section) : c <= Target(m, row)
<1> DEFINE S == Named(m, row.section)
<1>1. S \in SUBSET (1..MaxCategories) /\ MaxCategories \in Nat
  BY MenuAssumption DEF Named, Listed, Categories
<1>2. Target(m, row) = IF row.section \in Missing(m) THEN None ELSE Highest(S)
  BY DEF Target
<1> HIDE DEF S
<1>3. /\ S = {} => Highest(S) = None
      /\ S # {} => /\ Highest(S) \in S /\ Highest(S) # None
                   /\ \A c \in S : c <= Highest(S)
  BY <1>1, Highmost
<1>. QED
  BY <1>2, <1>3 DEF S

LEMMA MatchIs ==
    ASSUME NEW m \in Tables, NEW row
    PROVE  /\ Alike(m, row) = {} => Match(m, row) = None
           /\ Alike(m, row) # {} =>
                 /\ Match(m, row) \in Alike(m, row) /\ Match(m, row) # None
                 /\ \A i \in Alike(m, row) : Match(m, row) <= i
<1> DEFINE S == Alike(m, row)
<1>1. S \in SUBSET (1..MaxItems) /\ MaxItems \in Nat
  BY MenuAssumption DEF Alike, OnCard, Items
<1>2. Match(m, row) = Lowest(S)
  BY DEF Match, Alike
<1> HIDE DEF S
<1>3. /\ S = {} => Match(m, row) = None
      /\ S # {} => Match(m, row) \in S /\ Match(m, row) # None
                   /\ \A i \in S : Match(m, row) <= i
  <2> DEFINE M == Match(m, row)
  <2> HIDE DEF M
  <2>1. M = Lowest(S)
    BY <1>2 DEF M
  <2>2. CASE S = {}
    BY <1>1, <2>1, <2>2, Lowmost DEF M
  <2>3. CASE S # {}
    <3>1. Lowest(S) \in S /\ Lowest(S) # None /\ \A x \in S : Lowest(S) <= x
      BY <1>1, <2>3, Lowmost
    <3>. QED
      BY <2>1, <2>3, <3>1 DEF M
  <2>. QED
    BY <2>2, <2>3
<1>. QED
  BY <1>3 DEF S

\* What a sheet turns into.
LEMMA SheetsAreRows ==
    ASSUME NEW sheet \in Sheets
    PROVE  Parsed(sheet) \subseteq Row /\ Approved(sheet) \subseteq Row
<1>1. sheet.rows \in Seq(Cell) /\ {Fallback, ScanFallback} \subseteq Sections
  BY MenuAssumption
<1>2. \A i \in DOMAIN sheet.rows : sheet.rows[i] \in Cell
  BY <1>1
<1>3. Parsed(sheet) \subseteq Row
  <2> DEFINE R(i) == [name |-> sheet.rows[i].name,
                      section |-> Resolved(sheet.rows[i].section)]
  <2>1. ASSUME NEW i \in DOMAIN sheet.rows, sheet.rows[i].name # Blank
        PROVE  R(i) \in Row
    <3>1. sheet.rows[i].name \in Dishes /\ sheet.rows[i].section \in Sections \cup {Blank}
      BY <1>2, <2>1 DEF Cell
    <3>2. Resolved(sheet.rows[i].section) \in Sections
      BY <1>1, <3>1 DEF Resolved
    <3>. QED
      BY <3>1, <3>2 DEF Row
  <2>. QED
    BY <2>1 DEF Parsed
<1>4. Approved(sheet) \subseteq Row
  <2>1. ASSUME NEW cell \in Cell, cell.name # Blank
        PROVE  [name |-> cell.name,
                section |-> IF cell.section = Blank THEN ScanFallback ELSE cell.section]
                  \in Row
    BY <1>1, <2>1 DEF Cell, Row
  <2>2. Range(sheet.rows) \subseteq Cell
    BY <1>2 DEF Range
  <2>. QED
    BY <2>1, <2>2 DEF Approved
<1>. QED
  BY <1>3, <1>4

\* The names a request inserts are not on the menu it read, in that spelling.
NewNames(m, changes) ==
    \A name \in changes.insert : \A c \in Named(m, name) :
        m.categories[c].odd # changes.odd

LEMMA ImportReads ==
    ASSUME NEW m \in Tables, NEW rows \in SUBSET Row
    PROVE  /\ Import(m, rows) \in Changes
           /\ Housed(m, Import(m, rows))
           /\ NewNames(m, Import(m, rows)) /\ Import(m, rows).odd = FALSE
<1> DEFINE ch == Import(m, rows)
           fresh == {row \in rows : Match(m, row) = None}
           matched == {Match(m, row) : row \in rows \ fresh}
<1> DEFINE new == Missing(m) \cup
                       {row.section : row \in {r \in rows : Target(m, r) = None}}
           back == {i \in matched : ~m.items[i].available}
           dishes == {[row |-> row, home |-> Target(m, row)] : row \in fresh}
<1>0. ch = [NoChange EXCEPT !.insert = new, !.show = Revived(m, rows),
                            !.offer = back, !.dishes = dishes]
  BY DEF Import
<1> HIDE DEF new, back, dishes
<1> HIDE DEF ch, fresh, matched
<1>1. /\ ch.insert = new /\ ch.show = Revived(m, rows)
      /\ ch.offer = back /\ ch.dishes = dishes
      /\ ch.hide = {} /\ ch.withdraw = {} /\ ch.unpair = {} /\ ch.pair = {}
      /\ ch.odd = FALSE
      /\ ch = [insert |-> ch.insert, odd |-> ch.odd, show |-> ch.show, hide |-> ch.hide,
               offer |-> ch.offer, withdraw |-> ch.withdraw, dishes |-> ch.dishes,
               unpair |-> ch.unpair, pair |-> ch.pair]
  BY <1>0 DEF NoChange
<1>2. \A row \in rows : row \in Row /\ row.section \in Sections
  BY DEF Row
<1>3. ASSUME NEW row \in rows
      PROVE  /\ Target(m, row) \in Listed(m) \cup {None}
             /\ Target(m, row) = None =>
                   row.section \in Missing(m) \/ Named(m, row.section) = {}
  BY TargetIs DEF Named
<1>4. Listed(m) \subseteq Categories
  BY DEF Listed
<1>5. ch.insert \in SUBSET Sections
  BY <1>1, <1>2, MenuAssumption DEF Missing, new
<1>6. ch.show \in SUBSET Categories
  <2>1. ASSUME NEW row \in rows PROVE {Target(m, row)} \ {None} \subseteq Categories
    BY <1>3, <1>4
  <2>. QED
    BY <1>1, <2>1 DEF Revived
<1>7. ch.offer \in SUBSET Items
  <2>1. ASSUME NEW row \in rows \ fresh PROVE Match(m, row) \in Items
    BY MatchIs DEF Alike, OnCard, fresh
  <2>. QED
    BY <1>1, <2>1 DEF matched, back
<1>8. ch.dishes \in SUBSET [row : Row, home : Categories \cup {None}]
  BY <1>1, <1>2, <1>3, <1>4 DEF fresh, dishes
<1>9. Housed(m, ch)
  BY <1>1, <1>3 DEF Housed, dishes, fresh
<1>10. NewNames(m, ch)
  <2>1. \A name \in Missing(m) : \A c \in Named(m, name) : m.categories[c].odd
    BY DEF Missing
  <2>2. \A name \in ch.insert : name \in Missing(m) \/ Named(m, name) = {}
    BY <1>1, <1>3 DEF new
  <2>. QED
    BY <1>1, <2>1, <2>2 DEF NewNames
<1>11. ch \in Changes
  <2>1. ch.hide \in SUBSET Categories /\ ch.withdraw \in SUBSET Items
        /\ ch.unpair \in SUBSET (Items \X Items) /\ ch.pair \in SUBSET (Items \X Items)
    BY <1>1
  <2>2. \E i, e, sh, h, o, w, d, u, p :
           /\ i \in SUBSET Sections /\ e \in BOOLEAN /\ sh \in SUBSET Categories /\ h \in SUBSET Categories
           /\ o \in SUBSET Items /\ w \in SUBSET Items
           /\ d \in SUBSET [row : Row, home : Categories \cup {None}]
           /\ u \in SUBSET (Items \X Items) /\ p \in SUBSET (Items \X Items)
           /\ ch = [insert |-> i, odd |-> e, show |-> sh, hide |-> h, offer |-> o, withdraw |-> w,
                    dishes |-> d, unpair |-> u, pair |-> p]
    BY <1>1, <1>5, <1>6, <1>7, <1>8, <2>1
  <2>. QED
    BY <2>2 DEF Changes
<1>. QED
  BY <1>1, <1>9, <1>10, <1>11 DEF ch

-----------------------------------------------------------------------------
(* What an import leaves. *)

\* A row of a sheet has a shown category and an offered dish.
Settled(m, row) ==
    LET c == Target(m, row)
    IN  /\ c \in Named(m, row.section) /\ c # None /\ m.categories[c].active
        /\ Alike(m, row) # {} /\ m.items[Match(m, row)].available

\* What an import writes.
LEMMA ImportWrites ==
    ASSUME NEW m \in Tables, NEW rows \in SUBSET Row
    PROVE  LET ch == Import(m, rows)
           IN  /\ Missing(m) \subseteq ch.insert
               /\ ch.hide = {} /\ ch.withdraw = {}
               /\ \A row \in rows :
                     /\ Target(m, row) = None <=> row.section \in ch.insert
                     /\ Target(m, row) # None =>
                           m.categories[Target(m, row)].active \/ Target(m, row) \in ch.show
                     /\ Match(m, row) = None =>
                           [row |-> row, home |-> Target(m, row)] \in ch.dishes
                     /\ Match(m, row) # None =>
                           m.items[Match(m, row)].available \/ Match(m, row) \in ch.offer
<1> DEFINE ch == Import(m, rows)
           fresh == {row \in rows : Match(m, row) = None}
           matched == {Match(m, row) : row \in rows \ fresh}
           new == Missing(m) \cup
                      {row.section : row \in {r \in rows : Target(m, r) = None}}
           back == {i \in matched : ~m.items[i].available}
           dishes == {[row |-> row, home |-> Target(m, row)] : row \in fresh}
<1>1. ch = [NoChange EXCEPT !.insert = new, !.show = Revived(m, rows),
                            !.offer = back, !.dishes = dishes]
  BY DEF Import
<1> HIDE DEF ch, new, back, dishes
<1>2. /\ ch.insert = new /\ ch.show = Revived(m, rows) /\ ch.offer = back
      /\ ch.dishes = dishes /\ ch.hide = {} /\ ch.withdraw = {}
  BY <1>1 DEF NoChange
<1>3. Missing(m) \subseteq new
  BY DEF new
<1>4. ASSUME NEW row \in rows
      PROVE  /\ Target(m, row) = None <=> row.section \in new
             /\ Target(m, row) # None =>
                   m.categories[Target(m, row)].active \/ Target(m, row) \in Revived(m, rows)
             /\ Match(m, row) = None => [row |-> row, home |-> Target(m, row)] \in dishes
             /\ Match(m, row) # None => m.items[Match(m, row)].available \/ Match(m, row) \in back
  <2>1. Target(m, row) = None <=> row.section \in new
    <3>1. \A other \in rows : other.section = row.section =>
              Target(m, other) = Target(m, row)
      BY DEF Target
    <3>2. row.section \in Missing(m) => Target(m, row) = None
      BY DEF Target
    <3>. QED
      BY <3>1, <3>2 DEF new
  <2>2. Target(m, row) # None =>
            m.categories[Target(m, row)].active \/ Target(m, row) \in Revived(m, rows)
    BY DEF Revived
  <2>3. Match(m, row) = None => [row |-> row, home |-> Target(m, row)] \in dishes
    BY DEF dishes
  <2>4. Match(m, row) # None => m.items[Match(m, row)].available \/ Match(m, row) \in back
    BY DEF back
  <2>. QED
    BY <2>1, <2>2, <2>3, <2>4
<1>. QED
  BY <1>2, <1>3, <1>4 DEF ch

\* The headings after an import: those there were, and one more of each name it
\* inserted.
LEMMA ImportedSections ==
    ASSUME NEW m \in Tables, InOrder(m), NEW ch \in Changes,
           Cardinality(Listed(m)) + Cardinality(ch.insert) <= MaxCategories,
           NEW name \in Sections
    PROVE  LET once == Applied(m, ch)
           IN  /\ Named(m, name) \subseteq Named(once, name)
               /\ name \notin ch.insert => Named(once, name) = Named(m, name)
               /\ name \in ch.insert => Named(once, name) \ Listed(m) # {}
               /\ \A c \in Named(m, name) :
                     once.categories[c].odd = m.categories[c].odd
               /\ \A c \in Named(once, name) \ Listed(m) :
                     once.categories[c].active /\ once.categories[c].odd = ch.odd
<1> DEFINE once == Applied(m, ch)
           b == CategoriesAfter(m, ch)
           k == Cardinality(ch.insert)
<1>1. PICK n \in 0..MaxCategories : Listed(m) = 1..n
  BY DEF InOrder
<1>2. /\ k \in Nat
      /\ \A c \in Categories : c <= n =>
            b[c].name = m.categories[c].name /\ b[c].odd = m.categories[c].odd
      /\ \A c \in Categories : n < c /\ c <= n + k =>
            b[c].name \in ch.insert /\ b[c].odd = ch.odd /\ b[c].active
      /\ n + k <= MaxCategories =>
            \A x \in ch.insert : \E c \in Categories : n < c /\ c <= n + k /\ b[c].name = x
  BY <1>1, NewCategories
<1>3. \A c \in Categories : b[c].name # Blank <=> c <= n + k
  BY <1>1, ListedAfter
<1>4. /\ n \in Nat /\ \A c \in Categories : c \in Nat /\ c >= 1
      /\ Cardinality(Listed(m)) = n /\ name # Blank
  <2>1. n \in Nat /\ MaxCategories \in Nat /\ name # Blank
    BY MenuAssumption
  <2>2. Cardinality(1..n) = n
    BY <2>1, FS_Interval
  <2>. QED
    BY <1>1, <2>1, <2>2 DEF Categories
<1>5. once.categories = b
  BY DEF Applied
<1> HIDE DEF once, b, k
<1>6. n + k <= MaxCategories
  BY <1>4 DEF k
<1>7. Named(once, name) = {c \in Categories : c <= n + k /\ b[c].name = name}
  BY <1>3, <1>4, <1>5 DEF Named, Listed
<1>8. Named(m, name) = {c \in Categories : c <= n /\ b[c].name = name}
  <2>1. \A c \in Categories : c \in Listed(m) <=> c <= n
    BY <1>1, <1>4
  <2>. QED
    BY <1>2, <2>1 DEF Named, Listed
<1>9. Named(m, name) \subseteq Named(once, name)
  BY <1>2, <1>4, <1>7, <1>8
<1>10. name \notin ch.insert => Named(once, name) = Named(m, name)
  <2>1. ASSUME name \notin ch.insert, NEW c \in Categories, n < c /\ c <= n + k
        PROVE  b[c].name # name
    BY <1>2, <2>1
  <2>. QED
    BY <1>2, <1>4, <1>7, <1>8, <2>1
<1>11. \A c \in Categories : c \in Listed(m) <=> c <= n
  BY <1>1, <1>4
<1>12. name \in ch.insert => Named(once, name) \ Listed(m) # {}
  <2>1. ASSUME name \in ch.insert PROVE Named(once, name) \ Listed(m) # {}
    <3>1. PICK c \in Categories : n < c /\ c <= n + k /\ b[c].name = name
      BY <1>2, <1>6, <2>1
    <3>2. c \in Named(once, name) /\ c \notin Listed(m)
      BY <1>4, <1>7, <1>11, <3>1
    <3>. QED
      BY <3>2
  <2>. QED
    BY <2>1
<1>13. \A c \in Named(m, name) : once.categories[c].odd = m.categories[c].odd
  BY <1>2, <1>5, <1>8
<1>14. \A c \in Named(once, name) \ Listed(m) :
           once.categories[c].active /\ once.categories[c].odd = ch.odd
  <2>1. ASSUME NEW c \in Named(once, name), c \notin Listed(m)
        PROVE  b[c].active /\ b[c].odd = ch.odd
    <3>1. c \in Categories /\ c <= n + k /\ n < c
      BY <1>4, <1>7, <1>11, <2>1
    <3>. QED
      BY <1>2, <3>1
  <2>. QED
    BY <1>5, <2>1
<1>. QED
  BY <1>9, <1>10, <1>12, <1>13, <1>14 DEF once

\* Every row of an import that fits is settled once it commits, and no default is
\* missing.
LEMMA ImportSettles ==
    ASSUME NEW m \in Tables, InOrder(m), NEW rows \in SUBSET Row,
           Cardinality(Listed(m)) + Cardinality(Import(m, rows).insert) <= MaxCategories,
           Cardinality(OnCard(m)) + Cardinality(Import(m, rows).dishes) <= MaxItems
    PROVE  LET once == Applied(m, Import(m, rows))
           IN  Missing(once) = {} /\ \A row \in rows : Settled(once, row)
<1> DEFINE ch == Import(m, rows)
           once == Applied(m, ch)
           cats == CategoriesAfter(m, ch)
           its == ItemsAfter(m, ch)
           ki == Cardinality(ch.dishes)
<1>1. ch \in Changes /\ Housed(m, ch) /\ ch.odd = FALSE
  BY ImportReads
<1>2. /\ Missing(m) \subseteq ch.insert /\ ch.hide = {} /\ ch.withdraw = {}
      /\ \A row \in rows :
            /\ Target(m, row) = None <=> row.section \in ch.insert
            /\ Target(m, row) # None =>
                  m.categories[Target(m, row)].active \/ Target(m, row) \in ch.show
            /\ Match(m, row) = None => [row |-> row, home |-> Target(m, row)] \in ch.dishes
            /\ Match(m, row) # None =>
                  m.items[Match(m, row)].available \/ Match(m, row) \in ch.offer
  BY ImportWrites
<1> HIDE DEF ch
<1>3. Cardinality(Listed(m)) + Cardinality(ch.insert) <= MaxCategories
  BY DEF ch
<1>4. Cardinality(OnCard(m)) + ki <= MaxItems
  BY DEF ch
<1>5. \A name \in Sections :
          /\ Named(m, name) \subseteq Named(once, name)
          /\ name \notin ch.insert => Named(once, name) = Named(m, name)
          /\ name \in ch.insert => Named(once, name) \ Listed(m) # {}
          /\ \A c \in Named(m, name) : once.categories[c].odd = m.categories[c].odd
          /\ \A c \in Named(once, name) \ Listed(m) :
                once.categories[c].active /\ once.categories[c].odd = ch.odd
  BY <1>1, <1>3, ImportedSections
<1>6. once \in Tables
  BY <1>1, CommitInOrder
<1>7. PICK n \in 0..MaxCategories : Listed(m) = 1..n
  BY DEF InOrder
<1>8. PICK l \in 0..MaxItems : OnCard(m) = 1..l
  BY DEF InOrder
<1>9. \A c \in Categories : c <= n =>
          cats[c].active = ((m.categories[c].active \/ c \in ch.show) /\ c \notin ch.hide)
  BY <1>1, <1>7, NewCategories
<1>10. /\ ki \in Nat
       /\ \A i \in Items : i <= l \/ l + ki < i =>
             /\ its[i].name = m.items[i].name
             /\ its[i].category = m.items[i].category
             /\ its[i].available = ((m.items[i].available \/ i \in ch.offer)
                                    /\ i \notin ch.withdraw)
       /\ \A i \in Items : l < i /\ i <= l + ki =>
             \E dish \in ch.dishes :
                 its[i] = [category |-> Home(cats, dish),
                           name |-> dish.row.name, available |-> TRUE]
       /\ l + ki <= MaxItems =>
             \A dish \in ch.dishes : \E i \in Items :
                 l < i /\ i <= l + ki /\
                 its[i] = [category |-> Home(cats, dish),
                           name |-> dish.row.name, available |-> TRUE]
  BY <1>1, <1>8, NewItems
<1>11. once.categories = cats /\ once.items = its
  BY DEF Applied
<1>12. /\ n \in Nat /\ l \in Nat /\ Cardinality(OnCard(m)) = l
       /\ \A i \in Items : i \in Nat /\ i >= 1
       /\ \A c \in Categories : c \in Nat /\ c >= 1
  <2>1. n \in Nat /\ l \in Nat /\ MaxItems \in Nat /\ MaxCategories \in Nat
    BY MenuAssumption
  <2>2. Cardinality(1..l) = l
    BY <2>1, FS_Interval
  <2>. QED
    BY <1>8, <2>1, <2>2 DEF Items, Categories
<1> HIDE DEF once, cats, its, ki
<1>13. l + ki <= MaxItems
  BY <1>4, <1>12
<1>14. OnCard(once) = {i \in Items : its[i].name # Blank}
  BY <1>11 DEF OnCard
<1>15. Missing(once) = {}
  <2>1. ASSUME NEW name \in Defaults
        PROVE  \E c \in Named(once, name) : ~once.categories[c].odd
    <3>1. name \in Sections
      BY MenuAssumption
    <3>2. CASE name \in Missing(m)
      BY <1>1, <1>2, <1>5, <3>1, <3>2
    <3>3. CASE name \notin Missing(m)
      <4>1. PICK c \in Named(m, name) : ~m.categories[c].odd
        BY <3>3 DEF Missing
      <4>. QED
        BY <1>5, <3>1, <4>1
    <3>. QED
      BY <3>2, <3>3
  <2>. QED
    BY <2>1 DEF Missing
<1>16. ASSUME NEW row \in rows PROVE Settled(once, row)
  <2> DEFINE t == Target(m, row)
             c == Target(once, row)
  <2>1. row \in Row /\ row.section \in Sections /\ row.name # Blank /\ row.section # Blank
    BY MenuAssumption DEF Row
  <2>2. t # None => t \in Named(m, row.section) /\ row.section \notin Missing(m)
    BY TargetIs
  <2>3. Named(once, row.section) # {} =>
            /\ c \in Named(once, row.section) /\ c # None
            /\ \A x \in Named(once, row.section) : x <= c
    BY <1>6, <1>15, TargetIs
  <2>4. t # None => c = t
    BY <1>2, <1>5, <1>15, <2>1, <2>2 DEF Target
  <2>5. t = None <=> row.section \in ch.insert
    BY <1>2
  <2>6. t # None => m.categories[t].active \/ t \in ch.show
    BY <1>2
  <2>7. t # None => t \in Listed(m)
    BY <2>2 DEF Named
  <2> HIDE DEF t, c
  <2>8. c \in Named(once, row.section) /\ c # None
    BY <1>5, <2>1, <2>2, <2>3, <2>5
  <2>19. t = None => c \notin Listed(m)
    <3>1. ASSUME t = None PROVE c \notin Listed(m)
      <4>1. PICK x \in Named(once, row.section) : x \notin Listed(m)
        BY <1>5, <2>1, <2>5, <3>1
      <4>2. x \in Categories /\ c \in Categories /\ x <= c
        BY <2>3, <2>8, <4>1 DEF Named, Listed
      <4>. QED
        BY <1>7, <1>12, <4>1, <4>2
    <3>. QED
      BY <3>1
  <2>9. once.categories[c].active
    <3>1. CASE t = None
      BY <1>5, <2>1, <2>8, <2>19, <3>1
    <3>2. CASE t # None
      <4>1. c \in Categories /\ c <= n
        BY <1>7, <1>12, <2>4, <2>7, <3>2 DEF Listed
      <4>. QED
        BY <1>2, <1>9, <1>11, <2>4, <2>6, <3>2, <4>1
    <3>. QED
      BY <3>1, <3>2
  <2>10. Alike(once, row) = {i \in Items : its[i].name = row.name /\ its[i].category = c}
    BY <1>11, <1>14, <2>1, <2>8 DEF Alike, c
  <2>11. Alike(m, row) = {i \in OnCard(m) : /\ m.items[i].name = row.name
                                            /\ m.items[i].category = t /\ t # None}
    BY DEF Alike, t
  \* The old dishes among the matches were matches before.
  <2>12. ASSUME NEW i \in Alike(once, row), i <= l PROVE i \in Alike(m, row)
    <3>1. i \in Items /\ i \in OnCard(m) /\ its[i].name = row.name /\ its[i].category = c
      BY <1>8, <1>12, <2>10, <2>12
    <3>2. m.items[i].name = row.name /\ m.items[i].category = c
      BY <1>10, <2>12, <3>1
    <3>3. c \in Listed(m)
      BY <2>8, <3>1, <3>2 DEF InOrder
    <3>4. t # None
      BY <2>19, <3>3
    <3>. QED
      BY <2>4, <2>11, <3>1, <3>2, <3>4
  <2>13. ASSUME NEW i \in Alike(m, row) PROVE i \in Alike(once, row) /\ i <= l
    <3>1. /\ i \in Items /\ i \in OnCard(m) /\ i <= l
          /\ m.items[i].name = row.name /\ m.items[i].category = t /\ t # None
      BY <1>8, <1>12, <2>11 DEF OnCard
    <3>. QED
      BY <1>10, <2>4, <2>10, <3>1
  \* The new ones are offered.
  <2>14. ASSUME NEW i \in Alike(once, row), l < i PROVE its[i].available
    <3>1. i \in Items /\ its[i].name = row.name
      BY <2>10
    <3>2. i <= l + ki
      <4>1. ASSUME l + ki < i PROVE FALSE
        <5>1. m.items[i].name = row.name
          BY <1>10, <3>1, <4>1
        <5>2. i \in OnCard(m)
          BY <2>1, <3>1, <5>1 DEF OnCard
        <5>. QED
          BY <1>8, <1>12, <2>14, <5>2
      <4>. QED
        BY <1>10, <1>12, <3>1, <4>1
    <3>3. PICK dish \in ch.dishes :
              its[i] = [category |-> Home(cats, dish),
                        name |-> dish.row.name, available |-> TRUE]
      BY <1>10, <2>14, <3>1, <3>2
    <3>. QED
      BY <3>3
  <2>15. /\ Alike(m, row) = {} => Match(m, row) = None
         /\ Alike(m, row) # {} => /\ Match(m, row) \in Alike(m, row) /\ Match(m, row) # None
                                  /\ \A i \in Alike(m, row) : Match(m, row) <= i
    BY MatchIs
  <2>16. Alike(once, row) # {} =>
            /\ Match(once, row) \in Alike(once, row) /\ Match(once, row) # None
            /\ \A i \in Alike(once, row) : Match(once, row) <= i
    BY <1>6, MatchIs
  <2>17. CASE Alike(m, row) # {}
    <3> DEFINE i == Match(m, row)
               j == Match(once, row)
    <3>1. i \in Alike(once, row) /\ i <= l /\ i \in Items
      BY <2>10, <2>13, <2>15, <2>17
    <3>2. j \in Alike(once, row) /\ j <= i /\ j \in Items
      BY <2>10, <2>16, <3>1
    <3>3. m.items[i].available \/ i \in ch.offer
      BY <1>2, <2>15, <2>17
    <3> HIDE DEF i, j
    <3>4. j \in Alike(m, row)
      BY <1>12, <2>12, <3>1, <3>2
    <3>5. i <= j
      BY <2>15, <2>17, <3>4 DEF i
    <3>6. i = j
      BY <1>12, <3>1, <3>2, <3>5
    <3>7. its[j].available
      BY <1>2, <1>10, <3>1, <3>3, <3>6
    <3>. QED
      BY <1>11, <2>8, <2>9, <3>2, <3>7 DEF Settled, c, j
  <2>18. CASE Alike(m, row) = {}
    <3> DEFINE dish == [row |-> row, home |-> t]
               j == Match(once, row)
    <3>1. dish \in ch.dishes
      BY <1>2, <2>15, <2>18 DEF t
    <3>2. PICK i \in Items :
              l < i /\ i <= l + ki /\
              its[i] = [category |-> Home(cats, dish), name |-> dish.row.name,
                        available |-> TRUE]
      BY <1>10, <1>13, <3>1
    <3>3. Home(cats, dish) = c
      <4>1. CASE t # None
        BY <2>4, <4>1 DEF Home
      <4>2. CASE t = None
        <5>1. {x \in Categories : cats[x].name = row.section} = Named(once, row.section)
          BY <1>11, <2>1 DEF Named, Listed
        <5>2. Home(cats, dish) = Highest({x \in Categories : cats[x].name = row.section})
          BY <4>2 DEF Home
        <5>. QED
          BY <1>15, <5>1, <5>2 DEF c, Target
      <4>. QED
        BY <4>1, <4>2
    <3>4. i \in Alike(once, row)
      BY <2>10, <3>2, <3>3
    <3>5. j \in Alike(once, row)
      BY <2>16, <3>4
    <3>6. j \in Items /\ l < j
      BY <1>12, <2>10, <2>12, <2>18, <3>5
    <3>7. its[j].available
      BY <2>14, <3>5, <3>6
    <3>. QED
      BY <1>11, <2>8, <2>9, <3>5, <3>7 DEF Settled, c
  <2>. QED
    BY <2>17, <2>18
<1>. QED
  BY <1>15, <1>16 DEF once, ch

\* On a settled sheet an import has nothing to do.
LEMMA NothingToImport ==
    ASSUME NEW m \in Tables, NEW rows, Missing(m) = {}, \A row \in rows : Settled(m, row)
    PROVE  Import(m, rows) = NoChange
<1> DEFINE fresh == {row \in rows : Match(m, row) = None}
           matched == {Match(m, row) : row \in rows \ fresh}
           new == Missing(m) \cup
                      {row.section : row \in {r \in rows : Target(m, r) = None}}
           back == {i \in matched : ~m.items[i].available}
           dishes == {[row |-> row, home |-> Target(m, row)] : row \in fresh}
<1>1. Import(m, rows) = [NoChange EXCEPT !.insert = new, !.show = Revived(m, rows),
                                         !.offer = back, !.dishes = dishes]
  BY DEF Import
<1>2. \A row \in rows :
          /\ Target(m, row) # None /\ m.categories[Target(m, row)].active
          /\ Match(m, row) # None /\ m.items[Match(m, row)].available
  BY MatchIs DEF Settled
<1>3. new = {} /\ Revived(m, rows) = {} /\ back = {} /\ dishes = {}
  <2>1. new = {}
    BY <1>2
  <2>2. Revived(m, rows) = {}
    BY <1>2 DEF Revived
  <2>3. fresh = {}
    BY <1>2
  <2>4. back = {}
    BY <1>2
  <2>5. dishes = {}
    BY <2>3
  <2>. QED
    BY <2>1, <2>2, <2>4, <2>5
<1> HIDE DEF new, back, dishes
<1>. QED
  BY <1>1, <1>3 DEF NoChange

LEMMA NothingApplied ==
    ASSUME NEW m \in Tables, InOrder(m)
    PROVE  Applied(m, NoChange) = m
<1> DEFINE b == CategoriesAfter(m, NoChange)
           its == ItemsAfter(m, NoChange)
<1>1. /\ NoChange \in Changes /\ Housed(m, NoChange)
      /\ NoChange.insert = {} /\ NoChange.dishes = {}
      /\ NoChange.show = {} /\ NoChange.hide = {} /\ NoChange.offer = {}
      /\ NoChange.withdraw = {} /\ NoChange.unpair = {} /\ NoChange.pair = {}
  BY DEF NoChange, Changes, Housed
<1>2. PICK n \in 0..MaxCategories : Listed(m) = 1..n
  BY DEF InOrder
<1>3. PICK l \in 0..MaxItems : OnCard(m) = 1..l
  BY DEF InOrder
<1>4. Cardinality({}) = 0
  BY FS_EmptySet
<1>5. /\ n \in Nat /\ l \in Nat
      /\ \A i \in Items : i \in Nat
      /\ \A c \in Categories : c \in Nat
  BY MenuAssumption DEF Items, Categories
<1>6. /\ b \in [Categories -> Category]
      /\ \A c \in Categories : c <= n \/ n + 0 < c =>
            /\ b[c].name = m.categories[c].name
            /\ b[c].odd = m.categories[c].odd
            /\ b[c].active = ((m.categories[c].active \/ c \in {}) /\ c \notin {})
  <2>1. /\ b \in [Categories -> Category]
        /\ \A c \in Categories : c <= n \/ n + Cardinality(NoChange.insert) < c =>
              /\ b[c].name = m.categories[c].name
              /\ b[c].odd = m.categories[c].odd
              /\ b[c].active = ((m.categories[c].active \/ c \in NoChange.show)
                                /\ c \notin NoChange.hide)
    BY <1>1, <1>2, NewCategories
  <2> HIDE DEF b
  <2>. QED
    BY <1>1, <1>4, <2>1
<1>7. /\ its \in [Items -> Item]
      /\ \A i \in Items : i <= l \/ l + 0 < i =>
            /\ its[i].name = m.items[i].name
            /\ its[i].category = m.items[i].category
            /\ its[i].available = ((m.items[i].available \/ i \in {}) /\ i \notin {})
  <2>1. /\ its \in [Items -> Item]
        /\ \A i \in Items : i <= l \/ l + Cardinality(NoChange.dishes) < i =>
              /\ its[i].name = m.items[i].name
              /\ its[i].category = m.items[i].category
              /\ its[i].available = ((m.items[i].available \/ i \in NoChange.offer)
                                     /\ i \notin NoChange.withdraw)
    BY <1>1, <1>3, NewItems
  <2> HIDE DEF its
  <2>. QED
    BY <1>1, <1>4, <2>1
<1>8. Applied(m, NoChange) = [categories |-> b, items |-> its, upsells |-> m.upsells]
  BY <1>1 DEF Applied
<1> HIDE DEF b, its
<1>9. m.categories \in [Categories -> Category] /\ m.items \in [Items -> Item]
  BY DEF Tables
<1>10. ASSUME NEW c \in Categories PROVE b[c] = m.categories[c]
  <2>1. /\ b[c].name = m.categories[c].name /\ b[c].odd = m.categories[c].odd
        /\ b[c].active = m.categories[c].active
    <3>1. c <= n \/ n + 0 < c
      BY <1>5
    <3>2. m.categories[c].active \in BOOLEAN
      BY <1>9 DEF Category
    <3>. QED
      BY <1>6, <3>1, <3>2
  <2>2. b[c] \in Category /\ m.categories[c] \in Category
    BY <1>6, <1>9
  <2>. QED
    BY <2>1, <2>2 DEF Category
<1>11. ASSUME NEW i \in Items PROVE its[i] = m.items[i]
  <2>1. /\ its[i].name = m.items[i].name /\ its[i].category = m.items[i].category
        /\ its[i].available = m.items[i].available
    <3>1. i <= l \/ l + 0 < i
      BY <1>5
    <3>2. m.items[i].available \in BOOLEAN
      BY <1>9 DEF Item
    <3>. QED
      BY <1>7, <3>1, <3>2
  <2>2. its[i] \in Item /\ m.items[i] \in Item
    BY <1>7, <1>9
  <2>. QED
    BY <2>1, <2>2 DEF Item
<1>12. b = m.categories /\ its = m.items
  BY <1>6, <1>7, <1>9, <1>10, <1>11
<1>13. m = [categories |-> m.categories, items |-> m.items, upsells |-> m.upsells]
  BY DEF Tables
<1>. QED
  BY <1>8, <1>12, <1>13

-----------------------------------------------------------------------------
(* The inductive invariant. *)

Distinct(m) ==
    \A c, d \in Listed(m) :
        /\ m.categories[c].name = m.categories[d].name
        /\ m.categories[c].odd = m.categories[d].odd
        => c = d

\* Beside the types and the order of the rows: until something blurs the names, no
\* two categories share one in the same spelling, hidden ones included, and what a request inserts is
\* new unless the categories have changed since it read them.
MenuInv ==
    /\ MenuTypeOK
    /\ InOrder(menu)
    /\ \A s \in Sessions : Housed(menu, menuTxn[s].changes)
    /\ blurred \/ Distinct(menu)
    /\ blurred \/ \A s \in Sessions :
          menuTxn[s].op # "none" /\ ~menuTxn[s].stale => NewNames(menu, menuTxn[s].changes)

LEMMA NoChangeIsOne ==
    NoChange \in Changes /\ \A m : Housed(m, NoChange) /\ NewNames(m, NoChange)
BY DEF NoChange, Changes, Housed, NewNames

\* A request that reads keeps the invariant.
LEMMA ReadKeeps ==
    ASSUME MenuInv, NEW s \in Sessions, NEW op \in MenuOperation, NEW ch \in Changes,
           Housed(menu, ch), NewNames(menu, ch), Read(s, op, ch)
    PROVE  MenuInv'
<1>1. menuTxn \in [Sessions -> MenuTxn]
  BY DEF MenuInv, MenuTypeOK
<1>2. menuTxn' = [menuTxn EXCEPT ![s] = [op |-> op, changes |-> ch, stale |-> FALSE]]
      /\ menu' = menu /\ blurred' = blurred
  BY DEF Read
<1>3. /\ menuTxn'[s] = [op |-> op, changes |-> ch, stale |-> FALSE]
      /\ \A t \in Sessions \ {s} : menuTxn'[t] = menuTxn[t]
  BY <1>1, <1>2
<1>4. MenuTypeOK'
  <2>1. [op |-> op, changes |-> ch, stale |-> FALSE] \in MenuTxn
    BY DEF MenuTxn
  <2>. QED
    BY <1>1, <1>2, <2>1 DEF MenuTypeOK, MenuInv
<1>5. \A t \in Sessions : Housed(menu', menuTxn'[t].changes)
  BY <1>2, <1>3 DEF MenuInv
<1>6. blurred \/ \A t \in Sessions :
          menuTxn'[t].op # "none" /\ ~menuTxn'[t].stale
          => NewNames(menu', menuTxn'[t].changes)
  BY <1>2, <1>3 DEF MenuInv
<1>. QED
  BY <1>2, <1>4, <1>5, <1>6 DEF MenuInv

\* So does one that ends without a trace.
LEMMA NoTxnKeeps ==
    ASSUME MenuInv, NEW S \in SUBSET Sessions, menu' = menu, blurred' = blurred,
           menuTxn' = [s \in Sessions |-> IF s \in S THEN NoTxn ELSE menuTxn[s]]
    PROVE  MenuInv'
<1>1. NoTxn \in MenuTxn
  BY NoChangeIsOne DEF NoTxn, MenuTxn
<1>2. MenuTypeOK'
  BY <1>1 DEF MenuTypeOK, MenuInv
<1>3. NoTxn.op = "none" /\ NoTxn.changes = NoChange
  BY DEF NoTxn
<1>4. \A t \in Sessions : menuTxn'[t] = NoTxn \/ menuTxn'[t] = menuTxn[t]
  OBVIOUS
<1>5. \A t \in Sessions : Housed(menu', menuTxn'[t].changes)
  BY <1>3, <1>4, NoChangeIsOne DEF MenuInv
<1>6. blurred \/ \A t \in Sessions :
          menuTxn'[t].op # "none" /\ ~menuTxn'[t].stale
          => NewNames(menu', menuTxn'[t].changes)
  BY <1>3, <1>4 DEF MenuInv
<1>. QED
  BY <1>2, <1>5, <1>6 DEF MenuInv

\* What a commit does to names.
LEMMA CommitNames ==
    ASSUME NEW m \in Tables, NEW ch \in Changes, InOrder(m), Housed(m, ch), Distinct(m),
           NewNames(m, ch)
    PROVE  Distinct(Applied(m, ch))
<1> DEFINE a == Applied(m, ch)
           b == CategoriesAfter(m, ch)
           k == Cardinality(ch.insert)
<1>1. PICK n \in 0..MaxCategories : Listed(m) = 1..n
  BY DEF InOrder
<1>2. /\ k \in Nat
      /\ \A c \in Categories : c <= n =>
            b[c].name = m.categories[c].name /\ b[c].odd = m.categories[c].odd
      /\ \A c \in Categories : n < c /\ c <= n + k =>
            b[c].name \in ch.insert /\ b[c].odd = ch.odd
      /\ \A c, d \in Categories :
            n < c /\ c <= n + k /\ n < d /\ d <= n + k /\ b[c].name = b[d].name => c = d
  BY <1>1, NewCategories
<1>3. \A c \in Categories : b[c].name # Blank <=> c <= n + k
  BY <1>1, ListedAfter
<1>4. a.categories = b
  BY DEF Applied
<1>5. n \in Nat /\ \A c \in Categories : c \in Nat /\ c >= 1
  BY MenuAssumption DEF Categories
<1> HIDE DEF a, b, k
<1>6. ASSUME NEW c \in Categories, c <= n PROVE c \in Listed(m)
  BY <1>1, <1>5, <1>6
<1>7. ASSUME NEW c \in Listed(a), NEW d \in Listed(a), b[c].name = b[d].name,
             b[c].odd = b[d].odd, c <= n
      PROVE  c = d
  <2>1. c \in Categories /\ d \in Categories /\ d <= n + k
    BY <1>3, <1>4 DEF Listed
  <2>2. /\ c \in Listed(m) /\ b[c].name = m.categories[c].name
        /\ b[c].odd = m.categories[c].odd
    BY <1>2, <1>6, <1>7, <2>1
  <2>3. CASE d <= n
    BY <1>2, <1>6, <1>7, <2>1, <2>2, <2>3 DEF Distinct
  <2>4. CASE n < d
    <3>1. b[d].name \in ch.insert /\ m.categories[c].odd = ch.odd
      BY <1>2, <1>7, <2>1, <2>2, <2>4
    <3>2. c \in Named(m, b[d].name)
      BY <1>7, <2>2 DEF Named
    <3>. QED
      BY <3>1, <3>2 DEF NewNames
  <2>. QED
    BY <1>5, <2>1, <2>3, <2>4
<1>8. ASSUME NEW c \in Listed(a), NEW d \in Listed(a), b[c].name = b[d].name,
             n < c, n < d
      PROVE  c = d
  <2>1. c \in Categories /\ d \in Categories /\ c <= n + k /\ d <= n + k
    BY <1>3, <1>4 DEF Listed
  <2>. QED
    BY <1>2, <1>8, <2>1
<1>9. ASSUME NEW c \in Listed(a), NEW d \in Listed(a), b[c].name = b[d].name,
             b[c].odd = b[d].odd
      PROVE  c = d
  <2>1. c \in Nat /\ d \in Nat
    BY <1>5 DEF Listed
  <2>. QED
    BY <1>5, <1>7, <1>8, <1>9, <2>1
<1>. QED
  BY <1>4, <1>9 DEF Distinct, a

\* A commit keeps the names that were there.
LEMMA CommitKeepsNames ==
    ASSUME NEW m \in Tables, NEW ch \in Changes, InOrder(m), ch.insert = {}
    PROVE  /\ Listed(Applied(m, ch)) = Listed(m)
           /\ \A c \in Listed(m) :
                 /\ Applied(m, ch).categories[c].name = m.categories[c].name
                 /\ Applied(m, ch).categories[c].odd = m.categories[c].odd
<1> DEFINE a == Applied(m, ch)
           b == CategoriesAfter(m, ch)
           k == Cardinality(ch.insert)
<1>1. PICK n \in 0..MaxCategories : Listed(m) = 1..n
  BY DEF InOrder
<1>2. k = 0
  BY FS_EmptySet
<1>3. \A c \in Categories : c <= n \/ n + k < c =>
          b[c].name = m.categories[c].name /\ b[c].odd = m.categories[c].odd
  BY <1>1, NewCategories
<1>4. n \in Nat /\ \A c \in Categories : c \in Nat
  BY MenuAssumption DEF Categories
<1>5. a.categories = b
  BY DEF Applied
<1> HIDE DEF a, b, k
<1>6. \A c \in Categories :
          b[c].name = m.categories[c].name /\ b[c].odd = m.categories[c].odd
  BY <1>2, <1>3, <1>4
<1>. QED
  BY <1>5, <1>6 DEF Listed, a

LEMMA CommitKeeps ==
    ASSUME MenuInv, NEW s \in Sessions, Commit(s)
    PROVE  MenuInv'
<1> DEFINE ch == menuTxn[s].changes
           renamed == menu'.categories # menu.categories
<1>1. /\ menu \in Tables /\ menuTxn \in [Sessions -> MenuTxn] /\ blurred \in BOOLEAN
      /\ InOrder(menu) /\ Housed(menu, ch)
  BY DEF MenuInv, MenuTypeOK
<1>2. ch \in Changes /\ menuTxn[s].op # "none"
  BY <1>1 DEF MenuTxn, Commit
<1>3. /\ menu' = Applied(menu, ch)
      /\ menuTxn' = [t \in Sessions |->
            IF t = s THEN NoTxn
            ELSE [menuTxn[t] EXCEPT !.stale = @ \/ (menuTxn[t].op # "none" /\ renamed)]]
      /\ blurred' = (blurred \/ (menuTxn[s].stale /\ Inserts(ch)))
  BY DEF Commit
<1>4. menu' \in Tables /\ InOrder(menu') /\ Listed(menu) \subseteq Listed(menu')
  BY <1>1, <1>2, <1>3, CommitInOrder
<1>5. NoTxn \in MenuTxn /\ NoTxn.op = "none" /\ NoTxn.changes = NoChange
  BY NoChangeIsOne DEF NoTxn, MenuTxn
<1>6. menuTxn'[s] = NoTxn
  BY <1>3
<1> HIDE DEF renamed
<1>7. ASSUME NEW t \in Sessions \ {s}
      PROVE  /\ menuTxn'[t] \in MenuTxn
             /\ menuTxn'[t].op = menuTxn[t].op
             /\ menuTxn'[t].changes = menuTxn[t].changes
             /\ menuTxn'[t].stale = (menuTxn[t].stale \/ (menuTxn[t].op # "none" /\ renamed))
  <2>1. menuTxn'[t] = [menuTxn[t] EXCEPT
                          !.stale = @ \/ (menuTxn[t].op # "none" /\ renamed)]
    BY <1>3
  <2>2. menuTxn[t] \in MenuTxn /\ renamed \in BOOLEAN
    BY <1>1 DEF renamed
  <2>. QED
    BY <2>1, <2>2 DEF MenuTxn
<1>8. MenuTypeOK'
  <2>1. menuTxn' \in [Sessions -> MenuTxn]
    BY <1>3, <1>5, <1>6, <1>7
  <2>2. blurred' \in BOOLEAN
    BY <1>1, <1>3
  <2>. QED
    BY <1>4, <2>1, <2>2 DEF MenuTypeOK
<1>9. \A t \in Sessions : Housed(menu', menuTxn'[t].changes)
  <2>1. ASSUME NEW t \in Sessions \ {s} PROVE Housed(menu', menuTxn'[t].changes)
    BY <1>4, <1>7 DEF MenuInv, Housed
  <2>. QED
    BY <1>5, <1>6, <2>1, NoChangeIsOne
<1>10. ASSUME ~blurred' PROVE Distinct(menu')
  <2>1. ~blurred /\ ~(menuTxn[s].stale /\ Inserts(ch)) /\ Distinct(menu)
    BY <1>3, <1>10 DEF MenuInv
  <2>2. CASE ~menuTxn[s].stale
    <3>1. NewNames(menu, ch)
      BY <1>2, <2>1, <2>2 DEF MenuInv
    <3>. QED
      BY <1>1, <1>2, <1>3, <2>1, <3>1, CommitNames
  <2>3. CASE ~Inserts(ch)
    <3>1. ch.insert = {}
      BY <2>3 DEF Inserts
    <3>2. /\ Listed(menu') = Listed(menu)
          /\ \A c \in Listed(menu) :
                /\ menu'.categories[c].name = menu.categories[c].name
                /\ menu'.categories[c].odd = menu.categories[c].odd
      BY <1>1, <1>2, <1>3, <3>1, CommitKeepsNames
    <3>. QED
      BY <2>1, <3>2 DEF Distinct
  <2>. QED
    BY <2>1, <2>2, <2>3
<1>11. ASSUME ~blurred', NEW t \in Sessions, menuTxn'[t].op # "none", ~menuTxn'[t].stale
       PROVE  NewNames(menu', menuTxn'[t].changes)
  <2>1. t \in Sessions \ {s}
    BY <1>5, <1>6, <1>11
  <2>2. /\ menuTxn[t].op # "none" /\ ~menuTxn[t].stale /\ ~renamed
        /\ menuTxn'[t].changes = menuTxn[t].changes
    BY <1>7, <1>11, <2>1
  <2>3. NewNames(menu, menuTxn[t].changes)
    BY <1>3, <1>11, <2>2 DEF MenuInv
  <2>4. menu'.categories = menu.categories
    BY <2>2 DEF renamed
  <2>. QED
    BY <2>2, <2>3, <2>4 DEF NewNames, Named, Listed
<1>. QED
  BY <1>4, <1>8, <1>9, <1>10, <1>11 DEF MenuInv

\* A new name that fits in a category is one of the sections.
LEMMA NamesAreSections ==
    ASSUME NEW m \in Tables, NEW c \in Listed(m)
    PROVE  m.categories[c].name \in Sections /\ c \in Categories
BY DEF Listed, Tables, Category

\* A menu whose rows are the same rows under other names is in order as well.
LEMMA SameRowsInOrder ==
    ASSUME NEW m, InOrder(m), NEW a, Listed(a) = Listed(m), OnCard(a) = OnCard(m),
           \A i \in OnCard(a) : a.items[i].category \in Listed(m) \cup {None}
    PROVE  InOrder(a)
BY DEF InOrder

LEMMA EditCategoryKeeps ==
    ASSUME MenuInv, NEW s \in Sessions, EditCategory(s)
    PROVE  MenuInv'
<1>1. /\ menu \in Tables /\ menuTxn \in [Sessions -> MenuTxn] /\ blurred \in BOOLEAN
      /\ InOrder(menu)
  BY DEF MenuInv, MenuTypeOK
<1>2. PICK c \in Listed(menu), name \in Sections, active \in BOOLEAN,
           odd \in BOOLEAN :
          /\ menu' = [menu EXCEPT !.categories[c] =
                         [name |-> name, odd |-> odd, active |-> active]]
          /\ blurred' = (blurred \/ \E d \in Named(menu, name) \ {c} :
                                        menu.categories[d].odd = odd)
  <2>1. \A name \in Sections : Spellings(name) \subseteq BOOLEAN
    BY DEF Spellings
  <2>. QED
    BY <2>1 DEF EditCategory
<1>3. menuTxn' = [t \in Sessions |->
                     [menuTxn[t] EXCEPT !.stale = menuTxn[t].op # "none"]]
  BY DEF EditCategory
<1>4. name # Blank /\ c \in Categories /\ menu.categories \in [Categories -> Category]
  BY <1>1, MenuAssumption DEF Listed, Tables
<1>5. /\ menu'.categories = [menu.categories EXCEPT
                                ![c] = [name |-> name, odd |-> odd, active |-> active]]
      /\ menu'.items = menu.items /\ menu'.upsells = menu.upsells
      /\ menu' \in Tables
  <2>1. [name |-> name, odd |-> odd, active |-> active] \in Category
    BY DEF Category
  <2>. QED
    BY <1>1, <1>2, <1>4, <2>1 DEF Tables
<1>6. /\ menu'.categories[c].name = name /\ menu'.categories[c].odd = odd
      /\ \A d \in Categories \ {c} : menu'.categories[d] = menu.categories[d]
  BY <1>4, <1>5
<1>7. Listed(menu') = Listed(menu) /\ OnCard(menu') = OnCard(menu)
  <2>1. \A d \in Categories : menu'.categories[d].name # Blank <=> menu.categories[d].name # Blank
    BY <1>4, <1>6 DEF Listed
  <2>. QED
    BY <1>5, <2>1 DEF Listed, OnCard
<1>8. InOrder(menu')
  <2>1. \A i \in OnCard(menu') : menu'.items[i].category \in Listed(menu) \cup {None}
    BY <1>1, <1>5, <1>7 DEF InOrder
  <2>. QED
    BY <1>1, <1>7, <2>1, SameRowsInOrder
<1>9. ASSUME NEW t \in Sessions
      PROVE  /\ menuTxn'[t] \in MenuTxn
             /\ menuTxn'[t].op = menuTxn[t].op
             /\ menuTxn'[t].changes = menuTxn[t].changes
             /\ menuTxn'[t].stale = (menuTxn[t].op # "none")
  <2>1. menuTxn'[t] = [menuTxn[t] EXCEPT !.stale = menuTxn[t].op # "none"]
    BY <1>3
  <2>2. menuTxn[t] \in MenuTxn
    BY <1>1
  <2>. QED
    BY <2>1, <2>2 DEF MenuTxn
<1>10. MenuTypeOK'
  <2>1. menuTxn' \in [Sessions -> MenuTxn]
    BY <1>3, <1>9
  <2>2. blurred' \in BOOLEAN
    BY <1>1, <1>2
  <2>. QED
    BY <1>5, <2>1, <2>2 DEF MenuTypeOK
<1>11. \A t \in Sessions : Housed(menu', menuTxn'[t].changes)
  BY <1>7, <1>9 DEF MenuInv, Housed
<1>12. ASSUME ~blurred' PROVE Distinct(menu')
  <2>1. /\ Distinct(menu)
        /\ \A d \in Named(menu, name) \ {c} : menu.categories[d].odd # odd
    BY <1>2, <1>12 DEF MenuInv
  <2>2. ASSUME NEW d \in Listed(menu), d # c
        PROVE  /\ menu'.categories[d] = menu.categories[d]
               /\ menu'.categories[d].name # name \/ menu'.categories[d].odd # odd
    BY <1>6, <2>1, <2>2 DEF Named, Listed
  <2>. QED
    BY <1>6, <1>7, <2>1, <2>2 DEF Distinct
<1>. QED
  BY <1>8, <1>9, <1>10, <1>11, <1>12 DEF MenuInv

\* Editing and hiding a dish leaves the categories and the transactions alone.
LEMMA DishEdited ==
    ASSUME MenuInv, NEW i \in OnCard(menu), NEW item \in Item, item.name # Blank,
           item.category \in Listed(menu) \cup {None},
           menu' = [menu EXCEPT !.items[i] = item], UNCHANGED <<menuTxn, blurred>>
    PROVE  MenuInv'
<1>1. menu \in Tables /\ InOrder(menu) /\ i \in Items
  BY DEF MenuInv, MenuTypeOK, OnCard
<1>2. /\ menu'.items = [menu.items EXCEPT ![i] = item]
      /\ menu'.categories = menu.categories
      /\ menu' \in Tables
  BY <1>1 DEF Tables
<1>3. menu.items \in [Items -> Item]
  BY <1>1 DEF Tables
<1>4. Listed(menu') = Listed(menu) /\ OnCard(menu') = OnCard(menu)
  BY <1>2, <1>3 DEF Listed, OnCard
<1>5. InOrder(menu')
  <2>1. \A x \in OnCard(menu') : menu'.items[x].category \in Listed(menu) \cup {None}
    BY <1>1, <1>2, <1>3, <1>4 DEF InOrder
  <2>. QED
    BY <1>1, <1>4, <2>1, SameRowsInOrder
<1>6. MenuTypeOK'
  BY <1>2 DEF MenuTypeOK, MenuInv
<1>7. \A t \in Sessions : Housed(menu', menuTxn'[t].changes)
  BY <1>4 DEF MenuInv, Housed
<1>8. blurred \/ Distinct(menu')
  BY <1>2, <1>4 DEF MenuInv, Distinct
<1>9. blurred \/ \A t \in Sessions :
          menuTxn[t].op # "none" /\ ~menuTxn[t].stale
          => NewNames(menu', menuTxn[t].changes)
  <2>1. \A name : Named(menu', name) = Named(menu, name)
    BY <1>2, <1>4 DEF Named
  <2>. QED
    BY <2>1 DEF MenuInv, NewNames
<1>. QED
  BY <1>5, <1>6, <1>7, <1>8, <1>9 DEF MenuInv

LEMMA EditItemKeeps ==
    ASSUME MenuInv, NEW s \in Sessions, EditItem(s)
    PROVE  MenuInv'
<1>1. PICK i \in OnCard(menu), name \in Dishes, available \in BOOLEAN :
          \E c \in Listed(menu) \cup {menu.items[i].category} :
              menu' = [menu EXCEPT !.items[i] =
                          [category |-> c, name |-> name, available |-> available]]
  BY DEF EditItem
<1>2. PICK c \in Listed(menu) \cup {menu.items[i].category} :
          menu' = [menu EXCEPT !.items[i] =
                      [category |-> c, name |-> name, available |-> available]]
  BY <1>1
<1> DEFINE item == [category |-> c, name |-> name, available |-> available]
<1>3. c \in Listed(menu) \cup {None}
  BY DEF MenuInv, InOrder
<1>4. item \in Item /\ item.name # Blank /\ item.category = c
  BY <1>3, MenuAssumption DEF Item, Listed
<1>5. UNCHANGED <<menuTxn, blurred>>
  BY DEF EditItem
<1> HIDE DEF item
<1>6. menu' = [menu EXCEPT !.items[i] = item]
  BY <1>2 DEF item
<1>. QED
  BY <1>3, <1>4, <1>5, <1>6, DishEdited

LEMMA DeleteItemKeeps ==
    ASSUME MenuInv, NEW s \in Sessions, DeleteItem(s)
    PROVE  MenuInv'
<1>1. PICK i \in OnCard(menu) : menu' = [menu EXCEPT !.items[i].available = FALSE]
  BY DEF DeleteItem
<1> DEFINE item == [menu.items[i] EXCEPT !.available = FALSE]
<1>2. menu.items[i] \in Item /\ menu.items[i].name # Blank
  BY DEF MenuInv, MenuTypeOK, Tables, OnCard
<1>3. item \in Item /\ item.name # Blank /\ item.category = menu.items[i].category
  BY <1>2 DEF Item
<1>4. item.category \in Listed(menu) \cup {None}
  BY <1>3 DEF MenuInv, InOrder
<1>5. UNCHANGED <<menuTxn, blurred>>
  BY DEF DeleteItem
<1> HIDE DEF item
<1>6. menu' = [menu EXCEPT !.items[i] = item]
  BY <1>1 DEF item
<1>. QED
  BY <1>3, <1>4, <1>5, <1>6, DishEdited

\* What each request that reads works out.
LEMMA SeedKeeps ==
    ASSUME MenuInv, NEW s \in Sessions, Seed(s)
    PROVE  MenuInv'
<1> DEFINE new == Missing(menu)
           ch == [NoChange EXCEPT !.insert = new]
<1>1. /\ new \in SUBSET Sections
      /\ \A name \in new : \A c \in Named(menu, name) : menu.categories[c].odd
  BY MenuAssumption DEF Missing
<1> HIDE DEF new
<1>2. ch \in Changes /\ Housed(menu, ch) /\ NewNames(menu, ch)
  BY <1>1 DEF NoChange, Changes, Housed, NewNames
<1> HIDE DEF ch
<1>3. Read(s, "seed", ch)
  BY DEF Seed, ch, new
<1>4. "seed" \in MenuOperation
  BY DEF MenuOperation
<1>. QED
  BY <1>2, <1>3, <1>4, ReadKeeps

LEMMA CreateCategoryKeeps ==
    ASSUME MenuInv, NEW s \in Sessions, CreateCategory(s)
    PROVE  MenuInv'
<1>1. PICK name \in Sections, odd \in BOOLEAN :
          Read(s, "create", IF Named(menu, name) = {}
                            THEN [NoChange EXCEPT !.insert = {name}, !.odd = odd]
                            ELSE [NoChange EXCEPT !.show = {Highest(Named(menu, name))}])
  <2>1. \A name \in Sections : Spellings(name) \subseteq BOOLEAN
    BY DEF Spellings
  <2>. QED
    BY <2>1 DEF CreateCategory
<1>2. "create" \in MenuOperation
  BY DEF MenuOperation
<1>3. CASE Named(menu, name) = {}
  <2> DEFINE ch == [NoChange EXCEPT !.insert = {name}, !.odd = odd]
  <2>1. ch \in Changes /\ Housed(menu, ch) /\ NewNames(menu, ch)
    BY <1>3 DEF NoChange, Changes, Housed, NewNames
  <2>2. Read(s, "create", ch)
    BY <1>1, <1>3
  <2> HIDE DEF ch
  <2>. QED
    BY <1>2, <2>1, <2>2, ReadKeeps
<1>4. CASE Named(menu, name) # {}
  <2> DEFINE c == Highest(Named(menu, name))
             ch == [NoChange EXCEPT !.show = {c}]
  <2>1. c \in Categories
    <3> DEFINE S == Named(menu, name)
    <3>1. S \in SUBSET (1..MaxCategories) /\ MaxCategories \in Nat /\ S \subseteq Categories
      BY MenuAssumption DEF Named, Listed, Categories
    <3> HIDE DEF S
    <3>2. Highest(S) \in S
      BY <1>4, <3>1, Highmost DEF S
    <3>. QED
      BY <3>1, <3>2 DEF S
  <2>2. Read(s, "create", ch)
    BY <1>1, <1>4
  <2> HIDE DEF c
  <2>3. ch \in Changes /\ Housed(menu, ch) /\ NewNames(menu, ch)
    BY <2>1 DEF NoChange, Changes, Housed, NewNames
  <2> HIDE DEF ch
  <2>. QED
    BY <1>2, <2>2, <2>3, ReadKeeps
<1>. QED
  BY <1>3, <1>4

LEMMA DeleteCategoryKeeps ==
    ASSUME MenuInv, NEW s \in Sessions, DeleteCategory(s)
    PROVE  MenuInv'
<1>1. PICK c \in Listed(menu) :
          Read(s, "delete",
               [NoChange EXCEPT
                   !.hide = IF menu.categories[c].active THEN {c} ELSE {},
                   !.withdraw = {i \in Items : menu.items[i].category = c
                                               /\ menu.items[i].available}])
  BY DEF DeleteCategory
<1> DEFINE hide == IF menu.categories[c].active THEN {c} ELSE {}
           withdraw == {i \in Items : menu.items[i].category = c
                                      /\ menu.items[i].available}
           ch == [NoChange EXCEPT !.hide = hide, !.withdraw = withdraw]
<1>2. Read(s, "delete", ch)
  BY <1>1
<1>3. hide \in SUBSET Categories /\ withdraw \in SUBSET Items
  BY DEF Listed
<1> HIDE DEF hide, withdraw
<1>4. ch \in Changes /\ Housed(menu, ch) /\ NewNames(menu, ch)
  BY <1>3 DEF NoChange, Changes, Housed, NewNames
<1>5. "delete" \in MenuOperation
  BY DEF MenuOperation
<1> HIDE DEF ch
<1>. QED
  BY <1>2, <1>4, <1>5, ReadKeeps

LEMMA CreateItemKeeps ==
    ASSUME MenuInv, NEW s \in Sessions, CreateItem(s)
    PROVE  MenuInv'
<1>1. PICK c \in Listed(menu), name \in Dishes :
          Read(s, "dish",
               [NoChange EXCEPT !.dishes =
                   {[row |-> [name |-> name, section |-> menu.categories[c].name],
                     home |-> c]}])
  BY DEF CreateItem
<1> DEFINE dish == [row |-> [name |-> name, section |-> menu.categories[c].name],
                    home |-> c]
           ch == [NoChange EXCEPT !.dishes = {dish}]
<1>2. Read(s, "dish", ch)
  BY <1>1
<1>3. menu.categories[c].name \in Sections /\ c \in Categories
  BY NamesAreSections DEF MenuInv, MenuTypeOK
<1>4. dish \in [row : Row, home : Categories \cup {None}] /\ dish.home \in Listed(menu)
  BY <1>3 DEF Row
<1> HIDE DEF dish
<1>5. ch \in Changes /\ Housed(menu, ch) /\ NewNames(menu, ch)
  BY <1>4 DEF NoChange, Changes, Housed, NewNames
<1>6. "dish" \in MenuOperation
  BY DEF MenuOperation
<1> HIDE DEF ch
<1>. QED
  BY <1>2, <1>5, <1>6, ReadKeeps

LEMMA ImportDishesKeeps ==
    ASSUME MenuInv, NEW s \in Sessions, NEW rows \in SUBSET Row, ImportDishes(s, rows)
    PROVE  MenuInv'
<1>1. menu \in Tables
  BY DEF MenuInv, MenuTypeOK
<1>2. /\ Import(menu, rows) \in Changes
      /\ Housed(menu, Import(menu, rows)) /\ NewNames(menu, Import(menu, rows))
  BY <1>1, ImportReads
<1>3. Read(s, "import", Import(menu, rows)) /\ "import" \in MenuOperation
  BY DEF ImportDishes, MenuOperation
<1>. QED
  BY <1>2, <1>3, ReadKeeps

LEMMA SetUpsellsKeeps ==
    ASSUME MenuInv, NEW s \in Sessions, SetUpsells(s)
    PROVE  MenuInv'
<1>1. PICK i \in OnCard(menu) : \E want \in SUBSET (OnCard(menu) \ {i}) :
          Read(s, "upsells",
               [NoChange EXCEPT !.unpair = {p \in menu.upsells : p[1] = i},
                                !.pair = {i} \X want])
  BY DEF SetUpsells
<1>2. PICK want \in SUBSET (OnCard(menu) \ {i}) :
          Read(s, "upsells",
               [NoChange EXCEPT !.unpair = {p \in menu.upsells : p[1] = i},
                                !.pair = {i} \X want])
  BY <1>1
<1> DEFINE old == {p \in menu.upsells : p[1] = i}
           new == {i} \X want
           ch == [NoChange EXCEPT !.unpair = old, !.pair = new]
<1>3. Read(s, "upsells", ch)
  BY <1>2
<1>4. old \in SUBSET (Items \X Items) /\ new \in SUBSET (Items \X Items)
  BY DEF MenuInv, MenuTypeOK, Tables, OnCard
<1> HIDE DEF old, new
<1>5. ch \in Changes /\ Housed(menu, ch) /\ NewNames(menu, ch)
  BY <1>4 DEF NoChange, Changes, Housed, NewNames
<1>6. "upsells" \in MenuOperation
  BY DEF MenuOperation
<1> HIDE DEF ch
<1>. QED
  BY <1>3, <1>5, <1>6, ReadKeeps

LEMMA AbortKeeps ==
    ASSUME MenuInv, NEW s \in Sessions, Abort(s)
    PROVE  MenuInv'
<1>1. menuTxn \in [Sessions -> MenuTxn] /\ menuTxn' = [menuTxn EXCEPT ![s] = NoTxn]
      /\ menu' = menu /\ blurred' = blurred
  BY DEF Abort, MenuInv, MenuTypeOK
<1>2. menuTxn' = [t \in Sessions |-> IF t \in {s} THEN NoTxn ELSE menuTxn[t]]
  BY <1>1
<1>. QED
  BY <1>1, <1>2, NoTxnKeeps

LEMMA LoseTransactionsKeeps ==
    ASSUME MenuInv, LoseTransactions
    PROVE  MenuInv'
<1>1. menuTxn' = [t \in Sessions |-> IF t \in Sessions THEN NoTxn ELSE menuTxn[t]]
      /\ menu' = menu /\ blurred' = blurred
  BY DEF LoseTransactions
<1>. QED
  BY <1>1, NoTxnKeeps

LEMMA MenuInvInit == MenuInit => MenuInv
<1> SUFFICES ASSUME MenuInit PROVE MenuInv
  OBVIOUS
<1>1. menu = NoMenu /\ menuTxn = [s \in Sessions |-> NoTxn] /\ blurred = FALSE
  BY DEF MenuInit
<1>2. NoTxn \in MenuTxn /\ NoTxn.op = "none" /\ NoTxn.changes = NoChange
  BY NoChangeIsOne DEF NoTxn, MenuTxn
<1>3. NoCategory \in Category /\ NoItem \in Item
      /\ NoCategory.name = Blank /\ NoItem.name = Blank
  BY DEF NoCategory, Category, NoItem, Item
<1>4. /\ NoMenu \in Tables
      /\ \A c \in Categories : NoMenu.categories[c] = NoCategory
      /\ \A i \in Items : NoMenu.items[i] = NoItem
  BY <1>3 DEF NoMenu, Tables
<1>5. Listed(menu) = {} /\ OnCard(menu) = {}
  BY <1>1, <1>3, <1>4 DEF Listed, OnCard
<1>6. InOrder(menu)
  <2>1. 0 \in 0..MaxCategories /\ 0 \in 0..MaxItems /\ 1..0 = {}
    BY MenuAssumption
  <2>. QED
    BY <1>5, <2>1 DEF InOrder
<1>7. MenuTypeOK
  BY <1>1, <1>2, <1>4 DEF MenuTypeOK
<1>8. \A s \in Sessions : Housed(menu, menuTxn[s].changes) /\ menuTxn[s].op = "none"
  BY <1>1, <1>2, NoChangeIsOne
<1>9. Distinct(menu)
  BY <1>5 DEF Distinct
<1>. QED
  BY <1>6, <1>7, <1>8, <1>9 DEF MenuInv

LEMMA MenuInvStep == MenuInv /\ [MenuStep]_menuVars => MenuInv'
<1> SUFFICES ASSUME MenuInv, [MenuStep]_menuVars PROVE MenuInv'
  OBVIOUS
<1>1. ASSUME NEW s \in Sessions, CardStep(s) \/ PairStep(s) \/ ImportSheet(s)
      PROVE  MenuInv'
  <2>1. CASE Seed(s)
    BY <2>1, SeedKeeps
  <2>2. CASE CreateCategory(s)
    BY <2>2, CreateCategoryKeeps
  <2>3. CASE DeleteCategory(s)
    BY <2>3, DeleteCategoryKeeps
  <2>4. CASE CreateItem(s)
    BY <2>4, CreateItemKeeps
  <2>5. CASE ApplyScan(s)
    <3>1. PICK sheet \in Sheets : ImportDishes(s, Approved(sheet))
      BY <2>5 DEF ApplyScan
    <3>. QED
      BY <3>1, SheetsAreRows, ImportDishesKeeps
  <2>6. CASE ImportSheet(s)
    <3>1. PICK sheet \in Sheets : ImportDishes(s, Parsed(sheet))
      BY <2>6 DEF ImportSheet
    <3>. QED
      BY <3>1, SheetsAreRows, ImportDishesKeeps
  <2>7. CASE Commit(s)
    BY <2>7, CommitKeeps
  <2>8. CASE Abort(s)
    BY <2>8, AbortKeeps
  <2>9. CASE EditCategory(s)
    BY <2>9, EditCategoryKeeps
  <2>10. CASE EditItem(s)
    BY <2>10, EditItemKeeps
  <2>11. CASE DeleteItem(s)
    BY <2>11, DeleteItemKeeps
  <2>12. CASE SetUpsells(s)
    BY <2>12, SetUpsellsKeeps
  <2>. QED
    BY <1>1, <2>1, <2>2, <2>3, <2>4, <2>5, <2>6, <2>7, <2>8, <2>9, <2>10, <2>11, <2>12
       DEF CardStep, PairStep
<1>2. CASE LoseTransactions
  BY <1>2, LoseTransactionsKeeps
<1>3. CASE UNCHANGED menuVars
  BY <1>3 DEF menuVars, MenuInv, MenuTypeOK, InOrder, Housed, Distinct, NewNames,
              Listed, OnCard, Named
<1>. QED
  BY <1>1, <1>2, <1>3 DEF MenuStep

LEMMA MenuInvAlways == MenuSpec => []MenuInv
BY MenuInvInit, MenuInvStep, PTL DEF MenuSpec

-----------------------------------------------------------------------------
(* Theorems about the menu. *)

\* The tables and the open transactions keep their types whatever sequence of
\* requests, imports, rollbacks and restarts works on the menu (app/services/menu.py,
\* import_dishes).
THEOREM MenuTypeCorrect == MenuSpec => []MenuTypeOK
<1>1. MenuInv => MenuTypeOK
  BY DEF MenuInv
<1>. QED
  BY <1>1, MenuInvAlways, PTL

\* Only a rename onto a taken name, requests that met and a default under two
\* spellings, which seeding tells apart, give two shown categories the same name
\* (create_category, ensure_default_categories, import_dishes).
THEOREM CategoriesDistinct == MenuSpec => []CategoriesStayDistinct
<1>1. MenuInv => CategoriesStayDistinct
  BY DEF MenuInv, Distinct, CategoriesStayDistinct
<1>. QED
  BY <1>1, MenuInvAlways, PTL

\* A request that fits beside the open ones fits alone.
LEMMA FitsAlone ==
    ASSUME MenuInv, NEW rows \in SUBSET Row, Fits(Import(menu, rows))
    PROVE  /\ Cardinality(Listed(menu)) + Cardinality(Import(menu, rows).insert)
                 <= MaxCategories
           /\ Cardinality(OnCard(menu)) + Cardinality(Import(menu, rows).dishes)
                 <= MaxItems
<1> DEFINE ch == Import(menu, rows)
           e == [s \in Sessions |-> Cardinality(menuTxn[s].changes.insert)]
           f == [s \in Sessions |-> Cardinality(menuTxn[s].changes.dishes)]
<1>1. /\ menu \in Tables /\ menuTxn \in [Sessions -> MenuTxn] /\ InOrder(menu)
      /\ IsFiniteSet(Sessions)
  BY MenuAssumption DEF MenuInv, MenuTypeOK
<1>2. ASSUME NEW c \in Changes
      PROVE  Cardinality(c.insert) \in Nat /\ Cardinality(c.dishes) \in Nat
  <2>1. c.insert \subseteq Sections /\ c.dishes \subseteq Dish
    BY DEF Changes, Dish
  <2>2. IsFiniteSet(c.insert) /\ IsFiniteSet(c.dishes)
    BY <2>1, MenuAssumption, RowsAreFinite, FS_Subset
  <2>. QED
    BY <2>2, FS_CardinalityType
<1>3. \A s \in Sessions : menuTxn[s].changes \in Changes
  BY <1>1 DEF MenuTxn
<1>4. e \in [Sessions -> Nat] /\ f \in [Sessions -> Nat]
  BY <1>2, <1>3
<1>5. /\ Cardinality(Listed(menu)) + Cardinality(ch.insert) + SumFunction(e) <= MaxCategories
      /\ Cardinality(OnCard(menu)) + Cardinality(ch.dishes) + SumFunction(f) <= MaxItems
  BY DEF Fits
<1>6. ch \in Changes
  BY <1>1, ImportReads
<1> HIDE DEF e, f, ch
<1>7. SumFunction(e) \in Nat /\ SumFunction(f) \in Nat
  BY <1>1, <1>4, SumIsNat
<1>8. Cardinality(ch.insert) \in Nat /\ Cardinality(ch.dishes) \in Nat
  BY <1>2, <1>6
<1>9. Cardinality(Listed(menu)) \in Nat /\ Cardinality(OnCard(menu)) \in Nat
  <2>1. PICK n \in 0..MaxCategories : Listed(menu) = 1..n
    BY <1>1 DEF InOrder
  <2>2. PICK l \in 0..MaxItems : OnCard(menu) = 1..l
    BY <1>1 DEF InOrder
  <2>3. IsFiniteSet(1..n) /\ IsFiniteSet(1..l)
    BY MenuAssumption, FS_Interval
  <2>. QED
    BY <2>1, <2>2, <2>3, FS_CardinalityType
<1>10. MaxCategories \in Nat /\ MaxItems \in Nat
  BY MenuAssumption
<1>. QED
  BY <1>5, <1>7, <1>8, <1>9, <1>10 DEF ch

LEMMA UploadsAreRows == \A rows \in Uploads : rows \in SUBSET Row
BY SheetsAreRows DEF Uploads

\* Every row of an import is on the guests' menu once it commits, its category
\* included if either had been taken off, on any menu the requests can build
\* (import_dishes).
THEOREM ImportsShow == MenuSpec => []ImportedDishesShow
<1>1. ASSUME MenuInv, NEW rows \in Uploads, Fits(Import(menu, rows)), NEW row \in rows
      PROVE  row.name \in Shown(Applied(menu, Import(menu, rows)), row.section)
  <2> DEFINE once == Applied(menu, Import(menu, rows))
             i == Match(once, row)
  <2>1. rows \in SUBSET Row
    BY UploadsAreRows
  <2>2. menu \in Tables /\ InOrder(menu)
    BY <1>1 DEF MenuInv, MenuTypeOK
  <2>3. Settled(once, row)
    BY <1>1, <2>1, <2>2, FitsAlone, ImportSettles
  <2>4. once \in Tables
    BY <2>1, <2>2, ImportReads, CommitInOrder
  <2> HIDE DEF once
  <2>5. i \in Alike(once, row) /\ once.items[i].available
    BY <2>3, <2>4, MatchIs DEF Settled
  <2> HIDE DEF i
  <2>6. /\ i \in OnCard(once) /\ once.items[i].name = row.name
        /\ once.items[i].category = Target(once, row)
    BY <2>5 DEF Alike
  <2>7. /\ once.items[i].category \in Named(once, row.section)
        /\ once.categories[once.items[i].category].active
    BY <2>3, <2>6 DEF Settled
  <2>. QED
    BY <2>5, <2>6, <2>7 DEF Shown, once
<1>2. MenuInv => ImportedDishesShow
  BY <1>1 DEF ImportedDishesShow
<1>. QED
  BY <1>2, MenuInvAlways, PTL

\* A sheet imported a second time adds nothing and changes nothing, on any menu the
\* requests can build (import_dishes).
THEOREM ImportsRepeat == MenuSpec => []ImportIsIdempotent
<1>1. ASSUME MenuInv, NEW rows \in Uploads, Fits(Import(menu, rows))
      PROVE  LET once == Applied(menu, Import(menu, rows))
                 again == Import(once, rows)
             IN  Created(again) = 0 /\ Applied(once, again) = once
  <2> DEFINE once == Applied(menu, Import(menu, rows))
             again == Import(once, rows)
  <2>1. rows \in SUBSET Row
    BY UploadsAreRows
  <2>2. menu \in Tables /\ InOrder(menu)
    BY <1>1 DEF MenuInv, MenuTypeOK
  <2>3. Missing(once) = {} /\ \A row \in rows : Settled(once, row)
    BY <1>1, <2>1, <2>2, FitsAlone, ImportSettles
  <2>4. once \in Tables /\ InOrder(once)
    BY <2>1, <2>2, ImportReads, CommitInOrder
  <2> HIDE DEF once
  <2>5. again = NoChange
    BY <2>3, <2>4, NothingToImport
  <2>6. Applied(once, again) = once
    BY <2>4, <2>5, NothingApplied
  <2>7. Created(again) = 0
    BY <2>5, FS_EmptySet DEF Created, NoChange
  <2>. QED
    BY <2>6, <2>7 DEF once
<1>2. MenuInv => ImportIsIdempotent
  BY <1>1 DEF ImportIsIdempotent
<1>. QED
  BY <1>2, MenuInvAlways, PTL

-----------------------------------------------------------------------------
(* The jobs. *)

\* Where a task is tells what its job is and whether its import committed.
JobInv(j) ==
    /\ jobs[j].status = "none" => tasks[j].at = "off" /\ j \notin wrote
    /\ tasks[j].at \in {"queued", "started", "importing", "calling"} => j \notin wrote
    /\ tasks[j].at = "importing" => jobs[j].kind = "import"
    /\ tasks[j].at = "calling" => jobs[j].kind = "scan"
    /\ tasks[j].at = "leaving" /\ jobs[j].kind = "import" =>
          (tasks[j].outcome = "done" <=> j \in wrote)
    /\ jobs[j].status \in {"done", "failed"} => tasks[j].at = "off"
    /\ jobs[j].kind = "import" => /\ jobs[j].status = "failed" => j \notin wrote
                                  /\ jobs[j].status = "done" => j \in wrote
    /\ tasks[j].rows = {} \/ \E sheet \in Sheets : tasks[j].rows = Parsed(sheet)

JobsInv == JobsTypeOK /\ \A j \in Jobs : JobInv(j)

LEMMA NoTaskIsOne ==
    /\ NoTask \in Task /\ NoTask.at = "off" /\ NoTask.rows = {}
    /\ "import" \in JobKind /\ "scan" \in JobKind
BY JobAssumption DEF NoTask, Task, JobKind

\* A step of one job.
LEMMA JobMoves ==
    ASSUME JobsInv, NEW j \in Jobs, NEW job \in Job, NEW task \in Task,
           jobs' = [jobs EXCEPT ![j] = job], tasks' = [tasks EXCEPT ![j] = task],
           wrote' = wrote \/ wrote' = wrote \cup {j},
           jobs'[j] = job /\ tasks'[j] = task => JobInv(j)'
    PROVE  JobsInv'
<1>1. jobs \in [Jobs -> Job] /\ tasks \in [Jobs -> Task] /\ wrote \subseteq Jobs
  BY DEF JobsInv, JobsTypeOK
<1>2. JobsTypeOK'
  <2>1. jobs' \in [Jobs -> Job] /\ tasks' \in [Jobs -> Task]
    BY <1>1
  <2>2. wrote' \subseteq Jobs
    BY <1>1
  <2>. QED
    BY <2>1, <2>2 DEF JobsTypeOK
<1>3. JobInv(j)'
  BY <1>1
<1>4. ASSUME NEW k \in Jobs \ {j} PROVE JobInv(k)'
  <2>1. /\ jobs'[k] = jobs[k] /\ tasks'[k] = tasks[k] /\ (k \in wrote' <=> k \in wrote)
        /\ JobInv(k)
    BY <1>1 DEF JobsInv
  <2>. QED
    BY <2>1 DEF JobInv
<1>. QED
  BY <1>2, <1>3, <1>4 DEF JobsInv

\* A step of a task alone.
LEMMA TaskMoves ==
    ASSUME JobsInv, NEW j \in Jobs, NEW task \in Task,
           jobs' = jobs, tasks' = [tasks EXCEPT ![j] = task],
           wrote' = wrote \/ wrote' = wrote \cup {j},
           jobs'[j] = jobs[j] /\ tasks'[j] = task => JobInv(j)'
    PROVE  JobsInv'
<1>1. jobs \in [Jobs -> Job]
  BY DEF JobsInv, JobsTypeOK
<1>2. jobs[j] \in Job /\ jobs' = [jobs EXCEPT ![j] = jobs[j]]
  BY <1>1
<1>. QED
  BY <1>2, JobMoves

\* A task that ends takes its outcome along.
LEMMA TaskLeaves ==
    ASSUME JobsInv, NEW j \in Jobs, NEW outcome \in {"done", "failed"}, Leaves(j, outcome),
           jobs' = jobs, wrote' = wrote \/ wrote' = wrote \cup {j},
           tasks[j].at \in {"started", "importing", "calling"},
           jobs[j].kind = "import" => (outcome = "done" <=> j \in wrote')
    PROVE  JobsInv'
<1> DEFINE task == [tasks[j] EXCEPT !.at = "leaving", !.outcome = outcome]
<1>1. tasks \in [Jobs -> Task] /\ tasks[j] \in Task /\ JobInv(j)
  BY DEF JobsInv, JobsTypeOK
<1>2. /\ task \in Task /\ task.at = "leaving" /\ task.outcome = outcome
      /\ task.rows = tasks[j].rows
  BY <1>1 DEF Task
<1>3. tasks' = [tasks EXCEPT ![j] = task]
  BY <1>1 DEF Leaves
<1> HIDE DEF task
<1>4. jobs'[j] = jobs[j] /\ tasks'[j] = task => JobInv(j)'
  BY <1>1, <1>2 DEF JobInv
<1>. QED
  BY <1>2, <1>3, <1>4, TaskMoves

LEMMA JobsInvInit == JobsInit => JobsInv
<1> SUFFICES ASSUME JobsInit PROVE JobsInv
  OBVIOUS
<1> DEFINE new == [kind |-> "import", status |-> "none", old |-> FALSE]
<1>1. /\ jobs = [j \in Jobs |-> new]
      /\ tasks = [j \in Jobs |-> NoTask] /\ wrote = {}
  BY DEF JobsInit
<1>2. new \in Job /\ new.status = "none"
  BY DEF Job, JobKind, JobStatus
<1>3. JobsTypeOK
  BY <1>1, <1>2, NoTaskIsOne DEF JobsTypeOK
<1>4. ASSUME NEW j \in Jobs PROVE JobInv(j)
  <2>1. jobs[j] = new /\ tasks[j] = NoTask /\ j \notin wrote
    BY <1>1
  <2> HIDE DEF new
  <2>. QED
    BY <1>2, <2>1, NoTaskIsOne DEF JobInv
<1>. QED
  BY <1>3, <1>4 DEF JobsInv

LEMMA StartJobKeeps ==
    ASSUME JobsInv, NEW j \in Jobs, StartJob(j)
    PROVE  JobsInv'
<1>1. PICK kind \in JobKind, sheet \in Sheets :
          /\ jobs' = [Pruned(kind) EXCEPT
                         ![j] = [kind |-> kind, status |-> "pending", old |-> FALSE]]
          /\ tasks' = [tasks EXCEPT ![j] =
                          [NoTask EXCEPT !.at = "queued", !.rows = Parsed(sheet)]]
  BY DEF StartJob
<1> DEFINE job == [kind |-> kind, status |-> "pending", old |-> FALSE]
           task == [NoTask EXCEPT !.at = "queued", !.rows = Parsed(sheet)]
<1>2. jobs \in [Jobs -> Job] /\ tasks \in [Jobs -> Task] /\ wrote \subseteq Jobs
  BY DEF JobsInv, JobsTypeOK
<1>3. jobs[j].status = "none" /\ wrote' = wrote /\ JobInv(j)
  BY DEF StartJob, jobVars, JobsInv
<1>4. j \notin wrote
  BY <1>3 DEF JobInv
<1>5. job \in Job /\ job.status = "pending"
  BY DEF Job, JobStatus
<1>6. task \in Task /\ task.at = "queued" /\ task.rows = Parsed(sheet)
  BY NoTaskIsOne, SheetsAreRows DEF Task
<1>7. ASSUME NEW k \in Jobs
      PROVE  /\ Pruned(kind)[k] \in Job /\ Pruned(kind)[k].kind = jobs[k].kind
             /\ \/ Pruned(kind)[k].status = jobs[k].status
                \/ Pruned(kind)[k].status = "gone"
  <2>1. jobs[k] \in Job
    BY <1>2
  <2>. QED
    BY <2>1 DEF Pruned, Job, JobStatus
<1>8. Pruned(kind) = [k \in Jobs |-> Pruned(kind)[k]]
  BY DEF Pruned
<1> HIDE DEF job, task
<1>9. /\ jobs'[j] = job /\ tasks'[j] = task
      /\ \A k \in Jobs \ {j} : jobs'[k] = Pruned(kind)[k] /\ tasks'[k] = tasks[k]
      /\ jobs' \in [Jobs -> Job] /\ tasks' \in [Jobs -> Task]
  <2>1. jobs' = [Pruned(kind) EXCEPT ![j] = job] /\ tasks' = [tasks EXCEPT ![j] = task]
    BY <1>1 DEF job, task
  <2>. QED
    BY <1>2, <1>5, <1>6, <1>7, <1>8, <2>1
<1>10. JobsTypeOK'
  BY <1>2, <1>3, <1>9 DEF JobsTypeOK
<1>11. JobInv(j)'
  BY <1>3, <1>4, <1>5, <1>6, <1>9 DEF JobInv
<1>12. ASSUME NEW k \in Jobs \ {j} PROVE JobInv(k)'
  <2>1. /\ jobs'[k].kind = jobs[k].kind /\ tasks'[k] = tasks[k] /\ wrote' = wrote
        /\ jobs'[k].status = jobs[k].status \/ jobs'[k].status = "gone"
        /\ JobInv(k)
    BY <1>3, <1>7, <1>9 DEF JobsInv
  <2>. QED
    BY <2>1 DEF JobInv
<1>. QED
  BY <1>10, <1>11, <1>12 DEF JobsInv

LEMMA RunKeeps ==
    ASSUME JobsInv, NEW j \in Jobs, Run(j)
    PROVE  JobsInv'
<1>1. /\ tasks \in [Jobs -> Task] /\ tasks[j] \in Task /\ jobs[j] \in Job /\ JobInv(j)
      /\ jobs \in [Jobs -> Job]
  BY DEF JobsInv, JobsTypeOK
<1>2. tasks[j].at = "queued" /\ wrote' = wrote
  BY DEF Run
<1>3. CASE Known(j)
  <2> DEFINE job == [jobs[j] EXCEPT !.status = "running"]
             task == [tasks[j] EXCEPT !.at = "started"]
  <2>1. /\ job \in Job /\ job.status = "running" /\ job.kind = jobs[j].kind
        /\ task \in Task /\ task.at = "started" /\ task.rows = tasks[j].rows
    BY <1>1 DEF Job, JobStatus, Task
  <2>2. jobs' = [jobs EXCEPT ![j] = job] /\ tasks' = [tasks EXCEPT ![j] = task]
    BY <1>1, <1>3 DEF Run
  <2> HIDE DEF job, task
  <2>3. jobs'[j] = job /\ tasks'[j] = task => JobInv(j)'
    BY <1>1, <1>2, <2>1 DEF JobInv
  <2>. QED
    BY <1>2, <2>1, <2>2, <2>3, JobMoves
<1>4. CASE ~Known(j)
  <2>1. jobs' = jobs /\ tasks' = [tasks EXCEPT ![j] = NoTask]
    BY <1>4 DEF Run
  <2>2. jobs'[j] = jobs[j] /\ tasks'[j] = NoTask => JobInv(j)'
    BY <1>1, <1>2, <1>4, NoTaskIsOne DEF JobInv, Known
  <2>. QED
    BY <1>2, <2>1, <2>2, NoTaskIsOne, TaskMoves
<1>. QED
  BY <1>3, <1>4

LEMMA LoadImportKeeps ==
    ASSUME JobsInv, NEW j \in Jobs, LoadImport(j)
    PROVE  JobsInv'
<1>1. tasks \in [Jobs -> Task] /\ tasks[j] \in Task /\ JobInv(j)
  BY DEF JobsInv, JobsTypeOK
<1>2. /\ tasks[j].at = "started" /\ jobs[j].kind = "import"
      /\ jobs' = jobs /\ wrote' = wrote
  BY DEF LoadImport
<1> DEFINE task == [tasks[j] EXCEPT !.at = "importing"]
<1>3. task \in Task /\ task.at = "importing" /\ task.rows = tasks[j].rows
  BY <1>1 DEF Task
<1>4. tasks' = [tasks EXCEPT ![j] = task]
  BY <1>1 DEF LoadImport
<1> HIDE DEF task
<1>5. jobs'[j] = jobs[j] /\ tasks'[j] = task => JobInv(j)'
  BY <1>1, <1>2, <1>3 DEF JobInv
<1>. QED
  BY <1>2, <1>3, <1>4, <1>5, TaskMoves

LEMMA LeavingKeeps ==
    ASSUME JobsInv, NEW j \in Jobs,
           StartFails(j) \/ CommitImport(j) \/ AbortImport(j) \/ StartScan(j) \/ CallModel(j)
    PROVE  JobsInv'
<1>1. tasks \in [Jobs -> Task] /\ tasks[j] \in Task /\ JobInv(j)
  BY DEF JobsInv, JobsTypeOK
<1>2. jobs' = jobs
  BY DEF StartFails, CommitImport, AbortImport, StartScan, CallModel
<1>3. CASE StartFails(j)
  <2>1. tasks[j].at = "started" /\ Leaves(j, "failed") /\ wrote' = wrote
    BY <1>3 DEF StartFails
  <2>2. j \notin wrote
    BY <1>1, <2>1 DEF JobInv
  <2>. QED
    BY <1>2, <2>1, <2>2, TaskLeaves
<1>4. CASE CommitImport(j)
  <2>1. tasks[j].at = "importing" /\ Leaves(j, "done") /\ wrote' = wrote \cup {j}
    BY <1>4 DEF CommitImport
  <2>. QED
    BY <1>2, <2>1, TaskLeaves
<1>5. CASE AbortImport(j)
  <2>1. tasks[j].at = "importing" /\ Leaves(j, "failed") /\ wrote' = wrote
    BY <1>5 DEF AbortImport
  <2>2. j \notin wrote
    BY <1>1, <2>1 DEF JobInv
  <2>. QED
    BY <1>2, <2>1, <2>2, TaskLeaves
<1>6. CASE StartScan(j)
  <2>1. tasks[j].at = "started" /\ jobs[j].kind = "scan" /\ wrote' = wrote
    BY <1>6 DEF StartScan
  <2>2. CASE Leaves(j, "done")
    BY <1>2, <2>1, <2>2, TaskLeaves
  <2>3. CASE tasks' = [tasks EXCEPT ![j].at = "calling"]
    <3> DEFINE task == [tasks[j] EXCEPT !.at = "calling"]
    <3>1. task \in Task /\ task.at = "calling" /\ task.rows = tasks[j].rows
      BY <1>1 DEF Task
    <3>2. tasks' = [tasks EXCEPT ![j] = task]
      BY <1>1, <2>3
    <3> HIDE DEF task
    <3>3. jobs'[j] = jobs[j] /\ tasks'[j] = task => JobInv(j)'
      BY <1>1, <2>1, <3>1 DEF JobInv
    <3>. QED
      BY <1>2, <2>1, <3>1, <3>2, <3>3, TaskMoves
  <2>. QED
    BY <1>6, <2>2, <2>3 DEF StartScan
<1>7. CASE CallModel(j)
  <2>1. tasks[j].at = "calling" /\ wrote' = wrote /\ jobs[j].kind = "scan"
    BY <1>1, <1>7 DEF CallModel, JobInv
  <2>2. CASE Leaves(j, "done")
    BY <1>2, <2>1, <2>2, TaskLeaves
  <2>3. CASE Leaves(j, "failed")
    BY <1>2, <2>1, <2>3, TaskLeaves
  <2>4. ASSUME NEW task \in Task, task.at = "calling", task.rows = tasks[j].rows,
               tasks' = [tasks EXCEPT ![j] = task]
        PROVE  JobsInv'
    <3>1. jobs'[j] = jobs[j] /\ tasks'[j] = task => JobInv(j)'
      BY <1>1, <2>1, <2>4 DEF JobInv
    <3>. QED
      BY <1>2, <2>1, <2>4, <3>1, TaskMoves
  <2>5. CASE NextModel(j)
    <3> DEFINE task == [tasks[j] EXCEPT !.model = @ + 1]
    <3>1. tasks[j].model \in 1..LastModel /\ tasks[j].model < LastModel
      BY <1>1, <2>5 DEF Task, NextModel
    <3>2. tasks[j].model + 1 \in 1..LastModel
      BY <3>1, JobAssumption
    <3>3. task \in Task /\ task.at = "calling" /\ task.rows = tasks[j].rows
      BY <1>1, <2>1, <3>2 DEF Task
    <3>4. tasks' = [tasks EXCEPT ![j] = task]
      BY <1>1, <2>5 DEF NextModel
    <3> HIDE DEF task
    <3>. QED
      BY <2>4, <3>3, <3>4
  <2>6. CASE tasks' = Retry(j)
    <3> DEFINE task == [tasks[j] EXCEPT !.model = 1, !.small = TRUE]
    <3>1. 1 \in 1..LastModel
      BY JobAssumption
    <3>2. task \in Task /\ task.at = "calling" /\ task.rows = tasks[j].rows
      BY <1>1, <2>1, <3>1 DEF Task
    <3>3. tasks' = [tasks EXCEPT ![j] = task]
      BY <1>1, <2>6 DEF Retry
    <3> HIDE DEF task
    <3>. QED
      BY <2>4, <3>2, <3>3
  <2>. QED
    BY <1>7, <2>2, <2>3, <2>5, <2>6 DEF CallModel, GiveUp
<1>. QED
  BY <1>3, <1>4, <1>5, <1>6, <1>7

LEMMA ReportKeeps ==
    ASSUME JobsInv, NEW j \in Jobs, Report(j)
    PROVE  JobsInv'
<1>1. /\ tasks[j] \in Task /\ jobs[j] \in Job /\ JobInv(j)
      /\ jobs \in [Jobs -> Job] /\ tasks \in [Jobs -> Task]
  BY DEF JobsInv, JobsTypeOK
<1>2. /\ tasks[j].at = "leaving" /\ wrote' = wrote
      /\ tasks' = [tasks EXCEPT ![j] = NoTask]
  BY DEF Report
<1>3. tasks[j].outcome \in {"done", "failed"}
  BY <1>1 DEF Task
<1>4. CASE Known(j)
  <2> DEFINE job == [jobs[j] EXCEPT !.status = tasks[j].outcome]
  <2>1. job \in Job /\ job.status = tasks[j].outcome /\ job.kind = jobs[j].kind
    BY <1>1, <1>3 DEF Job, JobStatus
  <2>2. jobs' = [jobs EXCEPT ![j] = job]
    BY <1>1, <1>4 DEF Report
  <2> HIDE DEF job
  <2>3. jobs'[j] = job /\ tasks'[j] = NoTask => JobInv(j)'
    BY <1>1, <1>2, <1>3, <2>1, NoTaskIsOne DEF JobInv
  <2>. QED
    BY <1>2, <2>1, <2>2, <2>3, NoTaskIsOne, JobMoves
<1>5. CASE ~Known(j)
  <2>1. jobs' = jobs
    BY <1>5 DEF Report
  <2>2. jobs'[j] = jobs[j] /\ tasks'[j] = NoTask => JobInv(j)'
    BY <1>1, <1>2, <1>5, NoTaskIsOne DEF JobInv, Known
  <2>. QED
    BY <1>2, <2>1, <2>2, NoTaskIsOne, TaskMoves
<1>. QED
  BY <1>4, <1>5

LEMMA GrowKeeps ==
    ASSUME JobsInv, NEW j \in Jobs, Grow(j)
    PROVE  JobsInv'
<1> DEFINE job == [jobs[j] EXCEPT !.old = TRUE]
<1>1. /\ tasks[j] \in Task /\ jobs[j] \in Job /\ JobInv(j)
      /\ jobs \in [Jobs -> Job] /\ tasks \in [Jobs -> Task]
  BY DEF JobsInv, JobsTypeOK
<1>2. /\ jobs' = [jobs EXCEPT ![j] = job] /\ tasks' = [tasks EXCEPT ![j] = tasks[j]]
      /\ wrote' = wrote
  BY <1>1 DEF Grow
<1>3. job \in Job /\ job.status = jobs[j].status /\ job.kind = jobs[j].kind
  BY <1>1 DEF Job
<1> HIDE DEF job
<1>4. jobs'[j] = job /\ tasks'[j] = tasks[j] => JobInv(j)'
  BY <1>1, <1>2, <1>3 DEF JobInv
<1>. QED
  BY <1>1, <1>2, <1>3, <1>4, JobMoves

LEMMA RestartKeeps ==
    ASSUME JobsInv, RestartProcess
    PROVE  JobsInv'
<1>1. jobs \in [Jobs -> Job] /\ wrote \subseteq Jobs
  BY DEF JobsInv, JobsTypeOK
<1>2. /\ jobs' = [j \in Jobs |-> IF Known(j) THEN [jobs[j] EXCEPT !.status = "gone"]
                                 ELSE jobs[j]]
      /\ tasks' = [j \in Jobs |-> NoTask] /\ wrote' = wrote
  BY DEF RestartProcess
<1>3. ASSUME NEW j \in Jobs
      PROVE  /\ jobs'[j] \in Job /\ jobs'[j].kind = jobs[j].kind
             /\ jobs'[j].status = "gone" \/ (jobs[j].status = "none"
                                             /\ jobs'[j].status = "none")
  <2>1. jobs[j] \in Job /\ jobs'[j] = IF Known(j) THEN [jobs[j] EXCEPT !.status = "gone"]
                                      ELSE jobs[j]
    BY <1>1, <1>2
  <2>. QED
    BY <2>1 DEF Known, Job, JobStatus
<1>4. JobsTypeOK'
  BY <1>1, <1>2, <1>3, NoTaskIsOne DEF JobsTypeOK
<1>5. ASSUME NEW j \in Jobs PROVE JobInv(j)'
  <2>1. tasks'[j] = NoTask /\ JobInv(j)
    BY <1>2 DEF JobsInv
  <2>. QED
    BY <1>2, <1>3, <2>1, NoTaskIsOne DEF JobInv
<1>. QED
  BY <1>4, <1>5 DEF JobsInv

LEMMA JobsInvStep == JobsInv /\ [KitchenStep]_kitchenVars => JobsInv'
<1> SUFFICES ASSUME JobsInv, [KitchenStep]_kitchenVars PROVE JobsInv'
  OBVIOUS
<1>1. CASE UNCHANGED jobVars
  <2>1. jobs' = jobs /\ tasks' = tasks /\ wrote' = wrote
    BY <1>1 DEF jobVars
  <2>. QED
    BY <2>1 DEF JobsInv, JobsTypeOK, JobInv
<1>2. ASSUME NEW j \in Jobs, StartJob(j) \/ TaskStep(j) \/ Grow(j)
      PROVE  JobsInv'
  BY <1>2, StartJobKeeps, RunKeeps, LoadImportKeeps, LeavingKeeps, ReportKeeps, GrowKeeps
     DEF TaskStep
<1>3. CASE RestartProcess
  BY <1>3, RestartKeeps
<1>. QED
  BY <1>1, <1>2, <1>3 DEF KitchenStep, JobsStep, kitchenVars

LEMMA JobsInvAlways == KitchenSpec => []JobsInv
BY JobsInvInit, JobsInvStep, PTL DEF KitchenSpec

\* The jobs and their tasks keep their types (menu_import.py and menu_scan.py).
THEOREM JobsTypeCorrect == KitchenSpec => []JobsTypeOK
<1>1. JobsInv => JobsTypeOK
  BY DEF JobsInv
<1>. QED
  BY <1>1, JobsInvAlways, PTL

\* What the owner reads about an import agrees with what was committed, whatever is
\* pruned, rolled back or lost in a restart on the way (_run_import).
THEOREM JobsAreHonest == KitchenSpec => []JobsTellTheTruth
<1>1. JobsInv => JobsTellTheTruth
  BY DEF JobsInv, JobInv, JobsTellTheTruth
<1>. QED
  BY <1>1, JobsInvAlways, PTL

\* The jobs are sessions like any other: what they and the requests beside them do to
\* the menu is what Menu allows.
THEOREM KitchenKeepsMenu == KitchenSpec => MenuSpec
<1>1. JobsInv /\ [KitchenStep]_kitchenVars => [MenuStep]_menuVars
  <2> SUFFICES ASSUME JobsInv, [KitchenStep]_kitchenVars PROVE [MenuStep]_menuVars
    OBVIOUS
  <2>1. ASSUME NEW j \in Jobs, LoadImport(j) PROVE MenuStep
    <3>1. JobInv(j) /\ j \in Sessions
      BY JobAssumption DEF JobsInv
    <3>2. tasks[j].rows # {} /\ ImportDishes(j, tasks[j].rows)
      BY <2>1 DEF LoadImport
    <3>3. PICK sheet \in Sheets : tasks[j].rows = Parsed(sheet)
      BY <3>1, <3>2 DEF JobInv
    <3>4. ImportSheet(j)
      BY <3>2, <3>3 DEF ImportSheet
    <3>. QED
      BY <3>1, <3>4 DEF MenuStep
  <2>2. ASSUME NEW j \in Jobs, CommitImport(j) \/ AbortImport(j) PROVE MenuStep
    <3>1. j \in Sessions /\ (Commit(j) \/ Abort(j))
      BY <2>2, JobAssumption DEF CommitImport, AbortImport
    <3>. QED
      BY <3>1 DEF MenuStep, CardStep
  <2>3. ASSUME NEW j \in Jobs,
               StartJob(j) \/ Run(j) \/ StartFails(j) \/ StartScan(j) \/ CallModel(j)
               \/ Report(j) \/ Grow(j)
        PROVE  UNCHANGED menuVars
    BY <2>3 DEF StartJob, Run, StartFails, StartScan, CallModel, Report, Grow
  <2>4. CASE RestartProcess
    BY <2>4 DEF RestartProcess, MenuStep
  <2>5. ASSUME NEW s \in Sessions \ Jobs, CardStep(s) \/ PairStep(s) PROVE MenuStep
    BY <2>5 DEF MenuStep
  <2>6. CASE UNCHANGED kitchenVars
    BY <2>6 DEF kitchenVars
  <2>7. CASE KitchenStep
    BY <2>1, <2>2, <2>3, <2>4, <2>5, <2>7 DEF KitchenStep, JobsStep, TaskStep
  <2>. QED
    BY <2>6, <2>7
<1>. QED
  BY <1>1, JobsInvAlways, PTL DEF KitchenSpec, MenuSpec
=============================================================================
