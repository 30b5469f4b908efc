----------------------------- MODULE PagingProofs -----------------------------
(***************************************************************************)
(* Theorems about reading a list page by page, by offset, while it         *)
(* changes: the worker of Broadcast pages through the ACTIVE users, oldest *)
(* first, and the client of Listings through rows, newest first.           *)
(*                                                                         *)
(* Both rest on facts about a finite set in order: an element has a place, *)
(* how many elements come up to it; a page is the elements on a range of   *)
(* places; places are taken without a gap.  The walks then say how what    *)
(* was read relates to what is on the places behind the offset.            *)
(***************************************************************************)
EXTENDS Listings, Broadcast, FiniteSetTheorems, WellFoundedInduction, TLAPS
-----------------------------------------------------------------------------
(***************************************************************************)
(* A finite set in some order, and the places of its elements.             *)
(***************************************************************************)
InOrder(R, S) ==
    /\ IsFiniteSet(S)
    /\ \A x \in S : <<x, x>> \in R
    /\ \A x, y \in S : <<x, y>> \in R \/ <<y, x>> \in R
    /\ \A x, y \in S : <<x, y>> \in R /\ <<y, x>> \in R => x = y
    /\ \A x, y, z \in S : <<x, y>> \in R /\ <<y, z>> \in R => <<x, z>> \in R

Upto(R, S, x) == {y \in S : <<y, x>> \in R}
Place(R, S, x) == Cardinality(Upto(R, S, x))

LEMMA FirstOf ==
    ASSUME NEW R, NEW S, InOrder(R, S), NEW T \in SUBSET S, T # {}
    PROVE  \E x \in T : \A y \in T : <<x, y>> \in R
  <1> DEFINE F == {Upto(R, S, x) : x \in T}
             Less == StrictSubsetOrdering(S)
  <1>1. F # {}
    OBVIOUS
  <1>2. F \subseteq FiniteSubsetsOf(S)
    <2>1. \A x \in T : Upto(R, S, x) \in SUBSET S
      BY DEF Upto
    <2>2. QED
      BY <2>1, FS_Subset DEF FiniteSubsetsOf, InOrder
  <1>3. IsWellFoundedOn(Less, FiniteSubsetsOf(S))
    BY FS_StrictSubsetOrderingWellFounded
  <1> HIDE DEF F, Less
  <1>4. PICK U \in F : \A V \in F : ~(<<V, U>> \in Less)
    BY <1>1, <1>2, <1>3, WFMin
  <1>5. PICK x \in T : U = Upto(R, S, x)
    BY <1>4 DEF F
  <1>6. ASSUME NEW y \in T
        PROVE  <<x, y>> \in R
    <2>1. ~(<<Upto(R, S, y), U>> \in Less)
      BY <1>4 DEF F
    <2>2. Upto(R, S, y) \in SUBSET S /\ U \in SUBSET S
      BY <1>5 DEF Upto
    <2>3. ~(Upto(R, S, y) \subseteq U /\ Upto(R, S, y) # U)
      BY <2>1, <2>2 DEF Less, StrictSubsetOrdering
    <2>4. CASE <<y, x>> \in R
      <3>1. Upto(R, S, y) \subseteq U
        BY <1>5, <2>4 DEF Upto, InOrder
      <3>2. x \in Upto(R, S, y)
        BY <1>5, <2>3, <3>1 DEF Upto, InOrder
      <3>3. QED
        BY <3>2 DEF Upto
    <2>5. QED
      BY <2>4 DEF InOrder
  <1>7. QED
    BY <1>6

LEMMA LastOf ==
    ASSUME NEW R, NEW S, InOrder(R, S), NEW T \in SUBSET S, T # {}
    PROVE  \E x \in T : \A y \in T : <<y, x>> \in R
  <1> DEFINE Q == {<<p[2], p[1]>> : p \in R \intersect (S \X S)}
  <1>1. \A x, y \in S : <<x, y>> \in Q <=> <<y, x>> \in R
    OBVIOUS
  <1> HIDE DEF Q
  <1>2. InOrder(Q, S)
    BY <1>1 DEF InOrder
  <1>3. PICK x \in T : \A y \in T : <<x, y>> \in Q
    BY <1>2, FirstOf
  <1>4. QED
    BY <1>1, <1>3

LEMMA PlaceFacts ==
    ASSUME NEW R, NEW S, InOrder(R, S), NEW x \in S
    PROVE  /\ Place(R, S, x) \in Nat /\ Place(R, S, x) >= 1
           /\ IsFiniteSet(Upto(R, S, x))
           /\ \A y \in S : <<y, x>> \in R /\ y # x => Place(R, S, y) < Place(R, S, x)
  <1>1. \A y \in S : IsFiniteSet(Upto(R, S, y)) /\ Place(R, S, y) \in Nat
    BY FS_Subset, FS_CardinalityType DEF Upto, Place, InOrder
  <1>2. x \in Upto(R, S, x)
    BY DEF Upto, InOrder
  <1>3. Place(R, S, x) >= 1
    <2>1. {x} \in SUBSET Upto(R, S, x)
      BY <1>2
    <2>2. Cardinality({x}) = 1 /\ Cardinality({x}) <= Place(R, S, x)
      BY <1>1, <2>1, FS_Singleton, FS_Subset DEF Place
    <2>3. QED
      BY <1>1, <2>2
  <1>4. ASSUME NEW y \in S, <<y, x>> \in R, y # x
        PROVE  Place(R, S, y) < Place(R, S, x)
    <2>1. Upto(R, S, y) \in SUBSET Upto(R, S, x)
      BY <1>4 DEF Upto, InOrder
    <2>2. x \notin Upto(R, S, y)
      BY <1>4 DEF Upto, InOrder
    <2>3. /\ Place(R, S, y) <= Place(R, S, x)
          /\ Place(R, S, y) # Place(R, S, x)
      BY <1>1, <1>2, <2>1, <2>2, FS_Subset DEF Place
    <2>4. QED
      BY <1>1, <2>3
  <1>5. QED
    BY <1>1, <1>3, <1>4

\* Elements on the first k places, and on a page of b places after them.
First(R, S, k) == {x \in S : Place(R, S, x) <= k}
OnPage(R, S, k, b) == {x \in S : Place(R, S, x) \in (k + 1)..(k + b)}

LEMMA FirstAreFew ==
    ASSUME NEW R, NEW S, InOrder(R, S), NEW k \in Nat
    PROVE  IsFiniteSet(First(R, S, k)) /\ Cardinality(First(R, S, k)) \in Nat
           /\ Cardinality(First(R, S, k)) <= k
  <1>1. IsFiniteSet(First(R, S, k)) /\ Cardinality(First(R, S, k)) \in Nat
    BY FS_Subset, FS_CardinalityType DEF First, InOrder
  <1>2. CASE First(R, S, k) = {}
    BY <1>2, FS_EmptySet
  <1>3. CASE First(R, S, k) # {}
    <2>1. PICK x \in First(R, S, k) : \A y \in First(R, S, k) : <<y, x>> \in R
      BY <1>3, LastOf DEF First
    <2>2. x \in S /\ Place(R, S, x) <= k
      BY DEF First
    <2>3. First(R, S, k) \in SUBSET Upto(R, S, x)
      BY <2>1 DEF First, Upto
    <2>4. Cardinality(First(R, S, k)) <= Place(R, S, x)
      BY <2>2, <2>3, PlaceFacts, FS_Subset DEF Place
    <2>5. Place(R, S, x) \in Nat
      BY <2>2, PlaceFacts
    <2>6. QED
      BY <1>1, <2>2, <2>4, <2>5
  <1>4. QED
    BY <1>1, <1>2, <1>3

\* A page holds what it has places for, and no more than is left.
LEMMA PageFits ==
    ASSUME NEW R, NEW S, InOrder(R, S), NEW k \in Nat, NEW b \in Nat
    PROVE  /\ IsFiniteSet(OnPage(R, S, k, b)) /\ Cardinality(OnPage(R, S, k, b)) \in Nat
           /\ Cardinality(OnPage(R, S, k, b)) <= b
           /\ OnPage(R, S, k, b) # {} => k + Cardinality(OnPage(R, S, k, b)) <= Cardinality(S)
  <1> DEFINE P == OnPage(R, S, k, b)
  <1>1. IsFiniteSet(P) /\ Cardinality(P) \in Nat /\ Cardinality(S) \in Nat
    BY FS_Subset, FS_CardinalityType DEF OnPage, InOrder
  <1>2. CASE P = {}
    BY <1>1, <1>2, FS_EmptySet
  <1>3. CASE P # {}
    <2>1. PICK x \in P : \A y \in P : <<x, y>> \in R
      BY <1>3, FirstOf DEF OnPage
    <2>2. x \in S /\ Place(R, S, x) \in (k + 1)..(k + b)
      BY DEF OnPage
    <2> DEFINE before == Upto(R, S, x) \ {x}
    <2>3. IsFiniteSet(before) /\ Cardinality(before) = Place(R, S, x) - 1 /\ Cardinality(before) \in Nat
      <3>1. IsFiniteSet(Upto(R, S, x)) /\ Place(R, S, x) \in Nat
        BY <2>2, PlaceFacts
      <3>2. x \in Upto(R, S, x)
        BY <2>2 DEF Upto, InOrder
      <3>3. IsFiniteSet(before) /\ Cardinality(before) = Place(R, S, x) - 1
        BY <3>1, <3>2, FS_RemoveElement DEF Place
      <3>4. QED
        BY <3>3, FS_CardinalityType
    <2>4. before \intersect P = {}
      BY <2>1, <2>2 DEF Upto, InOrder, OnPage
    <2>5. before \union P \subseteq First(R, S, k + b)
      <3>1. ASSUME NEW y \in before
            PROVE  Place(R, S, y) <= k + b
        <4>1. y \in S /\ <<y, x>> \in R /\ y # x
          BY DEF Upto
        <4>2. Place(R, S, y) < Place(R, S, x) /\ Place(R, S, y) \in Nat /\ Place(R, S, x) \in Nat
          BY <2>2, <4>1, PlaceFacts
        <4>3. QED
          BY <2>2, <4>2
      <3>2. ASSUME NEW y \in P
            PROVE  Place(R, S, y) <= k + b
        BY DEF OnPage
      <3>3. QED
        BY <3>1, <3>2 DEF First, Upto, OnPage
    <2> HIDE DEF before
    <2> HIDE DEF P
    <2>6. Cardinality(before \union P) = Cardinality(before) + Cardinality(P) /\ IsFiniteSet(before \union P)
      <3>1. Cardinality(before \intersect P) = 0
        BY <2>4, FS_EmptySet
      <3>2. /\ IsFiniteSet(before \union P)
            /\ Cardinality(before \union P) =
                   Cardinality(before) + Cardinality(P) - Cardinality(before \intersect P)
        BY <1>1, <2>3, FS_Union
      <3>3. \A k1, k2 \in Nat : k1 + k2 - 0 = k1 + k2
        OBVIOUS
      <3>4. QED
        BY <1>1, <2>3, <3>1, <3>2, <3>3
    <2>7. /\ Cardinality(before \union P) <= Cardinality(First(R, S, k + b))
          /\ Cardinality(First(R, S, k + b)) <= k + b
          /\ Cardinality(First(R, S, k + b)) \in Nat
      BY <2>5, FirstAreFew, FS_Subset
    <2>8. Cardinality(before \union P) <= Cardinality(S)
      BY <2>5, FS_Subset DEF First, InOrder
    <2>9. Place(R, S, x) \in Nat /\ Place(R, S, x) >= k + 1
      BY <2>2
    <2>10. QED
      BY <1>1, <2>3, <2>6, <2>7, <2>8, <2>9 DEF P
  <1>4. QED
    BY <1>2, <1>3

\* No place is left out.
LEMMA PlacesAreTaken ==
    ASSUME NEW R, NEW S, InOrder(R, S), NEW k \in Nat, NEW x \in S, Place(R, S, x) > k
    PROVE  \E y \in S : Place(R, S, y) = k + 1
  <1> DEFINE T == {y \in S : Place(R, S, y) > k}
  <1>1. PICK y \in T : \A z \in T : <<y, z>> \in R
    BY FirstOf
  <1> DEFINE before == Upto(R, S, y) \ {y}
  <1>2. before \in SUBSET First(R, S, k)
    <2>1. ASSUME NEW z \in before
          PROVE  z \in S /\ Place(R, S, z) <= k
      <3>1. z \in S /\ ~(<<y, z>> \in R)
        BY <1>1 DEF Upto, InOrder
      <3>2. ~(Place(R, S, z) > k)
        BY <1>1, <3>1
      <3>3. QED
        BY <3>1, <3>2, PlaceFacts
    <2>2. QED
      BY <2>1 DEF First
  <1>3. Cardinality(before) <= k /\ Cardinality(before) \in Nat
    BY <1>2, FirstAreFew, FS_Subset, FS_CardinalityType
  <1>4. Cardinality(before) = Place(R, S, y) - 1
    <2>1. IsFiniteSet(Upto(R, S, y)) /\ y \in Upto(R, S, y)
      BY <1>1, PlaceFacts DEF Upto, InOrder
    <2>2. QED
      BY <2>1, FS_RemoveElement DEF Place
  <1>5. Place(R, S, y) \in Nat /\ Place(R, S, y) > k
    BY <1>1, PlaceFacts
  <1>6. Place(R, S, y) = k + 1
    BY <1>3, <1>4, <1>5
  <1>7. QED
    BY <1>1, <1>6

\* Who is on a page is on one of its first places.
LEMMA PageIsFilled ==
    ASSUME NEW R, NEW S, InOrder(R, S), NEW k \in Nat, NEW b \in Nat, NEW x \in OnPage(R, S, k, b)
    PROVE  Place(R, S, x) <= k + Cardinality(OnPage(R, S, k, b))
  <1> DEFINE P == OnPage(R, S, k, b)
             F == First(R, S, k)
  <1>1. x \in S /\ Place(R, S, x) \in (k + 1)..(k + b)
    BY DEF OnPage
  <1>2. Upto(R, S, x) \in SUBSET (F \union P)
    <2>1. ASSUME NEW y \in Upto(R, S, x)
          PROVE  y \in F \union P
      <3>1. y \in S /\ <<y, x>> \in R
        BY DEF Upto
      <3>2. Place(R, S, y) \in Nat /\ Place(R, S, x) \in Nat /\ Place(R, S, y) <= Place(R, S, x)
        BY <1>1, <3>1, PlaceFacts
      <3>3. QED
        BY <1>1, <3>1, <3>2 DEF First, OnPage
    <2>2. QED
      BY <2>1
  <1>3. /\ IsFiniteSet(F) /\ Cardinality(F) \in Nat /\ Cardinality(F) <= k
        /\ IsFiniteSet(P) /\ Cardinality(P) \in Nat
    BY FirstAreFew, PageFits
  <1> HIDE DEF P, F
  <1>4. /\ IsFiniteSet(F \union P) /\ Cardinality(F \union P) <= Cardinality(F) + Cardinality(P)
        /\ Cardinality(F \union P) \in Nat
    <2>1. IsFiniteSet(F \intersect P) /\ Cardinality(F \intersect P) \in Nat
      BY <1>3, FS_Intersection, FS_CardinalityType
    <2>2. /\ IsFiniteSet(F \union P)
          /\ Cardinality(F \union P) =
                 Cardinality(F) + Cardinality(P) - Cardinality(F \intersect P)
      BY <1>3, FS_Union
    <2>3. Cardinality(F \union P) \in Nat
      BY <2>2, FS_CardinalityType
    <2>4. \A j, m, n \in Nat : j + m - n <= j + m
      OBVIOUS
    <2>5. QED
      BY <1>3, <2>1, <2>2, <2>3, <2>4
  <1>5. Place(R, S, x) <= Cardinality(F \union P) /\ Place(R, S, x) \in Nat
    BY <1>1, <1>2, <1>4, FS_Subset DEF Place
  <1>6. QED
    BY <1>3, <1>4, <1>5 DEF P
-----------------------------------------------------------------------------
(***************************************************************************)
(* Listings.                                                               *)
(***************************************************************************)
Newest == {p \in Rows \X Rows : p[1] >= p[2]}

\* How many listed rows are newer than row r, which need not be listed.
Newer(r) == Cardinality({s \in listed : s > r})

\* How many rows the pages that are found reach over, and who was on them.
PagesFound == IF reader.at \in {"count", "answer"} THEN reader.page ELSE reader.page - 1
Reach == reader.size * PagesFound
Had(r) == seen[r] > 0 \/ r \in reader.data

\* The shapes of the reader's record, and where a row can be at a time.
ReaderInv ==
    /\ TypeOK
    /\ reader \in [at : {"rest", "data", "count", "answer", "done"}, size : Nat, page : Nat,
                   total : Nat \union {-1}, data : SUBSET Rows]
    /\ reader.size >= 1 /\ reader.page >= 1
    /\ reader.at \in {"rest", "data", "done"} => reader.data = {}
    /\ reader.at \in {"rest", "count", "done"} => reader.total = -1
    /\ reader.at = "answer" => reader.total # -1
    /\ reader.at = "rest" => /\ reader.page = 1 /\ between = {}
                             /\ seen = [r \in Rows |-> 0]
    /\ listed \intersect away = {} /\ listed \intersect stamped = {}
    /\ away \intersect stamped = {} /\ there \intersect entered = {}

\* Within reach are those who were on a page, unless a newer one left; beyond it are those
\* who were not, unless a newer one came.  Who was on a page before and is on this one was
\* beyond reach.
ReachInv ==
    /\ \A r \in there : ~Had(r) /\ Newer(r) < Reach => \E s \in left : s > r
    /\ \A r \in Rows : Had(r) /\ Newer(r) >= Reach => \E s \in entered : s > r
    /\ \A r \in reader.data : seen[r] > 0 => \E s \in entered : s > r
    /\ TwiceOnlyIfNewerCame

\* The count still holds for the rows that did not come after it; if it says that this page
\* is the last one, it is.
CountInv ==
    /\ reader.at = "data" /\ reader.total # -1 =>
           Cardinality(listed \ between) <= reader.total
    /\ reader.at = "answer" /\ reader.total <= Reach =>
           \A r \in there : Had(r) \/ \E s \in left \union between : s > r
    /\ ShownUnlessNewerLeft

LInv == ReaderInv /\ ReachInv /\ CountInv

LEMMA RowsInOrder ==
    ASSUME NEW A \in SUBSET Rows
    PROVE  /\ InOrder(Newest, A)
           /\ IsFiniteSet(A) /\ Cardinality(A) \in Nat
           /\ \A r \in A : /\ Place(Newest, A, r) = Cardinality({s \in A : s >= r})
                           /\ Place(Newest, A, r) = Cardinality({s \in A : s > r}) + 1
           /\ \A r : /\ IsFiniteSet({s \in A : s > r})
                     /\ Cardinality({s \in A : s > r}) \in Nat
  <1>1. IsFiniteSet(Rows) /\ Rows \subseteq Int
    BY FS_Interval, BoundsAreNat DEF Rows
  <1>2. IsFiniteSet(A) /\ Cardinality(A) \in Nat
    BY <1>1, FS_Subset, FS_CardinalityType
  <1>3. \A r : IsFiniteSet({s \in A : s > r}) /\ Cardinality({s \in A : s > r}) \in Nat
    BY <1>2, FS_Subset, FS_CardinalityType
  <1>4. \A x, y \in A : <<x, y>> \in Newest <=> x >= y
    BY DEF Newest
  <1>5. InOrder(Newest, A)
    BY <1>1, <1>2, <1>4 DEF InOrder
  <1>6. ASSUME NEW r \in A
        PROVE  /\ Place(Newest, A, r) = Cardinality({s \in A : s >= r})
               /\ Place(Newest, A, r) = Cardinality({s \in A : s > r}) + 1
    <2>1. Upto(Newest, A, r) = {s \in A : s >= r}
      BY <1>4 DEF Upto
    <2>2. r \in Int /\ A \subseteq Int
      BY <1>1
    <2>3. /\ ~(r > r)
          /\ \A s \in A : s >= r <=> s > r \/ s = r
      BY <2>2
    <2>4. Upto(Newest, A, r) = {s \in A : s > r} \union {r} /\ r \notin {s \in A : s > r}
      BY <2>1, <2>3
    <2>5. QED
      BY <1>3, <2>1, <2>4, FS_AddElement DEF Place
  <1>7. QED
    BY <1>2, <1>3, <1>5, <1>6

\* More rows, more newer rows; as many, unless one came or left that is newer.
LEMMA NewerMoves ==
    ASSUME listed \in SUBSET Rows, listed' \in SUBSET Rows, NEW r
    PROVE  /\ Newer(r) \in Nat /\ Newer(r)' \in Nat
           /\ listed \subseteq listed' => Newer(r) <= Newer(r)'
           /\ listed' \subseteq listed => Newer(r)' <= Newer(r)
           /\ \/ Newer(r)' = Newer(r)
              \/ \E s \in (listed \ listed') \union (listed' \ listed) : s > r
  <1> DEFINE A == {s \in listed : s > r}
             B == {s \in listed' : s > r}
  <1>1. Newer(r) = Cardinality(A) /\ Newer(r)' = Cardinality(B)
    BY DEF Newer
  <1>2. /\ IsFiniteSet(A) /\ Cardinality(A) \in Nat
        /\ IsFiniteSet(B) /\ Cardinality(B) \in Nat
    BY RowsInOrder
  <1>3. /\ listed \subseteq listed' => A \subseteq B
        /\ listed' \subseteq listed => B \subseteq A
        /\ A = B \/ \E s \in (listed \ listed') \union (listed' \ listed) : s > r
    OBVIOUS
  <1> HIDE DEF A, B
  <1>4. /\ A \subseteq B => Cardinality(A) <= Cardinality(B)
        /\ B \subseteq A => Cardinality(B) <= Cardinality(A)
    BY <1>2, FS_Subset
  <1>5. QED
    BY <1>1, <1>2, <1>3, <1>4

\* Which rows a page holds.
LEMMA PageReaches ==
    ASSUME LInv, reader.at = "data"
    PROVE  /\ PageOf(reader.size, reader.page) \subseteq listed
           /\ Cardinality(PageOf(reader.size, reader.page)) <= reader.size
           /\ \A r \in listed : r \in PageOf(reader.size, reader.page) <=>
                  Newer(r) >= Reach /\ Newer(r) < Reach + reader.size
           /\ Reach \in Nat /\ reader.size * reader.page = Reach + reader.size
  <1> DEFINE n == reader.size
             p == reader.page
  <1>1. n \in Nat /\ p \in Nat /\ n >= 1 /\ p >= 1 /\ listed \in SUBSET Rows
    BY BoundsAreNat DEF LInv, ReaderInv, TypeOK, Rows
  <1>2. Reach = n * (p - 1)
    BY DEF Reach, PagesFound
  <1>3. n * (p - 1) \in Nat /\ n * p = n * (p - 1) + n
    <2>1. \A a \in Nat, b \in Nat : a * b \in Nat
      OBVIOUS
    <2>2. p - 1 \in Nat
      BY <1>1
    <2>3. n * p = n * (p - 1) + n
      BY <1>1
    <2>4. QED
      BY <1>1, <2>1, <2>2, <2>3
  <1>4. \A r \in listed : /\ Place(Newest, listed, r) = Cardinality({s \in listed : s >= r})
                          /\ Place(Newest, listed, r) = Newer(r) + 1 /\ Newer(r) \in Nat
    BY <1>1, RowsInOrder DEF Newer
  <1>5. PageOf(n, p) = OnPage(Newest, listed, n * (p - 1), n)
    <2>1. (n * (p - 1) + 1)..(n * p) = (n * (p - 1) + 1)..(n * (p - 1) + n)
      BY <1>3
    <2>2. PageOf(n, p) = {r \in listed : Cardinality({s \in listed : s >= r})
                                          \in (n * (p - 1) + 1)..(n * p)}
      BY DEF PageOf
    <2> DEFINE k == n * (p - 1)
               m == n * p
    <2> HIDE DEF k, m
    <2>3. PageOf(n, p) = {r \in listed : Place(Newest, listed, r) \in (k + 1)..m}
      BY <1>4, <2>2 DEF k, m
    <2>4. QED
      BY <2>1, <2>3 DEF OnPage, k, m
  <1>6. Cardinality(OnPage(Newest, listed, n * (p - 1), n)) <= n
    BY <1>1, <1>3, RowsInOrder, PageFits
  <1>7. ASSUME NEW r \in listed
        PROVE  r \in PageOf(n, p) <=> Newer(r) >= Reach /\ Newer(r) < Reach + n
    <2>1. r \in PageOf(n, p) <=> Newer(r) + 1 \in (Reach + 1)..(Reach + n)
      BY <1>2, <1>4, <1>5 DEF OnPage
    <2>2. Newer(r) \in Nat /\ Reach \in Nat
      BY <1>2, <1>3, <1>4
    <2>3. QED
      BY <1>1, <2>1, <2>2
  <1>8. QED
    BY <1>2, <1>3, <1>5, <1>6, <1>7 DEF OnPage

LEMMA Readers ==
    ASSUME LInv
    PROVE  /\ reader.at \in {"rest", "data", "count", "answer", "done"}
           /\ reader.size \in Nat /\ reader.page \in Nat /\ Reach \in Nat
           /\ reader.total \in Nat \union {-1} /\ reader.data \subseteq Rows
           /\ reader = [at |-> reader.at, size |-> reader.size, page |-> reader.page,
                        total |-> reader.total, data |-> reader.data]
           /\ listed \subseteq Rows /\ away \subseteq Rows /\ stamped \subseteq Rows
           /\ there \subseteq listed /\ Rows \subseteq Int /\ left \subseteq Rows
           /\ between \subseteq entered /\ entered \subseteq Rows
           /\ seen \in [Rows -> Nat]
           /\ MaxRows \in Nat /\ MaxChanges \in Nat
           /\ \A r : Newer(r) \in Nat
  <1>1. MaxRows \in Nat /\ MaxChanges \in Nat
    BY BoundsAreNat
  <1>2. reader.size \in Nat /\ reader.page \in Nat /\ reader.page - 1 \in Nat
    BY DEF LInv, ReaderInv
  <1>3. Reach \in Nat
    <2>1. \A a \in Nat, b \in Nat : a * b \in Nat
      OBVIOUS
    <2>2. QED
      BY <1>2, <2>1 DEF Reach, PagesFound
  <1>4. listed \subseteq Rows /\ away \subseteq Rows /\ stamped \subseteq Rows
    BY <1>1 DEF LInv, ReaderInv, TypeOK, Rows
  <1>5. \A r : Newer(r) \in Nat
    BY <1>4, RowsInOrder DEF Newer
  <1>6. Rows \subseteq Int
    BY <1>1 DEF Rows
  <1>7. QED
    BY <1>1, <1>2, <1>3, <1>4, <1>5, <1>6 DEF LInv, ReaderInv, TypeOK

LEMMA InitOK ==
    ASSUME Init
    PROVE  LInv
  <1>1. /\ reader.at = "rest" /\ reader.size = 1 /\ reader.page = 1 /\ reader.total = -1
        /\ reader.data = {}
        /\ reader \in [at : {"rest", "data", "count", "answer", "done"}, size : Nat, page : Nat,
                       total : Nat \union {-1}, data : SUBSET Rows]
    BY DEF Init, Resting, NotRead
  <1>2. Cardinality(reader.data) = 0
    BY <1>1, FS_EmptySet
  <1>3. /\ created \in 0..MaxRows /\ listed = 1..created /\ away = {} /\ stamped = {}
        /\ there = {} /\ entered = {} /\ left = {} /\ between = {}
        /\ changes = 0 /\ list \in {"timeline", "comments"}
        /\ seen = [r \in Rows |-> 0]
    BY DEF Init
  <1>4. TypeOK
    BY <1>1, <1>2, <1>3, BoundsAreNat DEF TypeOK, NotRead, Rows
  <1>5. ReaderInv
    BY <1>1, <1>3, <1>4 DEF ReaderInv
  <1>6. ReachInv
    BY <1>1, <1>3 DEF ReachInv, Had, TwiceOnlyIfNewerCame
  <1>7. CountInv
    BY <1>1 DEF CountInv, ShownUnlessNewerLeft
  <1>8. QED
    BY <1>5, <1>6, <1>7 DEF LInv

\* A step that neither reads nor changes the list keeps what was read.
LEMMA ReadKept ==
    ASSUME LInv, UNCHANGED <<listed, reader, there, entered, left, seen, between>>
    PROVE  ReachInv' /\ CountInv'
  BY DEF LInv, ReachInv, CountInv, Had, Newer, Reach, PagesFound,
         TwiceOnlyIfNewerCame, ShownUnlessNewerLeft, Rows

LEMMA StampOK ==
    ASSUME LInv, Stamp
    PROVE  LInv'
  <1>1. /\ created' = created + 1 /\ created < MaxRows /\ stamped' = stamped \union {created + 1}
        /\ changes' = changes + 1 /\ changes < MaxChanges
        /\ UNCHANGED <<list, listed, away, reader, there, entered, left, seen, between>>
    BY DEF Stamp, Change, walk
  <1>2. created \in 0..MaxRows /\ listed \union away \union stamped \subseteq 1..created
    BY DEF LInv, ReaderInv, TypeOK
  <1>3. created + 1 \notin listed /\ created + 1 \notin away /\ created + 1 \notin stamped
    BY <1>2
  <1>4. /\ created' \in 0..MaxRows /\ changes' \in 0..MaxChanges
        /\ listed \union away \union stamped' \subseteq 1..created'
    BY <1>1, <1>2, Readers DEF LInv, ReaderInv, TypeOK
  <1>5. TypeOK'
    BY <1>1, <1>4 DEF LInv, ReaderInv, TypeOK
  <1>6. ReaderInv'
    BY <1>1, <1>3, <1>5 DEF LInv, ReaderInv
  <1>7. QED
    BY <1>1, <1>6, ReadKept DEF LInv

LEMMA DiscardOK ==
    ASSUME LInv, NEW w \in Rows, Discard(w)
    PROVE  LInv'
  <1>1. /\ stamped' = stamped \ {w}
        /\ UNCHANGED <<list, listed, away, created, reader, changes, there, entered, left, seen, between>>
    BY DEF Discard, walk
  <1>2. ReaderInv'
    BY <1>1 DEF LInv, ReaderInv, TypeOK
  <1>3. QED
    BY <1>1, <1>2, ReadKept DEF LInv

\* A row that comes puts those older than it further back.
LEMMA EntersOK ==
    ASSUME LInv, NEW w \in Rows, w \in stamped \union away, Enters(w),
           away' \subseteq away \ {w}, stamped' \subseteq stamped \ {w}, changes' \in 0..MaxChanges
    PROVE  LInv'
  <1>1. /\ listed' = listed \union {w} /\ entered' = entered \union {w}
        /\ reader' = reader /\ there' = there /\ left' = left /\ seen' = seen
        /\ list' = list /\ created' = created
        /\ between \subseteq between' /\ between' \subseteq between \union {w}
        /\ reader.at = "data" /\ reader.total # -1 => w \in between'
        /\ ~(reader.at = "data" /\ reader.total # -1) => between' = between
    BY DEF Enters, NotRead
  <1>2. w \notin listed /\ w \notin there
    BY DEF LInv, ReaderInv, TypeOK
  <1>3. TypeOK'
    BY <1>1 DEF LInv, ReaderInv, TypeOK
  <1>4. ReaderInv'
    BY <1>1, <1>2, <1>3 DEF LInv, ReaderInv
  <1>5. /\ Reach' = Reach /\ \A r : Had(r)' <=> Had(r)
        /\ \A r : /\ Newer(r)' >= Newer(r) /\ Newer(r)' \in Nat /\ Newer(r) \in Nat
                  /\ Newer(r)' = Newer(r) \/ w > r
        /\ Reach \in Nat
    <2>1. listed \in SUBSET Rows /\ listed' \in SUBSET Rows /\ Reach \in Nat
      BY <1>1, Readers
    <2>2. ASSUME NEW r
          PROVE  /\ Newer(r)' >= Newer(r) /\ Newer(r)' \in Nat /\ Newer(r) \in Nat
                 /\ Newer(r)' = Newer(r) \/ w > r
      BY <1>1, <2>1, NewerMoves
    <2>3. Reach' = Reach
      BY <1>1 DEF Reach, PagesFound
    <2>4. \A r : Had(r)' <=> Had(r)
      BY <1>1 DEF Had
    <2>5. QED
      BY <2>1, <2>2, <2>3, <2>4
  <1>6. ReachInv'
    <2>1. ASSUME NEW r \in there', ~Had(r)', Newer(r)' < Reach'
          PROVE  \E s \in left' : s > r
      <3>1. Newer(r) < Reach /\ ~Had(r) /\ r \in there
        BY <1>1, <1>5, <2>1
      <3>2. QED
        BY <1>1, <3>1 DEF LInv, ReachInv
    <2>2. ASSUME NEW r \in Rows, Had(r)', Newer(r)' >= Reach'
          PROVE  \E s \in entered' : s > r
      <3>1. CASE w > r
        BY <1>1, <3>1
      <3>2. CASE Newer(r)' = Newer(r)
        <4>1. Newer(r) >= Reach /\ Had(r)
          BY <1>5, <2>2, <3>2
        <4>2. QED
          BY <1>1, <4>1 DEF LInv, ReachInv
      <3>3. QED
        BY <1>5, <3>1, <3>2
    <2>3. \A r \in reader'.data : seen'[r] > 0 => \E s \in entered' : s > r
      BY <1>1 DEF LInv, ReachInv
    <2>4. TwiceOnlyIfNewerCame'
      BY <1>1 DEF LInv, ReachInv, TwiceOnlyIfNewerCame, Rows
    <2>5. \A r \in there' : ~Had(r)' /\ Newer(r)' < Reach' => \E s \in left' : s > r
      BY <2>1
    <2>6. \A r \in Rows : Had(r)' /\ Newer(r)' >= Reach' => \E s \in entered' : s > r
      BY <2>2
    <2>7. QED
      BY <2>3, <2>4, <2>5, <2>6 DEF ReachInv, Rows
  <1>7. CountInv'
    <2>1. ASSUME reader.at = "data", reader.total # -1
          PROVE  Cardinality(listed' \ between') <= reader.total
      <3>1. listed' \ between' \subseteq listed \ between
        BY <1>1, <2>1
      <3>2. IsFiniteSet(listed \ between)
        BY Readers, RowsInOrder, FS_Difference
      <3>3. /\ Cardinality(listed' \ between') <= Cardinality(listed \ between)
            /\ Cardinality(listed \ between) \in Nat /\ Cardinality(listed' \ between') \in Nat
        BY <3>1, <3>2, FS_Subset, FS_CardinalityType
      <3>4. Cardinality(listed \ between) <= reader.total
        BY <2>1 DEF LInv, CountInv
      <3>5. QED
        BY <3>3, <3>4, Readers
    <2>2. ShownUnlessNewerLeft'
      BY <1>1 DEF LInv, CountInv, ShownUnlessNewerLeft
    <2>3. QED
      BY <1>1, <1>5, <2>1, <2>2 DEF LInv, CountInv
  <1>8. QED
    BY <1>4, <1>6, <1>7 DEF LInv

\* A row that leaves brings those older than it forward.
LEMMA LeavesOK ==
    ASSUME LInv, NEW w \in Rows, NEW pausing \in BOOLEAN, Leaves(w, pausing)
    PROVE  LInv'
  <1>1. /\ list = "timeline" /\ w \in listed
        /\ listed' = listed \ {w} /\ there' = there \ {w} /\ left' = left \union {w}
        /\ away' \subseteq away \union {w} /\ changes' = changes + 1 /\ changes < MaxChanges
        /\ UNCHANGED <<list, stamped, created, reader, entered, seen, between>>
    BY DEF Leaves, Change
  <1>2. changes' \in 0..MaxChanges
    BY <1>1, Readers DEF LInv, ReaderInv, TypeOK
  <1>3. TypeOK'
    BY <1>1, <1>2 DEF LInv, ReaderInv, TypeOK
  <1>4. ReaderInv'
    BY <1>1, <1>3 DEF LInv, ReaderInv
  <1>5. /\ Reach' = Reach /\ \A r : Had(r)' <=> Had(r)
        /\ \A r : /\ Newer(r)' <= Newer(r) /\ Newer(r)' \in Nat /\ Newer(r) \in Nat
                  /\ Newer(r)' = Newer(r) \/ w > r
        /\ Reach \in Nat
    <2>1. listed \in SUBSET Rows /\ listed' \in SUBSET Rows /\ Reach \in Nat
      BY <1>1, Readers
    <2>2. ASSUME NEW r
          PROVE  /\ Newer(r)' <= Newer(r) /\ Newer(r)' \in Nat /\ Newer(r) \in Nat
                 /\ Newer(r)' = Newer(r) \/ w > r
      BY <1>1, <2>1, NewerMoves
    <2>3. Reach' = Reach
      BY <1>1 DEF Reach, PagesFound
    <2>4. \A r : Had(r)' <=> Had(r)
      BY <1>1 DEF Had
    <2>5. QED
      BY <2>1, <2>2, <2>3, <2>4
  <1>6. ReachInv'
    <2>1. ASSUME NEW r \in there', ~Had(r)', Newer(r)' < Reach'
          PROVE  \E s \in left' : s > r
      <3>1. CASE w > r
        BY <1>1, <3>1
      <3>2. CASE Newer(r)' = Newer(r)
        <4>1. Newer(r) < Reach /\ ~Had(r) /\ r \in there
          BY <1>1, <1>5, <2>1, <3>2
        <4>2. QED
          BY <1>1, <4>1 DEF LInv, ReachInv
      <3>3. QED
        BY <1>5, <3>1, <3>2
    <2>2. ASSUME NEW r \in Rows, Had(r)', Newer(r)' >= Reach'
          PROVE  \E s \in entered' : s > r
      <3>1. Newer(r) >= Reach /\ Had(r)
        BY <1>5, <2>2
      <3>2. QED
        BY <1>1, <3>1 DEF LInv, ReachInv
    <2>3. \A r \in reader'.data : seen'[r] > 0 => \E s \in entered' : s > r
      BY <1>1 DEF LInv, ReachInv
    <2>4. TwiceOnlyIfNewerCame'
      BY <1>1 DEF LInv, ReachInv, TwiceOnlyIfNewerCame, Rows
    <2>5. \A r \in there' : ~Had(r)' /\ Newer(r)' < Reach' => \E s \in left' : s > r
      BY <2>1
    <2>6. \A r \in Rows : Had(r)' /\ Newer(r)' >= Reach' => \E s \in entered' : s > r
      BY <2>2
    <2>7. QED
      BY <2>3, <2>4, <2>5, <2>6 DEF ReachInv, Rows
  <1>7. CountInv'
    <2>1. ASSUME reader.at = "data", reader.total # -1
          PROVE  Cardinality(listed' \ between') <= reader.total
      <3>1. listed' \ between' \subseteq listed \ between
        BY <1>1
      <3>2. IsFiniteSet(listed \ between)
        BY Readers, RowsInOrder, FS_Difference
      <3>3. /\ Cardinality(listed' \ between') <= Cardinality(listed \ between)
            /\ Cardinality(listed \ between) \in Nat /\ Cardinality(listed' \ between') \in Nat
        BY <3>1, <3>2, FS_Subset, FS_CardinalityType
      <3>4. Cardinality(listed \ between) <= reader.total
        BY <2>1 DEF LInv, CountInv
      <3>5. QED
        BY <3>3, <3>4, Readers
    <2>2. ShownUnlessNewerLeft'
      BY <1>1 DEF LInv, CountInv, ShownUnlessNewerLeft
    <2>3. QED
      BY <1>1, <1>5, <2>1, <2>2 DEF LInv, CountInv
  <1>8. QED
    BY <1>4, <1>6, <1>7 DEF LInv

LEMMA CommentOK ==
    ASSUME LInv, NEW w \in Rows, Comment(w)
    PROVE  LInv'
  <1>1. changes' \in 0..MaxChanges
    BY DEF Comment, LInv, ReaderInv, TypeOK
  <1>2. away' = away /\ w \notin away
    BY DEF Comment, LInv, ReaderInv
  <1>3. QED
    BY <1>1, <1>2, EntersOK DEF Comment

LEMMA ReturnsOK ==
    ASSUME LInv, NEW w \in Rows, Returns(w)
    PROVE  LInv'
  <1>1. changes' \in 0..MaxChanges
    BY Readers DEF Returns, Change, LInv, ReaderInv, TypeOK
  <1>2. stamped' = stamped /\ w \notin stamped
    BY DEF Returns, LInv, ReaderInv
  <1>3. QED
    BY <1>1, <1>2, EntersOK DEF Returns

LEMMA OpenOK ==
    ASSUME LInv, NEW size \in Sizes, Open(size)
    PROVE  LInv'
  <1>1. /\ reader'.at = "data" /\ reader'.size = size /\ reader'.page = 1
        /\ reader'.total = -1 /\ reader'.data = {}
        /\ size \in Nat /\ size >= 1
        /\ reader' \in [at : {"rest", "data", "count", "answer", "done"}, size : Nat, page : Nat,
                        total : Nat \union {-1}, data : SUBSET Rows]
    <2>1. reader' = [at |-> "data", size |-> size, page |-> 1, total |-> -1, data |-> {}]
      BY DEF Open, NotRead
    <2>2. size \in Nat /\ size >= 1
      BY PositiveSizes
    <2>3. QED
      BY <2>1, <2>2
  <1>2. /\ there' = listed /\ entered' = {} /\ left' = {}
        /\ seen = [r \in Rows |-> 0] /\ between = {}
        /\ UNCHANGED <<list, listed, away, stamped, created, changes, seen, between>>
    BY DEF Open, LInv, ReaderInv
  <1>3. Cardinality(reader'.data) = 0
    BY <1>1, FS_EmptySet
  <1>4. TypeOK'
    BY <1>1, <1>2, <1>3, Readers DEF LInv, ReaderInv, TypeOK, NotRead
  <1>5. ReaderInv'
    BY <1>1, <1>2, <1>4 DEF LInv, ReaderInv
  <1>6. Reach' = 0 /\ \A r \in Rows : ~Had(r)'
    BY <1>1, <1>2 DEF Reach, PagesFound, Had
  <1>7. ReachInv'
    <2>1. \A r \in there' : ~(Newer(r)' < Reach')
      <3>1. listed' \in SUBSET Rows
        BY <1>2, Readers
      <3>2. \A r : Newer(r)' \in Nat
        <4>1. ASSUME NEW r
              PROVE  Newer(r)' \in Nat
          <5>1. Newer(r)' = Cardinality({s \in listed' : s > r})
            BY DEF Newer
          <5>2. QED
            BY <3>1, <5>1, RowsInOrder
        <4>2. QED
          BY <4>1
      <3>3. QED
        BY <1>6, <3>2
    <2>2. TwiceOnlyIfNewerCame'
      BY <1>2 DEF TwiceOnlyIfNewerCame, Rows
    <2>3. QED
      BY <1>1, <1>6, <2>1, <2>2 DEF ReachInv, Rows
  <1>8. CountInv'
    BY <1>1 DEF CountInv, ShownUnlessNewerLeft
  <1>9. QED
    BY <1>5, <1>7, <1>8 DEF LInv

\* The rows counted after the page was found are at least those beyond reach.
LEMMA CountOK ==
    ASSUME LInv, Count
    PROVE  LInv'
  <1>1. /\ reader.at \in {"data", "count"}
        /\ reader'.at = (IF reader.at = "count" THEN "answer" ELSE "data")
        /\ reader'.size = reader.size /\ reader'.page = reader.page /\ reader'.data = reader.data
        /\ reader'.total = Cardinality(listed)
        /\ reader' = [at |-> reader'.at, size |-> reader.size, page |-> reader.page,
                      total |-> Cardinality(listed), data |-> reader.data]
    BY Readers DEF Count
  <1>2. UNCHANGED <<list, listed, away, stamped, created, changes, there, entered, left, seen, between>>
    BY DEF Count, walk
  <1>3. Cardinality(listed) \in Nat /\ IsFiniteSet(listed)
    BY Readers, RowsInOrder
  <1>4. TypeOK'
    BY <1>1, <1>2, <1>3, Readers DEF LInv, ReaderInv, TypeOK, NotRead
  <1>5. ReaderInv'
    <2>1. /\ reader' \in [at : {"rest", "data", "count", "answer", "done"}, size : Nat, page : Nat,
                          total : Nat \union {-1}, data : SUBSET Rows]
      BY <1>1, <1>3, Readers
    <2>2. QED
      BY <1>1, <1>2, <1>3, <1>4, <2>1 DEF LInv, ReaderInv
  <1>6. Reach' = Reach /\ \A r : (Had(r)' <=> Had(r)) /\ Newer(r)' = Newer(r)
    BY <1>1, <1>2 DEF Reach, PagesFound, Had, Newer
  <1>7. ReachInv'
    BY <1>1, <1>2, <1>6 DEF LInv, ReachInv, TwiceOnlyIfNewerCame, Rows
  <1>8. CountInv'
    <2>1. Cardinality(listed \ between) <= Cardinality(listed)
      BY <1>3, FS_Subset
    <2>2. ASSUME Cardinality(listed) <= Reach, NEW r \in there, ~Had(r)
          PROVE  \E s \in left \union between : s > r
      <3>1. r \in listed /\ listed \in SUBSET Rows
        BY Readers
      <3>2. Newer(r) + 1 <= Cardinality(listed) /\ Newer(r) \in Nat
        <4>1. {s \in listed : s >= r} \subseteq listed
          OBVIOUS
        <4>2. Cardinality({s \in listed : s >= r}) <= Cardinality(listed)
          BY <1>3, <4>1, FS_Subset
        <4>3. Cardinality({s \in listed : s >= r}) = Newer(r) + 1 /\ Newer(r) \in Nat
          BY <3>1, RowsInOrder DEF Newer
        <4>4. QED
          BY <4>2, <4>3
      <3>3. Newer(r) < Reach
        BY <1>3, <2>2, <3>2, Readers
      <3>4. QED
        BY <2>2, <3>3 DEF LInv, ReachInv
    <2>3. ShownUnlessNewerLeft'
      BY <1>1 DEF ShownUnlessNewerLeft
    <2>4. QED
      BY <1>1, <1>2, <1>6, <2>1, <2>2, <2>3 DEF CountInv
  <1>9. QED
    BY <1>5, <1>7, <1>8 DEF LInv

\* Reach grows by the page that is found.  If the count, which was made before, says that
\* it is the last page, whoever is beyond it has someone newer that came in between.
LEMMA FindOK ==
    ASSUME LInv, FindPage
    PROVE  LInv'
  <1> DEFINE P == PageOf(reader.size, reader.page)
  <1>1. /\ reader.at = "data"
        /\ reader'.at = (IF reader.total = -1 THEN "count" ELSE "answer")
        /\ reader'.size = reader.size /\ reader'.page = reader.page /\ reader'.data = P
        /\ reader'.total = reader.total
        /\ reader' = [at |-> reader'.at, size |-> reader.size, page |-> reader.page,
                      total |-> reader.total, data |-> P]
    BY Readers DEF FindPage, NotRead
  <1>2. UNCHANGED <<list, listed, away, stamped, created, changes, there, entered, left, seen, between>>
    BY DEF FindPage, walk
  <1>3. /\ P \subseteq listed /\ Cardinality(P) <= reader.size
        /\ \A r \in listed : r \in P <=> Newer(r) >= Reach /\ Newer(r) < Reach + reader.size
        /\ reader.size * reader.page = Reach + reader.size
    BY <1>1, PageReaches
  <1> HIDE DEF P
  <1>4. TypeOK'
    BY <1>1, <1>2, <1>3, Readers DEF LInv, ReaderInv, TypeOK, NotRead
  <1>5. ReaderInv'
    <2>1. /\ reader' \in [at : {"rest", "data", "count", "answer", "done"}, size : Nat, page : Nat,
                          total : Nat \union {-1}, data : SUBSET Rows]
      BY <1>1, <1>3, Readers
    <2>2. QED
      BY <1>1, <1>2, <1>3, <1>4, <2>1 DEF LInv, ReaderInv
  <1>6. /\ Reach' = Reach + reader.size
        /\ \A r : Newer(r)' = Newer(r)
        /\ \A r : Had(r)' <=> Had(r) \/ r \in P
    <2>1. reader.data = {}
      BY <1>1 DEF LInv, ReaderInv
    <2>2. Reach' = reader.size * reader.page
      BY <1>1 DEF Reach, PagesFound
    <2>3. QED
      BY <1>1, <1>2, <1>3, <2>1, <2>2 DEF Had, Newer
  <1>7. /\ \A r \in there' : ~Had(r)' /\ Newer(r)' < Reach' => \E s \in left' : s > r
        /\ ReachInv'
    <2>1. ASSUME NEW r \in there, ~Had(r)', Newer(r)' < Reach'
          PROVE  \E s \in left : s > r
      <3>1. r \in listed /\ r \notin P /\ ~Had(r) /\ Newer(r) < Reach + reader.size
        BY <1>6, <2>1, Readers
      <3>2. Newer(r) < Reach
        BY <1>3, <3>1, Readers
      <3>3. QED
        BY <3>1, <3>2 DEF LInv, ReachInv
    <2>2. ASSUME NEW r \in Rows, Had(r)', Newer(r)' >= Reach'
          PROVE  \E s \in entered : s > r
      <3>1. Newer(r) >= Reach + reader.size /\ (Had(r) \/ r \in P)
        BY <1>6, <2>2
      <3>2. r \notin P /\ Newer(r) >= Reach
        BY <1>3, <3>1, Readers
      <3>3. QED
        BY <3>1, <3>2 DEF LInv, ReachInv
    <2>3. ASSUME NEW r \in P, seen[r] > 0
          PROVE  \E s \in entered : s > r
      <3>1. Had(r) /\ Newer(r) >= Reach /\ r \in Rows
        BY <1>3, <2>3, Readers DEF Had
      <3>2. QED
        BY <3>1 DEF LInv, ReachInv
    <2>4. TwiceOnlyIfNewerCame'
      BY <1>2 DEF LInv, ReachInv, TwiceOnlyIfNewerCame, Rows
    <2>5. \A r \in there' : ~Had(r)' /\ Newer(r)' < Reach' => \E s \in left' : s > r
      BY <1>2, <2>1
    <2>6. \A r \in Rows : Had(r)' /\ Newer(r)' >= Reach' => \E s \in entered' : s > r
      BY <1>2, <2>2
    <2>7. \A r \in reader'.data : seen'[r] > 0 => \E s \in entered' : s > r
      BY <1>1, <1>2, <2>3
    <2>8. QED
      BY <2>4, <2>5, <2>6, <2>7 DEF ReachInv, Rows
  <1>8. CountInv'
    <2>1. ASSUME reader.total # -1, reader.total <= Reach', NEW r \in there, ~Had(r)'
          PROVE  \E s \in left \union between : s > r
      <3>1. SUFFICES ASSUME ~\E s \in left \union between : s > r
                     PROVE  FALSE
        OBVIOUS
      <3>2. Newer(r) >= Reach'
        BY <1>2, <1>6, <1>7, <2>1, <3>1, Readers
      <3>3. /\ r \in listed /\ r \notin between /\ listed \in SUBSET Rows /\ r \in Int
            /\ listed \subseteq Int
        BY Readers DEF LInv, ReaderInv
      <3>4. {s \in listed : s >= r} \subseteq listed \ between
        <4>1. ASSUME NEW s \in listed, s >= r
              PROVE  s \notin between
          <5>1. s > r \/ s = r
            BY <3>3, <4>1
          <5>2. QED
            BY <3>1, <3>3, <5>1
        <4>2. QED
          BY <4>1
      <3>5. Cardinality({s \in listed : s >= r}) = Newer(r) + 1 /\ Newer(r) \in Nat
        BY <3>3, RowsInOrder DEF Newer
      <3>6. /\ Cardinality({s \in listed : s >= r}) <= Cardinality(listed \ between)
            /\ Cardinality(listed \ between) \in Nat
        <4>1. IsFiniteSet(listed \ between)
          BY <3>3, RowsInOrder, FS_Difference
        <4>2. QED
          BY <3>4, <4>1, FS_Subset, FS_CardinalityType
      <3>7. Cardinality(listed \ between) <= reader.total
        BY <1>1, <2>1 DEF LInv, CountInv
      <3>8. reader.total \in Nat /\ Reach' \in Nat
        BY <1>6, <2>1, Readers
      <3>9. QED
        BY <2>1, <3>2, <3>5, <3>6, <3>7, <3>8
    <2>2. ShownUnlessNewerLeft'
      BY <1>1 DEF ShownUnlessNewerLeft
    <2>3. QED
      BY <1>1, <1>2, <2>1, <2>2 DEF CountInv
  <1>9. QED
    BY <1>5, <1>7, <1>8 DEF LInv

\* What the client is told of the number of pages is what the count says.
LEMMA PagesTold ==
    ASSUME NEW t \in Nat, NEW n \in Nat \ {0}, NEW p \in Nat, p >= TotalPage(t, n)
    PROVE  t <= n * p
  <1> DEFINE q == (t + n - 1) \div n
  <1>1. q \in Int /\ t + n - 1 < n * q + n
    OBVIOUS
  <1>2. p >= q
    BY DEF TotalPage
  <1>3. QED
    BY <1>1, <1>2

LEMMA AnswerOK ==
    ASSUME LInv, Answer
    PROVE  LInv'
  <1>1. /\ reader.at = "answer" /\ reader.total \in Nat
        /\ reader'.at = (IF reader.page < TotalPage(reader.total, reader.size)
                           THEN "data" ELSE "done")
        /\ reader'.size = reader.size /\ reader'.page = reader.page + 1
        /\ reader'.total = -1 /\ reader'.data = {}
        /\ reader' = [at |-> reader'.at, size |-> reader.size, page |-> reader.page + 1,
                      total |-> -1, data |-> {}]
    BY Readers DEF Answer, NotRead, LInv, ReaderInv
  <1>2. UNCHANGED <<list, listed, away, stamped, created, changes, there, entered, left>>
    BY DEF Answer
  <1>3. /\ seen' \in [Rows -> Nat]
        /\ \A r \in Rows : seen'[r] = IF r \in reader.data THEN seen[r] + 1 ELSE seen[r]
    BY Readers DEF Answer
  <1>4. between' = IF reader'.at = "done" THEN between ELSE {}
    BY DEF Answer
  <1>5. Cardinality(reader'.data) = 0
    BY <1>1, FS_EmptySet
  <1>6. TypeOK'
    BY <1>1, <1>2, <1>3, <1>4, <1>5, Readers DEF LInv, ReaderInv, TypeOK, NotRead
  <1>7. ReaderInv'
    BY <1>1, <1>2, <1>6, Readers DEF LInv, ReaderInv
  <1>8. Reach' = Reach /\ \A r \in Rows : (Had(r)' <=> Had(r)) /\ Newer(r)' = Newer(r)
    <2>1. Reach' = Reach
      BY <1>1, Readers DEF Reach, PagesFound
    <2>2. \A r \in Rows : Had(r)' <=> Had(r)
      BY <1>1, <1>3, Readers DEF Had
    <2>3. QED
      BY <1>2, <2>1, <2>2 DEF Newer
  <1>9. ReachInv'
    <2>1. ASSUME NEW r \in Rows, seen'[r] > 1
          PROVE  \E s \in entered : s > r
      <3>1. seen[r] > 1 \/ (seen[r] > 0 /\ r \in reader.data)
        BY <1>3, <2>1, Readers
      <3>2. QED
        BY <3>1 DEF LInv, ReachInv, TwiceOnlyIfNewerCame
    <2>2. TwiceOnlyIfNewerCame'
      BY <1>2, <2>1 DEF TwiceOnlyIfNewerCame, Rows
    <2>3. QED
      BY <1>1, <1>2, <1>8, <2>2, Readers DEF LInv, ReachInv, Rows
  <1>10. CountInv'
    <2>1. ASSUME reader'.at = "done"
          PROVE  \A r \in there : seen'[r] > 0 \/ \E s \in left \union between : s > r
      <3>1. reader.page >= TotalPage(reader.total, reader.size)
        <4>1. TotalPage(reader.total, reader.size) \in Int
          BY <1>1, Readers DEF TotalPage, LInv, ReaderInv
        <4>2. QED
          BY <1>1, <2>1, <4>1, Readers
      <3>2. reader.total <= Reach
        BY <1>1, <3>1, Readers, PagesTold DEF Reach, PagesFound, LInv, ReaderInv
      <3>3. \A r \in there : Had(r) \/ \E s \in left \union between : s > r
        BY <1>1, <3>2 DEF LInv, CountInv
      <3>4. \A r \in Rows : Had(r) => seen'[r] > 0
        BY <1>3, Readers DEF Had
      <3>5. QED
        BY <3>3, <3>4, Readers
    <2>2. ShownUnlessNewerLeft'
      BY <1>2, <1>4, <2>1 DEF ShownUnlessNewerLeft
    <2>3. QED
      BY <1>1, <2>2 DEF CountInv
  <1>11. QED
    BY <1>7, <1>9, <1>10 DEF LInv

LEMMA NextOK ==
    ASSUME LInv, [Next]_vars
    PROVE  LInv'
  <1>1. CASE Adds
    BY <1>1, StampOK, CommentOK, DiscardOK DEF Adds
  <1>2. CASE Moves
    BY <1>2, LeavesOK, ReturnsOK DEF Moves
  <1>3. CASE Reads
    BY <1>3, OpenOK, CountOK, FindOK, AnswerOK DEF Reads
  <1>4. CASE UNCHANGED vars
    <2>1. ReaderInv'
      BY <1>4 DEF vars, LInv, ReaderInv, TypeOK
    <2>2. QED
      BY <1>4, <2>1, ReadKept DEF vars, LInv
  <1>5. QED
    BY <1>1, <1>2, <1>3, <1>4 DEF Next

LEMMA ListingsAreSound == Spec => []LInv
  <1>1. Init => LInv
    BY InitOK
  <1>2. LInv /\ [Next]_vars => LInv'
    BY NextOK
  <1>3. QED
    BY <1>1, <1>2, PTL DEF Spec
-----------------------------------------------------------------------------
\* A page never holds more rows than the client asked for, and what comes and goes is
\* among the rows there are.
THEOREM TypeCorrect == Spec => []TypeOK
  <1>1. LInv => TypeOK
    BY DEF LInv, ReaderInv
  <1>2. QED
    BY <1>1, ListingsAreSound, PTL

\* However many rows there are and whatever the page size: a client that has walked the
\* whole list was shown every row that was there all the time, but for those that a newer
\* row hid by leaving, or by coming between the count and the data of the last page.
THEOREM WalkShowsAll == Spec => []ShownUnlessNewerLeft
  <1>1. LInv => ShownUnlessNewerLeft
    BY DEF LInv, CountInv
  <1>2. QED
    BY <1>1, ListingsAreSound, PTL

\* No row is shown twice unless a newer one came into the list during the walk, a campaign
\* that leaves the timeline and returns to its place included.
THEOREM WalkShowsOnce == Spec => []TwiceOnlyIfNewerCame
  <1>1. LInv => TwiceOnlyIfNewerCame
    BY DEF LInv, ReachInv
  <1>2. QED
    BY <1>1, ListingsAreSound, PTL
-----------------------------------------------------------------------------
(***************************************************************************)
(* Broadcast: the worker that pages through the ACTIVE users.              *)
(***************************************************************************)
Working == worker.at \in {"page", "done"}

\* Who is active, by number.
ByNumber == {p \in Users \X Users : p[1] <= p[2]}
PlaceOf(u) == Place(ByNumber, active, u)

\* The queue, and what an idle worker has.
QueueInv ==
    /\ saves \in 0..MaxSaves /\ faults \in 0..MaxFaults
    /\ unannounced \in BOOLEAN
    /\ adding + jobs <= saves
    /\ Working => jobs >= 1
    /\ worker.at = "idle" => /\ worker = Idle
                             /\ sent = [u \in Users |-> 0]
                             /\ gone = {} /\ joined = {}

\* A job that is the last has read the counters that are there.
FreshInv ==
    Working /\ jobs = 1 /\ adding = 0 /\ ~unannounced => worker.shown = counters

\* Whoever the pages have not reached is still ahead, unless someone before left; whoever
\* they have reached is behind, unless someone before joined.
WalkInv ==
    /\ viewersThen \subseteq viewers
    /\ worker.at = "page" => \A u \in Steady :
           /\ sent[u] = 0 /\ PlaceOf(u) <= worker.skip => \E v \in gone : v < u
           /\ sent[u] > 1 \/ (sent[u] = 1 /\ PlaceOf(u) > worker.skip) => \E v \in joined : v < u
    /\ SentOnceUnlessEarlierMoved

BInv == BroadcastTypeOK /\ QueueInv /\ FreshInv /\ WalkInv

LEMMA UsersInOrder ==
    ASSUME NEW A \in SUBSET Users
    PROVE  /\ InOrder(ByNumber, A)
           /\ \A u \in A : Place(ByNumber, A, u) = Cardinality({v \in A : v <= u})
           /\ Cardinality(A) \in 0..N
  <1>1. N \in Nat
    BY PositiveBatch, SizesAreNat
  <1>2. IsFiniteSet(Users) /\ Cardinality(Users) = N
    BY <1>1, FS_Interval DEF Users
  <1>3. IsFiniteSet(A) /\ Cardinality(A) \in Nat /\ Cardinality(A) <= N
    BY <1>1, <1>2, FS_Subset, FS_CardinalityType
  <1>4. \A x, y \in A : <<x, y>> \in ByNumber <=> x <= y
    BY <1>1 DEF ByNumber
  <1>5. A \subseteq Int
    BY <1>1 DEF Users
  <1>6. InOrder(ByNumber, A)
    BY <1>3, <1>4, <1>5 DEF InOrder
  <1>7. \A u \in A : Upto(ByNumber, A, u) = {v \in A : v <= u}
    BY <1>4 DEF Upto
  <1>8. \A u \in A : Place(ByNumber, A, u) = Cardinality({v \in A : v <= u})
    BY <1>7, Zenon DEF Place
  <1>9. Cardinality(A) \in 0..N
    BY <1>1, <1>3
  <1>10. QED
    BY <1>6, <1>8, <1>9

LEMMA ActiveInOrder ==
    ASSUME BroadcastTypeOK
    PROVE  /\ InOrder(ByNumber, active)
           /\ \A u \in active : PlaceOf(u) = Cardinality({v \in active : v <= u})
           /\ Cardinality(active) \in 0..N
  BY UsersInOrder DEF PlaceOf, BroadcastTypeOK

\* The model's page is a page in order of number.
LEMMA PageInOrder ==
    ASSUME BroadcastTypeOK, worker.skip \in Nat
    PROVE  Page(worker.skip) = OnPage(ByNumber, active, worker.skip, BatchSize)
  BY ActiveInOrder DEF Page, OnPage, PlaceOf

LEMMA Shapes ==
    ASSUME BInv
    PROVE  /\ worker.at \in {"idle", "page", "done"} /\ worker.skip \in 0..N
           /\ worker = Idle <=> worker.at = "idle"
           /\ worker = [at |-> worker.at, shown |-> worker.shown, skip |-> worker.skip]
           /\ worker.shown \in Counters \union {Nothing}
           /\ BatchSize \in Nat /\ BatchSize >= 1
           /\ N \in Nat /\ MaxSaves \in Nat /\ MaxFaults \in Nat
  <1>1. worker = Idle <=> worker.at = "idle"
    BY DEF BInv, QueueInv, Idle
  <1>2. QED
    BY <1>1, PositiveBatch, SizesAreNat DEF BInv, BroadcastTypeOK

LEMMA BInitOK == BroadcastInit => BInv
  <1> SUFFICES ASSUME BroadcastInit
               PROVE  BInv
    OBVIOUS
  <1>1. worker.at = "idle" /\ worker.skip = 0 /\ worker.shown = Nothing
    BY DEF BroadcastInit, Idle
  <1>2. BroadcastTypeOK
    BY <1>1, PositiveBatch, SizesAreNat DEF BroadcastInit, BroadcastTypeOK, Idle
  <1>3. QueueInv
    <2>1. saves = 0 /\ faults = 0 /\ adding = 0 /\ jobs = 0 /\ unannounced = FALSE
      BY DEF BroadcastInit
    <2>2. worker = Idle /\ sent = [u \in Users |-> 0] /\ gone = {} /\ joined = {}
      BY DEF BroadcastInit
    <2>3. saves \in 0..MaxSaves /\ faults \in 0..MaxFaults /\ adding + jobs <= saves
      BY <2>1, PositiveBatch, SizesAreNat
    <2>4. QED
      BY <1>1, <2>1, <2>2, <2>3 DEF QueueInv, Working
  <1>4. FreshInv /\ WalkInv
    BY <1>1 DEF BroadcastInit, FreshInv, WalkInv, Working, SentOnceUnlessEarlierMoved
  <1>5. QED
    BY <1>2, <1>3, <1>4 DEF BInv

\* A step that moves nobody and leaves the worker where it is keeps the walk.
LEMMA WalkKept ==
    ASSUME WalkInv,
           UNCHANGED <<active, worker, progress>>, viewers \subseteq viewers'
    PROVE  WalkInv'
  BY DEF WalkInv, Steady, PlaceOf, SentOnceUnlessEarlierMoved, progress

LEMMA SaveOK ==
    ASSUME BInv, NEW u \in Users, NEW n \in Counters, SaveInteraction(u, n)
    PROVE  BInv'
  <1>1. BroadcastTypeOK' /\ QueueInv'
    BY Shapes DEF BInv, BroadcastTypeOK, QueueInv, Working, SaveInteraction, progress
  <1>2. FreshInv'
    BY Shapes DEF BInv, BroadcastTypeOK, QueueInv, FreshInv, Working, SaveInteraction
  <1>3. WalkInv'
    BY WalkKept DEF BInv, SaveInteraction
  <1>4. QED
    BY <1>1, <1>2, <1>3 DEF BInv

LEMMA AddOK ==
    ASSUME BInv, AddJob
    PROVE  BInv'
  <1>1. BroadcastTypeOK' /\ QueueInv'
    BY Shapes DEF BInv, BroadcastTypeOK, QueueInv, Working, AddJob, progress, campaign
  <1>2. FreshInv'
    BY Shapes DEF BInv, BroadcastTypeOK, QueueInv, FreshInv, Working, AddJob, progress, campaign
  <1>3. WalkInv'
    BY WalkKept DEF BInv, AddJob, campaign
  <1>4. QED
    BY <1>1, <1>2, <1>3 DEF BInv

\* A job that is never added: from now on nothing is said of the last one.
LEMMA AddFailsOK ==
    ASSUME BInv, AddFails
    PROVE  BInv'
  <1>1. BroadcastTypeOK' /\ QueueInv' /\ FreshInv'
    BY Shapes DEF BInv, BroadcastTypeOK, QueueInv, FreshInv, Working, AddFails, progress, campaign
  <1>2. WalkInv'
    BY WalkKept DEF BInv, AddFails, campaign
  <1>3. QED
    BY <1>1, <1>2 DEF BInv

\* Somebody more who is active moves only those after them, and moves them on.
LEMMA ActivateOK ==
    ASSUME BInv, NEW w \in Users, Activate(w)
    PROVE  BInv'
  <1>1. BroadcastTypeOK' /\ QueueInv'
    BY Shapes DEF BInv, BroadcastTypeOK, QueueInv, Working, Activate, campaign
  <1>2. FreshInv'
    BY DEF BInv, FreshInv, Working, Activate, campaign
  <1>3. WalkInv'
    <2>1. /\ viewersThen' = viewersThen /\ viewers' = viewers /\ sent' = sent /\ gone' = gone
          /\ worker' = worker
          /\ active' = active \union {w} /\ w \notin active
          /\ joined \subseteq joined' /\ (worker.at # "idle" => w \in joined')
      BY Shapes DEF Activate, campaign
    <2>2. ASSUME worker.at # "idle", NEW u \in Steady'
          PROVE  /\ u \in Steady
                 /\ PlaceOf(u)' >= PlaceOf(u)
                 /\ PlaceOf(u)' = PlaceOf(u) \/ \E v \in joined' : v < u
                 /\ PlaceOf(u) \in Nat /\ PlaceOf(u)' \in Nat
      <3>1. u \in Steady /\ u \in active /\ u \in active' /\ u \in Users /\ u # w
        BY <2>1, <2>2 DEF Steady, BInv, BroadcastTypeOK
      <3> DEFINE A == {v \in active : v <= u}
                 B == {v \in active' : v <= u}
      <3>2. PlaceOf(u) = Cardinality(A) /\ IsFiniteSet(A)
        BY <3>1, ActiveInOrder, FS_Subset DEF BInv, InOrder
      <3>3. PlaceOf(u)' = Cardinality(B) /\ IsFiniteSet(B)
        <4>1. active' \in SUBSET Users
          BY <1>1 DEF BroadcastTypeOK
        <4>2. PlaceOf(u)' = Place(ByNumber, active', u)
          BY DEF PlaceOf, ByNumber
        <4>3. QED
          BY <3>1, <4>1, <4>2, UsersInOrder, FS_Subset DEF InOrder
      <3>4. Cardinality(A) \in Nat /\ Cardinality(B) \in Nat /\ Cardinality(A) <= Cardinality(B)
        BY <2>1, <3>2, <3>3, FS_Subset, FS_CardinalityType
      <3>5. w <= u \/ A = B
        BY <2>1
      <3>6. w < u \/ A = B
        BY <3>1, <3>5 DEF Users
      <3>7. QED
        BY <2>1, <2>2, <3>1, <3>2, <3>3, <3>4, <3>6
    <2>3. worker.at = "page" => \A u \in Steady' :
              /\ sent[u] = 0 /\ PlaceOf(u)' <= worker.skip => \E v \in gone : v < u
              /\ sent[u] > 1 \/ (sent[u] = 1 /\ PlaceOf(u)' > worker.skip)
                     => \E v \in joined' : v < u
      <3> SUFFICES ASSUME worker.at = "page", NEW u \in Steady'
                   PROVE  /\ sent[u] = 0 /\ PlaceOf(u)' <= worker.skip => \E v \in gone : v < u
                          /\ sent[u] > 1 \/ (sent[u] = 1 /\ PlaceOf(u)' > worker.skip)
                                 => \E v \in joined' : v < u
        OBVIOUS
      <3>1. /\ sent[u] = 0 /\ PlaceOf(u) <= worker.skip => \E v \in gone : v < u
            /\ sent[u] > 1 \/ (sent[u] = 1 /\ PlaceOf(u) > worker.skip)
                     => \E v \in joined : v < u
        BY <2>2 DEF BInv, WalkInv
      <3>2. worker.skip \in Int
        BY Shapes
      <3>3. QED
        BY <2>1, <2>2, <3>1, <3>2
    <2>4. SentOnceUnlessEarlierMoved'
      BY <2>1, <2>2 DEF BInv, WalkInv, SentOnceUnlessEarlierMoved
    <2>5. QED
      BY <2>1, <2>3, <2>4 DEF WalkInv, BInv
  <1>4. QED
    BY <1>1, <1>2, <1>3 DEF BInv

\* Somebody fewer moves only those after them, and moves them back.
LEMMA DeactivateOK ==
    ASSUME BInv, NEW w \in Users, Deactivate(w)
    PROVE  BInv'
  <1>1. BroadcastTypeOK' /\ QueueInv'
    BY Shapes DEF BInv, BroadcastTypeOK, QueueInv, Working, Deactivate, campaign
  <1>2. FreshInv'
    BY DEF BInv, FreshInv, Working, Deactivate, campaign
  <1>3. WalkInv'
    <2>1. /\ viewersThen' = viewersThen /\ viewers' = viewers /\ sent' = sent /\ joined' = joined
          /\ worker' = worker
          /\ active' = active \ {w} /\ w \in active
          /\ gone \subseteq gone' /\ (worker.at # "idle" => w \in gone')
      BY Shapes DEF Deactivate, campaign
    <2>2. ASSUME worker.at # "idle", NEW u \in Steady'
          PROVE  /\ u \in Steady
                 /\ PlaceOf(u)' <= PlaceOf(u)
                 /\ PlaceOf(u)' = PlaceOf(u) \/ \E v \in gone' : v < u
                 /\ PlaceOf(u) \in Nat /\ PlaceOf(u)' \in Nat
      <3>1. u \in Steady /\ u \in active /\ u \in active' /\ u \in Users /\ u # w
        BY <2>1, <2>2 DEF Steady, BInv, BroadcastTypeOK
      <3> DEFINE A == {v \in active : v <= u}
                 B == {v \in active' : v <= u}
      <3>2. PlaceOf(u) = Cardinality(A) /\ IsFiniteSet(A)
        BY <3>1, ActiveInOrder, FS_Subset DEF BInv, InOrder
      <3>3. PlaceOf(u)' = Cardinality(B) /\ IsFiniteSet(B)
        <4>1. active' \in SUBSET Users
          BY <1>1 DEF BroadcastTypeOK
        <4>2. PlaceOf(u)' = Place(ByNumber, active', u)
          BY DEF PlaceOf, ByNumber
        <4>3. QED
          BY <3>1, <4>1, <4>2, UsersInOrder, FS_Subset DEF InOrder
      <3>4. Cardinality(A) \in Nat /\ Cardinality(B) \in Nat /\ Cardinality(B) <= Cardinality(A)
        BY <2>1, <3>2, <3>3, FS_Subset, FS_CardinalityType
      <3>5. w <= u \/ A = B
        BY <2>1
      <3>6. w < u \/ A = B
        BY <3>1, <3>5 DEF Users
      <3>7. QED
        BY <2>1, <2>2, <3>1, <3>2, <3>3, <3>4, <3>6
    <2>3. worker.at = "page" => \A u \in Steady' :
              /\ sent[u] = 0 /\ PlaceOf(u)' <= worker.skip => \E v \in gone' : v < u
              /\ sent[u] > 1 \/ (sent[u] = 1 /\ PlaceOf(u)' > worker.skip)
                     => \E v \in joined : v < u
      <3> SUFFICES ASSUME worker.at = "page", NEW u \in Steady'
                   PROVE  /\ sent[u] = 0 /\ PlaceOf(u)' <= worker.skip => \E v \in gone' : v < u
                          /\ sent[u] > 1 \/ (sent[u] = 1 /\ PlaceOf(u)' > worker.skip)
                                 => \E v \in joined : v < u
        OBVIOUS
      <3>1. /\ sent[u] = 0 /\ PlaceOf(u) <= worker.skip => \E v \in gone : v < u
            /\ sent[u] > 1 \/ (sent[u] = 1 /\ PlaceOf(u) > worker.skip)
                     => \E v \in joined : v < u
        BY <2>2 DEF BInv, WalkInv
      <3>2. worker.skip \in Int
        BY Shapes
      <3>3. QED
        BY <2>1, <2>2, <3>1, <3>2
    <2>4. SentOnceUnlessEarlierMoved'
      BY <2>1, <2>2 DEF BInv, WalkInv, SentOnceUnlessEarlierMoved
    <2>5. QED
      BY <2>1, <2>3, <2>4 DEF WalkInv, BInv
  <1>4. QED
    BY <1>1, <1>2, <1>3 DEF BInv

LEMMA StartOK ==
    ASSUME BInv, StartJob
    PROVE  BInv'
  <1>1. /\ worker'.at = "page" /\ worker'.skip = 0 /\ worker'.shown = counters
        /\ sent = [u \in Users |-> 0] /\ gone = {} /\ joined = {} /\ jobs > 0
    BY Shapes DEF StartJob, BInv, QueueInv
  <1>2. BroadcastTypeOK'
    BY <1>1, Shapes DEF BInv, BroadcastTypeOK, StartJob, campaign
  <1>3. QueueInv'
    BY <1>1 DEF BInv, BroadcastTypeOK, QueueInv, Working, StartJob, campaign
  <1>4. FreshInv'
    BY <1>1 DEF FreshInv, StartJob, campaign
  <1>5. WalkInv'
    <2>1. viewersThen' = viewers /\ viewers' = viewers /\ active' = active
          /\ sent' = sent /\ gone' = gone /\ joined' = joined
      BY DEF StartJob, campaign
    <2>2. ASSUME NEW u \in Steady'
          PROVE  sent'[u] = 0 /\ PlaceOf(u)' \in Nat /\ PlaceOf(u)' >= 1
      <3>1. u \in active' /\ u \in Users
        BY <1>2 DEF Steady, BroadcastTypeOK
      <3>2. InOrder(ByNumber, active')
        BY <1>2, UsersInOrder DEF BroadcastTypeOK
      <3>3. Place(ByNumber, active', u) \in Nat /\ Place(ByNumber, active', u) >= 1
        BY <3>1, <3>2, PlaceFacts
      <3>4. PlaceOf(u)' = Place(ByNumber, active', u)
        BY DEF PlaceOf, ByNumber
      <3>5. QED
        BY <1>1, <2>1, <3>1, <3>3, <3>4
    <2>3. QED
      BY <1>1, <2>1, <2>2 DEF WalkInv, SentOnceUnlessEarlierMoved
  <1>6. QED
    BY <1>2, <1>3, <1>4, <1>5 DEF BInv

\* Whoever is on the page is behind it afterwards, and who is behind it was on it or
\* behind it before.
LEMMA SendOK ==
    ASSUME BInv, SendPage
    PROVE  BInv'
  <1> DEFINE P == Page(worker.skip)
             skip == worker.skip + Cardinality(P)
  <1>1. /\ P = OnPage(ByNumber, active, worker.skip, BatchSize)
        /\ InOrder(ByNumber, active)
        /\ worker.skip \in Nat
    BY Shapes, PageInOrder, ActiveInOrder DEF BInv
  <1>2. /\ IsFiniteSet(P) /\ Cardinality(P) \in Nat /\ Cardinality(P) <= BatchSize
        /\ skip \in 0..N
    <2>1. P # {}
      BY DEF SendPage
    <2>2. /\ IsFiniteSet(P) /\ Cardinality(P) \in Nat /\ Cardinality(P) <= BatchSize
          /\ skip <= Cardinality(active)
      BY <1>1, <2>1, Shapes, PageFits
    <2>3. Cardinality(active) \in 0..N
      BY ActiveInOrder DEF BInv
    <2> HIDE DEF P
    <2>4. QED
      BY <1>1, <2>2, <2>3, Shapes
  <1>3. /\ worker'.at = "page" /\ worker'.shown = worker.shown /\ worker'.skip = skip
        /\ worker' = [at |-> "page", shown |-> worker.shown, skip |-> skip]
        /\ worker.at = "page"
    BY Shapes DEF SendPage
  <1>4. \A u \in Users : sent'[u] = IF u \in P \intersect viewers THEN sent[u] + 1 ELSE sent[u]
    BY DEF SendPage
  <1>5. UNCHANGED <<active, viewers, counters, adding, jobs, saves, faults, gone, joined,
                    viewersThen, unannounced>>
    BY DEF SendPage, campaign
  <1>6. BroadcastTypeOK'
    <2>1. sent' \in [Users -> Nat]
      BY DEF SendPage, BInv, BroadcastTypeOK
    <2>2. worker' \in [at : {"idle", "page", "done"}, shown : Counters \union {Nothing}, skip : 0..N]
      BY <1>2, <1>3, Shapes
    <2>3. QED
      BY <1>5, <2>1, <2>2 DEF BInv, BroadcastTypeOK
  <1>7. QueueInv' /\ FreshInv'
    BY <1>3, <1>5 DEF BInv, QueueInv, FreshInv, Working
  <1>8. WalkInv'
    <2>1. ASSUME NEW u \in Steady
          PROVE  /\ sent'[u] = 0 /\ PlaceOf(u) <= skip => \E v \in gone : v < u
                 /\ sent'[u] > 1 \/ (sent'[u] = 1 /\ PlaceOf(u) > skip)
                        => \E v \in joined : v < u
      <3>1. u \in Users /\ u \in active /\ u \in viewers /\ sent[u] \in Nat
        BY DEF Steady, BInv, BroadcastTypeOK, WalkInv
      <3>2. PlaceOf(u) \in Nat
        BY <1>1, <3>1, PlaceFacts DEF PlaceOf
      <3>3. u \in P <=> PlaceOf(u) \in (worker.skip + 1)..(worker.skip + BatchSize)
        BY <1>1, <3>1 DEF OnPage, PlaceOf
      <3>4. u \in P => PlaceOf(u) <= skip
        BY <1>1, Shapes, PageIsFilled DEF PlaceOf
      <3>5. /\ sent[u] = 0 /\ PlaceOf(u) <= worker.skip => \E v \in gone : v < u
            /\ sent[u] > 1 \/ (sent[u] = 1 /\ PlaceOf(u) > worker.skip)
                   => \E v \in joined : v < u
        BY <1>3 DEF BInv, WalkInv
      <3>6. sent'[u] = IF u \in P THEN sent[u] + 1 ELSE sent[u]
        BY <1>4, <3>1
      <3> HIDE DEF P
      <3>7. CASE u \in P
        BY <1>1, <1>2, <3>1, <3>2, <3>3, <3>4, <3>5, <3>6, <3>7, Shapes
      <3>8. CASE u \notin P
        BY <1>1, <1>2, <3>1, <3>2, <3>3, <3>5, <3>6, <3>8, Shapes
      <3>9. QED
        BY <3>7, <3>8
    <2>2. Steady' = Steady /\ \A u \in Steady : PlaceOf(u)' = PlaceOf(u)
      BY <1>5 DEF Steady, PlaceOf, ByNumber
    <2>3. QED
      BY <1>3, <1>5, <2>1, <2>2 DEF BInv, WalkInv, SentOnceUnlessEarlierMoved
  <1>9. QED
    BY <1>6, <1>7, <1>8 DEF BInv

\* When the page is empty nobody is ahead.
LEMMA LastOK ==
    ASSUME BInv, LastPage
    PROVE  BInv'
  <1>1. /\ worker'.at = "done" /\ worker'.shown = worker.shown
        /\ worker' = [at |-> "done", shown |-> worker.shown, skip |-> worker.skip]
        /\ worker.at = "page"
    BY Shapes DEF LastPage
  <1>2. UNCHANGED <<active, viewers, counters, adding, jobs, saves, faults, sent, gone, joined,
                    viewersThen, unannounced>>
    BY DEF LastPage, campaign, progress
  <1>3. BroadcastTypeOK'
    BY <1>1, <1>2, Shapes DEF BInv, BroadcastTypeOK
  <1>4. QueueInv' /\ FreshInv'
    BY <1>1, <1>2 DEF BInv, QueueInv, FreshInv, Working
  <1>5. WalkInv'
    <2>1. ASSUME NEW u \in Steady
          PROVE  PlaceOf(u) <= worker.skip
      <3>1. u \in active /\ worker.skip \in Nat /\ InOrder(ByNumber, active)
        BY Shapes, ActiveInOrder DEF Steady, BInv
      <3>2. OnPage(ByNumber, active, worker.skip, BatchSize) = {}
        BY Shapes, PageInOrder DEF LastPage, BInv
      <3>3. ~(PlaceOf(u) > worker.skip)
        <4>1. SUFFICES ASSUME PlaceOf(u) > worker.skip
                       PROVE  FALSE
          OBVIOUS
        <4>2. PICK y \in active : Place(ByNumber, active, y) = worker.skip + 1
          BY <3>1, <4>1, PlacesAreTaken DEF PlaceOf
        <4>3. y \in OnPage(ByNumber, active, worker.skip, BatchSize)
          BY <3>1, <4>2, Shapes DEF OnPage
        <4>4. QED
          BY <3>2, <4>3
      <3>4. QED
        BY <3>1, <3>3, PlaceFacts DEF PlaceOf
    <2>2. SentOnceUnlessEarlierMoved'
      BY <1>1, <1>2, <2>1 DEF BInv, WalkInv, SentOnceUnlessEarlierMoved, Steady
    <2>3. QED
      BY <1>1, <1>2, <2>2 DEF BInv, WalkInv
  <1>6. QED
    BY <1>3, <1>4, <1>5 DEF BInv

\* The worker is idle again: it has nothing.
LEMMA IdleOK ==
    ASSUME BInv, worker' = Idle, NoJobYet,
           UNCHANGED <<active, campaign, saves>>,
           faults' \in 0..MaxFaults, unannounced' \in BOOLEAN,
           adding' \in 0..adding, jobs' \in 0..jobs
    PROVE  BInv'
  <1>1. worker'.at = "idle" /\ worker'.skip = 0 /\ worker'.shown = Nothing
    BY DEF Idle
  <1>2. /\ sent' = [u \in Users |-> 0] /\ gone' = {} /\ joined' = {} /\ viewersThen' = {}
    BY DEF NoJobYet
  <1>3. adding' \in Nat /\ jobs' \in Nat /\ adding' + jobs' <= saves /\ saves \in 0..MaxSaves
    <2>1. adding \in Nat /\ jobs \in Nat /\ saves \in Nat /\ adding + jobs <= saves
          /\ saves \in 0..MaxSaves
      BY Shapes DEF BInv, BroadcastTypeOK, QueueInv
    <2>2. adding' \in 0..adding /\ jobs' \in 0..jobs
      OBVIOUS
    <2>3. \A a, j, c, k, m \in Nat : a + j <= m /\ c \in 0..a /\ k \in 0..j => c + k <= m
      OBVIOUS
    <2>4. adding' \in Nat /\ jobs' \in Nat
      BY <2>1, <2>2
    <2>5. QED
      BY <2>1, <2>2, <2>3, <2>4
  <1>4. BroadcastTypeOK'
    BY <1>1, <1>2, <1>3, Shapes DEF BInv, BroadcastTypeOK, campaign, Idle
  <1>5. QueueInv' /\ FreshInv'
    BY <1>1, <1>2, <1>3, Shapes DEF QueueInv, FreshInv, Working
  <1>6. WalkInv'
    BY <1>1, <1>2 DEF WalkInv, SentOnceUnlessEarlierMoved
  <1>7. QED
    BY <1>4, <1>5, <1>6 DEF BInv

LEMMA BNextOK ==
    ASSUME BInv, [BroadcastNext]_broadcastVars
    PROVE  BInv'
  <1>1. CASE \E u \in Users : \E n \in Counters : SaveInteraction(u, n)
    BY <1>1, SaveOK
  <1>2. CASE \E u \in Users : Activate(u)
    BY <1>2, ActivateOK
  <1>3. CASE \E u \in Users : Deactivate(u)
    BY <1>3, DeactivateOK
  <1>4. CASE Works
    <2>1. CASE FinishJob
      <3>1. jobs >= 1 /\ jobs \in Nat /\ adding \in Nat
        BY <2>1 DEF FinishJob, BInv, BroadcastTypeOK, QueueInv, Working
      <3>2. QED
        BY <2>1, <3>1, IdleOK DEF FinishJob, BInv, QueueInv
    <2>2. QED
      BY <1>4, <2>1, AddOK, StartOK, SendOK, LastOK DEF Works
  <1>5. CASE JobFails
    <2>1. jobs >= 1 /\ jobs \in Nat /\ adding \in Nat /\ faults + 1 \in 0..MaxFaults
      BY <1>5, Shapes DEF JobFails, BInv, BroadcastTypeOK, QueueInv, Working
    <2>2. QED
      BY <1>5, <2>1, IdleOK DEF JobFails, BInv, QueueInv
  <1>6. CASE Crash
    <2>1. jobs \in Nat /\ adding \in Nat /\ faults + 1 \in 0..MaxFaults
      BY <1>6, Shapes DEF Crash, BInv, BroadcastTypeOK, QueueInv
    <2>2. unannounced' \in BOOLEAN
      BY <1>6 DEF Crash, BInv, QueueInv
    <2>3. QED
      BY <1>6, <2>1, <2>2, IdleOK DEF Crash, BInv, QueueInv
  <1>7. CASE AddFails
    BY <1>7, AddFailsOK
  <1>8. CASE UNCHANGED broadcastVars
    <2>1. BroadcastTypeOK' /\ QueueInv' /\ FreshInv'
      BY <1>8 DEF broadcastVars, BInv, BroadcastTypeOK, QueueInv, FreshInv, Working
    <2>2. WalkInv'
      BY <1>8, WalkKept DEF broadcastVars, BInv, progress
    <2>3. QED
      BY <2>1, <2>2 DEF BInv
  <1>9. QED
    BY <1>1, <1>2, <1>3, <1>4, <1>5, <1>6, <1>7, <1>8 DEF BroadcastNext

LEMMA BroadcastIsSound ==
    BroadcastSpec => []BInv
  BY BInitOK, BNextOK, PTL DEF BroadcastSpec
-----------------------------------------------------------------------------
\* The offset stays among the users, the queue and the worker's record keep their shapes.
THEOREM BroadcastTypes ==
    BroadcastSpec => []BroadcastTypeOK
  <1>1. BInv => BroadcastTypeOK
    BY DEF BInv
  <1>2. QED
    BY <1>1, BroadcastIsSound, PTL

\* However many users, whatever the batch, and however they come and go between two pages:
\* a job that ends has been sent once to each who stayed, but for those an earlier user's
\* going hid or an earlier user's coming showed twice.
THEOREM SentOnceToTheSteady ==
    BroadcastSpec => []SentOnceUnlessEarlierMoved
  <1>1. BInv => SentOnceUnlessEarlierMoved
    BY DEF BInv, WalkInv
  <1>2. QED
    BY <1>1, BroadcastIsSound, PTL

\* The last job of the queue that ends has told the counters as they are, unless a fault
\* came between a flush and its job.
THEOREM LastWordIsCurrent ==
    BroadcastSpec => []LastJobIsCurrent
  <1>1. BInv => LastJobIsCurrent
    BY DEF BInv, FreshInv, LastJobIsCurrent, Working
  <1>2. QED
    BY <1>1, BroadcastIsSound, PTL
-----------------------------------------------------------------------------
\* What the steps left are made of.
LEMMA StepsCounted ==
    ASSUME BInv
    PROVE  /\ jobs \in Nat /\ adding \in Nat /\ N \in Nat
           /\ StepsTaken \in 0..(N + 2)
           /\ Working => jobs >= 1
           /\ worker.at = "idle" => StepsTaken = 0
           /\ worker.at = "page" => StepsTaken = worker.skip + 1 /\ worker.skip \in 0..N
           /\ worker.at = "done" => StepsTaken = N + 2
  <1>1. jobs \in Nat /\ adding \in Nat
    BY SizesAreNat DEF BInv, BroadcastTypeOK
  <1>2. Working => jobs >= 1
    BY DEF BInv, QueueInv
  <1>3. QED
    BY <1>1, <1>2, Shapes DEF StepsTaken

LEMMA JobsFromAbove ==
    ASSUME NEW a \in Nat, NEW j \in Nat
    PROVE  /\ a * j \in Nat /\ a * (j + 1) = a * j + a
           /\ j >= 1 => a * (j - 1) = a * j - a /\ a * j >= a
           /\ a * j = 0 <=> a = 0 \/ j = 0
  OBVIOUS

LEMMA LeftIsNat ==
    ASSUME BInv
    PROVE  /\ StepsLeft \in Nat
           /\ StepsLeft = 0 <=> jobs = 0 /\ adding = 0
  <1> DEFINE a == N + 3
             b == N + 4
  <1>1. /\ a * jobs \in Nat /\ b * adding \in Nat
        /\ jobs >= 1 => a * jobs >= a
        /\ b * adding = 0 <=> adding = 0
        /\ jobs = 0 => a * jobs = 0
    BY StepsCounted, JobsFromAbove
  <1>2. StepsLeft = a * jobs + b * adding - StepsTaken
    BY DEF StepsLeft
  <1>3. a \in Nat /\ a = N + 3
    BY StepsCounted
  <1> HIDE DEF a, b
  <1>4. CASE jobs = 0
    <2>1. ~Working
      BY <1>4, StepsCounted
    <2>2. StepsTaken = 0
      BY <2>1, StepsCounted, Shapes DEF Working
    <2>3. QED
      BY <1>1, <1>2, <1>4, <2>2, StepsCounted
  <1>5. CASE jobs >= 1
    BY <1>1, <1>2, <1>3, <1>5, StepsCounted
  <1>6. QED
    BY <1>4, <1>5, StepsCounted

\* A step of the worker.
LEMMA WorkCounts ==
    ASSUME BInv, BInv', Works
    PROVE  StepsLeft' < StepsLeft
  <1> DEFINE a == N + 3
             b == N + 4
             t == StepsTaken
  <1>1. /\ StepsLeft = a * jobs + b * adding - t
        /\ StepsLeft' = a * jobs' + b * adding' - t'
    BY DEF StepsLeft
  <1>2. a \in Nat /\ b \in Nat /\ a = N + 3 /\ b = N + 4
    BY StepsCounted
  <1>3. a * jobs \in Int /\ b * adding \in Int /\ t \in Int
    BY <1>2, StepsCounted, JobsFromAbove
  <1>4. CASE AddJob
    <2>1. adding >= 1 /\ adding' = adding - 1 /\ jobs' = jobs + 1 /\ t' = t
      BY <1>4, StepsCounted DEF AddJob, StepsTaken
    <2> HIDE DEF a, b, t
    <2>2. a * jobs' = a * jobs + a /\ b * adding' = b * adding - b
      BY <1>2, <2>1, StepsCounted, JobsFromAbove
    <2>3. QED
      BY <1>1, <1>2, <1>3, <2>1, <2>2, StepsCounted
  <1>5. CASE StartJob
    <2>1. t = 0 /\ t' = 1
      <3>1. worker.at = "idle" /\ worker'.at = "page" /\ worker'.skip = 0
        BY <1>5 DEF StartJob, Idle
      <3>2. QED
        BY <3>1 DEF StepsTaken
    <2>2. jobs' = jobs /\ adding' = adding
      BY <1>5 DEF StartJob
    <2> HIDE DEF a, b, t
    <2>3. QED
      BY <1>1, <1>3, <2>1, <2>2
  <1>6. CASE SendPage
    <2>1. worker'.at = "page" /\ worker'.skip = worker.skip + Cardinality(Page(worker.skip))
      BY <1>6, Shapes DEF SendPage
    <2>2. Cardinality(Page(worker.skip)) >= 1 /\ Cardinality(Page(worker.skip)) \in Nat
      <3>1. Page(worker.skip) \subseteq active /\ Page(worker.skip) # {}
        BY <1>6 DEF SendPage, Page
      <3>2. IsFiniteSet(Page(worker.skip))
        BY <3>1, ActiveInOrder, FS_Subset DEF InOrder, BInv
      <3>3. QED
        BY <3>1, <3>2, FS_EmptySet, FS_CardinalityType
    <2>3. worker.at = "page" /\ t = worker.skip + 1 /\ worker.skip \in Nat
      BY <1>6, StepsCounted DEF SendPage
    <2>4. t' = worker'.skip + 1
      BY <2>1 DEF StepsTaken
    <2>5. jobs' = jobs /\ adding' = adding
      BY <1>6 DEF SendPage
    <2>6. t' > t /\ t' \in Int
      BY <2>1, <2>2, <2>3, <2>4
    <2> HIDE DEF a, b, t
    <2>7. QED
      BY <1>1, <1>3, <2>5, <2>6
  <1>7. CASE LastPage
    <2>1. worker.at = "page" /\ worker'.at = "done" /\ jobs' = jobs /\ adding' = adding
      BY <1>7, Shapes DEF LastPage
    <2>2. t' = N + 2 /\ t < N + 2
      BY <2>1, StepsCounted DEF StepsTaken
    <2> HIDE DEF a, b, t
    <2>3. QED
      BY <1>1, <1>3, <2>1, <2>2, StepsCounted
  <1>8. CASE FinishJob
    <2>1. worker.at = "done" /\ worker'.at = "idle" /\ jobs' = jobs - 1 /\ adding' = adding
      BY <1>8 DEF FinishJob, Idle
    <2>2. t = N + 2 /\ t' = 0 /\ jobs >= 1
      BY <2>1, StepsCounted DEF StepsTaken, Working
    <2> HIDE DEF a, b, t
    <2>3. a * jobs' = a * jobs - a
      BY <1>2, <2>1, <2>2, StepsCounted, JobsFromAbove
    <2>4. QED
      BY <1>1, <1>2, <1>3, <2>1, <2>2, <2>3, StepsCounted
  <1>9. QED
    BY <1>4, <1>5, <1>6, <1>7, <1>8 DEF Works

\* A step that is no interaction and no fault does not bring more to do.
LEMMA RestAddsNothing ==
    ASSUME BInv, BInv', BroadcastNext, ~Works, ~(saves' > saves), ~(faults' > faults)
    PROVE  StepsLeft' = StepsLeft
  <1>1. saves \in Nat /\ faults \in Nat
    BY SizesAreNat DEF BInv, QueueInv
  <1>2. ~\E u \in Users, n \in Counters : SaveInteraction(u, n)
    BY <1>1 DEF SaveInteraction
  <1>3. ~AddFails /\ ~JobFails /\ ~Crash
    BY <1>1 DEF AddFails, JobFails, Crash
  <1>4. \E u \in Users : Activate(u) \/ Deactivate(u)
    BY <1>2, <1>3 DEF BroadcastNext
  <1>5. jobs' = jobs /\ adding' = adding /\ worker' = worker
    BY <1>4 DEF Activate, Deactivate
  <1>6. QED
    BY <1>5 DEF StepsLeft, StepsTaken

\* There is a number of steps after which the queue is empty, if nobody interacts and nothing
\* fails: every step of the worker lowers it, however users come and go.
THEOREM WorkEnds == BroadcastSpec => WorkIsUsedUp
  <1> DEFINE A == /\ Works => StepsLeft' < StepsLeft
                  /\ StepsLeft' > StepsLeft => saves' > saves \/ faults' > faults
  <1>1. BInv => StepsLeft \in Nat
    BY LeftIsNat
  <1>2. /\ BInv /\ BInv' /\ StepsLeft \in Nat /\ (StepsLeft \in Nat)'
        /\ [BroadcastNext]_broadcastVars
        => [A]_broadcastVars
    BY WorkCounts, RestAddsNothing
  <1>3. WorkIsUsedUp <=> [][A]_broadcastVars
    BY DEF WorkIsUsedUp
  <1> HIDE DEF A
  <1>4. QED
    BY <1>1, <1>2, <1>3, BroadcastIsSound, PTL DEF BroadcastSpec

\* And when no step is left, every flushed interaction has been told of.
THEOREM NothingLeftIsNothingToDo ==
    BroadcastSpec => [](StepsLeft \in Nat /\ (StepsLeft = 0 <=> jobs = 0 /\ adding = 0))
  BY LeftIsNat, BroadcastIsSound, PTL
=============================================================================
