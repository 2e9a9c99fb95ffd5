---------------------------- MODULE ListingProofs ----------------------------
(***************************************************************************)
(* What Listing states of answers and of a walk through the pages holds    *)
(* for every table, page size and width of an int, whatever the writers do *)
(* meanwhile.                                                              *)
(***************************************************************************)
EXTENDS Listing, FiniteSetTheorems, TLAPS

\* The rows that every order puts before x: a number that only grows.
Above(x) == Cardinality({y \in Present : scheduledAt[y] > scheduledAt[x]})

\* The rank at which the walk's next page begins.
Reached == (walk.page - 1) * walk.limit

\* Rows that were shown and that an INSERT has moved behind Reached since.
Pending == {x \in Unique : walk.shown[x] > 0 /\ Above(x) >= Reached}

WalkType ==
    walk \in [user : Users \union {Nobody}, page : Nat, limit : 1 .. MaxLimit,
              start : SUBSET Rows, shown : [Rows -> Nat], inserted : Nat, done : BOOLEAN]

Table ==
    /\ scheduledAt \in [Rows -> Stamps \union {0}]
    /\ updatedAt \in [Rows -> Stamps \union {0}]
    /\ inspector \in [Rows -> Users \union {Nobody}]
    /\ updates \in 0 .. MaxUpdates

Answers ==
    /\ answer.code \in {0, 200, 500}
    /\ answer.user \in Users \union {Nobody}
    /\ answer.page \in Nat /\ answer.limit \in 1 .. MaxLimit
    /\ answer.rows \subseteq Present

\* Before the walk nothing is counted; it counts rows of the table only.  All rows
\* are listed to its user.
CountsRows ==
    /\ walk.inserted <= Cardinality(Present)
    /\ walk.start \subseteq Present
    /\ \A x \in Rows : walk.shown[x] > 0 => x \in Present
    /\ walk.page > 0 => walk.user \in Users /\ RequireRoles(walk.user) /\ ~Plain(walk.user)
    /\ walk.page = 0 =>
         /\ walk.start = {} /\ ~walk.done
         /\ \A x \in Rows : walk.shown[x] = 0

\* Every page before the last one was full: a walk does not run past the table.
WithinTable == walk.page > 0 /\ ~walk.done => Reached <= Cardinality(Present)

\* A row that the walk still owes lies behind Reached.
Owed ==
    walk.page > 0 =>
        \A x \in walk.start \intersect Unique :
            walk.shown[x] = 0 => ~walk.done /\ Above(x) >= Reached

\* An inserted row has paid for each repeat, and for each that is to come.
Paid ==
    /\ IsFiniteSet(Repeats)
    /\ walk.page > 0 => Cardinality(Repeats) + Cardinality(Pending) <= walk.inserted

\* The inductive invariant.
IInv == Table /\ Answers /\ WalkType /\ CountsRows /\ WithinTable /\ Owed /\ Paid

-----------------------------------------------------------------------------
(***************************************************************************)
(* Ranks.                                                                  *)
(***************************************************************************)
LEMMA PresentFinite ==
    /\ IsFiniteSet(Present) /\ Cardinality(Present) \in Nat
    /\ Cardinality(Present) <= Cardinality(Rows) /\ Cardinality(Rows) \in Nat
<1>1. Present \in SUBSET Rows
  BY DEF Present
<1> QED BY <1>1, FS_Subset, FS_CardinalityType, ConstantsAssumption DEF ConstantsAssumption

\* The offset of a page that an int can count is what it should be.
LEMMA WrappedSmall ==
    ASSUME NEW n \in Nat, n <= MaxInt
    PROVE  Wrapped(n) = n
<1> DEFINE half == MaxInt + 1
<1>1. half \in Nat /\ half > 0 /\ n < half
  BY ConstantsAssumption DEF ConstantsAssumption
<1> HIDE DEF half
<1>2. ((n + half) % (2 * half)) - half = n
  BY <1>1
<1> QED BY <1>2, ConstantsAssumption DEF Wrapped, half, ConstantsAssumption

\* A rank is one of the numbers below the number of rows, and each is taken.
LEMMA RankType ==
    ASSUME NEW rank \in Orders
    PROVE  /\ rank \in [Present -> 0 .. Cardinality(Present) - 1]
           /\ \A x, y \in Present : rank[x] = rank[y] => x = y
           /\ \A k \in 0 .. Cardinality(Present) - 1 : \E x \in Present : rank[x] = k
<1> DEFINE n == Cardinality(Present)
           T == 0 .. n - 1
<1>1. rank \in Injection(Present, T)
  BY DEF Orders
<1>2. rank \in [Present -> T] /\ \A x, y \in Present : rank[x] = rank[y] => x = y
  BY <1>1 DEF Injection, IsInjective
<1>3. n \in Nat
  BY PresentFinite
<1>4. IsFiniteSet(T) /\ Cardinality(T) = n
  <2> HIDE DEF n
  <2> QED BY <1>3, FS_Interval
<1>5. rank \in Surjection(Present, T)
  BY <1>1, <1>4, FS_Injection
<1>6. \A k \in T : \E x \in Present : rank[x] = k
  BY <1>5 DEF Surjection
<1> QED BY <1>2, <1>6

\* As many rows have a rank from a to b - 1 as there are such numbers.
LEMMA RanksBetween ==
    ASSUME NEW rank \in Orders, NEW a \in Nat, NEW b \in Nat,
           a <= b, b <= Cardinality(Present)
    PROVE  Cardinality({x \in Present : a <= rank[x] /\ rank[x] < b}) = b - a
<1> DEFINE Q == {x \in Present : a <= rank[x] /\ rank[x] < b}
           T == a .. b - 1
           g == [x \in Q |-> rank[x]]
<1>1. Cardinality(Present) \in Nat
  BY PresentFinite
<1>2. IsFiniteSet(T) /\ Cardinality(T) = b - a
  <2>1. a \in Int /\ b - 1 \in Int /\ (a > b - 1 <=> a = b)
    OBVIOUS
  <2>2. IsFiniteSet(T) /\ Cardinality(T) = IF a > b - 1 THEN 0 ELSE b - 1 - a + 1
    <3> DEFINE c == b - 1
    <3>1. c \in Int
      OBVIOUS
    <3> HIDE DEF c
    <3>2. IsFiniteSet(a .. c) /\ Cardinality(a .. c) = IF a > c THEN 0 ELSE c - a + 1
      BY <2>1, <3>1, FS_Interval
    <3> QED BY <3>2 DEF c
  <2> QED BY <2>1, <2>2
<1>3. g \in [Q -> T]
  BY <1>1, RankType
<1>4. \A x, y \in Q : g[x] = g[y] => x = y
  BY RankType
<1>5. \A k \in T : \E x \in Q : g[x] = k
  <2> SUFFICES ASSUME NEW k \in T PROVE \E x \in Q : g[x] = k
    OBVIOUS
  <2>1. k \in 0 .. Cardinality(Present) - 1
    BY <1>1
  <2>2. PICK x \in Present : rank[x] = k
    BY <2>1, RankType
  <2>3. x \in Q
    BY <2>2
  <2> QED BY <2>2, <2>3
<1>6. g \in Injection(Q, T) /\ g \in Surjection(Q, T)
  BY <1>3, <1>4, <1>5 DEF Injection, IsInjective, Surjection
<1>7. Cardinality(Q) = Cardinality(T)
  BY <1>6, <1>2, FS_Injection
<1> QED BY <1>2, <1>7

\* A row that shares its stamp with no other has the same rank in every order.
LEMMA RankIsAbove ==
    ASSUME Table, NEW rank \in Orders, NEW x \in Unique
    PROVE  rank[x] = Above(x)
<1>1. x \in Present /\ \A y \in Present : scheduledAt[y] = scheduledAt[x] => y = x
  BY DEF Unique
<1>2. Cardinality(Present) \in Nat
  BY PresentFinite
<1>3. /\ rank[x] \in Nat /\ rank[x] <= Cardinality(Present)
      /\ \A y \in Present : rank[y] \in Nat
  BY <1>1, <1>2, RankType
<1>4. \A y \in Present : scheduledAt[y] > scheduledAt[x] <=> rank[y] < rank[x]
  <2> SUFFICES ASSUME NEW y \in Present
               PROVE  scheduledAt[y] > scheduledAt[x] <=> rank[y] < rank[x]
    OBVIOUS
  <2>1. scheduledAt[x] \in Nat /\ scheduledAt[y] \in Nat
    BY <1>1, ConstantsAssumption DEF Table, Present, ConstantsAssumption
  <2>2. /\ scheduledAt[y] > scheduledAt[x] => rank[y] < rank[x]
        /\ scheduledAt[x] > scheduledAt[y] => rank[x] < rank[y]
    BY <1>1 DEF Orders
  <2> QED BY <1>1, <1>3, <2>1, <2>2
<1>5. {y \in Present : scheduledAt[y] > scheduledAt[x]}
        = {y \in Present : 0 <= rank[y] /\ rank[y] < rank[x]}
  BY <1>3, <1>4
<1>6. Cardinality({y \in Present : 0 <= rank[y] /\ rank[y] < rank[x]}) = rank[x] - 0
  BY <1>3, RanksBetween
<1>7. Above(x) = rank[x] - 0
  BY <1>5, <1>6 DEF Above
<1> QED BY <1>3, <1>7

\* A page that begins within the table is full, or the table ends with it.
LEMMA PageIsFull ==
    ASSUME NEW rank \in Orders, NEW limit \in Nat, NEW offset \in Nat,
           offset <= Cardinality(Present)
    PROVE  /\ Cut(rank, limit, offset) \subseteq Present
           /\ Cardinality(Cut(rank, limit, offset)) \in Nat
           /\ Cardinality(Cut(rank, limit, offset)) >= limit
                <=> offset + limit <= Cardinality(Present)
<1> DEFINE n == Cardinality(Present)
<1>1. n \in Nat
  BY PresentFinite
<1>2. \A x \in Present : rank[x] \in Nat /\ rank[x] < n
  BY <1>1, RankType
<1>3. Cut(rank, limit, offset) \in SUBSET Present
  BY DEF Cut
<1>4. Cardinality(Cut(rank, limit, offset)) \in Nat
  BY <1>3, PresentFinite, FS_Subset, FS_CardinalityType
<1>5. CASE offset + limit <= n
  <2>1. Cardinality(Cut(rank, limit, offset)) = (offset + limit) - offset
    BY <1>1, <1>5, RanksBetween DEF Cut
  <2> QED BY <1>3, <1>4, <1>5, <2>1
<1>6. CASE ~(offset + limit <= n)
  <2>1. Cut(rank, limit, offset) = {x \in Present : offset <= rank[x] /\ rank[x] < n}
    BY <1>1, <1>2, <1>6 DEF Cut
  <2>2. Cardinality(Cut(rank, limit, offset)) = n - offset
    BY <1>1, <2>1, RanksBetween
  <2> QED BY <1>1, <1>3, <1>4, <1>6, <2>2
<1> QED BY <1>5, <1>6

LEMMA AboveType ==
    ASSUME NEW x PROVE Above(x) \in Nat
<1>1. {y \in Present : scheduledAt[y] > scheduledAt[x]} \in SUBSET Present
  OBVIOUS
<1> QED BY <1>1, PresentFinite, FS_Subset, FS_CardinalityType DEF Above

\* No two rows with stamps of their own have as many rows before them.
LEMMA AboveDiffers ==
    ASSUME Table, NEW x \in Unique, NEW y \in Unique, Above(x) = Above(y)
    PROVE  x = y
<1> DEFINE higher(z) == {w \in Present : scheduledAt[w] > scheduledAt[z]}
<1>1. \A z \in Present : scheduledAt[z] \in Nat
  BY ConstantsAssumption DEF Table, Present, ConstantsAssumption
<1>2. ASSUME NEW u \in Unique, NEW v \in Unique, scheduledAt[u] > scheduledAt[v]
      PROVE  Above(u) # Above(v)
  <2>1. u \in Present /\ v \in Present
    BY DEF Unique
  <2>2. higher(u) \union {u} \subseteq higher(v) /\ u \notin higher(u)
    BY <1>1, <1>2, <2>1
  <2>3. IsFiniteSet(higher(v)) /\ IsFiniteSet(higher(u))
    <3>1. higher(u) \in SUBSET Present /\ higher(v) \in SUBSET Present
      OBVIOUS
    <3> QED BY <3>1, PresentFinite, FS_Subset
  <2>4. Cardinality(higher(u) \union {u}) = Cardinality(higher(u)) + 1
    BY <2>2, <2>3, FS_AddElement
  <2>5. Cardinality(higher(u) \union {u}) <= Cardinality(higher(v))
    <3>1. higher(u) \union {u} \in SUBSET higher(v)
      BY <2>2
    <3> HIDE DEF higher
    <3> QED BY <2>3, <3>1, FS_Subset
  <2>6. Above(u) = Cardinality(higher(u)) /\ Above(v) = Cardinality(higher(v))
    BY DEF Above
  <2> QED BY <2>4, <2>5, <2>6, AboveType
<1>3. scheduledAt[x] \in Nat /\ scheduledAt[y] \in Nat /\ x \in Present /\ y \in Present
  BY <1>1 DEF Unique
<1>4. scheduledAt[x] = scheduledAt[y]
  BY <1>2, <1>3
<1> QED BY <1>3, <1>4 DEF Unique

-----------------------------------------------------------------------------
(***************************************************************************)
(* The walk.                                                               *)
(***************************************************************************)
LEMMA ReachedType ==
    ASSUME WalkType
    PROVE  /\ Reached \in Int
           /\ walk.page > 0 => Reached \in Nat
           /\ walk.limit \in Nat \ {0} /\ walk.page \in Nat
<1>1. walk.limit \in Nat \ {0} /\ walk.page \in Nat
  BY ConstantsAssumption DEF WalkType, ConstantsAssumption
<1>2. Reached \in Int
  BY <1>1 DEF Reached
<1>3. ASSUME walk.page > 0 PROVE Reached \in Nat
  <2>1. walk.page - 1 \in Nat
    BY <1>1, <1>3
  <2> QED BY <1>1, <2>1 DEF Reached
<1> QED BY <1>1, <1>2, <1>3

\* The next page of the walk begins at Reached: its offset fits into an int.
LEMMA TurnShows ==
    ASSUME IInv, Turn
    PROVE  /\ Reached \in Nat /\ Reached <= Cardinality(Present)
           /\ \E rank \in Orders :
                 answer' = [code |-> 200, user |-> walk.user, filter |-> Missing,
                            page |-> walk.page, limit |-> walk.limit,
                            rows |-> Cut(rank, walk.limit, Reached)]
<1>1. walk.page > 0 /\ ~walk.done /\ WalkType
  BY DEF Turn, IInv
<1>2. Reached \in Nat /\ Reached <= Cardinality(Present)
  BY <1>1, ReachedType DEF IInv, WithinTable
<1>3. Reached <= MaxInt
  BY <1>2, PresentFinite, ConstantsAssumption DEF ConstantsAssumption
<1>4. Page(walk.page) = walk.page /\ Limit(walk.limit) = walk.limit
  <2>1. walk.page \in Int /\ walk.limit \in 1 .. MaxLimit
    BY <1>1 DEF WalkType
  <2>2. walk.page # Missing /\ walk.limit # Missing
    BY <2>1, ConstantsAssumption DEF ConstantsAssumption
  <2> QED BY <1>1, <2>1, <2>2, ConstantsAssumption DEF Page, Limit, ConstantsAssumption
<1>5. Offset(walk.page, walk.limit) = Reached
  BY <1>2, <1>3, WrappedSmall DEF Offset, Reached
<1>6. ListAll(walk.user, walk.page, walk.limit)
  <2>1. ~Plain(walk.user)
    BY <1>1 DEF IInv, CountsRows
  <2>2. List(walk.user, Missing, walk.page, walk.limit)
    BY DEF Turn
  <2> QED BY <1>4, <2>1, <2>2 DEF List
<1>7. ~(Reached < 0)
  BY <1>2
<1> QED BY <1>2, <1>5, <1>6, <1>7 DEF ListAll

\* The fields of the walk after a turn that shows the page rows.
LEMMA TurnWalk ==
    ASSUME WalkType, Turn, answer'.rows \subseteq Rows
    PROVE  /\ WalkType' /\ walk'.page = walk.page + 1
           /\ walk'.user = walk.user
           /\ walk'.limit = walk.limit /\ walk'.start = walk.start
           /\ walk'.inserted = walk.inserted
           /\ walk'.done = (Cardinality(answer'.rows) < walk.limit)
           /\ \A x \in Rows : walk'.shown[x] =
                 IF x \in answer'.rows THEN walk.shown[x] + 1 ELSE walk.shown[x]
<1>1. \A x \in Rows : Cardinality({x} \intersect answer'.rows)
                        = IF x \in answer'.rows THEN 1 ELSE 0
  <2> SUFFICES ASSUME NEW x \in Rows
               PROVE  Cardinality({x} \intersect answer'.rows)
                        = IF x \in answer'.rows THEN 1 ELSE 0
    OBVIOUS
  <2>1. CASE x \in answer'.rows
    <3>1. {x} \intersect answer'.rows = {x}
      BY <2>1
    <3> QED BY <2>1, <3>1, FS_Singleton
  <2>2. CASE x \notin answer'.rows
    <3>1. {x} \intersect answer'.rows = {}
      BY <2>2
    <3> QED BY <2>2, <3>1, FS_EmptySet
  <2> QED BY <2>1, <2>2
<1>2. walk' = [walk EXCEPT
                 !.page = @ + 1,
                 !.shown = [x \in Rows |-> @[x] + Cardinality({x} \intersect answer'.rows)],
                 !.done = Cardinality(answer'.rows) < walk.limit]
  BY DEF Turn
<1>3. walk' = [user |-> walk.user, page |-> walk.page + 1,
               limit |-> walk.limit, start |-> walk.start,
               shown |-> [x \in Rows |-> walk.shown[x]
                                           + Cardinality({x} \intersect answer'.rows)],
               inserted |-> walk.inserted,
               done |-> (Cardinality(answer'.rows) < walk.limit)]
  BY <1>2 DEF WalkType
<1>4. walk.shown \in [Rows -> Nat] /\ walk.page \in Nat
  BY DEF WalkType
<1>5. walk'.shown \in [Rows -> Nat]
  BY <1>1, <1>3, <1>4
<1>6. WalkType'
  BY <1>3, <1>4, <1>5 DEF WalkType
<1> QED BY <1>1, <1>3, <1>4, <1>6

\* Each row of the page that was shown before is repeated once more, and had
\* been paid for.
LEMMA TurnRepeats ==
    ASSUME IInv, Turn, NEW rank \in Orders,
           answer'.rows = Cut(rank, walk.limit, Reached),
           Reached \in Nat
    PROVE  Paid'
<1> DEFINE rows == answer'.rows
           A == {x \in Unique \intersect rows : walk.shown[x] > 0}
           New == {e \in A \X Nat : e[2] = walk.shown[e[1]] + 1}
<1>1. /\ Table /\ WalkType /\ CountsRows /\ Paid /\ walk.page > 0
      /\ walk.shown \in [Rows -> Nat] /\ walk.inserted \in Nat
      /\ walk.limit \in Nat
  BY ReachedType DEF IInv, Turn, WalkType
<1>2. rows \subseteq Present /\ Present \subseteq Rows /\ Unique \subseteq Present
  BY DEF Cut, Present, Unique
<1>3. /\ walk'.page = walk.page + 1 /\ walk'.limit = walk.limit
      /\ walk'.inserted = walk.inserted
      /\ \A x \in Rows : walk'.shown[x] =
            IF x \in rows THEN walk.shown[x] + 1 ELSE walk.shown[x]
  BY <1>1, <1>2, TurnWalk
<1>4. Unique' = Unique /\ \A x : Above(x)' = Above(x)
  BY DEF Turn, table, Unique, Present, Above
<1>5. Reached' = Reached + walk.limit
  BY <1>1, <1>3, ReachedType DEF Reached
<1>6. \A x \in Unique : rank[x] = Above(x) /\ Above(x) \in Nat
  BY <1>1, RankIsAbove, AboveType
<1>7. A \subseteq Pending
  BY <1>2, <1>6 DEF Cut, Pending
<1>8. Pending' \subseteq Pending \ A
  <2> SUFFICES ASSUME NEW x \in Pending' PROVE x \in Pending /\ x \notin A
    OBVIOUS
  <2>1. x \in Unique /\ walk'.shown[x] > 0 /\ Above(x) >= Reached + walk.limit
    BY <1>4, <1>5 DEF Pending
  <2>2. x \notin rows
    BY <1>1, <1>6, <2>1 DEF Cut
  <2>3. walk.shown[x] > 0
    BY <1>2, <1>3, <2>1, <2>2
  <2> QED BY <1>1, <1>6, <2>1, <2>2, <2>3 DEF Pending
<1>9. /\ IsFiniteSet(Pending) /\ IsFiniteSet(A) /\ IsFiniteSet(Pending')
      /\ Cardinality(A) \in Nat /\ Cardinality(Pending') \in Nat /\ Cardinality(Pending) \in Nat
      /\ Cardinality(Pending') <= Cardinality(Pending) - Cardinality(A)
  <2>1. Pending \in SUBSET Present
    BY <1>2 DEF Pending
  <2>2. IsFiniteSet(Pending) /\ Cardinality(Pending) \in Nat
    BY <2>1, PresentFinite, FS_Subset, FS_CardinalityType
  <2>3. A \in SUBSET Pending /\ Pending' \in SUBSET (Pending \ A)
    BY <1>7, <1>8
  <2> HIDE DEF A
  <2>4. IsFiniteSet(A) /\ Cardinality(A) \in Nat
    BY <2>2, <2>3, FS_Subset, FS_CardinalityType
  <2>5. /\ IsFiniteSet(Pending \ A)
        /\ Cardinality(Pending \ A) = Cardinality(Pending) - Cardinality(Pending \intersect A)
    BY <2>2, FS_Difference
  <2>6. Pending \intersect A = A
    BY <2>3
  <2>7. /\ IsFiniteSet(Pending') /\ Cardinality(Pending') \in Nat
        /\ Cardinality(Pending') <= Cardinality(Pending \ A)
    BY <2>3, <2>5, FS_Subset, FS_CardinalityType
  <2> QED BY <2>2, <2>4, <2>5, <2>6, <2>7
<1>10. IsFiniteSet(New) /\ Cardinality(New) \in Nat /\ Cardinality(New) <= Cardinality(A)
  <2> DEFINE g == [e \in New |-> e[1]]
  <2>1. g \in [New -> A]
    OBVIOUS
  <2>2. \A d, e \in New : g[d] = g[e] => d = e
    OBVIOUS
  <2>3. g \in Injection(New, A)
    BY <2>1, <2>2 DEF Injection, IsInjective
  <2> HIDE DEF New, A, g
  <2> QED BY <1>9, <2>3, FS_Injection, FS_CardinalityType
<1>11. Repeats' \subseteq Repeats \union New
  <2> SUFFICES ASSUME NEW e \in Repeats' PROVE e \in Repeats \union New
    OBVIOUS
  <2>1. PICK x \in Unique : e \in {x} \X (2 .. walk'.shown[x])
    BY <1>4 DEF Repeats
  <2>2. PICK k \in 2 .. walk'.shown[x] : e = <<x, k>>
    BY <2>1
  <2>3. x \in Rows /\ walk.shown[x] \in Nat
    BY <1>1, <1>2
  <2>4. CASE k \in 2 .. walk.shown[x]
    BY <2>2, <2>4 DEF Repeats
  <2>5. CASE k \notin 2 .. walk.shown[x]
    <3>1. x \in rows /\ k = walk.shown[x] + 1
      BY <1>3, <2>2, <2>3, <2>5
    <3>2. walk.shown[x] > 0
      BY <2>2, <2>3, <3>1
    <3>3. x \in A
      BY <3>1, <3>2
    <3>4. k \in Nat
      BY <2>3, <3>1
    <3> QED BY <2>2, <3>1, <3>3, <3>4
  <2> QED BY <2>4, <2>5
<1>12. /\ IsFiniteSet(Repeats') /\ Cardinality(Repeats') \in Nat
       /\ Cardinality(Repeats) \in Nat
       /\ Cardinality(Repeats') <= Cardinality(Repeats) + Cardinality(New)
  <2> HIDE DEF New
  <2>1. IsFiniteSet(Repeats) /\ Cardinality(Repeats) \in Nat
    BY <1>1, FS_CardinalityType DEF Paid
  <2>2. /\ IsFiniteSet(Repeats \union New) /\ Cardinality(Repeats \intersect New) \in Nat
        /\ Cardinality(Repeats \union New)
             = Cardinality(Repeats) + Cardinality(New) - Cardinality(Repeats \intersect New)
    BY <1>10, <2>1, FS_Union, FS_Intersection, FS_CardinalityType
  <2>3. Repeats' \in SUBSET (Repeats \union New)
    BY <1>11
  <2>4. /\ IsFiniteSet(Repeats') /\ Cardinality(Repeats') \in Nat
        /\ Cardinality(Repeats') <= Cardinality(Repeats \union New)
    BY <2>2, <2>3, FS_Subset, FS_CardinalityType
  <2> QED BY <1>10, <2>1, <2>2, <2>4
<1>13. Cardinality(Repeats) + Cardinality(Pending) <= walk.inserted
  BY <1>1 DEF Paid
<1> HIDE DEF A, New
<1>14. Cardinality(Repeats') + Cardinality(Pending') <= walk.inserted
  BY <1>1, <1>9, <1>10, <1>12, <1>13
<1> QED BY <1>3, <1>12, <1>14 DEF Paid

LEMMA TurnKeepsIInv == IInv /\ Turn => IInv'
<1> SUFFICES ASSUME IInv, Turn PROVE IInv'
  OBVIOUS
<1>1. Reached \in Nat /\ Reached <= Cardinality(Present) /\ Cardinality(Present) \in Nat
  BY TurnShows, PresentFinite
<1>2. PICK rank \in Orders :
        answer' = [code |-> 200, user |-> walk.user, filter |-> Missing,
                   page |-> walk.page, limit |-> walk.limit,
                   rows |-> Cut(rank, walk.limit, Reached)]
  BY TurnShows
<1>3. /\ Table /\ WalkType /\ CountsRows /\ Owed /\ walk.page > 0 /\ ~walk.done
      /\ walk.page \in Nat /\ walk.limit \in 1 .. MaxLimit /\ walk.limit \in Nat \ {0}
      /\ walk.shown \in [Rows -> Nat]
  BY ReachedType DEF IInv, Turn, WalkType
<1>4. /\ answer'.rows = Cut(rank, walk.limit, Reached) /\ answer'.rows \subseteq Present
      /\ Present \subseteq Rows
  BY <1>2 DEF Cut, Present
<1>5. /\ WalkType' /\ walk'.page = walk.page + 1 /\ walk'.limit = walk.limit
      /\ walk'.user = walk.user
      /\ walk'.start = walk.start /\ walk'.inserted = walk.inserted
      /\ walk'.done = (Cardinality(answer'.rows) < walk.limit)
      /\ \A x \in Rows : walk'.shown[x] =
            IF x \in answer'.rows THEN walk.shown[x] + 1 ELSE walk.shown[x]
  BY <1>3, <1>4, TurnWalk
<1>6. /\ Present' = Present /\ Unique' = Unique /\ (\A x : Above(x)' = Above(x))
      /\ UNCHANGED table
  BY DEF Turn, table, Unique, Present, Above
<1>7. Table' /\ Answers'
  <2>1. Table'
    BY <1>3, <1>6 DEF Table, table
  <2> QED BY <1>2, <1>3, <1>4, <1>6, <2>1 DEF Answers, WalkType
<1>8. CountsRows'
  BY <1>3, <1>4, <1>5, <1>6 DEF CountsRows, WalkType, RequireRoles, Plain
<1>9. /\ Reached' = Reached + walk.limit
      /\ walk'.done <=> Reached' > Cardinality(Present)
  <2>1. Reached' = Reached + walk.limit
    BY <1>3, <1>5, ReachedType DEF Reached
  <2>2. /\ Cardinality(answer'.rows) \in Nat
        /\ Cardinality(answer'.rows) >= walk.limit
             <=> Reached + walk.limit <= Cardinality(Present)
    BY <1>1, <1>3, <1>4, PageIsFull
  <2>3. Cardinality(answer'.rows) < walk.limit
          <=> Reached + walk.limit > Cardinality(Present)
    BY <1>1, <1>3, <2>2
  <2>4. walk'.done <=> Cardinality(answer'.rows) < walk.limit
    BY <1>5, Zenon
  <2> QED BY <2>1, <2>3, <2>4
<1>10. WithinTable'
  BY <1>1, <1>3, <1>6, <1>9 DEF WithinTable
<1>11. Owed'
  <2> SUFFICES ASSUME NEW x \in walk.start \intersect Unique, walk'.shown[x] = 0
               PROVE  ~walk'.done /\ Above(x) >= Reached'
    BY <1>5, <1>6 DEF Owed
  <2>1. x \in Present /\ x \in Rows
    BY <1>4 DEF Unique
  <2>2. walk.shown[x] = 0 /\ x \notin answer'.rows
    BY <1>3, <1>5, <2>1
  <2>3. Above(x) >= Reached /\ Above(x) \in Nat
    BY <1>3, <2>2, AboveType DEF Owed
  <2>4. rank[x] = Above(x) /\ rank[x] < Cardinality(Present)
    BY <1>1, <1>3, <2>1, RankIsAbove, RankType
  <2>5. Above(x) >= Reached + walk.limit
    BY <1>1, <1>3, <1>4, <2>1, <2>2, <2>3, <2>4 DEF Cut
  <2> QED BY <1>1, <1>3, <1>9, <2>3, <2>4, <2>5
<1>12. Paid'
  BY <1>1, <1>4, TurnRepeats
<1> QED BY <1>5, <1>7, <1>8, <1>10, <1>11, <1>12 DEF IInv

LEMMA BeginKeepsIInv ==
    ASSUME IInv, NEW u \in Users, NEW limit \in 1 .. MaxLimit, Begin(u, limit)
    PROVE  IInv'
<1>1. /\ Table /\ WalkType /\ CountsRows /\ walk.page = 0 /\ answer' = NoAnswer
      /\ UNCHANGED table /\ walk.inserted \in Nat
      /\ \A x \in Rows : walk.shown[x] = 0
  BY DEF IInv, Begin, WalkType, CountsRows
<1>2. /\ walk' = [user |-> u, page |-> 1, limit |-> limit, start |-> Present,
                  shown |-> walk.shown, inserted |-> walk.inserted, done |-> FALSE]
      /\ RequireRoles(u) /\ ~Plain(u)
  BY <1>1 DEF Begin, WalkType, CountsRows
<1>3. Present' = Present /\ Unique' = Unique /\ \A x : Above(x)' = Above(x)
  BY <1>1 DEF table, Unique, Present, Above
<1>4. limit \in Nat \ {0} /\ 1 \in 1 .. MaxLimit /\ Present \subseteq Rows
  BY ConstantsAssumption DEF Present, ConstantsAssumption
<1>5. Table' /\ Answers' /\ WalkType' /\ CountsRows'
  <2>1. Table'
    BY <1>1 DEF Table, table
  <2>2. Answers'
    BY <1>1, <1>4 DEF Answers, NoAnswer
  <2>3. WalkType'
    BY <1>1, <1>2, <1>4 DEF WalkType
  <2>4. CountsRows'
    BY <1>1, <1>2, <1>3, <1>4 DEF CountsRows
  <2> QED BY <2>1, <2>2, <2>3, <2>4
<1>6. Reached' = 0
  BY <1>2, <1>4 DEF Reached
<1>7. WithinTable' /\ Owed'
  BY <1>2, <1>3, <1>6, PresentFinite, AboveType DEF WithinTable, Owed
<1>8. Paid'
  <2>1. Unique \subseteq Rows
    BY DEF Unique, Present
  <2>2. Pending' = {}
    BY <1>1, <1>2, <1>3, <2>1 DEF Pending
  <2>3. Repeats' = {}
    <3> SUFFICES ASSUME NEW x \in Unique PROVE 2 .. walk'.shown[x] = {}
      BY <1>3 DEF Repeats
    <3> QED BY <1>1, <1>2, <2>1
  <2> QED BY <1>1, <1>2, <2>2, <2>3, FS_EmptySet DEF Paid
<1> QED BY <1>5, <1>7, <1>8 DEF IInv

\* An INSERT moves the rows behind it by one, and at most one of them past the
\* beginning of the walk's next page.
LEMMA CreateKeepsIInv ==
    ASSUME IInv, NEW x \in Rows, Create(x)
    PROVE  IInv'
<1>1. /\ Table /\ WalkType /\ CountsRows /\ WithinTable /\ Owed /\ Paid
      /\ x \notin Present /\ answer' = NoAnswer /\ UNCHANGED <<inspector, updates>>
      /\ walk.shown \in [Rows -> Nat] /\ walk.inserted \in Nat
      /\ walk.page \in Nat /\ walk.limit \in Nat \ {0} /\ Reached \in Int
      /\ walk' = [walk EXCEPT !.inserted = IF walk.page > 0 THEN @ + 1 ELSE 0]
  BY ReachedType DEF IInv, Create, WalkType
<1>2. PICK t \in Stamps : /\ scheduledAt' = [scheduledAt EXCEPT ![x] = t]
                          /\ updatedAt' = [updatedAt EXCEPT ![x] = t]
  BY DEF Create
<1>3. t \in Nat \ {0}
  BY ConstantsAssumption DEF ConstantsAssumption
<1>4. /\ scheduledAt'[x] = t
      /\ \A y \in Rows \ {x} : scheduledAt'[y] = scheduledAt[y]
      /\ \A y \in Rows : scheduledAt[y] \in Nat /\ scheduledAt'[y] \in Nat
  BY <1>1, <1>2, <1>3, ConstantsAssumption DEF Table, ConstantsAssumption
<1>5. Present' = Present \union {x} /\ Present \subseteq Rows
  BY <1>3, <1>4 DEF Present
<1>6. Cardinality(Present') = Cardinality(Present) + 1 /\ Cardinality(Present) \in Nat
  BY <1>1, <1>5, PresentFinite, FS_AddElement
<1>7. /\ walk'.page = walk.page /\ walk'.limit = walk.limit /\ walk'.start = walk.start
      /\ walk'.shown = walk.shown /\ walk'.done = walk.done
      /\ walk'.inserted = IF walk.page > 0 THEN walk.inserted + 1 ELSE 0
      /\ WalkType' /\ Reached' = Reached
  BY <1>1 DEF WalkType, Reached
<1>8. Unique' \subseteq Unique \union {x}
  <2> SUFFICES ASSUME NEW y \in Unique', y # x PROVE y \in Unique
    OBVIOUS
  <2>1. y \in Present /\ \A z \in Present' : scheduledAt'[z] = scheduledAt'[y] => z = y
    BY <1>5 DEF Unique
  <2> QED BY <1>1, <1>4, <1>5, <2>1 DEF Unique
<1>9. \A y \in Present : /\ Above(y) \in Nat /\ Above(y)' \in Nat
                         /\ Above(y) <= Above(y)' /\ Above(y)' <= Above(y) + 1
  <2> SUFFICES ASSUME NEW y \in Present
               PROVE  /\ Above(y) \in Nat /\ Above(y)' \in Nat
                      /\ Above(y) <= Above(y)' /\ Above(y)' <= Above(y) + 1
    OBVIOUS
  <2> DEFINE higher == {z \in Present : scheduledAt[z] > scheduledAt[y]}
             higherNow == {z \in Present' : scheduledAt'[z] > scheduledAt'[y]}
  <2>1. Above(y) = Cardinality(higher) /\ Above(y)' = Cardinality(higherNow)
    BY DEF Above
  <2>2. higherNow = higher \/ higherNow = higher \union {x}
    <3>1. \A z \in Present : z \in higherNow <=> z \in higher
      BY <1>1, <1>4, <1>5
    <3>2. \A z \in higherNow : z = x \/ z \in Present
      BY <1>5
    <3> QED BY <3>1, <3>2
  <2>3. IsFiniteSet(higher) /\ Cardinality(higher) \in Nat
    <3>1. higher \in SUBSET Present
      OBVIOUS
    <3> HIDE DEF higher
    <3> QED BY <3>1, PresentFinite, FS_Subset, FS_CardinalityType
  <2>4. Cardinality(higher \union {x}) \in {Cardinality(higher), Cardinality(higher) + 1}
    <3> HIDE DEF higher
    <3> QED BY <2>3, FS_AddElement
  <2> HIDE DEF higher, higherNow
  <2>5. Cardinality(higherNow) \in {Cardinality(higher), Cardinality(higher) + 1}
    BY <2>2, <2>4
  <2>6. Above(y)' \in {Above(y), Above(y) + 1} /\ Above(y) \in Nat
    BY <2>1, <2>3, <2>5
  <2> QED BY <2>6
<1>10. Table' /\ Answers'
  <2>1. Table'
    BY <1>1, <1>2 DEF Table
  <2>2. 1 \in 1 .. MaxLimit
    BY ConstantsAssumption DEF ConstantsAssumption
  <2> QED BY <1>1, <2>1, <2>2 DEF Answers, NoAnswer
<1>11. CountsRows' /\ WithinTable'
  BY <1>1, <1>5, <1>6, <1>7 DEF CountsRows, WithinTable
<1>12. Owed'
  <2> SUFFICES ASSUME walk.page > 0, NEW y \in walk.start \intersect Unique',
                      walk.shown[y] = 0
               PROVE  ~walk.done /\ Above(y)' >= Reached
    BY <1>7 DEF Owed
  <2>1. y \in Present /\ y # x
    BY <1>1 DEF CountsRows
  <2> QED BY <1>1, <1>8, <1>9, <2>1 DEF Owed
<1>13. Repeats' \subseteq Repeats /\ x \notin Pending'
  <2>1. walk.shown[x] = 0
    BY <1>1 DEF CountsRows
  <2>2. x \notin Pending' /\ 2 .. walk'.shown[x] = {}
    BY <1>7, <2>1 DEF Pending
  <2> QED BY <1>7, <1>8, <2>2 DEF Repeats
<1>14. \A y, z \in Pending' : y \notin Pending /\ z \notin Pending => y = z
  <2>1. ASSUME NEW y \in Pending', y \notin Pending
        PROVE  y \in Unique /\ Above(y) = Reached - 1
    <3>1. y \in Unique /\ y \in Present /\ walk.shown[y] > 0 /\ Above(y)' >= Reached
      BY <1>7, <1>8, <1>13 DEF Pending, Unique
    <3>2. ~(Above(y) >= Reached)
      BY <2>1, <3>1 DEF Pending
    <3> QED BY <1>1, <1>9, <3>1, <3>2
  <2> SUFFICES ASSUME NEW y \in Pending', NEW z \in Pending',
                      y \notin Pending, z \notin Pending
               PROVE  y = z
    OBVIOUS
  <2>2. y \in Unique /\ z \in Unique /\ Above(y) = Above(z)
    BY <2>1
  <2> QED BY <1>1, <2>2, AboveDiffers
<1>15. /\ IsFiniteSet(Pending) /\ Cardinality(Pending) \in Nat
       /\ IsFiniteSet(Pending') /\ Cardinality(Pending') \in Nat
       /\ Cardinality(Pending') <= Cardinality(Pending) + 1
  <2>1. Pending \in SUBSET Present
    BY DEF Pending, Unique
  <2>2. IsFiniteSet(Pending) /\ Cardinality(Pending) \in Nat
    BY <2>1, PresentFinite, FS_Subset, FS_CardinalityType
  <2>3. PICK y : Pending' \subseteq Pending \union {y}
    BY <1>14
  <2>4. /\ IsFiniteSet(Pending \union {y}) /\ Cardinality(Pending \union {y}) \in Nat
        /\ Cardinality(Pending \union {y}) <= Cardinality(Pending) + 1
    <3>1. /\ IsFiniteSet(Pending \union {y})
          /\ Cardinality(Pending \union {y}) =
               IF y \in Pending THEN Cardinality(Pending) ELSE Cardinality(Pending) + 1
      BY <2>2, FS_AddElement
    <3> QED BY <2>2, <3>1
  <2>5. Pending' \in SUBSET (Pending \union {y})
    BY <2>3
  <2>6. /\ IsFiniteSet(Pending') /\ Cardinality(Pending') \in Nat
        /\ Cardinality(Pending') <= Cardinality(Pending \union {y})
    BY <2>4, <2>5, FS_Subset, FS_CardinalityType
  <2> QED BY <2>2, <2>4, <2>6
<1>16. /\ IsFiniteSet(Repeats') /\ Cardinality(Repeats') \in Nat
       /\ Cardinality(Repeats) \in Nat /\ Cardinality(Repeats') <= Cardinality(Repeats)
  <2>1. Repeats' \in SUBSET Repeats /\ IsFiniteSet(Repeats)
    BY <1>1, <1>13 DEF Paid
  <2> QED BY <2>1, FS_Subset, FS_CardinalityType
<1>17. Paid'
  <2>1. walk.page > 0 => Cardinality(Repeats) + Cardinality(Pending) <= walk.inserted
    BY <1>1 DEF Paid
  <2>2. walk'.page > 0 => Cardinality(Repeats') + Cardinality(Pending') <= walk'.inserted
    BY <1>1, <1>7, <1>15, <1>16, <2>1
  <2> QED BY <1>16, <2>2 DEF Paid
<1> QED BY <1>7, <1>10, <1>11, <1>12, <1>17 DEF IInv

-----------------------------------------------------------------------------
(***************************************************************************)
(* Answers to others, patches.                                             *)
(***************************************************************************)

\* What page and limit come to, whatever the parameters say.
LEMMA ParametersFit ==
    ASSUME NEW rawPage \in Numbers \union {Missing},
           NEW rawLimit \in Numbers \union {Missing}
    PROVE  /\ Page(rawPage) \in Nat /\ Page(rawPage) > 0
           /\ Limit(rawLimit) \in 1 .. MaxLimit
<1>1. Numbers \subseteq Int /\ Missing \notin Int /\ DefaultLimit \in 1 .. MaxLimit
  BY ConstantsAssumption DEF ConstantsAssumption
<1>2. Page(rawPage) \in Nat /\ Page(rawPage) > 0
  BY <1>1 DEF Page
<1>3. Limit(rawLimit) \in 1 .. MaxLimit
  BY <1>1, ConstantsAssumption DEF Limit, ConstantsAssumption
<1> QED BY <1>2, <1>3

\* What an answer to anyone may be: all rows of one inspector, of the caller if a
\* plain inspector asks, or a page for staff.
LEMMA AskShows ==
    ASSUME NEW u \in Users, NEW filter \in Users \union {Missing},
           NEW rawPage \in Numbers \union {Missing},
           NEW rawLimit \in Numbers \union {Missing}, Ask(u, filter, rawPage, rawLimit)
    PROVE  /\ Answers' /\ UNCHANGED <<table, walk>>
           /\ answer'.user = u /\ answer'.filter = filter /\ RequireRoles(u)
           /\ answer'.rows \subseteq Present
           /\ \/ /\ Plain(u) /\ answer'.page = 0
                 /\ answer'.rows = {x \in Present : inspector[x] = u}
              \/ /\ ~Plain(u) /\ answer'.page = 0
                 /\ answer'.rows = {x \in Present : inspector[x] = filter}
              \/ ~Plain(u) /\ answer'.page > 0
<1>1. /\ List(u, filter, rawPage, rawLimit)
      /\ RequireRoles(u) /\ UNCHANGED <<table, walk>>
  BY DEF Ask
<1>2. Present' = Present
  BY <1>1 DEF table, Present
<1>3. ASSUME NEW owner, ListByInspectorID(u, filter, owner)
      PROVE  /\ Answers' /\ answer'.page = 0
             /\ answer'.user = u /\ answer'.filter = filter
             /\ answer'.rows = {x \in Present : inspector[x] = owner}
  <2>1. answer' = [code |-> 200, user |-> u, filter |-> filter, page |-> 0, limit |-> 1,
                   rows |-> {x \in Present : inspector[x] = owner}]
    BY <1>3 DEF ListByInspectorID, NoAnswer
  <2>2. 1 \in 1 .. MaxLimit
    BY ConstantsAssumption DEF ConstantsAssumption
  <2> QED BY <1>2, <2>1, <2>2 DEF Answers
<1>4. ASSUME filter = Missing, ListAll(u, Page(rawPage), Limit(rawLimit))
      PROVE  /\ Answers' /\ answer'.page > 0
             /\ answer'.user = u /\ answer'.filter = filter
             /\ answer'.rows \subseteq Present
  <2> DEFINE page == Page(rawPage)
             limit == Limit(rawLimit)
  <2>1. page \in Nat /\ page > 0 /\ limit \in 1 .. MaxLimit
    BY ParametersFit
  <2>2. PICK code \in {200, 500}, rows \in SUBSET Present :
            answer' = [code |-> code, user |-> u, filter |-> Missing,
                       page |-> page, limit |-> limit, rows |-> rows]
    <3> HIDE DEF page, limit
    <3>1. ListAll(u, page, limit)
      BY <1>4 DEF page, limit
    <3>2. \A rank, offset : Cut(rank, limit, offset) \in SUBSET Present
      BY DEF Cut
    <3> QED BY <3>1, <3>2 DEF ListAll
  <2> HIDE DEF page, limit
  <2> QED BY <1>2, <1>4, <2>1, <2>2 DEF Answers
<1> HIDE DEF Ask
<1>5. CASE Plain(u) /\ ListByInspectorID(u, filter, u)
  BY <1>1, <1>3, <1>5
<1>6. CASE ~Plain(u) /\ filter # Missing /\ ListByInspectorID(u, filter, filter)
  BY <1>1, <1>3, <1>6
<1>7. CASE ~Plain(u) /\ filter = Missing /\ ListAll(u, Page(rawPage), Limit(rawLimit))
  BY <1>1, <1>4, <1>7
<1> QED BY <1>1, <1>5, <1>6, <1>7 DEF List

\* No answer and no patch moves a row: the walk's accounts stand.
LEMMA RestKeepsIInv ==
    ASSUME IInv, Table', Answers', UNCHANGED <<scheduledAt, walk>>
    PROVE  IInv'
<1>1. Present' = Present
  BY DEF Present
<1>2. Unique' = Unique /\ (\A x : Above(x)' = Above(x)) /\ Reached' = Reached
  BY DEF Unique, Present, Above, Reached
<1>3. Repeats' = Repeats /\ Pending' = Pending
  BY <1>2 DEF Repeats, Pending
<1>4. WalkType' /\ CountsRows' /\ WithinTable'
  BY <1>1, <1>2 DEF IInv, WalkType, CountsRows, WithinTable
<1>5. Owed' /\ Paid'
  BY <1>2, <1>3 DEF IInv, Owed, Paid
<1> QED BY <1>4, <1>5 DEF IInv

LEMMA UpdateKeepsIInv ==
    ASSUME IInv, NEW x \in Rows, Update(x)
    PROVE  IInv'
<1>1. UNCHANGED <<scheduledAt, walk>> /\ answer' = NoAnswer /\ Table
  BY DEF Update, IInv
<1>2. Table'
  <2>1. PICK t \in Stamps : updatedAt' = [updatedAt EXCEPT ![x] = t]
    BY DEF Update
  <2>2. PICK u \in Users : inspector' = [inspector EXCEPT ![x] = u]
    BY DEF Update
  <2>3. updates' \in 0 .. MaxUpdates
    BY <1>1, ConstantsAssumption DEF Update, Table, ConstantsAssumption
  <2> QED BY <1>1, <2>1, <2>2, <2>3 DEF Table
<1>3. 1 \in 1 .. MaxLimit
  BY ConstantsAssumption DEF ConstantsAssumption
<1>4. Answers'
  BY <1>1, <1>3 DEF Answers, NoAnswer
<1> QED BY <1>1, <1>2, <1>4, RestKeepsIInv

LEMMA InitIInv == Init => IInv
<1> SUFFICES ASSUME Init PROVE IInv
  OBVIOUS
<1>1. 1 \in 1 .. MaxLimit /\ 0 \in 0 .. MaxUpdates
  BY ConstantsAssumption DEF ConstantsAssumption
<1>2. walk = [user |-> Nobody, page |-> 0, limit |-> 1, start |-> {},
              shown |-> [x \in Rows |-> 0], inserted |-> 0, done |-> FALSE]
  BY DEF Init
<1>3. Table /\ Answers
  BY <1>1 DEF Init, Table, Answers, NoAnswer
<1>4. WalkType /\ CountsRows /\ WithinTable /\ Owed
  BY <1>1, <1>2, PresentFinite DEF WalkType, CountsRows, WithinTable, Owed
<1>5. Paid
  <2>1. Unique \subseteq Rows
    BY DEF Unique, Present
  <2>2. Repeats = {}
    <3> SUFFICES ASSUME NEW x \in Unique PROVE 2 .. walk.shown[x] = {}
      BY DEF Repeats
    <3> QED BY <1>2, <2>1
  <2> QED BY <1>2, <2>2, FS_EmptySet DEF Paid
<1> QED BY <1>3, <1>4, <1>5 DEF IInv

LEMMA NextKeepsIInv == IInv /\ [Next]_vars => IInv'
<1> SUFFICES ASSUME IInv, [Next]_vars PROVE IInv'
  OBVIOUS
<1>1. CASE Turn
  BY <1>1, TurnKeepsIInv
<1>2. ASSUME NEW u \in Users, NEW limit \in 1 .. MaxLimit, Begin(u, limit) PROVE IInv'
  BY <1>2, BeginKeepsIInv
<1>3. ASSUME NEW u \in Users, NEW filter \in Users \union {Missing},
             NEW page \in Numbers \union {Missing}, NEW limit \in Numbers \union {Missing},
             Ask(u, filter, page, limit)
      PROVE  IInv'
  <2>1. Answers' /\ UNCHANGED <<table, walk>>
    BY <1>3, AskShows
  <2>2. Table'
    BY <2>1 DEF IInv, Table, table
  <2> QED BY <2>1, <2>2, RestKeepsIInv DEF table
<1>4. ASSUME NEW x \in Rows, Create(x) PROVE IInv'
  BY <1>4, CreateKeepsIInv
<1>5. ASSUME NEW x \in Rows, Update(x) PROVE IInv'
  BY <1>5, UpdateKeepsIInv
<1>6. CASE UNCHANGED vars
  <2>1. Table' /\ Answers'
    BY <1>6 DEF vars, table, IInv, Table, Answers, Present
  <2> QED BY <1>6, <2>1, RestKeepsIInv DEF vars, table
<1> QED BY <1>1, <1>2, <1>3, <1>4, <1>5, <1>6 DEF Next

-----------------------------------------------------------------------------
(***************************************************************************)
(* The theorems.                                                           *)
(***************************************************************************)
LEMMA SpecKeepsIInv == Spec => []IInv
BY InitIInv, NextKeepsIInv, PTL DEF Spec

\* The tables, the walk and every answer have their types; a page is never
\* longer than the largest page size.
THEOREM TypeCorrect == Spec => []TypeOK
<1>1. IInv => TypeOK
  <2> SUFFICES ASSUME IInv PROVE TypeOK
    OBVIOUS
  <2>1. Table /\ Answers /\ WalkType /\ CountsRows
    BY DEF IInv
  <2>2. walk.inserted \in 0 .. Cardinality(Rows)
    BY <2>1, PresentFinite DEF CountsRows, WalkType
  <2> QED BY <2>1, <2>2 DEF TypeOK, Table, Answers, WalkType, CountsRows
<1> QED BY <1>1, SpecKeepsIInv, PTL

\* A walk through the pages skips no row that was there at its start and shares
\* its stamp with no other, whatever is inserted or patched meanwhile.
THEOREM WalkSkipsNoRow == Spec => []NoRowSkipped
<1>1. IInv => NoRowSkipped
  <2> SUFFICES ASSUME IInv, walk.done, NEW x \in walk.start \intersect Unique
               PROVE  walk.shown[x] > 0
    BY DEF NoRowSkipped
  <2>1. walk.page > 0 /\ walk.shown[x] \in Nat
    BY DEF IInv, CountsRows, WalkType, Unique, Present
  <2>2. walk.shown[x] # 0
    BY <2>1 DEF IInv, Owed
  <2> QED BY <2>1, <2>2
<1> QED BY <1>1, SpecKeepsIInv, PTL

\* The walk repeats at most as many rows as were inserted since it began.
THEOREM RepeatsArePaid == Spec => []RepeatsAreInserts
<1>1. IInv => RepeatsAreInserts
  <2> SUFFICES ASSUME IInv PROVE RepeatsAreInserts
    OBVIOUS
  <2>1. walk.inserted \in Nat /\ walk.page \in Nat
    BY DEF IInv, WalkType
  <2>2. CASE walk.page > 0
    <3>1. Pending \in SUBSET Present
      BY DEF Pending, Unique
    <3>2. Cardinality(Pending) \in Nat /\ Cardinality(Repeats) \in Nat
      BY <3>1, PresentFinite, FS_Subset, FS_CardinalityType DEF IInv, Paid
    <3> QED BY <2>1, <2>2, <3>2 DEF IInv, Paid, RepeatsAreInserts
  <2>3. CASE walk.page = 0
    <3>1. \A x \in Unique : 2 .. walk.shown[x] = {}
      BY <2>3 DEF IInv, CountsRows, Unique, Present
    <3>2. Repeats = {}
      BY <3>1 DEF Repeats
    <3> QED BY <2>1, <3>2, FS_EmptySet DEF RepeatsAreInserts
  <2> QED BY <2>1, <2>2, <2>3
<1> QED BY <1>1, SpecKeepsIInv, PTL

\* Whatever roles the users have: nothing is listed to somebody who may not open it,
\* and a list that is no page leaves out nothing that was asked for.
THEOREM ListsAgree == Spec => ListAgreesWithAccess
<1> DEFINE mine == {x \in Present : CanAccess(answer'.user, x)}
           asked == {x \in mine : inspector[x] = answer'.filter}
           inspectorOnly == RolesOf[answer'.user] = {"inspector"}
           Agrees == answer' # answer /\ answer'.code = 200 => AgreesWithAccess(answer')
<1>1. IInv /\ [Next]_vars => Agrees
  <2> SUFFICES ASSUME IInv, [Next]_vars, answer' # answer, answer'.code = 200 PROVE Agrees
    OBVIOUS
  <2> USE DEF AgreesWithAccess
  <2>1. ASSUME NEW u \in Users, RequireRoles(u), answer'.user = u
        PROVE  /\ Plain(u) => inspectorOnly /\ mine = {x \in Present : inspector[x] = u}
               /\ ~Plain(u) => ~inspectorOnly /\ mine = Present
    <3>1. RolesOf[u] \subseteq {"inspector", "appraiser", "admin"}
      BY ConstantsAssumption DEF ConstantsAssumption
    <3>2. Plain(u) <=> RolesOf[u] = {"inspector"}
      BY <2>1, <3>1 DEF Plain, HasRole, RequireRoles
    <3>3. \A x \in Present : Plain(u) => (CanAccess(u, x) <=> inspector[x] = u)
      BY DEF Plain, CanAccess
    <3>4. \A x \in Present : ~Plain(u) => CanAccess(u, x)
      BY <2>1 DEF Plain, CanAccess, RequireRoles
    <3> QED BY <2>1, <3>2, <3>3, <3>4
  <2>2. ASSUME Turn PROVE Agrees
    <3>1. /\ answer'.user = walk.user /\ answer'.page = walk.page
          /\ answer'.rows \subseteq Present
      BY <2>2, TurnShows DEF Cut
    <3>2. walk.page # 0 /\ walk.user \in Users /\ RequireRoles(walk.user) /\ ~Plain(walk.user)
      BY <2>2 DEF Turn, IInv, CountsRows
    <3>3. mine = Present
      BY <2>1, <3>1, <3>2
    <3> QED BY <3>1, <3>2, <3>3
  <2>3. ASSUME NEW u \in Users, NEW filter \in Users \union {Missing},
               NEW page \in Numbers \union {Missing}, NEW limit \in Numbers \union {Missing},
               Ask(u, filter, page, limit)
        PROVE  Agrees
    <3>1. /\ answer'.user = u /\ answer'.filter = filter /\ RequireRoles(u)
          /\ answer'.rows \subseteq Present
      BY <2>3, AskShows
    <3>2. CASE Plain(u) /\ answer'.page = 0 /\ answer'.rows = {x \in Present : inspector[x] = u}
      BY <2>1, <3>1, <3>2
    <3>3. CASE /\ ~Plain(u) /\ answer'.page = 0
               /\ answer'.rows = {x \in Present : inspector[x] = filter}
      BY <2>1, <3>1, <3>3
    <3>4. CASE ~Plain(u) /\ answer'.page > 0
      BY <2>1, <3>1, <3>4
    <3> QED BY <2>3, <3>2, <3>3, <3>4, AskShows
  <2>4. ASSUME answer' = NoAnswer PROVE FALSE
    BY <2>4 DEF NoAnswer
  <2> HIDE DEF Agrees
  <2> QED BY <2>2, <2>3, <2>4 DEF Next, Begin, Create, Update, vars
<1>2. Spec => [][Agrees]_vars
  BY <1>1, SpecKeepsIInv, PTL DEF Spec
<1> QED BY <1>2 DEF ListAgreesWithAccess

=============================================================================
