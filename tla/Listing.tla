------------------------------- MODULE Listing -------------------------------
(***************************************************************************)
(* GET /inspections: who sees which rows, the arithmetic of pages, and a   *)
(* client that walks through the pages while rows are inserted and patched *)
(* (List in internal/handler/inspection.go, the list queries in            *)
(* internal/repository/postgres.go).                                       *)
(*                                                                         *)
(* scheduled_at comes from the clocks of several processes: rows may be    *)
(* inserted with any stamp, older than others or equal to one.  The order  *)
(* of equal stamps is the database's choice, made anew by each query.      *)
(***************************************************************************)
EXTENDS Integers, FiniteSets, Functions

CONSTANTS
    Rows,          \* inspections
    Users,
    RolesOf,       \* the realm roles in each user's token
    Stamps,        \* bound: readings of the clocks
    MaxUpdates,    \* bound: how many patches
    Numbers,       \* what page and limit may say
    MaxInt,        \* math.MaxInt: an int wraps around behind it
    DefaultLimit,
    MaxLimit,
    Missing,       \* a parameter that is absent or no int; no filter
    Nobody         \* inspector_id IS NULL; of an answer: asked for by nobody

\* An int can count the rows of the table.
ASSUME ConstantsAssumption ==
    /\ IsFiniteSet(Rows) /\ MaxInt \in Nat /\ Cardinality(Rows) <= MaxInt
    /\ Stamps \subseteq Nat \ {0}
    /\ MaxUpdates \in Nat
    /\ Numbers \subseteq -MaxInt - 1 .. MaxInt
    /\ MaxLimit \in Nat /\ DefaultLimit \in 1 .. MaxLimit
    /\ RolesOf \in [Users -> SUBSET {"inspector", "appraiser", "admin"}]
    /\ Missing \notin Int \union Users /\ Nobody \notin Users

VARIABLES
    scheduledAt,  \* of each row, 0 if it is not inserted yet
    updatedAt,
    inspector,    \* inspector_id of each row
    updates,      \* patches so far
    walk,         \* the client: its user, next page (0 before it starts), its limit,
                  \* rows at its start, how often each was shown, rows inserted since
    answer        \* the last answer to anyone, until the table is written; page is
                  \* 0 in one that is no page but a whole list

table == <<scheduledAt, updatedAt, inspector, updates>>
vars == <<table, walk, answer>>

Present == {x \in Rows : scheduledAt[x] # 0}
Unique == {x \in Present : \A y \in Present : scheduledAt[y] = scheduledAt[x] => y = x}

TypeOK ==
    /\ scheduledAt \in [Rows -> Stamps \union {0}]
    /\ updatedAt \in [Rows -> Stamps \union {0}]
    /\ inspector \in [Rows -> Users \union {Nobody}]
    /\ updates \in 0 .. MaxUpdates
    /\ walk.user \in Users \union {Nobody}
    /\ walk.page \in Nat /\ walk.limit \in 1 .. MaxLimit
    /\ walk.start \subseteq Present
    /\ walk.shown \in [Rows -> Nat]
    /\ walk.inserted \in 0 .. Cardinality(Rows)
    /\ walk.done \in BOOLEAN
    /\ answer.code \in {0, 200, 500}
    /\ answer.user \in Users \union {Nobody}
    /\ answer.page \in Nat /\ answer.limit \in 1 .. MaxLimit
    /\ answer.rows \subseteq Present

NoAnswer == [code |-> 0, user |-> Nobody, filter |-> Missing, page |-> 0,
             limit |-> 1, rows |-> {}]

Init ==
    /\ scheduledAt \in [Rows -> Stamps \union {0}]
    /\ updatedAt = scheduledAt
    /\ inspector = [x \in Rows |-> Nobody]
    /\ updates = 0
    /\ walk = [user |-> Nobody, page |-> 0, limit |-> 1, start |-> {},
               shown |-> [x \in Rows |-> 0], inserted |-> 0, done |-> FALSE]
    /\ answer = NoAnswer

-----------------------------------------------------------------------------
(***************************************************************************)
(* The roles, as three places test them.                                   *)
(***************************************************************************)
HasRole(u, role) == role \in RolesOf[u]

\* RequireRoles of GET /inspections: others are answered 403.
RequireRoles(u) == \E role \in {"inspector", "appraiser", "admin"} : HasRole(u, role)

\* Mutant: a broader role is not asked for.
AnyInspector(u) == HasRole(u, "inspector")

\* An inspector without a broader role.
Plain(u) == HasRole(u, "inspector") /\ ~HasRole(u, "appraiser") /\ ~HasRole(u, "admin")

\* What GET, PATCH and the photos of one inspection ask.
CanAccess(u, x) ==
    \/ HasRole(u, "appraiser") \/ HasRole(u, "admin")
    \/ HasRole(u, "inspector") /\ inspector[x] = u

-----------------------------------------------------------------------------
(***************************************************************************)
(* List: parameters, queries and the caller's share.                       *)
(***************************************************************************)
Page(raw) == IF raw = Missing \/ raw < 1 THEN 1 ELSE raw

\* Mutant: the page size has no upper bound.
LimitUnbounded(raw) == IF raw = Missing \/ raw < 1 THEN DefaultLimit ELSE raw

Limit(raw) == IF raw = Missing \/ raw < 1 \/ raw > MaxLimit THEN DefaultLimit ELSE raw

\* What an int holds after a computation with result n.
Wrapped(n) == ((n + MaxInt + 1) % (2 * (MaxInt + 1))) - (MaxInt + 1)

\* Mutant: off by one in the length of a page.
OffsetOverlapping(page, limit) == Wrapped((page - 1) * (limit - 1))

Offset(page, limit) == Wrapped((page - 1) * limit)

\* Mutant: ORDER BY updated_at DESC.
OrdersByUpdate ==
    {rank \in Injection(Present, 0 .. Cardinality(Present) - 1) :
       \A x, y \in Present : updatedAt[x] > updatedAt[y] => rank[x] < rank[y]}

\* ORDER BY scheduled_at DESC: the rank of each row, any one among equals.
Orders ==
    {rank \in Injection(Present, 0 .. Cardinality(Present) - 1) :
       \A x, y \in Present : scheduledAt[x] > scheduledAt[y] => rank[x] < rank[y]}

\* LIMIT limit OFFSET offset.
Cut(rank, limit, offset) == {x \in Present : offset <= rank[x] /\ rank[x] < offset + limit}

\* The rows of one inspector.
ListByInspectorID(u, filter, owner) ==
    answer' = [NoAnswer EXCEPT !.code = 200, !.user = u, !.filter = filter,
                               !.rows = {x \in Present : inspector[x] = owner}]

\* One page of all rows; PostgreSQL refuses a negative OFFSET.
ListAll(u, page, limit) ==
    LET PageOf(code, rows) == [code |-> code, user |-> u, filter |-> Missing,
                               page |-> page, limit |-> limit, rows |-> rows]
        offset == Offset(page, limit)
    IN  \/ offset < 0 /\ answer' = PageOf(500, {})
        \/ /\ offset >= 0
           /\ \E rank \in Orders : answer' = PageOf(200, Cut(rank, limit, offset))

\* List: the filter is for staff.
List(u, filter, rawPage, rawLimit) ==
    \/ Plain(u) /\ ListByInspectorID(u, filter, u)
    \/ ~Plain(u) /\ filter # Missing /\ ListByInspectorID(u, filter, filter)
    \/ ~Plain(u) /\ filter = Missing /\ ListAll(u, Page(rawPage), Limit(rawLimit))

\* One answer to anyone.  It changes nothing for others, so that it is enough to
\* consider it while no walk is under way and after each write once.
Ask(u, filter, rawPage, rawLimit) ==
    /\ walk.page = 0 /\ answer = NoAnswer
    /\ RequireRoles(u)
    /\ List(u, filter, rawPage, rawLimit)
    /\ UNCHANGED <<table, walk>>

\* Somebody to whom all rows are listed starts to walk through the pages.
Begin(u, limit) ==
    /\ walk.page = 0
    /\ RequireRoles(u) /\ ~Plain(u)
    /\ walk' = [walk EXCEPT !.user = u, !.page = 1, !.limit = limit, !.start = Present]
    /\ answer' = NoAnswer
    /\ UNCHANGED table

\* The walking client asks for its next page, and stops at one that is not full.
Turn ==
    /\ walk.page > 0 /\ ~walk.done
    /\ List(walk.user, Missing, walk.page, walk.limit)
    /\ walk' = [walk EXCEPT
                  !.page = @ + 1,
                  !.shown = [x \in Rows |-> @[x] + Cardinality({x} \intersect answer'.rows)],
                  !.done = Cardinality(answer'.rows) < walk.limit]
    /\ UNCHANGED table

-----------------------------------------------------------------------------
(***************************************************************************)
(* The writers, as the list queries see them.                              *)
(***************************************************************************)

\* The consumer's INSERT.
Create(x) ==
    /\ x \notin Present
    /\ \E t \in Stamps :
          /\ scheduledAt' = [scheduledAt EXCEPT ![x] = t]
          /\ updatedAt' = [updatedAt EXCEPT ![x] = t]
    /\ walk' = [walk EXCEPT !.inserted = IF walk.page > 0 THEN @ + 1 ELSE 0]
    /\ answer' = NoAnswer
    /\ UNCHANGED <<inspector, updates>>

\* PATCH: scheduled_at stays.
Update(x) ==
    /\ x \in Present
    /\ updates < MaxUpdates
    /\ updates' = updates + 1
    /\ \E t \in Stamps : updatedAt' = [updatedAt EXCEPT ![x] = t]
    /\ \E u \in Users : inspector' = [inspector EXCEPT ![x] = u]
    /\ answer' = NoAnswer
    /\ UNCHANGED <<scheduledAt, walk>>

-----------------------------------------------------------------------------
Next ==
    \/ Turn
    \/ \E u \in Users, limit \in 1 .. MaxLimit : Begin(u, limit)
    \/ \E u \in Users, filter \in Users \union {Missing},
          page, limit \in Numbers \union {Missing} : Ask(u, filter, page, limit)
    \/ \E x \in Rows : Create(x) \/ Update(x)

Spec == Init /\ [][Next]_vars

-----------------------------------------------------------------------------
(***************************************************************************)
(* Properties.                                                             *)
(***************************************************************************)

\* A walk through the pages shows every row that was there at its start and
\* shares its stamp with no other, whatever is inserted or patched meanwhile:
\* scheduled_at never changes and rows are never deleted, so ranks only grow.
NoRowSkipped == walk.done => \A x \in walk.start \intersect Unique : walk.shown[x] > 0

\* Such a row is shown again only for a row that was inserted meanwhile, and
\* each inserted row repeats one.
Repeats == UNION {{x} \X (2 .. walk.shown[x]) : x \in Unique}
RepeatsAreInserts == Cardinality(Repeats) <= walk.inserted

\* Whether the answer a holds what its reader may open: nothing else, and, if it is
\* no page, all of it, or for staff with a filter all of that inspector's.
AgreesWithAccess(a) ==
    LET mine == {x \in Present : CanAccess(a.user, x)}
        asked == {x \in mine : inspector[x] = a.filter}
        inspectorOnly == RolesOf[a.user] = {"inspector"}
    IN  /\ a.rows \subseteq mine
        /\ a.page = 0 => a.rows = IF inspectorOnly THEN mine ELSE asked

\* The list, the route and the access to one inspection test the roles apart from
\* each other, and agree for every set of roles: no row is listed to somebody who
\* may not open it, and none is left out of a list that is no page.
ListAgreesWithAccess ==
    [][answer' # answer /\ answer'.code = 200 => AgreesWithAccess(answer')]_vars

=============================================================================
