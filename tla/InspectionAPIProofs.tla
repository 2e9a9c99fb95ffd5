------------------------- MODULE InspectionAPIProofs -------------------------
(***************************************************************************)
(* OneEventPerCompletion and CompletionAnswersAreTrue hold for any number  *)
(* of requests, users and inspections; PatchKeepsOthers does as long as no *)
(* two requests stamp a row with the same microsecond.                     *)
(***************************************************************************)
EXTENDS InspectionAPI, FiniteSetTheorems, TLAPS

InTx == {"txInsert", "txCommit"}

\* Where a request stands says what it was sent for and what it has seen.
FlowAt(p) ==
    LET op == req[p].op
        r == row[req[p].insp]
    IN /\ pc[p] \in InTx \union {"txUpdate"} => op = "complete"
       /\ pc[p] = "update" => op = "update"
       /\ pc[p] = "insertPhoto" => op = "photo"
       /\ pc[p] = "exists" => op \in {"update", "complete"}
       /\ pc[p] \in InFlight \ {"authRead"} => op # "get" /\ r.status # "absent"
       /\ pc[p] = "readPhotos" =>
             /\ snap[p].status # "absent"
             /\ snap[p].status = "completed" => r.status = "completed"
       /\ pc[p] = "exists" /\ op = "complete" => r.status = "completed"

FlowOK == \A p \in Procs : FlowAt(p)

\* An open transaction holds the lock of a row that is still scheduled.
LocksAt(p) ==
    pc[p] \in InTx =>
        /\ lock[req[p].insp] = p
        /\ row[req[p].insp].status = "scheduled"

LocksOK == \A p \in Procs : LocksAt(p)

\* CompletionAnswersAreTrue for one request.
TrueAt(p) ==
    pc[p] = "done" /\ req[p].op = "complete" =>
        /\ resp[p] = 200 => \E e \in outbox : e.by = p /\ e.insp = req[p].insp
        /\ resp[p] \in {409, 422} =>
               \E e \in outbox : e.by # p /\ e.insp = req[p].insp

\* The request of an event has ended.
EventsAnswered ==
    \A e \in outbox :
        /\ pc[e.by] = "done"
        /\ req[e.by].insp = e.insp
        /\ resp[e.by] \in {200, 500}

\* The inductive invariant.
IInv ==
    /\ TypeOK
    /\ FlowOK
    /\ LocksOK
    /\ EventsAnswered
    /\ OneEventPerCompletion
    /\ \A p \in Procs : TrueAt(p)

-----------------------------------------------------------------------------
\* A request that has a stamp to write.
Stamped == {p \in Procs : pc[p] \in InTx \union {"txUpdate", "update"}}

\* A request that may still write what it read.
Reading == {p \in Procs : pc[p] \in {"readPhotos", "update"}}

\* No version is used twice, and a version determines the columns.
VersionsOK ==
    /\ \A i \in Inspections : row[i].updatedAt <= clock
    /\ \A p \in Procs : snap[p].updatedAt <= clock /\ stamp[p] <= clock
    /\ \A p \in Stamped, i \in Inspections : stamp[p] # row[i].updatedAt
    /\ \A p \in Stamped, q \in Procs : stamp[p] # snap[q].updatedAt
    /\ \A p, q \in Stamped : stamp[p] = stamp[q] => p = q
    /\ \A p \in Reading :
          snap[p].updatedAt = row[req[p].insp].updatedAt =>
              snap[p].cols = row[req[p].insp].cols

-----------------------------------------------------------------------------
\* A patch keeps the columns well typed: it never writes a NULL.
LEMMA PatchedType ==
    ASSUME NEW cols \in [Columns -> Values], NEW patch \in Patches \union {<<>>}
    PROVE  Patched(cols, patch) \in [Columns -> Values]
<1> SUFFICES ASSUME NEW c \in Columns, c \in DOMAIN patch
             PROVE  patch[c] \in Values
  BY DEF Patched
<1>1. patch # <<>>
  BY DEF Columns
<1> QED BY <1>1, ConstantsAssumption DEF ConstantsAssumption, PatchAssumption

LEMMA InitType == Init => TypeOK
<1> SUFFICES ASSUME Init PROVE TypeOK
  OBVIOUS
<1> USE DEF Init
<1>1. NoRow \in Row /\ NoColumns \in [Columns -> Values]
  BY DEF NoRow, NoColumns, Row, Statuses, Values
<1>2. \A u \in Users \union {Nil} :
        [NoRow EXCEPT !.status = "scheduled", !.cols["inspector_id"] = u] \in Row
  BY <1>1 DEF NoRow, NoColumns, Row, Statuses, Values, Columns
<1>3. row \in [Inspections -> Row]
  <2> DEFINE old == {NoRow} \union
                    {[NoRow EXCEPT !.status = "scheduled", !.cols["inspector_id"] = u] :
                         u \in Users \union {Nil}}
  <2>1. row \in [Inspections -> old]
    OBVIOUS
  <2>2. old \subseteq Row
    BY <1>1, <1>2
  <2> QED BY <2>1, <2>2
<1> QED BY <1>1, <1>3 DEF TypeOK

LEMMA CountType ==
    ASSUME TypeOK, NEW i \in Inspections PROVE Cardinality(photos[i]) \in Nat
<1>1. photos[i] \subseteq Procs
  BY DEF TypeOK
<1> QED BY <1>1, FS_Subset, FS_CardinalityType, ConstantsAssumption
        DEF ConstantsAssumption

LEMMA ClockType ==
    ASSUME TypeOK, NEW p \in Procs, ReadClock(p)
    PROVE  clock' \in Nat /\ stamp' \in [Procs -> Nat]
BY DEF TypeOK, ReadClock, Now

\* The part of TypeOK about where requests stand.
ControlOK ==
    /\ req \in [Procs -> Request \union {<<>>}]
    /\ pc \in [Procs -> InFlight \union {"idle", "done", "lost"}]
    /\ \A p \in Procs : req[p] = <<>> <=> pc[p] = "idle"
    /\ resp \in [Procs -> {0, 200, 201, 403, 404, 409, 422, 500}]

LEMMA GotoType ==
    ASSUME TypeOK, NEW p \in Procs, pc[p] # "idle", NEW l \in InFlight, Goto(p, l),
           UNCHANGED req
    PROVE  ControlOK'
BY DEF TypeOK, ControlOK, Goto, InFlight

LEMMA AnswerType ==
    ASSUME TypeOK, NEW p \in Procs, pc[p] # "idle",
           NEW c \in {200, 201, 403, 404, 409, 422, 500}, Answer(p, c),
           UNCHANGED req
    PROVE  ControlOK'
BY DEF TypeOK, ControlOK, Answer, InFlight

LEMMA RequestType ==
    ASSUME TypeOK, NEW p \in Procs, pc[p] # "idle"
    PROVE  /\ req[p] \in Request
           /\ req[p].insp \in Inspections
           /\ req[p].patch \in Patches \union {<<>>}
           /\ req[p].op \in Operations
BY DEF TypeOK, Request

LEMMA LocksType ==
    ASSUME TypeOK, NEW ps PROVE ReleaseLocks(ps) \in [Inspections -> Procs \union {Nil}]
BY DEF TypeOK, ReleaseLocks

\* Every step of a request keeps the types.
LEMMA StepType ==
    ASSUME TypeOK, NEW p \in Procs, Step(p) PROVE TypeOK'
<1> DEFINE i == req[p].insp
<1>1. CASE AuthRead(p)
  <2> USE <1>1 DEF AuthRead
  <2>1. pc[p] # "idle"
    OBVIOUS
  <2>2. \/ Goto(p, "readRow")
        \/ \E c \in {200, 403, 404} : Answer(p, c)
    OBVIOUS
  <2>3. ControlOK'
    BY <2>1, <2>2, GotoType, AnswerType DEF InFlight
  <2> QED BY <2>3 DEF TypeOK, ControlOK, dbVars, localVars
<1>2. CASE ReadRow(p)
  <2> USE <1>2 DEF ReadRow
  <2>1. pc[p] # "idle" /\ i \in Inspections
    BY RequestType
  <2>2. Goto(p, "readPhotos") \/ Answer(p, 404)
    OBVIOUS
  <2>3. snap' \in [Procs -> Row]
    BY <2>1 DEF TypeOK
  <2>4. ControlOK'
    BY <2>1, <2>2, GotoType, AnswerType DEF InFlight
  <2> QED BY <2>3, <2>4 DEF TypeOK, ControlOK, dbVars
<1>3. CASE ReadPhotos(p)
  <2> USE <1>3 DEF ReadPhotos
  <2>1. pc[p] # "idle" /\ i \in Inspections
    BY RequestType
  <2>2. \/ \E l \in {"insertPhoto", "txUpdate", "update"} : Goto(p, l)
        \/ Answer(p, 422)
    OBVIOUS
  <2>3. clock' \in Nat /\ stamp' \in [Procs -> Nat]
    BY ClockType DEF TypeOK
  <2>4. count' \in [Procs -> Nat]
    BY <2>1, CountType DEF TypeOK
  <2>5. ControlOK'
    BY <2>1, <2>2, GotoType, AnswerType DEF InFlight
  <2> QED BY <2>3, <2>4, <2>5 DEF TypeOK, ControlOK, dbVars
<1>4. CASE UpdateRow(p)
  <2> USE <1>4 DEF UpdateRow
  <2>1. pc[p] # "idle" /\ i \in Inspections
    BY RequestType
  <2>2. \/ Goto(p, "exists")
        \/ \E c \in {200, 500} : Answer(p, c)
    BY DEF AnswerWritten
  <2>3. row' \in [Inspections -> Row]
    <3>1. Patched(snap[p].cols, req[p].patch) \in [Columns -> Values]
      BY <2>1, RequestType, PatchedType DEF TypeOK, Row
    <3>2. row[i] \in Row /\ stamp[p] \in Nat
      BY <2>1 DEF TypeOK
    <3>3. [row[i] EXCEPT !.cols = Patched(snap[p].cols, req[p].patch),
                         !.updatedAt = stamp[p]] \in Row
      BY <3>1, <3>2 DEF Row
    <3>4. \/ row' = row
          \/ row' = [row EXCEPT ![i] = [row[i] EXCEPT
                        !.cols = Patched(snap[p].cols, req[p].patch),
                        !.updatedAt = stamp[p]]]
      OBVIOUS
    <3>5. row \in [Inspections -> Row]
      BY DEF TypeOK
    <3> HIDE DEF UpdateRow
    <3> QED BY <2>1, <3>3, <3>4, <3>5
  <2>4. ControlOK'
    BY <2>1, <2>2, GotoType, AnswerType DEF InFlight
  <2> QED BY <2>3, <2>4 DEF TypeOK, ControlOK, localVars
<1>5. CASE ExistsCheck(p)
  <2> USE <1>5 DEF ExistsCheck
  <2>1. pc[p] # "idle" /\ \E c \in {404, 409} : Answer(p, c)
    OBVIOUS
  <2>2. ControlOK'
    BY <2>1, AnswerType
  <2> QED BY <2>2 DEF TypeOK, ControlOK, dbVars, localVars
<1>6. CASE InsertPhoto(p)
  <2> USE <1>6 DEF InsertPhoto
  <2>1. pc[p] # "idle" /\ i \in Inspections
    BY RequestType
  <2>2. \E c \in {201, 500} : Answer(p, c)
    BY DEF AnswerWritten
  <2>3. photos' \in [Inspections -> SUBSET Procs]
    BY <2>1 DEF TypeOK
  <2>4. ControlOK'
    BY <2>1, <2>2, AnswerType
  <2> QED BY <2>3, <2>4 DEF TypeOK, ControlOK, localVars
<1>7. CASE TxUpdate(p)
  <2> USE <1>7 DEF TxUpdate
  <2>1. pc[p] # "idle"
    OBVIOUS
  <2>2. \E l \in {"txInsert", "exists"} : Goto(p, l)
    OBVIOUS
  <2>3. lock' \in [Inspections -> Procs \union {Nil}]
    <3>1. lock' = lock \/ lock' = [lock EXCEPT ![i] = p]
      OBVIOUS
    <3>2. lock \in [Inspections -> Procs \union {Nil}]
      BY DEF TypeOK
    <3> HIDE DEF TxUpdate
    <3> QED BY <3>1, <3>2
  <2>4. ControlOK'
    BY <2>1, <2>2, GotoType DEF InFlight
  <2> QED BY <2>3, <2>4 DEF TypeOK, ControlOK, localVars
<1>8. CASE TxInsert(p)
  <2> USE <1>8 DEF TxInsert
  <2>1. pc[p] # "idle" /\ Goto(p, "txCommit")
    OBVIOUS
  <2>2. outboxSeq' \in Nat /\ eventID' \in [Procs -> Nat]
    BY DEF TypeOK
  <2>3. ControlOK'
    BY <2>1, GotoType DEF InFlight
  <2> QED BY <2>2, <2>3 DEF TypeOK, ControlOK
<1>9. CASE TxCommit(p)
  <2> USE <1>9 DEF TxCommit
  <2>1. pc[p] # "idle" /\ i \in Inspections
    BY RequestType
  <2>2. \E c \in {200, 500} : Answer(p, c)
    BY DEF AnswerWritten
  <2>3. row' \in [Inspections -> Row]
    <3>1. row[i] \in Row /\ stamp[p] \in Nat
      BY <2>1 DEF TypeOK
    <3>2. [row[i] EXCEPT !.status = "completed", !.updatedAt = stamp[p],
                         !.completedAt = stamp[p]] \in Row
      BY <3>1 DEF Row, Statuses
    <3> QED BY <2>1, <3>2 DEF TypeOK
  <2>4. CompletedEvent(p) \in Event
    <3>1. snap[p].cols["inspector_id"] \in Values
      BY DEF TypeOK, Row, Columns
    <3> QED BY <2>1, <3>1 DEF TypeOK, CompletedEvent, Event
  <2>5. lock' \in [Inspections -> Procs \union {Nil}]
    BY LocksType
  <2>6. ControlOK'
    BY <2>1, <2>2, AnswerType
  <2>7. outbox' \subseteq Event
    BY <2>4 DEF TypeOK
  <2> QED BY <2>3, <2>5, <2>6, <2>7 DEF TypeOK, ControlOK, localVars
<1> QED BY <1>1, <1>2, <1>3, <1>4, <1>5, <1>6, <1>7, <1>8, <1>9 DEF Step

LEMMA NextType == TypeOK /\ [Next]_vars => TypeOK'
<1> SUFFICES ASSUME TypeOK, [Next]_vars PROVE TypeOK'
  OBVIOUS
<1>1. ASSUME NEW p \in Procs, Dispatch(p) PROVE TypeOK'
  <2> USE <1>1 DEF Dispatch
  <2>1. PICK r \in Request :
           /\ req' = [req EXCEPT ![p] = r]
           /\ acked' = [acked EXCEPT ![p] = AckedPhotos(r.insp)]
           /\ \/ pc' = [pc EXCEPT ![p] = "done"] /\ resp' = [resp EXCEPT ![p] = 403]
              \/ pc' = [pc EXCEPT ![p] = "authRead"] /\ UNCHANGED resp
    BY DEF Request, Answer, Goto
  <2>2. AckedPhotos(r.insp) \subseteq Procs
    BY DEF TypeOK, AckedPhotos, Request
  <2> HIDE DEF Dispatch
  <2>3. r # <<>>
    <3>1. "user" \in DOMAIN r /\ DOMAIN <<>> = {}
      BY DEF Request
    <3> QED BY <3>1
  <2>4. ControlOK'
    <3>1. req' \in [Procs -> Request \union {<<>>}]
      BY <2>1 DEF TypeOK
    <3>2. PICK l \in {"done", "authRead"} : pc' = [pc EXCEPT ![p] = l]
      BY <2>1
    <3>3. pc' \in [Procs -> InFlight \union {"idle", "done", "lost"}]
      BY <3>2 DEF TypeOK, InFlight
    <3>4. \A q \in Procs : req'[q] = <<>> <=> pc'[q] = "idle"
      BY <2>1, <2>3, <3>2 DEF TypeOK
    <3>5. resp \in [Procs -> {0, 200, 201, 403, 404, 409, 422, 500}]
      BY DEF TypeOK
    <3>6. resp' \in [Procs -> {0, 200, 201, 403, 404, 409, 422, 500}]
      <4>1. CASE resp' = resp
        BY <3>5, <4>1
      <4>2. CASE resp' = [resp EXCEPT ![p] = 403]
        BY <3>5, <4>2
      <4> QED BY <2>1, <4>1, <4>2
    <3> QED BY <3>1, <3>3, <3>4, <3>6 DEF ControlOK
  <2>5. acked' \in [Procs -> SUBSET Procs]
    BY <2>1, <2>2 DEF TypeOK
  <2> QED BY <1>1, <2>4, <2>5 DEF Dispatch, TypeOK, ControlOK, dbVars, localVars
<1>2. ASSUME NEW p \in Procs, StatementFails(p) PROVE TypeOK'
  <2> USE <1>2 DEF StatementFails
  <2>1. pc[p] # "idle"
    BY DEF InFlight
  <2>2. ControlOK'
    BY <2>1, AnswerType
  <2>3. lock' \in [Inspections -> Procs \union {Nil}]
    BY LocksType
  <2> QED BY <2>2, <2>3 DEF TypeOK, ControlOK, localVars
<1>3. ASSUME NEW i \in Inspections, CreateFromRequest(i) PROVE TypeOK'
  <2> USE <1>3 DEF CreateFromRequest
  <2>1. clock' \in Nat
    BY DEF TypeOK, Now
  <2>2. \A t \in Nat : [NoRow EXCEPT !.status = "scheduled", !.updatedAt = t] \in Row
    BY DEF NoRow, NoColumns, Row, Statuses, Values
  <2>3. row' \in [Inspections -> Row]
    <3>1. PICK t \in 0 .. clock + 1 :
             row' = [row EXCEPT ![i] = [NoRow EXCEPT !.status = "scheduled", !.updatedAt = t]]
      OBVIOUS
    <3>2. t \in Nat
      BY DEF TypeOK
    <3> QED BY <2>2, <3>1, <3>2 DEF TypeOK
  <2> QED BY <2>1, <2>3 DEF TypeOK, localVars
<1>4. CASE Crash
  <2> USE <1>4 DEF Crash
  <2>1. lock' \in [Inspections -> Procs \union {Nil}]
    BY LocksType
  <2>2. ControlOK'
    BY DEF TypeOK, ControlOK, InFlight
  <2> QED BY <2>1, <2>2 DEF TypeOK, ControlOK, localVars
<1>5. CASE UNCHANGED vars
  BY <1>5 DEF TypeOK, vars
<1> QED BY <1>1, <1>2, <1>3, <1>4, <1>5, StepType DEF Next, Quiet

\* Every variable keeps its type: no column is cleared or left out by a patch,
\* and no answer is one the handlers do not give.
THEOREM TypeCorrect == Spec => []TypeOK
BY InitType, NextType, PTL DEF Spec

-----------------------------------------------------------------------------
\* What a step of p leaves alone.
OnlyMoves(p) ==
    \A q \in Procs \ {p} :
        pc'[q] = pc[q] /\ req'[q] = req[q] /\ snap'[q] = snap[q] /\ resp'[q] = resp[q]

\* No inspection disappears, and a completed one stays completed.
RowsAdvance ==
    \A i \in Inspections :
        /\ row[i].status # "absent" => row'[i].status # "absent"
        /\ row[i].status = "completed" => row'[i].status = "completed"

LEMMA OthersKeep ==
    ASSUME IInv, NEW p \in Procs, OnlyMoves(p), RowsAdvance, outbox \subseteq outbox',
           NEW q \in Procs \ {p}
    PROVE  FlowAt(q)' /\ TrueAt(q)'
<1>1. pc[q] # "idle" => req[q].insp \in Inspections
  BY RequestType DEF IInv
<1>2. FlowAt(q) /\ TrueAt(q)
  BY DEF IInv, FlowOK
<1>3. pc'[q] = pc[q] /\ req'[q] = req[q] /\ snap'[q] = snap[q] /\ resp'[q] = resp[q]
  BY DEF OnlyMoves
<1>4. FlowAt(q)'
  <2>1. pc[q] = "idle" => FlowAt(q)'
    BY <1>3 DEF FlowAt, InTx, InFlight
  <2>2. pc[q] # "idle" => FlowAt(q)'
    BY <1>1, <1>2, <1>3 DEF FlowAt, RowsAdvance
  <2> QED BY <2>1, <2>2
<1>5. TrueAt(q)'
  BY <1>2, <1>3 DEF TrueAt
<1> QED BY <1>4, <1>5

\* A step of p that writes no row and no event.
LEMMA LocalStep ==
    ASSUME IInv, TypeOK', NEW p \in Procs, pc[p] # "done", OnlyMoves(p),
           UNCHANGED <<row, outbox>>,
           \A i \in Inspections : \A q \in Procs \ {p} : lock[i] = q => lock'[i] = q,
           FlowAt(p)', LocksAt(p)', TrueAt(p)'
    PROVE  IInv'
<1>1. FlowOK' /\ \A q \in Procs : TrueAt(q)'
  BY OthersKeep DEF FlowOK, RowsAdvance
<1>2. LocksOK'
  <2> SUFFICES ASSUME NEW q \in Procs \ {p} PROVE LocksAt(q)'
    BY DEF LocksOK
  <2>1. pc[q] # "idle" => req[q].insp \in Inspections
    BY RequestType DEF IInv
  <2> QED BY <2>1 DEF IInv, LocksOK, LocksAt, OnlyMoves, InTx
<1>3. EventsAnswered'
  <2>1. \A e \in outbox : e.by \in Procs \ {p}
    BY DEF IInv, EventsAnswered, TypeOK, Event
  <2> QED BY <2>1 DEF IInv, EventsAnswered, OnlyMoves
<1>4. OneEventPerCompletion'
  BY DEF IInv, OneEventPerCompletion
<1> QED BY <1>1, <1>2, <1>3, <1>4 DEF IInv

\* Goto and Answer move one request.
LEMMA Moves ==
    ASSUME TypeOK, NEW p \in Procs, UNCHANGED req,
           \A q \in Procs \ {p} : snap'[q] = snap[q]
    PROVE  /\ \A l : Goto(p, l) => OnlyMoves(p) /\ pc'[p] = l /\ resp'[p] = resp[p]
           /\ \A c : Answer(p, c) => OnlyMoves(p) /\ pc'[p] = "done" /\ resp'[p] = c
BY DEF TypeOK, Goto, Answer, OnlyMoves

\* The reads of a request.
LEMMA ReadsKeepIInv ==
    ASSUME IInv, TypeOK', NEW p \in Procs,
           AuthRead(p) \/ ReadRow(p) \/ ReadPhotos(p) \/ ExistsCheck(p)
    PROVE  IInv'
<1> DEFINE i == req[p].insp
<1>t. TypeOK /\ FlowAt(p) /\ LocksAt(p)
  BY DEF IInv, FlowOK, LocksOK
<1>1. CASE AuthRead(p)
  <2> USE <1>1 DEF AuthRead
  <2>1. \/ /\ Goto(p, "readRow") /\ req[p].op # "get"
           /\ row[i].status # "absent"
        \/ Answer(p, 404) \/ Answer(p, 403)
        \/ Answer(p, 200) /\ req[p].op = "get"
    OBVIOUS
  <2>2. /\ pc[p] = "authRead"
        /\ UNCHANGED <<row, outbox, lock, req, snap>>
    BY DEF dbVars, localVars
  <2> HIDE <1>1 DEF AuthRead
  <2>3. OnlyMoves(p)
    BY <1>t, <2>1, <2>2, Moves
  <2>4. FlowAt(p)' /\ LocksAt(p)' /\ TrueAt(p)'
    BY <1>t, <2>1, <2>2, Moves DEF FlowAt, LocksAt, TrueAt, InTx, InFlight
  <2> QED BY <2>2, <2>3, <2>4, LocalStep
<1>2. CASE ReadRow(p)
  <2> USE <1>2 DEF ReadRow
  <2>1. \/ Goto(p, "readPhotos") /\ row[i].status # "absent"
        \/ Answer(p, 404)
    OBVIOUS
  <2>2. /\ pc[p] = "readRow"
        /\ UNCHANGED <<row, outbox, lock, req>>
        /\ snap'[p] = row[i] /\ \A q \in Procs \ {p} : snap'[q] = snap[q]
    BY <1>t DEF dbVars, TypeOK
  <2> HIDE <1>2 DEF ReadRow
  <2>3. OnlyMoves(p)
    BY <1>t, <2>1, <2>2, Moves
  <2>4. FlowAt(p)' /\ LocksAt(p)' /\ TrueAt(p)'
    BY <1>t, <2>1, <2>2, Moves DEF FlowAt, LocksAt, TrueAt, InTx, InFlight
  <2> QED BY <2>2, <2>3, <2>4, LocalStep
<1>3. CASE ReadPhotos(p)
  <2> USE <1>3 DEF ReadPhotos
  <2>1. \/ /\ Answer(p, 422) /\ snap[p].status # "scheduled"
        \/ Goto(p, "insertPhoto") /\ req[p].op = "photo"
        \/ Goto(p, "txUpdate") /\ req[p].op = "complete"
        \/ Goto(p, "update") /\ req[p].op = "update"
    OBVIOUS
  <2>2. /\ pc[p] = "readPhotos"
        /\ UNCHANGED <<row, outbox, lock, req, snap>>
    BY DEF dbVars
  <2> HIDE <1>3 DEF ReadPhotos
  <2>3. OnlyMoves(p)
    BY <1>t, <2>1, <2>2, Moves
  <2>4. FlowAt(p)' /\ LocksAt(p)'
    BY <1>t, <2>1, <2>2, Moves DEF FlowAt, LocksAt, InTx, InFlight
  <2>5. snap[p].status # "scheduled" => row[i].status = "completed"
    BY <1>t, <2>2 DEF FlowAt, TypeOK, Row, Statuses
  <2>6. TrueAt(p)'
    <3>1. i \in Inspections
      BY <1>t, <2>2, RequestType
    <3>2. row[i].status = "completed" => \E e \in outbox : e.insp = i /\ e.by # p
      BY <2>2, <3>1 DEF IInv, OneEventPerCompletion, EventsAnswered
    <3> QED BY <1>t, <2>1, <2>2, <2>5, <3>2, Moves DEF TrueAt
  <2> QED BY <2>2, <2>3, <2>4, <2>6, LocalStep
<1>4. CASE ExistsCheck(p)
  <2> USE <1>4 DEF ExistsCheck
  <2>1. \E c \in {404, 409} : Answer(p, c)
    OBVIOUS
  <2>2. /\ pc[p] = "exists"
        /\ UNCHANGED <<row, outbox, lock, req, snap>>
    BY DEF dbVars, localVars
  <2> HIDE <1>4 DEF ExistsCheck
  <2>3. OnlyMoves(p)
    BY <1>t, <2>1, <2>2, Moves
  <2>4. FlowAt(p)' /\ LocksAt(p)'
    BY <1>t, <2>1, <2>2, Moves DEF FlowAt, LocksAt, InTx, InFlight
  <2>5. TrueAt(p)'
    <3>1. i \in Inspections
      BY <1>t, <2>2, RequestType
    <3>2. req[p].op = "complete" => \E e \in outbox : e.insp = i /\ e.by # p
      BY <1>t, <2>2, <3>1 DEF IInv, FlowAt, OneEventPerCompletion, EventsAnswered
    <3> QED BY <1>t, <2>1, <2>2, <3>2, Moves DEF TrueAt
  <2> QED BY <2>2, <2>3, <2>4, <2>5, LocalStep
<1> QED BY <1>1, <1>2, <1>3, <1>4

\* The writes that touch neither inspections nor outbox.
LEMMA SideWritesKeepIInv ==
    ASSUME IInv, TypeOK', NEW p \in Procs,
           InsertPhoto(p) \/ TxUpdate(p) \/ TxInsert(p)
    PROVE  IInv'
<1> DEFINE i == req[p].insp
<1>t. TypeOK /\ FlowAt(p) /\ LocksAt(p)
  BY DEF IInv, FlowOK, LocksOK
<1>1. CASE InsertPhoto(p)
  <2> USE <1>1 DEF InsertPhoto
  <2>1. \E c \in {201, 500} : Answer(p, c)
    BY DEF AnswerWritten
  <2>2. pc[p] = "insertPhoto" /\ UNCHANGED <<row, outbox, lock, req, snap>>
    BY DEF localVars
  <2> HIDE <1>1 DEF InsertPhoto
  <2>3. OnlyMoves(p)
    BY <1>t, <2>1, <2>2, Moves
  <2>4. FlowAt(p)' /\ LocksAt(p)' /\ TrueAt(p)'
    BY <1>t, <2>1, <2>2, Moves DEF FlowAt, LocksAt, TrueAt, InTx, InFlight
  <2> QED BY <2>2, <2>3, <2>4, LocalStep
<1>2. CASE TxUpdate(p)
  <2> USE <1>2 DEF TxUpdate
  <2>1. \/ /\ Goto(p, "txInsert") /\ row[i].status = "scheduled"
           /\ lock' = [lock EXCEPT ![i] = p]
        \/ Goto(p, "exists") /\ row[i].status # "scheduled" /\ lock' = lock
    OBVIOUS
  <2>2. pc[p] = "txUpdate" /\ lock[i] = Nil /\ UNCHANGED <<row, outbox, req, snap>>
    BY DEF localVars
  <2> HIDE <1>2 DEF TxUpdate
  <2>3. OnlyMoves(p)
    BY <1>t, <2>1, <2>2, Moves
  <2>4. i \in Inspections /\ row[i] \in Row
    BY <1>t, <2>2, RequestType DEF TypeOK
  <2>5. FlowAt(p)' /\ TrueAt(p)'
    BY <1>t, <2>1, <2>2, <2>4, Moves DEF FlowAt, TrueAt, InTx, InFlight, Row, Statuses
  <2>6. LocksAt(p)'
    BY <1>t, <2>1, <2>2, <2>4, Moves DEF LocksAt, InTx, TypeOK
  <2>7. \A j \in Inspections : \A q \in Procs \ {p} : lock[j] = q => lock'[j] = q
    BY <1>t, <2>1, <2>2, ConstantsAssumption DEF TypeOK, ConstantsAssumption
  <2> QED BY <2>2, <2>3, <2>5, <2>6, <2>7, LocalStep
<1>3. CASE TxInsert(p)
  <2> USE <1>3 DEF TxInsert
  <2>1. Goto(p, "txCommit")
    OBVIOUS
  <2>2. pc[p] = "txInsert" /\ UNCHANGED <<row, outbox, lock, req, snap>>
    OBVIOUS
  <2> HIDE <1>3 DEF TxInsert
  <2>3. OnlyMoves(p)
    BY <1>t, <2>1, <2>2, Moves
  <2>4. FlowAt(p)' /\ LocksAt(p)' /\ TrueAt(p)'
    BY <1>t, <2>1, <2>2, Moves DEF FlowAt, LocksAt, TrueAt, InTx, InFlight
  <2> QED BY <2>2, <2>3, <2>4, LocalStep
<1> QED BY <1>1, <1>2, <1>3

\* PATCH: the columns change under the version check, the status never.
LEMMA UpdateRowKeepsIInv ==
    ASSUME IInv, TypeOK', NEW p \in Procs, UpdateRow(p) PROVE IInv'
<1> DEFINE i == req[p].insp
<1>t. TypeOK /\ FlowAt(p) /\ LocksAt(p)
  BY DEF IInv, FlowOK, LocksOK
<1> USE DEF UpdateRow
<1>1. /\ pc[p] = "update" /\ UNCHANGED <<outbox, lock, req, snap>>
      /\ Goto(p, "exists") \/ \E c \in {200, 500} : Answer(p, c)
  BY DEF AnswerWritten, localVars
<1>2. OnlyMoves(p)
  BY <1>t, <1>1, Moves
<1>3. \A j \in Inspections : /\ row'[j].status = row[j].status
                           /\ row'[j].completedAt = row[j].completedAt
  <2>1. \A j \in Inspections : row[j] \in Row
    BY <1>t DEF TypeOK
  <2>2. CASE row' = row
    BY <2>2
  <2>3. CASE row' = [row EXCEPT ![i] = [row[i] EXCEPT
                       !.cols = Patched(snap[p].cols, req[p].patch),
                       !.updatedAt = stamp[p]]]
    BY <1>t, <2>1, <2>3 DEF TypeOK, Row
  <2> QED BY <2>2, <2>3
<1> HIDE DEF UpdateRow
<1>4. RowsAdvance
  BY <1>3 DEF RowsAdvance
<1>5. i \in Inspections
  BY <1>t, <1>1, RequestType
<1>6. FlowAt(p)' /\ TrueAt(p)' /\ LocksAt(p)'
  BY <1>t, <1>1, <1>3, <1>5, Moves DEF FlowAt, TrueAt, LocksAt, InTx, InFlight
<1>7. FlowOK' /\ \A q \in Procs : TrueAt(q)'
  BY <1>1, <1>2, <1>4, <1>6, OthersKeep DEF FlowOK
<1>8. LocksOK'
  <2> SUFFICES ASSUME NEW q \in Procs \ {p} PROVE LocksAt(q)'
    BY <1>6 DEF LocksOK
  <2>1. pc[q] # "idle" => req[q].insp \in Inspections
    BY <1>t, RequestType
  <2> QED BY <1>1, <1>2, <1>3, <2>1 DEF IInv, LocksOK, LocksAt, OnlyMoves, InTx
<1>9. EventsAnswered'
  <2>1. \A e \in outbox : e.by \in Procs \ {p}
    BY <1>1 DEF IInv, EventsAnswered, TypeOK, Event
  <2> QED BY <1>1, <1>2, <2>1 DEF IInv, EventsAnswered, OnlyMoves
<1>10. OneEventPerCompletion'
  <2>1. \A e \in outbox : e.insp \in Inspections
    BY <1>t DEF TypeOK, Event
  <2> QED BY <1>1, <1>3, <2>1 DEF IInv, OneEventPerCompletion
<1> QED BY <1>7, <1>8, <1>9, <1>10 DEF IInv

LEMMA EventOfCompleted ==
    ASSUME IInv, NEW e \in outbox
    PROVE  e.insp \in Inspections /\ row[e.insp].status = "completed"
<1>1. e.insp \in Inspections
  BY DEF IInv, TypeOK, Event
<1> QED BY <1>1 DEF IInv, OneEventPerCompletion

\* Complete: the lock and the status make this the only event of the row.
LEMMA TxCommitKeepsIInv ==
    ASSUME IInv, TypeOK', NEW p \in Procs, TxCommit(p) PROVE IInv'
<1> DEFINE i == req[p].insp
<1> DEFINE ev == CompletedEvent(p)
<1>t. TypeOK /\ FlowAt(p) /\ LocksAt(p)
  BY DEF IInv, FlowOK, LocksOK
<1> USE DEF TxCommit
<1>1. /\ pc[p] = "txCommit" /\ UNCHANGED <<req, snap>>
      /\ \E c \in {200, 500} : Answer(p, c)
      /\ outbox' = outbox \union {ev}
      /\ lock' = ReleaseLocks({p})
  BY DEF AnswerWritten, localVars
<1>2. i \in Inspections /\ row[i].status = "scheduled" /\ req[p].op = "complete"
  BY <1>t, <1>1, RequestType DEF LocksAt, FlowAt, InTx
<1>3. OnlyMoves(p)
  BY <1>t, <1>1, Moves
<1>4. /\ row'[i].status = "completed" /\ row'[i].completedAt = stamp[p]
      /\ \A j \in Inspections \ {i} : row'[j] = row[j]
  <2>1. row[i] \in Row
    BY <1>t, <1>2 DEF TypeOK
  <2> QED BY <1>t, <1>2, <2>1 DEF TypeOK, Row
<1> HIDE DEF TxCommit
<1>5. ev.by = p /\ ev.insp = i /\ ev.completedAt = stamp[p]
  BY DEF CompletedEvent
<1>6. RowsAdvance
  BY <1>2, <1>4 DEF RowsAdvance
<1>7. FlowAt(p)' /\ TrueAt(p)' /\ LocksAt(p)'
  BY <1>t, <1>1, <1>5, Moves DEF FlowAt, TrueAt, LocksAt, InTx, InFlight
<1>8. FlowOK' /\ \A q \in Procs : TrueAt(q)'
  BY <1>1, <1>3, <1>6, <1>7, OthersKeep DEF FlowOK
<1>9. LocksOK'
  <2> SUFFICES ASSUME NEW q \in Procs \ {p}, pc'[q] \in InTx PROVE LocksAt(q)'
    BY <1>7 DEF LocksOK, LocksAt
  <2>1. pc[q] = pc'[q] /\ req'[q] = req[q]
    BY <1>3 DEF OnlyMoves
  <2>2. /\ req[q].insp \in Inspections
        /\ lock[req[q].insp] = q /\ row[req[q].insp].status = "scheduled"
    BY <1>t, <2>1, RequestType DEF IInv, LocksOK, LocksAt, InTx
  <2>3. req[q].insp # i
    BY <1>t, <1>1, <2>2 DEF LocksAt, InTx
  <2>4. lock'[req[q].insp] = q
    BY <1>1, <2>2 DEF ReleaseLocks
  <2> QED BY <1>4, <2>1, <2>2, <2>3, <2>4 DEF LocksAt
<1>10. EventsAnswered'
  <2>1. \A e \in outbox : e.by \in Procs \ {p}
    BY <1>1 DEF IInv, EventsAnswered, TypeOK, Event
  <2>2. \A e \in outbox : pc'[e.by] = "done" /\ req'[e.by].insp = e.insp
                        /\ resp'[e.by] \in {200, 500}
    BY <1>3, <2>1 DEF IInv, EventsAnswered, OnlyMoves
  <2>3. pc'[p] = "done" /\ req'[p].insp = i /\ resp'[p] \in {200, 500}
    BY <1>t, <1>1, Moves
  <2> QED BY <1>1, <1>5, <2>2, <2>3 DEF EventsAnswered
<1>11. OneEventPerCompletion'
  <2>1. \A e \in outbox : e.insp \in Inspections \ {i}
    BY <1>t, <1>2, EventOfCompleted
  <2>2. \A j \in Inspections :
           row'[j].status = "completed" <=> \E e \in outbox' : e.insp = j
    BY <1>1, <1>4, <1>5, <2>1 DEF IInv, OneEventPerCompletion
  <2>3. \A e, f \in outbox' : e.insp = f.insp => e = f
    BY <1>1, <1>5, <2>1 DEF IInv, OneEventPerCompletion
  <2>4. \A e \in outbox' : e.completedAt = row'[e.insp].completedAt
    BY <1>1, <1>4, <1>5, <2>1 DEF IInv, OneEventPerCompletion
  <2> QED BY <2>2, <2>3, <2>4 DEF OneEventPerCompletion
<1> QED BY <1>8, <1>9, <1>10, <1>11 DEF IInv

\* A failed statement ends its request and frees what it had locked.
LEMMA StatementFailsKeepsIInv ==
    ASSUME IInv, TypeOK', NEW p \in Procs, StatementFails(p) PROVE IInv'
<1>t. TypeOK
  BY DEF IInv
<1> USE DEF StatementFails
<1>1. /\ pc[p] \in InFlight /\ Answer(p, 500) /\ lock' = ReleaseLocks({p})
      /\ UNCHANGED <<row, outbox, req, snap>>
  BY DEF localVars
<1> HIDE DEF StatementFails
<1>2. OnlyMoves(p) /\ pc'[p] = "done" /\ resp'[p] = 500
  BY <1>t, <1>1, Moves
<1>3. FlowAt(p)' /\ LocksAt(p)' /\ TrueAt(p)'
  BY <1>2 DEF FlowAt, LocksAt, TrueAt, InTx, InFlight
<1>4. \A i \in Inspections : \A q \in Procs \ {p} : lock[i] = q => lock'[i] = q
  BY <1>1 DEF ReleaseLocks
<1>5. pc[p] # "done"
  BY <1>1 DEF InFlight
<1> QED BY <1>1, <1>2, <1>3, <1>4, <1>5, LocalStep

\* A new request knows nothing yet.
LEMMA DispatchKeepsIInv ==
    ASSUME IInv, TypeOK', NEW p \in Procs, Dispatch(p) PROVE IInv'
<1>t. TypeOK
  BY DEF IInv
<1> USE DEF Dispatch
<1>1. /\ pc[p] = "idle" /\ UNCHANGED <<row, outbox, lock, snap>>
      /\ \/ Answer(p, 403)
         \/ Goto(p, "authRead")
  BY DEF dbVars, localVars
<1>2. \A q \in Procs \ {p} : req'[q] = req[q]
  BY <1>t DEF TypeOK
<1> HIDE DEF Dispatch
<1>3. /\ OnlyMoves(p)
      /\ \/ pc'[p] = "done" /\ resp'[p] = 403
         \/ pc'[p] = "authRead"
  BY <1>t, <1>1, <1>2 DEF OnlyMoves, Answer, Goto, TypeOK
<1>4. FlowAt(p)' /\ LocksAt(p)' /\ TrueAt(p)'
  BY <1>3 DEF FlowAt, LocksAt, TrueAt, InTx, InFlight
<1> QED BY <1>1, <1>3, <1>4, LocalStep

\* A crash ends the open requests only.
LEMMA CrashKeepsIInv == ASSUME IInv, TypeOK', Crash PROVE IInv'
<1>t. TypeOK
  BY DEF IInv
<1> USE DEF Crash
<1>1. UNCHANGED <<row, outbox, req, snap, resp>>
  BY DEF localVars
<1>2. \A p \in Procs : pc'[p] = IF pc[p] \in InFlight THEN "lost" ELSE pc[p]
  OBVIOUS
<1> HIDE DEF Crash
<1>3. \A p \in Procs : pc'[p] = "lost" \/ (pc'[p] = pc[p] /\ pc[p] \notin InFlight)
  BY <1>2
<1>4. \A p \in Procs : pc[p] = "done" <=> pc'[p] = "done"
  BY <1>2 DEF InFlight
<1>5. FlowOK' /\ LocksOK'
  BY <1>3 DEF FlowOK, FlowAt, LocksOK, LocksAt, InTx, InFlight
<1>6. \A p \in Procs : TrueAt(p)'
  <2> SUFFICES ASSUME NEW p \in Procs PROVE TrueAt(p)'
    OBVIOUS
  <2>1. TrueAt(p)
    BY DEF IInv
  <2> QED BY <1>1, <1>4, <2>1 DEF TrueAt
<1>7. EventsAnswered'
  <2>1. \A e \in outbox : e.by \in Procs
    BY <1>t DEF TypeOK, Event
  <2> QED BY <1>1, <1>4, <2>1 DEF IInv, EventsAnswered
<1>8. OneEventPerCompletion'
  BY <1>1 DEF IInv, OneEventPerCompletion
<1> QED BY <1>5, <1>6, <1>7, <1>8 DEF IInv

\* The consumer only adds inspections.
LEMMA CreateKeepsIInv ==
    ASSUME IInv, TypeOK', NEW i \in Inspections, CreateFromRequest(i) PROVE IInv'
<1>t. TypeOK
  BY DEF IInv
<1> USE DEF CreateFromRequest
<1>1. /\ row[i].status = "absent" /\ row'[i].status = "scheduled"
      /\ \A j \in Inspections \ {i} : row'[j] = row[j]
      /\ UNCHANGED <<outbox, lock, req, snap, resp, pc>>
  BY <1>t DEF TypeOK, localVars, NoRow
<1> HIDE DEF CreateFromRequest
<1>2. \A p \in Procs : pc[p] # "idle" => req[p].insp \in Inspections
  BY <1>t, RequestType
<1>3. FlowOK'
  <2> SUFFICES ASSUME NEW p \in Procs PROVE FlowAt(p)'
    BY DEF FlowOK
  <2>1. FlowAt(p)
    BY DEF IInv, FlowOK
  <2>2. CASE pc[p] = "idle"
    BY <1>1, <2>2 DEF FlowAt, InTx, InFlight
  <2>3. CASE pc[p] # "idle" /\ req[p].insp = i
    BY <1>1, <2>1, <2>3 DEF FlowAt
  <2>4. CASE pc[p] # "idle" /\ req[p].insp # i
    BY <1>1, <1>2, <2>1, <2>4 DEF FlowAt
  <2> QED BY <2>2, <2>3, <2>4
<1>4. LocksOK'
  BY <1>1, <1>2 DEF IInv, LocksOK, LocksAt, InTx
<1>5. EventsAnswered' /\ \A p \in Procs : TrueAt(p)'
  BY <1>1 DEF IInv, EventsAnswered, TrueAt
<1>6. OneEventPerCompletion'
  <2>1. \A e \in outbox : e.insp \in Inspections \ {i}
    BY <1>t, <1>1, EventOfCompleted
  <2> QED BY <1>1, <2>1 DEF IInv, OneEventPerCompletion
<1> QED BY <1>3, <1>4, <1>5, <1>6 DEF IInv

-----------------------------------------------------------------------------
LEMMA InitIInv == Init => IInv
<1> SUFFICES ASSUME Init PROVE IInv
  OBVIOUS
<1>1. \A p \in Procs : pc[p] = "idle"
  BY DEF Init
<1>2. FlowOK /\ LocksOK /\ \A p \in Procs : TrueAt(p)
  BY <1>1 DEF FlowOK, FlowAt, LocksOK, LocksAt, TrueAt, InTx, InFlight
<1>3. \A i \in Inspections : row[i].status # "completed"
  <2> SUFFICES ASSUME NEW i \in Inspections PROVE row[i].status # "completed"
    OBVIOUS
  <2>1. CASE row[i] = NoRow
    BY <2>1 DEF NoRow
  <2>2. ASSUME NEW u \in Users \union {Nil},
               row[i] = [NoRow EXCEPT !.status = "scheduled",
                                      !.cols["inspector_id"] = u]
        PROVE  row[i].status = "scheduled"
    BY <2>2 DEF NoRow
  <2> QED BY <2>1, <2>2 DEF Init
<1>4. EventsAnswered /\ OneEventPerCompletion
  BY <1>3 DEF Init, EventsAnswered, OneEventPerCompletion
<1> QED BY <1>2, <1>4, InitType DEF IInv

LEMMA NextKeepsIInv == IInv /\ [Next]_vars => IInv'
<1> SUFFICES ASSUME IInv, [Next]_vars PROVE IInv'
  OBVIOUS
<1>1. TypeOK'
  BY NextType DEF IInv
<1>2. ASSUME NEW p \in Procs, Step(p) PROVE IInv'
  BY <1>1, <1>2, ReadsKeepIInv, SideWritesKeepIInv, UpdateRowKeepsIInv,
     TxCommitKeepsIInv DEF Step
<1>3. CASE UNCHANGED vars
  BY <1>3 DEF vars, IInv, TypeOK, FlowOK, FlowAt, LocksOK, LocksAt, EventsAnswered,
              OneEventPerCompletion, TrueAt
<1> QED BY <1>1, <1>2, <1>3, DispatchKeepsIInv, StatementFailsKeepsIInv,
           CrashKeepsIInv, CreateKeepsIInv DEF Next, Quiet

LEMMA SpecKeepsIInv == Spec => []IInv
BY InitIInv, NextKeepsIInv, PTL DEF Spec

\* However many requests race, fail and crash: an inspection is completed if and
\* only if the outbox holds one event for it, with the completed_at of the row.
THEOREM CompletionHasOneEvent == Spec => []OneEventPerCompletion
<1>1. IInv => OneEventPerCompletion
  BY DEF IInv
<1> QED BY <1>1, SpecKeepsIInv, PTL

\* A caller told 200 completed the inspection, and a caller told 409 or 422 did
\* not: the event is another request's.
THEOREM AnswersAreTrue == Spec => []CompletionAnswersAreTrue
<1>1. IInv => CompletionAnswersAreTrue
  BY DEF IInv, TrueAt, CompletionAnswersAreTrue
<1> QED BY <1>1, SpecKeepsIInv, PTL

-----------------------------------------------------------------------------
(***************************************************************************)
(* The optimistic lock.  Without SharedTicks a stamp is never written      *)
(* twice, so a row whose updated_at is the one a request read holds the    *)
(* columns it read.                                                        *)
(***************************************************************************)

\* The types VersionsOK is about.
LEMMA VersionTypes ==
    ASSUME TypeOK
    PROVE  /\ clock \in Nat
           /\ \A i \in Inspections : row[i].updatedAt \in Nat
           /\ \A p \in Procs : snap[p].updatedAt \in Nat /\ stamp[p] \in Nat
           /\ \A p \in Reading \union Stamped :
                 p \in Procs /\ pc[p] # "idle" /\ req[p].insp \in Inspections
<1>1. \A p \in Reading \union Stamped : p \in Procs /\ pc[p] # "idle"
  BY DEF Reading, Stamped, InTx
<1>2. \A i \in Inspections : row[i] \in Row
  BY DEF TypeOK
<1>3. \A p \in Procs : snap[p] \in Row /\ stamp[p] \in Nat
  BY DEF TypeOK
<1>4. \A r \in Row : r.updatedAt \in Nat
  BY DEF Row
<1> QED BY <1>1, <1>2, <1>3, <1>4, RequestType DEF TypeOK

\* A step that leaves rows, reads and stamps alone.
LEMMA SameVersions ==
    ASSUME VersionsOK, UNCHANGED <<row, snap, stamp, clock>>,
           Stamped' \subseteq Stamped, Reading' \subseteq Reading,
           \A p \in Reading' : req'[p] = req[p]
    PROVE  VersionsOK'
BY DEF VersionsOK

\* The labels of Goto and Answer, and who still reads or holds a stamp.
LEMMA MovesSets ==
    ASSUME TypeOK, NEW p \in Procs, NEW l, pc' = [pc EXCEPT ![p] = l]
    PROVE  /\ Stamped' = IF l \in InTx \union {"txUpdate", "update"}
                           THEN Stamped \union {p} ELSE Stamped \ {p}
           /\ Reading' = IF l \in {"readPhotos", "update"}
                           THEN Reading \union {p} ELSE Reading \ {p}
BY DEF TypeOK, Stamped, Reading

\* A row that takes the stamp of a request takes a version nobody has seen.
LEMMA StampWritten ==
    ASSUME TypeOK, VersionsOK, NEW p \in Stamped, NEW i \in Inspections,
           UNCHANGED <<snap, stamp, clock, req>>,
           row'[i].updatedAt = stamp[p],
           \A j \in Inspections \ {i} : row'[j] = row[j],
           Stamped' = Stamped \ {p}, Reading' = Reading \ {p}
    PROVE  VersionsOK'
<1>1. p \in Procs
  BY VersionTypes
<1>2. \A j \in Inspections : row'[j].updatedAt <= clock
  BY <1>1 DEF VersionsOK
<1>3. \A q \in Stamped', j \in Inspections : stamp[q] # row'[j].updatedAt
  BY DEF VersionsOK
<1>4. ASSUME NEW q \in Reading', snap[q].updatedAt = row'[req[q].insp].updatedAt
      PROVE  snap[q].cols = row'[req[q].insp].cols
  <2>1. q \in Procs /\ req[q].insp \in Inspections
    BY VersionTypes
  <2>2. req[q].insp # i
    BY <1>4, <2>1 DEF VersionsOK
  <2> QED BY <1>4, <2>1, <2>2 DEF VersionsOK
<1> QED BY <1>2, <1>3, <1>4 DEF VersionsOK

LEMMA StepKeepsVersions ==
    ASSUME IInv, VersionsOK, ~SharedTicks, NEW p \in Procs, Step(p)
    PROVE  VersionsOK'
<1> DEFINE i == req[p].insp
<1>t. TypeOK
  BY DEF IInv
<1>1. CASE AuthRead(p) \/ ExistsCheck(p) \/ InsertPhoto(p)
  <2>1. /\ UNCHANGED <<row, snap, stamp, clock, req>>
        /\ \E l \in {"readRow", "done"} : pc' = [pc EXCEPT ![p] = l]
    BY <1>1 DEF AuthRead, ExistsCheck, InsertPhoto, AnswerWritten, Answer, Goto,
                dbVars, localVars
  <2>2. Stamped' \subseteq Stamped /\ Reading' \subseteq Reading
    BY <1>t, <2>1, MovesSets DEF InTx
  <2> QED BY <2>1, <2>2, SameVersions
<1>2. CASE ReadRow(p)
  <2> USE <1>2 DEF ReadRow
  <2>1. /\ UNCHANGED <<row, stamp, clock, req>> /\ pc[p] = "readRow"
        /\ snap'[p] = row[i] /\ \A q \in Procs \ {p} : snap'[q] = snap[q]
        /\ \E l \in {"readPhotos", "done"} : pc' = [pc EXCEPT ![p] = l]
    BY <1>t DEF dbVars, TypeOK, Goto, Answer
  <2> HIDE <1>2 DEF ReadRow
  <2>2. i \in Inspections
    BY <1>t, <2>1, RequestType
  <2>3. Stamped' \subseteq Stamped /\ Reading' \subseteq Reading \union {p}
    <3>1. PICK l \in {"readPhotos", "done"} : pc' = [pc EXCEPT ![p] = l]
      BY <2>1
    <3> QED BY <1>t, <3>1, MovesSets DEF InTx
  <2>4. \A q \in Procs : snap'[q].updatedAt <= clock
    BY <2>1, <2>2 DEF VersionsOK
  <2>5. \A q \in Stamped', s \in Procs : stamp[q] # snap'[s].updatedAt
    BY <2>1, <2>2, <2>3 DEF VersionsOK
  <2>6. \A q \in Reading' : snap'[q].updatedAt = row[req[q].insp].updatedAt =>
                                snap'[q].cols = row[req[q].insp].cols
    BY <1>t, <2>1, <2>3, VersionTypes DEF VersionsOK
  <2> QED BY <2>1, <2>3, <2>4, <2>5, <2>6 DEF VersionsOK
<1>3. CASE ReadPhotos(p)
  <2> USE <1>3 DEF ReadPhotos
  <2>1. /\ UNCHANGED <<row, snap, req>> /\ pc[p] = "readPhotos"
        /\ \/ /\ UNCHANGED <<clock, stamp>>
              /\ \E l \in {"insertPhoto", "done"} : pc' = [pc EXCEPT ![p] = l]
           \/ /\ ReadClock(p)
              /\ \E l \in {"txUpdate", "update"} : pc' = [pc EXCEPT ![p] = l]
    BY DEF dbVars, Goto, Answer
  <2> HIDE <1>3 DEF ReadPhotos
  <2>2. CASE UNCHANGED <<clock, stamp>> /\ \E l \in {"insertPhoto", "done"} :
                                              pc' = [pc EXCEPT ![p] = l]
    <3>1. Stamped' \subseteq Stamped /\ Reading' \subseteq Reading
      BY <1>t, <2>2, MovesSets DEF InTx
    <3> QED BY <2>1, <2>2, <3>1, SameVersions
  <2>3. CASE ReadClock(p) /\ \E l \in {"txUpdate", "update"} :
                                  pc' = [pc EXCEPT ![p] = l]
    <3>1. /\ clock' = clock + 1 /\ stamp'[p] = clock + 1
          /\ \A q \in Procs \ {p} : stamp'[q] = stamp[q]
      BY <1>t, <2>3 DEF ReadClock, Now, TypeOK
    <3>2. Stamped' = Stamped \union {p} /\ Reading' \subseteq Reading
      BY <1>t, <2>1, <2>3, MovesSets DEF Reading, InTx
    <3>3. /\ \A j \in Inspections : row[j].updatedAt < clock + 1
          /\ \A q \in Procs : snap[q].updatedAt < clock + 1 /\ stamp[q] < clock + 1
      BY <1>t, VersionTypes DEF VersionsOK
    <3>4. \A q \in Stamped' : q \in Procs
      BY <1>t, <3>2, VersionTypes
    <3>5. \A j \in Inspections : row'[j].updatedAt <= clock'
      BY <1>t, <2>1, <3>1, <3>3, VersionTypes
    <3>6. \A q \in Procs : snap'[q].updatedAt <= clock' /\ stamp'[q] <= clock'
      BY <1>t, <2>1, <3>1, <3>3, VersionTypes
    <3>7. \A q \in Stamped', j \in Inspections : stamp'[q] # row'[j].updatedAt
      BY <1>t, <2>1, <3>1, <3>2, <3>3, <3>4, VersionTypes DEF VersionsOK
    <3>8. \A q \in Stamped', s \in Procs : stamp'[q] # snap'[s].updatedAt
      BY <1>t, <2>1, <3>1, <3>2, <3>3, <3>4, VersionTypes DEF VersionsOK
    <3>9. \A q, s \in Stamped' : stamp'[q] = stamp'[s] => q = s
      BY <1>t, <3>1, <3>2, <3>3, <3>4, VersionTypes DEF VersionsOK
    <3>10. \A q \in Reading' : snap'[q].updatedAt = row'[req'[q].insp].updatedAt =>
                                  snap'[q].cols = row'[req'[q].insp].cols
      BY <2>1, <3>2 DEF VersionsOK
    <3> QED BY <3>5, <3>6, <3>7, <3>8, <3>9, <3>10 DEF VersionsOK
  <2> QED BY <2>1, <2>2, <2>3
<1>4. CASE UpdateRow(p)
  <2> USE <1>4 DEF UpdateRow
  <2>1. /\ UNCHANGED <<snap, stamp, clock, req>> /\ pc[p] = "update"
        /\ \E l \in {"exists", "done"} : pc' = [pc EXCEPT ![p] = l]
    BY DEF localVars, Goto, Answer, AnswerWritten
  <2>2. \/ row' = row
        \/ row' = [row EXCEPT ![i] = [row[i] EXCEPT
                      !.cols = Patched(snap[p].cols, req[p].patch),
                      !.updatedAt = stamp[p]]]
    OBVIOUS
  <2> HIDE <1>4 DEF UpdateRow
  <2>3. p \in Stamped /\ i \in Inspections
    BY <1>t, <2>1, RequestType DEF Stamped
  <2>4. Stamped' = Stamped \ {p} /\ Reading' = Reading \ {p}
    BY <1>t, <2>1, MovesSets DEF InTx
  <2>5. CASE row' = row
    BY <2>1, <2>4, <2>5, SameVersions
  <2>6. CASE row' = [row EXCEPT ![i] = [row[i] EXCEPT
                       !.cols = Patched(snap[p].cols, req[p].patch),
                       !.updatedAt = stamp[p]]]
    <3>1. row[i] \in Row
      BY <1>t, <2>3 DEF TypeOK
    <3>2. /\ row'[i].updatedAt = stamp[p]
          /\ \A j \in Inspections \ {i} : row'[j] = row[j]
      BY <1>t, <2>3, <2>6, <3>1 DEF TypeOK, Row
    <3> QED BY <1>t, <2>1, <2>3, <2>4, <3>2, StampWritten
  <2> QED BY <2>2, <2>5, <2>6
<1>5. CASE TxUpdate(p) \/ TxInsert(p)
  <2>1. /\ UNCHANGED <<row, snap, stamp, clock, req>> /\ pc[p] \in {"txUpdate", "txInsert"}
        /\ \E l \in {"txInsert", "exists", "txCommit"} : pc' = [pc EXCEPT ![p] = l]
    BY <1>5 DEF TxUpdate, TxInsert, Goto, localVars
  <2>2. p \in Stamped
    BY <2>1 DEF Stamped, InTx
  <2>3. Stamped' \subseteq Stamped /\ Reading' \subseteq Reading
    BY <1>t, <2>1, <2>2, MovesSets DEF InTx
  <2> QED BY <2>1, <2>3, SameVersions
<1>6. CASE TxCommit(p)
  <2> USE <1>6 DEF TxCommit
  <2>1. /\ UNCHANGED <<snap, stamp, clock, req>> /\ pc[p] = "txCommit"
        /\ \E l \in {"done"} : pc' = [pc EXCEPT ![p] = l]
    BY DEF localVars, Answer, AnswerWritten
  <2>2. p \in Stamped /\ i \in Inspections
    BY <1>t, <2>1, RequestType DEF Stamped, InTx
  <2>3. Stamped' = Stamped \ {p} /\ Reading' = Reading \ {p}
    BY <1>t, <2>1, MovesSets DEF InTx
  <2>4. row[i] \in Row
    BY <1>t, <2>2 DEF TypeOK
  <2>5. /\ row'[i].updatedAt = stamp[p]
        /\ \A j \in Inspections \ {i} : row'[j] = row[j]
    BY <1>t, <2>2, <2>4 DEF TypeOK, Row
  <2> QED BY <1>t, <2>1, <2>2, <2>3, <2>5, StampWritten
<1> QED BY <1>1, <1>2, <1>3, <1>4, <1>5, <1>6 DEF Step

LEMMA InitVersions == Init => VersionsOK
<1> SUFFICES ASSUME Init PROVE VersionsOK
  OBVIOUS
<1>1. Stamped = {} /\ Reading = {} /\ clock = 0
  BY DEF Init, Stamped, Reading, InTx
<1>2. \A i \in Inspections : row[i].updatedAt = 0
  <2> SUFFICES ASSUME NEW i \in Inspections PROVE row[i].updatedAt = 0
    OBVIOUS
  <2>1. CASE row[i] = NoRow
    BY <2>1 DEF NoRow
  <2>2. ASSUME NEW u \in Users \union {Nil},
               row[i] = [NoRow EXCEPT !.status = "scheduled",
                                      !.cols["inspector_id"] = u]
        PROVE  row[i].updatedAt = 0
    BY <2>2 DEF NoRow
  <2> QED BY <2>1, <2>2 DEF Init
<1>3. \A p \in Procs : snap[p].updatedAt = 0 /\ stamp[p] = 0
  BY DEF Init, NoRow
<1> QED BY <1>1, <1>2, <1>3 DEF VersionsOK

LEMMA NextKeepsVersions ==
    ASSUME ~SharedTicks PROVE IInv /\ VersionsOK /\ [Next]_vars => VersionsOK'
<1> SUFFICES ASSUME IInv, VersionsOK, [Next]_vars PROVE VersionsOK'
  OBVIOUS
<1>t. TypeOK
  BY DEF IInv
<1>1. ASSUME NEW p \in Procs, Dispatch(p) PROVE VersionsOK'
  <2>1. /\ UNCHANGED <<row, snap, stamp, clock>>
        /\ \A q \in Procs \ {p} : req'[q] = req[q]
        /\ \E l \in {"authRead", "done"} : pc' = [pc EXCEPT ![p] = l]
    BY <1>t, <1>1 DEF Dispatch, Answer, Goto, dbVars, localVars, TypeOK
  <2>2. /\ Stamped' \subseteq Stamped
        /\ Reading' \subseteq Reading \ {p}
    BY <1>t, <2>1, MovesSets DEF InTx
  <2> QED BY <1>t, <2>1, <2>2, SameVersions, VersionTypes
<1>2. ASSUME NEW p \in Procs, StatementFails(p) PROVE VersionsOK'
  <2>1. /\ UNCHANGED <<row, snap, stamp, clock, req>>
        /\ \E l \in {"done"} : pc' = [pc EXCEPT ![p] = l]
    BY <1>2 DEF StatementFails, Answer, localVars
  <2>2. Stamped' \subseteq Stamped /\ Reading' \subseteq Reading
    BY <1>t, <2>1, MovesSets DEF InTx
  <2> QED BY <2>1, <2>2, SameVersions
<1>3. CASE Crash
  <2>1. UNCHANGED <<row, snap, stamp, clock, req>>
    BY <1>3 DEF Crash, localVars
  <2>2. \A p \in Procs : pc'[p] = "lost" \/ pc'[p] = pc[p]
    BY <1>3 DEF Crash
  <2>3. Stamped' \subseteq Stamped /\ Reading' \subseteq Reading
    BY <2>2 DEF Stamped, Reading, InTx
  <2> QED BY <2>1, <2>3, SameVersions
<1>4. ASSUME NEW i \in Inspections, CreateFromRequest(i) PROVE VersionsOK'
  <2> USE <1>4 DEF CreateFromRequest
  <2>1. /\ clock' = clock + 1 /\ row'[i].updatedAt = clock + 1
        /\ \A j \in Inspections \ {i} : row'[j] = row[j]
        /\ UNCHANGED <<snap, stamp, req, pc>>
    BY <1>t DEF TypeOK, localVars, NoRow, Now
  <2> HIDE <1>4 DEF CreateFromRequest
  <2>2. Stamped' = Stamped /\ Reading' = Reading
    BY <2>1 DEF Stamped, Reading
  <2>3. /\ \A j \in Inspections : row[j].updatedAt < clock + 1
        /\ \A q \in Procs : snap[q].updatedAt < clock + 1 /\ stamp[q] < clock + 1
    BY <1>t, VersionTypes DEF VersionsOK
  <2>4. /\ \A j \in Inspections : row'[j].updatedAt <= clock'
        /\ \A q \in Procs : snap'[q].updatedAt <= clock' /\ stamp'[q] <= clock'
    BY <1>t, <2>1, <2>3, VersionTypes
  <2>5. \A q \in Stamped', j \in Inspections : stamp'[q] # row'[j].updatedAt
    BY <1>t, <2>1, <2>2, <2>3, VersionTypes DEF VersionsOK
  <2>6. \A q \in Reading' : snap'[q].updatedAt = row'[req'[q].insp].updatedAt =>
                               snap'[q].cols = row'[req'[q].insp].cols
    BY <1>t, <2>1, <2>2, <2>3, VersionTypes DEF VersionsOK
  <2> QED BY <2>1, <2>2, <2>4, <2>5, <2>6 DEF VersionsOK
<1>5. CASE UNCHANGED vars
  BY <1>5 DEF vars, VersionsOK, Stamped, Reading
<1> QED BY <1>1, <1>2, <1>3, <1>4, <1>5, StepKeepsVersions DEF Next, Quiet

\* What PatchKeepsOthers says of a step.
ColumnsChangeByPatch ==
    \A i \in Inspections :
        row[i].status # "absent" /\ row'[i].cols # row[i].cols =>
            \E p \in Procs :
                /\ pc[p] = "update" /\ pc'[p] = "done"
                /\ req[p].insp = i
                /\ row'[i].cols = Patched(row[i].cols, req[p].patch)

LEMMA NextPatches == IInv /\ VersionsOK /\ [Next]_vars => ColumnsChangeByPatch
<1> SUFFICES ASSUME IInv, VersionsOK, [Next]_vars,
                    NEW i \in Inspections, row[i].status # "absent",
                    row'[i].cols # row[i].cols
             PROVE  \E p \in Procs :
                        /\ pc[p] = "update" /\ pc'[p] = "done"
                        /\ req[p].insp = i
                        /\ row'[i].cols = Patched(row[i].cols, req[p].patch)
  BY DEF ColumnsChangeByPatch
<1>t. TypeOK /\ row[i] \in Row
  BY DEF IInv, TypeOK
<1>1. ASSUME NEW p \in Procs, UpdateRow(p)
      PROVE  /\ pc[p] = "update" /\ pc'[p] = "done"
             /\ req[p].insp = i
             /\ row'[i].cols = Patched(row[i].cols, req[p].patch)
  <2>1. /\ pc[p] = "update" /\ pc'[p] = "done"
        /\ row[req[p].insp].updatedAt = snap[p].updatedAt
        /\ row' = [row EXCEPT ![req[p].insp] = [row[req[p].insp] EXCEPT
                      !.cols = Patched(snap[p].cols, req[p].patch),
                      !.updatedAt = stamp[p]]]
    BY <1>t, <1>1 DEF UpdateRow, Answer, AnswerWritten, TypeOK
  <2>2. req[p].insp = i
    BY <1>t, <2>1 DEF TypeOK
  <2>3. row'[i].cols = Patched(snap[p].cols, req[p].patch)
    BY <1>t, <2>1, <2>2 DEF TypeOK, Row
  <2>4. p \in Reading
    BY <2>1 DEF Reading
  <2>5. snap[p].cols = row[i].cols
    BY <2>1, <2>2, <2>4 DEF VersionsOK
  <2> QED BY <2>1, <2>2, <2>3, <2>5
<1>2. ASSUME NEW p \in Procs, TxCommit(p) PROVE FALSE
  <2>1. row' = [row EXCEPT ![req[p].insp] = [row[req[p].insp] EXCEPT
                  !.status = "completed", !.updatedAt = stamp[p],
                  !.completedAt = stamp[p]]]
    BY <1>2 DEF TxCommit
  <2> QED BY <1>t, <2>1 DEF TypeOK, Row
<1>3. ASSUME NEW j \in Inspections, CreateFromRequest(j) PROVE FALSE
  BY <1>t, <1>3 DEF CreateFromRequest, TypeOK
<1>4. ASSUME NEW p \in Procs,
             \/ AuthRead(p) \/ ReadRow(p) \/ ReadPhotos(p) \/ ExistsCheck(p)
             \/ InsertPhoto(p) \/ TxUpdate(p) \/ TxInsert(p)
             \/ Dispatch(p) \/ StatementFails(p)
      PROVE  FALSE
  BY <1>4 DEF AuthRead, ReadRow, ReadPhotos, ExistsCheck, InsertPhoto, TxUpdate,
              TxInsert, Dispatch, StatementFails, dbVars
<1>5. CASE Crash \/ UNCHANGED vars
  BY <1>5 DEF Crash, vars
<1> QED BY <1>1, <1>2, <1>3, <1>4, <1>5 DEF Next, Step, Quiet

\* As long as stamps are distinct, a PATCH changes the columns of its body and
\* leaves the others as they are stored, whatever runs beside it.
THEOREM PatchesKeepOthers ==
    ASSUME ~SharedTicks PROVE Spec => PatchKeepsOthers
<1>1. IInv /\ VersionsOK /\ [Next]_vars => VersionsOK'
  BY NextKeepsVersions
<1>2. Spec => [](IInv /\ VersionsOK)
  BY <1>1, InitVersions, SpecKeepsIInv, PTL DEF Spec
<1>3. IInv /\ VersionsOK /\ [Next]_vars => [ColumnsChangeByPatch]_vars
  BY NextPatches
<1>4. Spec => [][ColumnsChangeByPatch]_vars
  BY <1>2, <1>3, PTL DEF Spec
<1> QED BY <1>4 DEF PatchKeepsOthers, ColumnsChangeByPatch

=============================================================================
