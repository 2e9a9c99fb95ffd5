------------------------ MODULE InspectionEventProofs ------------------------
(***************************************************************************)
(* What the event of a completion says (EventCountsAckedPhotos,            *)
(* EventNamesInspector), and that InspectionAPI implements                 *)
(* InspectionLifecycle, for any number of requests, users and inspections. *)
(***************************************************************************)
EXTENDS InspectionAPIProofs

\* Past canAccess, past the service's read of the row, past that of the photos.
PastAccess == InFlight \ {"authRead"}
PastRead == InFlight \ {"authRead", "readRow"}
Completing == InTx \union {"txUpdate"}

\* One step of the service, as seen by request q: what it knows stays, or has
\* just been read.
Follows(q) ==
    LET i == req[q].insp
    IN /\ pc[q] # "idle" => req'[q] = req[q] /\ acked'[q] = acked[q]
       /\ pc'[q] \in InFlight =>
             \/ pc[q] \in InFlight
             \/ acked'[q] \subseteq photos[req'[q].insp]
       /\ pc'[q] \in PastAccess =>
             \/ pc[q] \in PastAccess
             \/ /\ pc[q] = "authRead"
                /\ row[i].status # "absent" /\ CanAccess(req[q].user, row[i])
       /\ pc'[q] \in PastRead =>
             \/ pc[q] \in PastRead /\ snap'[q] = snap[q]
             \/ pc[q] = "readRow" /\ snap'[q] = row[i]
       /\ pc'[q] \in Completing =>
             \/ pc[q] \in Completing /\ count'[q] = count[q]
             \/ pc[q] = "readPhotos" /\ count'[q] = Cardinality(photos[i])

\* A step of another request.
LEMMA OthersFollow ==
    ASSUME TypeOK, NEW p \in Procs, NEW q \in Procs \ {p},
           Step(p) \/ Dispatch(p) \/ StatementFails(p)
    PROVE  /\ pc'[q] = pc[q] /\ req'[q] = req[q] /\ acked'[q] = acked[q]
           /\ snap'[q] = snap[q] /\ count'[q] = count[q]
<1>1. pc'[q] = pc[q]
  BY DEF TypeOK, Step, Dispatch, StatementFails, AuthRead, ReadRow, ReadPhotos, UpdateRow,
         ExistsCheck, InsertPhoto, TxUpdate, TxInsert, TxCommit, Goto, Answer, AnswerWritten
<1>2. req'[q] = req[q] /\ acked'[q] = acked[q]
  BY DEF TypeOK, Step, Dispatch, StatementFails, AuthRead, ReadRow, ReadPhotos, UpdateRow,
         ExistsCheck, InsertPhoto, TxUpdate, TxInsert, TxCommit
<1>3. snap'[q] = snap[q] /\ count'[q] = count[q]
  BY DEF TypeOK, Step, Dispatch, StatementFails, AuthRead, ReadRow, ReadPhotos, UpdateRow,
         ExistsCheck, InsertPhoto, TxUpdate, TxInsert, TxCommit, localVars
<1> QED BY <1>1, <1>2, <1>3

\* A step of the request itself.
LEMMA OwnStepFollows ==
    ASSUME TypeOK, NEW q \in Procs, Step(q) \/ Dispatch(q) \/ StatementFails(q)
    PROVE  Follows(q)
<1> USE DEF Follows, PastAccess, PastRead, Completing, InTx, InFlight
<1>1. CASE AuthRead(q)
  BY <1>1 DEF AuthRead, Goto, Answer, TypeOK
<1>2. CASE ReadRow(q)
  BY <1>2 DEF ReadRow, Goto, Answer, TypeOK
<1>3. CASE ReadPhotos(q)
  BY <1>3 DEF ReadPhotos, Goto, Answer, TypeOK
<1>4. CASE UpdateRow(q)
  BY <1>4 DEF UpdateRow, Goto, Answer, AnswerWritten, TypeOK, localVars
<1>5. CASE ExistsCheck(q)
  BY <1>5 DEF ExistsCheck, Answer, TypeOK
<1>6. CASE InsertPhoto(q)
  BY <1>6 DEF InsertPhoto, Answer, AnswerWritten, TypeOK
<1>7. CASE TxUpdate(q)
  BY <1>7 DEF TxUpdate, Goto, TypeOK, localVars
<1>8. CASE TxInsert(q)
  BY <1>8 DEF TxInsert, Goto, TypeOK
<1>9. CASE TxCommit(q)
  BY <1>9 DEF TxCommit, Answer, AnswerWritten, TypeOK
<1>10. CASE StatementFails(q)
  BY <1>10 DEF StatementFails, Answer, TypeOK
<1>11. CASE Dispatch(q)
  <2>1. pc[q] = "idle" /\ pc'[q] \notin PastAccess
    BY <1>11 DEF Dispatch, Goto, Answer, TypeOK
  <2>2. acked'[q] \subseteq photos[req'[q].insp]
    BY <1>11 DEF Dispatch, AckedPhotos, TypeOK
  <2> QED BY <2>1, <2>2
<1> QED BY <1>1, <1>2, <1>3, <1>4, <1>5, <1>6, <1>7, <1>8, <1>9, <1>10, <1>11 DEF Step

LEMMA StepFollows == ASSUME TypeOK, [Next]_vars, NEW q \in Procs PROVE Follows(q)
<1>1. ASSUME NEW p \in Procs, Step(p) \/ Dispatch(p) \/ StatementFails(p) PROVE Follows(q)
  <2>1. CASE p = q
    BY <1>1, <2>1, OwnStepFollows
  <2>2. CASE p # q
    BY <1>1, <2>2, OthersFollow DEF Follows
  <2> QED BY <2>1, <2>2
<1>2. CASE Crash
  BY <1>2 DEF Crash, Follows, localVars, PastAccess, PastRead, Completing, InTx, InFlight
<1>3. CASE (\E i \in Inspections : CreateFromRequest(i)) \/ UNCHANGED vars
  BY <1>3 DEF CreateFromRequest, vars, Follows, localVars
<1> QED BY <1>1, <1>2, <1>3 DEF Next, Quiet

\* Rows of the outbox are never changed, and a new one is its request's.
LEMMA OutboxGrows ==
    ASSUME [Next]_vars, NEW e \in outbox', e \notin outbox
    PROVE  \E p \in Procs : TxCommit(p) /\ e = CompletedEvent(p)
<1>1. ASSUME NEW p \in Procs, ~TxCommit(p), Step(p) \/ Dispatch(p) \/ StatementFails(p)
      PROVE  outbox' = outbox
  BY <1>1 DEF Step, Dispatch, StatementFails, AuthRead, ReadRow, ReadPhotos, UpdateRow,
         ExistsCheck, InsertPhoto, TxUpdate, TxInsert, dbVars
<1>2. CASE Crash \/ (\E i \in Inspections : CreateFromRequest(i)) \/ UNCHANGED vars
  BY <1>2 DEF Crash, CreateFromRequest, vars
<1>3. ASSUME NEW p \in Procs, TxCommit(p) PROVE e = CompletedEvent(p)
  BY <1>3 DEF TxCommit
<1> QED BY <1>1, <1>2, <1>3 DEF Next, Quiet

LEMMA OutboxKept == ASSUME [Next]_vars PROVE outbox \subseteq outbox'
<1>1. ASSUME NEW p \in Procs, Step(p) \/ Dispatch(p) \/ StatementFails(p)
      PROVE  outbox \subseteq outbox'
  BY <1>1 DEF Step, Dispatch, StatementFails, AuthRead, ReadRow, ReadPhotos, UpdateRow,
         ExistsCheck, InsertPhoto, TxUpdate, TxInsert, TxCommit, dbVars
<1> QED BY <1>1 DEF Next, Quiet, Crash, CreateFromRequest, vars

LEMMA PhotosKept ==
    ASSUME TypeOK, [Next]_vars, NEW i \in Inspections PROVE photos[i] \subseteq photos'[i]
<1>1. ASSUME NEW p \in Procs, InsertPhoto(p) PROVE photos[i] \subseteq photos'[i]
  BY <1>1 DEF InsertPhoto, TypeOK
<1>2. ASSUME NEW p \in Procs, ~InsertPhoto(p), Step(p) \/ Dispatch(p) \/ StatementFails(p)
      PROVE  photos' = photos
  BY <1>2 DEF Step, Dispatch, StatementFails, AuthRead, ReadRow, ReadPhotos, UpdateRow,
         ExistsCheck, TxUpdate, TxInsert, TxCommit, dbVars
<1> QED BY <1>1, <1>2 DEF Next, Quiet, Crash, CreateFromRequest, vars

\* The event of a transaction's request, and that of one that has ended.
LEMMA EventRequests ==
    ASSUME IInv, NEW e \in outbox
    PROVE  /\ e.by \in Procs /\ pc[e.by] = "done" /\ e.insp \in Inspections
           /\ req[e.by].insp = e.insp
BY DEF IInv, EventsAnswered, TypeOK, Event

-----------------------------------------------------------------------------
(***************************************************************************)
(* photo_count: what was acknowledged before the request is in every later *)
(* read, and photos are never removed.                                     *)
(***************************************************************************)
AckedStored ==
    \A p \in Procs : pc[p] \in InFlight => acked[p] \subseteq photos[req[p].insp]

CountsBetween ==
    \A p \in Procs :
        pc[p] \in Completing =>
            /\ Cardinality(acked[p]) <= count[p]
            /\ count[p] <= Cardinality(photos[req[p].insp])

PhotosInv == AckedStored /\ CountsBetween /\ EventCountsAckedPhotos

LEMMA InitPhotos == Init => PhotosInv
BY DEF Init, PhotosInv, AckedStored, CountsBetween, EventCountsAckedPhotos,
       Completing, InTx, InFlight

LEMMA PhotosCard ==
    ASSUME TypeOK, NEW S \in SUBSET Procs, NEW T \in SUBSET S
    PROVE  Cardinality(T) \in Nat /\ Cardinality(S) \in Nat /\ Cardinality(T) <= Cardinality(S)
BY FS_Subset, FS_CardinalityType, ConstantsAssumption DEF ConstantsAssumption

LEMMA NextKeepsPhotos == IInv /\ PhotosInv /\ [Next]_vars => PhotosInv'
<1> SUFFICES ASSUME IInv, PhotosInv, [Next]_vars PROVE PhotosInv'
  OBVIOUS
<1>t. TypeOK /\ TypeOK' /\ IInv'
  BY NextKeepsIInv DEF IInv
<1>g. \A i \in Inspections :
         /\ photos[i] \subseteq photos'[i] /\ photos'[i] \subseteq Procs
         /\ Cardinality(photos[i]) \in Nat /\ Cardinality(photos'[i]) \in Nat
         /\ Cardinality(photos[i]) <= Cardinality(photos'[i])
  <2> SUFFICES ASSUME NEW i \in Inspections
               PROVE  /\ photos[i] \subseteq photos'[i] /\ photos'[i] \subseteq Procs
                      /\ Cardinality(photos[i]) \in Nat /\ Cardinality(photos'[i]) \in Nat
                      /\ Cardinality(photos[i]) <= Cardinality(photos'[i])
    OBVIOUS
  <2>1. photos[i] \subseteq photos'[i] /\ photos'[i] \in SUBSET Procs
    BY <1>t, PhotosKept DEF TypeOK
  <2> QED BY <1>t, <2>1, PhotosCard
<1>r. \A q \in Procs : pc[q] \in InFlight => req[q].insp \in Inspections
  BY <1>t, RequestType DEF InFlight
<1>1. AckedStored'
  <2> SUFFICES ASSUME NEW q \in Procs, pc'[q] \in InFlight
               PROVE  acked'[q] \subseteq photos'[req'[q].insp]
    BY DEF AckedStored
  <2>1. req'[q].insp \in Inspections
    <3>1. pc'[q] # "idle"
      BY DEF InFlight
    <3> QED BY <1>t, <3>1 DEF TypeOK, Request
  <2>2. CASE pc[q] \in InFlight
    <3>1. req'[q] = req[q] /\ acked'[q] = acked[q]
      BY <1>t, <2>2, StepFollows DEF Follows, InFlight
    <3> QED BY <1>g, <2>1, <2>2, <3>1 DEF PhotosInv, AckedStored
  <2>3. CASE acked'[q] \subseteq photos[req'[q].insp]
    BY <1>g, <2>1, <2>3
  <2> QED BY <1>t, <2>2, <2>3, StepFollows DEF Follows
<1>2. CountsBetween'
  <2> SUFFICES ASSUME NEW q \in Procs, pc'[q] \in Completing
               PROVE  /\ Cardinality(acked'[q]) <= count'[q]
                      /\ count'[q] <= Cardinality(photos'[req'[q].insp])
    BY DEF CountsBetween
  <2>1. \/ pc[q] \in Completing /\ count'[q] = count[q]
        \/ pc[q] = "readPhotos" /\ count'[q] = Cardinality(photos[req[q].insp])
    BY <1>t, StepFollows DEF Follows
  <2>2. pc[q] \in InFlight /\ pc[q] # "idle"
    BY <2>1 DEF Completing, InTx, InFlight
  <2>3. req'[q] = req[q] /\ acked'[q] = acked[q] /\ req[q].insp \in Inspections
    BY <1>t, <1>r, <2>2, StepFollows DEF Follows
  <2>4. acked[q] \subseteq photos[req[q].insp]
    BY <2>2 DEF PhotosInv, AckedStored
  <2>5. Cardinality(acked[q]) \in Nat
        /\ Cardinality(acked[q]) <= Cardinality(photos[req[q].insp])
    <3>1. photos[req[q].insp] \in SUBSET Procs /\ acked[q] \in SUBSET photos[req[q].insp]
      BY <1>t, <2>3, <2>4 DEF TypeOK
    <3> QED BY <1>t, <3>1, PhotosCard
  <2>6. count[q] \in Nat
    BY <1>t DEF TypeOK
  <2> QED BY <1>g, <2>1, <2>3, <2>5, <2>6 DEF PhotosInv, CountsBetween
<1>3. EventCountsAckedPhotos'
  <2> SUFFICES ASSUME NEW e \in outbox'
               PROVE  /\ acked'[e.by] \subseteq photos'[e.insp]
                      /\ Cardinality(acked'[e.by]) <= e.photoCount
                      /\ e.photoCount <= Cardinality(photos'[e.insp])
    BY DEF EventCountsAckedPhotos
  <2>1. CASE e \in outbox
    <3>1. e.by \in Procs /\ pc[e.by] # "idle" /\ e.insp \in Inspections /\ e.photoCount \in Nat
      BY <1>t, <2>1, EventRequests DEF TypeOK, Event
    <3>2. acked'[e.by] = acked[e.by]
      BY <1>t, <3>1, StepFollows DEF Follows
    <3> QED BY <1>g, <2>1, <3>1, <3>2 DEF PhotosInv, EventCountsAckedPhotos
  <2>2. CASE e \notin outbox
    <3>1. PICK p \in Procs : TxCommit(p) /\ e = CompletedEvent(p)
      BY <2>2, OutboxGrows
    <3>2. /\ e.by = p /\ e.insp = req[p].insp /\ e.photoCount = count[p]
          /\ pc[p] = "txCommit" /\ acked' = acked
      BY <3>1 DEF CompletedEvent, TxCommit
    <3>3. /\ acked[p] \subseteq photos[req[p].insp] /\ req[p].insp \in Inspections
          /\ Cardinality(acked[p]) <= count[p] /\ count[p] \in Nat
          /\ count[p] <= Cardinality(photos[req[p].insp])
      BY <1>t, <1>r, <3>2 DEF PhotosInv, AckedStored, CountsBetween, InFlight, Completing,
                               InTx, TypeOK
    <3> QED BY <1>g, <3>2, <3>3
  <2> QED BY <2>1, <2>2
<1> QED BY <1>1, <1>2, <1>3 DEF PhotosInv

\* A completion's photo_count has every photo that was acknowledged before it
\* was requested, and no photo that is not stored.
THEOREM EventsCountAckedPhotos == Spec => []EventCountsAckedPhotos
<1>1. PhotosInv => EventCountsAckedPhotos
  BY DEF PhotosInv
<1> QED BY <1>1, InitPhotos, NextKeepsPhotos, SpecKeepsIInv, PTL DEF Spec

-----------------------------------------------------------------------------
(***************************************************************************)
(* The inspector of the event: what canAccess saw is not cleared by a      *)
(* patch, as long as none is written from an old snapshot.                 *)
(***************************************************************************)
Plain(p) == ~IsStaff(req[p].user)
Names(r) == r.cols["inspector_id"] # Nil

RowsNamed ==
    \A p \in Procs : pc[p] \in PastAccess /\ Plain(p) => Names(row[req[p].insp])

SnapsNamed == \A p \in Procs : pc[p] \in PastRead /\ Plain(p) => Names(snap[p])

NamesInv == RowsNamed /\ SnapsNamed /\ EventNamesInspector

LEMMA InitNames == Init => NamesInv
BY DEF Init, NamesInv, RowsNamed, SnapsNamed, EventNamesInspector, PastAccess, PastRead, InFlight

LEMMA NamesKept ==
    ASSUME IInv, VersionsOK, [Next]_vars,
           NEW i \in Inspections, row[i].status # "absent", Names(row[i])
    PROVE  Names(row'[i])
<1>1. CASE row'[i].cols = row[i].cols
  BY <1>1 DEF Names
<1>2. CASE row'[i].cols # row[i].cols
  <2>1. PICK p \in Procs : /\ pc[p] = "update"
                           /\ row'[i].cols = Patched(row[i].cols, req[p].patch)
    BY <1>2, NextPatches DEF ColumnsChangeByPatch
  <2>2. req[p].patch \in Patches \union {<<>>}
    BY <2>1, RequestType DEF IInv
  <2>3. "inspector_id" \in DOMAIN req[p].patch => req[p].patch["inspector_id"] # Nil
    <3>1. CASE req[p].patch = <<>>
      BY <3>1
    <3>2. CASE req[p].patch \in Patches
      BY <3>2, ConstantsAssumption DEF ConstantsAssumption, PatchAssumption
    <3> QED BY <2>2, <3>1, <3>2
  <2>4. row'[i].cols["inspector_id"] = IF "inspector_id" \in DOMAIN req[p].patch
                                         THEN req[p].patch["inspector_id"]
                                         ELSE row[i].cols["inspector_id"]
    BY <2>1 DEF Patched, Columns
  <2> QED BY <2>3, <2>4 DEF Names
<1> QED BY <1>1, <1>2

LEMMA NextKeepsNames == IInv /\ VersionsOK /\ NamesInv /\ [Next]_vars => NamesInv'
<1> SUFFICES ASSUME IInv, VersionsOK, NamesInv, [Next]_vars PROVE NamesInv'
  OBVIOUS
<1>t. TypeOK
  BY DEF IInv
<1>r. \A q \in Procs : pc[q] \in InFlight =>
         /\ req'[q] = req[q] /\ req[q].insp \in Inspections /\ req[q].user \in Users
  BY <1>t, RequestType, StepFollows DEF Follows, InFlight, Request
<1>1. RowsNamed'
  <2> SUFFICES ASSUME NEW q \in Procs, pc'[q] \in PastAccess, Plain(q)'
               PROVE  Names(row'[req'[q].insp])
    BY DEF RowsNamed, Names
  <2>1. \/ pc[q] \in PastAccess
        \/ /\ pc[q] = "authRead" /\ row[req[q].insp].status # "absent"
           /\ CanAccess(req[q].user, row[req[q].insp])
    BY <1>t, StepFollows DEF Follows
  <2>2. /\ req'[q] = req[q] /\ req[q].insp \in Inspections /\ req[q].user \in Users
    BY <1>r, <2>1 DEF PastAccess, InFlight
  <2>3. Plain(q)
    BY <2>2 DEF Plain
  <2>4. CASE pc[q] \in PastAccess
    <3>1. Names(row[req[q].insp]) /\ row[req[q].insp].status # "absent"
      BY <2>3, <2>4 DEF NamesInv, RowsNamed, IInv, FlowOK, FlowAt, PastAccess
    <3> QED BY <2>2, <3>1, NamesKept
  <2>5. CASE row[req[q].insp].status # "absent" /\ CanAccess(req[q].user, row[req[q].insp])
    <3>1. Names(row[req[q].insp])
      BY <2>2, <2>3, <2>5, ConstantsAssumption DEF CanAccess, Plain, Names, ConstantsAssumption
    <3> QED BY <2>2, <2>5, <3>1, NamesKept
  <2> QED BY <2>1, <2>4, <2>5
<1>2. SnapsNamed'
  <2> SUFFICES ASSUME NEW q \in Procs, pc'[q] \in PastRead, Plain(q)'
               PROVE  Names(snap'[q])
    BY DEF SnapsNamed, Names
  <2>1. \/ pc[q] \in PastRead /\ snap'[q] = snap[q]
        \/ pc[q] = "readRow" /\ snap'[q] = row[req[q].insp]
    BY <1>t, StepFollows DEF Follows
  <2>2. pc[q] \in PastAccess /\ Plain(q)
    BY <1>r, <2>1 DEF PastRead, PastAccess, InFlight, Plain
  <2> QED BY <2>1, <2>2 DEF NamesInv, RowsNamed, SnapsNamed
<1>3. EventNamesInspector'
  <2> SUFFICES ASSUME NEW e \in outbox', ~IsStaff(req'[e.by].user)
               PROVE  e.inspector # Nil
    BY DEF EventNamesInspector, IsStaff
  <2>1. CASE e \in outbox
    <3>1. req'[e.by] = req[e.by]
      BY <1>t, <2>1, EventRequests, StepFollows DEF Follows
    <3> QED BY <2>1, <3>1 DEF NamesInv, EventNamesInspector
  <2>2. CASE e \notin outbox
    <3>1. PICK p \in Procs : TxCommit(p) /\ e = CompletedEvent(p)
      BY <2>2, OutboxGrows
    <3>2. /\ e.by = p /\ e.inspector = snap[p].cols["inspector_id"]
          /\ pc[p] = "txCommit" /\ req' = req
      BY <3>1 DEF CompletedEvent, TxCommit
    <3>3. pc[p] \in PastRead /\ Plain(p)
      BY <3>2 DEF PastRead, InFlight, Plain
    <3> QED BY <3>2, <3>3 DEF NamesInv, SnapsNamed, Names
  <2> QED BY <2>1, <2>2
<1> QED BY <1>1, <1>2, <1>3 DEF NamesInv

\* The event of a completion that a plain inspector requested names an inspector,
\* as long as stamps are distinct.
THEOREM EventsNameInspector ==
    ASSUME ~SharedTicks PROVE Spec => []EventNamesInspector
<1>1. IInv /\ VersionsOK /\ [Next]_vars => VersionsOK'
  BY NextKeepsVersions
<1>2. NamesInv => EventNamesInspector
  BY DEF NamesInv
<1> QED BY <1>1, <1>2, InitVersions, InitNames, NextKeepsNames, SpecKeepsIInv, PTL DEF Spec

-----------------------------------------------------------------------------
(***************************************************************************)
(* The refinement of InspectionLifecycle.                                  *)
(***************************************************************************)
StatusOf == [i \in Inspections |-> row[i].status]
EventOf == [i \in Inspections |->
              IF \E e \in outbox : e.insp = i
              THEN CHOOSE e \in outbox : e.insp = i ELSE NoEvent]

\* With one event for an inspection, EventOf is that event.
LEMMA EventIs ==
    ASSUME OneEventPerCompletion, NEW e \in outbox, e.insp \in Inspections
    PROVE  EventOf[e.insp] = e
<1> DEFINE c == CHOOSE f \in outbox : f.insp = e.insp
<1>1. c \in outbox /\ c.insp = e.insp
  OBVIOUS
<1>2. c = e
  BY <1>1 DEF OneEventPerCompletion
<1> QED BY <1>2 DEF EventOf

LEMMA InitLife == Init => Life!Init
<1> SUFFICES ASSUME Init PROVE Life!Init
  OBVIOUS
<1>1. \A i \in Inspections : row[i].status \in {"absent", "scheduled"}
  <2> SUFFICES ASSUME NEW i \in Inspections PROVE row[i].status \in {"absent", "scheduled"}
    OBVIOUS
  <2>1. CASE row[i] = NoRow
    BY <2>1 DEF NoRow
  <2>2. ASSUME NEW u \in Users \union {Nil},
               row[i] = [NoRow EXCEPT !.status = "scheduled", !.cols["inspector_id"] = u]
        PROVE  row[i].status = "scheduled"
    BY <2>2 DEF NoRow
  <2> QED BY <2>1, <2>2 DEF Init
<1>2. StatusOf \in [Inspections -> {"absent", "scheduled"}]
  BY <1>1 DEF StatusOf
<1>3. EventOf = [i \in Inspections |-> NoEvent]
  BY DEF Init, EventOf
<1> QED BY <1>2, <1>3 DEF Life!Init, StatusOf, EventOf

\* A step that changes no status and no event.
LEMMA SameLife ==
    ASSUME \A i \in Inspections : row'[i].status = row[i].status, outbox' = outbox
    PROVE  UNCHANGED Life!vars
<1>1. StatusOf' = StatusOf /\ EventOf' = EventOf
  BY DEF StatusOf, EventOf
<1> QED BY <1>1 DEF Life!vars, StatusOf, EventOf

LEMMA UpdateRowIsLife ==
    ASSUME TypeOK, NEW p \in Procs, UpdateRow(p) PROVE UNCHANGED Life!vars
<1> DEFINE i == req[p].insp
<1>1. outbox' = outbox
  BY DEF UpdateRow
<1>2. \/ row' = row
      \/ row' = [row EXCEPT ![i] = [row[i] EXCEPT
                    !.cols = Patched(snap[p].cols, req[p].patch), !.updatedAt = stamp[p]]]
  BY DEF UpdateRow
<1>3. \A j \in Inspections : row[j] \in Row
  BY DEF TypeOK
<1>4. \A j \in Inspections : row'[j].status = row[j].status
  <2>1. CASE row' = row
    BY <2>1
  <2>2. CASE row' = [row EXCEPT ![i] = [row[i] EXCEPT
                       !.cols = Patched(snap[p].cols, req[p].patch), !.updatedAt = stamp[p]]]
    BY <1>3, <2>2 DEF TypeOK, Row
  <2> QED BY <1>2, <2>1, <2>2
<1> QED BY <1>1, <1>4, SameLife

LEMMA CreateIsSchedule ==
    ASSUME TypeOK, NEW i \in Inspections, CreateFromRequest(i) PROVE Life!Schedule(i)
<1>1. /\ row[i].status = "absent" /\ row'[i].status = "scheduled" /\ outbox' = outbox
      /\ \A j \in Inspections \ {i} : row'[j] = row[j]
  BY DEF CreateFromRequest, TypeOK, NoRow
<1>2. StatusOf' = [StatusOf EXCEPT ![i] = "scheduled"] /\ EventOf' = EventOf
  BY <1>1 DEF StatusOf, EventOf
<1>3. StatusOf[i] = "absent"
  BY <1>1 DEF StatusOf
<1> QED BY <1>2, <1>3 DEF Life!Schedule, StatusOf, EventOf

LEMMA CommitIsComplete ==
    ASSUME IInv, IInv', NEW p \in Procs, TxCommit(p),
           NEW i \in Inspections, i = req[p].insp
    PROVE  Life!Complete(i)
<1> DEFINE ev == CompletedEvent(p)
<1>1. row[i].status = "scheduled"
  BY DEF TxCommit, IInv, LocksOK, LocksAt, InTx
<1>2. row[i] \in Row
  BY <1>1 DEF IInv, TypeOK
<1>3. /\ row'[i].status = "completed" /\ outbox' = outbox \union {ev} /\ ev.insp = i
      /\ \A j \in Inspections \ {i} : row'[j] = row[j]
  <2>1. row' = [row EXCEPT ![i] = [row[i] EXCEPT !.status = "completed",
                                     !.updatedAt = stamp[p], !.completedAt = stamp[p]]]
        /\ outbox' = outbox \union {ev}
    BY DEF TxCommit
  <2>2. row'[i].status = "completed" /\ \A j \in Inspections \ {i} : row'[j] = row[j]
    BY <1>1, <1>2, <2>1 DEF IInv, TypeOK, Row
  <2> QED BY <2>1, <2>2 DEF CompletedEvent
<1>4. StatusOf[i] = "scheduled" /\ StatusOf' = [StatusOf EXCEPT ![i] = "completed"]
  BY <1>1, <1>3 DEF StatusOf
<1>5. EventOf'[i] = ev
  <2>1. ev \in outbox' /\ OneEventPerCompletion'
    BY <1>3 DEF IInv
  <2>2. \A f \in outbox' : f.insp = i => f = ev
    BY <1>3, <2>1 DEF OneEventPerCompletion
  <2> DEFINE c == CHOOSE f \in outbox' : f.insp = i
  <2>3. c \in outbox' /\ c.insp = i
    BY <1>3, <2>1
  <2>4. c = ev
    BY <2>2, <2>3
  <2> QED BY <1>1, <1>3, <2>1, <2>4 DEF EventOf
<1>6. ASSUME NEW j \in Inspections \ {i} PROVE EventOf'[j] = EventOf[j]
  <2>1. CASE \E f \in outbox : f.insp = j
    <3>1. PICK f \in outbox : f.insp = j
      BY <2>1
    <3>2. EventOf[j] = f
      BY <1>6, <3>1, EventIs DEF IInv
    <3> DEFINE c == CHOOSE g \in outbox' : g.insp = j
    <3>3. c \in outbox' /\ c.insp = j
      BY <1>3, <3>1
    <3>4. c = f
      BY <1>3, <3>1, <3>3 DEF IInv, OneEventPerCompletion
    <3>5. EventOf'[j] = c
      BY <1>3, <1>6, <3>1 DEF EventOf
    <3> QED BY <3>2, <3>4, <3>5
  <2>2. CASE ~\E f \in outbox : f.insp = j
    <3>1. ~\E f \in outbox' : f.insp = j
      BY <1>3, <1>6, <2>2
    <3> QED BY <1>6, <2>2, <3>1 DEF EventOf
  <2> QED BY <2>1, <2>2
<1>7. EventOf' = [EventOf EXCEPT ![i] = EventOf'[i]]
  <2>1. EventOf' = [j \in Inspections |-> EventOf'[j]]
    BY DEF EventOf
  <2>2. EventOf = [j \in Inspections |-> EventOf[j]]
    BY DEF EventOf
  <2> QED BY <1>6, <2>1, <2>2
<1>8. EventOf'[i] \in Event
  BY <1>3, <1>5 DEF IInv, TypeOK
<1> QED BY <1>4, <1>7, <1>8 DEF Life!Complete, StatusOf, EventOf

LEMMA NextIsLife == IInv /\ IInv' /\ [Next]_vars => [Life!Next]_(Life!vars)
<1> SUFFICES ASSUME IInv, IInv', [Next]_vars PROVE [Life!Next]_(Life!vars)
  OBVIOUS
<1>t. TypeOK
  BY DEF IInv
<1>1. ASSUME NEW p \in Procs, TxCommit(p) PROVE Life!Next
  <2>1. PICK i \in Inspections : i = req[p].insp
    BY <1>t, <1>1, RequestType DEF TxCommit
  <2>2. Life!Complete(i)
    BY <1>1, <2>1, CommitIsComplete
  <2> QED BY <2>2 DEF Life!Next
<1>2. ASSUME NEW i \in Inspections, CreateFromRequest(i) PROVE Life!Next
  BY <1>t, <1>2, CreateIsSchedule DEF Life!Next
<1>3. ASSUME NEW p \in Procs, UpdateRow(p) PROVE UNCHANGED Life!vars
  BY <1>t, <1>3, UpdateRowIsLife
<1>4. ASSUME NEW p \in Procs,
             \/ AuthRead(p) \/ ReadRow(p) \/ ReadPhotos(p) \/ ExistsCheck(p)
             \/ InsertPhoto(p) \/ TxUpdate(p) \/ TxInsert(p)
             \/ Dispatch(p) \/ StatementFails(p)
      PROVE  UNCHANGED Life!vars
  <2>1. row' = row /\ outbox' = outbox
    BY <1>4 DEF AuthRead, ReadRow, ReadPhotos, ExistsCheck, InsertPhoto, TxUpdate,
                TxInsert, Dispatch, StatementFails, dbVars
  <2> QED BY <2>1, SameLife
<1>5. CASE Crash \/ UNCHANGED vars
  <2>1. row' = row /\ outbox' = outbox
    BY <1>5 DEF Crash, vars
  <2> QED BY <2>1, SameLife
<1> QED BY <1>1, <1>2, <1>3, <1>4, <1>5 DEF Next, Step, Quiet

\* The request path, with every interleaving, failure and crash, does to an
\* inspection what InspectionLifecycle allows and nothing else.
THEOREM LifecycleImplemented == Spec => ImplementsLifecycle
<1>1. Init => Life!Init
  BY InitLife
<1>2. Spec => [][Life!Next]_(Life!vars)
  BY SpecKeepsIInv, NextIsLife, PTL DEF Spec
<1> QED BY <1>1, <1>2, PTL DEF Spec, ImplementsLifecycle, Life!Spec

=============================================================================
