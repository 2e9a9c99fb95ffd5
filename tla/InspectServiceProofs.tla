------------------------- MODULE InspectServiceProofs -------------------------
(***************************************************************************)
(* The parts keep, within the whole service, what is proved of each alone: *)
(* every step of the service is a step of each part or leaves it alone.    *)
(***************************************************************************)
EXTENDS InspectService, FiniteSetTheorems, TLAPS

\* The theorems about the parts, read over the state of the service.
A == INSTANCE InspectionEventProofs WITH pc <- apiPc
R == INSTANCE OutboxRelayProofs WITH
    lastId <- outboxSeq, tx <- Tx, pc <- relayPc, faults <- relayFaults
C == INSTANCE RequestConsumerProofs WITH pc <- consumerPc, faults <- consumerFaults

\* Each part has the operators of FiniteSets under a name of its own.
LEMMA SameSets ==
    ASSUME NEW S
    PROVE  /\ API!Cardinality(S) = A!Cardinality(S) /\ API!IsFiniteSet(S) = A!IsFiniteSet(S)
           /\ Relay!Cardinality(S) = R!Cardinality(S)
           /\ Relay!IsFiniteSet(S) = R!IsFiniteSet(S)
           /\ Consumer!Cardinality(S) = C!Cardinality(S)
           /\ API!IsFiniteSet(S) = IsFiniteSet(S) /\ Relay!IsFiniteSet(S) = IsFiniteSet(S)
<1>1. /\ API!Cardinality(S) = A!Cardinality(S) /\ Relay!Cardinality(S) = R!Cardinality(S)
      /\ Consumer!Cardinality(S) = C!Cardinality(S)
  BY DEF API!Cardinality, A!Cardinality, Relay!Cardinality, R!Cardinality,
     Consumer!Cardinality, C!Cardinality
<1>2. /\ API!IsFiniteSet(S) = A!IsFiniteSet(S) /\ Relay!IsFiniteSet(S) = R!IsFiniteSet(S)
      /\ API!IsFiniteSet(S) = IsFiniteSet(S) /\ Relay!IsFiniteSet(S) = IsFiniteSet(S)
  BY DEF API!IsFiniteSet, A!IsFiniteSet, Relay!IsFiniteSet, R!IsFiniteSet, IsFiniteSet
<1> QED BY <1>1, <1>2

LEMMA PartsAssumptions ==
    A!ConstantsAssumption /\ R!ConstantsAssumption /\ C!ConstantsAssumption
<1>1. A!ConstantsAssumption
  BY ConstantsAssumption, SameSets DEF ConstantsAssumption, API!ConstantsAssumption,
     A!ConstantsAssumption, API!PatchAssumption, A!PatchAssumption, API!Roles, A!Roles,
     API!Columns, A!Columns, API!Values, A!Values
<1>2. R!ConstantsAssumption
  BY ConstantsAssumption, SameSets DEF ConstantsAssumption, Relay!ConstantsAssumption,
     R!ConstantsAssumption
<1>3. C!ConstantsAssumption
  BY ConstantsAssumption DEF ConstantsAssumption, Consumer!ConstantsAssumption,
     C!ConstantsAssumption, Consumer!Offsets, C!Offsets
<1> QED BY <1>1, <1>2, <1>3

LEMMA SameStep ==
    ASSUME NEW p
    PROVE  /\ API!Step(p) <=> A!Step(p)
           /\ API!Dispatch(p) <=> A!Dispatch(p)
           /\ API!StatementFails(p) <=> A!StatementFails(p)
<1>1. API!Step(p) <=> A!Step(p)
  <2>1. API!ReadPhotos(p) <=> A!ReadPhotos(p)
    BY SameSets DEF API!ReadPhotos, A!ReadPhotos, API!Goto, A!Goto, API!Answer, A!Answer,
       API!ReadClock, A!ReadClock, API!Now, A!Now, API!dbVars, A!dbVars
  <2>2. API!AuthRead(p) <=> A!AuthRead(p)
    BY DEF API!AuthRead, A!AuthRead, API!CanAccess, A!CanAccess, API!IsStaff, A!IsStaff,
       API!Goto, A!Goto, API!Answer, A!Answer, API!dbVars, A!dbVars, API!localVars, A!localVars
  <2>3. API!ReadRow(p) <=> A!ReadRow(p)
    BY DEF API!ReadRow, A!ReadRow, API!Goto, A!Goto, API!Answer, A!Answer, API!dbVars, A!dbVars
  <2>4. /\ API!UpdateRow(p) <=> A!UpdateRow(p)
        /\ API!ExistsCheck(p) <=> A!ExistsCheck(p)
        /\ API!InsertPhoto(p) <=> A!InsertPhoto(p)
    BY DEF API!UpdateRow, A!UpdateRow, API!ExistsCheck, A!ExistsCheck, API!InsertPhoto,
       A!InsertPhoto, API!Goto, A!Goto, API!Answer, A!Answer, API!AnswerWritten,
       A!AnswerWritten, API!Patched, A!Patched, API!Columns, A!Columns, API!dbVars, A!dbVars,
       API!localVars, A!localVars
  <2>5. /\ API!TxUpdate(p) <=> A!TxUpdate(p)
        /\ API!TxInsert(p) <=> A!TxInsert(p)
        /\ API!TxCommit(p) <=> A!TxCommit(p)
    BY DEF API!TxUpdate, A!TxUpdate, API!TxInsert, A!TxInsert, API!TxCommit, A!TxCommit,
       API!Goto, A!Goto, API!Answer, A!Answer, API!AnswerWritten, A!AnswerWritten,
       API!ReleaseLocks, A!ReleaseLocks, API!CompletedEvent, A!CompletedEvent,
       API!localVars, A!localVars
  <2> QED BY <2>1, <2>2, <2>3, <2>4, <2>5 DEF API!Step, A!Step
<1>2. API!Dispatch(p) <=> A!Dispatch(p)
  BY DEF API!Dispatch, A!Dispatch, API!Operations, A!Operations, API!AckedPhotos, A!AckedPhotos,
     API!Refused, A!Refused, API!AllowedRoles, A!AllowedRoles, API!IsStaff, A!IsStaff,
     API!Roles, A!Roles, API!Goto, A!Goto, API!Answer, A!Answer,
     API!dbVars, A!dbVars, API!localVars, A!localVars
<1>3. API!StatementFails(p) <=> A!StatementFails(p)
  BY DEF API!StatementFails, A!StatementFails, API!InFlight, A!InFlight,
     API!ReleaseLocks, A!ReleaseLocks, API!Answer, A!Answer, API!localVars, A!localVars
<1> QED BY <1>1, <1>2, <1>3

LEMMA SameCrash == API!Crash <=> A!Crash
BY DEF API!Crash, A!Crash, API!InFlight, A!InFlight, API!ReleaseLocks, A!ReleaseLocks,
   API!localVars, A!localVars

LEMMA SameCreate ==
    ASSUME NEW i PROVE API!CreateFromRequest(i) <=> A!CreateFromRequest(i)
BY DEF API!CreateFromRequest, A!CreateFromRequest, API!Now, A!Now, API!NoRow, A!NoRow,
   API!NoColumns, A!NoColumns, API!Columns, A!Columns, API!localVars, A!localVars

LEMMA SameInit == API!Init <=> A!Init
BY DEF API!Init, A!Init, API!NoRow, A!NoRow, API!NoColumns, A!NoColumns,
   API!Columns, A!Columns

LEMMA SameRelay ==
    /\ Relay!Init <=> R!Init
    /\ Relay!Next <=> R!Next
    /\ Relay!vars = R!vars
<1>1. Relay!Init <=> R!Init
  BY DEF Relay!Init, R!Init, Relay!Ids, R!Ids
<1>2. Relay!Next <=> R!Next
  <2>1. \A r : Relay!Relay(r) <=> R!Relay(r)
    <3>1. \A S, n : Relay!FirstOf(S, n) = R!FirstOf(S, n)
      BY SameSets DEF Relay!FirstOf, R!FirstOf
    <3>2. Relay!Unpublished = R!Unpublished /\ Relay!Ids = R!Ids
      BY DEF Relay!Unpublished, R!Unpublished, Relay!Committed, R!Committed, Relay!Ids, R!Ids
    <3> QED BY <3>1, <3>2 DEF Relay!Relay, R!Relay, Relay!Poll, R!Poll, Relay!Publish,
          R!Publish, Relay!MayStore, R!MayStore, Relay!Mark, R!Mark, Relay!IsNext, R!IsNext
  <2>2. Relay!Writer <=> R!Writer
    BY DEF Relay!Writer, R!Writer, Relay!Insert, R!Insert, Relay!Commit, R!Commit,
       Relay!Abort, R!Abort, Relay!Committed, R!Committed, Relay!Ids, R!Ids
  <2>3. Relay!Failure <=> R!Failure
    BY DEF Relay!Failure, R!Failure, Relay!Crash, R!Crash, Relay!PublishFails, R!PublishFails,
       Relay!MarkFails, R!MarkFails, Relay!Fault, R!Fault, Relay!DropBatch, R!DropBatch,
       Relay!MayStore, R!MayStore, Relay!Ids, R!Ids, Relay!IsNext, R!IsNext
  <2>4. /\ \A r : Relay!Start(r) <=> R!Start(r)
        /\ \A e : Relay!StoreLate(e) <=> R!StoreLate(e)
    BY DEF Relay!Start, R!Start, Relay!StoreLate, R!StoreLate
  <2>5. Relay!Ids = R!Ids
    BY DEF Relay!Ids, R!Ids
  <2> QED BY <2>1, <2>2, <2>3, <2>4, <2>5 DEF Relay!Next, R!Next
<1>3. Relay!vars = R!vars
  BY DEF Relay!vars, R!vars
<1> QED BY <1>1, <1>2, <1>3

LEMMA SameConsumer ==
    ASSUME NEW c
    PROVE  /\ Consumer!Work(c) <=> C!Work(c)
           /\ Consumer!CallFails(c) <=> C!CallFails(c)
           /\ Consumer!Crash(c) <=> C!Crash(c)
           /\ Consumer!Start(c) <=> C!Start(c)
           /\ Consumer!Exit(c) <=> C!Exit(c)
           /\ Consumer!Assign(c) <=> C!Assign(c)
           /\ Consumer!Rebalance(c) <=> C!Rebalance(c)
<1>1. Consumer!Inserted(c) = C!Inserted(c)
  BY SameSets DEF Consumer!Inserted, C!Inserted, Consumer!HasInspection, C!HasInspection,
     Consumer!NewInspection, C!NewInspection, Consumer!Current, C!Current
<1>2. Consumer!Event(c) = C!Event(c)
  BY DEF Consumer!Event, C!Event, Consumer!Current, C!Current
<1>3. \A l : Consumer!Goto(c, l) <=> C!Goto(c, l)
  BY DEF Consumer!Goto, C!Goto
<1>4. \A e : Consumer!Claimed(e) <=> C!Claimed(e)
  BY DEF Consumer!Claimed, C!Claimed, Consumer!Holds, C!Holds, Consumer!Event, C!Event,
     Consumer!Current, C!Current
<1>5. Consumer!Work(c) <=> C!Work(c)
  BY <1>1, <1>2, <1>3, <1>4 DEF Consumer!Work, C!Work, Consumer!Fetch, C!Fetch,
     Consumer!Seen, C!Seen, Consumer!Create, C!Create, Consumer!Forget, C!Forget,
     Consumer!Commit, C!Commit
<1>6. /\ Consumer!Start(c) <=> C!Start(c)
      /\ Consumer!Exit(c) <=> C!Exit(c)
      /\ Consumer!Assign(c) <=> C!Assign(c)
      /\ Consumer!Rebalance(c) <=> C!Rebalance(c)
  BY <1>3 DEF Consumer!Start, C!Start, Consumer!Exit, C!Exit, Consumer!Assign, C!Assign,
     Consumer!TakeOver, C!TakeOver, Consumer!Rebalance, C!Rebalance, Consumer!Fault, C!Fault
<1>7. Consumer!MaybeDone(c) <=> C!MaybeDone(c)
  BY <1>1, <1>2 DEF Consumer!MaybeDone, C!MaybeDone
<1>8. \A ls : Consumer!LeftBehind(c, ls) = C!LeftBehind(c, ls)
  BY <1>2 DEF Consumer!LeftBehind, C!LeftBehind
<1>9. \A l : Consumer!AfterError(l) = C!AfterError(l)
  BY DEF Consumer!AfterError, C!AfterError
<1>10. /\ Consumer!CallFails(c) <=> C!CallFails(c)
       /\ Consumer!Crash(c) <=> C!Crash(c)
  BY <1>3, <1>7, <1>8, <1>9 DEF Consumer!CallFails, C!CallFails, Consumer!Crash, C!Crash,
     Consumer!Fault, C!Fault
<1> QED BY <1>5, <1>6, <1>10

LEMMA SameExpire ==
    ASSUME NEW e
    PROVE  /\ Consumer!Expire(e) <=> C!Expire(e)
           /\ Consumer!Events = C!Events
BY DEF Consumer!Expire, C!Expire, Consumer!Claimed, C!Claimed, Consumer!Holds, C!Holds,
   Consumer!Event, C!Event, Consumer!Current, C!Current, Consumer!Events, C!Events,
   Consumer!Offsets, C!Offsets

LEMMA SameConsumerInit == Consumer!Init <=> C!Init
BY DEF Consumer!Init, C!Init

-----------------------------------------------------------------------------
(***************************************************************************)
(* The invariant that ties the parts together.                             *)
(***************************************************************************)
Labels == A!InFlight \union {"idle", "done", "lost"}
Drawn == {p \in Procs : apiPc[p] \in {"txCommit", "done", "lost"}}

\* Each request draws one outbox id at most, and no id is drawn twice.
IdsDrawnOnce ==
    /\ outboxSeq <= Cardinality(Drawn)
    /\ \A ev \in outbox : ev.id \in 1 .. outboxSeq
    /\ \A p \in Procs : apiPc[p] = "txCommit" =>
          eventID[p] \in 1 .. outboxSeq /\ \A ev \in outbox : ev.id # eventID[p]
    /\ \A p, q \in Procs :
          apiPc[p] = "txCommit" /\ apiPc[q] = "txCommit" /\ eventID[p] = eventID[q] => p = q
    /\ \A ev, f \in outbox : ev.id = f.id => ev = f

\* The two views of the inspections table agree.
Coupled ==
    \A i \in Inspections :
        row[i].status # "absent" <=> \E x \in inspections : x.request = i

\* What Tx says of an id.
TxFacts ==
    \A e \in 1 .. MaxEvents :
        /\ Tx[e] \in {"none", "open", "committed", "aborted"}
        /\ Tx[e] = "committed" <=> \E ev \in outbox : ev.id = e
        /\ Tx[e] = "open" <=> \E p \in Procs : apiPc[p] = "txCommit" /\ eventID[p] = e
        /\ Tx[e] = "none" <=> e > outboxSeq

LEMMA TxIs == A!TypeOK /\ IdsDrawnOnce => TxFacts
<1> SUFFICES ASSUME A!TypeOK, IdsDrawnOnce, NEW e \in 1 .. MaxEvents
             PROVE  /\ Tx[e] \in {"none", "open", "committed", "aborted"}
                    /\ Tx[e] = "committed" <=> \E ev \in outbox : ev.id = e
                    /\ Tx[e] = "open" <=>
                         \E p \in Procs : apiPc[p] = "txCommit" /\ eventID[p] = e
                    /\ Tx[e] = "none" <=> e > outboxSeq
  BY DEF TxFacts
<1> DEFINE inTable == \E ev \in outbox : ev.id = e
           inTx == \E p \in Procs : apiPc[p] = "txCommit" /\ eventID[p] = e
<1>1. outboxSeq \in Nat /\ e \in Nat
  BY DEF A!TypeOK
<1>2. /\ inTable => ~inTx /\ ~(e > outboxSeq)
      /\ inTx => ~(e > outboxSeq)
  BY <1>1 DEF IdsDrawnOnce
<1>3. Tx[e] = CASE inTable -> "committed" [] inTx -> "open"
                [] e > outboxSeq -> "none" [] OTHER -> "aborted"
  BY DEF Tx
<1> HIDE DEF inTable, inTx
<1>4. /\ inTable => Tx[e] = "committed"
      /\ inTx => Tx[e] = "open"
      /\ e > outboxSeq => Tx[e] = "none"
      /\ ~inTable /\ ~inTx /\ ~(e > outboxSeq) => Tx[e] = "aborted"
  BY <1>2, <1>3, Zenon
<1>5. "committed" # "open" /\ "committed" # "none" /\ "committed" # "aborted"
      /\ "open" # "none" /\ "open" # "aborted" /\ "none" # "aborted"
  OBVIOUS
<1>6. /\ Tx[e] \in {"none", "open", "committed", "aborted"}
      /\ Tx[e] = "committed" <=> inTable
      /\ Tx[e] = "open" <=> inTx
      /\ Tx[e] = "none" <=> e > outboxSeq
  BY <1>2, <1>4, <1>5, Zenon
<1> QED BY <1>6 DEF inTable, inTx

LEMMA TxIsNext == A!TypeOK' /\ IdsDrawnOnce' => TxFacts'
BY TxIs, PTL

LEMMA DrawnFinite ==
    /\ IsFiniteSet(Drawn) /\ Cardinality(Drawn) \in Nat
    /\ Cardinality(Drawn) <= Cardinality(Procs) /\ Cardinality(Procs) <= MaxEvents
    /\ Cardinality(Procs) \in Nat /\ MaxEvents \in Nat /\ IsFiniteSet(Procs)
<1>1. IsFiniteSet(Procs) /\ MaxEvents \in Nat /\ Cardinality(Procs) <= MaxEvents
  BY ConstantsAssumption, SameSets
     DEF ConstantsAssumption, API!ConstantsAssumption, Relay!ConstantsAssumption
<1>2. Drawn \in SUBSET Procs
  BY DEF Drawn
<1> QED BY <1>1, <1>2, FS_Subset, FS_CardinalityType

-----------------------------------------------------------------------------
(***************************************************************************)
(* The steps of the request path.                                          *)
(***************************************************************************)

\* A step that neither draws an id nor commits: no id changes hands.
LEMMA OtherMoves ==
    ASSUME A!TypeOK, NEW p \in Procs,
           \/ A!Dispatch(p) \/ A!StatementFails(p)
           \/ A!Step(p) /\ ~A!TxInsert(p) /\ ~A!TxCommit(p)
    PROVE  /\ UNCHANGED <<outbox, outboxSeq, eventID>>
           /\ \E l : /\ apiPc' = [apiPc EXCEPT ![p] = l] /\ l # "txCommit"
                     /\ apiPc[p] = "txCommit" => A!StatementFails(p) /\ l = "done"
                     /\ apiPc[p] \notin {"done", "lost"}
<1>1. CASE A!Dispatch(p)
  BY <1>1 DEF A!Dispatch, A!dbVars, A!localVars, A!Goto, A!Answer
<1>2. CASE A!StatementFails(p)
  BY <1>2 DEF A!StatementFails, A!localVars, A!Answer, A!InFlight
<1>3. CASE A!AuthRead(p) \/ A!ReadRow(p) \/ A!ExistsCheck(p)
  BY <1>3 DEF A!AuthRead, A!ReadRow, A!ExistsCheck, A!dbVars, A!localVars, A!Goto, A!Answer
<1>4. CASE A!ReadPhotos(p)
  BY <1>4 DEF A!ReadPhotos, A!dbVars, A!Goto, A!Answer
<1>5. CASE A!UpdateRow(p) \/ A!InsertPhoto(p) \/ A!TxUpdate(p)
  BY <1>5 DEF A!UpdateRow, A!InsertPhoto, A!TxUpdate, A!localVars, A!Goto, A!Answer,
     A!AnswerWritten
<1> QED BY <1>1, <1>2, <1>3, <1>4, <1>5 DEF A!Step

\* Drawn grows with a request that moves on.
LEMMA DrawnMoves ==
    ASSUME NEW p \in Procs, NEW l, apiPc \in [Procs -> Labels],
           apiPc' = [apiPc EXCEPT ![p] = l],
           p \in Drawn => l \in {"txCommit", "done", "lost"}
    PROVE  /\ Drawn' = IF l \in {"txCommit", "done", "lost"} THEN Drawn \union {p} ELSE Drawn
           /\ Cardinality(Drawn) <= Cardinality(Drawn')
           /\ Cardinality(Drawn') \in Nat
<1>1. Drawn' = IF l \in {"txCommit", "done", "lost"} THEN Drawn \union {p} ELSE Drawn
  BY DEF Drawn
<1>2. /\ IsFiniteSet(Drawn \union {p})
      /\ Cardinality(Drawn \union {p}) = IF p \in Drawn THEN Cardinality(Drawn)
                                                        ELSE Cardinality(Drawn) + 1
  BY DrawnFinite, FS_AddElement
<1>3. Cardinality(Drawn) \in Nat
  BY DrawnFinite
<1> QED BY <1>1, <1>2, <1>3

LEMMA PcType == A!TypeOK => apiPc \in [Procs -> Labels] /\ outboxSeq \in Nat
BY DEF A!TypeOK, Labels

LEMMA OtherMovesKeepIds ==
    ASSUME A!TypeOK, IdsDrawnOnce, NEW p \in Procs,
           \/ A!Dispatch(p) \/ A!StatementFails(p)
           \/ A!Step(p) /\ ~A!TxInsert(p) /\ ~A!TxCommit(p)
    PROVE  IdsDrawnOnce'
<1>1. UNCHANGED <<outbox, outboxSeq, eventID>>
  BY OtherMoves
<1>2. PICK l : /\ apiPc' = [apiPc EXCEPT ![p] = l] /\ l # "txCommit"
               /\ apiPc[p] = "txCommit" => l = "done"
               /\ apiPc[p] \notin {"done", "lost"}
  BY OtherMoves
<1>3. apiPc \in [Procs -> Labels] /\ outboxSeq \in Nat
  BY PcType
<1>4. Cardinality(Drawn) <= Cardinality(Drawn') /\ Cardinality(Drawn') \in Nat
  <2>1. p \in Drawn => l \in {"txCommit", "done", "lost"}
    BY <1>2 DEF Drawn
  <2> QED BY <1>2, <1>3, <2>1, DrawnMoves
<1>5. outboxSeq' <= Cardinality(Drawn')
  BY <1>1, <1>3, <1>4, DrawnFinite DEF IdsDrawnOnce
<1>6. \A q \in Procs : apiPc'[q] = "txCommit" => apiPc[q] = "txCommit"
  BY <1>2, <1>3
<1> QED BY <1>1, <1>5, <1>6 DEF IdsDrawnOnce

LEMMA TxInsertKeepsIds ==
    ASSUME A!TypeOK, IdsDrawnOnce, NEW p \in Procs, A!TxInsert(p)
    PROVE  /\ IdsDrawnOnce' /\ outboxSeq < MaxEvents
           /\ outboxSeq' = outboxSeq + 1 /\ outbox' = outbox
           /\ apiPc'[p] = "txCommit" /\ eventID'[p] = outboxSeq + 1
           /\ \A q \in Procs \ {p} : apiPc'[q] = apiPc[q] /\ eventID'[q] = eventID[q]
<1>1. /\ apiPc[p] = "txInsert" /\ apiPc' = [apiPc EXCEPT ![p] = "txCommit"]
      /\ outboxSeq' = outboxSeq + 1 /\ outbox' = outbox
      /\ eventID' = [eventID EXCEPT ![p] = outboxSeq + 1]
  BY DEF A!TxInsert, A!Goto
<1>2. apiPc \in [Procs -> Labels] /\ outboxSeq \in Nat /\ eventID \in [Procs -> Nat]
  BY PcType DEF A!TypeOK
<1>3. /\ apiPc'[p] = "txCommit" /\ eventID'[p] = outboxSeq + 1
      /\ \A q \in Procs \ {p} : apiPc'[q] = apiPc[q] /\ eventID'[q] = eventID[q]
  BY <1>1, <1>2
<1>4. Drawn' = Drawn \union {p} /\ p \notin Drawn
  <2>1. p \notin Drawn
    BY <1>1 DEF Drawn
  <2> QED BY <1>1, <1>2, <2>1, DrawnMoves
<1>5. Cardinality(Drawn') = Cardinality(Drawn) + 1
  BY <1>4, DrawnFinite, FS_AddElement
<1>6. Cardinality(Drawn') <= Cardinality(Procs)
  <2>1. Drawn' \in SUBSET Procs
    BY DEF Drawn
  <2> QED BY <2>1, DrawnFinite, FS_Subset
<1>7. outboxSeq' <= Cardinality(Drawn') /\ outboxSeq < MaxEvents
  BY <1>1, <1>2, <1>5, <1>6, DrawnFinite DEF IdsDrawnOnce
<1>8. \A ev \in outbox : ev.id \in 1 .. outboxSeq
  BY DEF IdsDrawnOnce
<1>9. \A q \in Procs : apiPc'[q] = "txCommit" =>
         /\ eventID'[q] \in 1 .. outboxSeq'
         /\ \A ev \in outbox' : ev.id # eventID'[q]
  BY <1>1, <1>2, <1>3, <1>8 DEF IdsDrawnOnce
<1>10. \A q, r \in Procs :
          apiPc'[q] = "txCommit" /\ apiPc'[r] = "txCommit" /\ eventID'[q] = eventID'[r] => q = r
  BY <1>2, <1>3 DEF IdsDrawnOnce
<1>11. IdsDrawnOnce'
  BY <1>1, <1>2, <1>7, <1>8, <1>9, <1>10 DEF IdsDrawnOnce
<1> QED BY <1>1, <1>3, <1>7, <1>11

LEMMA TxCommitKeepsIds ==
    ASSUME A!TypeOK, IdsDrawnOnce, NEW p \in Procs, A!TxCommit(p)
    PROVE  /\ IdsDrawnOnce' /\ outboxSeq' = outboxSeq /\ eventID' = eventID
           /\ apiPc[p] = "txCommit" /\ apiPc'[p] = "done"
           /\ \A q \in Procs \ {p} : apiPc'[q] = apiPc[q]
           /\ \E ev : outbox' = outbox \union {ev} /\ ev.id = eventID[p]
<1>1. /\ apiPc[p] = "txCommit" /\ apiPc' = [apiPc EXCEPT ![p] = "done"]
      /\ outboxSeq' = outboxSeq /\ eventID' = eventID
      /\ outbox' = outbox \union {A!CompletedEvent(p)}
  BY DEF A!TxCommit, A!AnswerWritten, A!Answer, A!localVars
<1>2. apiPc \in [Procs -> Labels] /\ outboxSeq \in Nat
  BY PcType
<1>3. A!CompletedEvent(p).id = eventID[p]
  BY DEF A!CompletedEvent
<1>4. apiPc'[p] = "done" /\ \A q \in Procs \ {p} : apiPc'[q] = apiPc[q]
  BY <1>1, <1>2
<1>5. Cardinality(Drawn) <= Cardinality(Drawn') /\ Cardinality(Drawn') \in Nat
  BY <1>1, <1>2, DrawnMoves
<1>6. outboxSeq' <= Cardinality(Drawn')
  BY <1>1, <1>2, <1>5, DrawnFinite DEF IdsDrawnOnce
<1>7. PICK ev : outbox' = outbox \union {ev} /\ ev.id = eventID[p]
  BY <1>1, <1>3
<1>8. ev.id \in 1 .. outboxSeq /\ \A f \in outbox : f.id # ev.id
  BY <1>1, <1>7 DEF IdsDrawnOnce
<1>9. \A q \in Procs : apiPc'[q] = "txCommit" =>
         /\ eventID[q] \in 1 .. outboxSeq
         /\ \A f \in outbox' : f.id # eventID[q]
  BY <1>1, <1>4, <1>7 DEF IdsDrawnOnce
<1>10. \A f, g \in outbox' : f.id = g.id => f = g
  BY <1>7, <1>8 DEF IdsDrawnOnce
<1>11. \A q, r \in Procs :
          apiPc'[q] = "txCommit" /\ apiPc'[r] = "txCommit" /\ eventID[q] = eventID[r] => q = r
  BY <1>4 DEF IdsDrawnOnce
<1>12. \A f \in outbox' : f.id \in 1 .. outboxSeq
  BY <1>7, <1>8 DEF IdsDrawnOnce
<1>13. IdsDrawnOnce'
  BY <1>1, <1>6, <1>9, <1>10, <1>11, <1>12 DEF IdsDrawnOnce
<1> QED BY <1>1, <1>4, <1>7, <1>13

LEMMA CrashKeepsIds ==
    ASSUME A!TypeOK, IdsDrawnOnce, A!Crash
    PROVE  /\ IdsDrawnOnce' /\ UNCHANGED <<outbox, outboxSeq, eventID>>
           /\ \A p \in Procs : apiPc'[p] # "txCommit"
<1>1. /\ UNCHANGED <<outbox, outboxSeq, eventID>>
      /\ \A p \in Procs : apiPc'[p] = IF apiPc[p] \in A!InFlight THEN "lost" ELSE apiPc[p]
  BY DEF A!Crash, A!localVars
<1>2. \A p \in Procs : apiPc'[p] # "txCommit" /\ (p \in Drawn => p \in Drawn')
  BY <1>1 DEF A!InFlight, Drawn
<1>3. Cardinality(Drawn) <= Cardinality(Drawn') /\ Cardinality(Drawn') \in Nat
  <2>1. Drawn \in SUBSET Drawn' /\ Drawn' \in SUBSET Procs
    BY <1>2 DEF Drawn
  <2>2. IsFiniteSet(Drawn')
    BY <2>1, DrawnFinite, FS_Subset
  <2> QED BY <2>1, <2>2, FS_Subset, FS_CardinalityType
<1>4. outboxSeq' <= Cardinality(Drawn')
  BY <1>1, <1>3, PcType, DrawnFinite DEF IdsDrawnOnce
<1>5. IdsDrawnOnce'
  BY <1>1, <1>2, <1>4 DEF IdsDrawnOnce
<1> QED BY <1>1, <1>2, <1>5

-----------------------------------------------------------------------------
(***************************************************************************)
(* Every step of the service is a step of one part, or of the consumer and *)
(* the request path together.                                              *)
(***************************************************************************)
RequestStep ==
    /\ OthersRest
    /\ A!Crash \/ \E p \in Procs : A!Dispatch(p) \/ A!Step(p) \/ A!StatementFails(p)

RelayStep == UNCHANGED <<apiVars, consumerVars>> /\ R!Next

ConsumerStep ==
    /\ TableFollows
    /\ \/ \E c \in Consumers :
             \/ C!Work(c) \/ C!CallFails(c) \/ C!Crash(c)
             \/ C!Exit(c) \/ C!Start(c) \/ C!Assign(c) \/ C!Rebalance(c)
       \/ \E e \in C!Events : C!Expire(e)

LEMMA NextCases ==
    ASSUME [Next]_vars PROVE UNCHANGED vars \/ RequestStep \/ RelayStep \/ ConsumerStep
<1>1. ASSUME NEW p \in Procs, Dispatch(p) \/ Serve(p) \/ RequestFails(p) PROVE RequestStep
  BY <1>1, SameStep DEF Dispatch, Serve, RequestFails, RequestStep
<1>2. ASSUME RequestsLost PROVE RequestStep
  BY <1>2, SameCrash DEF RequestsLost, RequestStep
<1>3. ASSUME NEW r \in Relays, PublishRows(r) \/ RestartRelay(r) PROVE RelayStep
  BY <1>3, SameRelay DEF PublishRows, RestartRelay, RelayStep, Relay!Next
<1>4. ASSUME RelayFails PROVE RelayStep
  BY <1>4, SameRelay DEF RelayFails, RelayStep, Relay!Next
<1>5. ASSUME NEW e \in 1 .. MaxEvents, StoreLate(e) PROVE RelayStep
  BY <1>5, SameRelay DEF StoreLate, RelayStep, Relay!Next, Relay!Ids
<1>6. ASSUME NEW c \in Consumers,
             Consume(c) \/ Restart(c) \/ Assign(c) \/ Rebalance(c) \/ ConsumerFails(c)
      PROVE  ConsumerStep
  BY <1>6, SameConsumer
     DEF Consume, Restart, Assign, Rebalance, ConsumerFails, ConsumerStep
<1>7. ASSUME NEW e \in Consumer!Events, Expire(e) PROVE ConsumerStep
  BY <1>7, SameExpire DEF Expire, ConsumerStep
<1> QED BY <1>1, <1>2, <1>3, <1>4, <1>5, <1>6, <1>7 DEF Next

LEMMA RequestPathSteps ==
    ASSUME RequestStep PROVE A!Next /\ UNCHANGED <<relayVars, consumerVars>>
BY DEF RequestStep, OthersRest, A!Next

LEMMA ConsumerSteps ==
    ASSUME ConsumerStep, C!TypeOK
    PROVE  /\ C!Next /\ C!TypeOK'
           /\ UNCHANGED <<relayVars, before, outbox, outboxSeq, apiPc, eventID>>
           /\ \/ UNCHANGED apiVars /\ inspections' = inspections
              \/ \E new \in inspections' \ inspections :
                    new.request \in Inspections /\ A!CreateFromRequest(new.request)
<1>1. C!Next
  BY DEF ConsumerStep, C!Next
<1>2. C!TypeOK'
  BY <1>1, PartsAssumptions, C!NextType
<1>3. UNCHANGED <<relayVars, before>>
  BY DEF ConsumerStep, TableFollows
<1>4. CASE inspections' = inspections
  <2>1. UNCHANGED apiVars
    BY <1>4 DEF ConsumerStep, TableFollows
  <2> QED BY <1>1, <1>2, <1>3, <1>4, <2>1 DEF apiVars
<1>5. CASE inspections' # inspections
  <2>1. PICK new \in inspections' \ inspections : API!CreateFromRequest(new.request)
    BY <1>5 DEF ConsumerStep, TableFollows
  <2>2. A!CreateFromRequest(new.request)
    BY <2>1, SameCreate
  <2>3. new.request \in C!Requests
    BY <1>2 DEF C!TypeOK
  <2>4. new.request \in Inspections
    BY <2>3, ConstantsAssumption DEF ConstantsAssumption, C!Requests, C!Offsets,
       Consumer!Requests, Consumer!Offsets
  <2>5. UNCHANGED <<outbox, outboxSeq, apiPc, eventID>>
    BY <2>2 DEF A!CreateFromRequest, A!localVars
  <2> QED BY <1>1, <1>2, <1>3, <2>2, <2>4, <2>5
<1> QED BY <1>4, <1>5

LEMMA ApiMoves == ASSUME [Next]_vars, C!TypeOK PROVE [A!Next]_(A!vars)
<1>0. UNCHANGED apiVars => UNCHANGED A!vars
  BY DEF apiVars, A!vars
<1>1. CASE UNCHANGED vars \/ RelayStep
  BY <1>0, <1>1 DEF vars, RelayStep
<1>2. CASE RequestStep
  BY <1>2, RequestPathSteps
<1>3. CASE ConsumerStep
  BY <1>0, <1>3, ConsumerSteps DEF A!Next
<1> QED BY <1>1, <1>2, <1>3, NextCases

LEMMA ConsumerMoves == ASSUME [Next]_vars, C!TypeOK PROVE [C!Next]_(C!vars)
<1>1. UNCHANGED consumerVars => UNCHANGED C!vars
  BY DEF consumerVars, C!vars
<1>2. CASE UNCHANGED vars \/ RelayStep
  BY <1>1, <1>2 DEF vars, RelayStep
<1>3. CASE RequestStep
  BY <1>1, <1>3, RequestPathSteps
<1>4. CASE ConsumerStep
  BY <1>4, ConsumerSteps
<1> QED BY <1>2, <1>3, <1>4, NextCases

-----------------------------------------------------------------------------
(***************************************************************************)
(* The ids and the two views of the table through a step of the service.   *)
(***************************************************************************)
LEMMA SameIds ==
    ASSUME IdsDrawnOnce, UNCHANGED <<outbox, outboxSeq, apiPc, eventID>>
    PROVE  IdsDrawnOnce' /\ Tx' = Tx
<1>1. Drawn' = Drawn /\ Tx' = Tx
  BY DEF Drawn, Tx
<1> QED BY <1>1 DEF IdsDrawnOnce

LEMMA NextKeepsIds ==
    ASSUME A!TypeOK, C!TypeOK, IdsDrawnOnce, [Next]_vars PROVE IdsDrawnOnce'
<1>1. CASE UNCHANGED vars \/ RelayStep
  <2>1. UNCHANGED <<outbox, outboxSeq, apiPc, eventID>>
    BY <1>1 DEF vars, apiVars, RelayStep
  <2> QED BY <2>1, SameIds
<1>2. CASE ConsumerStep
  BY <1>2, ConsumerSteps, SameIds
<1>3. CASE RequestStep
  <2>1. CASE A!Crash
    BY <2>1, CrashKeepsIds
  <2>2. ASSUME NEW p \in Procs, A!Dispatch(p) \/ A!Step(p) \/ A!StatementFails(p)
        PROVE  IdsDrawnOnce'
    BY <2>2, TxInsertKeepsIds, TxCommitKeepsIds, OtherMovesKeepIds
  <2> QED BY <1>3, <2>1, <2>2 DEF RequestStep
<1> QED BY <1>1, <1>2, <1>3, NextCases

-----------------------------------------------------------------------------
(***************************************************************************)
(* The transactions of the request path are OutboxRelay's writers.         *)
(***************************************************************************)

\* All that is known before and after a step that concerns ids.
IdsStep ==
    /\ A!TypeOK /\ R!TypeOK /\ IdsDrawnOnce /\ A!TypeOK' /\ IdsDrawnOnce'
    /\ OthersRest

LEMMA TxBothSides ==
    ASSUME IdsStep
    PROVE  /\ TxFacts /\ TxFacts' /\ outboxSeq \in Nat /\ outboxSeq' \in Nat
           /\ Tx' = [e \in 1 .. MaxEvents |-> Tx'[e]] /\ Tx = [e \in 1 .. MaxEvents |-> Tx[e]]
           /\ MaxEvents \in Nat /\ R!Ids = 1 .. MaxEvents
           /\ UNCHANGED relayVars
<1>1. TxFacts /\ TxFacts'
  BY TxIs, TxIsNext DEF IdsStep
<1>2. outboxSeq \in Nat /\ outboxSeq' \in Nat
  BY DEF IdsStep, A!TypeOK
<1>3. Tx' = [e \in 1 .. MaxEvents |-> Tx'[e]] /\ Tx = [e \in 1 .. MaxEvents |-> Tx[e]]
  BY DEF Tx
<1> QED BY <1>1, <1>2, <1>3, DrawnFinite DEF R!Ids, IdsStep, OthersRest

LEMMA BeforeKept == ASSUME IdsStep, outboxSeq' = outboxSeq PROVE before' = before
<1>1. before \in [1 .. MaxEvents -> SUBSET (1 .. MaxEvents)]
  BY DEF IdsStep, R!TypeOK, R!Ids
<1>2. outboxSeq \in Nat /\ \A e \in 1 .. MaxEvents : ~(outboxSeq < e /\ e <= outboxSeq')
  BY TxBothSides
<1>3. before' = [e \in 1 .. MaxEvents |->
                   IF outboxSeq < e /\ e <= outboxSeq' THEN Relay!Committed ELSE before[e]]
  BY DEF IdsStep, OthersRest
<1>4. before' = [e \in 1 .. MaxEvents |-> before[e]]
  BY <1>2, <1>3, Zenon
<1> QED BY <1>1, <1>4

\* Transactions may end without a commit, one at a time or all at once.
LEMMA RollbackIsAbort ==
    ASSUME IdsStep, UNCHANGED <<outbox, outboxSeq, eventID>>,
           \A p \in Procs : apiPc'[p] = "txCommit" => apiPc[p] = "txCommit"
    PROVE  [R!Next]_(R!vars)
<1> DEFINE some == {e \in R!Ids : Tx[e] = "open" /\ Tx'[e] # "open"}
<1>1. ASSUME NEW e \in 1 .. MaxEvents
      PROVE  Tx'[e] = IF e \in some THEN "aborted" ELSE Tx[e]
  <2>1. /\ Tx'[e] = "committed" <=> Tx[e] = "committed"
        /\ Tx'[e] = "none" <=> Tx[e] = "none"
        /\ Tx'[e] = "open" => Tx[e] = "open"
        /\ Tx[e] \in {"none", "open", "committed", "aborted"}
        /\ Tx'[e] \in {"none", "open", "committed", "aborted"}
    BY TxBothSides DEF TxFacts
  <2> QED BY <2>1, TxBothSides
<1>2. before' = before /\ UNCHANGED relayVars
  BY BeforeKept, TxBothSides
<1>3. CASE some = {}
  <2>1. Tx' = Tx
    BY <1>1, <1>3, TxBothSides
  <2> QED BY <1>2, <2>1 DEF relayVars, R!vars
<1>4. CASE some # {}
  <2>1. Tx' = [e \in R!Ids |-> IF e \in some THEN "aborted" ELSE Tx[e]]
    BY <1>1, TxBothSides
  <2>2. R!Abort(some)
    BY <1>2, <1>4, <2>1 DEF R!Abort, relayVars
  <2>3. some \in SUBSET R!Ids
    OBVIOUS
  <2> QED BY <2>2, <2>3 DEF R!Next, R!Writer
<1> QED BY <1>3, <1>4

LEMMA TxInsertIsInsert ==
    ASSUME IdsStep, NEW p \in Procs, A!TxInsert(p) PROVE R!Insert
<1>1. /\ outboxSeq < MaxEvents
      /\ outboxSeq' = outboxSeq + 1 /\ outbox' = outbox
      /\ apiPc'[p] = "txCommit" /\ eventID'[p] = outboxSeq + 1
      /\ \A q \in Procs \ {p} : apiPc'[q] = apiPc[q] /\ eventID'[q] = eventID[q]
  BY TxInsertKeepsIds DEF IdsStep
<1>2. apiPc[p] = "txInsert"
  BY DEF A!TxInsert
<1>3. ASSUME NEW e \in 1 .. MaxEvents, e # outboxSeq + 1 PROVE Tx'[e] = Tx[e]
  <2>1. /\ Tx'[e] = "committed" <=> Tx[e] = "committed"
        /\ Tx'[e] = "none" <=> Tx[e] = "none"
    BY <1>1, <1>3, TxBothSides DEF TxFacts
  <2>2. Tx'[e] = "open" <=> Tx[e] = "open"
    <3>1. (\E q \in Procs : apiPc'[q] = "txCommit" /\ eventID'[q] = e) <=>
             \E q \in Procs : apiPc[q] = "txCommit" /\ eventID[q] = e
      BY <1>1, <1>2, <1>3
    <3> QED BY <3>1, TxBothSides DEF TxFacts
  <2>3. /\ Tx[e] \in {"none", "open", "committed", "aborted"}
        /\ Tx'[e] \in {"none", "open", "committed", "aborted"}
    BY TxBothSides DEF TxFacts
  <2> QED BY <2>1, <2>2, <2>3
<1>4. Tx'[outboxSeq + 1] = "open"
  BY <1>1, TxBothSides DEF TxFacts
<1>5. Tx' = [Tx EXCEPT ![outboxSeq + 1] = "open"]
  BY <1>1, <1>3, <1>4, TxBothSides
<1>6. before' = [before EXCEPT ![outboxSeq + 1] = R!Committed]
  <2>1. before \in [1 .. MaxEvents -> SUBSET (1 .. MaxEvents)]
    BY DEF IdsStep, R!TypeOK, R!Ids
  <2>2. Relay!Committed = R!Committed
    BY DEF Relay!Committed, R!Committed, Relay!Ids, R!Ids
  <2>3. before' = [e \in 1 .. MaxEvents |->
                     IF outboxSeq < e /\ e <= outboxSeq' THEN R!Committed ELSE before[e]]
    BY <2>2 DEF IdsStep, OthersRest
  <2>4. \A e \in 1 .. MaxEvents : outboxSeq < e /\ e <= outboxSeq' <=> e = outboxSeq + 1
    BY <1>1, TxBothSides
  <2>5. before' = [e \in 1 .. MaxEvents |->
                     IF e = outboxSeq + 1 THEN R!Committed ELSE before[e]]
    BY <2>3, <2>4, Zenon
  <2> QED BY <2>1, <2>5
<1> QED BY <1>1, <1>5, <1>6, TxBothSides DEF R!Insert, relayVars

LEMMA TxCommitIsCommit ==
    ASSUME IdsStep, NEW p \in Procs, A!TxCommit(p)
    PROVE  eventID[p] \in R!Ids /\ R!Commit(eventID[p])
<1>1. /\ outboxSeq' = outboxSeq /\ eventID' = eventID
      /\ apiPc[p] = "txCommit" /\ apiPc'[p] = "done"
      /\ \A q \in Procs \ {p} : apiPc'[q] = apiPc[q]
      /\ \E ev : outbox' = outbox \union {ev} /\ ev.id = eventID[p]
  BY TxCommitKeepsIds DEF IdsStep
<1>2. eventID[p] \in 1 .. outboxSeq /\ outboxSeq \in 0 .. MaxEvents
  BY <1>1 DEF IdsStep, IdsDrawnOnce, R!TypeOK
<1>3. eventID[p] \in 1 .. MaxEvents
  BY <1>2, TxBothSides
<1>4. Tx[eventID[p]] = "open" /\ Tx'[eventID[p]] = "committed"
  BY <1>1, <1>3, TxBothSides DEF TxFacts
<1>5. ASSUME NEW e \in 1 .. MaxEvents, e # eventID[p] PROVE Tx'[e] = Tx[e]
  <2>1. /\ Tx'[e] = "committed" <=> Tx[e] = "committed"
        /\ Tx'[e] = "none" <=> Tx[e] = "none"
    BY <1>1, <1>5, TxBothSides DEF TxFacts
  <2>2. Tx'[e] = "open" <=> Tx[e] = "open"
    <3>1. (\E q \in Procs : apiPc'[q] = "txCommit" /\ eventID'[q] = e) <=>
             \E q \in Procs : apiPc[q] = "txCommit" /\ eventID[q] = e
      BY <1>1, <1>5
    <3> QED BY <3>1, TxBothSides DEF TxFacts
  <2>3. /\ Tx[e] \in {"none", "open", "committed", "aborted"}
        /\ Tx'[e] \in {"none", "open", "committed", "aborted"}
    BY TxBothSides DEF TxFacts
  <2> QED BY <2>1, <2>2, <2>3
<1>6. Tx' = [Tx EXCEPT ![eventID[p]] = "committed"]
  BY <1>3, <1>4, <1>5, TxBothSides
<1>7. before' = before
  BY <1>1, BeforeKept
<1> QED BY <1>1, <1>3, <1>4, <1>6, <1>7, TxBothSides DEF R!Commit, relayVars

LEMMA RelayMoves ==
    ASSUME [Next]_vars, A!TypeOK, A!TypeOK', R!TypeOK, C!TypeOK, IdsDrawnOnce, IdsDrawnOnce'
    PROVE  [R!Next]_(R!vars)
<1>1. CASE RelayStep
  BY <1>1 DEF RelayStep
<1>2. CASE UNCHANGED vars
  <2>1. Tx' = Tx
    BY <1>2, SameIds DEF vars, apiVars
  <2> QED BY <1>2, <2>1 DEF vars, relayVars, apiVars, R!vars
<1>3. CASE ConsumerStep
  <2>1. UNCHANGED <<relayVars, before, outbox, outboxSeq, apiPc, eventID>>
    BY <1>3, ConsumerSteps
  <2>2. Tx' = Tx
    BY <2>1, SameIds
  <2> QED BY <2>1, <2>2 DEF relayVars, R!vars
<1>4. CASE RequestStep
  <2>1. IdsStep
    BY <1>4 DEF IdsStep, RequestStep
  <2>2. CASE A!Crash
    BY <2>1, <2>2, CrashKeepsIds, RollbackIsAbort
  <2>3. ASSUME NEW p \in Procs, A!TxInsert(p) PROVE R!Next
    BY <2>1, <2>3, TxInsertIsInsert DEF R!Next, R!Writer
  <2>4. ASSUME NEW p \in Procs, A!TxCommit(p) PROVE R!Next
    <3>1. PICK e \in R!Ids : e = eventID[p]
      BY <2>1, <2>4, TxCommitIsCommit
    <3>2. R!Commit(e)
      BY <2>1, <2>4, <3>1, TxCommitIsCommit
    <3> QED BY <3>2 DEF R!Next, R!Writer
  <2>5. ASSUME NEW p \in Procs,
               \/ A!Dispatch(p) \/ A!StatementFails(p)
               \/ A!Step(p) /\ ~A!TxInsert(p) /\ ~A!TxCommit(p)
        PROVE  [R!Next]_(R!vars)
    <3>1. UNCHANGED <<outbox, outboxSeq, eventID>>
      BY <2>5, OtherMoves
    <3>2. PICK l : apiPc' = [apiPc EXCEPT ![p] = l] /\ l # "txCommit"
      BY <2>5, OtherMoves
    <3>3. \A q \in Procs : apiPc'[q] = "txCommit" => apiPc[q] = "txCommit"
      BY <3>2, PcType
    <3> QED BY <2>1, <3>1, <3>3, RollbackIsAbort
  <2> QED BY <1>4, <2>2, <2>3, <2>4, <2>5 DEF RequestStep
<1> QED BY <1>1, <1>2, <1>3, <1>4, NextCases

-----------------------------------------------------------------------------
(***************************************************************************)
(* The inductive invariant of the service.                                 *)
(***************************************************************************)
SInv ==
    /\ A!IInv
    /\ R!IInv
    /\ C!IInv
    /\ C!OneInspectionPerRequest
    /\ IdsDrawnOnce
    /\ Coupled

LEMMA SInvTypes == SInv => A!TypeOK /\ R!TypeOK /\ C!TypeOK
BY DEF SInv, A!IInv, R!IInv, C!IInv

LEMMA InitSInv == Init => SInv
<1> SUFFICES ASSUME Init PROVE SInv
  OBVIOUS
<1>1. A!Init /\ R!Init /\ C!Init /\ \A i \in Inspections : row[i] = API!NoRow
  BY SameInit, SameRelay, SameConsumerInit DEF Init
<1>2. A!IInv /\ R!IInv /\ C!IInv
  BY <1>1, PartsAssumptions, A!InitIInv, R!InitIInv, C!InitIInv
<1>3. C!OneInspectionPerRequest
  BY <1>1 DEF C!Init, C!OneInspectionPerRequest
<1>4. IdsDrawnOnce
  <2>1. /\ outboxSeq = 0 /\ outbox = {} /\ \A p \in Procs : apiPc[p] # "txCommit"
        /\ Cardinality(Drawn) \in Nat
    BY <1>1, DrawnFinite DEF A!Init
  <2> QED BY <2>1 DEF IdsDrawnOnce
<1>5. Coupled
  <2>1. inspections = {} /\ \A i \in Inspections : row[i].status = "absent"
    BY <1>1 DEF C!Init, API!NoRow
  <2> QED BY <2>1 DEF Coupled
<1> QED BY <1>2, <1>3, <1>4, <1>5 DEF SInv

\* The requests create no row and remove none.
LEMMA RequestsKeepRows ==
    ASSUME A!IInv, RequestStep, NEW i \in Inspections
    PROVE  row'[i].status = "absent" <=> row[i].status = "absent"
<1>1. A!TypeOK /\ \A j \in Inspections : row[j] \in A!Row
  BY DEF A!IInv, A!TypeOK
<1>2. ASSUME NEW p \in Procs, A!TxCommit(p)
      PROVE  row'[i].status = "absent" <=> row[i].status = "absent"
  <2>1. row[req[p].insp].status = "scheduled"
    BY <1>2 DEF A!IInv, A!LocksOK, A!LocksAt, A!InTx, A!TxCommit
  <2>2. row' = [row EXCEPT ![req[p].insp] = [row[req[p].insp] EXCEPT !.status = "completed",
                   !.updatedAt = stamp[p], !.completedAt = stamp[p]]]
    BY <1>2 DEF A!TxCommit
  <2> QED BY <1>1, <2>1, <2>2 DEF A!TypeOK, A!Row
<1>3. ASSUME NEW p \in Procs, A!UpdateRow(p)
      PROVE  row'[i].status = "absent" <=> row[i].status = "absent"
  <2>1. \/ row' = row
        \/ row' = [row EXCEPT ![req[p].insp] = [row[req[p].insp] EXCEPT
                      !.cols = A!Patched(snap[p].cols, req[p].patch), !.updatedAt = stamp[p]]]
    BY <1>3 DEF A!UpdateRow
  <2>2. CASE row' = row
    BY <2>2
  <2>3. CASE row' = [row EXCEPT ![req[p].insp] = [row[req[p].insp] EXCEPT
                        !.cols = A!Patched(snap[p].cols, req[p].patch), !.updatedAt = stamp[p]]]
    BY <1>1, <2>3 DEF A!TypeOK, A!Row
  <2> QED BY <2>1, <2>2, <2>3
<1>4. ASSUME NEW p \in Procs,
             \/ A!AuthRead(p) \/ A!ReadRow(p) \/ A!ReadPhotos(p) \/ A!ExistsCheck(p)
             \/ A!InsertPhoto(p) \/ A!TxUpdate(p) \/ A!TxInsert(p)
             \/ A!Dispatch(p) \/ A!StatementFails(p)
      PROVE  row' = row
  BY <1>4 DEF A!AuthRead, A!ReadRow, A!ReadPhotos, A!ExistsCheck, A!InsertPhoto, A!TxUpdate,
     A!TxInsert, A!Dispatch, A!StatementFails, A!dbVars
<1>5. A!Crash => row' = row
  BY DEF A!Crash
<1> QED BY <1>2, <1>3, <1>4, <1>5 DEF RequestStep, A!Step

\* One row at most is added at a time.
LEMMA OneRowAdded ==
    ASSUME C!Next, NEW new \in inspections' \ inspections
    PROVE  inspections' = inspections \union {new}
<1>1. PICK c \in Consumers : inspections' = C!Inserted(c)
  BY DEF C!Next, C!vars, C!Work, C!Fetch, C!Seen, C!Create, C!Forget, C!Commit, C!CallFails,
     C!Crash, C!MaybeDone, C!Exit, C!Start, C!Assign, C!Rebalance, C!TakeOver, C!Expire, C!Quiet
<1> HIDE DEF C!NewInspection
<1> QED BY <1>1 DEF C!Inserted

LEMMA NextKeepsCoupled == ASSUME SInv, [Next]_vars PROVE Coupled'
<1>1. A!IInv /\ A!TypeOK /\ C!TypeOK /\ Coupled
  BY SInvTypes DEF SInv
<1>2. CASE UNCHANGED vars \/ RelayStep
  <2>1. row' = row /\ inspections' = inspections
    BY <1>2 DEF vars, apiVars, consumerVars, RelayStep
  <2> QED BY <1>1, <2>1 DEF Coupled
<1>3. CASE RequestStep
  <2>1. inspections' = inspections
    BY <1>3, RequestPathSteps DEF consumerVars
  <2>2. \A i \in Inspections : row'[i].status = "absent" <=> row[i].status = "absent"
    BY <1>1, <1>3, RequestsKeepRows
  <2> QED BY <1>1, <2>1, <2>2 DEF Coupled
<1>4. CASE ConsumerStep
  <2>1. CASE UNCHANGED apiVars /\ inspections' = inspections
    BY <1>1, <2>1 DEF Coupled, apiVars
  <2>2. ASSUME NEW new \in inspections' \ inspections, new.request \in Inspections,
               A!CreateFromRequest(new.request)
        PROVE  Coupled'
    <3>1. inspections' = inspections \union {new}
      BY <1>1, <1>4, ConsumerSteps, OneRowAdded
    <3>2. /\ row'[new.request].status = "scheduled"
          /\ \A i \in Inspections \ {new.request} : row'[i] = row[i]
      BY <1>1, <2>2 DEF A!CreateFromRequest, A!TypeOK, A!NoRow
    <3> QED BY <1>1, <3>1, <3>2 DEF Coupled
  <2> QED BY <1>1, <1>4, <2>1, <2>2, ConsumerSteps
<1> QED BY <1>2, <1>3, <1>4, NextCases

LEMMA NextKeepsSInv == SInv /\ [Next]_vars => SInv'
<1> SUFFICES ASSUME SInv, [Next]_vars PROVE SInv'
  OBVIOUS
<1>1. A!TypeOK /\ R!TypeOK /\ C!TypeOK
  BY SInvTypes
<1>2. A!IInv'
  BY <1>1, ApiMoves, PartsAssumptions, A!NextKeepsIInv DEF SInv
<1>3. C!IInv'
  BY <1>1, ConsumerMoves, PartsAssumptions, C!NextIInv DEF SInv
<1>4. C!OneInspectionPerRequest'
  BY <1>1, ConsumerMoves, PartsAssumptions, C!OneInspectionInductive DEF SInv
<1>5. IdsDrawnOnce'
  BY <1>1, NextKeepsIds DEF SInv
<1>6. R!IInv'
  <2>1. A!TypeOK'
    BY <1>2 DEF A!IInv
  <2>2. [R!Next]_(R!vars)
    BY <1>1, <1>5, <2>1, RelayMoves DEF SInv
  <2> QED BY <2>2, PartsAssumptions, R!NextKeepsIInv DEF SInv
<1> QED BY <1>2, <1>3, <1>4, <1>5, <1>6, NextKeepsCoupled DEF SInv

LEMMA SpecKeepsSInv == FairSpec => []SInv
<1>1. FairSpec => Init /\ [][Next]_vars
  BY PTL DEF FairSpec
<1> QED BY <1>1, InitSInv, NextKeepsSInv, PTL

\* The transactions of the request path are the writers that OutboxRelay assumes:
\* ids in order, a row by the commit of the transaction that drew its id, a gap
\* by a rollback.  So what is proved of the relay holds for the real outbox.
THEOREM WritersAreAsAssumed == FairSpec => RelaysWriters
<1>1. SInv /\ SInv' /\ [Next]_vars => [Relay!Next]_(Relay!vars)
  <2> SUFFICES ASSUME SInv, SInv', [Next]_vars PROVE [Relay!Next]_(Relay!vars)
    OBVIOUS
  <2>1. A!TypeOK' /\ IdsDrawnOnce /\ IdsDrawnOnce'
    BY DEF SInv, A!IInv
  <2>2. [R!Next]_(R!vars)
    BY <2>1, SInvTypes, RelayMoves
  <2> QED BY <2>2, SameRelay DEF Relay!vars, R!vars
<1>2. Init => Relay!Init
  BY DEF Init
<1>3. FairSpec => Init /\ [][Next]_vars
  BY PTL DEF FairSpec
<1> QED BY <1>1, <1>2, <1>3, SpecKeepsSInv, PTL DEF RelaysWriters, Relay!Spec

-----------------------------------------------------------------------------
(***************************************************************************)
(* From a scheduled request to an event in Kafka.                          *)
(***************************************************************************)

\* Kafka holds events of rows of the outbox.
LEMMA ArrivedIsInOutbox ==
    ASSUME SInv, NEW e \in R!Ids, Tx[e] = "committed"
    PROVE  \E ev \in outbox : /\ ev.id = e /\ ev.insp \in Inspections
                              /\ row[ev.insp].status = "completed"
                              /\ row[ev.insp].completedAt = ev.completedAt
<1>1. TxFacts
  BY SInvTypes, TxIs DEF SInv
<1>2. PICK ev \in outbox : ev.id = e
  BY <1>1 DEF TxFacts, R!Ids
<1>3. ev.insp \in Inspections
  BY SInvTypes DEF A!TypeOK, A!Event
<1>4. row[ev.insp].status = "completed" /\ row[ev.insp].completedAt = ev.completedAt
  BY <1>3 DEF SInv, A!IInv, A!OneEventPerCompletion
<1> QED BY <1>2, <1>3, <1>4

\* Every event in Kafka is that of a completed inspection, as it was completed,
\* and goes back to a scheduled message of request.events, through crashes,
\* redeliveries and failures of every part.
THEOREM DeliveredWasRequested == FairSpec => []DeliveredIsRequested
<1>1. SInv => DeliveredIsRequested
  <2> SUFFICES ASSUME SInv, NEW e \in Relay!Arrived
               PROVE  \E ev \in outbox, k \in 1 .. Len(Log) :
                        /\ ev.id = e
                        /\ row[ev.insp].status = "completed"
                        /\ row[ev.insp].completedAt = ev.completedAt
                        /\ Log[k].scheduled /\ Log[k].request = ev.insp
    BY DEF DeliveredIsRequested
  <2>1. e \in R!Ids /\ Tx[e] = "committed"
    BY DEF SInv, R!IInv, R!CausalOrder, R!Arrived, Relay!Arrived, R!Ids, Relay!Ids
  <2>2. PICK ev \in outbox : /\ ev.id = e /\ ev.insp \in Inspections
                             /\ row[ev.insp].status = "completed"
                             /\ row[ev.insp].completedAt = ev.completedAt
    BY <2>1, ArrivedIsInOutbox
  <2>3. PICK x \in inspections : x.request = ev.insp
    BY <2>2 DEF SInv, Coupled
  <2>4. PICK k \in 1 .. Len(Log) : Log[k].scheduled /\ Log[k].request = ev.insp
    BY <2>3 DEF SInv, C!OneInspectionPerRequest, C!Offsets
  <2> QED BY <2>2, <2>4
<1> QED BY <1>1, SpecKeepsSInv, PTL

-----------------------------------------------------------------------------
(***************************************************************************)
(* The refinement of InspectionLifecycle by the service.                   *)
(***************************************************************************)
StatusOf == [i \in Inspections |-> row[i].status]
EventOf == [i \in Inspections |->
              IF \E ev \in outbox : ev.insp = i
              THEN CHOOSE ev \in outbox : ev.insp = i ELSE NoEvent]
Announced == {ev.insp : ev \in {ev \in outbox : topic[ev.id] > 0}}

LEMMA InitService == Init => Life!Init
<1> SUFFICES ASSUME Init PROVE Life!Init
  OBVIOUS
<1>1. A!Init /\ outbox = {}
  BY SameInit DEF Init, A!Init
<1>2. A!Life!Init
  BY <1>1, PartsAssumptions, A!InitLife
<1>3. EventOf = [i \in Inspections |-> NoEvent] /\ Announced = {}
  BY <1>1 DEF EventOf, Announced
<1>4. StatusOf \in [Inspections -> {"absent", "scheduled"}]
  BY <1>2 DEF A!Life!Init, StatusOf
<1> QED BY <1>3, <1>4 DEF Life!Init, StatusOf, EventOf, Announced

\* What the request path does to the lifecycle, the service does.
LEMMA RequestPathIsLife ==
    ASSUME [A!Life!Next]_(A!Life!vars), Announced' = Announced
    PROVE  [Life!Next]_(Life!vars)
<1>1. NoEvent = A!NoEvent /\ API!Event = A!Event
  BY DEF NoEvent, A!NoEvent, API!Event, A!Event, API!Values, A!Values
<1>2. CASE UNCHANGED A!Life!vars
  BY <1>1, <1>2 DEF A!Life!vars, Life!vars, Announced
<1>3. ASSUME NEW i \in Inspections, A!Life!Schedule(i) PROVE Life!Schedule(i)
  BY <1>1, <1>3 DEF A!Life!Schedule, Life!Schedule, Announced
<1>4. ASSUME NEW i \in Inspections, A!Life!Complete(i) PROVE Life!Complete(i)
  BY <1>1, <1>4 DEF A!Life!Complete, Life!Complete, Announced
<1>5. ASSUME NEW i \in Inspections, A!Life!Announce(i) PROVE FALSE
  BY <1>5 DEF A!Life!Announce
<1> QED BY <1>2, <1>3, <1>4, <1>5 DEF A!Life!Next, Life!Next

\* An event that a request commits has not been sent yet.
LEMMA RequestsAnnounceNothing ==
    ASSUME SInv, RequestStep PROVE Announced' = Announced
<1>1. topic' = topic
  BY RequestPathSteps DEF relayVars
<1>2. ASSUME NEW p \in Procs, A!TxCommit(p) PROVE Announced' = Announced
  <2>1. /\ apiPc[p] = "txCommit"
        /\ \E ev : outbox' = outbox \union {ev} /\ ev.id = eventID[p]
    BY <1>2, SInvTypes, TxCommitKeepsIds DEF SInv
  <2>2. PICK ev : outbox' = outbox \union {ev} /\ ev.id = eventID[p]
    BY <2>1
  <2>3. eventID[p] \in R!Ids
    BY <2>1, SInvTypes, DrawnFinite DEF SInv, IdsDrawnOnce, R!TypeOK, R!Ids
  <2>4. Tx[eventID[p]] = "open"
    BY <2>1, <2>3, SInvTypes, TxIs DEF SInv, TxFacts, R!Ids
  <2>5. ~(topic[ev.id] > 0)
    BY <2>2, <2>3, <2>4 DEF SInv, R!IInv, R!CausalOrder, R!Arrived
  <2> QED BY <1>1, <2>2, <2>5 DEF Announced
<1>3. ASSUME outbox' = outbox PROVE Announced' = Announced
  BY <1>1, <1>3 DEF Announced
<1>4. A!Crash => outbox' = outbox
  BY DEF A!Crash
<1>5. ASSUME NEW p \in Procs,
             \/ A!Dispatch(p) \/ A!StatementFails(p)
             \/ A!Step(p) /\ ~A!TxInsert(p) /\ ~A!TxCommit(p)
      PROVE  outbox' = outbox
  BY <1>5, SInvTypes, OtherMoves
<1>6. ASSUME NEW p \in Procs, A!TxInsert(p) PROVE outbox' = outbox
  BY <1>6 DEF A!TxInsert
<1> QED BY <1>2, <1>3, <1>4, <1>5, <1>6 DEF RequestStep

\* A relay sends events of the outbox only, one at a time.
LEMMA RelaySends ==
    ASSUME SInv, R!Next, UNCHANGED apiVars
    PROVE  \/ topic' = topic
           \/ \E e \in R!Ids : Tx[e] = "committed" /\ topic' = [topic EXCEPT ![e] = @ + 1]
<1>1. ASSUME NEW r \in Relays, NEW e \in R!Ids, R!Publish(r, e)
      PROVE  Tx[e] = "committed" /\ topic' = [topic EXCEPT ![e] = @ + 1]
  BY <1>1 DEF R!Publish, R!IsNext, SInv, R!IInv, R!BatchesClosed
<1>2. ASSUME NEW e \in R!Ids, R!StoreLate(e)
      PROVE  Tx[e] = "committed" /\ topic' = [topic EXCEPT ![e] = @ + 1]
  BY <1>2 DEF R!StoreLate, SInv, R!IInv, R!LateClosed
<1>3. R!Writer => topic' = topic
  BY DEF R!Writer, R!Insert, R!Commit, R!Abort
<1>4. ASSUME NEW r \in Relays,
             R!Start(r) \/ R!Poll(r) \/ \E e \in R!Ids : R!Mark(r, e)
      PROVE  topic' = topic
  BY <1>4 DEF R!Start, R!Poll, R!Mark
<1>5. R!Failure => topic' = topic
  BY DEF R!Failure, R!Crash, R!PublishFails, R!MarkFails
<1> QED BY <1>1, <1>2, <1>3, <1>4, <1>5 DEF R!Next, R!Relay

LEMMA RelayIsLife == ASSUME SInv, RelayStep PROVE [Life!Next]_(Life!vars)
<1>1. R!Next /\ UNCHANGED apiVars /\ row' = row /\ outbox' = outbox
  BY DEF RelayStep, apiVars
<1>2. UNCHANGED <<StatusOf, EventOf>>
  BY <1>1 DEF StatusOf, EventOf
<1>3. CASE topic' = topic
  <2>1. Announced' = Announced
    BY <1>1, <1>3 DEF Announced
  <2> QED BY <1>2, <2>1 DEF Life!vars, StatusOf, EventOf, Announced
<1>4. ASSUME NEW e \in R!Ids, Tx[e] = "committed", topic' = [topic EXCEPT ![e] = @ + 1]
      PROVE  Life!Next
  <2>1. PICK ev \in outbox : ev.id = e /\ ev.insp \in Inspections
                             /\ row[ev.insp].status = "completed"
    BY <1>4, ArrivedIsInOutbox
  <2>2. topic \in [R!Ids -> Nat]
    BY SInvTypes DEF R!TypeOK
  <2>3. /\ topic'[e] > 0
        /\ \A f \in outbox : f.id # e => topic'[f.id] = topic[f.id]
        /\ \A f \in outbox : f.id = e => f = ev
    BY <1>4, <2>1, <2>2 DEF SInv, IdsDrawnOnce
  <2>4. Announced' = Announced \union {ev.insp}
    BY <1>1, <2>1, <2>3 DEF Announced
  <2>5. Life!Announce(ev.insp)
    BY <1>2, <2>1, <2>4 DEF Life!Announce, StatusOf, EventOf, Announced
  <2> QED BY <2>1, <2>5 DEF Life!Next
<1> QED BY <1>1, <1>3, <1>4, RelaySends

LEMMA NextIsLife == SInv /\ SInv' /\ [Next]_vars => [Life!Next]_(Life!vars)
<1> SUFFICES ASSUME SInv, SInv', [Next]_vars PROVE [Life!Next]_(Life!vars)
  OBVIOUS
<1>1. [A!Life!Next]_(A!Life!vars)
  <2>1. [A!Next]_(A!vars)
    BY SInvTypes, ApiMoves
  <2> QED BY <2>1, PartsAssumptions, A!NextIsLife DEF SInv
<1>2. CASE RequestStep
  BY <1>1, <1>2, RequestsAnnounceNothing, RequestPathIsLife
<1>3. CASE ConsumerStep \/ UNCHANGED vars
  <2>1. UNCHANGED <<topic, outbox>>
    BY <1>3, SInvTypes, ConsumerSteps DEF relayVars, vars, apiVars
  <2>2. Announced' = Announced
    BY <2>1 DEF Announced
  <2> QED BY <1>1, <2>2, RequestPathIsLife
<1> QED BY <1>2, <1>3, RelayIsLife, NextCases

\* To its neighbours the service is what InspectionLifecycle says: an inspection
\* is created once, completed at most once and with its event, the event never
\* changes, and Kafka gets the event of a completed inspection only.
THEOREM ServiceKeepsLifecycle == FairSpec => Life!Spec
<1>1. FairSpec => Init /\ [][Next]_vars
  BY PTL DEF FairSpec
<1> QED BY <1>1, InitService, NextIsLife, SpecKeepsSInv, PTL DEF Life!Spec

\* What is proved of each part holds within the service.
PartsKeepTheirPromises ==
    /\ API!OneEventPerCompletion /\ API!CompletionAnswersAreTrue /\ API!EventCountsAckedPhotos
    /\ Relay!PublishedArrived /\ Relay!CausalOrder /\ Relay!BoundedDuplicates
    /\ Consumer!OneInspectionPerRequest /\ Consumer!MarksAreBacked /\ Consumer!LossIsExplained

\* With consumers, requests and relays side by side, each with its failures, lost
\* partitions and expiring marks included: one event for each completion, true answers, no event marked that was not sent,
\* causal order, bounded duplicates, one inspection for each request, and no
\* request lost but over an exposed mark.
THEOREM PartsKeepPromisesTogether == FairSpec => []PartsKeepTheirPromises
<1>1. /\ API!OneEventPerCompletion <=> A!OneEventPerCompletion
      /\ API!CompletionAnswersAreTrue <=> A!CompletionAnswersAreTrue
      /\ API!EventCountsAckedPhotos <=> A!EventCountsAckedPhotos
  BY SameSets DEF API!OneEventPerCompletion, A!OneEventPerCompletion,
     API!CompletionAnswersAreTrue, A!CompletionAnswersAreTrue,
     API!EventCountsAckedPhotos, A!EventCountsAckedPhotos
<1>2. /\ Relay!PublishedArrived <=> R!PublishedArrived
      /\ Relay!CausalOrder <=> R!CausalOrder
      /\ Relay!BoundedDuplicates <=> R!BoundedDuplicates
  BY SameSets DEF Relay!PublishedArrived, R!PublishedArrived, Relay!CausalOrder,
     R!CausalOrder, Relay!BoundedDuplicates, R!BoundedDuplicates,
     Relay!Arrived, R!Arrived, Relay!Ids, R!Ids
<1>3. Consumer!OneInspectionPerRequest <=> C!OneInspectionPerRequest
  BY DEF Consumer!OneInspectionPerRequest, C!OneInspectionPerRequest, Consumer!Offsets, C!Offsets
<1>4. /\ Consumer!MarksAreBacked <=> C!MarksAreBacked
      /\ Consumer!LossIsExplained <=> C!LossIsExplained
  BY DEF Consumer!MarksAreBacked, C!MarksAreBacked, Consumer!LossIsExplained,
     C!LossIsExplained, Consumer!Handled, C!Handled, Consumer!HasInspection,
     C!HasInspection, Consumer!Claimed, C!Claimed, Consumer!Holds, C!Holds, Consumer!Event,
     C!Event, Consumer!Current, C!Current, Consumer!Offsets, C!Offsets
<1>5. Init => A!Init /\ R!Init /\ C!Init
  BY SameInit, SameRelay, SameConsumerInit DEF Init
<1>6. SInv /\ SInv' /\ [Next]_vars =>
         [A!Next]_(A!vars) /\ [R!Next]_(R!vars) /\ [C!Next]_(C!vars)
  <2> SUFFICES ASSUME SInv, SInv', [Next]_vars
               PROVE  [A!Next]_(A!vars) /\ [R!Next]_(R!vars) /\ [C!Next]_(C!vars)
    OBVIOUS
  <2>1. A!TypeOK' /\ IdsDrawnOnce /\ IdsDrawnOnce'
    BY DEF SInv, A!IInv
  <2> QED BY <2>1, SInvTypes, ApiMoves, RelayMoves, ConsumerMoves
<1>7. SInv /\ SInv' /\ [Next]_vars => [A!Next]_(A!vars)
  BY <1>6
<1>8. SInv /\ SInv' /\ [Next]_vars => [R!Next]_(R!vars)
  BY <1>6
<1>9. SInv /\ SInv' /\ [Next]_vars => [C!Next]_(C!vars)
  BY <1>6
<1>10. FairSpec => Init /\ [][Next]_vars
  BY PTL DEF FairSpec
<1>11. FairSpec => A!Spec
  BY <1>5, <1>7, <1>10, SpecKeepsSInv, PTL DEF A!Spec
<1>12. FairSpec => R!Spec
  BY <1>5, <1>8, <1>10, SpecKeepsSInv, PTL DEF R!Spec
<1>13. FairSpec => C!Spec
  BY <1>5, <1>9, <1>10, SpecKeepsSInv, PTL DEF C!Spec
<1>14. FairSpec => []A!OneEventPerCompletion /\ []A!CompletionAnswersAreTrue
                   /\ []A!EventCountsAckedPhotos
  BY <1>11, PartsAssumptions, A!CompletionHasOneEvent, A!AnswersAreTrue,
     A!EventsCountAckedPhotos, PTL
<1>15. FairSpec => []R!PublishedArrived /\ []R!CausalOrder /\ []R!BoundedDuplicates
  BY <1>12, PartsAssumptions, R!PublishedIsArrived, R!CausalOrderKept,
     R!DuplicatesAreBounded, PTL
<1>16. FairSpec => []C!OneInspectionPerRequest /\ []C!MarksAreBacked /\ []C!LossIsExplained
  BY <1>13, PartsAssumptions, C!OneInspection, C!MarksBacked, C!LossExplained, PTL
<1> QED BY <1>1, <1>2, <1>3, <1>4, <1>14, <1>15, <1>16, PTL DEF PartsKeepTheirPromises

=============================================================================
