---------------------------- MODULE InspectionAPI ----------------------------
(***************************************************************************)
(* The request path of inspect-service: handler, service and repository    *)
(* (internal/handler/inspection.go, internal/service/inspection.go,        *)
(* internal/repository/postgres.go) against one PostgreSQL database.       *)
(*                                                                         *)
(* A request is a goroutine of its own: between two of its SQL statements  *)
(* any other request may run.  One action is one statement, with the Go    *)
(* code that runs after it up to the next statement.  The snapshot a       *)
(* request reads is kept in the request, as in the code.                   *)
(***************************************************************************)
EXTENDS Naturals, FiniteSets

CONSTANTS
    Procs,        \* HTTP requests; each is served once
    Users,        \* token subjects
    RolesOf,      \* the realm roles of each user
    Inspections,  \* inspection ids; request_id is UNIQUE, so one per request
    Texts,        \* contents of notes and property_data
    Patches,      \* bodies of PATCH: the columns present, with their values
    SharedTicks,  \* may two readings of the clocks give the same microsecond?
    Nil           \* SQL NULL, and no holder of a row lock

Roles == {"inspector", "appraiser", "admin"}
Columns == {"inspector_id", "notes", "property_data"}
Values == Users \union Texts \union {Nil}

(***************************************************************************)
(* A nil field of UpdateInput means "leave as is", so a patch assigns some *)
(* of the columns and never NULL.                                          *)
(***************************************************************************)
PatchAssumption ==
    \A patch \in Patches :
        /\ DOMAIN patch \subseteq Columns
        /\ \A c \in DOMAIN patch : patch[c] \in Values \ {Nil}

ASSUME ConstantsAssumption ==
    /\ IsFiniteSet(Procs)
    /\ RolesOf \in [Users -> SUBSET Roles]
    /\ SharedTicks \in BOOLEAN
    /\ Nil \notin Procs \union Users \union Texts
    /\ PatchAssumption

VARIABLES
    row,        \* inspections: the committed row of each id
    photos,     \* inspection_photos: the requests whose photo row is stored
    outbox,     \* outbox: the committed rows
    outboxSeq,  \* last value drawn from the identity column of outbox
    lock,       \* the transaction holding the lock of each inspections row
    clock,      \* how many different readings of time.Now() there have been
    pc,         \* where each request stands
    req,        \* caller, operation, inspection and body of each request
    snap,       \* what the service's GetByID read
    count,      \* len(insp.Photos) of that read
    stamp,      \* time.Now() of the service call
    eventID,    \* outbox id drawn by the open transaction
    resp,       \* HTTP status answered, 0 while there is none
    acked       \* history: photos answered 201 when the request came in

dbVars == <<row, photos, outbox, outboxSeq, lock>>
localVars == <<snap, count, stamp, eventID>>
vars == <<row, photos, outbox, outboxSeq, lock, clock, pc, req, snap, count,
          stamp, eventID, resp, acked>>

Statuses == {"absent", "scheduled", "completed"}
Operations == {"get", "update", "complete", "photo"}

Row == [status : Statuses, cols : [Columns -> Values],
        updatedAt : Nat, completedAt : Nat]

Event == [id : Nat, insp : Inspections, inspector : Values,
          photoCount : Nat, completedAt : Nat, by : Procs]

Request == [user : Users, op : Operations, insp : Inspections,
            patch : Patches \union {<<>>}]

\* Labels of a request that waits for an answer of the database.
InFlight == {"authRead", "readRow", "readPhotos", "update", "exists",
             "insertPhoto", "txUpdate", "txInsert", "txCommit"}

NoColumns == [c \in Columns |-> Nil]
NoRow == [status |-> "absent", cols |-> NoColumns,
          updatedAt |-> 0, completedAt |-> 0]

TypeOK ==
    /\ row \in [Inspections -> Row]
    /\ photos \in [Inspections -> SUBSET Procs]
    /\ outbox \subseteq Event
    /\ outboxSeq \in Nat
    /\ lock \in [Inspections -> Procs \union {Nil}]
    /\ clock \in Nat
    /\ pc \in [Procs -> InFlight \union {"idle", "done", "lost"}]
    /\ req \in [Procs -> Request \union {<<>>}]
    /\ \A p \in Procs : req[p] = <<>> <=> pc[p] = "idle"
    /\ snap \in [Procs -> Row]
    /\ count \in [Procs -> Nat]
    /\ stamp \in [Procs -> Nat]
    /\ eventID \in [Procs -> Nat]
    /\ resp \in [Procs -> {0, 200, 201, 403, 404, 409, 422, 500}]
    /\ acked \in [Procs -> SUBSET Procs]

-----------------------------------------------------------------------------
(***************************************************************************)
(* Pure parts: authorisation and the patch.                                *)
(***************************************************************************)

\* middleware.RequireRoles as route.go applies it to each route.
AllowedRoles(op) ==
    IF op \in {"get", "update"} THEN Roles ELSE {"inspector"}

IsStaff(u) == RolesOf[u] \intersect {"appraiser", "admin"} # {}

CanAccess(u, r) ==
    \/ IsStaff(u)
    \/ "inspector" \in RolesOf[u] /\ r.cols["inspector_id"] = u

\* The refusals before any statement: the route's roles, and the rule that
\* only appraiser and admin assign an inspector.
Refused(u, op, patch) ==
    \/ RolesOf[u] \intersect AllowedRoles(op) = {}
    \/ "inspector_id" \in DOMAIN patch /\ ~IsStaff(u)

\* Mutant: the body replaces the columns, absent ones included.
PatchedBodyOnly(cols, patch) == patch

\* Mutant: an absent inspector_id is written as NULL.
PatchedClearsInspector(cols, patch) ==
    [c \in Columns |-> IF c \in DOMAIN patch THEN patch[c]
                       ELSE IF c = "inspector_id" THEN Nil ELSE cols[c]]

Patched(cols, patch) ==
    [c \in Columns |-> IF c \in DOMAIN patch THEN patch[c] ELSE cols[c]]

\* Photos whose request was answered 201.
AckedPhotos(i) == {p \in photos[i] : resp[p] = 201}

-----------------------------------------------------------------------------
Init ==
    \* The database may hold rows of an earlier run of the service.
    /\ row \in [Inspections ->
                  {NoRow} \union
                  {[NoRow EXCEPT !.status = "scheduled",
                                 !.cols["inspector_id"] = u] :
                       u \in Users \union {Nil}}]
    /\ photos = [i \in Inspections |-> {}]
    /\ outbox = {}
    /\ outboxSeq = 0
    /\ lock = [i \in Inspections |-> Nil]
    /\ clock = 0
    /\ pc = [p \in Procs |-> "idle"]
    /\ req = [p \in Procs |-> <<>>]
    /\ snap = [p \in Procs |-> NoRow]
    /\ count = [p \in Procs |-> 0]
    /\ stamp = [p \in Procs |-> 0]
    /\ eventID = [p \in Procs |-> 0]
    /\ resp = [p \in Procs |-> 0]
    /\ acked = [p \in Procs |-> {}]

Goto(p, label) ==
    /\ pc' = [pc EXCEPT ![p] = label]
    /\ UNCHANGED resp

Answer(p, code) ==
    /\ pc' = [pc EXCEPT ![p] = "done"]
    /\ resp' = [resp EXCEPT ![p] = code]

\* An autocommitted statement took effect; its acknowledgement may be lost.
AnswerWritten(p, code) == \E answer \in {code, 500} : Answer(p, answer)

(***************************************************************************)
(* time.Now(), in the microseconds the database keeps.  The clocks are     *)
(* those of several processes and may lag, so a stamp is only a name of a  *)
(* reading and clock the last name in use: stamps are compared for         *)
(* equality alone.  With SharedTicks a reading may be any one met before,  *)
(* the version just read included; without, every reading is a new one.    *)
(***************************************************************************)
Now(t) ==
    /\ t \in IF SharedTicks THEN 0 .. clock + 1 ELSE {clock + 1}
    /\ clock' = IF t > clock THEN t ELSE clock

ReadClock(p) == \E t \in 0 .. clock + 1 : Now(t) /\ stamp' = [stamp EXCEPT ![p] = t]

ReleaseLocks(ps) == [i \in Inspections |-> IF lock[i] \in ps THEN Nil ELSE lock[i]]

-----------------------------------------------------------------------------
(***************************************************************************)
(* Handler: Update, Complete, AddPhoto and GetByID up to the service call. *)
(***************************************************************************)

\* A request with a valid token and body arrives.
Dispatch(p) ==
    /\ pc[p] = "idle"
    /\ \E u \in Users, op \in Operations, i \in Inspections,
          patch \in Patches \union {<<>>} :
          /\ op # "update" => patch = <<>>
          /\ req' = [req EXCEPT ![p] = [user |-> u, op |-> op, insp |-> i,
                                        patch |-> patch]]
          /\ acked' = [acked EXCEPT ![p] = AckedPhotos(i)]
          /\ IF Refused(u, op, patch) THEN Answer(p, 403)
                                     ELSE Goto(p, "authRead")
    /\ UNCHANGED <<dbVars, localVars, clock>>

\* The handler's own svc.GetByID, and canAccess on what it returned.
AuthRead(p) ==
    LET r == row[req[p].insp]
    IN /\ pc[p] = "authRead"
       /\ CASE r.status = "absent" -> Answer(p, 404)
            [] r.status # "absent" /\ ~CanAccess(req[p].user, r) -> Answer(p, 403)
            [] OTHER -> IF req[p].op = "get" THEN Answer(p, 200)
                                             ELSE Goto(p, "readRow")
       /\ UNCHANGED <<dbVars, localVars, clock, req, acked>>

(***************************************************************************)
(* Service: Update, Complete and AddPhoto start with repo.GetByID, which   *)
(* is two statements outside any transaction.                              *)
(***************************************************************************)
ReadRow(p) ==
    LET r == row[req[p].insp]
    IN /\ pc[p] = "readRow"
       /\ IF r.status = "absent" THEN Answer(p, 404) ELSE Goto(p, "readPhotos")
       /\ snap' = [snap EXCEPT ![p] = r]
       /\ UNCHANGED <<dbVars, clock, req, count, stamp, eventID, acked>>

\* Mutant: GetByID returns the row without its photos.
ReadPhotosUncounted(p) ==
    /\ pc[p] = "readPhotos"
    /\ IF req[p].op # "update" /\ snap[p].status # "scheduled"
         THEN Answer(p, 422) /\ UNCHANGED <<clock, stamp>>
         ELSE /\ Goto(p, CASE req[p].op = "photo" -> "insertPhoto"
                           [] req[p].op = "complete" -> "txUpdate"
                           [] OTHER -> "update")
              /\ ReadClock(p)
    /\ UNCHANGED <<dbVars, req, snap, count, eventID, acked>>

\* listPhotos, then the service's status check and time.Now().
ReadPhotos(p) ==
    /\ pc[p] = "readPhotos"
    /\ count' = [count EXCEPT ![p] = Cardinality(photos[req[p].insp])]
    /\ \/ /\ req[p].op \in {"complete", "photo"}
          /\ snap[p].status # "scheduled"
          /\ Answer(p, 422)
          /\ UNCHANGED <<clock, stamp>>
       \/ /\ req[p].op = "photo"
          /\ snap[p].status = "scheduled"
          /\ Goto(p, "insertPhoto")
          /\ UNCHANGED <<clock, stamp>>
       \/ /\ req[p].op = "complete"
          /\ snap[p].status = "scheduled"
          /\ Goto(p, "txUpdate")
          /\ ReadClock(p)
       \/ /\ req[p].op = "update"
          /\ Goto(p, "update")
          /\ ReadClock(p)
    /\ UNCHANGED <<dbVars, req, snap, eventID, acked>>

(***************************************************************************)
(* Repository: the writes.  An UPDATE waits for the row lock and then      *)
(* evaluates its WHERE on the committed row (READ COMMITTED).              *)
(***************************************************************************)

\* Mutant: the UPDATE without "AND updated_at = $6".
UpdateRowUnguarded(p) ==
    LET i == req[p].insp
    IN /\ pc[p] = "update"
       /\ lock[i] = Nil
       /\ row' = [row EXCEPT ![i] = [@ EXCEPT
                     !.cols = Patched(snap[p].cols, req[p].patch),
                     !.updatedAt = stamp[p]]]
       /\ AnswerWritten(p, 200)
       /\ UNCHANGED <<photos, outbox, outboxSeq, lock, localVars, clock, req, acked>>

\* UPDATE inspections SET <three columns>, updated_at WHERE updated_at = $6.
UpdateRow(p) ==
    LET i == req[p].insp
    IN /\ pc[p] = "update"
       /\ lock[i] = Nil
       /\ \/ /\ row[i].updatedAt = snap[p].updatedAt
             /\ row' = [row EXCEPT ![i] = [@ EXCEPT
                           !.cols = Patched(snap[p].cols, req[p].patch),
                           !.updatedAt = stamp[p]]]
             /\ AnswerWritten(p, 200)
          \/ /\ row[i].updatedAt # snap[p].updatedAt
             /\ Goto(p, "exists")
             /\ UNCHANGED row
       /\ UNCHANGED <<photos, outbox, outboxSeq, lock, localVars, clock, req, acked>>

\* SELECT EXISTS after an UPDATE of 0 rows, in Update and in Complete.
ExistsCheck(p) ==
    /\ pc[p] = "exists"
    /\ Answer(p, IF row[req[p].insp].status = "absent" THEN 404 ELSE 409)
    /\ UNCHANGED <<dbVars, localVars, clock, req, acked>>

\* INSERT INTO inspection_photos; its foreign key does not wait for the lock.
InsertPhoto(p) ==
    /\ pc[p] = "insertPhoto"
    /\ photos' = [photos EXCEPT ![req[p].insp] = @ \union {p}]
    /\ AnswerWritten(p, 201)
    /\ UNCHANGED <<row, outbox, outboxSeq, lock, localVars, clock, req, acked>>

\* Mutant: the completing UPDATE without "AND status = $5".
TxUpdateUnguarded(p) ==
    LET i == req[p].insp
    IN /\ pc[p] = "txUpdate"
       /\ lock[i] = Nil
       /\ lock' = [lock EXCEPT ![i] = p]
       /\ Goto(p, "txInsert")
       /\ UNCHANGED <<row, photos, outbox, outboxSeq, localVars, clock, req, acked>>

\* Complete's transaction: UPDATE ... WHERE status = 'scheduled'.
TxUpdate(p) ==
    LET i == req[p].insp
    IN /\ pc[p] = "txUpdate"
       /\ lock[i] = Nil
       /\ \/ /\ row[i].status = "scheduled"
             /\ lock' = [lock EXCEPT ![i] = p]
             /\ Goto(p, "txInsert")
          \/ /\ row[i].status # "scheduled"
             /\ Goto(p, "exists")
             /\ UNCHANGED lock
       /\ UNCHANGED <<row, photos, outbox, outboxSeq, localVars, clock, req, acked>>

\* The event NewInspectCompletedEvent built from the snapshot.
CompletedEvent(p) ==
    [id |-> eventID[p], insp |-> req[p].insp,
     inspector |-> snap[p].cols["inspector_id"], photoCount |-> count[p],
     completedAt |-> stamp[p], by |-> p]

\* Mutant: insertOutbox runs on the pool instead of the transaction.
TxInsertOutside(p) ==
    /\ pc[p] = "txInsert"
    /\ outboxSeq' = outboxSeq + 1
    /\ eventID' = [eventID EXCEPT ![p] = outboxSeq + 1]
    /\ outbox' = outbox \union {[CompletedEvent(p) EXCEPT !.id = outboxSeq + 1]}
    /\ Goto(p, "txCommit")
    /\ UNCHANGED <<row, photos, lock, snap, count, stamp, clock, req, acked>>

\* insertOutbox: the identity value is drawn now and kept by a rollback.
TxInsert(p) ==
    /\ pc[p] = "txInsert"
    /\ outboxSeq' = outboxSeq + 1
    /\ eventID' = [eventID EXCEPT ![p] = outboxSeq + 1]
    /\ Goto(p, "txCommit")
    /\ UNCHANGED <<row, photos, outbox, lock, snap, count, stamp, clock, req, acked>>

\* tx.Commit: the row and its event become visible together.
TxCommit(p) ==
    LET i == req[p].insp
    IN /\ pc[p] = "txCommit"
       /\ row' = [row EXCEPT ![i] = [@ EXCEPT !.status = "completed",
                                               !.updatedAt = stamp[p],
                                               !.completedAt = stamp[p]]]
       /\ outbox' = outbox \union {CompletedEvent(p)}
       /\ lock' = ReleaseLocks({p})
       /\ AnswerWritten(p, 200)
       /\ UNCHANGED <<photos, outboxSeq, localVars, clock, req, acked>>

-----------------------------------------------------------------------------
(***************************************************************************)
(* Failures and the other writer of the table.                             *)
(***************************************************************************)

\* Mutant: an error of tx.Commit is ignored.
CommitErrorIgnored(p) ==
    /\ pc[p] \in InFlight
    /\ lock' = ReleaseLocks({p})
    /\ Answer(p, IF pc[p] = "txCommit" THEN 200 ELSE 500)
    /\ UNCHANGED <<row, photos, outbox, outboxSeq, localVars, clock, req, acked>>

\* Mutant: no deferred Rollback, so the open transaction keeps its row lock.
NoRollback(p) ==
    /\ pc[p] \in InFlight
    /\ Answer(p, 500)
    /\ UNCHANGED <<dbVars, localVars, clock, req, acked>>

\* A statement fails without effect (connection lost, client gone, timeout):
\* the deferred Rollback frees the row and the caller is answered 500.
StatementFails(p) ==
    /\ pc[p] \in InFlight
    /\ lock' = ReleaseLocks({p})
    /\ Answer(p, 500)
    /\ UNCHANGED <<row, photos, outbox, outboxSeq, localVars, clock, req, acked>>

\* The process dies: requests are cut off, PostgreSQL aborts their transactions.
Crash ==
    /\ \E p \in Procs : pc[p] \in InFlight
    /\ pc' = [p \in Procs |-> IF pc[p] \in InFlight THEN "lost" ELSE pc[p]]
    /\ lock' = ReleaseLocks(Procs)
    /\ UNCHANGED <<row, photos, outbox, outboxSeq, localVars, clock, req, resp, acked>>

\* The Kafka consumer's INSERT ... ON CONFLICT (request_id) DO NOTHING.
CreateFromRequest(i) ==
    /\ row[i].status = "absent"
    /\ \E t \in 0 .. clock + 1 :
          /\ Now(t)
          /\ row' = [row EXCEPT ![i] = [NoRow EXCEPT !.status = "scheduled", !.updatedAt = t]]
    /\ UNCHANGED <<photos, outbox, outboxSeq, lock, localVars, pc, req, resp, acked>>

\* Every request has been served: nothing more happens here.
Quiet ==
    /\ \A p \in Procs : pc[p] \in {"done", "lost"}
    /\ UNCHANGED vars

-----------------------------------------------------------------------------
\* What the scheduler and the database carry on by themselves.
Step(p) ==
    \/ AuthRead(p) \/ ReadRow(p) \/ ReadPhotos(p)
    \/ UpdateRow(p) \/ ExistsCheck(p) \/ InsertPhoto(p)
    \/ TxUpdate(p) \/ TxInsert(p) \/ TxCommit(p)

Next ==
    \/ \E p \in Procs : Dispatch(p) \/ Step(p) \/ StatementFails(p)
    \/ \E i \in Inspections : CreateFromRequest(i)
    \/ Crash
    \/ Quiet

Spec == Init /\ [][Next]_vars

\* A goroutine that can go on does, and an answered statement returns.
FairSpec == Spec /\ \A p \in Procs : WF_vars(Step(p))

-----------------------------------------------------------------------------
(***************************************************************************)
(* Properties.                                                             *)
(***************************************************************************)

\* An inspection is completed exactly when the outbox holds one event for it,
\* and that event carries the row's completed_at (repository.Complete: CAS on
\* the status, row and outbox insert in one transaction).
OneEventPerCompletion ==
    /\ \A i \in Inspections :
         row[i].status = "completed" <=> \E e \in outbox : e.insp = i
    /\ \A e, f \in outbox : e.insp = f.insp => e = f
    /\ \A e \in outbox : e.completedAt = row[e.insp].completedAt

\* A completion answered 200 survives every crash: its own event is in the
\* outbox.  One answered 409 or 422 lost to another request, whose event is.
CompletionAnswersAreTrue ==
    \A p \in Procs :
        pc[p] = "done" /\ req[p].op = "complete" =>
            /\ resp[p] = 200 => \E e \in outbox : e.by = p /\ e.insp = req[p].insp
            /\ resp[p] \in {409, 422} =>
                   \E e \in outbox : e.by # p /\ e.insp = req[p].insp

\* photo_count includes every photo acknowledged before the completion was
\* requested, and no photo that is not stored (service.Complete counts the
\* photos of a read that the transaction does not protect).
EventCountsAckedPhotos ==
    \A e \in outbox :
        /\ acked[e.by] \subseteq photos[e.insp]
        /\ Cardinality(acked[e.by]) <= e.photoCount
        /\ e.photoCount <= Cardinality(photos[e.insp])

\* A completion requested by a plain inspector names an inspector in its event:
\* canAccess saw one in the handler's read, and no later patch clears it.
EventNamesInspector ==
    \A e \in outbox : ~IsStaff(req[e.by].user) => e.inspector # Nil

\* "a caller can patch one field without clobbering the others": whatever an
\* UPDATE changes of the stored columns is what one request's body says, and
\* the other columns keep the value of the row as stored, not as once read.
PatchKeepsOthers ==
    [][\A i \in Inspections :
          row[i].status # "absent" /\ row'[i].cols # row[i].cols =>
              \E p \in Procs :
                  /\ pc[p] = "update" /\ pc'[p] = "done"
                  /\ req[p].insp = i
                  /\ row'[i].cols = Patched(row[i].cols, req[p].patch)]_vars

\* "once completed the inspection is frozen": no photo is added after the
\* completion (service.AddPhoto).
PhotosFrozen ==
    [][\A i \in Inspections :
          row[i].status = "completed" => photos'[i] = photos[i]]_vars

\* Every request that was let in is answered, or cut off by a crash: no one
\* waits for a row lock for ever.
AllAnswered ==
    \A p \in Procs : pc[p] \in InFlight ~> pc[p] \in {"done", "lost"}

\* The request path completes an inspection as InspectionLifecycle says: from
\* scheduled, once, together with an event that is never changed or taken back.
NoEvent == [id |-> 0]
Life == INSTANCE InspectionLifecycle WITH
    Payloads <- Event,
    status <- [i \in Inspections |-> row[i].status],
    event <- [i \in Inspections |->
                IF \E e \in outbox : e.insp = i
                THEN CHOOSE e \in outbox : e.insp = i ELSE NoEvent],
    announced <- {}
ImplementsLifecycle == Life!Spec

=============================================================================
