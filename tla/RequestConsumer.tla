--------------------------- MODULE RequestConsumer ---------------------------
(***************************************************************************)
(* The consumer of request.events (internal/kafka/consumer.go), its        *)
(* deduplication in Redis (internal/dedup/redis.go) and the INSERT that    *)
(* creates an inspection (service.CreateFromRequest, repository.Create).   *)
(*                                                                         *)
(* The topic is one partition, written beforehand: Log.  Every instance of *)
(* the service is a member of one consumer group.  A member that loses the *)
(* partition finishes the message it is at, and one that stopped with an   *)
(* error keeps its place in the group until its process ends, because      *)
(* nothing closes the reader before.                                       *)
(***************************************************************************)
EXTENDS Naturals, Sequences, FiniteSets

CONSTANTS
    Consumers,  \* instances of the service
    Log,        \* the messages of the partition, in order
    MaxFaults,  \* bound: failed calls, crashes and needless rebalances
    None        \* no member holds the partition

Offsets == 1 .. Len(Log)

(***************************************************************************)
(* Of a message process reads whether it is a status change to             *)
(* INSPECTION_SCHEDULED with an event_id, and which event and request.  An *)
(* event_id names one event, sent any number of times.                     *)
(***************************************************************************)
ASSUME ConstantsAssumption ==
    /\ Log \in Seq([scheduled : BOOLEAN, event : STRING, request : STRING])
    /\ \A j, k \in Offsets : Log[j].event = Log[k].event => Log[j] = Log[k]
    /\ MaxFaults \in Nat
    /\ None \notin Consumers

Events == {Log[k].event : k \in Offsets}
Requests == {Log[k].request : k \in Offsets}

VARIABLES
    committed,    \* offset of the group: messages behind it are not read again
    owner,        \* the member that holds the partition
    position,     \* the last message each member has fetched
    pc,           \* what each member is about to do
    marks,        \* keys in Redis: events seen
    inspections,  \* rows of inspections: their ids and requests
    faults,       \* failed calls, crashes and needless rebalances so far
    exposed       \* history: events whose mark was left behind or trusted early

vars == <<committed, owner, position, pc, marks, inspections, faults, exposed>>

Labels == {"down", "fetch", "seen", "create", "forget", "commit", "stopped"}

TypeOK ==
    /\ committed \in 0 .. Len(Log)
    /\ owner \in Consumers \union {None}
    /\ position \in [Consumers -> 0 .. Len(Log)]
    /\ pc \in [Consumers -> Labels]
    /\ \A c \in Consumers :
          /\ pc[c] \in {"seen", "create", "forget", "commit"} => position[c] # 0
          /\ pc[c] \in {"seen", "create", "forget"} => Log[position[c]].scheduled
    /\ marks \subseteq Events
    /\ inspections \subseteq [id : Nat, request : Requests]
    /\ IsFiniteSet(inspections)
    /\ faults \in 0 .. MaxFaults
    /\ exposed \subseteq Events

Init ==
    /\ committed = 0
    /\ owner = None
    /\ position = [c \in Consumers |-> 0]
    /\ pc = [c \in Consumers |-> "down"]
    /\ marks = {}
    /\ inspections = {}
    /\ faults = 0
    /\ exposed = {}

\* The message a member is at, its event and its request.
Current(c) == Log[position[c]]
Event(c) == Current(c).event

HasInspection(request) == \E i \in inspections : i.request = request

\* A member that has marked an event and not yet finished with it.
Holds(c, e) == pc[c] \in {"create", "forget"} /\ Event(c) = e
Claimed(e) == \E c \in Consumers : Holds(c, e)

Goto(c, label) == pc' = [pc EXCEPT ![c] = label]

-----------------------------------------------------------------------------
(***************************************************************************)
(* Run and process.                                                        *)
(***************************************************************************)

\* Mutant: a message that is not scheduled is taken for one that is.
FetchUnfiltered(c) ==
    /\ pc[c] = "fetch" /\ owner = c /\ position[c] < Len(Log)
    /\ position' = [position EXCEPT ![c] = @ + 1]
    /\ Goto(c, "seen")
    /\ UNCHANGED <<committed, owner, marks, inspections, faults, exposed>>

\* Mutant: ReadMessage for FetchMessage, which commits what it returns.
FetchCommits(c) ==
    /\ pc[c] = "fetch" /\ owner = c /\ position[c] < Len(Log)
    /\ position' = [position EXCEPT ![c] = @ + 1]
    /\ committed' = position[c] + 1
    /\ Goto(c, IF Log[position[c] + 1].scheduled THEN "seen" ELSE "commit")
    /\ UNCHANGED <<owner, marks, inspections, faults, exposed>>

\* FetchMessage, and the checks that skip what is not a scheduled request.
Fetch(c) ==
    /\ pc[c] = "fetch" /\ owner = c /\ position[c] < Len(Log)
    /\ position' = [position EXCEPT ![c] = @ + 1]
    /\ Goto(c, IF Log[position[c] + 1].scheduled THEN "seen" ELSE "commit")
    /\ UNCHANGED <<committed, owner, marks, inspections, faults, exposed>>

\* SET NX: a marked event is a duplicate and skipped, whoever marked it and
\* whether or not they are done with it.
Seen(c) ==
    /\ pc[c] = "seen"
    /\ \/ /\ Event(c) \notin marks
          /\ marks' = marks \union {Event(c)}
          /\ Goto(c, "create")
          /\ UNCHANGED exposed
       \/ /\ Event(c) \in marks
          /\ Goto(c, "commit")
          /\ exposed' = exposed \union {e \in {Event(c)} : Claimed(e)}
          /\ UNCHANGED marks
    /\ UNCHANGED <<committed, owner, position, inspections, faults>>

\* The row that INSERT adds; its id is fresh.
NewInspection(c) == [id |-> Cardinality(inspections) + 1, request |-> Current(c).request]

\* Mutant: INSERT without ON CONFLICT (request_id) DO NOTHING, nor UNIQUE.
InsertedAlways(c) == inspections \union {NewInspection(c)}

\* INSERT ... ON CONFLICT (request_id) DO NOTHING.
Inserted(c) ==
    IF HasInspection(Current(c).request) THEN inspections
                                         ELSE inspections \union {NewInspection(c)}

Create(c) ==
    /\ pc[c] = "create"
    /\ inspections' = Inserted(c)
    /\ Goto(c, "commit")
    /\ UNCHANGED <<committed, owner, position, marks, faults, exposed>>

\* Mutant: the loop goes on behind a message it has not handled.
ForgetGoesOn(c) ==
    /\ pc[c] = "forget"
    /\ marks' = marks \ {Event(c)}
    /\ Goto(c, "fetch")
    /\ UNCHANGED <<committed, owner, position, inspections, faults, exposed>>

\* After a failed create: DEL of the mark, and the loop ends with the error.
Forget(c) ==
    /\ pc[c] = "forget"
    /\ marks' = marks \ {Event(c)}
    /\ Goto(c, "stopped")
    /\ UNCHANGED <<committed, owner, position, inspections, faults, exposed>>

\* CommitMessages.  The broker takes it from any member, so one that has lost
\* the partition can set the offset back.
Commit(c) ==
    /\ pc[c] = "commit"
    /\ committed' = position[c]
    /\ Goto(c, "fetch")
    /\ UNCHANGED <<owner, position, marks, inspections, faults, exposed>>

-----------------------------------------------------------------------------
(***************************************************************************)
(* Failures, restarts and the consumer group.                              *)
(***************************************************************************)
Fault ==
    /\ faults < MaxFaults
    /\ faults' = faults + 1

\* A call that returns an error, or whose caller dies, took effect or did not.
MaybeDone(c) ==
    /\ CASE pc[c] = "seen" -> marks' \in {marks, marks \union {Event(c)}}
         [] pc[c] = "forget" -> marks' \in {marks, marks \ {Event(c)}}
         [] OTHER -> UNCHANGED marks
    /\ CASE pc[c] = "create" -> inspections' \in {inspections, Inserted(c)}
         [] OTHER -> UNCHANGED inspections
    /\ CASE pc[c] = "commit" -> committed' \in {committed, position[c]}
         [] OTHER -> UNCHANGED committed

\* The event whose mark stays behind when c drops it at one of the labels.
LeftBehind(c, labels) ==
    IF pc[c] \in labels
    THEN {e \in {Event(c)} : e \in marks' /\ (pc[c] = "seen" => e \notin marks)}
    ELSE {}

\* Mutant: an error of CreateFromRequest does not undo the mark.
AfterErrorStop(label) == "stopped"

\* Where the error path leads: every error ends the loop, a failed create
\* through Forget.
AfterError(label) == IF label = "create" THEN "forget" ELSE "stopped"

\* FetchMessage, SETNX, INSERT, DEL or the commit fails, or ctx is cancelled.
CallFails(c) ==
    /\ pc[c] \notin {"down", "stopped"}
    /\ Fault
    /\ MaybeDone(c)
    /\ Goto(c, AfterError(pc[c]))
    /\ exposed' = exposed \union LeftBehind(c, {"seen", "forget"})
    /\ UNCHANGED <<owner, position>>

\* The process ends at any point, and leaves the group.
Crash(c) ==
    /\ pc[c] \notin {"down", "stopped"}
    /\ Fault
    /\ MaybeDone(c)
    /\ Goto(c, "down")
    /\ exposed' = exposed \union LeftBehind(c, {"seen", "create", "forget"})
    /\ owner' = IF owner = c THEN None ELSE owner
    /\ UNCHANGED position

\* Only the end of the process frees what a stopped consumer holds.
Exit(c) ==
    /\ pc[c] = "stopped"
    /\ Goto(c, "down")
    /\ owner' = IF owner = c THEN None ELSE owner
    /\ UNCHANGED <<committed, position, marks, inspections, faults, exposed>>

\* main: a new reader joins the group.
Start(c) ==
    /\ pc[c] = "down"
    /\ Goto(c, "fetch")
    /\ UNCHANGED <<committed, owner, position, marks, inspections, faults, exposed>>

\* The coordinator gives the partition to a member, which reads on behind the
\* committed offset.  A member that is inside a message finishes it first.
TakeOver(c) ==
    /\ pc[c] \in {"fetch", "stopped"}
    /\ owner' = c
    /\ position' = [position EXCEPT ![c] = committed]
    /\ UNCHANGED <<committed, pc, marks, inspections, exposed>>

Assign(c) == owner = None /\ TakeOver(c) /\ UNCHANGED faults

Rebalance(c) == owner # None /\ Fault /\ TakeOver(c)

\* The mark of an event is dropped after DedupTTL, long after its handling.
Expire(e) ==
    /\ e \in marks /\ ~Claimed(e)
    /\ marks' = marks \ {e}
    /\ UNCHANGED <<committed, owner, position, pc, inspections, faults, exposed>>

\* Every message is read: the members wait for the next one.
Quiet ==
    /\ owner # None /\ position[owner] = Len(Log)
    /\ \A c \in Consumers : pc[c] = "fetch"
    /\ UNCHANGED vars

-----------------------------------------------------------------------------
\* What a member does as long as nothing fails.
Work(c) == Fetch(c) \/ Seen(c) \/ Create(c) \/ Forget(c) \/ Commit(c)

Next ==
    \/ \E c \in Consumers :
         \/ Work(c) \/ CallFails(c) \/ Crash(c)
         \/ Exit(c) \/ Start(c) \/ Assign(c) \/ Rebalance(c)
    \/ \E e \in Events : Expire(e)
    \/ Quiet

Spec == Init /\ [][Next]_vars

\* Calls return and the group assigns a partition that is free.  Nothing starts a
\* process, or ends one whose consumer has stopped.
FairSpec ==
    /\ Spec
    /\ \A c \in Consumers : WF_vars(Work(c)) /\ WF_vars(Assign(c))

-----------------------------------------------------------------------------
(***************************************************************************)
(* Properties.                                                             *)
(***************************************************************************)
Handled(k) == Log[k].scheduled => HasInspection(Log[k].request)

\* Redeliveries, repeated events, other events of the same request, expired
\* marks and concurrent members leave one inspection for each request, and one
\* for no request but those scheduled.
OneInspectionPerRequest ==
    /\ \A i, j \in inspections : i.request = j.request => i = j
    /\ \A i \in inspections :
          \E k \in Offsets : Log[k].scheduled /\ Log[k].request = i.request

\* A mark stands for an inspection, or for a member that is about to create it
\* or to take the mark back, unless it was left behind.
MarksAreBacked ==
    \A k \in Offsets :
        Log[k].scheduled /\ Log[k].event \in marks =>
            Handled(k) \/ Claimed(Log[k].event) \/ Log[k].event \in exposed

\* An offset is committed over a scheduled request without an inspection only if
\* a mark was left behind (by a crash, a failed DEL or an uncertain SETNX), or
\* was trusted while the member that had set it was still at work.
LossIsExplained ==
    \A k \in 1 .. committed : Handled(k) \/ Log[k].event \in exposed

\* "commits offsets only after a message is fully handled".
CommittedIsHandled == \A k \in 1 .. committed : Handled(k)

AllDown == \A c \in Consumers : pc[c] = "down"

\* A consumer that stopped keeps the partition, and no other member reads it.
Withheld == \E c \in Consumers : owner = c /\ pc[c] = "stopped"

\* Every scheduled request gets its inspection, or its event was exposed, unless
\* in the end no process runs or the partition stays with a stopped consumer:
\* rebalances, late commits and redelivery leave nothing else out.
ScheduledIsHandled ==
    \/ <>[](AllDown \/ Withheld)
    \/ \A k \in Offsets : <>(Handled(k) \/ Log[k].event \in exposed)

\* "Delivery is at-least-once": as long as processes run, whatever was not marked
\* in error reaches its inspection.
DeliveredAtLeastOnce ==
    \/ <>[]AllDown
    \/ \A k \in Offsets : <>(Handled(k) \/ Log[k].event \in exposed)

=============================================================================
