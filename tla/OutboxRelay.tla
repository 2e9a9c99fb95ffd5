----------------------------- MODULE OutboxRelay -----------------------------
(***************************************************************************)
(* The outbox table and the relays that empty it into Kafka                *)
(* (internal/outbox/relay.go, internal/outbox/producer.go).                *)
(*                                                                         *)
(* Every instance of the service runs one relay over the same table, and   *)
(* no relay locks what it reads.  The transactions that fill the table are *)
(* those of repository.Complete, which run side by side: they draw their   *)
(* ids in one order and may commit in another.  A relay handles its batch  *)
(* in id order, so the rows a batch has left are a set, whose smallest     *)
(* element is next.                                                        *)
(***************************************************************************)
EXTENDS Naturals, FiniteSets

CONSTANTS
    Relays,     \* instances of the service
    MaxEvents,  \* bound: how many outbox rows are ever inserted
    BatchSize,  \* rows one poll reads
    Attempts,   \* writes one call of the Kafka client makes at most
    MaxFaults   \* bound: failed calls and crashes

ASSUME ConstantsAssumption ==
    /\ IsFiniteSet(Relays)
    /\ MaxEvents \in Nat
    /\ BatchSize \in Nat \ {0}
    /\ Attempts \in Nat \ {0}
    /\ MaxFaults \in Nat

Ids == 1 .. MaxEvents

VARIABLES
    lastId,     \* last value drawn from the identity column
    tx,         \* the transaction that inserts each row
    published,  \* rows with published_at set
    topic,      \* how often Kafka has stored the event of each row
    late,       \* writes no relay waits for any more that Kafka may still store
    pc,         \* where publishBatch of each relay stands
    batch,      \* rows of its poll that it has not finished
    faults,     \* failed calls and crashes so far
    before      \* history: rows committed when a row's id was drawn

vars == <<lastId, tx, published, topic, late, pc, batch, faults, before>>

TypeOK ==
    /\ lastId \in 0 .. MaxEvents
    /\ tx \in [Ids -> {"none", "open", "committed", "aborted"}]
    /\ published \subseteq Ids
    /\ topic \in [Ids -> Nat]
    /\ late \in [Ids -> Nat]
    /\ pc \in [Relays -> {"down", "idle", "publish", "mark"}]
    /\ batch \in [Relays -> SUBSET Ids]
    /\ \A r \in Relays : pc[r] \in {"publish", "mark"} <=> batch[r] # {}
    /\ faults \in 0 .. MaxFaults
    /\ before \in [Ids -> SUBSET Ids]

Committed == {e \in Ids : tx[e] = "committed"}
Arrived == {e \in Ids : topic[e] > 0}
Unpublished == Committed \ published

\* The row a relay is at: its batch is in id order.
IsNext(r, e) == e \in batch[r] /\ \A f \in batch[r] : e <= f

Init ==
    /\ lastId = 0
    /\ tx = [e \in Ids |-> "none"]
    /\ published = {}
    /\ topic = [e \in Ids |-> 0]
    /\ late = [e \in Ids |-> 0]
    /\ pc = [r \in Relays |-> "idle"]
    /\ batch = [r \in Relays |-> {}]
    /\ faults = 0
    /\ before = [e \in Ids |-> {}]

-----------------------------------------------------------------------------
(***************************************************************************)
(* The writers: insertOutbox within the transaction of Complete.           *)
(***************************************************************************)

\* The id is drawn by the INSERT, before the transaction commits.
Insert ==
    /\ lastId < MaxEvents
    /\ lastId' = lastId + 1
    /\ tx' = [tx EXCEPT ![lastId + 1] = "open"]
    /\ before' = [before EXCEPT ![lastId + 1] = Committed]
    /\ UNCHANGED <<published, topic, late, pc, batch, faults>>

Commit(e) ==
    /\ tx[e] = "open"
    /\ tx' = [tx EXCEPT ![e] = "committed"]
    /\ UNCHANGED <<lastId, published, topic, late, pc, batch, faults, before>>

\* Rolled back, all of a process at once if it dies: the ids leave gaps.
Abort(some) ==
    /\ some # {} /\ \A e \in some : tx[e] = "open"
    /\ tx' = [e \in Ids |-> IF e \in some THEN "aborted" ELSE tx[e]]
    /\ UNCHANGED <<lastId, published, topic, late, pc, batch, faults, before>>

-----------------------------------------------------------------------------
(***************************************************************************)
(* publishBatch: poll, then publish and mark row by row.                   *)
(***************************************************************************)

\* The rows of S with the n smallest ids: ORDER BY id LIMIT n.
FirstOf(S, n) == {e \in S : Cardinality({f \in S : f < e}) < n}

\* Mutant: the poll resumes behind the last published id.
PollFromCursor(r) ==
    /\ pc[r] = "idle"
    /\ LET fresh == {e \in Unpublished : \A f \in published : f < e}
       IN /\ batch' = [batch EXCEPT ![r] = FirstOf(fresh, BatchSize)]
          /\ pc' = [pc EXCEPT ![r] = IF fresh = {} THEN "idle" ELSE "publish"]
    /\ UNCHANGED <<lastId, tx, published, topic, late, faults, before>>

\* Mutant: the poll has no ORDER BY.
PollUnordered(r) ==
    /\ pc[r] = "idle"
    /\ \E some \in SUBSET Unpublished :
          /\ Cardinality(some) <= BatchSize
          /\ batch' = [batch EXCEPT ![r] = some]
          /\ pc' = [pc EXCEPT ![r] = IF some = {} THEN "idle" ELSE "publish"]
    /\ UNCHANGED <<lastId, tx, published, topic, late, faults, before>>

\* A tick.  A poll that fails or finds nothing changes nothing.
Poll(r) ==
    /\ pc[r] = "idle"
    /\ batch' = [batch EXCEPT ![r] = FirstOf(Unpublished, BatchSize)]
    /\ pc' = [pc EXCEPT ![r] = IF Unpublished = {} THEN "idle" ELSE "publish"]
    /\ UNCHANGED <<lastId, tx, published, topic, late, faults, before>>

\* The client's writer has been given no MaxAttempts, so it writes again, within
\* the call and after its caller has left, and is not idempotent: up to most
\* writes of e are stored beside what the relay learns of, sooner or later.
MayStore(e, most) == \E n \in 0 .. most : late' = [late EXCEPT ![e] = @ + n]

\* WriteMessages returns nil: all in-sync replicas hold the message of one write,
\* and may hold that of each earlier one whose answer was an error.
Publish(r, e) ==
    /\ pc[r] = "publish" /\ IsNext(r, e)
    /\ topic' = [topic EXCEPT ![e] = @ + 1]
    /\ MayStore(e, Attempts - 1)
    /\ pc' = [pc EXCEPT ![r] = "mark"]
    /\ UNCHANGED <<lastId, tx, published, batch, faults, before>>

\* Mutant: a published row is not marked.
MarkForgotten(r, e) ==
    /\ pc[r] = "mark" /\ IsNext(r, e)
    /\ batch' = [batch EXCEPT ![r] = @ \ {e}]
    /\ pc' = [pc EXCEPT ![r] = IF batch[r] = {e} THEN "idle" ELSE "publish"]
    /\ UNCHANGED <<lastId, tx, published, topic, late, faults, before>>

\* Mutant: the loop does not end with the last row of the batch.
MarkRunsOn(r, e) ==
    /\ pc[r] = "mark" /\ IsNext(r, e)
    /\ published' = published \union {e}
    /\ batch' = [batch EXCEPT ![r] = @ \ {e}]
    /\ pc' = [pc EXCEPT ![r] = "publish"]
    /\ UNCHANGED <<lastId, tx, topic, late, faults, before>>

\* UPDATE outbox SET published_at, then the next row of the batch.
Mark(r, e) ==
    /\ pc[r] = "mark" /\ IsNext(r, e)
    /\ published' = published \union {e}
    /\ batch' = [batch EXCEPT ![r] = @ \ {e}]
    /\ pc' = [pc EXCEPT ![r] = IF batch[r] = {e} THEN "idle" ELSE "publish"]
    /\ UNCHANGED <<lastId, tx, topic, late, faults, before>>

-----------------------------------------------------------------------------
(***************************************************************************)
(* Failures.                                                               *)
(***************************************************************************)
Fault ==
    /\ faults < MaxFaults
    /\ faults' = faults + 1

\* The relay drops the rest of its batch; the next tick polls again.
DropBatch(r, label) ==
    /\ pc' = [pc EXCEPT ![r] = label]
    /\ batch' = [batch EXCEPT ![r] = {}]

\* Mutant: a publish error is ignored, and the row marked.
PublishErrorIgnored(r, e) ==
    /\ pc[r] = "publish" /\ IsNext(r, e)
    /\ Fault
    /\ pc' = [pc EXCEPT ![r] = "mark"]
    /\ MayStore(e, Attempts)
    /\ UNCHANGED <<lastId, tx, published, topic, batch, before>>

\* Publish returns an error: each write was stored, is stored late or is lost.
PublishFails(r, e) ==
    /\ pc[r] = "publish" /\ IsNext(r, e)
    /\ Fault
    /\ MayStore(e, Attempts)
    /\ DropBatch(r, "idle")
    /\ UNCHANGED <<lastId, tx, published, topic, before>>

\* Kafka has stored a write that its relay did not wait for.
StoreLate(e) ==
    /\ late[e] > 0
    /\ late' = [late EXCEPT ![e] = @ - 1]
    /\ topic' = [topic EXCEPT ![e] = @ + 1]
    /\ UNCHANGED <<lastId, tx, published, pc, batch, faults, before>>

\* The UPDATE returns an error: it was applied or not.
MarkFails(r, e) ==
    /\ pc[r] = "mark" /\ IsNext(r, e)
    /\ Fault
    /\ published' \in {published, published \union {e}}
    /\ DropBatch(r, "idle")
    /\ UNCHANGED <<lastId, tx, topic, late, before>>

\* The process ends, with a send or an UPDATE under way or between ticks.
Crash(r) ==
    /\ pc[r] # "down"
    /\ Fault
    /\ \/ /\ pc[r] = "publish"
          /\ \E e \in batch[r] : IsNext(r, e) /\ MayStore(e, Attempts)
          /\ UNCHANGED published
       \/ /\ pc[r] = "mark"
          /\ \E e \in batch[r] : IsNext(r, e) /\ published' \in {published, published \union {e}}
          /\ UNCHANGED late
       \/ /\ pc[r] = "idle"
          /\ UNCHANGED <<late, published>>
    /\ DropBatch(r, "down")
    /\ UNCHANGED <<lastId, tx, topic, before>>

Start(r) ==
    /\ pc[r] = "down"
    /\ pc' = [pc EXCEPT ![r] = "idle"]
    /\ UNCHANGED <<lastId, tx, published, topic, late, batch, faults, before>>

-----------------------------------------------------------------------------
Writer ==
    \/ Insert
    \/ \E e \in Ids : Commit(e)
    \/ \E some \in SUBSET Ids : Abort(some)

\* What a relay does as long as nothing fails.
Relay(r) ==
    \/ Poll(r)
    \/ \E e \in Ids : Publish(r, e) \/ Mark(r, e)

Failure ==
    \/ \E r \in Relays : Crash(r)
    \/ \E r \in Relays, e \in Ids : PublishFails(r, e) \/ MarkFails(r, e)

Next ==
    \/ Writer
    \/ \E r \in Relays : Relay(r) \/ Start(r)
    \/ \E e \in Ids : StoreLate(e)
    \/ Failure

Spec == Init /\ [][Next]_vars

\* The ticker fires for ever and calls return; with at most MaxFaults of them
\* failing, a relay that is retried gets through.  A dead process is restarted.
FairSpec ==
    /\ Spec
    /\ \A r \in Relays : WF_vars(Relay(r)) /\ WF_vars(Start(r))

-----------------------------------------------------------------------------
(***************************************************************************)
(* Properties.                                                             *)
(***************************************************************************)

\* published_at is set only on a row whose event Kafka holds: no failure, crash
\* or second relay makes the table forget an event that was not sent.
PublishedArrived == published \subseteq Arrived

\* Only events of committed completions reach Kafka, and they arrive in causal
\* order: an event that was committed before another drew its id is stored
\* before it ("so per-aggregate ordering is preserved").  Failed publishes,
\* restarts, small batches and concurrent relays repeat events but reorder none.
CausalOrder ==
    \A e \in Arrived : tx[e] = "committed" /\ before[e] \subseteq Arrived

\* An event is sent once per relay, and once more only for a fault that hit it;
\* each time Kafka stores no more than the writes of one call.
BoundedDuplicates ==
    \A e \in Ids : topic[e] + late[e] <= Attempts * (Cardinality(Relays) + faults)

\* Every committed event reaches Kafka and is marked: whatever fails, becomes visible
\* late or is left over by a batch, a time comes again when nothing waits.
EventuallyPublished == []<>(Unpublished = {})

=============================================================================
