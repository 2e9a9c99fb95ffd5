# Specifications of inspect-service

TLA+ models of inspect-service, model-checked with TLC and proved with TLAPS.
Paths below are relative to the root of the repository; line numbers are those
of the commit the models were written from.

## The system

inspect-service keeps one inspection for each request of the appraisal CRM.
One process runs an HTTP server, an outbox relay and a Kafka consumer; several
instances may run over one PostgreSQL database, one Redis and one Kafka.

| component | source | state it keeps | operations |
|---|---|---|---|
| handlers | `internal/handler/inspection.go` | none; one goroutine per request | List, GetByID, Update, Complete, AddPhoto |
| routing, authorisation | `internal/handler/route.go`, `internal/middleware/auth.go` | roles and subject of the token, in the request's context | RequireRoles, canAccess |
| service | `internal/service/inspection.go` | the snapshot a call has read | CreateFromRequest, Update, Complete, AddPhoto, reads |
| repository | `internal/repository/postgres.go` | tables `inspections`, `inspection_photos`, `outbox` | statements, and the transaction of Complete |
| relay, producer | `internal/outbox/` | the batch of the current tick; `published_at` | Run, publishBatch, Publish |
| consumer | `internal/kafka/consumer.go` | its place in the partition; the group's offset | Run, process |
| deduplicator | `internal/dedup/redis.go` | one key in Redis for each event seen | Seen, Forget |
| start and stop | `cmd/server/main.go` | the three loops, one context | start, graceful shutdown |
| domain, schema | `internal/domain/`, `migrations/` | types, constraints | NewInspectCompletedEvent |
| storage stub | `internal/storage/` | none | KeyFor, PresignUpload |

They interact through the database and Kafka, hardly ever by calls:

    request.events --> consumer --INSERT--> inspections <--SQL-- handlers/service
                          |                      |
                        Redis            one transaction (Complete)
                                                 v
    inspect.events <--- relay <--poll/mark--- outbox

### What is hard in it

* A request is several statements, most of them outside any transaction.
  What was read may be old when it is written: `updated_at` as a version guards
  Update, the status in the WHERE guards Complete, and nothing guards AddPhoto.
* A completion and its event have to be one, across failed statements, lost
  acknowledgements and dead processes.
* Outbox ids are drawn before they become visible, relays do not lock what they
  poll, and Kafka may store a message whose sender was told it had failed.
* Pages are cut from an order that is not strict, by statements at different
  times, at an offset computed in an `int`.
* The end of the process closes what others still use, and cancels calls in the
  middle of a message.
* Three stores decide whether a request has been handled: the group's offset,
  the mark in Redis and the row. Nothing changes two of them at once.

### What makes each component correct

* request path: an event for a completion and none without; true answers; no
  patch undoes another; the event's data is not older than the request; no
  request waits for ever.
* relay: what is marked has arrived; what is committed does arrive; causes
  before effects; duplicates only as many as faults and relays explain.
* consumer: one inspection per request; every scheduled request gets it; what is
  passed over without one can be explained.
* listing: a walk through the pages skips no row and repeats one only for an
  insertion; what is listed to somebody is what the access to a single
  inspection allows them, though the two are written apart from each other.
* start and stop: nothing is closed under its users; exit code 0 is honest; the
  process ends; at most one message is left half handled.
* the whole: an inspection is created once, completed once with its event, and
  its event reaches Kafka.

`PROJECT.json` lists every hazard at its line with the properties about it.

## Modules

| module | models | constants and their bounds |
|---|---|---|
| `InspectionAPI` | handlers, authorisation, service, repository, domain events | requests, users, inspections, patches; each request is served once |
| `OutboxRelay` | relay, producer, outbox table and its writers | relays, rows ever inserted, batch size, writes in one call of the Kafka client, faults |
| `RequestConsumer` | consumer, deduplicator, the INSERT of Create | members, the log, faults |
| `ServerShutdown` | `main` from its first connection to the exit code, server, relay and consumer as goroutines | requests, messages, whether calls fail by themselves |
| `Listing` | the route's roles, List, its parameters, both list queries, a client that walks through the pages | rows, users and their roles, stamps, patches, the largest `int`, page sizes |
| `InspectionLifecycle` | what the service promises about one inspection (abstract) | inspections |
| `InspectService` | consumer, request path and relay over one database, composed of the three modules above | those of the parts, the operations requested and where requests fail |
| `MCInspectionAPI`, `MCRequestConsumer`, `MCListing`, `MCInspectService` | values of the constants for TLC | |
| `InspectionAPIProofs`, `InspectionEventProofs`, `OutboxRelayProofs`, `RequestConsumerProofs`, `ServerShutdownProofs`, `ListingProofs` | theorems about one module each | no bounds but those the module names |
| `InspectServiceProofs` | theorems about the composition, from those about its parts | the same |

Definitions whose comment begins with "Mutant:" are plausible bugs of the code.
No action uses them; put in the place of the definition they vary they violate
the property named in `PROJECT.json`, which shows that it can be violated.

### InspectionAPI

One action is one SQL statement with the Go code behind it up to the next
statement, so that all requests interleave between statements and nowhere else.

| in the model | in the code |
|---|---|
| `row`, `photos`, `outbox`, `outboxSeq` | the committed tables and the identity sequence |
| `lock` | the row lock of Complete's open transaction |
| `pc`, `req`, `snap`, `count`, `stamp`, `eventID`, `resp` | a request's goroutine: its place, input, what it read and computed, its answer |
| `clock` | `time.Now()`, in the microseconds that `TIMESTAMPTZ` keeps |
| `acked` | history: photos answered 201 before the request came in |
| `Dispatch`, `AuthRead` | middleware and handler up to the service call |
| `ReadRow`, `ReadPhotos` | the two statements of `repo.GetByID`, the status check, the stamps |
| `UpdateRow`, `ExistsCheck`, `InsertPhoto` | `repo.Update`, `notFoundOrConflict`, `repo.AddPhoto` |
| `TxUpdate`, `TxInsert`, `TxCommit` | the transaction of `repo.Complete` |
| `StatementFails`, `Crash` | an error of any statement (with the deferred rollback); the end of the process |
| `CreateFromRequest` | the consumer's INSERT beside the requests |

Data is abstracted: a column holds a user, a text or NULL; a patch is a function
from the columns its body has; a photo is the request that stored it. The
acknowledgement of a statement that took effect may be lost (`AnswerWritten`
answers 500 for it). UPDATE waits for the lock and re-evaluates its WHERE, as
READ COMMITTED does. Rows are never deleted by the program, so none are here.
A reading of the clock is a name, not a quantity: the code compares `updated_at`
for equality only, so that a clock that lags behind another is no case of its
own. With `SharedTicks` a reading may be any that was met before, the version
just read included (`Now`); without it every reading is new, which is what the
optimistic lock needs of the clocks of all instances.

### OutboxRelay

The transactions that write the outbox are reduced to drawing an id, committing
and rolling back, which is how `InspectionAPI` writes it (`TxInsert`,
`TxCommit`, `StatementFails`). A relay polls (`Poll`), publishes and marks row
by row (`Publish`, `Mark`), and on an error drops its batch (`PublishFails`,
`MarkFails`). The writer of `internal/outbox/producer.go:18` has no `MaxAttempts`
and so tries each message up to ten times within one call, and is not idempotent:
a call that returns nil may have stored the message more than once, and writes
may be stored after the relay has gone on (`MayStore`, `late`, `StoreLate`).
`Attempts` is that ten. `topic` counts how often Kafka holds each event.
`before` is history: the rows that were committed when a row's id was drawn. Since the only event of the
service is the completion and an inspection has one, the order per aggregate
that the code speaks of is trivial here; `CausalOrder` is the order that is not.

### RequestConsumer

The topic is one partition with its messages written in advance. A message is
reduced to whether `process` acts on it, its event and its request; malformed
and irrelevant messages are committed and skipped alike. `Fetch`, `Seen`,
`Create`, `Forget`, `Commit` are the calls of Run and process; `CallFails` is an
error of any of them, which may have taken effect, and `Crash` the end of the
process at any of them. The group (`Assign`, `Rebalance`, `TakeOver`) and the
expiry of marks (`Expire`) are external. `Exit` and `Start` are the end of a
process whose consumer has stopped and the next process; the repository has
nothing that brings them about. An event's mark expires only while no
member is at work on it: `DedupTTL` is 48 hours. A member that loses the
partition finishes its message, and may then commit an offset behind the group's.
`exposed` is history: events whose mark was left behind without a row, or was
trusted while the member that had set it was still at work.

### ServerShutdown

| in the model | in the code |
|---|---|
| `main`, `exitCode`, `open` | the place `main` has reached, the code of `os.Exit`, what is connected and not closed |
| `cancelled` | `ctx` of `signal.NotifyContext` |
| `server`, `errCh`, `request` | the goroutine of `ListenAndServe`, its channel, the requests it serves |
| `relay`, `consumer`, `begun` | the call each loop is in, and whether it began before the signal |
| `fetched`, `committed`, `marks`, `made` | the reader's place, the group's offset, the marks in Redis, the rows |
| `Connect`, `StartFails`, `Spawn` | lines 38 to 117: connections, loops, server |
| `SignalSeen`, `Drained`, `Deadline`, `ReadErr`, `WaitConsumer`, `WaitRelay`, `Close`, `Return` | the branch of the signal, and the deferred calls in reverse order |
| `RelayReturns`, `RelayCall`, `Fetch`, `ConsumerCall`, `...Fails` | the loops, one call at a time |

A call of the database or Redis that was begun when the signal comes fails with
or without effect; one begun later fails without. The reader may still return a
message it holds, and commit, for a cancelled caller. Reader and loops are not
ordered: `consumer.Close()` runs while `Run` may be in `process`.

### Listing

A row has `scheduledAt`, set at its INSERT by the clock of some process (so that
stamps are neither ordered by insertion nor distinct), and `updatedAt`. A query
picks any order that `ORDER BY scheduled_at DESC` allows, anew each time.
Roles are tested in three places, and modelled as the three: `RequireRoles` by
the route (`route.go:35`), `Plain` by `List`, `CanAccess` by what serves a single
inspection. A user is a subject with a set of roles (`RolesOf`), as combinations
are what the tests differ in. `Page`, `Limit` and `Offset` are the arithmetic of
the handler, the last in an `int` whose largest value is `MaxInt`; a negative
OFFSET is an error of PostgreSQL. `walk` is the client's: its user, the page it
asks for next, what it was shown, and the rows inserted since it began. `Ask` is
any single answer; as it changes nothing for anybody else it is considered only
while no walk is under way, once after each write.

### InspectionLifecycle and InspectService

`InspectionLifecycle` has three steps: `Schedule`, `Complete` with an event, and
`Announce`. `InspectionAPI` alone implements the first two
(`ImplementsLifecycle`); `InspectService` implements it all (`KeepsLifecycle`),
liveness of `Announce` included.

`InspectService` instantiates the three components over shared tables. A row the
consumer inserts is one the request path reads (`TableFollows` takes
`CreateFromRequest` in the same step). The transactions that `OutboxRelay` takes
for granted are not written a second time: `Tx` reads their state off the request
path, so `RelaysWriters` (the composed system is a behaviour of
`OutboxRelay!Spec`) says that the assumption of one module is what the other
does. It is not automatic: a process that dies rolls back all its transactions in
one step, and `Abort` is about a set of rows for that reason.

`Next` has every step of the three parts, rebalances and expiring marks included,
but for two bounds on requests: operations are those of `Served`, and statements
fail at the labels of `FailsAt`.

## Runs

| run | instance | states | shows |
|---|---|---|---|
| `api` | 3 requests, 2 inspectors and an appraiser, 1 inspection, 2 patches | 1.7 million | `OneEventPerCompletion`, `CompletionAnswersAreTrue`, `EventCountsAckedPhotos`, `EventNamesInspector`, `PatchKeepsOthers`, `TypeOK` |
| `api_live` | 2 requests, one user with every role | 19 thousand | `AllAnswered`, `ImplementsLifecycle` |
| `api_photos` | the same | violated | a photo is added after the completion |
| `api_shared_ticks` | 4 requests, updates and completions only | violated | a patch is lost when two requests stamp the same microsecond |
| `relay` | 2 relays, 3 rows, batches of 2, 1 fault, calls write up to twice | 1.0 million | `PublishedArrived`, `CausalOrder`, `BoundedDuplicates`, `EventuallyPublished`, `TypeOK` |
| `consumer` | 2 members, 5 messages, 3 faults | 186 thousand | `OneInspectionPerRequest`, `MarksAreBacked`, `LossIsExplained`, `ScheduledIsHandled`, `TypeOK` |
| `consumer_crash` | 1 member, 1 fault | violated | a scheduled request is committed without an inspection |
| `consumer_stop` | 2 members, 1 fault | violated | a consumer that has stopped keeps the partition, and nobody reads it |
| `shutdown` | 2 requests, 2 messages, calls may fail at any time | 80 thousand | `ResourcesOutliveUsers`, `GracefulExit`, `OneOpenMark`, `ProcessEnds`, `TypeOK` |
| `shutdown_mark` | 1 message, nothing fails but for the signal | violated | the mark of a failed create is not undone |
| `listing` | 3 rows, 3 stamps, 1 patch, 4 users, an `int` up to 31 | 221 thousand | `NoRowSkipped`, `RepeatsAreInserts`, `ListAgreesWithAccess`, `TypeOK` |
| `service` | 2 completions, 1 relay, 1 member, 3 messages, 1 fault or rebalance beside failed transactions | 654 thousand | `RelaysWriters`, `DeliveredIsRequested`, `KeepsLifecycle` |

### Why the bounds are enough

* `api`: a lost update needs a reader, a writer in between and nobody else; an
  event that is out of date needs a completion, a photo or patch in between and
  a third request that makes it possible. Three requests of any kind give all of
  these. Inspections share nothing but the outbox sequence, so one is enough.
  The two patches touch different columns, one of them the inspector.
* `api_shared_ticks` needs four: one reads, two share a stamp, one changes the
  row in between. Every behaviour of its `WritersSpec` is one of `Spec`, those
  whose clocks never go back (`SteadyClock`): equal readings alone are enough.
* `relay`: three rows and batches of two give a full batch, a rest, and a row
  that becomes visible behind published ids. The fault is a failed send with up to
  two writes that Kafka stores at any later time, a failed UPDATE or a crash; the
  other relay goes on meanwhile. Two writes are enough for a call that stores a
  message before and after it has returned. More faults and writes are left to the
  theorems, which have no bound.
* `consumer`: the log has an irrelevant message, the same event twice, two
  events of one request, and a message after them. Three faults are a crash, a
  second one of whoever takes over, and a failed call. `consumer_stop` needs one
  failed call and a second member, who gets nothing.
* `shutdown`: one request may hang and one be answered; of two messages the first
  can be committed and the second interrupted. Messages that an earlier process
  handled without committing them are in the initial states.
* `listing`: three rows make pages of one row, a last page that is not full, and
  a pair of equal stamps with a third row. The users are an inspector, one who is
  an administrator too, staff, and one without a role. Page 17 of two rows has a
  negative offset with `MaxInt = 31`, page 17 of four wraps around to 0.
* `service`: two requests and a message that is not scheduled; only completions
  are requested (`Served`), which is the operation the components share; requests
  fail in their transactions (`FailsAt`), as a failed read leaves nothing behind;
  relay and consumer have one fault or rebalance between them (`MaxFaults`), and a
  call of the Kafka client writes once. The theorems about `InspectService` are for
  every value of these constants.
* Symmetry is used only in `api` (requests) and `listing` (rows), which check no
  liveness. `CHECK_DEADLOCK FALSE` in `listing` (a walk ends, and so do the rows
  and patches of the instance) and in `service` (requests are served once, the
  log ends, and an idle relay polls without a change).

### Fairness

* `InspectionAPI`: weak fairness of each request's own step. The Go scheduler
  runs every goroutine, and a statement of the database returns. Nothing is
  assumed of clients, and a failing statement is never forced.
* `OutboxRelay`: weak fairness of each relay's step (the ticker fires for ever
  and calls return) and of the restart of a dead process. The last is left to the
  deployment: `docker-compose.yml` has no restart policy. Faults are bounded by
  `MaxFaults`: a row the brokers never take blocks all behind it, since a batch
  stops at its first error.
* `RequestConsumer`: weak fairness of each member's work and of the group's
  assignment. Neither `Exit` nor `Start` is fair: after an error
  `cmd/server/main.go:111` only logs that the consumer has stopped, and the
  process lives on with its reader in the group. So `ScheduledIsHandled` excepts
  behaviours in which all processes stay down or a stopped consumer keeps the
  partition; that the second of these happens is what `consumer_stop` shows.
* `ServerShutdown`: weak fairness of `main`, the server and each loop: goroutines
  run and calls return. Strong fairness of `RelayReturns`: with a tick and the
  cancelled context both ready, `select` picks one at random, and not for ever the
  tick. None for requests, which may hang: the deadline of ten seconds is what
  ends the process then. None for signals.
* `InspectService`: the relay's alone. `KeepsLifecycle` promises an announcement
  for what was completed, and no completion.

### Disagreements between code and text

1. `internal/service/inspection.go:142`, "once completed the inspection is
   frozen": AddPhoto checks the status and inserts later, without a guard
   (`api_photos`). The late photo is not in the event's `photo_count`.
2. `internal/service/service.go:11`, "without clobbering the others": true unless
   two requests stamp one microsecond. Then `updated_at` can return to a value
   that a third has read (a completion does not compare it at all), and the
   optimistic lock lets the third through (`api_shared_ticks`).
3. `internal/kafka/consumer.go:43`, "commits offsets only after a message is
   fully handled": a process that ends between the mark and the INSERT leaves the
   mark, and the message is skipped when it comes again (`consumer_crash`).
   `LossIsExplained` says that there is no other way to lose one.
4. `internal/kafka/consumer.go:124`, "Undo the dedup mark so redelivery reprocesses
   this event": an orderly shutdown cancels the context of the create, and Forget
   is called with the same context, so that it fails as well (`shutdown_mark`). No
   crash is needed. `OneOpenMark` says that it is one message at most.
5. `internal/kafka/consumer.go:43`, "Delivery is at-least-once", and line 63, "the
   uncommitted offset redelivers on the next start": after an error `main` logs and
   lives on, so there is no next start, and the reader keeps the partition from
   the other members (`consumer_stop`).

## Theorems

Checked by `tlapm` for any number of requests, relays, members, rows, messages
and faults, from the named assumptions on the constants only. Each module first
proves `TypeOK`, then an inductive invariant `IInv`, action by action.

* `InspectionAPIProofs`: `TypeCorrect`, `CompletionHasOneEvent`,
  `AnswersAreTrue`. `OneEventPerCompletion` alone is not inductive: that the
  commit adds the first event needs that the row is still scheduled, which holds
  because the transaction has the lock (`LocksOK`), and that a request in the
  transaction is a completion of that inspection (`FlowOK`). Answers need that
  every event's request has committed (`EventsAnswered`) and `TrueAt`, the
  promise of each label.
  `PatchesKeepOthers` assumes `~SharedTicks` and adds `VersionsOK`: a row that
  still has the version of a snapshot still has its columns, and stamps that are
  on their way are not used by anyone else.
* `InspectionEventProofs`: `EventsCountAckedPhotos`, `EventsNameInspector`,
  `LifecycleImplemented`. `Follows` says what a step of the service means for one
  request: what it knows stays or has just been read. From it: acknowledged
  photos are stored (`AckedStored`) and counted (`CountsBetween`). A row that
  canAccess found assigned stays so (`RowsNamed`), and with it every later
  snapshot (`SnapsNamed`); this needs that patches are not written from old
  snapshots, so the theorem assumes `~SharedTicks`. For the refinement, `TxCommit`
  is `Complete` and `CreateFromRequest` is `Schedule`; every other step leaves
  status and event alone. That the event of an inspection is the one just written
  needs `OneEventPerCompletion` before and after the step.
* `OutboxRelayProofs`: `TypeCorrect`, `PublishedIsArrived`, `CausalOrderKept`,
  `DuplicatesAreBounded`.
  For `CausalOrder` the invariant says that ids are drawn in order and causes have
  smaller ids (`DrawnInOrder`), that the causes of a batch's rows are in the
  batch or in Kafka (`BatchesClosed`), and that a row at its mark (`MarksFollowSends`) or a
  late send (`LateClosed`) has the causes of its event in Kafka.
  For `BoundedDuplicates` (`SendsBounded`): the writes of a row that is not marked
  are at most those of one call (`Attempts`) for each fault and each relay now at
  its mark; those of any row, with the relays that still hold it in their batches,
  at most one call for each relay and each fault.
  A poll moves a row from the first bound to the second, for those two sets of
  relays are disjoint.
* `RequestConsumerProofs`: `TypeCorrect`, `MarksBacked`, `LossExplained`,
  `OneInspection`. `BehindExplained` carries the argument: every message behind
  the one a member is at is explained, so whatever offset it commits is, and a
  take-over starts from an offset for which `LossIsExplained` says the same.
  `OwnerIsUp` keeps a process that has just started from reading at once.
* `ServerShutdownProofs`: `TypeCorrect`, `ResourcesAreOutlived`,
  `ExitIsGraceful`, `OneMarkIsOpen`. The invariant says what `main` has waited for
  at each label (`Waited`), what it has therefore not closed yet (`StillOpen`), that
  nothing runs before `Spawn`, and that a mark without an inspection belongs to a
  call that has not committed (`MarksFollow`).

* `ListingProofs`: `TypeCorrect`, `WalkSkipsNoRow`, `RepeatsArePaid`,
  `ListsAgree`. The two properties of a walk count:
  `Above(x)` is the number of rows above `x` in the strict part of the order, and
  an INSERT may raise it but nothing lowers it. A row with no twin has one place,
  so it is on the page asked for or was on one before unless the client's reach
  (`Reached`) has not come to it (`WithinTable`, `Owed`): none is skipped. For the
  repeats, each row shown again has been pushed down by an insertion of its own,
  and the pages still to come are charged for those not yet used (`Pending`,
  `Paid`). A walk ends before its offset passes the number of rows, which an `int`
  can count, so that its own offsets do not wrap (`WrappedSmall`). `ListsAgree` is
  for any users with any roles. The numbers of `Listing` are bounded by its constants `MaxInt`,
  `MaxLimit`, `MaxUpdates`, which the theorems leave arbitrary.
* `InspectServiceProofs` instantiates the proof modules of the three parts over
  the state of the service (`A`, `R`, `C`), shows that a step of the service is a
  step of each part or leaves it alone (`ApiMoves`, `RelayMoves`,
  `ConsumerMoves`), and has from there what is proved of the parts. Its
  invariant `SInv` is that of the three parts and two facts that none of them can
  state: `IdsDrawnOnce` (a request draws one outbox id at most, and no id is in
  two places, among the open transactions or in the table) and `Coupled` (the
  consumer and the requests agree on which inspections exist).
  - `WritersAreAsAssumed`: the request path's transactions are the writers
    `OutboxRelay` assumes. `TxInsertIsInsert`, `TxCommitIsCommit` and
    `RollbackIsAbort` say which steps they are, by what `Tx` shows of an id
    (`TxFacts`).
  - `PartsKeepPromisesTogether`: so nine safety properties of the parts hold in
    the service, for any number of requests, relays, members, messages and faults,
    through crashes, rebalances and expiring marks.
  - `DeliveredWasRequested`: from the event in Kafka to the row of the outbox
    (`CausalOrder`, `TxFacts`), to the completed inspection
    (`OneEventPerCompletion`), to the consumer's row (`Coupled`), to the message.
  - `ServiceKeepsLifecycle`: the safety part of `KeepsLifecycle`. A commit
    announces nothing, for its id was open and cannot have been sent; a relay
    sends rows of the outbox only (`BatchesClosed`, `LateClosed`), and since ids
    are unique that is `Announce` of one inspection.

  They assume what `InspectService` names `ConstantsAssumption`: the assumptions
  of the parts, that `MaxEvents` does not cut the requests short, and that the
  log's requests are among the inspections.

Only model-checked, since the prover handles neither fairness nor ENABLED: the
liveness properties `AllAnswered`, `EventuallyPublished`, `ScheduledIsHandled`,
`ProcessEnds` and the liveness in `KeepsLifecycle`. Every safety property of a
passing run has a theorem. `PatchesKeepOthers` and `EventsNameInspector` have the
hypothesis `~SharedTicks`, without which the first is false (`api_shared_ticks`).

## What is not modelled

* Tokens, malformed ids and bodies: refused before anything happens.
* The storage stub, the configuration, logging, the formatting of answers, the
  generated API documentation: no state, or none that anything reads.
* Several partitions: an event's key is its request, and what the properties say
  of one partition holds of each.
* An UPDATE of `published_at` that is applied after the relay has gone on: it
  would mark a row that Kafka holds, once more.
* The bytes of a photo: a photo row may exist whose upload never happened.

Observed, and not stated as properties: a patch after the completion is allowed
and may reassign the inspector the event named; `updated_at` may go backwards,
since Complete does not compare it; events leave in the order of their commits,
not in that of their ids, which are drawn before
(`migrations/000002_create_outbox_table.up.sql:3` says "insertion order"; `CausalOrder`
is what holds); rows with equal `scheduled_at` may be shown twice or not at all by
a walk through the pages, with no write between them; `(page - 1) * limit` has no
bound, and where it wraps around the answer is another page than was asked for; a
client that retries a completion whose acknowledgement was lost is
answered 422.

The rows of `PROJECT.json` whose status is `partly` leave out: the library's check
of tokens, the partitions of the producer, constant fields of the event's envelope,
and the down migrations.

## Plan

Done: the three components, the composition with its abstract specification,
listing, shutdown, and a theorem for every safety property of the passing runs.
Left:

1. Patches and photos in `service`, if a smaller consumer leaves room for them.
   The theorems about `InspectService` cover them already: `Served` and `FailsAt`
   are arbitrary.
