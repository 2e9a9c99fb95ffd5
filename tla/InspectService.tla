---------------------------- MODULE InspectService ----------------------------
(***************************************************************************)
(* The service as a whole: consumer, request path and relay over one       *)
(* database.  The three modules meet in two tables:                        *)
(*   - inspections: the consumer's INSERT is the request path's            *)
(*     CreateFromRequest;                                                  *)
(*   - outbox: the transactions the relay reads behind are those of the    *)
(*     request path.  They are not written again here but read off its     *)
(*     state (Tx), so that it has to be checked that they are what         *)
(*     OutboxRelay takes them for (RelaysWriters).                         *)
(***************************************************************************)
EXTENDS Naturals, Sequences, FiniteSets

CONSTANTS
    Procs, Users, RolesOf, Inspections, Texts, Patches, SharedTicks, Nil,
    Relays, MaxEvents, BatchSize, Attempts,
    Consumers, Log, None,
    MaxFaults,  \* bound: faults of relays and consumers together
    Served,     \* bound: the operations that are requested
    FailsAt     \* bound: the statements of a request that fail

VARIABLES
    row, photos, outbox, outboxSeq, lock, clock, apiPc, req, snap, count, stamp,
    eventID, resp, acked,
    published, topic, late, relayPc, batch, relayFaults, before,
    committed, owner, position, consumerPc, marks, inspections, consumerFaults,
    exposed

apiVars == <<row, photos, outbox, outboxSeq, lock, clock, apiPc, req, snap, count,
             stamp, eventID, resp, acked>>
relayVars == <<published, topic, late, relayPc, batch, relayFaults>>
consumerVars == <<committed, owner, position, consumerPc, marks, inspections,
                  consumerFaults, exposed>>
vars == <<apiVars, relayVars, before, consumerVars>>

\* The transaction that draws id e, as the request path's state shows it.
Tx == [e \in 1 .. MaxEvents |->
         CASE \E ev \in outbox : ev.id = e -> "committed"
           [] \E p \in Procs : apiPc[p] = "txCommit" /\ eventID[p] = e -> "open"
           [] e > outboxSeq -> "none"
           [] OTHER -> "aborted"]

API == INSTANCE InspectionAPI WITH pc <- apiPc
Relay == INSTANCE OutboxRelay WITH
    lastId <- outboxSeq, tx <- Tx, pc <- relayPc, faults <- relayFaults
Consumer == INSTANCE RequestConsumer WITH
    pc <- consumerPc, faults <- consumerFaults

\* A request draws one outbox id at most, so that MaxEvents cuts nothing off.
ASSUME ConstantsAssumption ==
    /\ API!ConstantsAssumption /\ Relay!ConstantsAssumption /\ Consumer!ConstantsAssumption
    /\ Cardinality(Procs) <= MaxEvents
    /\ Consumer!Requests \subseteq Inspections

Init ==
    /\ API!Init /\ Relay!Init /\ Consumer!Init
    /\ \A i \in Inspections : row[i] = API!NoRow

-----------------------------------------------------------------------------
\* Beside a step of the request path; before is OutboxRelay's history variable.
OthersRest ==
    /\ before' = [e \in 1 .. MaxEvents |->
                    IF outboxSeq < e /\ e <= outboxSeq' THEN Relay!Committed ELSE before[e]]
    /\ UNCHANGED <<relayVars, consumerVars>>

Dispatch(p) == API!Dispatch(p) /\ req'[p].op \in Served /\ OthersRest
Serve(p) == API!Step(p) /\ OthersRest

RequestFails(p) == apiPc[p] \in FailsAt /\ API!StatementFails(p) /\ OthersRest
RequestsLost == (\E p \in Procs : apiPc[p] \in FailsAt) /\ API!Crash /\ OthersRest

FaultsBounded == relayFaults' + consumerFaults' <= MaxFaults

PublishRows(r) == UNCHANGED <<apiVars, consumerVars>> /\ Relay!Relay(r)
RestartRelay(r) == UNCHANGED <<apiVars, consumerVars>> /\ Relay!Start(r)
RelayFails == UNCHANGED <<apiVars, consumerVars>> /\ Relay!Failure /\ FaultsBounded
StoreLate(e) == UNCHANGED <<apiVars, consumerVars>> /\ Relay!StoreLate(e)

\* A row that the consumer's INSERT adds is one the request path can read.
TableFollows ==
    /\ UNCHANGED <<relayVars, before>>
    /\ IF inspections' = inspections
         THEN UNCHANGED apiVars
         ELSE \E new \in inspections' \ inspections : API!CreateFromRequest(new.request)

Consume(c) == Consumer!Work(c) /\ TableFollows
Restart(c) == (Consumer!Start(c) \/ Consumer!Exit(c)) /\ TableFollows
Assign(c) == Consumer!Assign(c) /\ TableFollows
Rebalance(c) == Consumer!Rebalance(c) /\ TableFollows /\ FaultsBounded
Expire(e) == Consumer!Expire(e) /\ TableFollows
ConsumerFails(c) == (Consumer!CallFails(c) \/ Consumer!Crash(c)) /\ TableFollows /\ FaultsBounded

\* Every step of the three parts, the steps of OutboxRelay's writers being those of
\* the request path.  When requests are over and messages read, the relay's ticks
\* alone go on.
Next ==
    \/ \E p \in Procs : Dispatch(p) \/ Serve(p) \/ RequestFails(p)
    \/ RequestsLost
    \/ \E r \in Relays : PublishRows(r) \/ RestartRelay(r)
    \/ RelayFails
    \/ \E e \in 1 .. MaxEvents : StoreLate(e)
    \/ \E c \in Consumers :
         Consume(c) \/ Restart(c) \/ Assign(c) \/ Rebalance(c) \/ ConsumerFails(c)
    \/ \E e \in Consumer!Events : Expire(e)

\* Of the parts' fairness the relay's is enough, its restart included: what is not
\* yet completed need not be announced.
FairSpec ==
    /\ Init /\ [][Next]_vars
    /\ \A r \in Relays : WF_vars(PublishRows(r)) /\ WF_vars(RestartRelay(r))

-----------------------------------------------------------------------------
(***************************************************************************)
(* Properties.                                                             *)
(***************************************************************************)

\* The request path fills the outbox as OutboxRelay assumes of its writers: ids
\* are drawn in order, a row appears by the commit of the transaction that drew
\* its id, a rollback leaves a gap and nothing is taken back.
RelaysWriters == Relay!Spec

\* Kafka holds events of completed inspections only, as they were completed, and
\* each goes back to a scheduled message of request.events.
DeliveredIsRequested ==
    \A e \in Relay!Arrived : \E ev \in outbox, k \in 1 .. Len(Log) :
        /\ ev.id = e
        /\ row[ev.insp].status = "completed" /\ row[ev.insp].completedAt = ev.completedAt
        /\ Log[k].scheduled /\ Log[k].request = ev.insp

NoEvent == [id |-> 0]
Life == INSTANCE InspectionLifecycle WITH
    Payloads <- API!Event,
    status <- [i \in Inspections |-> row[i].status],
    event <- [i \in Inspections |->
                IF \E ev \in outbox : ev.insp = i
                THEN CHOOSE ev \in outbox : ev.insp = i ELSE NoEvent],
    announced <- {ev.insp : ev \in {ev \in outbox : topic[ev.id] > 0}}

\* The service as its neighbours see it: an inspection is created once, completed
\* once and together with its event, the event never changes, and a completed
\* inspection is announced in the end (ADR-007's outbox, end to end).
KeepsLifecycle == Life!LiveSpec

=============================================================================
