-------------------------- MODULE MCRequestConsumer --------------------------
(***************************************************************************)
(* Instances of RequestConsumer for TLC.                                   *)
(***************************************************************************)
EXTENDS RequestConsumer

Scheduled(e, r) == [scheduled |-> TRUE, event |-> e, request |-> r]
Other(e, r) == [scheduled |-> FALSE, event |-> e, request |-> r]

\* A request scheduled, another one's irrelevant event, the first event again,
\* a second scheduling of the first request, and another request.
MCLog == <<Scheduled("e1", "r1"), Other("e2", "r2"), Scheduled("e1", "r1"),
           Scheduled("e3", "r1"), Scheduled("e4", "r3")>>
=============================================================================
