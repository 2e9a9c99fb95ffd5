-------------------------- MODULE OutboxRelayProofs --------------------------
(***************************************************************************)
(* PublishedArrived, CausalOrder and BoundedDuplicates hold for every      *)
(* number of relays, every batch size and every number of events and       *)
(* faults.                                                                 *)
(***************************************************************************)
EXTENDS OutboxRelay, FiniteSetTheorems, WellFoundedInduction, TLAPS

\* Ids are drawn in order, and a row knows only smaller, committed ones.
DrawnInOrder ==
    /\ \A e \in Ids : e > lastId => tx[e] = "none"
    /\ \A e \in Ids : \A f \in before[e] : f < e /\ tx[f] = "committed"

\* What a relay still has to send, or has given up on, follows what Kafka holds.
BatchesClosed ==
    \A r \in Relays : \A e \in batch[r] :
        /\ tx[e] = "committed"
        /\ before[e] \subseteq batch[r] \union Arrived

MarksFollowSends ==
    \A r \in Relays : pc[r] = "mark" => \A e \in Ids : IsNext(r, e) => e \in Arrived

LateClosed ==
    \A e \in Ids : late[e] > 0 => tx[e] = "committed" /\ before[e] \subseteq Arrived

\* The inductive invariant.
IInv ==
    /\ TypeOK
    /\ DrawnInOrder
    /\ BatchesClosed
    /\ MarksFollowSends
    /\ LateClosed
    /\ PublishedArrived
    /\ CausalOrder

-----------------------------------------------------------------------------
\* The smallest ids of S hold, with an element, every smaller element of S.
LEMMA FirstOfClosed ==
    ASSUME NEW S \in SUBSET Ids, NEW n \in Nat,
           NEW e \in FirstOf(S, n), NEW f \in S, f < e
    PROVE  f \in FirstOf(S, n)
<1> DEFINE below(x) == {g \in S : g < x}
<1>1. e \in S /\ Cardinality(below(e)) < n
  BY DEF FirstOf
<1>2. IsFiniteSet(below(e))
  <2>1. IsFiniteSet(Ids)
    BY FS_Interval, ConstantsAssumption DEF Ids, ConstantsAssumption
  <2> QED BY <2>1, FS_Subset
<1>3. below(f) \subseteq below(e)
  <2> SUFFICES ASSUME NEW g \in S, g < f PROVE g < e
    OBVIOUS
  <2> g \in Int /\ f \in Int /\ e \in Int
    BY <1>1 DEF Ids
  <2> QED OBVIOUS
<1>4. Cardinality(below(f)) <= Cardinality(below(e)) /\ IsFiniteSet(below(f))
  BY <1>2, <1>3, FS_Subset
<1>5. Cardinality(below(f)) \in Nat /\ Cardinality(below(e)) \in Nat
  BY <1>2, <1>4, FS_CardinalityType
<1> QED BY <1>1, <1>4, <1>5 DEF FirstOf

\* A poll that finds rows returns some.
LEMMA FirstOfNonempty ==
    ASSUME NEW S \in SUBSET Ids, NEW n \in Nat \ {0}
    PROVE  FirstOf(S, n) \subseteq S /\ (S # {} <=> FirstOf(S, n) # {})
<1>1. FirstOf(S, n) \subseteq S
  BY DEF FirstOf
<1>2. ASSUME S # {} PROVE FirstOf(S, n) # {}
  <2>1. \A f \in S : f \in Nat
    BY DEF Ids
  <2>2. PICK e \in S : \A f \in S : <<f, e>> \notin OpToRel(<, Nat)
    BY <1>2, <2>1, WFMin, NatLessThanWellFounded
  <2>3. \A f \in S : ~(f < e)
    <3> SUFFICES ASSUME NEW f \in S, f < e PROVE FALSE
      OBVIOUS
    <3>1. <<f, e>> \in OpToRel(<, Nat)
      BY <2>1 DEF OpToRel
    <3> QED BY <2>2, <3>1
  <2>4. Cardinality({f \in S : f < e}) = 0
    BY <2>3, FS_EmptySet
  <2> QED BY <2>4 DEF FirstOf
<1> QED BY <1>1, <1>2

\* The row a relay is at has nothing of its own past left to send.
LEMMA NextIsReady ==
    ASSUME IInv, NEW r \in Relays, NEW e \in Ids, IsNext(r, e)
    PROVE  tx[e] = "committed" /\ before[e] \subseteq Arrived
<1>1. \A f \in before[e] : f \in Ids /\ f < e
  BY DEF IInv, TypeOK, DrawnInOrder
<1>2. \A f \in batch[r] : f \in Ids /\ e <= f
  BY DEF IInv, TypeOK, IsNext
<1>3. ASSUME NEW f \in before[e] PROVE f \notin batch[r]
  <2>1. f \in Int /\ e \in Int
    BY <1>1 DEF Ids
  <2> QED BY <1>1, <1>2, <2>1
<1> QED BY <1>3 DEF IInv, BatchesClosed, IsNext

-----------------------------------------------------------------------------
\* What the writes of one call may leave under way.
LEMMA MayStoreAdds ==
    ASSUME TypeOK, NEW e \in Ids, NEW most \in {Attempts - 1, Attempts}, MayStore(e, most)
    PROVE  /\ late' \in [Ids -> Nat]
           /\ late[e] <= late'[e] /\ late'[e] <= late[e] + most
           /\ \A f \in Ids : f # e => late'[f] = late[f]
<1>1. PICK n \in 0 .. most : late' = [late EXCEPT ![e] = @ + n]
  BY DEF MayStore
<1>2. n \in Nat /\ n <= most /\ most \in Nat /\ late[e] \in Nat
  BY <1>1, ConstantsAssumption DEF ConstantsAssumption, TypeOK
<1>3. late'[e] = late[e] + n /\ \A f \in Ids : f # e => late'[f] = late[f]
  BY <1>1 DEF TypeOK
<1>4. late' \in [Ids -> Nat]
  BY <1>1, <1>2 DEF TypeOK
<1> QED BY <1>2, <1>3, <1>4

LEMMA InitIInv == Init => IInv
<1> SUFFICES ASSUME Init PROVE IInv
  OBVIOUS
<1> USE DEF Init
<1>1. TypeOK
  BY ConstantsAssumption DEF TypeOK, ConstantsAssumption
<1>2. DrawnInOrder /\ BatchesClosed /\ MarksFollowSends /\ LateClosed
  BY DEF DrawnInOrder, BatchesClosed, MarksFollowSends, LateClosed
<1>3. PublishedArrived /\ CausalOrder
  BY DEF PublishedArrived, CausalOrder, Arrived
<1> QED BY <1>1, <1>2, <1>3 DEF IInv

\* The writers: a new row knows only committed ones, and commits stand.
LEMMA WriterKeepsIInv == IInv /\ Writer => IInv'
<1> SUFFICES ASSUME IInv, Writer PROVE IInv'
  OBVIOUS
<1> USE DEF IInv
<1>1. CASE Insert
  <2> DEFINE n == lastId + 1
  <2> USE <1>1 DEF Insert
  <2>1. n \in Ids /\ lastId \in Nat
    BY ConstantsAssumption DEF ConstantsAssumption, TypeOK, Ids
  <2>2. tx[n] = "none"
    BY <2>1 DEF DrawnInOrder
  <2>3. \A e \in Ids : tx[e] = "committed" => tx'[e] = "committed" /\ e # n
    BY <2>1, <2>2 DEF TypeOK
  <2>4. \A e \in Ids : e # n => before'[e] = before[e]
    BY <2>1 DEF TypeOK
  <2>5. Arrived' = Arrived
    BY DEF Arrived
  <2>6. TypeOK'
    <3>1. lastId' \in 0 .. MaxEvents
      BY <2>1, ConstantsAssumption DEF ConstantsAssumption, Ids
    <3>2. Committed \subseteq Ids
      BY DEF Committed
    <3> QED BY <2>1, <3>1, <3>2 DEF TypeOK
  <2>7. DrawnInOrder'
    <3>1. \A e \in Ids : e \in Int
      BY DEF Ids
    <3>2. \A e \in Ids : e > n => tx'[e] = "none"
      BY <2>1, <3>1 DEF DrawnInOrder, TypeOK
    <3>3. \A f \in Committed : f \in Ids /\ tx[f] = "committed" /\ f <= lastId
      BY <2>1, <3>1 DEF Committed, DrawnInOrder, TypeOK
    <3>4. before'[n] = Committed
      BY <2>1 DEF TypeOK
    <3>5. \A f \in before'[n] : f < n /\ tx'[f] = "committed"
      BY <2>1, <2>3, <3>1, <3>3, <3>4
    <3>6. \A e \in Ids : e # n => \A f \in before'[e] : f < e /\ tx'[f] = "committed"
      BY <2>3, <2>4 DEF DrawnInOrder, TypeOK
    <3> QED BY <3>2, <3>5, <3>6 DEF DrawnInOrder
  <2>8. BatchesClosed'
    BY <2>3, <2>4, <2>5 DEF BatchesClosed, TypeOK
  <2>9. MarksFollowSends'
    BY <2>5 DEF MarksFollowSends, IsNext
  <2>10. LateClosed'
    BY <2>3, <2>4, <2>5 DEF LateClosed
  <2>11. PublishedArrived' /\ CausalOrder'
    <3>1. Arrived \subseteq Ids
      BY DEF Arrived
    <3> QED BY <2>3, <2>4, <2>5, <3>1 DEF PublishedArrived, CausalOrder
  <2> QED BY <2>6, <2>7, <2>8, <2>9, <2>10, <2>11
<1>2. CASE (\E e \in Ids : Commit(e)) \/ (\E some \in SUBSET Ids : Abort(some))
  <2>0. UNCHANGED <<lastId, published, topic, late, pc, batch, faults, before>>
    BY <1>2 DEF Commit, Abort
  <2>1. /\ \A f \in Ids : tx[f] = "committed" => tx'[f] = "committed"
        /\ \A f \in Ids : tx[f] = "none" => tx'[f] = "none"
        /\ tx' \in [Ids -> {"none", "open", "committed", "aborted"}]
    <3>1. ASSUME NEW e \in Ids, Commit(e) PROVE <2>1!:
      BY <3>1 DEF Commit, TypeOK
    <3>2. ASSUME NEW some \in SUBSET Ids, Abort(some) PROVE <2>1!:
      BY <3>2 DEF Abort, TypeOK
    <3> QED BY <1>2, <3>1, <3>2
  <2>2. Arrived' = Arrived
    BY <2>0 DEF Arrived
  <2>3. TypeOK'
    BY <2>0, <2>1 DEF TypeOK
  <2>4. DrawnInOrder'
    <3>1. \A f \in Ids : f > lastId => tx'[f] = "none"
      BY <2>1 DEF DrawnInOrder
    <3> QED BY <2>0, <2>1, <3>1 DEF DrawnInOrder, TypeOK
  <2>5. BatchesClosed' /\ MarksFollowSends'
    BY <2>0, <2>1, <2>2 DEF BatchesClosed, MarksFollowSends, IsNext, TypeOK
  <2>6. LateClosed'
    BY <2>0, <2>1, <2>2 DEF LateClosed
  <2>7. PublishedArrived' /\ CausalOrder'
    <3>1. Arrived \subseteq Ids
      BY DEF Arrived
    <3> QED BY <2>0, <2>1, <2>2, <3>1 DEF PublishedArrived, CausalOrder
  <2> QED BY <2>3, <2>4, <2>5, <2>6, <2>7
<1> QED BY <1>1, <1>2 DEF Writer

\* The relays: a poll is closed under the past, a send follows its past.
LEMMA RelayKeepsIInv ==
    ASSUME IInv, NEW r \in Relays, Relay(r) PROVE IInv'
<1> USE DEF IInv
<1>1. CASE Poll(r)
  <2> DEFINE rows == FirstOf(Unpublished, BatchSize)
  <2> USE <1>1 DEF Poll
  <2>1. Unpublished \in SUBSET Ids
    BY DEF Unpublished, Committed
  <2>2. rows \subseteq Unpublished /\ (Unpublished # {} <=> rows # {})
    BY <2>1, FirstOfNonempty, ConstantsAssumption DEF ConstantsAssumption
  <2>3. /\ batch'[r] = rows
        /\ pc'[r] = IF Unpublished = {} THEN "idle" ELSE "publish"
        /\ \A q \in Relays \ {r} : batch'[q] = batch[q] /\ pc'[q] = pc[q]
    BY DEF TypeOK
  <2>4. Arrived' = Arrived
    BY DEF Arrived
  <2>5. TypeOK'
    <3>1. batch' \in [Relays -> SUBSET Ids]
      BY <2>1, <2>2 DEF TypeOK
    <3>2. pc' \in [Relays -> {"down", "idle", "publish", "mark"}]
      BY DEF TypeOK
    <3>3. \A q \in Relays : pc'[q] \in {"publish", "mark"} <=> batch'[q] # {}
      BY <2>2, <2>3 DEF TypeOK
    <3> QED BY <3>1, <3>2, <3>3 DEF TypeOK
  <2>6. ASSUME NEW e \in rows PROVE before[e] \subseteq rows \union Arrived
    <3> SUFFICES ASSUME NEW f \in before[e], f \notin Arrived PROVE f \in rows
      OBVIOUS
    <3>1. e \in Ids
      BY <2>1, <2>2
    <3>2. f \in Ids /\ f < e /\ tx[f] = "committed"
      BY <3>1 DEF DrawnInOrder, TypeOK
    <3>3. f \in Unpublished
      BY <3>2 DEF Unpublished, Committed, PublishedArrived
    <3> QED BY <2>1, <3>2, <3>3, FirstOfClosed, ConstantsAssumption
            DEF ConstantsAssumption
  <2>7. BatchesClosed'
    <3>1. \A e \in rows : tx[e] = "committed"
      BY <2>2 DEF Unpublished, Committed
    <3>2. \A e \in batch'[r] : /\ tx'[e] = "committed"
                               /\ before'[e] \subseteq batch'[r] \union Arrived'
      BY <2>3, <2>4, <2>6, <3>1
    <3>3. \A q \in Relays \ {r} : \A e \in batch'[q] :
             tx'[e] = "committed" /\ before'[e] \subseteq batch'[q] \union Arrived'
      BY <2>3, <2>4 DEF BatchesClosed
    <3> QED BY <3>2, <3>3 DEF BatchesClosed
  <2>8. MarksFollowSends'
    BY <2>3, <2>4 DEF MarksFollowSends, IsNext
  <2>9. DrawnInOrder' /\ LateClosed' /\ PublishedArrived' /\ CausalOrder'
    BY <2>4 DEF DrawnInOrder, LateClosed, PublishedArrived, CausalOrder
  <2> QED BY <2>5, <2>7, <2>8, <2>9
<1>2. ASSUME NEW e \in Ids, Publish(r, e) PROVE IInv'
  <2> USE <1>2 DEF Publish
  <2>1. tx[e] = "committed" /\ before[e] \subseteq Arrived
    BY NextIsReady
  <2>2. Arrived' = Arrived \union {e}
    BY DEF Arrived, TypeOK
  <2>3. TypeOK'
    <3>1. topic' \in [Ids -> Nat] /\ late' \in [Ids -> Nat]
      BY MayStoreAdds DEF TypeOK
    <3>2. batch[r] # {}
      BY DEF IsNext
    <3> QED BY <3>1, <3>2 DEF TypeOK
  <2>4. BatchesClosed' /\ LateClosed' /\ DrawnInOrder'
    <3>1. \A f \in Ids : late'[f] > 0 => late[f] > 0 \/ f = e
      BY MayStoreAdds
    <3> QED BY <2>1, <2>2, <3>1 DEF BatchesClosed, LateClosed, DrawnInOrder
  <2>5. MarksFollowSends'
    <3> SUFFICES ASSUME NEW q \in Relays, pc'[q] = "mark", NEW f \in Ids, IsNext(q, f)'
                 PROVE  f \in Arrived'
      BY DEF MarksFollowSends
    <3>1. CASE q = r
      <4>1. f <= e /\ e <= f
        BY <3>1 DEF IsNext
      <4>2. f = e
        BY <4>1 DEF Ids
      <4> QED BY <2>2, <4>2
    <3>2. CASE q # r
      BY <2>2, <3>2 DEF MarksFollowSends, IsNext, TypeOK
    <3> QED BY <3>1, <3>2
  <2>6. PublishedArrived' /\ CausalOrder'
    BY <2>1, <2>2 DEF PublishedArrived, CausalOrder
  <2> QED BY <2>3, <2>4, <2>5, <2>6
<1>3. ASSUME NEW e \in Ids, Mark(r, e) PROVE IInv'
  <2> USE <1>3 DEF Mark
  <2>1. e \in Arrived
    BY DEF MarksFollowSends
  <2>2. Arrived' = Arrived
    BY DEF Arrived
  <2>3. /\ batch'[r] = batch[r] \ {e}
        /\ pc'[r] = IF batch[r] = {e} THEN "idle" ELSE "publish"
        /\ \A q \in Relays \ {r} : batch'[q] = batch[q] /\ pc'[q] = pc[q]
    BY DEF TypeOK
  <2>4. TypeOK'
    <3>1. batch' \in [Relays -> SUBSET Ids] /\ published' \subseteq Ids
      BY DEF TypeOK
    <3>2. pc' \in [Relays -> {"down", "idle", "publish", "mark"}]
      BY DEF TypeOK
    <3>3. \A q \in Relays : pc'[q] \in {"publish", "mark"} <=> batch'[q] # {}
      BY <2>3 DEF TypeOK, IsNext
    <3> QED BY <3>1, <3>2, <3>3 DEF TypeOK
  <2>5. BatchesClosed'
    <3>1. \A f \in batch'[r] : /\ tx'[f] = "committed"
                               /\ before'[f] \subseteq batch'[r] \union Arrived'
      BY <2>1, <2>2, <2>3 DEF BatchesClosed
    <3>2. \A q \in Relays \ {r} : \A f \in batch'[q] :
             tx'[f] = "committed" /\ before'[f] \subseteq batch'[q] \union Arrived'
      BY <2>2, <2>3 DEF BatchesClosed
    <3> QED BY <3>1, <3>2 DEF BatchesClosed
  <2>6. MarksFollowSends'
    BY <2>2, <2>3 DEF MarksFollowSends, IsNext
  <2>7. DrawnInOrder' /\ LateClosed' /\ PublishedArrived' /\ CausalOrder'
    BY <2>1, <2>2 DEF DrawnInOrder, LateClosed, PublishedArrived, CausalOrder
  <2> QED BY <2>4, <2>5, <2>6, <2>7
<1> QED BY <1>1, <1>2, <1>3 DEF Relay

\* Kafka stores a late send: whatever precedes it is there already.
LEMMA StoreLateKeepsIInv ==
    ASSUME IInv, NEW e \in Ids, StoreLate(e) PROVE IInv'
<1> USE DEF IInv, StoreLate
<1>1. tx[e] = "committed" /\ before[e] \subseteq Arrived
  BY DEF LateClosed
<1>2. Arrived' = Arrived \union {e}
  BY DEF Arrived, TypeOK
<1>3. TypeOK'
  BY DEF TypeOK
<1>4. LateClosed'
  <2>1. \A f \in Ids : late'[f] > 0 => late[f] > 0
    BY DEF TypeOK
  <2> QED BY <1>2, <2>1 DEF LateClosed
<1>5. BatchesClosed' /\ MarksFollowSends' /\ DrawnInOrder'
  BY <1>2 DEF BatchesClosed, MarksFollowSends, DrawnInOrder, IsNext
<1>6. PublishedArrived' /\ CausalOrder'
  BY <1>1, <1>2 DEF PublishedArrived, CausalOrder
<1> QED BY <1>3, <1>4, <1>5, <1>6

\* A relay that drops its batch, with its last send lost or late and its last
\* UPDATE applied or not.
LEMMA DropBatchKeepsIInv ==
    ASSUME IInv, NEW r \in Relays, NEW label \in {"idle", "down"},
           DropBatch(r, label), faults' \in 0 .. MaxFaults,
           \/ published' = published /\ late' = late
           \/ \E e \in Ids : /\ IsNext(r, e)
                            /\ MayStore(e, Attempts)
                            /\ published' = published
           \/ \E e \in Ids : /\ IsNext(r, e) /\ pc[r] = "mark"
                            /\ published' \in {published, published \union {e}}
                            /\ late' = late,
           UNCHANGED <<lastId, tx, topic, before>>
    PROVE  IInv'
<1> USE DEF IInv, DropBatch
<1>1. Arrived' = Arrived
  BY DEF Arrived
<1>2. /\ batch'[r] = {} /\ pc'[r] = label
      /\ \A q \in Relays \ {r} : batch'[q] = batch[q] /\ pc'[q] = pc[q]
  BY DEF TypeOK
<1>3. late' \in [Ids -> Nat] /\ published' \subseteq Ids
  BY MayStoreAdds DEF TypeOK
<1>4. TypeOK'
  <2>1. batch' \in [Relays -> SUBSET Ids]
    BY DEF TypeOK
  <2>2. pc' \in [Relays -> {"down", "idle", "publish", "mark"}]
    BY DEF TypeOK
  <2>3. \A q \in Relays : pc'[q] \in {"publish", "mark"} <=> batch'[q] # {}
    BY <1>2 DEF TypeOK
  <2> QED BY <1>3, <2>1, <2>2, <2>3 DEF TypeOK
<1>5. PublishedArrived'
  BY <1>1 DEF PublishedArrived, MarksFollowSends
<1>6. LateClosed'
  <2>1. \A e \in Ids : late'[e] > 0 => late[e] > 0 \/ IsNext(r, e)
    BY MayStoreAdds DEF TypeOK
  <2>2. \A e \in Ids : IsNext(r, e) => tx[e] = "committed" /\ before[e] \subseteq Arrived
    BY NextIsReady
  <2> QED BY <1>1, <2>1, <2>2 DEF LateClosed
<1>7. BatchesClosed' /\ MarksFollowSends'
  BY <1>1, <1>2 DEF BatchesClosed, MarksFollowSends, IsNext
<1>8. DrawnInOrder' /\ CausalOrder'
  BY <1>1 DEF DrawnInOrder, CausalOrder
<1> QED BY <1>4, <1>5, <1>6, <1>7, <1>8

LEMMA FailureKeepsIInv == IInv /\ Failure => IInv'
<1> SUFFICES ASSUME IInv, Failure PROVE IInv'
  OBVIOUS
<1>1. Fault => faults' \in 0 .. MaxFaults
  BY ConstantsAssumption DEF ConstantsAssumption, Fault, IInv, TypeOK
<1>2. ASSUME NEW r \in Relays, NEW e \in Ids, PublishFails(r, e) PROVE IInv'
  BY <1>1, <1>2, DropBatchKeepsIInv DEF PublishFails
<1>3. ASSUME NEW r \in Relays, NEW e \in Ids, MarkFails(r, e) PROVE IInv'
  BY <1>1, <1>3, DropBatchKeepsIInv DEF MarkFails
<1>4. ASSUME NEW r \in Relays, Crash(r) PROVE IInv'
  <2>1. \A e \in batch[r] : e \in Ids
    BY DEF IInv, TypeOK
  <2> QED BY <1>1, <1>4, <2>1, DropBatchKeepsIInv DEF Crash
<1> QED BY <1>2, <1>3, <1>4 DEF Failure

LEMMA StartKeepsIInv ==
    ASSUME IInv, NEW r \in Relays, Start(r) PROVE IInv'
<1> USE DEF IInv, Start
<1>1. Arrived' = Arrived
  BY DEF Arrived
<1>2. TypeOK' /\ DrawnInOrder'
  BY DEF TypeOK, DrawnInOrder
<1>3. BatchesClosed' /\ MarksFollowSends' /\ LateClosed'
  BY <1>1 DEF BatchesClosed, MarksFollowSends, LateClosed, IsNext, TypeOK
<1>4. PublishedArrived' /\ CausalOrder'
  BY <1>1 DEF PublishedArrived, CausalOrder
<1> QED BY <1>2, <1>3, <1>4

-----------------------------------------------------------------------------
LEMMA NextKeepsIInv == IInv /\ [Next]_vars => IInv'
<1> SUFFICES ASSUME IInv, [Next]_vars PROVE IInv'
  OBVIOUS
<1>1. CASE UNCHANGED vars
  BY <1>1 DEF vars, IInv, TypeOK, DrawnInOrder, BatchesClosed, MarksFollowSends,
              LateClosed, PublishedArrived, CausalOrder, Arrived, IsNext
<1>2. CASE Next
  BY <1>2, WriterKeepsIInv, RelayKeepsIInv, StartKeepsIInv, StoreLateKeepsIInv,
     FailureKeepsIInv DEF Next
<1> QED BY <1>1, <1>2

LEMMA SpecKeepsIInv == Spec => []IInv
BY InitIInv, NextKeepsIInv, PTL DEF Spec

\* The variables of the relays and the outbox keep their types, and a relay is
\* at work exactly as long as its batch has rows left.
THEOREM TypeCorrect == Spec => []TypeOK
<1>1. IInv => TypeOK
  BY DEF IInv
<1> QED BY <1>1, SpecKeepsIInv, PTL

\* No row is marked published whose event Kafka does not hold, whatever calls of
\* publishBatch fail and however many relays run.
THEOREM PublishedIsArrived == Spec => []PublishedArrived
<1>1. IInv => PublishedArrived
  BY DEF IInv
<1> QED BY <1>1, SpecKeepsIInv, PTL

\* Events reach Kafka after every event committed before they were inserted.
THEOREM CausalOrderKept == Spec => []CausalOrder
<1>1. IInv => CausalOrder
  BY DEF IInv
<1> QED BY <1>1, SpecKeepsIInv, PTL

-----------------------------------------------------------------------------
(***************************************************************************)
(* Duplicates.  A relay that holds a row may store its event once more; a  *)
(* relay that has stored it marks the row, unless a fault stops it.        *)
(***************************************************************************)
AtMark(e) == {r \in Relays : pc[r] = "mark" /\ IsNext(r, e)}
Pending(e) == {r \in Relays : e \in batch[r]} \ AtMark(e)
Sends(e) == topic[e] + late[e]

\* The writes of n calls.
Writes(n) == Attempts * n

\* Writes of a row that is not marked belong to a relay at its mark or to a fault;
\* only the relays that hold a marked row can send it again.
SendsBounded(e) ==
    /\ e \notin published => Sends(e) <= Writes(faults + Cardinality(AtMark(e)))
    /\ Sends(e) + Writes(Cardinality(Pending(e))) <= Writes(Cardinality(Relays) + faults)

DInv == TypeOK /\ \A e \in Ids : SendsBounded(e)

LEMMA WritesFacts ==
    ASSUME NEW m \in Nat, NEW n \in Nat
    PROVE  /\ Writes(m) \in Nat
           /\ Writes(m + n) = Writes(m) + Writes(n)
           /\ m <= n => Writes(m) <= Writes(n)
           /\ Writes(m + 1) = Writes(m) + Attempts
<1>1. Attempts \in Nat
  BY ConstantsAssumption DEF ConstantsAssumption
<1>2. \A k \in Nat : Attempts * k \in Nat
  BY <1>1
<1>3. Attempts * (m + n) = Attempts * m + Attempts * n
  BY <1>1
<1>4. Attempts * (m + 1) = Attempts * m + Attempts
  BY <1>1
<1>5. ASSUME m <= n PROVE Attempts * m <= Attempts * n
  <2>1. n - m \in Nat /\ m + (n - m) = n
    BY <1>5
  <2>2. Attempts * (m + (n - m)) = Attempts * m + Attempts * (n - m)
    BY <1>1, <2>1
  <2> QED BY <1>2, <2>1, <2>2
<1> QED BY <1>2, <1>3, <1>4, <1>5 DEF Writes

LEMMA RelaysCard ==
    ASSUME NEW S \in SUBSET Relays
    PROVE  IsFiniteSet(S) /\ Cardinality(S) \in Nat /\ Cardinality(Relays) \in Nat
BY ConstantsAssumption, FS_Subset, FS_CardinalityType DEF ConstantsAssumption

LEMMA DisjointRelaysCard ==
    ASSUME NEW S \in SUBSET Relays, NEW T \in SUBSET Relays, S \intersect T = {}
    PROVE  Cardinality(S) + Cardinality(T) <= Cardinality(Relays)
<1>1. Cardinality(S \union T) <= Cardinality(Relays)
  BY ConstantsAssumption, FS_Subset DEF ConstantsAssumption
<1>2. Cardinality(S \union T) = Cardinality(S) + Cardinality(T) - Cardinality(S \intersect T)
  BY RelaysCard, FS_Union
<1>3. Cardinality(S \intersect T) = 0
  BY FS_EmptySet
<1> QED BY <1>1, <1>2, <1>3, RelaysCard

LEMMA InitDInv == Init => DInv
<1> SUFFICES ASSUME Init, NEW e \in Ids PROVE SendsBounded(e)
  BY InitIInv DEF IInv, DInv
<1>1. Sends(e) = 0 /\ faults = 0 /\ Pending(e) = {}
  BY DEF Init, Sends, Pending
<1>2. Cardinality(AtMark(e)) \in Nat /\ Cardinality(Relays) \in Nat
  BY RelaysCard DEF AtMark
<1>3. Cardinality(Pending(e)) = 0
  BY <1>1, FS_EmptySet
<1>4. /\ Cardinality(Relays) + 0 \in Nat /\ 0 + Cardinality(AtMark(e)) \in Nat
      /\ Writes(0) = 0
  BY <1>2, ConstantsAssumption DEF ConstantsAssumption, Writes
<1>5. Writes(Cardinality(Relays) + 0) \in Nat /\ Writes(0 + Cardinality(AtMark(e))) \in Nat
  BY <1>4, WritesFacts
<1>6. 0 <= Writes(0 + Cardinality(AtMark(e))) /\ 0 + 0 <= Writes(Cardinality(Relays) + 0)
  BY <1>5
<1> QED BY <1>1, <1>3, <1>4, <1>6 DEF SendsBounded

\* A step that changes none of the terms of the bound, or only lowers them.
LEMMA SameSends ==
    ASSUME DInv, TypeOK', NEW e \in Ids,
           Sends(e)' = Sends(e), faults' = faults,
           AtMark(e)' = AtMark(e) \/ e \in published', published \subseteq published',
           Pending(e)' \subseteq Pending(e)
    PROVE  SendsBounded(e)'
<1>1. Cardinality(Pending(e)') <= Cardinality(Pending(e))
  BY RelaysCard, FS_Subset DEF Pending
<1>2. Sends(e) \in Nat /\ faults \in Nat
  BY DEF DInv, TypeOK, Sends
<1>3. /\ Cardinality(Pending(e)) \in Nat /\ Cardinality(Pending(e)') \in Nat
      /\ Cardinality(Relays) \in Nat
  BY RelaysCard DEF Pending
<1>4. Writes(Cardinality(Pending(e)')) <= Writes(Cardinality(Pending(e)))
  BY <1>1, <1>3, WritesFacts
<1>5. /\ Writes(Cardinality(Pending(e))) \in Nat /\ Writes(Cardinality(Pending(e)')) \in Nat
      /\ Writes(Cardinality(Relays) + faults) \in Nat
  <2>1. Cardinality(Relays) + faults \in Nat
    BY <1>2, <1>3
  <2> QED BY <1>3, <2>1, WritesFacts
<1>6. Sends(e)' + Writes(Cardinality(Pending(e)')) <= Writes(Cardinality(Relays) + faults')
  BY <1>2, <1>4, <1>5 DEF DInv, SendsBounded
<1>7. e \notin published' => Sends(e)' <= Writes(faults' + Cardinality(AtMark(e)'))
  BY DEF DInv, SendsBounded
<1> QED BY <1>6, <1>7 DEF SendsBounded

\* A poll takes rows that are not marked, so their sends are counted by AtMark.
LEMMA PollKeepsDInv ==
    ASSUME DInv, TypeOK', NEW r \in Relays, Poll(r), NEW e \in Ids
    PROVE  SendsBounded(e)'
<1>1. Sends(e)' = Sends(e) /\ faults' = faults /\ published' = published
  BY DEF Poll, Sends
<1>2. /\ r \notin AtMark(e) /\ pc'[r] # "mark"
      /\ \A q \in Relays \ {r} : pc'[q] = pc[q] /\ batch'[q] = batch[q]
  BY DEF Poll, AtMark, DInv, TypeOK
<1>3. AtMark(e)' = AtMark(e)
  BY <1>2 DEF AtMark, IsNext
<1>4. CASE e \in published
  <2>1. e \notin batch'[r]
    <3>1. batch'[r] = FirstOf(Unpublished, BatchSize)
      BY DEF Poll, DInv, TypeOK
    <3> QED BY <1>4, <3>1 DEF FirstOf, Unpublished
  <2>2. Pending(e)' \subseteq Pending(e)
    BY <1>2, <1>3, <2>1 DEF Pending
  <2> QED BY <1>1, <1>3, <2>2, SameSends
<1>5. CASE e \notin published
  <2>1. Pending(e)' \in SUBSET Relays /\ AtMark(e) \in SUBSET Relays
        /\ Pending(e)' \intersect AtMark(e) = {}
    BY <1>3 DEF Pending, AtMark
  <2>2. Cardinality(Pending(e)') + Cardinality(AtMark(e)) <= Cardinality(Relays)
    BY <2>1, DisjointRelaysCard
  <2>3. Sends(e) \in Nat /\ faults \in Nat
    BY DEF DInv, TypeOK, Sends
  <2>4. /\ Cardinality(Pending(e)') \in Nat /\ Cardinality(AtMark(e)) \in Nat
        /\ Cardinality(Relays) \in Nat
    BY <2>1, RelaysCard
  <2> DEFINE a == Cardinality(AtMark(e))
             p == Cardinality(Pending(e)')
             all == Cardinality(Relays) + faults
  <2>5. Sends(e) <= Writes(faults + a)
    BY <1>5 DEF DInv, SendsBounded
  <2>6. Writes((faults + a) + p) = Writes(faults + a) + Writes(p)
    BY <2>3, <2>4, WritesFacts
  <2>7. Writes((faults + a) + p) <= Writes(all)
    <3>1. (faults + a) + p \in Nat /\ all \in Nat /\ (faults + a) + p <= all
      BY <2>2, <2>3, <2>4
    <3> HIDE DEF a, p, all
    <3> QED BY <3>1, WritesFacts
  <2>8. Writes(faults + a) \in Nat /\ Writes(p) \in Nat /\ Writes(all) \in Nat
    <3>1. faults + a \in Nat /\ p \in Nat /\ all \in Nat
      BY <2>3, <2>4
    <3> HIDE DEF a, p, all
    <3> QED BY <3>1, WritesFacts
  <2>9. Sends(e) + Writes(p) <= Writes(all)
    BY <2>3, <2>5, <2>6, <2>7, <2>8
  <2> QED BY <1>1, <1>3, <2>5, <2>9 DEF SendsBounded
<1> QED BY <1>4, <1>5

\* A send moves its relay from those that hold the row to those at the mark.
LEMMA PublishKeepsDInv ==
    ASSUME DInv, TypeOK', NEW r \in Relays, NEW f \in Ids, Publish(r, f), NEW e \in Ids
    PROVE  SendsBounded(e)'
<1>0. /\ late'[f] <= late[f] + (Attempts - 1) /\ late' \in [Ids -> Nat]
      /\ \A g \in Ids : g # f => late'[g] = late[g]
  BY MayStoreAdds DEF Publish, DInv
<1>1. /\ faults' = faults /\ published' = published /\ batch' = batch
      /\ pc[r] = "publish" /\ pc'[r] = "mark"
      /\ \A q \in Relays \ {r} : pc'[q] = pc[q]
  BY DEF Publish, DInv, TypeOK
<1>2. IsNext(r, e) => e = f
  <2> SUFFICES ASSUME IsNext(r, e) PROVE e = f
    OBVIOUS
  <2>1. e <= f /\ f <= e
    BY DEF Publish, IsNext
  <2> QED BY <2>1 DEF Ids
<1>3. CASE e # f
  <2>1. Sends(e)' = Sends(e)
    BY <1>0, <1>3 DEF Publish, Sends, DInv, TypeOK
  <2>2. AtMark(e)' = AtMark(e)
    BY <1>1, <1>2, <1>3 DEF AtMark, IsNext
  <2>3. Pending(e)' = Pending(e)
    BY <1>1, <2>2 DEF Pending
  <2> QED BY <1>1, <2>1, <2>2, <2>3, SameSends
<1>4. CASE e = f
  <2>1. Sends(e)' <= Sends(e) + Attempts /\ Sends(e)' \in Nat
    <3>1. topic'[e] = topic[e] + 1 /\ topic[e] \in Nat /\ late[e] \in Nat /\ late'[e] \in Nat
      BY <1>0, <1>4 DEF Publish, DInv, TypeOK
    <3> QED BY <1>0, <1>4, <3>1, ConstantsAssumption DEF ConstantsAssumption, Sends
  <2>2. IsNext(r, e) /\ IsNext(r, e)'
    BY <1>1, <1>4 DEF Publish, IsNext
  <2>3. AtMark(e)' = AtMark(e) \union {r} /\ r \notin AtMark(e)
    BY <1>1, <2>2 DEF AtMark, IsNext
  <2>4. Pending(e)' = Pending(e) \ {r} /\ r \in Pending(e)
    BY <1>1, <2>2, <2>3 DEF Pending, IsNext
  <2>5. AtMark(e) \in SUBSET Relays /\ Pending(e) \in SUBSET Relays
    BY DEF AtMark, Pending
  <2>6. Cardinality(AtMark(e)') = Cardinality(AtMark(e)) + 1
    BY <2>3, <2>5, RelaysCard, FS_AddElement
  <2>7. Cardinality(Pending(e)') = Cardinality(Pending(e)) - 1
    BY <2>4, <2>5, RelaysCard, FS_RemoveElement
  <2>8. Sends(e) \in Nat /\ faults \in Nat
    BY DEF DInv, TypeOK, Sends
  <2>9. /\ Cardinality(Pending(e)) \in Nat /\ Cardinality(AtMark(e)) \in Nat
        /\ Cardinality(Relays) \in Nat
    BY <2>5, RelaysCard
  <2> DEFINE a == Cardinality(AtMark(e))
             p == Cardinality(Pending(e)')
             all == Cardinality(Relays) + faults
  <2>10. p \in Nat /\ a \in Nat /\ faults + a \in Nat /\ all \in Nat /\ Attempts \in Nat
         /\ Cardinality(Pending(e)) = p + 1
    <3>1. Pending(e)' \in SUBSET Relays
      BY <2>4, <2>5
    <3>2. p \in Nat
      BY <3>1, RelaysCard
    <3> QED BY <2>7, <2>8, <2>9, <3>2, ConstantsAssumption DEF ConstantsAssumption
  <2>11. Writes(p + 1) = Writes(p) + Attempts /\ Writes(p) \in Nat
    BY <2>10, WritesFacts
  <2>12. Writes((faults + a) + 1) = Writes(faults + a) + Attempts /\ Writes(faults + a) \in Nat
    BY <2>10, WritesFacts
  <2>13. Writes(all) \in Nat
    BY <2>10, WritesFacts
  <2>14. Sends(e)' + Writes(p) <= Writes(all)
    <3>1. Sends(e) + Writes(p + 1) <= Writes(all)
      BY <2>10 DEF DInv, SendsBounded
    <3> QED BY <2>1, <2>8, <2>10, <2>11, <2>13, <3>1
  <2>15. e \notin published' => Sends(e)' <= Writes(faults' + Cardinality(AtMark(e)'))
    <3>1. e \notin published => Sends(e) <= Writes(faults + a)
      BY DEF DInv, SendsBounded
    <3>2. faults' + Cardinality(AtMark(e)') = (faults + a) + 1
      BY <1>1, <2>6, <2>8, <2>9
    <3>3. e \notin published => Sends(e)' <= Writes(faults + a) + Attempts
      BY <2>1, <2>8, <2>10, <2>12, <3>1
    <3> HIDE DEF a
    <3> QED BY <1>1, <2>12, <3>2, <3>3
  <2> QED BY <1>1, <2>14, <2>15 DEF SendsBounded
<1> QED BY <1>3, <1>4

LEMMA MarkKeepsDInv ==
    ASSUME DInv, TypeOK', NEW r \in Relays, NEW f \in Ids, Mark(r, f), NEW e \in Ids
    PROVE  SendsBounded(e)'
<1>1. /\ Sends(e)' = Sends(e) /\ faults' = faults
      /\ published' = published \union {f}
      /\ pc[r] = "mark" /\ IsNext(r, f) /\ pc'[r] # "mark"
      /\ batch'[r] = batch[r] \ {f}
      /\ \A q \in Relays \ {r} : pc'[q] = pc[q] /\ batch'[q] = batch[q]
  BY DEF Mark, Sends, DInv, TypeOK
<1>2. IsNext(r, e) => e = f
  <2> SUFFICES ASSUME IsNext(r, e) PROVE e = f
    OBVIOUS
  <2>1. e <= f /\ f <= e
    BY <1>1 DEF IsNext
  <2> QED BY <2>1 DEF Ids
<1>3. e # f => AtMark(e)' = AtMark(e)
  BY <1>1, <1>2 DEF AtMark, IsNext
<1>4. Pending(e)' \subseteq Pending(e)
  BY <1>1, <1>2 DEF Pending, AtMark, IsNext
<1> QED BY <1>1, <1>3, <1>4, SameSends

\* A fault adds the writes of one call, or takes one relay from its mark, never both.
LEMMA DropBatchKeepsDInv ==
    ASSUME DInv, TypeOK', NEW r \in Relays, NEW label \in {"idle", "down"},
           DropBatch(r, label), faults' = faults + 1, published \subseteq published',
           topic' = topic, NEW e \in Ids,
           late'[e] \in Nat,
           late'[e] = late[e] \/ (late'[e] <= late[e] + Attempts /\ pc[r] # "mark")
    PROVE  SendsBounded(e)'
<1>1. /\ batch'[r] = {} /\ pc'[r] = label
      /\ \A q \in Relays \ {r} : batch'[q] = batch[q] /\ pc'[q] = pc[q]
  BY DEF DropBatch, DInv, TypeOK
<1>2. AtMark(e)' = AtMark(e) \ {r}
  BY <1>1 DEF AtMark, IsNext
<1>3. Pending(e)' \subseteq Pending(e)
  BY <1>1, <1>2 DEF Pending
<1>4. AtMark(e) \in SUBSET Relays /\ Pending(e) \in SUBSET Relays
  BY DEF AtMark, Pending
<1>5. Cardinality(Pending(e)') <= Cardinality(Pending(e))
  BY <1>3, <1>4, RelaysCard, FS_Subset
<1>6. /\ Cardinality(Pending(e)) \in Nat /\ Cardinality(AtMark(e)) \in Nat
      /\ Cardinality(Pending(e)') \in Nat /\ Cardinality(AtMark(e)') \in Nat
      /\ Cardinality(Relays) \in Nat
  BY <1>2, <1>3, <1>4, RelaysCard
<1>7. Cardinality(AtMark(e)') >= Cardinality(AtMark(e)) - 1
  <2>1. CASE r \in AtMark(e)
    BY <1>2, <1>4, <1>6, <2>1, RelaysCard, FS_RemoveElement
  <2>2. CASE r \notin AtMark(e)
    <3>1. AtMark(e)' = AtMark(e)
      BY <1>2, <2>2
    <3> QED BY <1>6, <3>1
  <2> QED BY <2>1, <2>2
<1>8. pc[r] # "mark" => AtMark(e)' = AtMark(e)
  BY <1>2 DEF AtMark
<1>9. Sends(e) \in Nat /\ faults \in Nat /\ topic[e] \in Nat /\ late[e] \in Nat
  BY DEF DInv, TypeOK, Sends
<1>10. SendsBounded(e)
  BY DEF DInv
<1> DEFINE a == Cardinality(AtMark(e))
           p == Cardinality(Pending(e))
           all == Cardinality(Relays) + faults
<1>11. /\ Sends(e)' \in Nat /\ Attempts \in Nat
       /\ Sends(e)' = Sends(e) \/ (Sends(e)' <= Sends(e) + Attempts /\ pc[r] # "mark")
  BY <1>9, ConstantsAssumption DEF ConstantsAssumption, Sends
<1>12. Sends(e)' + Writes(Cardinality(Pending(e)')) <= Writes(Cardinality(Relays) + faults')
  <2>1. Writes(Cardinality(Pending(e)')) <= Writes(p)
    BY <1>5, <1>6, WritesFacts
  <2>2. Writes(all + 1) = Writes(all) + Attempts
    BY <1>6, <1>9, WritesFacts
  <2>3. /\ Writes(Cardinality(Pending(e)')) \in Nat /\ Writes(p) \in Nat /\ Writes(all) \in Nat
    <3>1. p \in Nat /\ all \in Nat
      BY <1>6, <1>9
    <3> HIDE DEF p, all
    <3> QED BY <1>6, <3>1, WritesFacts
  <2>4. Sends(e) + Writes(p) <= Writes(all)
    BY <1>10 DEF SendsBounded
  <2>5. Cardinality(Relays) + faults' = all + 1
    BY <1>6, <1>9
  <2>6. Sends(e)' + Writes(Cardinality(Pending(e)')) <= Writes(all) + Attempts
    BY <1>9, <1>11, <2>1, <2>3, <2>4
  <2> HIDE DEF all
  <2> QED BY <2>2, <2>5, <2>6
<1>13. ASSUME e \notin published' PROVE Sends(e)' <= Writes(faults' + Cardinality(AtMark(e)'))
  <2>1. e \notin published /\ Sends(e) <= Writes(faults + a)
    BY <1>10, <1>13 DEF SendsBounded
  <2>2. CASE Sends(e)' = Sends(e)
    <3>1. faults' + Cardinality(AtMark(e)') \in Nat /\ faults + a \in Nat
          /\ faults + a <= faults' + Cardinality(AtMark(e)')
      BY <1>6, <1>7, <1>9
    <3>2. /\ Writes(faults + a) <= Writes(faults' + Cardinality(AtMark(e)'))
          /\ Writes(faults + a) \in Nat /\ Writes(faults' + Cardinality(AtMark(e)')) \in Nat
      BY <3>1, WritesFacts
    <3> QED BY <1>9, <2>1, <2>2, <3>2
  <2>3. CASE Sends(e)' <= Sends(e) + Attempts /\ pc[r] # "mark"
    <3>1. faults' + Cardinality(AtMark(e)') = (faults + a) + 1
      BY <1>6, <1>8, <1>9, <2>3
    <3>2. Writes((faults + a) + 1) = Writes(faults + a) + Attempts /\ Writes(faults + a) \in Nat
      BY <1>6, <1>9, WritesFacts
    <3>3. Sends(e)' <= Writes(faults + a) + Attempts
      BY <1>9, <1>11, <2>1, <2>3, <3>2
    <3> HIDE DEF a
    <3> QED BY <3>1, <3>2, <3>3
  <2> QED BY <1>11, <2>2, <2>3
<1> QED BY <1>12, <1>13 DEF SendsBounded

LEMMA FailureKeepsDInv ==
    ASSUME DInv, TypeOK', Failure, NEW e \in Ids
    PROVE  SendsBounded(e)'
<1>1. ASSUME NEW f \in Ids, MayStore(f, Attempts)
      PROVE  late'[e] \in Nat /\ (late'[e] = late[e] \/ late'[e] <= late[e] + Attempts)
  BY <1>1, MayStoreAdds DEF DInv
<1>2. ASSUME NEW r \in Relays, NEW f \in Ids, PublishFails(r, f) PROVE SendsBounded(e)'
  <2>1. late'[e] \in Nat /\ (late'[e] = late[e] \/ late'[e] <= late[e] + Attempts)
    BY <1>1, <1>2 DEF PublishFails
  <2> QED BY <1>2, <2>1, DropBatchKeepsDInv DEF PublishFails, Fault
<1>3. ASSUME NEW r \in Relays, NEW f \in Ids, MarkFails(r, f) PROVE SendsBounded(e)'
  <2>1. published \subseteq published' /\ late' = late /\ late'[e] \in Nat
    BY <1>3 DEF MarkFails, DInv, TypeOK
  <2> QED BY <1>3, <2>1, DropBatchKeepsDInv DEF MarkFails, Fault
<1>4. ASSUME NEW r \in Relays, Crash(r) PROVE SendsBounded(e)'
  <2>1. DropBatch(r, "down") /\ faults' = faults + 1 /\ topic' = topic
    BY <1>4 DEF Crash, Fault
  <2>2. published \subseteq published'
    BY <1>4 DEF Crash
  <2>3. /\ late'[e] \in Nat
        /\ late'[e] = late[e] \/ (late'[e] <= late[e] + Attempts /\ pc[r] # "mark")
    <3>1. \A f \in batch[r] : f \in Ids
      BY DEF DInv, TypeOK
    <3>2. late[e] \in Nat
      BY DEF DInv, TypeOK
    <3> QED BY <1>1, <1>4, <3>1, <3>2 DEF Crash
  <2> QED BY <2>1, <2>2, <2>3, DropBatchKeepsDInv
<1> QED BY <1>2, <1>3, <1>4 DEF Failure

LEMMA NextKeepsDInv == DInv /\ TypeOK' /\ [Next]_vars => DInv'
<1> SUFFICES ASSUME DInv, TypeOK', [Next]_vars, NEW e \in Ids PROVE SendsBounded(e)'
  BY DEF DInv
<1>1. CASE Writer \/ UNCHANGED vars
  <2>1. UNCHANGED <<published, topic, late, pc, batch, faults>>
    BY <1>1 DEF Writer, Insert, Commit, Abort, vars
  <2>2. Sends(e)' = Sends(e) /\ AtMark(e)' = AtMark(e) /\ Pending(e)' = Pending(e)
    BY <2>1 DEF Sends, AtMark, Pending, IsNext
  <2> QED BY <2>1, <2>2, SameSends
<1>2. ASSUME NEW r \in Relays, Relay(r) PROVE SendsBounded(e)'
  BY <1>2, PollKeepsDInv, PublishKeepsDInv, MarkKeepsDInv DEF Relay
<1>3. ASSUME NEW r \in Relays, Start(r) PROVE SendsBounded(e)'
  <2>1. UNCHANGED <<published, topic, late, batch, faults>>
        /\ \A q \in Relays : pc'[q] = "mark" <=> pc[q] = "mark"
    BY <1>3 DEF Start, DInv, TypeOK
  <2>2. Sends(e)' = Sends(e) /\ AtMark(e)' = AtMark(e) /\ Pending(e)' = Pending(e)
    BY <2>1 DEF Sends, AtMark, Pending, IsNext
  <2> QED BY <2>1, <2>2, SameSends
<1>4. ASSUME NEW f \in Ids, StoreLate(f) PROVE SendsBounded(e)'
  <2>1. UNCHANGED <<published, pc, batch, faults>>
    BY <1>4 DEF StoreLate
  <2>2. Sends(e)' = Sends(e)
    BY <1>4 DEF StoreLate, Sends, DInv, TypeOK
  <2>3. AtMark(e)' = AtMark(e) /\ Pending(e)' = Pending(e)
    BY <2>1 DEF AtMark, Pending, IsNext
  <2> QED BY <2>1, <2>2, <2>3, SameSends
<1>5. CASE Failure
  BY <1>5, FailureKeepsDInv
<1> QED BY <1>1, <1>2, <1>3, <1>4, <1>5 DEF Next

\* Kafka holds an event no oftener than the writes of one call for each relay and
\* each fault, whatever the relays have in hand and whichever writes come late.
THEOREM DuplicatesAreBounded == Spec => []BoundedDuplicates
<1>1. DInv => BoundedDuplicates
  <2> SUFFICES ASSUME DInv, NEW e \in Ids
               PROVE  topic[e] + late[e] <= Attempts * (Cardinality(Relays) + faults)
    BY DEF BoundedDuplicates
  <2>1. Cardinality(Pending(e)) \in Nat /\ Cardinality(Relays) \in Nat
    BY RelaysCard DEF Pending
  <2>2. topic[e] \in Nat /\ late[e] \in Nat /\ faults \in Nat
    BY DEF DInv, TypeOK
  <2>3. /\ Writes(Cardinality(Pending(e))) \in Nat
        /\ Writes(Cardinality(Relays) + faults) \in Nat
    <3>1. Cardinality(Relays) + faults \in Nat
      BY <2>1, <2>2
    <3> QED BY <2>1, <3>1, WritesFacts
  <2>4. Sends(e) <= Writes(Cardinality(Relays) + faults)
    BY <2>2, <2>3 DEF DInv, SendsBounded, Sends
  <2> QED BY <2>4 DEF Writes, Sends
<1> QED BY <1>1, InitDInv, NextKeepsDInv, TypeCorrect, PTL DEF Spec

=============================================================================
