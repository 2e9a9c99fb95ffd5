------------------------ MODULE RequestConsumerProofs ------------------------
(***************************************************************************)
(* For any log, any number of members and any number of faults, an offset  *)
(* is committed over a request without an inspection only if its mark was  *)
(* left behind or trusted early.                                           *)
(***************************************************************************)
EXTENDS RequestConsumer, FiniteSetTheorems, TLAPS

Busy == {"seen", "create", "forget", "commit"}

\* What LossIsExplained asks of one offset.
Explained(k) == Handled(k) \/ Log[k].event \in exposed

\* A member has only explained messages behind it.
BehindExplained ==
    \A c \in Consumers :
        /\ pc[c] \in Busy => \A k \in 1 .. (position[c] - 1) : Explained(k)
        /\ pc[c] = "commit" => Explained(position[c])
        /\ pc[c] = "fetch" /\ owner = c => \A k \in 1 .. position[c] : Explained(k)

\* A member that is down holds no partition.
OwnerIsUp == \A c \in Consumers : owner = c => pc[c] # "down"

\* The inductive invariant.
IInv ==
    /\ TypeOK
    /\ OwnerIsUp
    /\ MarksAreBacked
    /\ BehindExplained
    /\ LossIsExplained

-----------------------------------------------------------------------------
\* The types of the log and of a member's message.
LEMMA LogType ==
    /\ Len(Log) \in Nat
    /\ \A k \in Offsets : /\ k \in Nat /\ k >= 1 /\ k <= Len(Log)
                          /\ Log[k].event \in Events
                          /\ Log[k].request \in Requests
                          /\ Log[k].scheduled \in BOOLEAN
<1> DEFINE M == [scheduled : BOOLEAN, event : STRING, request : STRING]
<1>1. Log \in Seq(M)
  BY ConstantsAssumption DEF ConstantsAssumption
<1> HIDE DEF M
<1>2. Len(Log) \in Nat /\ \A k \in 1 .. Len(Log) : Log[k] \in M
  BY <1>1
<1>3. \A m \in M : m.scheduled \in BOOLEAN
  BY DEF M
<1> QED BY <1>2, <1>3 DEF Offsets, Events, Requests

LEMMA CurrentType ==
    ASSUME TypeOK, NEW c \in Consumers, pc[c] \in Busy
    PROVE  /\ position[c] \in Offsets
           /\ Event(c) \in Events /\ Event(c) = Log[position[c]].event
           /\ Current(c).request \in Requests
           /\ pc[c] # "commit" => Current(c).scheduled
<1>1. position[c] \in Offsets
  BY LogType DEF TypeOK, Offsets, Busy
<1> QED BY <1>1, LogType DEF Event, Current, TypeOK, Busy

\* Inspections and the record of exposed events only grow, so what is explained
\* stays explained.
LEMMA StaysExplained ==
    ASSUME inspections \subseteq inspections', exposed \subseteq exposed', NEW k
    PROVE  /\ Handled(k) => Handled(k)'
           /\ Explained(k) => Explained(k)'
BY DEF Explained, Handled, HasInspection

\* What an INSERT leaves.
LEMMA InsertedFacts ==
    ASSUME TypeOK, NEW c \in Consumers, pc[c] = "create"
    PROVE  /\ inspections \subseteq Inserted(c)
           /\ \E i \in Inserted(c) : i.request = Current(c).request
           /\ Inserted(c) \subseteq [id : Nat, request : Requests]
           /\ IsFiniteSet(Inserted(c))
<1>1. CASE HasInspection(Current(c).request)
  BY <1>1 DEF Inserted, HasInspection, TypeOK
<1>2. CASE ~HasInspection(Current(c).request)
  <2>1. Inserted(c) = inspections \union {NewInspection(c)}
    BY <1>2 DEF Inserted
  <2>2. Cardinality(inspections) \in Nat
    BY FS_CardinalityType DEF TypeOK
  <2>3. /\ NewInspection(c) \in [id : Nat, request : Requests]
        /\ NewInspection(c).request = Current(c).request
    BY <2>2, CurrentType DEF NewInspection, Busy
  <2>4. IsFiniteSet(inspections \union {NewInspection(c)})
    BY FS_AddElement DEF TypeOK
  <2> QED BY <2>1, <2>3, <2>4 DEF TypeOK
<1> QED BY <1>1, <1>2

-----------------------------------------------------------------------------
LEMMA InitIInv == Init => IInv
<1> SUFFICES ASSUME Init PROVE IInv
  OBVIOUS
<1>1. TypeOK
  BY ConstantsAssumption, LogType, FS_EmptySet
     DEF ConstantsAssumption, Init, TypeOK, Labels
<1>2. MarksAreBacked /\ BehindExplained /\ LossIsExplained
  BY DEF Init, MarksAreBacked, BehindExplained, LossIsExplained, Busy
<1>3. OwnerIsUp
  BY ConstantsAssumption DEF ConstantsAssumption, Init, OwnerIsUp
<1> QED BY <1>1, <1>2, <1>3 DEF IInv

\* Every step keeps the types.
LEMMA NextType == TypeOK /\ [Next]_vars => TypeOK'
<1> SUFFICES ASSUME TypeOK, [Next]_vars PROVE TypeOK'
  OBVIOUS
<1>l. Len(Log) \in Nat
  BY LogType
<1>1. ASSUME NEW c \in Consumers, Fetch(c) PROVE TypeOK'
  <2>1. position[c] + 1 \in Offsets
    BY <1>l, <1>1 DEF Fetch, TypeOK, Offsets
  <2>2. position' \in [Consumers -> 0 .. Len(Log)] /\ pc' \in [Consumers -> Labels]
    BY <1>l, <1>1, <2>1 DEF Fetch, TypeOK, Goto, Labels, Offsets
  <2>3. \A d \in Consumers :
           /\ pc'[d] \in {"seen", "create", "forget", "commit"} => position'[d] # 0
           /\ pc'[d] \in {"seen", "create", "forget"} => Log[position'[d]].scheduled
    BY <1>l, <1>1, <2>1 DEF Fetch, TypeOK, Goto, Offsets
  <2> QED BY <1>1, <2>2, <2>3 DEF Fetch, TypeOK
<1>2. ASSUME NEW c \in Consumers, Seen(c) PROVE TypeOK'
  <2>1. Event(c) \in Events
    BY <1>2, CurrentType DEF Seen, Busy
  <2>2. marks' \subseteq Events /\ exposed' \subseteq Events
    BY <1>2, <2>1 DEF Seen, TypeOK
  <2>3. pc' \in [Consumers -> Labels] /\ UNCHANGED position
    BY <1>2 DEF Seen, TypeOK, Goto, Labels
  <2>4. \A d \in Consumers : pc'[d] \in Busy => pc[d] \in Busy
                         /\ (pc[d] \in Busy \ {"commit"} \/ pc'[d] = "commit")
    BY <1>2 DEF Seen, TypeOK, Goto, Busy
  <2> QED BY <1>2, <2>2, <2>3, <2>4 DEF Seen, TypeOK, Busy
<1>3. ASSUME NEW c \in Consumers, Create(c) PROVE TypeOK'
  BY <1>3, InsertedFacts DEF Create, TypeOK, Goto, Labels
<1>4. ASSUME NEW c \in Consumers, Forget(c) PROVE TypeOK'
  BY <1>4 DEF Forget, TypeOK, Goto, Labels
<1>5. ASSUME NEW c \in Consumers, Commit(c) PROVE TypeOK'
  BY <1>5 DEF Commit, TypeOK, Goto, Labels
<1>6. ASSUME NEW c \in Consumers, CallFails(c) \/ Crash(c) PROVE TypeOK'
  <2>1. /\ pc[c] \notin {"down", "stopped"} /\ Fault /\ MaybeDone(c)
        /\ UNCHANGED position
        /\ owner' \in {owner, None}
        /\ \E l \in {AfterError(pc[c]), "down"} : pc' = [pc EXCEPT ![c] = l]
        /\ \E s \in SUBSET Labels : exposed' = exposed \union LeftBehind(c, s)
    BY <1>6 DEF CallFails, Crash, Goto, Labels
  <2>2. pc[c] \in {"seen", "create", "forget"} => Event(c) \in Events
    BY CurrentType DEF Busy
  <2>3. marks' \subseteq Events
    BY <2>1, <2>2 DEF MaybeDone, TypeOK
  <2>4. exposed' \subseteq Events
    BY <2>1, <2>3 DEF LeftBehind, TypeOK
  <2>5. inspections' \subseteq [id : Nat, request : Requests] /\ IsFiniteSet(inspections')
    BY <2>1, InsertedFacts DEF MaybeDone, TypeOK
  <2>6. committed' \in 0 .. Len(Log) /\ faults' \in 0 .. MaxFaults
    BY <2>1, ConstantsAssumption DEF MaybeDone, Fault, TypeOK, ConstantsAssumption
  <2>7. pc' \in [Consumers -> Labels]
    BY <2>1 DEF TypeOK, AfterError, Labels
  <2>8. \A d \in Consumers :
           /\ pc'[d] \in {"seen", "create", "forget", "commit"} => position[d] # 0
           /\ pc'[d] \in {"seen", "create", "forget"} => Log[position[d]].scheduled
    BY <2>1 DEF TypeOK, AfterError
  <2> QED BY <2>1, <2>3, <2>4, <2>5, <2>6, <2>7, <2>8 DEF TypeOK
<1>7. ASSUME NEW c \in Consumers, Exit(c) \/ Start(c) PROVE TypeOK'
  BY <1>7 DEF Exit, Start, TypeOK, Goto, Labels
<1>8. ASSUME NEW c \in Consumers, Assign(c) \/ Rebalance(c) PROVE TypeOK'
  BY <1>8, ConstantsAssumption
     DEF Assign, Rebalance, TakeOver, Fault, TypeOK, ConstantsAssumption
<1>9. ASSUME NEW e \in Events, Expire(e) PROVE TypeOK'
  BY <1>9 DEF Expire, TypeOK
<1>10. CASE UNCHANGED vars
  BY <1>10 DEF vars, TypeOK
<1> QED BY <1>1, <1>2, <1>3, <1>4, <1>5, <1>6, <1>7, <1>8, <1>9, <1>10
        DEF Next, Work, Quiet

-----------------------------------------------------------------------------
(***************************************************************************)
(* Each action keeps the invariant.                                        *)
(***************************************************************************)

\* A mark that is neither added nor given up by c stays backed.
LEMMA StaysBacked ==
    ASSUME IInv, NEW c \in Consumers, NEW k \in Offsets,
           inspections \subseteq inspections', exposed \subseteq exposed',
           Log[k].scheduled, Log[k].event \in marks,
           \A d \in Consumers \ {c} : pc'[d] = pc[d] /\ position'[d] = position[d],
           ~Holds(c, Log[k].event) \/ Holds(c, Log[k].event)'
    PROVE  Handled(k)' \/ Claimed(Log[k].event)' \/ Log[k].event \in exposed'
<1>1. CASE Handled(k) \/ Log[k].event \in exposed
  BY <1>1, StaysExplained
<1>2. CASE Claimed(Log[k].event)
  <2>1. PICK d \in Consumers : Holds(d, Log[k].event)
    BY <1>2 DEF Claimed
  <2>2. Holds(d, Log[k].event)'
    <3>1. CASE d = c
      BY <2>1, <3>1
    <3>2. CASE d # c
      BY <2>1, <3>2 DEF Holds, Event, Current
    <3> QED BY <3>1, <3>2
  <2> QED BY <2>2 DEF Claimed
<1> QED BY <1>1, <1>2 DEF IInv, MarksAreBacked

LEMMA FetchInv == ASSUME IInv, NEW c \in Consumers, Fetch(c), TypeOK' PROVE IInv'
<1>1. /\ pc[c] = "fetch" /\ owner = c /\ position[c] < Len(Log)
      /\ position' = [position EXCEPT ![c] = @ + 1]
      /\ UNCHANGED <<committed, owner, marks, inspections, faults, exposed>>
      /\ \A d \in Consumers \ {c} : pc'[d] = pc[d] /\ position'[d] = position[d]
      /\ position[c] \in Nat /\ position'[c] = position[c] + 1
      /\ pc'[c] = (IF Log[position[c] + 1].scheduled THEN "seen" ELSE "commit")
  BY LogType DEF Fetch, Goto, IInv, TypeOK
<1>2. \A k : (Handled(k) => Handled(k)') /\ (Explained(k) => Explained(k)')
  BY <1>1, StaysExplained
<1>3. MarksAreBacked'
  BY <1>1, StaysBacked DEF MarksAreBacked, Holds
<1>4. \A k \in 1 .. position[c] : Explained(k)'
  BY <1>1, <1>2 DEF IInv, BehindExplained
<1>5. pc'[c] = "commit" => Explained(position[c])'
  BY <1>1 DEF Explained, Handled
<1>6. BehindExplained'
  <2>1. \A k \in 1 .. (position'[c] - 1) : Explained(k)'
    BY <1>1, <1>4
  <2>2. pc'[c] # "fetch"
    BY <1>1
  <2>3. ASSUME NEW d \in Consumers \ {c}
        PROVE  /\ pc'[d] \in Busy => \A k \in 1 .. (position'[d] - 1) : Explained(k)'
               /\ pc'[d] = "commit" => Explained(position[d])'
               /\ pc'[d] = "fetch" /\ owner' = d => \A k \in 1 .. position'[d] : Explained(k)'
    <3>1. pc'[d] = pc[d] /\ position'[d] = position[d] /\ owner' = owner
      BY <1>1
    <3>2. Explained(position[d]) => Explained(position[d])'
      BY <1>2, <3>1 DEF Explained, Handled
    <3> QED BY <1>2, <3>1, <3>2 DEF IInv, BehindExplained
  <2> QED BY <1>5, <2>1, <2>2, <2>3 DEF BehindExplained
<1>7. LossIsExplained' /\ OwnerIsUp'
  BY <1>1, <1>2 DEF IInv, LossIsExplained, Explained, OwnerIsUp
<1> QED BY <1>3, <1>6, <1>7 DEF IInv

LEMMA SeenInv == ASSUME IInv, NEW c \in Consumers, Seen(c), TypeOK' PROVE IInv'
<1>1. /\ pc[c] = "seen"
      /\ UNCHANGED <<committed, owner, position, inspections, faults>>
      /\ \A d \in Consumers \ {c} : pc'[d] = pc[d] /\ position'[d] = position[d]
      /\ exposed \subseteq exposed'
  BY DEF Seen, Goto, IInv, TypeOK
<1>2. \A k : (Handled(k) => Handled(k)') /\ (Explained(k) => Explained(k)')
  BY <1>1, StaysExplained
<1>3. /\ position[c] \in Offsets /\ Event(c) = Log[position[c]].event
      /\ Log[position[c]].scheduled
  BY <1>1, CurrentType DEF IInv, Busy, Current
<1>4. ~Holds(c, Event(c)) /\ \A e : ~Holds(c, e)
  BY <1>1 DEF Holds
<1>5. CASE /\ Event(c) \notin marks
           /\ marks' = marks \union {Event(c)}
           /\ Goto(c, "create")
  <2>1. pc'[c] = "create"
    BY <1>5 DEF Goto, IInv, TypeOK
  <2>2. Claimed(Event(c))'
    BY <1>1, <2>1 DEF Claimed, Holds, Event, Current
  <2>3. ASSUME NEW k \in Offsets, Log[k].scheduled, Log[k].event \in marks'
        PROVE  Handled(k)' \/ Claimed(Log[k].event)' \/ Log[k].event \in exposed'
    <3>1. CASE Log[k].event = Event(c)
      BY <1>1, <2>1, <3>1 DEF Claimed, Holds, Event, Current
    <3>2. CASE Log[k].event \in marks
      BY <1>1, <1>4, <2>3, <3>2, StaysBacked
    <3> QED BY <1>5, <2>3, <3>1, <3>2
  <2>4. BehindExplained'
    BY <1>1, <1>2, <2>1 DEF IInv, BehindExplained, Busy
  <2>5. LossIsExplained' /\ OwnerIsUp'
    BY <1>1, <1>2, <2>1 DEF IInv, LossIsExplained, Explained, OwnerIsUp
  <2> QED BY <2>3, <2>4, <2>5 DEF IInv, MarksAreBacked
<1>6. CASE /\ Event(c) \in marks
           /\ Goto(c, "commit")
           /\ exposed' = exposed \union {e \in {Event(c)} : Claimed(e)}
           /\ UNCHANGED marks
  <2>1. pc'[c] = "commit"
    BY <1>6 DEF Goto, IInv, TypeOK
  <2>2. Handled(position[c]) \/ Claimed(Event(c)) \/ Event(c) \in exposed
    BY <1>3, <1>6 DEF IInv, MarksAreBacked
  <2>3. Explained(position[c])'
    BY <1>1, <1>3, <1>6, <2>2 DEF Explained, Handled, HasInspection
  <2>4. MarksAreBacked'
    BY <1>1, <1>4, <1>6, StaysBacked DEF MarksAreBacked
  <2>5. BehindExplained'
    BY <1>1, <1>2, <2>1, <2>3 DEF IInv, BehindExplained, Busy
  <2>6. LossIsExplained' /\ OwnerIsUp'
    BY <1>1, <1>2, <2>1 DEF IInv, LossIsExplained, Explained, OwnerIsUp
  <2> QED BY <2>4, <2>5, <2>6 DEF IInv
<1> QED BY <1>5, <1>6 DEF Seen

LEMMA CreateInv == ASSUME IInv, NEW c \in Consumers, Create(c), TypeOK' PROVE IInv'
<1>1. /\ pc[c] = "create" /\ inspections' = Inserted(c)
      /\ UNCHANGED <<committed, owner, position, marks, faults, exposed>>
      /\ \A d \in Consumers \ {c} : pc'[d] = pc[d] /\ position'[d] = position[d]
      /\ pc'[c] = "commit"
  BY DEF Create, Goto, IInv, TypeOK
<1>2. /\ inspections \subseteq inspections'
      /\ \E i \in inspections' : i.request = Current(c).request
  BY <1>1, InsertedFacts DEF IInv
<1>3. \A k : (Handled(k) => Handled(k)') /\ (Explained(k) => Explained(k)')
  BY <1>1, <1>2, StaysExplained
<1>4. position[c] \in Offsets /\ Event(c) = Log[position[c]].event
  BY <1>1, CurrentType DEF IInv, Busy
<1>5. Handled(position[c])'
  BY <1>1, <1>2 DEF Handled, HasInspection, Current
<1>6. ASSUME NEW k \in Offsets, Log[k].scheduled, Log[k].event \in marks'
      PROVE  Handled(k)' \/ Claimed(Log[k].event)' \/ Log[k].event \in exposed'
  <2>1. CASE Holds(c, Log[k].event)
    <3>1. Log[k] = Log[position[c]]
      BY <1>4, <2>1, ConstantsAssumption DEF ConstantsAssumption, Holds
    <3>2. position'[c] = position[c]
      BY <1>1
    <3> QED BY <1>5, <3>1, <3>2 DEF Handled
  <2>2. CASE ~Holds(c, Log[k].event)
    BY <1>1, <1>2, <1>6, <2>2, StaysBacked
  <2> QED BY <2>1, <2>2
<1>7. BehindExplained'
  BY <1>1, <1>3, <1>5 DEF IInv, BehindExplained, Busy, Explained
<1>8. LossIsExplained' /\ OwnerIsUp'
  BY <1>1, <1>3 DEF IInv, LossIsExplained, Explained, OwnerIsUp
<1> QED BY <1>6, <1>7, <1>8 DEF IInv, MarksAreBacked

LEMMA ForgetInv == ASSUME IInv, NEW c \in Consumers, Forget(c), TypeOK' PROVE IInv'
<1>1. /\ pc[c] = "forget" /\ marks' = marks \ {Event(c)}
      /\ UNCHANGED <<committed, owner, position, inspections, faults, exposed>>
      /\ \A d \in Consumers \ {c} : pc'[d] = pc[d] /\ position'[d] = position[d]
      /\ pc'[c] = "stopped"
  BY DEF Forget, Goto, IInv, TypeOK
<1>2. \A k : (Handled(k) => Handled(k)') /\ (Explained(k) => Explained(k)')
  BY <1>1, StaysExplained
<1>3. MarksAreBacked'
  BY <1>1, StaysBacked DEF MarksAreBacked, Holds
<1>4. BehindExplained'
  BY <1>1, <1>2 DEF IInv, BehindExplained, Busy
<1>5. LossIsExplained' /\ OwnerIsUp'
  BY <1>1, <1>2 DEF IInv, LossIsExplained, Explained, OwnerIsUp
<1> QED BY <1>3, <1>4, <1>5 DEF IInv

LEMMA CommitInv == ASSUME IInv, NEW c \in Consumers, Commit(c), TypeOK' PROVE IInv'
<1>1. /\ pc[c] = "commit" /\ committed' = position[c]
      /\ UNCHANGED <<owner, position, marks, inspections, faults, exposed>>
      /\ \A d \in Consumers \ {c} : pc'[d] = pc[d] /\ position'[d] = position[d]
      /\ pc'[c] = "fetch"
  BY DEF Commit, Goto, IInv, TypeOK
<1>2. \A k : (Handled(k) => Handled(k)') /\ (Explained(k) => Explained(k)')
  BY <1>1, StaysExplained
<1>3. position[c] \in Offsets /\ position[c] \in Nat
  BY <1>1, CurrentType, LogType DEF IInv, Busy
<1>4. \A k \in 1 .. position[c] : Explained(k)
  BY <1>1, <1>3 DEF IInv, BehindExplained, Busy
<1>5. MarksAreBacked'
  BY <1>1, StaysBacked DEF MarksAreBacked, Holds
<1>6. BehindExplained'
  BY <1>1, <1>2, <1>4 DEF IInv, BehindExplained, Busy
<1>7. LossIsExplained' /\ OwnerIsUp'
  BY <1>1, <1>2, <1>4 DEF IInv, LossIsExplained, Explained, OwnerIsUp
<1> QED BY <1>5, <1>6, <1>7 DEF IInv

\* A call that fails, or whose process ends.
LEMMA FaultInv ==
    ASSUME IInv, NEW c \in Consumers, CallFails(c) \/ Crash(c), TypeOK'
    PROVE  IInv'
<1>1. /\ pc[c] \notin {"down", "stopped"} /\ MaybeDone(c)
      /\ UNCHANGED position
      /\ \A d \in Consumers \ {c} : pc'[d] = pc[d] /\ position'[d] = position[d]
      /\ pc'[c] = (IF pc[c] = "create" THEN "forget" ELSE "stopped") \/ pc'[c] = "down"
      /\ pc'[c] = "down" => owner' # c
      /\ owner' \in {owner, None}
      /\ LeftBehind(c, {"seen", "forget"}) \subseteq exposed'
      /\ pc'[c] # "forget" => LeftBehind(c, {"seen", "create", "forget"}) \subseteq exposed'
      /\ exposed \subseteq exposed'
  <2>0. pc \in [Consumers -> Labels] /\ None \notin Consumers
    BY ConstantsAssumption DEF ConstantsAssumption, IInv, TypeOK
  <2>1. CASE CallFails(c)
    <3>1. pc[c] \notin {"create"} =>
              LeftBehind(c, {"seen", "create", "forget"}) = LeftBehind(c, {"seen", "forget"})
      BY DEF LeftBehind
    <3>2. pc'[c] = AfterError(pc[c]) /\ \A d \in Consumers \ {c} : pc'[d] = pc[d]
      BY <2>0, <2>1 DEF CallFails, Goto
    <3> QED BY <2>1, <3>1, <3>2 DEF CallFails, AfterError
  <2>2. CASE Crash(c)
    <3>1. pc'[c] = "down" /\ \A d \in Consumers \ {c} : pc'[d] = pc[d]
      BY <2>0, <2>2 DEF Crash, Goto
    <3>2. LeftBehind(c, {"seen", "forget"}) \subseteq LeftBehind(c, {"seen", "create", "forget"})
      BY DEF LeftBehind
    <3> QED BY <2>0, <2>2, <3>1, <3>2 DEF Crash
  <2> QED BY <2>1, <2>2
<1>2. /\ inspections \subseteq inspections'
      /\ committed' \in {committed, position[c]}
      /\ committed' # committed => pc[c] = "commit"
  BY <1>1, InsertedFacts DEF MaybeDone, IInv
<1>3. \A k : (Handled(k) => Handled(k)') /\ (Explained(k) => Explained(k)')
  BY <1>1, <1>2, StaysExplained
<1>4. ASSUME NEW k \in Offsets, Log[k].scheduled, Log[k].event \in marks'
      PROVE  Handled(k)' \/ Claimed(Log[k].event)' \/ Log[k].event \in exposed'
  <2> DEFINE e == Log[k].event
  <2>1. CASE Event(c) = e /\ pc[c] = "seen" /\ e \notin marks
    BY <1>1, <1>4, <2>1 DEF LeftBehind
  <2>2. CASE Event(c) = e /\ pc[c] = "create"
    <3>1. CASE pc'[c] = "forget"
      BY <1>1, <2>2, <3>1 DEF Claimed, Holds, Event, Current
    <3>2. CASE pc'[c] # "forget"
      BY <1>1, <1>4, <2>2, <3>2 DEF LeftBehind
    <3> QED BY <3>1, <3>2
  <2>3. CASE Event(c) = e /\ pc[c] = "forget"
    BY <1>1, <1>4, <2>3 DEF LeftBehind
  <2>4. CASE e \in marks /\ ~Holds(c, e)
    BY <1>1, <1>2, <1>4, <2>4, StaysBacked
  <2>5. e \in marks \/ (pc[c] = "seen" /\ e = Event(c))
    BY <1>1, <1>4 DEF MaybeDone
  <2> QED BY <2>1, <2>2, <2>3, <2>4, <2>5 DEF Holds
<1>5. BehindExplained'
  <2>1. pc'[c] \in Busy => pc[c] = "create" /\ pc'[c] = "forget"
    BY <1>1 DEF Busy
  <2>2. pc'[c] # "fetch" /\ pc'[c] # "commit"
    BY <1>1
  <2>3. \A d \in Consumers : owner' = d => owner = d
    BY <1>1, ConstantsAssumption DEF ConstantsAssumption
  <2> QED BY <1>1, <1>3, <2>1, <2>2, <2>3 DEF IInv, BehindExplained, Busy
<1>6. LossIsExplained'
  <2>1. CASE committed' = committed
    BY <1>3, <2>1 DEF IInv, LossIsExplained, Explained
  <2>2. CASE pc[c] = "commit" /\ committed' = position[c]
    <3>1. position[c] \in Nat
      BY <2>2, CurrentType, LogType DEF IInv, Busy
    <3>2. \A k \in 1 .. position[c] : Explained(k)
      BY <2>2, <3>1 DEF IInv, BehindExplained, Busy
    <3> QED BY <1>3, <2>2, <3>2 DEF LossIsExplained, Explained
  <2> QED BY <1>2, <2>1, <2>2
<1>7. OwnerIsUp'
  <2>1. ASSUME NEW d \in Consumers, owner' = d PROVE pc'[d] # "down"
    <3>1. owner = d
      BY <1>1, <2>1, ConstantsAssumption DEF ConstantsAssumption
    <3> QED BY <1>1, <2>1, <3>1 DEF IInv, OwnerIsUp
  <2> QED BY <2>1 DEF OwnerIsUp
<1> QED BY <1>4, <1>5, <1>6, <1>7 DEF IInv, MarksAreBacked

\* Exits, starts and the group touch neither marks, rows nor the offset.
LEMMA GroupInv ==
    ASSUME IInv, NEW c \in Consumers,
           Exit(c) \/ Start(c) \/ Assign(c) \/ Rebalance(c), TypeOK'
    PROVE  IInv'
<1>1. /\ UNCHANGED <<committed, marks, inspections, exposed>>
      /\ pc[c] \notin Busy /\ pc'[c] \notin Busy
      /\ \A d \in Consumers \ {c} :
            /\ pc'[d] = pc[d] /\ position'[d] = position[d]
            /\ owner' = d => owner = d
      /\ pc'[c] = "fetch" /\ owner' = c => position'[c] = committed
      /\ owner' = c => pc'[c] # "down"
  <2>0. /\ pc \in [Consumers -> Labels] /\ position \in [Consumers -> 0 .. Len(Log)]
        /\ None \notin Consumers
    BY ConstantsAssumption DEF ConstantsAssumption, IInv, TypeOK
  <2>1. CASE Exit(c)
    BY <2>0, <2>1 DEF Exit, Goto, Busy
  <2>2. CASE Start(c)
    BY <2>0, <2>2 DEF Start, Goto, Busy, IInv, OwnerIsUp
  <2>3. CASE Assign(c) \/ Rebalance(c)
    BY <2>0, <2>3 DEF Assign, Rebalance, TakeOver, Busy
  <2> QED BY <2>1, <2>2, <2>3
<1>2. \A k : (Handled(k) => Handled(k)') /\ (Explained(k) => Explained(k)')
  BY <1>1, StaysExplained
<1>3. MarksAreBacked'
  BY <1>1, StaysBacked DEF MarksAreBacked, Holds, Busy
<1>4. BehindExplained'
  <2>1. \A k \in 1 .. committed : Explained(k)'
    BY <1>2 DEF IInv, LossIsExplained, Explained
  <2> QED BY <1>1, <1>2, <2>1 DEF IInv, BehindExplained, Busy
<1>5. LossIsExplained' /\ OwnerIsUp'
  BY <1>1, <1>2 DEF IInv, LossIsExplained, Explained, OwnerIsUp
<1> QED BY <1>3, <1>4, <1>5 DEF IInv

LEMMA ExpireInv == ASSUME IInv, NEW e \in Events, Expire(e), TypeOK' PROVE IInv'
<1>1. /\ marks' \subseteq marks
      /\ UNCHANGED <<committed, owner, position, pc, inspections, faults, exposed>>
  BY DEF Expire
<1>2. \A k, x : /\ Handled(k)' <=> Handled(k)
                /\ Explained(k)' <=> Explained(k)
                /\ Claimed(x)' <=> Claimed(x)
  BY <1>1 DEF Handled, HasInspection, Explained, Claimed, Holds, Event, Current
<1> QED
  BY <1>1, <1>2 DEF IInv, MarksAreBacked, BehindExplained, LossIsExplained, Explained, OwnerIsUp

LEMMA NextIInv == IInv /\ [Next]_vars => IInv'
<1> SUFFICES ASSUME IInv, [Next]_vars PROVE IInv'
  OBVIOUS
<1>1. TypeOK'
  BY NextType DEF IInv
<1>2. CASE UNCHANGED vars
  BY <1>2 DEF vars, IInv, TypeOK, OwnerIsUp, MarksAreBacked, BehindExplained,
              LossIsExplained, Explained, Handled, HasInspection, Claimed, Holds,
              Event, Current
<1> QED
  BY <1>1, <1>2, FetchInv, SeenInv, CreateInv, ForgetInv, CommitInv, FaultInv,
     GroupInv, ExpireInv DEF Next, Work, Quiet

-----------------------------------------------------------------------------
\* Run and process keep their state in the ranges they expect: a member past
\* the fetch is at a message of the log, and past the checks at a scheduled one.
THEOREM TypeCorrect == Spec => []TypeOK
<1>1. Init => TypeOK
  BY InitIInv DEF IInv
<1> QED BY <1>1, NextType, PTL DEF Spec

LEMMA Invariance == Spec => []IInv
BY InitIInv, NextIInv, PTL DEF Spec

\* A mark in Redis stands for an inspection or for a member still at work on
\* it, unless a crash, a failed DEL or an uncertain SETNX left it behind.
THEOREM MarksBacked == Spec => []MarksAreBacked
<1>1. IInv => MarksAreBacked
  BY DEF IInv
<1> QED BY <1>1, Invariance, PTL

\* The commit after process never passes a scheduled request without an
\* inspection, except over a mark that was left behind or trusted early.
THEOREM LossExplained == Spec => []LossIsExplained
<1>1. IInv => LossIsExplained
  BY DEF IInv
<1> QED BY <1>1, Invariance, PTL

-----------------------------------------------------------------------------
\* Only an INSERT changes the rows, and it finds none of the same request.
LEMMA OneInspectionInductive ==
    ASSUME TypeOK, OneInspectionPerRequest, [Next]_vars
    PROVE  OneInspectionPerRequest'
<1>1. CASE UNCHANGED inspections
  BY <1>1 DEF OneInspectionPerRequest
<1>2. ASSUME NEW c \in Consumers, pc[c] = "create", inspections' = Inserted(c)
      PROVE  OneInspectionPerRequest'
  <2>1. CASE HasInspection(Current(c).request)
    BY <1>1, <1>2, <2>1 DEF Inserted
  <2>2. CASE ~HasInspection(Current(c).request)
    <3>1. inspections' = inspections \union {NewInspection(c)}
      BY <1>2, <2>2 DEF Inserted
    <3>2. NewInspection(c).request = Current(c).request
      BY DEF NewInspection
    <3>3. \E k \in Offsets : Log[k].scheduled /\ Log[k].request = Current(c).request
      BY <1>2, CurrentType DEF Busy, Current
    <3>4. \A i \in inspections : i.request # Current(c).request
      BY <2>2 DEF HasInspection
    <3> HIDE DEF NewInspection
    <3> QED BY <3>1, <3>2, <3>3, <3>4 DEF OneInspectionPerRequest
  <2> QED BY <2>1, <2>2
<1>3. \/ UNCHANGED inspections
      \/ \E c \in Consumers : pc[c] = "create" /\ inspections' = Inserted(c)
  BY DEF Next, vars, Work, Fetch, Seen, Create, Forget, Commit, CallFails, Crash,
         MaybeDone, Exit, Start, Assign, Rebalance, TakeOver, Expire, Quiet
<1> QED BY <1>1, <1>2, <1>3

\* However often a request is scheduled, redelivered or processed at once, INSERT
\* ... ON CONFLICT DO NOTHING leaves one inspection of it.
THEOREM OneInspection == Spec => []OneInspectionPerRequest
<1>1. Init => OneInspectionPerRequest
  BY DEF Init, OneInspectionPerRequest
<1>2. TypeOK /\ OneInspectionPerRequest /\ [Next]_vars => OneInspectionPerRequest'
  BY OneInspectionInductive
<1> QED BY <1>1, <1>2, TypeCorrect, PTL DEF Spec

=============================================================================
