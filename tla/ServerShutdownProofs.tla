------------------------ MODULE ServerShutdownProofs ------------------------
(***************************************************************************)
(* Theorems about the shutdown: TypeOK, ResourcesOutliveUsers,             *)
(* GracefulExit and OneOpenMark hold for any number of requests and        *)
(* messages, and whether or not calls fail by themselves.                  *)
(***************************************************************************)
EXTENDS ServerShutdown, TLAPS

\* Where main stands once the waits for requests, consumer and relay are over.
AfterRelay == {"closeProducer", "closeRedis", "closeDB", "return"}
AfterConsumer == AfterRelay \union {"waitRelay"}
AfterDrain == AfterConsumer \union {"readErr", "closeReader", "waitConsumer"}
Serving == {"select", "drain"}

\* Nothing runs before Spawn.
NothingBefore ==
    main \in Starting => relay = "none" /\ consumer = "none" /\ Active = {}

\* What main has not closed yet is open.
StillOpen ==
    /\ main \in Serving \union (AfterDrain \ {"return"}) => "db" \in open
    /\ main \in Serving \union (AfterDrain \ {"closeDB", "return"}) => "redis" \in open
    /\ main \in Serving \union (AfterDrain \ {"closeRedis", "closeDB", "return"})
        => "producer" \in open

\* What main has waited for has ended.
Waited ==
    /\ main \in AfterDrain => Active = {}
    /\ main \in AfterConsumer => consumer = "ended"
    /\ main \in AfterRelay => relay = "ended"
    /\ Running => \A r \in Requests : request[r] # "cut"

\* A mark without an inspection is set by the call of the last message, which is
\* not committed before the inspection exists.
MarksFollow ==
    /\ committed <= fetched
    /\ consumer \in {"none", "fetch", "seen", "commit"} => marks \subseteq made
    /\ consumer \in {"seen", "create", "forget"} => committed < fetched

IInv ==
    /\ TypeOK /\ NothingBefore /\ StillOpen /\ Waited /\ MarksFollow
    /\ GracefulExit /\ OneOpenMark

-----------------------------------------------------------------------------
LEMMA InitIInv == Init => IInv
  <1> SUFFICES ASSUME Init PROVE IInv
    OBVIOUS
  <1> USE DEF Init
  <1>1. TypeOK
    <2>1. 0 \in 0 .. MaxMessages
      BY ConstantsAssumption DEF ConstantsAssumption
    <2>2. /\ request \in [Requests -> {"none", "active", "answered", "cut"}]
          /\ begun \in [Loops -> BOOLEAN]
      OBVIOUS
    <2>3. main \in Starting /\ main \notin Stopping
      BY DEF Starting, Stopping
    <2> QED
      BY <2>1, <2>2, <2>3 DEF TypeOK
  <1>2. NothingBefore /\ Waited /\ StillOpen
    BY DEF NothingBefore, Waited, StillOpen, Active, Serving, AfterDrain, AfterConsumer, AfterRelay
  <1>3. MarksFollow /\ GracefulExit /\ OneOpenMark
    BY DEF MarksFollow, GracefulExit, OneOpenMark
  <1> QED
    BY <1>1, <1>2, <1>3 DEF IInv

-----------------------------------------------------------------------------
(***************************************************************************)
(* The steps of main.                                                      *)
(***************************************************************************)
\* The process may end with code 1 anywhere, and with 0 when main returns.
LEMMA ExitKeepsIInv ==
    ASSUME IInv, NEW code \in {0, 1}, code = 0 => main = "return", Running, Exit(code)
    PROVE  IInv'
  <1>1. TypeOK'
    BY DEF IInv, TypeOK, Exit, messageVars, Starting, Stopping
  <1>2. NothingBefore' /\ StillOpen' /\ Waited'
    BY DEF NothingBefore, StillOpen, Waited, Exit, Running, Starting,
           Serving, AfterDrain, AfterConsumer, AfterRelay
  <1>3. MarksFollow' /\ OneOpenMark'
    BY DEF IInv, MarksFollow, OneOpenMark, Exit, messageVars
  <1>4. GracefulExit'
    <2> SUFFICES ASSUME code = 0 PROVE GracefulExit'
      BY DEF GracefulExit, Exit
    <2>1. Active = {} /\ relay = "ended" /\ consumer = "ended"
          /\ \A r \in Requests : request[r] # "cut"
      BY DEF IInv, Waited, AfterDrain, AfterConsumer, AfterRelay
    <2>2. request' = [r \in Requests |-> request[r]]
      BY <2>1 DEF Exit
    <2> QED
      BY <2>1, <2>2 DEF GracefulExit, Exit
  <1> QED
    BY <1>1, <1>2, <1>3, <1>4 DEF IInv

\* Connect, Spawn and Signal: the way to the select.
LEMMA StartKeepsIInv ==
    ASSUME IInv, Connect \/ Spawn \/ Signal
    PROVE  IInv'
  <1>1. TypeOK'
    <2>1. CASE Connect
      BY <2>1 DEF IInv, TypeOK, Connect, serverVars, messageVars, Starting, Stopping, Resources
    <2>2. CASE Spawn
      BY <2>2 DEF IInv, TypeOK, Spawn, messageVars, Starting, Stopping
    <2>3. CASE Signal
      BY <2>3 DEF IInv, TypeOK, Signal, serverVars, messageVars
    <2> QED
      BY <2>1, <2>2, <2>3
  <1>2. NothingBefore'
    BY DEF IInv, NothingBefore, Connect, Spawn, Signal, serverVars, Active, Starting
  <1>3. StillOpen'
    BY DEF IInv, StillOpen, Connect, Spawn, Signal, Starting, Resources,
           Serving, AfterDrain, AfterConsumer, AfterRelay
  <1>4. Waited'
    BY DEF IInv, Waited, Connect, Spawn, Signal, serverVars, Active, Running,
           AfterDrain, AfterConsumer, AfterRelay
  <1>5. MarksFollow' /\ OneOpenMark'
    BY DEF IInv, NothingBefore, MarksFollow, OneOpenMark, Connect, Spawn, Signal, messageVars, Starting
  <1>6. GracefulExit'
    BY DEF GracefulExit, Connect, Spawn, Signal
  <1> QED
    BY <1>1, <1>2, <1>3, <1>4, <1>5, <1>6 DEF IInv

\* The steps of the shutdown, each of which main takes when its wait is over.
LEMMA StopKeepsIInv ==
    ASSUME IInv,
           \/ SignalSeen \/ Drained \/ WaitConsumer \/ WaitRelay \/ Close
           \/ ReadErr /\ main' = "closeReader"
    PROVE  IInv'
  <1> USE DEF SignalSeen, Drained, WaitConsumer, WaitRelay, Close, ReadErr, Advance,
              Closes, AfterClose
  <1>0. UNCHANGED <<exitCode, cancelled, request, relay, consumer, messageVars>>
    BY DEF serverVars, Exit
  <1>1. TypeOK'
    BY DEF IInv, TypeOK, Exit, serverVars, messageVars, Starting, Stopping
  <1>2. NothingBefore'
    BY DEF NothingBefore, Starting
  <1>3. StillOpen'
    BY DEF IInv, StillOpen, Exit, Serving, AfterDrain, AfterConsumer, AfterRelay
  <1>4. Waited'
    BY <1>0 DEF IInv, Waited, Active, Running, AfterDrain, AfterConsumer, AfterRelay
  <1>5. MarksFollow' /\ OneOpenMark'
    BY <1>0 DEF IInv, MarksFollow, OneOpenMark, messageVars
  <1>6. GracefulExit'
    BY DEF GracefulExit
  <1> QED
    BY <1>1, <1>2, <1>3, <1>4, <1>5, <1>6 DEF IInv

LEMMA MainKeepsIInv ==
    ASSUME IInv, MainStep \/ StartFails \/ Signal
    PROVE  IInv'
  <1>1. CASE Connect \/ Spawn \/ Signal
    BY <1>1, StartKeepsIInv
  <1>2. CASE SignalSeen \/ Drained \/ WaitConsumer \/ WaitRelay \/ Close
    BY <1>2, StopKeepsIInv
  <1>3. CASE ServerError \/ Deadline \/ StartFails
    BY <1>3, ExitKeepsIInv DEF ServerError, Deadline, StartFails, Running, Starting
  <1>4. CASE Return
    BY <1>4, ExitKeepsIInv DEF Return, Running
  <1>5. CASE ReadErr
    <2>1. CASE Exit(1)
      BY <1>5, <2>1, ExitKeepsIInv DEF ReadErr, Running
    <2>2. CASE main' = "closeReader"
      BY <1>5, <2>2, StopKeepsIInv
    <2> QED
      BY <1>5, <2>1, <2>2 DEF ReadErr
  <1> QED
    BY <1>1, <1>2, <1>3, <1>4, <1>5 DEF MainStep

-----------------------------------------------------------------------------
(***************************************************************************)
(* The steps of the goroutines.                                            *)
(***************************************************************************)
LEMMA ServerKeepsIInv ==
    ASSUME IInv, ServerStep \/ \E r \in Requests : Arrive(r) \/ Respond(r)
    PROVE  IInv'
  <1> USE DEF ServerStep, Listen, ServeEnds, Arrive, Respond, mainVars
  <1>0. UNCHANGED <<mainVars, relay, consumer, begun, messageVars>>
    OBVIOUS
  <1>1. \/ UNCHANGED request
        \/ \E r \in Requests :
             \/ main = "select" /\ request' = [request EXCEPT ![r] = "active"]
             \/ request[r] = "active" /\ request' = [request EXCEPT ![r] = "answered"]
    OBVIOUS
  <1>2. TypeOK'
    <2>1. request' \in [Requests -> {"none", "active", "answered", "cut"}]
      BY <1>1 DEF IInv, TypeOK
    <2>2. server' \in {"none", "spawned", "listening", "returned"}
          /\ errCh' \in {"empty", "closed", "failed"}
      BY DEF IInv, TypeOK
    <2> QED
      BY <1>0, <2>1, <2>2 DEF IInv, TypeOK, messageVars
  <1>3. Running
    BY DEF Running
  <1>4. main # "select" => Active' \subseteq Active
    BY <1>1 DEF Active, IInv, TypeOK
  <1>5. \A r \in Requests : request'[r] # "cut"
    BY <1>1, <1>3 DEF IInv, TypeOK, Waited
  <1>6. NothingBefore' /\ StillOpen' /\ Waited'
    BY <1>0, <1>4, <1>5 DEF IInv, NothingBefore, StillOpen, Waited, Starting,
           Serving, AfterDrain, AfterConsumer, AfterRelay
  <1>7. MarksFollow' /\ OneOpenMark' /\ GracefulExit'
    BY <1>0, <1>3 DEF IInv, MarksFollow, OneOpenMark, GracefulExit, messageVars, Running
  <1> QED
    BY <1>2, <1>6, <1>7 DEF IInv

LEMMA RelayKeepsIInv ==
    ASSUME IInv, RelayReturns \/ RelayStep
    PROVE  IInv'
  <1>1. /\ Running /\ relay \notin {"none", "ended"}
        /\ \E label \in {"wait", "poll", "publish", "mark", "ended"} : RelayGoto(label)
    BY DEF RelayReturns, RelayStep, Tick, RelayCall, RelayCallFails
  <1> USE DEF RelayGoto, mainVars, serverVars, messageVars
  <1>2. TypeOK'
    BY <1>1 DEF IInv, TypeOK, Loops
  <1>3. NothingBefore' /\ StillOpen' /\ Waited'
    BY <1>1 DEF IInv, NothingBefore, StillOpen, Waited, Active, Running
  <1>4. MarksFollow' /\ OneOpenMark' /\ GracefulExit'
    BY <1>1 DEF IInv, MarksFollow, OneOpenMark, GracefulExit, Running
  <1> QED
    BY <1>2, <1>3, <1>4 DEF IInv

\* What the calls of the consumer keep, whichever of them takes effect.
LEMMA ConsumerKeepsIInv ==
    ASSUME IInv, ConsumerStep
    PROVE  IInv'
  <1> USE DEF ConsumerStep, Fetch, ConsumerCall, ConsumerCallFails, ConsumerGoto,
              mainVars, serverVars, messageVars
  <1>1. /\ Running /\ consumer \notin {"none", "ended"}
        /\ UNCHANGED <<main, exitCode, cancelled, open, server, errCh, request, relay>>
    OBVIOUS
  <1>2. /\ consumer \in {"fetch", "seen", "create", "forget", "commit"}
        /\ consumer' \in {"fetch", "seen", "create", "forget", "commit", "ended"}
    BY DEF AfterSuccess, AfterError
  <1>3. TypeOK'
    <2>1. begun' \in [Loops -> BOOLEAN]
      BY DEF IInv, TypeOK, Loops
    <2>2. fetched' \in 0 .. MaxMessages
      BY ConstantsAssumption DEF ConstantsAssumption, IInv, TypeOK, Effect
    <2>3. committed' \in 0 .. MaxMessages
      BY DEF IInv, TypeOK, Effect
    <2>4. consumer = "fetch" \/ fetched \in Messages
      BY <1>2, ConstantsAssumption DEF ConstantsAssumption, IInv, TypeOK, Messages
    <2>5. marks' \subseteq Messages /\ made' \subseteq Messages
      BY <1>2, <2>4 DEF IInv, TypeOK, Effect
    <2>6. consumer' \in {"seen", "create", "forget", "commit"} => fetched' # 0
      BY <2>4, ConstantsAssumption
         DEF ConstantsAssumption, IInv, TypeOK, Effect, AfterSuccess, AfterError, Messages
    <2> QED
      BY <1>1, <1>2, <2>1, <2>2, <2>3, <2>5, <2>6 DEF IInv, TypeOK
  <1>4. NothingBefore' /\ StillOpen' /\ Waited'
    BY <1>1 DEF IInv, NothingBefore, StillOpen, Waited, Active, Running
  <1>5. GracefulExit'
    BY <1>1 DEF GracefulExit, Running
  <1>6. MarksFollow' /\ OneOpenMark'
    <2>1. CASE Fetch
      BY <2>1 DEF IInv, TypeOK, MarksFollow, OneOpenMark
    <2>2. CASE ConsumerCall
      <3>1. CASE consumer = "seen"
        BY <2>2, <3>1 DEF IInv, TypeOK, MarksFollow, OneOpenMark, Effect, AfterSuccess
      <3>2. CASE consumer = "create"
        BY <2>2, <3>2 DEF IInv, TypeOK, MarksFollow, OneOpenMark, Effect, AfterSuccess
      <3>3. CASE consumer = "forget"
        BY <2>2, <3>3 DEF IInv, TypeOK, MarksFollow, OneOpenMark, Effect, AfterSuccess
      <3>4. CASE consumer = "commit"
        BY <2>2, <3>4 DEF IInv, TypeOK, MarksFollow, OneOpenMark, Effect, AfterSuccess
      <3> QED
        BY <2>2, <3>1, <3>2, <3>3, <3>4
    <2>3. CASE ConsumerCallFails
      <3>1. CASE consumer \in {"fetch", "seen"}
        BY <2>3, <3>1 DEF IInv, TypeOK, MarksFollow, OneOpenMark, Effect, AfterError
      <3>2. CASE consumer = "create"
        BY <2>3, <3>2 DEF IInv, TypeOK, MarksFollow, OneOpenMark, Effect, AfterError
      <3>3. CASE consumer = "forget"
        BY <2>3, <3>3 DEF IInv, TypeOK, MarksFollow, OneOpenMark, Effect, AfterError
      <3>4. CASE consumer = "commit"
        BY <2>3, <3>4 DEF IInv, TypeOK, MarksFollow, OneOpenMark, Effect, AfterError
      <3> QED
        BY <2>3, <3>1, <3>2, <3>3, <3>4
    <2> QED
      BY <2>1, <2>2, <2>3
  <1> QED
    BY <1>3, <1>4, <1>5, <1>6 DEF IInv

-----------------------------------------------------------------------------
LEMMA NextKeepsIInv == IInv /\ [Next]_vars => IInv'
  <1> SUFFICES ASSUME IInv, [Next]_vars PROVE IInv'
    OBVIOUS
  <1>1. CASE MainStep \/ StartFails \/ Signal
    BY <1>1, MainKeepsIInv
  <1>2. CASE ServerStep \/ \E r \in Requests : Arrive(r) \/ Respond(r)
    BY <1>2, ServerKeepsIInv
  <1>3. CASE RelayReturns \/ RelayStep
    BY <1>3, RelayKeepsIInv
  <1>4. CASE ConsumerStep
    BY <1>4, ConsumerKeepsIInv
  <1>5. CASE Exited \/ UNCHANGED vars
    <2>1. UNCHANGED vars
      BY <1>5 DEF Exited
    <2> QED
      BY <2>1 DEF IInv, TypeOK, NothingBefore, StillOpen, Waited, MarksFollow, GracefulExit,
                  OneOpenMark, Active, Running, vars, mainVars, serverVars, messageVars
  <1> QED
    BY <1>1, <1>2, <1>3, <1>4, <1>5 DEF Next

THEOREM IInvAlways == Spec => []IInv
  BY InitIInv, NextKeepsIInv, PTL DEF Spec

\* Every variable keeps its type.
THEOREM TypeCorrect == Spec => []TypeOK
  <1>1. IInv => TypeOK
    BY DEF IInv
  <1> QED
    BY <1>1, IInvAlways, PTL

\* Nothing is closed while a request, the relay or the consumer still uses it.
THEOREM ResourcesAreOutlived == Spec => []ResourcesOutliveUsers
  <1>1. IInv => ResourcesOutliveUsers
    BY DEF IInv, TypeOK, NothingBefore, StillOpen, Waited, ResourcesOutliveUsers, Running,
           Starting, Stopping, Serving, AfterDrain, AfterConsumer, AfterRelay
  <1> QED
    BY <1>1, IInvAlways, PTL

\* An exit with code 0 cut off no request and left no loop running.
THEOREM ExitIsGraceful == Spec => []GracefulExit
  <1>1. IInv => GracefulExit
    BY DEF IInv
  <1> QED
    BY <1>1, IInvAlways, PTL

\* A shutdown leaves at most the mark of the last, uncommitted message open.
THEOREM OneMarkIsOpen == Spec => []OneOpenMark
  <1>1. IInv => OneOpenMark
    BY DEF IInv
  <1> QED
    BY <1>1, IInvAlways, PTL

=============================================================================
