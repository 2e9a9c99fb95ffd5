---------------------------- MODULE ServerShutdown ----------------------------
(***************************************************************************)
(* One process of inspect-service from its start to its exit: main         *)
(* (cmd/server/main.go) with the goroutines it starts, namely the HTTP     *)
(* server and its requests, the relay and the consumer.                    *)
(*                                                                         *)
(* A loop is modelled by the call it is in.  Cancelling ctx makes a call   *)
(* of the database or of Redis that is in progress return an error, with   *)
(* or without effect, and every later one fail at once, without.  A call   *)
(* of the Kafka reader may take effect nevertheless.  Requests have        *)
(* contexts of their own and do not notice.                                *)
(***************************************************************************)
EXTENDS Naturals, FiniteSets

CONSTANTS
    Requests,     \* HTTP requests
    MaxMessages,  \* bound: scheduled requests the consumer is sent
    Faults        \* may calls fail by themselves?

ASSUME ConstantsAssumption ==
    /\ MaxMessages \in Nat
    /\ Faults \in BOOLEAN

Messages == 1 .. MaxMessages

VARIABLES
    main,       \* where main stands
    exitCode,   \* of the process
    cancelled,  \* ctx.Done(): a signal has arrived
    server,     \* the goroutine that runs ListenAndServe
    errCh,      \* what its channel holds
    request,    \* state of each request
    relay,      \* the call Relay.Run is in
    consumer,   \* the call Consumer.Run is in
    begun,      \* was that call begun before the signal?
    open,       \* what is connected and not closed
    fetched,    \* the last message FetchMessage returned
    committed,  \* the group's offset
    marks,      \* messages whose event is marked in Redis
    made        \* messages whose inspection exists

mainVars == <<main, exitCode, cancelled, open>>
serverVars == <<server, errCh, request>>
messageVars == <<fetched, committed, marks, made>>
vars == <<mainVars, serverVars, relay, consumer, begun, messageVars>>

Loops == {"relay", "consumer"}
Resources == {"db", "redis", "producer", "reader"}
Starting == {"db", "jwks", "redis"}

\* main after the signal: Shutdown has been called.
Stopping == {"drain", "readErr", "closeReader", "waitConsumer", "waitRelay",
             "closeProducer", "closeRedis", "closeDB", "return"}

TypeOK ==
    /\ main \in Starting \union Stopping \union {"select", "exited"}
    /\ main \in Stopping => cancelled
    /\ exitCode \in {0, 1}
    /\ cancelled \in BOOLEAN
    /\ server \in {"none", "spawned", "listening", "returned"}
    /\ errCh \in {"empty", "closed", "failed"}
    /\ request \in [Requests -> {"none", "active", "answered", "cut"}]
    /\ relay \in {"none", "wait", "poll", "publish", "mark", "ended"}
    /\ consumer \in {"none", "fetch", "seen", "create", "forget", "commit", "ended"}
    /\ consumer \in {"seen", "create", "forget", "commit"} => fetched # 0
    /\ begun \in [Loops -> BOOLEAN]
    /\ open \subseteq Resources
    /\ fetched \in 0 .. MaxMessages
    /\ committed \in 0 .. MaxMessages
    /\ marks \subseteq Messages
    /\ made \subseteq Messages

Active == {r \in Requests : request[r] = "active"}

Init ==
    /\ main = "db"
    /\ exitCode = 0
    /\ cancelled = FALSE
    /\ server = "none"
    /\ errCh = "empty"
    /\ request = [r \in Requests |-> "none"]
    /\ relay = "none"
    /\ consumer = "none"
    /\ begun = [l \in Loops |-> FALSE]
    /\ open = {}
    /\ fetched = 0
    /\ committed = 0
    \* Messages an earlier process handled without committing them come again.
    /\ made \in SUBSET Messages
    /\ marks = made

-----------------------------------------------------------------------------
(***************************************************************************)
(* main.                                                                   *)
(***************************************************************************)

\* The process ends and cuts off what is still running.
Exit(code) ==
    /\ main' = "exited"
    /\ exitCode' = code
    /\ request' = [r \in Requests |-> IF r \in Active THEN "cut" ELSE request[r]]
    /\ UNCHANGED <<cancelled, open, server, errCh, relay, consumer, begun, messageVars>>

Advance(label) ==
    /\ main' = label
    /\ UNCHANGED <<exitCode, cancelled, open, serverVars, relay, consumer, begun, messageVars>>

\* Database, keys and Redis are each tried once; nobody listens to signals yet,
\* so that one has the effect of a failure.
StartFails == main \in Starting /\ Exit(1)

Connect ==
    /\ main \in {"db", "jwks"}
    /\ main' = IF main = "db" THEN "jwks" ELSE "redis"
    /\ open' = open \union ({main} \intersect Resources)
    /\ UNCHANGED <<exitCode, cancelled, serverVars, relay, consumer, begun, messageVars>>

\* Redis answers; producer, reader and the three goroutines are created.
Spawn ==
    /\ main = "redis"
    /\ main' = "select"
    /\ open' = Resources
    /\ server' = "spawned"
    /\ relay' = "wait"
    /\ consumer' = "fetch"
    /\ begun' = [l \in Loops |-> TRUE]
    /\ UNCHANGED <<exitCode, cancelled, errCh, request, messageVars>>

\* Once the context has caught the first signal, further ones change nothing.
Signal ==
    /\ main = "select" /\ ~cancelled
    /\ cancelled' = TRUE
    /\ UNCHANGED <<main, exitCode, open, serverVars, relay, consumer, begun, messageVars>>

\* select: the server has failed, or the signal came; either, if both did.
ServerError == main = "select" /\ errCh = "failed" /\ Exit(1)
SignalSeen == main = "select" /\ cancelled /\ Advance("drain")

\* srv.Shutdown returns when no request is active, or after ten seconds.
Drained == main = "drain" /\ Active = {} /\ Advance("readErr")

\* Mutant: the error of Shutdown is logged only.
DeadlineIgnored == main = "drain" /\ Advance("readErr")

Deadline == main = "drain" /\ Exit(1)

ReadErr ==
    /\ main = "readErr"
    /\ \/ errCh = "failed" /\ Exit(1)
       \/ /\ errCh = "closed"
          /\ errCh' = "empty"
          /\ main' = "closeReader"
          /\ UNCHANGED <<exitCode, cancelled, open, server, request, relay,
                         consumer, begun, messageVars>>

\* Mutant: main does not wait for the relay.
WaitConsumerOnly == main = "waitConsumer" /\ consumer = "ended" /\ Advance("closeProducer")

WaitConsumer == main = "waitConsumer" /\ consumer = "ended" /\ Advance("waitRelay")
WaitRelay == main = "waitRelay" /\ relay = "ended" /\ Advance("closeProducer")

\* consumer.Close(), and the deferred calls in reverse order of the defers.
Closes == [closeReader |-> "reader", closeProducer |-> "producer",
           closeRedis |-> "redis", closeDB |-> "db"]
AfterClose == [closeReader |-> "waitConsumer", closeProducer |-> "closeRedis",
               closeRedis |-> "closeDB", closeDB |-> "return"]

Close ==
    /\ main \in DOMAIN Closes
    /\ open' = open \ {Closes[main]}
    /\ main' = AfterClose[main]
    /\ UNCHANGED <<exitCode, cancelled, serverVars, relay, consumer, begun, messageVars>>

Return == main = "return" /\ Exit(0)

MainStep ==
    \/ Connect \/ Spawn
    \/ ServerError \/ SignalSeen \/ Drained \/ Deadline \/ ReadErr
    \/ WaitConsumer \/ WaitRelay \/ Close \/ Return

-----------------------------------------------------------------------------
(***************************************************************************)
(* The server.                                                             *)
(***************************************************************************)
Running == main # "exited"

Listen ==
    /\ main = "select" /\ server = "spawned"
    /\ server' = "listening"
    /\ UNCHANGED <<mainVars, errCh, request, relay, consumer, begun, messageVars>>

\* Mutant: the goroutine keeps http.ErrServerClosed to itself.
ServeEndsSilently(err) ==
    /\ Running /\ server \in {"spawned", "listening"}
    /\ err = "closed" => main \in Stopping
    /\ err = "failed" => main \notin Stopping \/ server = "spawned"
    /\ server' = "returned"
    /\ errCh' = IF err = "closed" THEN errCh ELSE err
    /\ UNCHANGED <<mainVars, request, relay, consumer, begun, messageVars>>

\* ListenAndServe returns ErrServerClosed once Shutdown is called; before, or
\* while it binds its address, it may fail.
ServeEnds(err) ==
    /\ Running /\ server \in {"spawned", "listening"}
    /\ err = "closed" => main \in Stopping
    /\ err = "failed" => main \notin Stopping \/ server = "spawned"
    /\ server' = "returned"
    /\ errCh' = err
    /\ UNCHANGED <<mainVars, request, relay, consumer, begun, messageVars>>

Arrive(r) ==
    /\ main = "select" /\ server = "listening"
    /\ request[r] = "none"
    /\ request' = [request EXCEPT ![r] = "active"]
    /\ UNCHANGED <<mainVars, server, errCh, relay, consumer, begun, messageVars>>

Respond(r) ==
    /\ Running /\ request[r] = "active"
    /\ request' = [request EXCEPT ![r] = "answered"]
    /\ UNCHANGED <<mainVars, server, errCh, relay, consumer, begun, messageVars>>

-----------------------------------------------------------------------------
(***************************************************************************)
(* The loops.                                                              *)
(***************************************************************************)
MayFail == cancelled \/ Faults

RelayGoto(label) ==
    /\ relay' = label
    /\ begun' = [begun EXCEPT !["relay"] = ~cancelled]
    /\ UNCHANGED <<mainVars, serverVars, consumer, messageVars>>

\* The select of Run: ctx is done, or a tick (with both ready, either).
RelayReturns == Running /\ relay = "wait" /\ cancelled /\ RelayGoto("ended")
Tick == Running /\ relay = "wait" /\ RelayGoto("poll")

\* publishBatch: a call succeeds; the batch may have another row or not.
RelayCall ==
    /\ Running /\ begun["relay"]
    /\ \/ relay \in {"poll", "mark"} /\ \E label \in {"publish", "wait"} : RelayGoto(label)
       \/ relay = "publish" /\ RelayGoto("mark")

RelayCallFails ==
    /\ Running /\ MayFail
    /\ relay \in {"poll", "publish", "mark"}
    /\ RelayGoto("wait")

ConsumerGoto(label) ==
    /\ consumer' = label
    /\ begun' = [begun EXCEPT !["consumer"] = ~cancelled]
    /\ UNCHANGED <<mainVars, serverVars, relay>>

\* FetchMessage returns a message it has in hand even when ctx is done.
Fetch ==
    /\ Running /\ consumer = "fetch" /\ fetched < MaxMessages
    /\ fetched' = fetched + 1
    /\ ConsumerGoto("seen")
    /\ UNCHANGED <<committed, marks, made>>

\* What the call does when it takes effect.
Effect ==
    /\ marks' = CASE consumer = "seen" -> marks \union {fetched}
                  [] consumer = "forget" -> marks \ {fetched}
                  [] OTHER -> marks
    /\ made' = IF consumer = "create" THEN made \union {fetched} ELSE made
    /\ committed' = IF consumer = "commit" THEN fetched ELSE committed
    /\ UNCHANGED fetched

\* Only the reader still acts for a caller whose ctx was done before the call.
CanAct == begun["consumer"] \/ (consumer = "commit" /\ "reader" \in open)

AfterSuccess ==
    CASE consumer = "seen" -> IF fetched \in marks THEN "commit" ELSE "create"
      [] consumer = "create" -> "commit"
      [] consumer = "forget" -> "ended"
      [] consumer = "commit" -> "fetch"

ConsumerCall ==
    /\ Running /\ CanAct
    /\ consumer \in {"seen", "create", "forget", "commit"}
    /\ Effect
    /\ ConsumerGoto(AfterSuccess)

\* Mutant: Run goes on with the message of a FetchMessage that failed.
AfterErrorUnchecked ==
    CASE consumer = "fetch" -> "seen" [] consumer = "create" -> "forget" [] OTHER -> "ended"

\* Mutant: process hides the error of a create, so its message is committed.
AfterErrorHidden == CASE consumer = "create" -> "commit" [] OTHER -> "ended"

AfterError == CASE consumer = "create" -> "forget" [] OTHER -> "ended"

ConsumerCallFails ==
    /\ Running /\ MayFail
    /\ consumer \in {"fetch", "seen", "create", "forget", "commit"}
    /\ \/ CanAct /\ Effect
       \/ UNCHANGED messageVars
    /\ ConsumerGoto(AfterError)

RelayStep == Tick \/ RelayCall \/ RelayCallFails
ConsumerStep == Fetch \/ ConsumerCall \/ ConsumerCallFails
ServerStep == Listen \/ \E err \in {"closed", "failed"} : ServeEnds(err)

Exited == main = "exited" /\ UNCHANGED vars

-----------------------------------------------------------------------------
Next ==
    \/ MainStep \/ StartFails \/ Signal
    \/ ServerStep
    \/ \E r \in Requests : Arrive(r) \/ Respond(r)
    \/ RelayReturns \/ RelayStep
    \/ ConsumerStep
    \/ Exited

Spec == Init /\ [][Next]_vars

\* Goroutines run and calls return.  A request may take for ever.  A select that
\* meets the cancelled context again and again chooses it some day.
FairSpec ==
    /\ Spec
    /\ WF_vars(MainStep) /\ WF_vars(ServerStep)
    /\ WF_vars(RelayStep) /\ WF_vars(ConsumerStep)
    /\ SF_vars(RelayReturns)

-----------------------------------------------------------------------------
(***************************************************************************)
(* Properties.                                                             *)
(***************************************************************************)

\* The database, Redis and the producer are closed behind everyone who uses
\* them: requests, the relay and the consumer (order of the waits and defers).
ResourcesOutliveUsers ==
    main \notin Starting /\ Running =>
        /\ (Active # {} \/ consumer = "create" \/ relay \in {"poll", "mark"}) => "db" \in open
        /\ consumer \in {"seen", "forget"} => "redis" \in open
        /\ relay = "publish" => "producer" \in open

\* Exit code 0 means that no request was cut off and that both loops had ended.
GracefulExit ==
    main = "exited" /\ exitCode = 0 =>
        /\ \A r \in Requests : request[r] # "cut"
        /\ relay = "ended" /\ consumer = "ended"

\* Whatever the shutdown interrupts, at most one mark is without inspection, that
\* of the last message, and its offset is not committed.
OneOpenMark == \A m \in marks \ made : m = fetched /\ committed < m

\* "Undo the dedup mark so redelivery reprocesses this event": the loop goes on
\* from a failed create only when the mark is gone.
MarkUndone == [][consumer = "forget" /\ consumer' # "forget" => fetched \notin marks']_vars

\* A signal, or a server that fails, ends the process.
ProcessEnds == (cancelled \/ errCh = "failed") ~> main = "exited"

=============================================================================
