---------------------------- MODULE RabbitQueue ----------------------------
(***************************************************************************)
(* delay_queue/rabittmq/rabittmq.go: a publisher declares two exchanges and *)
(* two queues and publishes one message to the normal queue, where it       *)
(* expires into the dead queue, from which a consumer takes it.  Both are   *)
(* goroutines of one program, which can be run again, and the broker, which *)
(* is external, keeps nothing over a restart: nothing is declared durable.  *)
(* A message is the number of the run that publishes it.                    *)
(***************************************************************************)
EXTENDS Integers, Sequences

CONSTANTS MaxRuns,     \* bound: how often the program is run
          MaxRestarts  \* bound: how often the broker restarts

ASSUME RabbitAssumption == MaxRuns \in Nat /\ MaxRestarts \in Nat

VARIABLES declared,   \* the exchanges, queues and bindings of the broker
          normal,     \* the messages in the normal queue
          dead,       \* the messages in the dead queue
          dropped,    \* the messages that the broker had no queue for (history)
          restarts,   \* how often it has restarted
          running,    \* how many runs of the program there were
          publisher,  \* the step of Publish that the publishing goroutine takes next
          consumes,   \* where the consuming goroutine is
          connected,  \* which of the two have their connection
          received,   \* the messages delivered to the consumer, not acted on yet
          acted       \* how often each message was acted on (history)

brokerVars == <<declared, normal, dead, dropped, restarts>>
programVars == <<publisher, consumes, connected, received>>
rabbitVars == <<brokerVars, programVars, running, acted>>

Messages == 1..MaxRuns
Declarations == {"dead_exchange", "normal_exchange", "dead_queue", "normal_queue"}
Bindings == {"normal_binding", "dead_binding"}

\* NewRabitMq, Publish and DestroyMq.  Faulty, for mutation: the dead queue is
\* bound when the message is already on its way.
PublishEarly == <<"dial", "dead_exchange", "normal_exchange", "dead_queue", "normal_queue",
                  "normal_binding", "publish", "dead_binding", "destroy">>
Publish == <<"dial", "dead_exchange", "normal_exchange", "dead_queue", "normal_queue",
             "normal_binding", "dead_binding", "publish", "destroy">>
Over == Len(Publish) + 1

RabbitTypeOK ==
    /\ declared \subseteq Declarations \cup Bindings
    /\ normal \subseteq Messages /\ dead \subseteq Messages /\ dropped \subseteq Messages
    /\ restarts \in 0..MaxRestarts /\ running \in 0..MaxRuns
    /\ publisher \in 1..Over
    /\ consumes \in {"dials", "declares", "consumes", "receives", "hangs", "over"}
    /\ connected \subseteq {"publisher", "consumer"}
    /\ received \subseteq Messages /\ acted \in [Messages -> Nat]

RabbitInit ==
    /\ declared = {} /\ normal = {} /\ dead = {} /\ dropped = {} /\ restarts = 0
    /\ running = 0 /\ publisher = Over /\ consumes = "over" /\ connected = {} /\ received = {}
    /\ acted = [m \in Messages |-> 0]

-----------------------------------------------------------------------------
(* The program.                                                             *)

Stopped == publisher = Over /\ consumes = "over"

\* main starts both goroutines, once the last run is over.
Run ==
    /\ Stopped /\ running < MaxRuns
    /\ running' = running + 1
    /\ publisher' = 1 /\ consumes' = "dials"
    /\ UNCHANGED <<brokerVars, connected, received, acted>>

\* It is interrupted, or one of its goroutines panics: NewRabitMq if the broker
\* does not answer, a declaration if the connection is gone.
Crash ==
    /\ ~Stopped
    /\ publisher' = Over /\ consumes' = "over"
    /\ connected' = {} /\ received' = {}
    /\ UNCHANGED <<brokerVars, running, acted>>

At(step) == publisher < Over /\ Publish[publisher] = step

DialPublisher ==
    /\ At("dial")
    /\ connected' = connected \cup {"publisher"} /\ publisher' = publisher + 1
    /\ UNCHANGED <<brokerVars, consumes, received, running, acted>>

Declare(entity) ==
    /\ At(entity) /\ "publisher" \in connected
    /\ declared' = declared \cup {entity} /\ publisher' = publisher + 1
    /\ UNCHANGED <<normal, dead, dropped, restarts, consumes, connected, received, running, acted>>

\* The message goes to the queue that is bound, if one is.
SendMessage ==
    /\ At("publish") /\ "publisher" \in connected
    /\ publisher' = publisher + 1
    /\ IF "normal_binding" \in declared
       THEN normal' = normal \cup {running} /\ UNCHANGED dropped
       ELSE dropped' = dropped \cup {running} /\ UNCHANGED normal
    /\ UNCHANGED <<declared, dead, restarts, consumes, connected, received, running, acted>>

\* The errors of QueueBind and of Publish are dropped.
GoesOn ==
    /\ \E step \in Bindings \cup {"publish"} : At(step)
    /\ "publisher" \notin connected
    /\ publisher' = publisher + 1
    /\ UNCHANGED <<brokerVars, consumes, connected, received, running, acted>>

DestroyMq ==
    /\ At("destroy")
    /\ publisher' = publisher + 1 /\ connected' = connected \ {"publisher"}
    /\ UNCHANGED <<brokerVars, consumes, received, running, acted>>

\* Comsume: it declares the dead queue too.  If Consume fails msgs is nil, and the
\* goroutine waits on it for ever.
ConsumerStarts ==
    /\ \/ /\ consumes = "dials" /\ consumes' = "declares"
          /\ connected' = connected \cup {"consumer"} /\ UNCHANGED declared
       \/ /\ consumes = "declares" /\ "consumer" \in connected /\ consumes' = "consumes"
          /\ declared' = declared \cup {"dead_queue"} /\ UNCHANGED connected
       \/ /\ consumes = "consumes"
          /\ consumes' = IF "consumer" \in connected THEN "receives" ELSE "hangs"
          /\ UNCHANGED <<declared, connected>>
    /\ UNCHANGED <<normal, dead, dropped, restarts, publisher, received, running, acted>>

\* The delivery acknowledges itself.
Deliver(m) ==
    /\ consumes = "receives" /\ "consumer" \in connected /\ m \in dead
    /\ dead' = dead \ {m} /\ received' = received \cup {m}
    /\ UNCHANGED <<declared, normal, dropped, restarts, publisher, consumes, connected, running, acted>>

Handle(m) ==
    /\ m \in received
    /\ acted' = [acted EXCEPT ![m] = @ + 1] /\ received' = received \ {m}
    /\ UNCHANGED <<brokerVars, publisher, consumes, connected, running>>

\* A closed connection closes msgs: the loop ends after what it has received.
LoopEnds ==
    /\ consumes = "receives" /\ "consumer" \notin connected /\ received = {}
    /\ consumes' = "over"
    /\ UNCHANGED <<brokerVars, publisher, connected, received, running, acted>>

-----------------------------------------------------------------------------
(* The broker.                                                              *)

\* x-message-ttl has passed: the message goes to the dead letter exchange.
Expire(m) ==
    /\ m \in normal
    /\ normal' = normal \ {m}
    /\ IF "dead_binding" \in declared
       THEN dead' = dead \cup {m} /\ UNCHANGED dropped
       ELSE dropped' = dropped \cup {m} /\ UNCHANGED dead
    /\ UNCHANGED <<declared, restarts, programVars, running, acted>>

Restart ==
    /\ restarts < MaxRestarts
    /\ restarts' = restarts + 1
    /\ declared' = {} /\ normal' = {} /\ dead' = {} /\ connected' = {}
    /\ UNCHANGED <<dropped, publisher, consumes, received, running, acted>>

RabbitNext ==
    \/ Run \/ Crash \/ DialPublisher \/ SendMessage \/ GoesOn \/ DestroyMq
    \/ \E entity \in Declarations \cup Bindings : Declare(entity)
    \/ ConsumerStarts \/ LoopEnds
    \/ \E m \in Messages : Deliver(m) \/ Handle(m) \/ Expire(m)
    \/ Restart
RabbitSpec == RabbitInit /\ [][RabbitNext]_rabbitVars

-----------------------------------------------------------------------------
\* A message that expires finds the dead queue bound, also when the broker has
\* restarted between the publisher's steps, since the connection that Publish
\* sends on is older than its declarations; and it is acted on at most once,
\* although runs of the program share the queues (rabittmq.go:67-140, 163-171).
NotDroppedNorRepeated == dropped = {} /\ \A m \in Messages : acted[m] <= 1
=============================================================================
