------------------------------ MODULE Pipeline -------------------------------
(***************************************************************************)
(* cmd/scheduler and cmd/subscriber together: the handler of the scheduled *)
(* job homepage.tick publishes a message, which the subscriber processes   *)
(* receive.                                                                *)
(***************************************************************************)
EXTENDS Scheduler, PubSub

\* homepage.tick is the only job cmd/scheduler registers, and Publish has no other
\* caller: no two calls of it overlap.
ASSUME OneJob == \A j, k \in Job : j = k

VARIABLE publishing  \* the jobs whose handler is inside Publish

vars == <<schedulerVars, pubsubVars, publishing>>

Init ==
    /\ SchedulerInit
    /\ PubSubInit
    /\ publishing = {}

\* tick: the handler calls Publish.
TickPublishes(j) ==
    /\ loop[j].pc = "handler"
    /\ j \notin publishing
    /\ publishing' = publishing \cup {j}
    /\ PublishNow \/ PublishFails(Cancelled) \/ PublishRefused \/ \E ack \in BOOLEAN : PublishSent(ack)
    /\ UNCHANGED schedulerVars

\* The handler returns what Publish returned.
TickEnds(j) ==
    /\ j \in publishing
    /\ ~Sending
    /\ publishing' = publishing \ {j}
    /\ HandlerEnds(j)
    /\ UNCHANGED pubsubVars

SchedulerMoves ==
    /\ Pass \/ Run \/ Stop \/ RunReturns \/ \E j \in Job : Look(j) \/ LoopEnds(j)
    /\ UNCHANGED <<pubsubVars, publishing>>

PublishEnds ==
    \/ PublishAnswered
    \/ PublishCut
    \/ PublishTimesOut
    \/ Cancelled /\ PublishCancelled

BrokerMoves ==
    /\ PublishEnds \/ LinkLost \/ \E i \in Instance : SubscriberStep(i)
    /\ UNCHANGED <<schedulerVars, publishing>>

Next ==
    \/ SchedulerMoves
    \/ BrokerMoves
    \/ \E j \in Job : TickPublishes(j) \/ TickEnds(j)

\* The goroutines go on, Publish comes to an end, at the latest by its timeout,
\* and handlers return.  With the context ended, select may still take the timer
\* or a message, but with the runs bounded it cannot do so for ever; in the code
\* it chooses at random.  Nothing is assumed of the clock, of signals, of the
\* broker or of faults.
Fairness ==
    /\ WF_vars(RunReturns /\ UNCHANGED <<pubsubVars, publishing>>)
    /\ WF_vars(PublishEnds /\ UNCHANGED <<schedulerVars, publishing>>)
    /\ \A j \in Job :
          /\ WF_vars(LoopEnds(j) /\ UNCHANGED <<pubsubVars, publishing>>)
          /\ WF_vars(TickPublishes(j) \/ TickEnds(j))
    /\ \A i \in Instance :
          WF_vars((Handle(i) \/ SubscriberReturns(i)) /\ UNCHANGED <<schedulerVars, publishing>>)

Spec == Init /\ [][Next]_vars

FairSpec == Spec /\ Fairness

(***************************************************************************)
(* Properties                                                              *)
(***************************************************************************)
TypeOK ==
    /\ SchedulerTypeOK
    /\ PubSubTypeOK
    /\ publishing \subseteq Job

\* What holds of scheduler, broker and subscribers in every state: the types,
\* the order of delivery, and that a message is repeated only by a restart.
DeliveryInv == TypeOK /\ OrderKept /\ ReplaysNeedRestart

\* Stop ends Run, also when it comes before Run: the handler in progress gets
\* through its Publish, and every loop sees the context.  (cronWorker.Run.)
StopEndsScheduler == run = "running" /\ done ~> run = "returned"

\* A subscriber that is told to stop while it runs returns, from whatever it is
\* doing.  (One that is told before Run has set cancel is not covered: there
\* Stop does nothing.  The Run methods of the drivers.)
StopEndsSubscriber ==
    \A i \in Instance : sub[i].pc = "stopping" ~> sub[i].pc \in {"off", "returned"}

\* Run returns only when no handler is running: after it nothing is run, and no
\* Publish begins or ends, on a publisher that is being closed.  (wg.Wait in Run.)
QuietAfterRun ==
    [][run = "returned" => UNCHANGED <<runs, result>>]_vars

\* A signal to either process is the end of it, and an orderly one: both Run
\* methods return, the scheduler's only when its handlers have.
Shutdown == StopEndsScheduler /\ StopEndsSubscriber /\ QuietAfterRun

=============================================================================
