------------------------------- MODULE PubSub --------------------------------
(***************************************************************************)
(* The publish/subscribe drivers: one publisher, one topic, and subscriber *)
(* processes that each have a queue, connection or consumer group of their *)
(* own.  Messages are numbered in the order Publish is called.             *)
(*                                                                         *)
(* store[i] is what the subscriber i has still to take: the messages in    *)
(* the go channel of its connection (redis), in its queue (rabbitmq) or in *)
(* the log behind its committed offset (kafka).  The first `out` of them   *)
(* are with the process: the unacknowledged delivery of rabbitmq, the      *)
(* polled records of kafka, of which the first `marked` may be committed.  *)
(***************************************************************************)
EXTENDS Integers, Sequences, FiniteSets

CONSTANTS
    Instance,   \* subscriber processes
    Drivers,    \* the drivers considered
    Local,      \* the instances in the process of the publisher
    MaxFaults,  \* bound: lost connections, errors and crashes
    MaxStarts   \* bound: starts of a subscriber process

ASSUME PubSubConstants ==
    /\ IsFiniteSet(Instance)
    /\ Drivers \subseteq {"memory", "redis", "rabbitmq", "kafka"}
    /\ Local \subseteq Instance
    /\ {MaxFaults, MaxStarts} \subseteq Nat

VARIABLES
    driver,
    durable,    \* cfg.RabbitMQ.Durable
    link,       \* the publisher's connection is up (rabbitmq)
    result,     \* result[m]: what Publish has come to, and the queues m went to
    confirms,   \* the answers of the broker that are on their way or in the channel
    sub,        \* sub[i]: the state of process i
    store,
    handled,    \* history: handled[i], the messages handled, in order
    skipped,    \* history: records of fetches dropped for their errors
    faults

pubsubVars == <<driver, durable, link, result, confirms, sub, store, handled,
                skipped, faults>>

Off == [pc |-> "off", bound |-> FALSE, hand |-> <<>>, out |-> 0, marked |-> 0,
        asked |-> FALSE, starts |-> 0]

PubSubInit ==
    /\ driver \in Drivers
    /\ durable \in BOOLEAN
    /\ driver # "rabbitmq" => ~durable
    /\ link = TRUE
    /\ result = <<>>
    /\ confirms = <<>>
    /\ sub = [i \in Instance |-> Off]
    /\ store = [i \in Instance |-> <<>>]
    /\ handled = [i \in Instance |-> <<>>]
    /\ skipped = [i \in Instance |-> {}]
    /\ faults = 0

Fault == faults < MaxFaults /\ faults' = faults + 1

Ranges(s) == {s[k] : k \in DOMAIN s}

(***************************************************************************)
(* Publish.                                                                *)
(***************************************************************************)
Sending == \E m \in DOMAIN result : result[m].is = "open"

\* Who gets a message published now.
Audience ==
    CASE driver = "memory" -> {i \in Local : sub[i].bound}
      [] driver = "redis" -> {i \in Instance : sub[i].pc \in {"up", "stopping"}}
      [] driver = "rabbitmq" -> {i \in Instance : sub[i].bound}
      [] driver = "kafka" -> Instance

Put(to) ==
    store' = [i \in Instance |-> IF i \in to THEN Append(store[i], Len(result) + 1) ELSE store[i]]

Entered(is, to) == result' = Append(result, [is |-> is, to |-> to])

\* Publish of memory, redis and kafka: done in one step.
PublishNow ==
    /\ driver # "rabbitmq"
    /\ Put(Audience)
    /\ Entered("ok", Audience)
    /\ UNCHANGED <<driver, durable, link, confirms, sub, handled, skipped, faults>>

\* The broker is not reached, or its answer is not, or the context has ended.
PublishFails(cancelled) ==
    /\ driver \in {"redis", "kafka"}
    /\ IF cancelled THEN UNCHANGED faults ELSE Fault
    /\ \E to \in {{}, Audience} : Put(to) /\ Entered("error", to)
    /\ UNCHANGED <<driver, durable, link, confirms, sub, handled, skipped>>

\* rabbitmq: the message is on its way; the answer will be `ack`.
PublishSent(ack) ==
    /\ driver = "rabbitmq"
    /\ link
    /\ IF ack THEN UNCHANGED faults ELSE Fault
    /\ Put(IF ack THEN Audience ELSE {})
    /\ Entered("open", Audience)
    /\ confirms' = Append(confirms, ack)
    /\ UNCHANGED <<driver, durable, link, sub, handled, skipped>>

PublishRefused ==
    /\ driver = "rabbitmq"
    /\ ~link
    /\ Entered("error", {})
    /\ UNCHANGED <<driver, durable, link, confirms, sub, store, handled, skipped, faults>>

Settle(is) ==
    /\ Sending
    /\ result' = [result EXCEPT ![Len(result)].is = is]
    /\ UNCHANGED <<driver, durable, link, sub, store, handled, skipped, faults>>

\* Mutant: a nack counts as an answer.
PublishAnswered_AnyAnswer ==
    /\ confirms # <<>>
    /\ Settle("ok")
    /\ confirms' = Tail(confirms)

\* Whichever answer is first in the channel; it may be to an earlier message.
PublishAnswered ==
    /\ confirms # <<>>
    /\ Settle(IF Head(confirms) THEN "ok" ELSE "error")
    /\ confirms' = Tail(confirms)

\* The closed channel gives the zero Confirmation.
PublishCut ==
    /\ ~link
    /\ confirms = <<>>
    /\ Settle("error")
    /\ UNCHANGED confirms

\* confirmTimeout: logged, and nil is returned.
PublishTimesOut ==
    /\ Settle("slow")
    /\ UNCHANGED confirms

PublishCancelled ==
    /\ Settle("cancelled")
    /\ UNCHANGED confirms

\* Answers that are on their way are lost.
LinkLost ==
    /\ driver = "rabbitmq"
    /\ link
    /\ Fault
    /\ link' = FALSE
    /\ \E n \in 0..Len(confirms) : confirms' = SubSeq(confirms, 1, n)
    /\ UNCHANGED <<driver, durable, result, sub, store, handled, skipped>>

(***************************************************************************)
(* Subscribers.                                                            *)
(***************************************************************************)
SubscriberOnly == UNCHANGED <<driver, durable, link, result, confirms>>

\* A new process; RabbitMQSubscriber.Subscribe declares and binds the queue.
Subscribe(i) ==
    /\ sub[i].pc = "off"
    /\ sub[i].starts < MaxStarts
    /\ sub' = [sub EXCEPT ![i] = [Off EXCEPT !.pc = "ready", !.starts = sub[i].starts + 1,
                                             !.bound = driver \in {"memory", "rabbitmq"}]]
    /\ SubscriberOnly
    /\ UNCHANGED <<store, handled, skipped, faults>>

\* rabbitmq: a queue that cannot be declared is not consumed, nor is one whose
\* consumer is refused, and Run has nothing to wait for.
SubscribeFails(i) ==
    /\ driver = "rabbitmq"
    /\ sub[i].pc = "off" /\ sub[i].starts < MaxStarts
    /\ Fault
    /\ sub' = [sub EXCEPT ![i].pc = "cut", ![i].starts = @ + 1]
    /\ SubscriberOnly
    /\ UNCHANGED <<store, handled, skipped>>

RunSubscriber(i) ==
    /\ sub[i].pc = "ready"
    /\ sub' = [sub EXCEPT ![i].pc = IF driver = "memory" /\ sub[i].asked THEN "stopping" ELSE "up"]
    /\ SubscriberOnly
    /\ UNCHANGED <<store, handled, skipped, faults>>

\* The signal; only the first one has a receiver.  Before Run has set cancel it
\* is lost, except on the memory driver, whose Stop closes a channel.
StopSubscriber(i) ==
    /\ sub[i].pc \in {"ready", "up", "away"}
    /\ ~sub[i].asked
    /\ sub' = [sub EXCEPT ![i].asked = TRUE,
                          ![i].pc = IF @ = "ready" THEN @ ELSE "stopping"]
    /\ SubscriberOnly
    /\ UNCHANGED <<store, handled, skipped, faults>>

Waiting(i) == SubSeq(store[i], sub[i].out + 1, Len(store[i]))

Without(s, k) == SubSeq(s, 1, k - 1) \o SubSeq(s, k + 1, Len(s))

\* select takes a message or the end of the context, whichever it likes.
Receive(i) ==
    /\ \/ driver = "memory" /\ sub[i].bound
       \/ driver \in {"redis", "rabbitmq"} /\ sub[i].pc \in {"up", "away", "stopping"}
    /\ sub[i].hand = <<>>
    /\ Waiting(i) # <<>>
    /\ \E k \in DOMAIN Waiting(i) :
          /\ driver # "memory" => k = 1
          /\ sub' = [sub EXCEPT ![i].hand = <<Waiting(i)[k]>>,
                                ![i].out = IF driver = "rabbitmq" THEN 1 ELSE 0]
          /\ store' = IF driver = "rabbitmq" THEN store ELSE [store EXCEPT ![i] = Without(@, k)]
    /\ SubscriberOnly
    /\ UNCHANGED <<handled, skipped, faults>>

\* PollFetches: what was polled before may be committed from now on.
Poll(i) ==
    /\ driver = "kafka"
    /\ sub[i].pc = "up"
    /\ sub[i].hand = <<>>
    /\ \E n \in 1..Len(Waiting(i)) :
          /\ sub' = [sub EXCEPT ![i].hand = SubSeq(Waiting(i), 1, n), ![i].marked = sub[i].out,
                                ![i].out = @ + n]
    /\ SubscriberOnly
    /\ UNCHANGED <<store, handled, skipped, faults>>

\* A fetch with an error of some partition: `continue` drops its records.
PollErrors(i) ==
    /\ driver = "kafka"
    /\ sub[i].pc = "up"
    /\ sub[i].hand = <<>>
    /\ Fault
    /\ \E n \in 1..Len(Waiting(i)) :
          /\ skipped' = [skipped EXCEPT ![i] = @ \cup Ranges(SubSeq(Waiting(i), 1, n))]
          /\ sub' = [sub EXCEPT ![i].marked = sub[i].out, ![i].out = @ + n]
    /\ SubscriberOnly
    /\ UNCHANGED <<store, handled>>

AutoCommit(i) ==
    /\ sub[i].marked > 0
    /\ store' = [store EXCEPT ![i] = SubSeq(@, sub[i].marked + 1, Len(@))]
    /\ sub' = [sub EXCEPT ![i].marked = 0, ![i].out = @ - sub[i].marked]
    /\ SubscriberOnly
    /\ UNCHANGED <<handled, skipped, faults>>

\* Mutant: the delivery is not acknowledged.
Handle_NoAck(i) ==
    /\ sub[i].hand # <<>>
    /\ handled' = [handled EXCEPT ![i] = Append(@, Head(sub[i].hand))]
    /\ sub' = [sub EXCEPT ![i].hand = Tail(@), ![i].out = IF driver = "kafka" THEN @ ELSE 0]
    /\ SubscriberOnly
    /\ UNCHANGED <<store, skipped, faults>>

\* Mutant: a batch is handled from its end.
Handle_Backwards(i) ==
    /\ sub[i].hand # <<>>
    /\ handled' = [handled EXCEPT ![i] = Append(@, sub[i].hand[Len(sub[i].hand)])]
    /\ sub' = [sub EXCEPT ![i].hand = SubSeq(@, 1, Len(@) - 1)]
    /\ UNCHANGED store
    /\ SubscriberOnly
    /\ UNCHANGED <<skipped, faults>>

\* The handler returns, with an error or without: the message is acknowledged
\* or rejected without requeue, which here is the same.
Handle(i) ==
    /\ sub[i].hand # <<>>
    /\ handled' = [handled EXCEPT ![i] = Append(@, Head(sub[i].hand))]
    /\ IF driver = "rabbitmq" /\ sub[i].pc # "cut"
       THEN /\ store' = [store EXCEPT ![i] = Tail(@)]
            /\ sub' = [sub EXCEPT ![i].hand = Tail(@), ![i].out = 0]
       ELSE /\ sub' = [sub EXCEPT ![i].hand = Tail(@)]
            /\ UNCHANGED store
    /\ SubscriberOnly
    /\ UNCHANGED <<skipped, faults>>

\* The end of process i: exclusive queues and channels go with it, and what was
\* with the process is to be delivered again.
Gone(i) ==
    LET queue == driver = "rabbitmq" /\ durable IN
    /\ sub' = [sub EXCEPT ![i] = [Off EXCEPT !.starts = sub[i].starts, !.bound = queue]]
    /\ store' = [store EXCEPT ![i] = IF queue \/ driver = "kafka" THEN @ ELSE <<>>]

\* Mutant: Run returns only once everything is consumed.
SubscriberReturns_Drained(i) ==
    /\ sub[i].pc \in {"stopping", "cut"}
    /\ sub[i].hand = <<>>
    /\ store[i] = <<>>
    /\ Gone(i)
    /\ SubscriberOnly
    /\ UNCHANGED <<handled, skipped, faults>>

\* Run returns: Stop, or (rabbitmq) the delivery channel is closed; then the
\* process ends, but for the memory driver, whose bus keeps the handler.
\* PollFetches marks what was polled before it fails, and Close commits it.
SubscriberReturns(i) ==
    /\ sub[i].pc \in {"stopping", "cut"}
    /\ sub[i].hand = <<>>
    /\ CASE driver = "kafka" -> /\ sub' = [sub EXCEPT ![i] = [Off EXCEPT !.starts = sub[i].starts]]
                                /\ store' = [store EXCEPT ![i] = Waiting(i)]
         [] driver = "memory" -> /\ sub' = [sub EXCEPT ![i].pc = "returned"]
                                 /\ UNCHANGED store
         [] OTHER -> Gone(i)
    /\ SubscriberOnly
    /\ UNCHANGED <<handled, skipped, faults>>

Crash(i) ==
    /\ sub[i].pc # "off"
    /\ driver # "memory"
    /\ Fault
    /\ Gone(i)
    /\ SubscriberOnly
    /\ UNCHANGED <<handled, skipped>>

\* rabbitmq: the broker takes the delivery back, and the queue if it is exclusive.
ConnectionLost(i) ==
    /\ driver = "rabbitmq"
    /\ sub[i].pc \in {"ready", "up", "stopping"}
    /\ Fault
    /\ sub' = [sub EXCEPT ![i].pc = "cut", ![i].out = 0, ![i].bound = durable]
    /\ store' = IF durable THEN store ELSE [store EXCEPT ![i] = <<>>]
    /\ SubscriberOnly
    /\ UNCHANGED <<handled, skipped>>

\* redis: go-redis reconnects; until then there is no subscription.
Disconnected(i) ==
    /\ driver = "redis"
    /\ sub[i].pc = "up"
    /\ Fault
    /\ sub' = [sub EXCEPT ![i].pc = "away"]
    /\ SubscriberOnly
    /\ UNCHANGED <<store, handled, skipped>>

Reconnected(i) ==
    /\ sub[i].pc = "away"
    /\ sub' = [sub EXCEPT ![i].pc = "up"]
    /\ SubscriberOnly
    /\ UNCHANGED <<store, handled, skipped, faults>>

SubscriberStep(i) ==
    \/ Subscribe(i) \/ SubscribeFails(i) \/ RunSubscriber(i) \/ StopSubscriber(i)
    \/ SubscriberReturns(i) \/ Receive(i) \/ Poll(i) \/ PollErrors(i) \/ AutoCommit(i) \/ Handle(i)
    \/ Crash(i) \/ ConnectionLost(i) \/ Disconnected(i) \/ Reconnected(i)

(***************************************************************************)
(* Properties                                                              *)
(***************************************************************************)
PubSubTypeOK ==
    /\ driver \in Drivers
    /\ {durable, link} \subseteq BOOLEAN
    /\ \A m \in DOMAIN result : result[m].is \in {"open", "ok", "slow", "cancelled", "error"}
    /\ Len(confirms) <= Len(result)
    /\ \A i \in Instance :
          /\ sub[i].pc \in {"off", "ready", "up", "away", "stopping", "cut", "returned"}
          /\ sub[i].marked \in 0..sub[i].out
          /\ sub[i].out \in 0..Len(store[i])
          /\ Ranges(store[i]) \cup Ranges(handled[i]) \cup skipped[i] \subseteq DOMAIN result

\* No answer of the broker was left in the channel for m to take.
Trusted(m) ==
    /\ result[m].is = "ok"
    /\ \A n \in 1..(m - 1) : result[n].is \notin {"slow", "cancelled"}

\* With durable queues, and with kafka, a message whose Publish was confirmed is
\* not lost to any queue there was: it is handled, or still to be handled, or
\* went with a fetch that had errors; whatever crashes, stops and restarts.  It
\* holds only where no earlier Publish has left without its answer: a late
\* confirmation is taken for that of the next message.  (RabbitMQPublisher.Publish,
\* RabbitMQSubscriber.consume, KafkaSubscriber.Run.)
ConfirmedIsKept ==
    durable \/ driver = "kafka" =>
        \A m \in DOMAIN result : Trusted(m) =>
            \A i \in result[m].to :
                m \in Ranges(handled[i]) \cup Ranges(store[i]) \cup skipped[i]

\* A queue, a connection and a partition deliver in the order of publication: a
\* message handled for the first time is later than all that were handled
\* before, whatever was lost or delivered twice.  (Except on kafka one that was
\* dropped with a fetch, if the process ends before the drop is committed.)
OrderKept ==
    driver # "memory" =>
        \A i \in Instance : \A k \in DOMAIN handled[i] :
            LET before == {handled[i][h] : h \in 1..(k - 1)} IN
            \/ handled[i][k] \in before \cup skipped[i]
            \/ \A m \in before : m < handled[i][k]

\* A message is handled at most once by each process of an instance, so that only
\* a restart repeats one; on memory and redis at most once in all.  (consume and
\* its Ack, the automatic commits, Run.)
ReplaysNeedRestart ==
    \A i \in Instance : \A m \in Ranges(handled[i]) :
        LET times == Cardinality({k \in DOMAIN handled[i] : handled[i][k] = m}) IN
        /\ times <= sub[i].starts
        /\ driver \in {"memory", "redis"} => times = 1

=============================================================================
