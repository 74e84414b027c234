------------------------------- MODULE Broker ------------------------------
(***************************************************************************)
(* Messaging/PubSubBrokerBasic.cpp: a map from topics to subscribers.      *)
(* publish calls receive of each of them, in a single thread, before it    *)
(* returns; receive prints, so that the console is what all have received. *)
(***************************************************************************)
EXTENDS Naturals, Sequences, FiniteSets, SequencesExt

CONSTANTS Topics, Subscribers,
          MaxCalls      \* bound on the number of calls

VARIABLES subscribers,  \* subscribers[topic], in the order of subscription
          console,      \* [to, text]; a message is known by its place in calls
          calls         \* history: the calls made, [topic, sub]; <<>> for sub
                        \* is a publish

vars == <<subscribers, console, calls>>

Init == /\ subscribers = [topic \in Topics |-> <<>>]
        /\ console = <<>> /\ calls = <<>>

-----------------------------------------------------------------------------
(* subscribe does not look whether sub has subscribed before.              *)
subscribe(topic, sub) ==
    /\ Len(calls) < MaxCalls
    /\ subscribers' = [subscribers EXCEPT ![topic] = Append(@, sub)]
    /\ calls' = Append(calls, [topic |-> topic, sub |-> <<sub>>])
    /\ UNCHANGED console

publish_ToAll(topic) ==
    LET subs == FlattenSeq(SetToSeq({subscribers[t] : t \in Topics}))
    IN  /\ Len(calls) < MaxCalls
        /\ console' = console \o [i \in DOMAIN subs |->
                                     [to |-> subs[i], text |-> Len(calls) + 1]]
        /\ calls' = Append(calls, [topic |-> topic, sub |-> <<>>])
        /\ UNCHANGED subscribers

publish(topic) ==
    LET subs == subscribers[topic]
    IN  /\ Len(calls) < MaxCalls
        /\ console' = console \o [i \in DOMAIN subs |->
                                     [to |-> subs[i], text |-> Len(calls) + 1]]
        /\ calls' = Append(calls, [topic |-> topic, sub |-> <<>>])
        /\ UNCHANGED subscribers

Next == \E topic \in Topics : \/ publish(topic)
                              \/ \E sub \in Subscribers : subscribe(topic, sub)

Spec == Init /\ [][Next]_vars

-----------------------------------------------------------------------------
(* Every message reaches those who had subscribed to its topic when it was *)
(* published, once for each subscription, the earliest subscriber first,   *)
(* and the messages reach them in the order of publication.  A delivery is *)
(* the pair of a publish and an earlier subscription to its topic.         *)
Subscriptions(topic) == {i \in DOMAIN calls : calls[i].topic = topic /\ calls[i].sub # <<>>}
Deliveries == {d \in (DOMAIN calls) \X (DOMAIN calls) :
                   /\ calls[d[1]].sub = <<>>
                   /\ d[2] < d[1] /\ d[2] \in Subscriptions(calls[d[1]].topic)}
Before(d, e) == d[1] < e[1] \/ (d[1] = e[1] /\ d[2] < e[2])
Delivered ==
    /\ Len(console) = Cardinality(Deliveries)
    /\ \A d \in Deliveries :
          console[1 + Cardinality({e \in Deliveries : Before(e, d)})]
              = [to |-> calls[d[2]].sub[1], text |-> d[1]]
=============================================================================
