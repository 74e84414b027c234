---------------------------- MODULE FifoChannel ----------------------------
(***************************************************************************)
(* What a bounded blocking queue promises, whatever it is built from: the  *)
(* messages come out in the order in which they went in, each exactly      *)
(* once, and at most Capacity of them are in the channel.  sent and rcvd   *)
(* are the whole history of the two ends.                                  *)
(***************************************************************************)
EXTENDS Naturals, Sequences

CONSTANTS Messages, Capacity

VARIABLES sent, rcvd
vars == <<sent, rcvd>>

Init == sent = <<>> /\ rcvd = <<>>

Send(m) == /\ Len(sent) < Len(rcvd) + Capacity
           /\ sent' = Append(sent, m)
           /\ UNCHANGED rcvd

Receive == /\ Len(rcvd) < Len(sent)
           /\ rcvd' = Append(rcvd, sent[Len(rcvd) + 1])
           /\ UNCHANGED sent

Next == Receive \/ \E m \in Messages : Send(m)

Spec == Init /\ [][Next]_vars
=============================================================================
