----------------------------- MODULE LossyFifo -----------------------------
(***************************************************************************)
(* What a packet pipeline promises: packets are numbered as they come in,  *)
(* and each one goes out at most once and in the order of arrival.  Any    *)
(* packet may be lost or held back for good.  A pipeline that restarts     *)
(* (RestartingSpec) promises this of what has gone out since it did.       *)
(***************************************************************************)
EXTENDS Integers, Sequences

VARIABLES
    received,   \* the number of packets that have come in
    sent        \* the numbers of the packets that have gone out

LastSent == IF sent = <<>> THEN 0 ELSE sent[Len(sent)]

Receive == received' = received + 1 /\ UNCHANGED sent

Deliver == /\ \E i \in (LastSent + 1)..received : sent' = Append(sent, i)
           /\ UNCHANGED received

Init == received = 0 /\ sent = <<>>

Next == Receive \/ Deliver

Spec == Init /\ [][Next]_<<received, sent>>

Restart == sent' = <<>> /\ UNCHANGED received

RestartingSpec == Init /\ [][Next \/ Restart]_<<received, sent>>
===========================================================================
