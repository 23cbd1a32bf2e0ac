---------------------------- MODULE SlidingWindow ----------------------------
(***************************************************************************)
(* What the hw3p3 sender promises, with no threads, slots or datagrams:    *)
(* chunks are put on the wire in order, never more than Window of them     *)
(* beyond the acknowledged ones; the receiver's in-order prefix grows only *)
(* over chunks that were put on the wire; and the sender believes a chunk  *)
(* delivered only after the receiver has it.  SenderSocket implements it.  *)
(***************************************************************************)
EXTENDS Naturals

CONSTANTS NChunks,  \* number of chunks the application hands over
          Window    \* greatest number of unacknowledged chunks

VARIABLES sent,   \* chunks put on the wire, a prefix of the transfer
          got,    \* length of the receiver's in-order prefix
          acked   \* length of the prefix the sender knows was delivered

vars == <<sent, got, acked>>

Init == sent = 0 /\ got = 0 /\ acked = 0

Send == /\ sent < NChunks
        /\ sent < acked + Window
        /\ sent' = sent + 1
        /\ UNCHANGED <<got, acked>>

Receive == /\ \E n \in (got + 1)..sent : got' = n
           /\ UNCHANGED <<sent, acked>>

Acknowledge == /\ \E n \in (acked + 1)..got : acked' = n
               /\ UNCHANGED <<sent, got>>

Next == Send \/ Receive \/ Acknowledge

Spec == Init /\ [][Next]_vars
=============================================================================
