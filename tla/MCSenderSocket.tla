---------------------------- MODULE MCSenderSocket ----------------------------
(***************************************************************************)
(* SenderSocket on small instances.  Four chunks over a ring of two slots  *)
(* are the least for which an extra grant after the first acknowledgment   *)
(* could overwrite a chunk that is outstanding.                            *)
(***************************************************************************)
EXTENDS SenderSocketProofs

MCW       == 2
MCNChunks == 4

(* For the runs that need no second round of the ring. *)
MCFewChunks == 3

(* A full chunk and a shorter last one. *)
MCChunkBytes == 2
MCLastBytes  == 1

(* A window below the ring's size and one above it, so that both arms of   *)
(* min(senderWindow, recvWnd) are taken and the window grows and shrinks.  *)
MCMixedWnds == {1, 3}

(* A receiver that always grants the whole ring. *)
MCFullWnds == {MCW}

(* numRTX is compared with 4 and dupAck with 3: 5 stands for all above.    *)
MCDupCap == 5
=============================================================================
