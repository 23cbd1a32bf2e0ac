--------------------------- MODULE MCStopAndWait ---------------------------
(***************************************************************************)
(* StopAndWait with three chunks and two rounds per call (Attempts counts  *)
(* one more than the rounds): enough for a first, a repeated and a last    *)
(* round and for three repetitions of one acknowledgment.                  *)
(***************************************************************************)
EXTENDS StopAndWait

MCNChunks       == 3
MCAttempts      == 3
MCCloseAttempts == 2
MCDupCap        == 4
=============================================================================
