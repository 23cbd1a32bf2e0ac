----------------------------- MODULE MCPageRead -----------------------------
(***************************************************************************)
(* PageRead with buffers a thousandth of the real ones and a shorter limit. *)
(***************************************************************************)
EXTENDS PageRead

MCInitial   == 8
MCRobotMax  == 16
MCPageMax   == 64
MCMinHeader == 2
MCLimit     == 3
MCMaxUrls   == 2
=============================================================================
