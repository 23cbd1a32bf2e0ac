------------------------------ MODULE MCSession ------------------------------
(***************************************************************************)
(* Session with three attempts, so that a loop has a first, a middle and a *)
(* last round, and two prints told apart.                                  *)
(***************************************************************************)
EXTENDS Session

MCAttempts == 3
MCPrintCap == 2
=============================================================================
