---------------------------- MODULE MCTraceroute ----------------------------
(***************************************************************************)
(* Traceroute with three hops and three URLs, of which two rows are wanted.*)
(***************************************************************************)
EXTENDS Traceroute

MCN == 3
MCNUrls == 3
MCRows == 2
MCNetCap == 2
=============================================================================
