------------------------------ MODULE MCCrawler ------------------------------
(***************************************************************************)
(* Crawler with two threads, two hosts and two addresses, so that hosts    *)
(* may share an address and one thread may get a second page; a queue with *)
(* a host that comes twice, and one with a URL that does not parse and an  *)
(* empty URL.                                                              *)
(***************************************************************************)
EXTENDS Crawler

CONSTANTS h1, h2, a1, a2

MCN     == 2
MCHosts == {h1, h2}
MCIps   == {a1, a2}
MCFiles == {<<h1, h2, h1>>, <<Malformed, h1, Blank, h2>>}
=============================================================================
