---------------------------- MODULE MCDnsLookup ----------------------------
(***************************************************************************)
(* DnsLookup with two offsets, one of which is found in the digits of the  *)
(* other, and every packet over them.                                      *)
(***************************************************************************)
EXTENDS DnsLookup

MCAttempts == 3
MCOffsets  == {"12", "112"}
MCQName    == "12"
MCContains == {<<"12", "12">>, <<"112", "112">>, <<"12", "112">>, <<"low", "12">>, <<"low", "112">>}
MCSize     == 3
MCRecords  == 2
=============================================================================
