----------------------------- MODULE Traceroute -----------------------------
(***************************************************************************)
(* hw4: reportWork traces one host after the other and writes a row for    *)
(* each; packetHelper sends N echo requests with TTL 1 to N, reads the     *)
(* answers in any order, and sends again to the hops that are silent.      *)
(*                                                                         *)
(* The raw socket of a trace receives what answers an earlier trace as     *)
(* well, so answers in flight outlive a trace.  No other program traces at *)
(* the same time.  Time is abstracted: select may time out at any call.    *)
(***************************************************************************)
EXTENDS Integers, Sequences, FiniteSets

CONSTANTS
  N,       \* probes of a trace
  NUrls,   \* URLs in the queue
  Rows,    \* hosts reportWork wants: 10000
  NetCap   \* bound: answers to one hop's probes in flight at once

ASSUME TracerouteAssumption ==
  /\ N \in Nat \ {0} /\ NUrls \in Nat /\ Rows \in Nat \ {0} /\ NetCap \in Nat \ {0}

VARIABLES
  pc, i, q,          \* reportWork: place, loop index, URLs left
  hop_host, rows,    \* the hosts traced; the rows written, by host
  errorBreak, countSeq,
  probe, icmpComplete, printString,   \* pd
  net,               \* answers in flight, by hop
  errors,            \* is an ICMP error for this process in flight?
  extra              \* history: has something but a hop's first answer been counted?

reportVars == <<i, q, hop_host, rows>>
pd         == <<probe, icmpComplete, printString>>
vars       == <<pc, reportVars, errorBreak, countSeq, pd, net, errors, extra>>

Hops == 1..N
Url  == NUrls - q + 1   \* the host at the front of the queue

Ended == {"end", "exit", "threw", "crashed"}

Init ==
  /\ pc = "next" /\ i = 0 /\ q = NUrls /\ hop_host = <<>> /\ rows = <<>>
  /\ errorBreak = FALSE /\ countSeq = 1
  /\ probe = [s \in Hops |-> 1] /\ icmpComplete = [s \in Hops |-> FALSE]
  /\ printString = [s \in Hops |-> "none"]
  /\ net = [s \in Hops |-> 0] /\ errors = FALSE /\ extra = FALSE

-----------------------------------------------------------------------------
(* runMainFunction. *)

(* Probes to the hops in S: some are answered by the router where their TTL *)
(* ends, and some router may answer with an error.                          *)
Send(S) ==
  /\ \E answered \in SUBSET S :
       net' = [s \in Hops |-> IF s \in answered /\ net[s] < NetCap THEN net[s] + 1 ELSE net[s]]
  /\ errors' \in {errors, TRUE}

(* The loop's head. *)
ReportEnds ==
  /\ pc = "next" /\ (i >= Rows \/ q = 0)
  /\ pc' = "end"
  /\ UNCHANGED <<reportVars, errorBreak, countSeq, pd, net, errors, extra>>

FirstProbeAny(s) == s \* mutant
FirstProbe(s) == 1

(* The constructor, the packets and their first sends. *)
StartTrace ==
  /\ pc = "next" /\ i < Rows /\ q > 0
  /\ errorBreak' = FALSE /\ countSeq' = 1 /\ extra' = FALSE
  /\ probe' = [s \in Hops |-> FirstProbe(s)] /\ icmpComplete' = [s \in Hops |-> FALSE]
  /\ printString' = [s \in Hops |-> "none"]
  /\ Send(Hops)
  /\ pc' = "recv"
  /\ UNCHANGED reportVars

(* The host has no address.  Without a raw socket errorBreak is left        *)
(* uninitialised: then the same, or SendFails.                              *)
NoHost ==
  /\ pc = "next" /\ i < Rows /\ q > 0
  /\ errorBreak' = TRUE
  /\ pc' = "return"
  /\ UNCHANGED <<reportVars, countSeq, pd, net, errors, extra>>

(* setsockopt or sendto fails, in the first sends or in a later one. *)
SendFails ==
  /\ \/ pc = "next" /\ i < Rows /\ q > 0
     \/ pc = "retransmit" /\ \E s \in Hops : ~icmpComplete[s] /\ probe[s] < 3
  /\ pc' = "exit"
  /\ UNCHANGED <<reportVars, errorBreak, countSeq, pd, net, errors, extra>>

-----------------------------------------------------------------------------
(* recvPackets.  WSAEventSelect has made the socket non-blocking: once      *)
(* select finds it readable it is read until nothing is left.               *)

SelectTimeout ==
  /\ pc = "recv"
  /\ countSeq' = countSeq + 1 /\ extra' = TRUE
  /\ pc' = "check"
  /\ UNCHANGED <<reportVars, errorBreak, pd, net, errors>>

SelectError ==
  /\ pc = "recv"
  /\ pc' = "check"
  /\ UNCHANGED <<reportVars, errorBreak, countSeq, pd, net, errors, extra>>

(* A router reports that a probe's TTL has expired. *)
Expired(s) ==
  /\ pc \in {"recv", "drain"} /\ net[s] > 0
  /\ net' = [net EXCEPT ![s] = @ - 1]
  /\ countSeq' = countSeq + 1
  /\ extra' = (extra \/ printString[s] = "hop")
  /\ icmpComplete' = [icmpComplete EXCEPT ![s] = TRUE]
  /\ printString' = [printString EXCEPT ![s] = "hop"]
  /\ pc' = "drain"
  /\ UNCHANGED <<reportVars, errorBreak, probe, errors>>

UnrelatedCounted ==  \* mutant
  /\ pc = "recv"
  /\ countSeq' = countSeq + 1
  /\ pc' = "drain"
  /\ UNCHANGED <<reportVars, errorBreak, pd, net, errors, extra>>

(* Something else was readable, an echo reply for one; more of it changes   *)
(* nothing.                                                                 *)
Unrelated ==
  /\ pc = "recv"
  /\ pc' = "drain"
  /\ UNCHANGED <<reportVars, errorBreak, countSeq, pd, net, errors, extra>>

(* handleError. *)
IcmpError ==
  /\ pc \in {"recv", "drain"} /\ errors
  /\ errors' = FALSE /\ errorBreak' = TRUE
  /\ pc' = "return"
  /\ UNCHANGED <<reportVars, countSeq, pd, net, extra>>

(* recvfrom returns -1 and leaves the buffer zeroed, which the code takes   *)
(* for the echo reply: the host's line is prepared from pd[countSeq].       *)
Drained ==
  /\ pc = "drain"
  /\ pc' = "check"
  /\ UNCHANGED <<reportVars, errorBreak, countSeq, pd, net, errors, extra>>

-----------------------------------------------------------------------------
(* checkComplete, and the line of the host itself. *)

Complete == \A s \in Hops : icmpComplete[s]

NotComplete ==
  /\ pc = "check" /\ ~Complete
  /\ pc' = "retransmit"
  /\ UNCHANGED <<reportVars, errorBreak, countSeq, pd, net, errors, extra>>

LastLine ==
  /\ pc = "check" /\ Complete
  /\ printString' = [s \in Hops |-> IF s = countSeq THEN "last" ELSE printString[s]]
  /\ pc' = "return"
  /\ UNCHANGED <<reportVars, errorBreak, countSeq, probe, icmpComplete, net, errors, extra>>

(* pd[countSeq] lies beyond the array: reading or writing it may do harm. *)
Crash ==
  /\ countSeq > N
  /\ \/ pc = "drain"
     \/ pc = "check" /\ Complete
  /\ pc' = "crashed"
  /\ UNCHANGED <<reportVars, errorBreak, countSeq, pd, net, errors, extra>>

(* retransmitPackets: a hop is sent to three times, waited for once more,   *)
(* and given up.                                                            *)
CountedResent(s) == ~icmpComplete[s] /\ probe[s] < 3  \* mutant
Counted(s) == ~icmpComplete[s] /\ probe[s] <= 3

GivenUpNow(s) == ~icmpComplete[s] /\ probe[s] > 3

RetransmitPackets ==
  /\ pc = "retransmit"
  /\ Send({s \in Hops : Counted(s) /\ probe[s] < 3})
  /\ probe' = [s \in Hops |-> IF Counted(s) THEN probe[s] + 1 ELSE probe[s]]
  /\ icmpComplete' = [s \in Hops |-> icmpComplete[s] \/ GivenUpNow(s)]
  /\ printString' = [s \in Hops |-> IF GivenUpNow(s) THEN "star" ELSE printString[s]]
  /\ pc' = "recv"
  /\ UNCHANGED <<reportVars, errorBreak, countSeq, extra>>

-----------------------------------------------------------------------------
(* reportWork, after runMainFunction. *)

(* hop_host gets the host, the file its row. *)
Traced ==
  /\ pc = "return" /\ ~errorBreak
  /\ hop_host' = Append(hop_host, Url)
  /\ rows' = Append(rows, Url)
  /\ i' = i + 1 /\ q' = q - 1
  /\ pc' = "next"
  /\ UNCHANGED <<errorBreak, countSeq, pd, net, errors, extra>>

IndexBackNot == i \* mutant
IndexBack == i - 1

(* i-- and hop_host.at(i): the row before is written again, or at throws.   *)
Failed ==
  /\ pc = "return" /\ errorBreak
  /\ q' = q - 1
  /\ IF IndexBack \in 0..(Len(hop_host) - 1)
     THEN /\ rows' = Append(rows, hop_host[IndexBack + 1])
          /\ i' = IndexBack + 1
          /\ pc' = "next"
     ELSE pc' = "threw" /\ UNCHANGED <<rows, i>>
  /\ UNCHANGED <<hop_host, errorBreak, countSeq, pd, net, errors, extra>>

Report == ReportEnds \/ StartTrace \/ NoHost \/ Traced \/ Failed
Trace  == \/ SelectTimeout \/ SelectError \/ (\E s \in Hops : Expired(s)) \/ Unrelated
          \/ IcmpError \/ Drained \/ NotComplete \/ LastLine \/ Crash
          \/ RetransmitPackets \/ SendFails

Next == Report \/ Trace

Spec == Init /\ [][Next]_vars

(* The one thread runs; other programs' ICMP traffic leaves gaps.           *)
FairSpec == Spec /\ WF_vars(Next)

-----------------------------------------------------------------------------
(* Type invariant. *)
TypeOK ==
  /\ pc \in {"next", "recv", "drain", "check", "retransmit", "return"} \cup Ended
  /\ i \in Nat /\ q \in 0..NUrls
  /\ hop_host \in Seq(1..NUrls) /\ rows \in Seq(1..NUrls)
  /\ errorBreak \in BOOLEAN /\ countSeq \in Nat /\ extra \in BOOLEAN
  /\ probe \in [Hops -> 1..4] /\ icmpComplete \in [Hops -> BOOLEAN]
  /\ printString \in [Hops -> {"none", "hop", "star", "last"}]
  /\ net \in [Hops -> 0..NetCap] /\ errors \in BOOLEAN

(* Hops are given up only together, in the round in which no hop is left to *)
(* wait for: a star never stands while another hop is still probed.         *)
GiveUpTogether ==
  (\E s \in Hops : printString[s] = "star") => Complete

(* countSeq indexes pd, and leaves it only after a wait that timed out or a *)
(* second answer from some hop, or when every hop has answered, as the ones *)
(* before a host more than N hops away do.                                  *)
IndexInRange ==
  countSeq > N => extra \/ \A s \in Hops : printString[s] \in {"hop", "last"}

(* The file: every host that was traced has its rows, in order, one row for *)
(* each URL taken (that of the host before for one that failed); reportWork *)
(* is thrown out only if no host was traced before the first that fails.    *)
RowsFollowHosts ==
  /\ \A k \in 1..(Len(rows) - 1) : rows[k] <= rows[k + 1]
  /\ {rows[k] : k \in 1..Len(rows)} = {hop_host[k] : k \in 1..Len(hop_host)}
  /\ pc # "threw" => Len(rows) = NUrls - q
  /\ pc = "threw" => hop_host = <<>>

(* The report comes to an end. *)
ReportIsFinite == <>(pc \in Ended)
=============================================================================
