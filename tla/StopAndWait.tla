----------------------------- MODULE StopAndWait -----------------------------
(***************************************************************************)
(* The stop-and-wait sender of hw3p2: main's calls of Open, Send and Close *)
(* with recvFrom under them, the thread statusThread that main joins, and, *)
(* as an external environment, a network that loses, delays and reorders   *)
(* datagrams and the course's receiver.                                    *)
(***************************************************************************)
EXTENDS Naturals

CONSTANTS
  NChunks,        \* calls of Send main makes
  Attempts,       \* REATTEMPTS_ALLOWED, for Open and Send
  CloseAttempts,  \* the 5 of Close's loop
  DupCap          \* dupAck saturates here; the code tests it for 3

ASSUME StopAndWaitAssumption ==
  /\ NChunks \in Nat \ {0}
  /\ Attempts \in Nat /\ Attempts > 1 /\ CloseAttempts \in Nat \ {0}
  /\ DupCap \in Nat /\ DupCap > 3

VARIABLES
  mpc,          \* the call main is in, or waits in for an answer
  done,         \* calls of Send that returned STATUS_OK
  attempt,      \* i of Open's and Send's loops, count of Close's
  base,         \* st.packetsSendBase
  dupAck,
  opened, breakThread,
  spc,          \* where the status thread is
  reqs,         \* datagrams on their way to the receiver
  acks,         \* ackSeq of answers on their way back or in the socket's buffer
  rcvNext,      \* receiver: length of its in-order prefix
  sent,         \* history: chunks that were put on the wire
  repeated,     \* history: was a datagram sent again, or duplicated on its way?
  finHeard,     \* history: has the receiver had a FIN?
  closed        \* history: has Close returned STATUS_OK?

callVars == <<done, base, dupAck>>
statVars == <<breakThread, spc>>
netVars  == <<acks, rcvNext>>
finVars  == <<finHeard, closed>>
vars     == <<mpc, attempt, opened, callVars, statVars, reqs, netVars, sent, repeated,
              finVars>>

Requests == [type : {"SYN", "DATA", "FIN"}, seq : 0..NChunks]
Bump(n)  == IF n < DupCap THEN n + 1 ELSE n

(* The constructor leaves opened as the stack had it; main has started the  *)
(* status thread.                                                           *)
Init ==
  /\ mpc = "start" /\ done = 0 /\ attempt = 1
  /\ base = 0 /\ dupAck = 0
  /\ opened \in BOOLEAN /\ breakThread = FALSE /\ spc = "wait"
  /\ reqs = {} /\ acks = {} /\ rcvNext = 0
  /\ sent = 0 /\ repeated = FALSE /\ finHeard = FALSE /\ closed = FALSE

-----------------------------------------------------------------------------
(* A round of a loop: sendto, and into select. *)
Transmit(type, seq, first, next) ==
  /\ attempt' = attempt + 1
  /\ reqs' = reqs \cup {[type |-> type, seq |-> seq]}
  /\ repeated' = (repeated \/ attempt # first)
  /\ mpc' = next

(* recvfrom of an answer, of which the network may have made a second one.  *)
Take(a) == /\ acks' \in {acks, acks \ {a}}
           /\ repeated' = (repeated \/ acks' = acks)

(* Open: ALREADY_CONNECTED, no socket, INVALID_NAME; sendto or recvfrom     *)
(* fails; or no SYN was answered.  main returns.                            *)
OpenFails ==
  /\ mpc \in {"start", "syn", "synWait"}
  /\ mpc' = "ended" /\ opened' = FALSE
  /\ UNCHANGED <<attempt, callVars, statVars, reqs, netVars, sent, repeated, finVars>>

SendSyn ==
  /\ mpc = "syn" \/ (mpc = "start" /\ ~opened)
  /\ attempt < Attempts
  /\ Transmit("SYN", 0, 1, "synWait")
  /\ UNCHANGED <<opened, callVars, statVars, netVars, sent, finVars>>

(* recvFrom returns TIMEOUT; after the last round Open does too, and main   *)
(* returns.                                                                 *)
SynTimeout ==
  /\ mpc = "synWait"
  /\ mpc' = IF attempt < Attempts THEN "syn" ELSE "ended"
  /\ UNCHANGED <<attempt, opened, callVars, statVars, reqs, netVars, sent, repeated, finVars>>

(* Any datagram is the answer: opened = true. *)
SynAnswered ==
  /\ mpc = "synWait"
  /\ \E a \in acks : Take(a)
  /\ mpc' = "idle" /\ opened' = TRUE
  /\ UNCHANGED <<attempt, callVars, statVars, reqs, rcvNext, sent, finVars>>

-----------------------------------------------------------------------------
(* Send and recvFrom.                                                       *)

(* main calls Send for the next chunk, whose loop starts with i = 1. *)
CallSend ==
  /\ mpc = "idle" /\ done < NChunks
  /\ mpc' = "send" /\ attempt' = 1
  /\ UNCHANGED <<opened, callVars, statVars, reqs, netVars, sent, repeated, finVars>>

(* The header carries packetsSendBase, whatever chunk main passed. *)
SendDone ==  \* mutant
  /\ mpc = "send" /\ attempt < Attempts
  /\ Transmit("DATA", done, 1, "sendWait")
  /\ sent' = IF done >= sent THEN done + 1 ELSE sent
  /\ UNCHANGED <<opened, callVars, statVars, netVars, finVars>>

Send ==
  /\ mpc = "send" /\ attempt < Attempts
  /\ Transmit("DATA", base, 1, "sendWait")
  /\ sent' = base + 1
  /\ UNCHANGED <<opened, callVars, statVars, netVars, finVars>>

(* sendto or recvfrom fails, or the last round passes: main returns.        *)
SendFails ==
  /\ mpc \in {"send", "sendWait"}
  /\ mpc' = "ended"
  /\ UNCHANGED <<attempt, opened, callVars, statVars, reqs, netVars, sent, repeated, finVars>>

SendTimeoutOk ==  \* mutant
  /\ mpc = "sendWait"
  /\ mpc' = "idle" /\ done' = done + 1
  /\ UNCHANGED <<attempt, opened, base, dupAck, statVars, reqs, netVars, sent, repeated, finVars>>

SendTimeout ==
  /\ mpc = "sendWait" /\ attempt < Attempts
  /\ mpc' = "send"
  /\ UNCHANGED <<attempt, opened, callVars, statVars, reqs, netVars, sent, repeated, finVars>>

(* recvFrom after Open: only the next acknowledgment moves the base, the    *)
(* third that repeats it asks for a retransmission, any other is STATUS_OK. *)
Advances(a) == a = base + 1
RetxOccured(a) == a = base /\ Bump(dupAck) = 3

RecvFrom(a) ==
  /\ Take(a)
  /\ base' = IF Advances(a) THEN base + 1 ELSE base
  /\ dupAck' = IF a > base THEN 0 ELSE IF a = base THEN Bump(dupAck) ELSE dupAck

(* STATUS_OK: Send returns, and main goes on to the next chunk. *)
SendAnswered ==
  /\ mpc = "sendWait"
  /\ \E a \in acks : ~RetxOccured(a) /\ RecvFrom(a)
  /\ mpc' = "idle" /\ done' = done + 1
  /\ UNCHANGED <<attempt, opened, statVars, reqs, rcvNext, sent, finVars>>

(* RETX_OCCURED: the next round at once, or, after the last one, Send fails. *)
SendRetx ==
  /\ mpc = "sendWait"
  /\ \E a \in acks : RetxOccured(a) /\ RecvFrom(a)
  /\ mpc' = IF attempt < Attempts THEN "send" ELSE "ended"
  /\ UNCHANGED <<attempt, opened, done, statVars, reqs, rcvNext, sent, finVars>>

-----------------------------------------------------------------------------
(* main stops and joins the status thread, then Close.                      *)

SetBreak ==
  /\ mpc = "idle" /\ done = NChunks
  /\ breakThread' = TRUE
  /\ mpc' = "join"
  /\ UNCHANGED <<attempt, opened, callVars, spc, reqs, netVars, sent, repeated, finVars>>

(* statusEvent holds the thread's handle by now. *)
Join ==
  /\ mpc = "join" /\ spc = "exited"
  /\ mpc' = "fin" /\ attempt' = 0
  /\ UNCHANGED <<opened, callVars, statVars, reqs, netVars, sent, repeated, finVars>>

SendFin ==
  /\ mpc = "fin" /\ attempt < CloseAttempts
  /\ Transmit("FIN", base, 0, "finWait")
  /\ UNCHANGED <<opened, callVars, statVars, netVars, sent, finVars>>

(* sendto or recvfrom fails. *)
CloseFails ==
  /\ mpc \in {"fin", "finWait"}
  /\ mpc' = "ended"
  /\ UNCHANGED <<attempt, opened, callVars, statVars, reqs, netVars, sent, repeated, finVars>>

FinNextRound == IF attempt < CloseAttempts THEN "fin" ELSE "ended"

FinTimeout ==
  /\ mpc = "finWait"
  /\ mpc' = FinNextRound
  /\ UNCHANGED <<attempt, opened, callVars, statVars, reqs, netVars, sent, repeated, finVars>>

(* Close reads its answer with recvFrom, which takes it for one to data:    *)
(* the third repetition of the base is answered by another FIN.             *)
FinAnswered ==
  /\ mpc = "finWait"
  /\ \E a \in acks : /\ RecvFrom(a)
                     /\ mpc' = IF RetxOccured(a) THEN FinNextRound ELSE "ended"
                     /\ closed' = ~RetxOccured(a)
  /\ UNCHANGED <<attempt, opened, done, statVars, reqs, rcvNext, sent, finHeard>>

Main == \/ OpenFails \/ SendSyn \/ SynTimeout \/ SynAnswered
        \/ CallSend \/ Send \/ SendFails \/ SendTimeout \/ SendAnswered \/ SendRetx
        \/ SetBreak \/ Join \/ SendFin \/ CloseFails \/ FinTimeout \/ FinAnswered

-----------------------------------------------------------------------------
(* statusThread.  It waits on an event nobody raises, or on its own handle: *)
(* the wait always ends by its timeout.                                     *)

StatsWake ==
  /\ spc = "wait" /\ mpc # "ended"
  /\ spc' = IF opened THEN "check" ELSE "exited"
  /\ UNCHANGED <<mpc, attempt, opened, callVars, breakThread, reqs, netVars, sent, repeated,
                 finVars>>

StatsCheckNot ==  \* mutant
  /\ spc = "check" /\ mpc # "ended"
  /\ spc' = "wait"
  /\ UNCHANGED <<mpc, attempt, opened, callVars, breakThread, reqs, netVars, sent, repeated,
                 finVars>>

(* Exit on breakThread, or print and wait again. *)
StatsCheck ==
  /\ spc = "check" /\ mpc # "ended"
  /\ spc' = IF breakThread THEN "exited" ELSE "wait"
  /\ UNCHANGED <<mpc, attempt, opened, callVars, breakThread, reqs, netVars, sent, repeated,
                 finVars>>

Stats == StatsWake \/ StatsCheck

-----------------------------------------------------------------------------
(* The network and the receiver, which are not part of the repository.  The *)
(* receiver answers every datagram with its in-order prefix; answers of the *)
(* same value that wait together are one.                                   *)

Deliver(r) ==
  /\ reqs' = reqs \ {r}
  /\ rcvNext' = IF r.type = "DATA" /\ r.seq = rcvNext THEN rcvNext + 1 ELSE rcvNext
  /\ acks' = acks \cup {rcvNext'}
  /\ finHeard' = (finHeard \/ r.type = "FIN")
  /\ UNCHANGED <<mpc, attempt, opened, callVars, statVars, sent, repeated, closed>>

LoseRequest(r) ==
  /\ reqs' = reqs \ {r}
  /\ UNCHANGED <<mpc, attempt, opened, callVars, statVars, netVars, sent, repeated, finVars>>

LoseAck(a) ==
  /\ acks' = acks \ {a}
  /\ UNCHANGED <<mpc, attempt, opened, callVars, statVars, reqs, rcvNext, sent, repeated, finVars>>

Network == /\ mpc # "ended"
           /\ \/ \E r \in reqs : Deliver(r) \/ LoseRequest(r)
              \/ \E a \in acks : LoseAck(a)

Next == Main \/ Stats \/ Network

Spec == Init /\ [][Next]_vars

(* Both threads are scheduled; nothing is asked of the network. *)
FairSpec == Spec /\ WF_vars(Main) /\ WF_vars(Stats)

-----------------------------------------------------------------------------
(* Type invariant; no loop passes its number of attempts. *)
TypeOK ==
  /\ mpc \in {"start", "syn", "synWait", "idle", "send", "sendWait", "join", "fin",
              "finWait", "ended"}
  /\ done \in 0..NChunks /\ base \in 0..NChunks
  /\ attempt \in 0..(Attempts + CloseAttempts)
  /\ mpc \in {"syn", "synWait", "send", "sendWait"} => attempt <= Attempts
  /\ mpc \in {"fin", "finWait"} => attempt <= CloseAttempts
  /\ dupAck \in 0..DupCap
  /\ opened \in BOOLEAN /\ breakThread \in BOOLEAN
  /\ spc \in {"wait", "check", "exited"}
  /\ reqs \subseteq Requests /\ acks \subseteq 0..NChunks
  /\ rcvNext \in 0..NChunks /\ sent \in 0..NChunks /\ repeated \in BOOLEAN
  /\ finHeard \in BOOLEAN /\ closed \in BOOLEAN

(* recvFrom's branch for acknowledgments out of order is never taken: none  *)
(* passes the chunk being sent, so the base never misses one.               *)
AcksInWindow == \A a \in acks : a <= base + 1

(* Sends that returned STATUS_OK are acknowledged sends, but for answers    *)
(* that repeat the base: those exist only once some datagram was sent again *)
(* or duplicated, and the base never passes what main handed over.          *)
LagOnlyAfterRepeat == base <= done /\ (base < done => repeated)

(* Close takes any answer for that to its FIN.  What it takes is one, and   *)
(* the receiver knows that the transfer is over, but after a repetition.    *)
ClosedOnFin == closed => finHeard \/ repeated

(* The status table: STATUS_OK is no error.  In fact main may be told so    *)
(* of a chunk that is not acknowledged.                                     *)
OkMeansAcked == mpc = "idle" => base = done

(* Whatever the network does main ends: all loops are bounded and the       *)
(* status thread lets main join it.                                         *)
MainEnds == <>(mpc = "ended")

Pipe == INSTANCE SlidingWindow
          WITH Window <- 1, got <- rcvNext, acked <- base

(* The sender is a sliding window of one chunk. *)
Implements == Pipe!Spec
=============================================================================
