----------------------------- MODULE SenderSocket -----------------------------
(***************************************************************************)
(* The sliding-window UDP sender of hw3p3 between Open and Close: the main *)
(* thread in SenderSocket::Send, the worker thread in workerThreads and    *)
(* ReceiveACK, the two semaphores and the ring of packet slots they share, *)
(* and, as an external environment, a network that loses, duplicates and   *)
(* reorders datagrams and the course's receiver.                           *)
(*                                                                         *)
(* A chunk is its sequence number; its payload is the same number, so a    *)
(* datagram is whole exactly when its load is its seq.                     *)
(***************************************************************************)
EXTENDS Integers, FiniteSets

CONSTANTS
  W,           \* senderWindow: slots of the ring and greatest window
  NChunks,     \* chunks main cuts the buffer into
  Wnds,        \* receiver windows (in packets) the receiver may advertise
  ChunkBytes,  \* payload of every chunk but the last
  LastBytes,   \* payload of the last chunk
  DupCap,      \* dupAck and numRTX saturate here; the code tests them up to 5
  DataCap,     \* datagrams the path to the receiver holds, lost beyond it
  AckCap,      \* and those the path back and the socket's buffer hold
  Duplicates,  \* may the network deliver a datagram more than once?
  RecvErrors,  \* may recvfrom in ReceiveACK fail?
  TrackRtt     \* are the history variables ambiguous and retx kept?

ASSUME SenderAssumption ==
  /\ W \in Nat \ {0}
  /\ NChunks \in Nat \ {0}
  /\ Wnds \subseteq Nat /\ Wnds # {}
  /\ ChunkBytes \in Nat \ {0} /\ LastBytes \in 1..ChunkBytes
  /\ DupCap \in Nat /\ DupCap >= 5
  /\ DataCap \in Nat \ {0} /\ AckCap \in Nat \ {0}
  /\ Duplicates \in BOOLEAN /\ RecvErrors \in BOOLEAN /\ TrackRtt \in BOOLEAN

VARIABLES
  mpc,         \* where main is: in Send, or waiting for the worker
  sendSeq,     \* sendSequenceNumber
  closeCalled,
  slots,       \* packetsSharedQueue
  empty, full, \* counts of the two semaphores, both with maximum W
  wpc,         \* where the worker is in its loop
  base,        \* st.packetsSendBaseStats
  nextToSend,
  lastReleased,
  dupAck, duplicateAckCheck, numRTX,
  bytesTotal,  \* st.bytesTotal
  ambiguous,   \* has estimateRTT ever taken in the round trip of a resent chunk?
  sockOpen,    \* FALSE once ReceiveACK has closed the socket
  data, acks,  \* datagrams in flight to and from the receiver
  rcvBuf, rcvNext, rcvEdge, \* receiver: loads, in-order prefix, right window edge
  retx         \* history: has the chunk at the send base been sent again?

mainVars   == <<mpc, sendSeq, closeCalled>>
ackVars    == <<base, lastReleased, dupAck, duplicateAckCheck, numRTX, bytesTotal, ambiguous>>
workerVars == <<wpc, nextToSend, sockOpen, ackVars>>
rcvVars    == <<rcvBuf, rcvNext, rcvEdge>>
netVars    == <<data, acks, rcvVars, retx>>
vars       == <<mainVars, slots, empty, full, workerVars, netVars>>

Chunks == 0..(NChunks - 1)
None   == -1

MinOf(a, b) == IF a < b THEN a ELSE b
Bump(n)     == IF n < DupCap THEN n + 1 ELSE n
BytesOf(s)  == IF s = NChunks - 1 THEN LastBytes ELSE ChunkBytes

(* A slot as new[] leaves it, and one that holds the whole chunk s. *)
Blank    == [seq |-> None, load |-> None, size |-> 0]
Whole(s) == [seq |-> s, load |-> s, size |-> BytesOf(s)]

Packets   == [seq : Chunks \cup {None}, load : Chunks \cup {None}, size : Nat]
Datagrams == [seq : Chunks, load : Chunks \cup {None}]
AckSet    == [ack : 0..NChunks, wnd : Wnds]

-----------------------------------------------------------------------------
(* sendSequenceNumber, nextToSend and packetsSendBaseStats % senderWindow. *)
Slot(s) == s % W

(* Win32 semaphores: ReleaseSemaphore changes nothing when the count is not *)
(* positive or would exceed the maximum.                                    *)
ReleasedBelowMax(sem, n) == IF n > 0 /\ sem + n < W THEN sem + n ELSE sem \* mutant
Released(sem, n) == IF n > 0 /\ sem + n <= W THEN sem + n ELSE sem

(* A datagram put on a path that is full is lost. *)
Put(net, m, cap) == IF m \in net \/ Cardinality(net) < cap THEN net \cup {m} ELSE net

(* sendto of a slot.  The receiver drops what carries no valid header, so a *)
(* blank slot puts nothing on the wire, nor does a closed socket.           *)
Transmit(slot) ==
  LET p == slots[slot] IN
  /\ data' = IF sockOpen /\ p.seq # None
             THEN Put(data, [seq |-> p.seq, load |-> p.load], DataCap) ELSE data
  /\ retx' = (retx \/ (TrackRtt /\ p.seq = base /\ base < nextToSend))

(* What Open leaves when the SYN-ACK advertised w: the first tokens, and    *)
(* perhaps a second copy of that SYN-ACK still on its way.                  *)
Init ==
  /\ mpc = "idle" /\ sendSeq = 0 /\ closeCalled = FALSE
  /\ slots = [i \in 0..(W - 1) |-> Blank]
  /\ full = 0
  /\ wpc = "wait" /\ nextToSend = 0 /\ sockOpen = TRUE
  /\ base = 0 /\ dupAck = 0 /\ duplicateAckCheck = -1 /\ numRTX = 0
  /\ bytesTotal = 0 /\ ambiguous = FALSE
  /\ data = {} /\ retx = FALSE
  /\ rcvBuf = [s \in Chunks |-> [full |-> FALSE, load |-> None]] /\ rcvNext = 0
  /\ \E w \in Wnds :
       /\ rcvEdge = w
       /\ lastReleased = MinOf(W, w) /\ empty = MinOf(W, w)
       /\ \/ acks = {}
          \/ Duplicates /\ acks = {[ack |-> 0, wnd |-> w]}

-----------------------------------------------------------------------------
(* SenderSocket::Send, on the main thread.                                  *)

SendWaitNoToken ==  \* mutant
  /\ mpc = "idle" /\ sendSeq < NChunks
  /\ empty' = IF empty > 0 THEN empty - 1 ELSE 0
  /\ mpc' = "header"
  /\ UNCHANGED <<sendSeq, closeCalled, slots, full, workerVars, netVars>>

(* WaitForMultipleObjects on { closeConnection, empty }; closeConnection is *)
(* not set before main has sent everything.                                 *)
SendWait ==
  /\ mpc = "idle" /\ sendSeq < NChunks
  /\ empty > 0
  /\ empty' = empty - 1
  /\ mpc' = "header"
  /\ UNCHANGED <<sendSeq, closeCalled, slots, full, workerVars, netVars>>

(* p->size, and the header by the first memcpy_s. *)
SendHeader ==
  /\ mpc = "header"
  /\ slots' = [slots EXCEPT ![Slot(sendSeq)] =
                  [@ EXCEPT !.seq = sendSeq, !.size = BytesOf(sendSeq)]]
  /\ mpc' = "payload"
  /\ UNCHANGED <<sendSeq, closeCalled, empty, full, workerVars, netVars>>

(* The payload by the second memcpy_s. *)
SendPayload ==
  /\ mpc = "payload"
  /\ slots' = [slots EXCEPT ![Slot(sendSeq)] = [@ EXCEPT !.load = sendSeq]]
  /\ mpc' = "publish"
  /\ UNCHANGED <<sendSeq, closeCalled, empty, full, workerVars, netVars>>

(* sendSequenceNumber++, which the worker reads only once closeCalled is     *)
(* set, ReleaseSemaphore(full, 1), and return to main's loop.               *)
SendPublish ==
  /\ mpc = "publish"
  /\ sendSeq' = sendSeq + 1
  /\ full' = Released(full, 1)
  /\ mpc' = "idle"
  /\ UNCHANGED <<closeCalled, slots, empty, workerVars, netVars>>

(* main has handed over every chunk: ss.closeCalled = true. *)
CallClose ==
  /\ mpc = "idle" /\ sendSeq = NChunks
  /\ closeCalled' = TRUE
  /\ mpc' = "join"
  /\ UNCHANGED <<sendSeq, slots, empty, full, workerVars, netVars>>

(* main's WaitForSingleObject(ss.workers, INFINITE) returns. *)
Join ==
  /\ mpc = "join" /\ wpc = "done"
  /\ mpc' = "joined"
  /\ UNCHANGED <<sendSeq, closeCalled, slots, empty, full, workerVars, netVars>>

Main == SendWait \/ SendHeader \/ SendPayload \/ SendPublish
          \/ CallClose \/ Join

-----------------------------------------------------------------------------
(* SenderSocket::workerThreads.                                             *)

(* The test at the head of the loop, with b the new send base.  Only main's *)
(* one assignment to closeCalled can fall between the end of an iteration   *)
(* and this test, and the worker reads it nowhere else: they are one step.  *)
NextIterationClosed(b) == wpc' = IF closeCalled THEN "done" ELSE "wait" \* mutant
NextIteration(b) == wpc' = IF closeCalled /\ b = sendSeq THEN "done" ELSE "wait"

(* WaitForMultipleObjects gives up: full has no token and no datagram has   *)
(* arrived (acks holds those in flight too).                                *)
WaitTimeout ==
  /\ wpc = "wait" /\ full = 0
  /\ wpc' = "timeout"
  /\ UNCHANGED <<mainVars, slots, empty, full, nextToSend, sockOpen, ackVars, netVars>>

TimeoutSilent ==  \* mutant
  /\ wpc = "timeout"
  /\ NextIteration(base)
  /\ UNCHANGED <<mainVars, slots, empty, full, nextToSend, sockOpen, ackVars, netVars>>

(* case WAIT_TIMEOUT: whatever the slot of the send base holds is sent.     *)
Timeout ==
  /\ wpc = "timeout"
  /\ Transmit(Slot(base))
  /\ NextIteration(base)
  /\ UNCHANGED <<mainVars, slots, empty, full, nextToSend, sockOpen, ackVars,
                 acks, rcvVars>>

(* case WAIT_OBJECT_0 + 1: a token of full, the slot of nextToSend.         *)
SendNext ==
  /\ wpc = "wait" /\ full > 0
  /\ full' = full - 1
  /\ Transmit(Slot(nextToSend))
  /\ nextToSend' = nextToSend + 1
  /\ NextIteration(base)
  /\ UNCHANGED <<mainVars, slots, empty, sockOpen, ackVars, acks, rcvVars>>

-----------------------------------------------------------------------------
(* SenderSocket::ReceiveACK, case WAIT_OBJECT_0 of the worker's switch.     *)

Consume(a) ==
  /\ wpc = "wait" /\ sockOpen /\ a \in acks
  /\ acks' \in {acks \ {a}} \cup (IF Duplicates THEN {acks} ELSE {})
  /\ NextIteration(IF a.ack > base THEN a.ack ELSE base)
  /\ UNCHANGED <<mainVars, slots, full, nextToSend, sockOpen, rcvVars>>

StaleAck(a) ==
  /\ a.ack < base
  /\ Consume(a)
  /\ UNCHANGED <<empty, ackVars, data, retx>>

MovesAny(a) == a.ack # base \* mutant
Moves(a) == a.ack > base

(* bytesTotal counts the slot of the last acked chunk, and full chunks below. *)
AckedBytesNext(a) == slots[Slot(a.ack)].size + (a.ack - base - 1) * ChunkBytes \* mutant
AckedBytes(a) == slots[Slot(a.ack - 1)].size + (a.ack - base - 1) * ChunkBytes

(* Number of chunks main may have sent in all once a is processed.          *)
GrantAll(a)     == a.ack + W                      \* mutant
GrantNoMin(a)   == a.ack + a.wnd                  \* mutant
GrantOneMore(a) == a.ack + MinOf(W, a.wnd) + 1    \* mutant
Grant(a) == a.ack + MinOf(W, a.wnd)

ForgetDupsButCheck == dupAck' = 0 /\ numRTX' = 0 /\ UNCHANGED duplicateAckCheck \* mutant
ForgetDups == dupAck' = 0 /\ numRTX' = 0 /\ duplicateAckCheck' = -1

(* The acknowledgment moves the send base forward.  Its round trip is taken *)
(* when one chunk is acked and no acknowledgment repeated the send base.    *)
NewAck(a) ==
  /\ Moves(a)
  /\ Consume(a)
  /\ bytesTotal' = bytesTotal + AckedBytes(a)
  /\ ambiguous' = (ambiguous \/ /\ dupAck = 0 /\ Bump(numRTX) = 1 /\ a.ack - 1 = base
                                /\ retx)
  /\ base' = a.ack
  /\ ForgetDups
  /\ lastReleased' = Grant(a)
  /\ empty' = Released(empty, Grant(a) - lastReleased)
  /\ retx' = FALSE
  /\ UNCHANGED data

(* The acknowledgment repeats the send base.  The first repetition counts   *)
(* twice, so the second one retransmits.                                    *)
RepeatedAck(a) ==
  LET check == IF dupAck = 0 THEN a.ack ELSE duplicateAckCheck
      seen  == IF dupAck = 0 THEN 1 ELSE dupAck
  IN
  /\ a.ack = base
  /\ Consume(a)
  /\ numRTX' = Bump(numRTX)
  /\ IF check = a.ack
     THEN /\ duplicateAckCheck' = check /\ dupAck' = Bump(seen)
          /\ IF Bump(seen) = 3 THEN Transmit(Slot(base)) ELSE UNCHANGED <<data, retx>>
     ELSE /\ duplicateAckCheck' = IF Bump(numRTX) > 4 THEN -1 ELSE check
          /\ dupAck' = seen
          /\ UNCHANGED <<data, retx>>
  /\ UNCHANGED <<empty, base, lastReleased, bytesTotal, ambiguous>>

(* recvfrom fails (an ICMP port unreachable, say): the socket is closed and *)
(* the worker goes on.                                                      *)
RecvError ==
  /\ RecvErrors /\ wpc = "wait" /\ sockOpen
  /\ sockOpen' = FALSE
  /\ NextIteration(base)
  /\ UNCHANGED <<mainVars, slots, empty, full, nextToSend, ackVars, netVars>>

ReceiveACK(a) == StaleAck(a) \/ NewAck(a) \/ RepeatedAck(a)

Worker == \/ WaitTimeout \/ Timeout \/ SendNext \/ RecvError
          \/ \E a \in acks : ReceiveACK(a)

-----------------------------------------------------------------------------
(* The network and the receiver, which are not part of the repository.  The *)
(* receiver keeps the first load of every chunk inside its window, answers  *)
(* each datagram with its in-order prefix and a window that never takes     *)
(* back what it granted; its answer may be lost.                            *)

LoseData(m) ==
  /\ data' = data \ {m}
  /\ UNCHANGED <<mainVars, slots, empty, full, workerVars, acks, rcvVars, retx>>

ReceiveData(m, answered) ==
  /\ data' \in {data \ {m}} \cup (IF Duplicates THEN {data} ELSE {})
  /\ rcvBuf' = IF m.seq >= rcvNext /\ m.seq < rcvEdge /\ ~rcvBuf[m.seq].full
               THEN [rcvBuf EXCEPT ![m.seq] = [full |-> TRUE, load |-> m.load]]
               ELSE rcvBuf
  /\ \E n \in rcvNext..NChunks, w \in Wnds :
       /\ \A s \in rcvNext..(n - 1) : rcvBuf'[s].full
       /\ n < NChunks => ~rcvBuf'[n].full
       /\ n + w >= rcvEdge
       /\ rcvNext' = n /\ rcvEdge' = n + w
       /\ acks' = IF answered THEN Put(acks, [ack |-> n, wnd |-> w], AckCap) ELSE acks
  /\ UNCHANGED <<mainVars, slots, empty, full, workerVars, retx>>

Network == \E m \in data : \/ LoseData(m)
                           \/ \E answered \in BOOLEAN : ReceiveData(m, answered)

Next == Main \/ Worker \/ Network

Spec == Init /\ [][Next]_vars

(* Threads are scheduled; a datagram sent again and again is received again *)
(* and again; an acknowledgment in the socket's buffer is read.             *)
Fairness ==
  /\ WF_vars(Main) /\ WF_vars(Worker)
  /\ \A s \in Chunks :
       SF_vars(\E m \in data : m.seq = s /\ ReceiveData(m, TRUE))
  /\ \A n \in 0..NChunks : SF_vars(\E a \in acks : a.ack = n /\ ReceiveACK(a))

FairSpec == Spec /\ Fairness

-----------------------------------------------------------------------------
(* Type invariant. *)
TypeOK ==
  /\ mpc \in {"idle", "header", "payload", "publish", "join", "joined"}
  /\ sendSeq \in 0..NChunks /\ closeCalled \in BOOLEAN
  /\ slots \in [0..(W - 1) -> Packets]
  /\ empty \in 0..W /\ full \in 0..W
  /\ wpc \in {"wait", "timeout", "done"}
  /\ nextToSend \in 0..NChunks /\ sockOpen \in BOOLEAN
  /\ base \in 0..NChunks /\ lastReleased \in Nat
  /\ dupAck \in 0..DupCap /\ numRTX \in 0..DupCap
  /\ duplicateAckCheck \in -1..NChunks
  /\ bytesTotal \in Nat /\ ambiguous \in BOOLEAN /\ retx \in BOOLEAN
  /\ data \subseteq Datagrams /\ acks \subseteq AckSet
  /\ rcvBuf \in [Chunks -> [full : BOOLEAN, load : Chunks \cup {None}]]
  /\ rcvNext \in 0..NChunks /\ rcvEdge \in Nat

(* Chunks for which main holds a token but has not yet counted. *)
Held   == IF mpc \in {"header", "payload", "publish"} THEN 1 ELSE 0
(* Chunks whose header is in the ring, counted or not. *)
Headed == sendSeq + (IF mpc \in {"payload", "publish"} THEN 1 ELSE 0)

(* No token of empty is ever lost or minted: what main may still send is    *)
(* what ReceiveACK granted less what main has sent, and a grant never       *)
(* passes the end of the ring.                                              *)
TokenAccount == /\ empty + sendSeq + Held = lastReleased
                /\ lastReleased <= base + W

(* Each token of full stands for a published chunk not yet sent for one, so *)
(* no token sends a chunk ahead of main.  Not an equality: a chunk sent by  *)
(* Timeout may be acked before its token is taken, main then fills a slot   *)
(* ahead of the tokens, and a release of full is refused at its maximum.    *)
FullNeverAhead == full + nextToSend <= sendSeq

(* main never overwrites the slot of a chunk that is not acknowledged: a    *)
(* retransmission of an outstanding chunk always finds it whole.            *)
OutstandingIntact ==
  \A s \in Chunks : base <= s /\ s < sendSeq => slots[Slot(s)] = Whole(s)

(* Nothing is granted or put on the wire beyond the window the receiver     *)
(* advertised, whatever the order in which acknowledgments arrive.          *)
FlowControl == /\ lastReleased <= rcvEdge
               /\ \A m \in data : m.seq < rcvEdge

(* When the worker sends a slot main is still filling, the torn datagram    *)
(* pairs the new header with the load of the slot's last chunk, one that    *)
(* was acknowledged: a load never travels under two headers unacknowledged. *)
TornLoadIsAcked ==
  \A m \in data : m.load # m.seq =>
     m.load = None \/ (m.load = m.seq - W /\ m.load < base)

(* The worker leaves its loop only when the receiver has every chunk, and   *)
(* then bytesTotal, from which main prints the rate, is the buffer's size.  *)
DoneMeansDelivered ==
  wpc = "done" => /\ sendSeq = NChunks /\ rcvNext = NChunks
                  /\ bytesTotal = (NChunks - 1) * ChunkBytes + LastBytes

(* bytesTotal is exact after every acknowledgment: the slot it reads the    *)
(* last size from still holds, or already holds, the chunk acknowledged.    *)
GoodputExact ==
  bytesTotal = IF base = NChunks THEN (NChunks - 1) * ChunkBytes + LastBytes
                                 ELSE base * ChunkBytes

(* The repeated acknowledgments counted are those of the present send base, *)
(* so the branch of ReceiveACK that gives up after numRTX > 4 is never run. *)
DupsAreOfBase ==
  /\ dupAck = 0 => numRTX = 0 /\ duplicateAckCheck = -1
  /\ dupAck > 0 => numRTX > 0 /\ duplicateAckCheck = base

(* A late acknowledgment never takes a grant back nor moves the base back.  *)
GrantNeverShrinks == [][lastReleased' >= lastReleased /\ base' >= base]_vars

(* A token of full is lost only behind an acknowledgment that overtook the  *)
(* regular transmission of its chunk.                                       *)
FullLostOnlyBehindAck ==
  [][sendSeq' # sendSeq /\ full' = full => nextToSend < base]_vars

(* What the receiver holds is what main sent.  Send's comment says its      *)
(* copying needs no mutex; the code breaks this.                            *)
DataIntact == \A s \in Chunks : rcvBuf[s].full => rcvBuf[s].load = s

(* estimateRTT takes in no chunk that was sent again, as ReceiveACK's       *)
(* comment says; the code breaks this after a timeout.                      *)
NoAmbiguousSample == ~ambiguous

(* Under fairness the transfer ends, main's wait for the worker returning,  *)
(* unless ReceiveACK has closed the socket under the worker.                *)
Termination == <>(mpc = "joined" \/ ~sockOpen)

Pipe == INSTANCE SlidingWindow
          WITH Window <- W, sent <- Headed, got <- rcvNext, acked <- base

(* The sender is a sliding window: the in-order chunks the receiver has     *)
(* were put on the wire, those the sender believes delivered were received, *)
(* and at most W are unacknowledged, a chunk being sent from the moment its *)
(* header is in the ring.                                                   *)
Implements == Pipe!Spec
=============================================================================
