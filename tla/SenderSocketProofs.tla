-------------------------- MODULE SenderSocketProofs --------------------------
(***************************************************************************)
(* Safety of SenderSocket for every window, transfer length, set of        *)
(* receiver windows and bound.                                             *)
(***************************************************************************)
EXTENDS SenderSocket, TLAPS

-----------------------------------------------------------------------------
(* The inductive invariant, in named parts. *)

(* Where main and the worker are. *)
PcInv ==
  /\ mpc \in {"header", "payload", "publish"} => sendSeq < NChunks
  /\ closeCalled <=> mpc \in {"join", "joined"}
  /\ closeCalled => sendSeq = NChunks
  /\ wpc = "done" => closeCalled /\ base = sendSeq

(* The last W headed chunks are in the ring, whole but for the one main is  *)
(* copying; slots never reached are blank.                                  *)
RingInv ==
  /\ \A s \in Chunks : Headed - W <= s /\ s < sendSeq => slots[Slot(s)] = Whole(s)
  /\ mpc = "payload" => /\ slots[Slot(sendSeq)].seq = sendSeq
                        /\ slots[Slot(sendSeq)].size = BytesOf(sendSeq)
                        /\ slots[Slot(sendSeq)].load \in {None, sendSeq - W}
  /\ mpc = "publish" => slots[Slot(sendSeq)] = Whole(sendSeq)
  /\ \A i \in 0..(W - 1) : /\ i >= Headed => slots[i] = Blank
                           /\ slots[i].seq < Headed

(* Only chunks with a header in the ring are on the wire or received. *)
WireInv ==
  /\ \A m \in data : m.seq < Headed
  /\ \A s \in Chunks : rcvBuf[s].full => s < Headed
  /\ base <= rcvNext /\ rcvNext <= Headed

(* Acknowledgments in flight: none promises what the receiver has not, none *)
(* above the send base grants less than was granted, and they agree.        *)
AckInv ==
  /\ lastReleased <= rcvEdge
  /\ \A a \in acks : /\ a.ack <= rcvNext /\ a.ack + a.wnd <= rcvEdge
                     /\ a.ack > base => lastReleased <= a.ack + a.wnd
  /\ \A a, b \in acks : a.ack < b.ack => a.ack + a.wnd <= b.ack + b.wnd

IInv == /\ TypeOK /\ PcInv /\ TokenAccount /\ FullNeverAhead
        /\ RingInv /\ WireInv /\ AckInv /\ DupsAreOfBase

-----------------------------------------------------------------------------
(* Arithmetic of the ring. *)

(* A slot number is an index of the ring. *)
LEMMA SlotRange == ASSUME NEW s \in Nat PROVE Slot(s) \in 0..(W - 1)
  BY SenderAssumption DEF SenderAssumption, Slot

(* The first W chunks go to the slots of their own number. *)
LEMMA SlotSmall == ASSUME NEW s \in 0..(W-1) PROVE Slot(s) = s
  BY SenderAssumption DEF SenderAssumption, Slot

(* Chunks W apart share a slot. *)
LEMMA SlotBack == ASSUME NEW s \in Nat, s >= W PROVE Slot(s - W) = Slot(s)
<1> DEFINE q == s \div W  r == (s - W) \div W  d == (q - r) - 1
<1>0. W \in Nat /\ W > 0 BY SenderAssumption DEF SenderAssumption
<1>1. s = W * q + (s % W) /\ q \in Int /\ s % W \in 0..(W - 1) BY <1>0
<1>2. /\ s - W = W * r + ((s - W) % W) /\ r \in Int
      /\ (s - W) % W \in 0..(W - 1)
  BY <1>0
<1>3. W * d = (W * q - W * r) - W /\ d \in Int BY <1>0, <1>1, <1>2
<1>4. W * d = ((s - W) % W) - (s % W)
  <2> HIDE DEF q, r, d
  <2> QED BY <1>0, <1>1, <1>2, <1>3
<1>5. d = 0
  <2> HIDE DEF d, q, r
  <2>1. CASE d >= 1
    <3>1. W * d >= W BY <1>0, <1>3, <2>1
    <3> QED BY <3>1, <1>0, <1>1, <1>2, <1>4
  <2>2. CASE d <= -1
    <3>1. W * d <= -W BY <1>0, <1>3, <2>2
    <3> QED BY <3>1, <1>0, <1>1, <1>2, <1>4
  <2> QED BY <1>3, <2>1, <2>2
<1>6. W * d = 0 BY <1>5, <1>0
<1> HIDE DEF d, q, r
<1> QED BY <1>4, <1>6, <1>1, <1>2 DEF Slot

(* Chunks less than W apart do not share a slot. *)
LEMMA SlotDistinct ==
  ASSUME NEW s \in Nat, NEW t \in Nat, s < t, t < s + W
  PROVE  Slot(s) # Slot(t)
<1> SUFFICES ASSUME Slot(s) = Slot(t) PROVE FALSE OBVIOUS
<1> DEFINE q == s \div W  r == t \div W
<1>0. W \in Nat /\ W > 0 BY SenderAssumption DEF SenderAssumption
<1>1. s = W * q + (s % W) /\ q \in Int BY <1>0
<1>2. t = W * r + (t % W) /\ r \in Int BY <1>0
<1>3. t - s = W * r - W * q BY <1>1, <1>2, <1>0 DEF Slot
<1>4. W * r - W * q = W * (r - q) BY <1>1, <1>2, <1>0
<1>5. r - q <= 0 \/ r - q >= 1 BY <1>1, <1>2
<1>6. CASE r - q <= 0
  <2>1. W * (r - q) <= 0 BY <1>6, <1>0, <1>1, <1>2
  <2> QED BY <2>1, <1>3, <1>4, <1>0
<1>7. CASE r - q >= 1
  <2>1. W * (r - q) >= W BY <1>7, <1>0, <1>1, <1>2
  <2> QED BY <2>1, <1>3, <1>4, <1>0
<1> QED BY <1>5, <1>6, <1>7

(* Send taking a token keeps the invariant: the chunk moves from empty to *)
(* Held. *)
LEMMA SendWaitStep == ASSUME IInv, SendWait PROVE IInv'
<1> USE DEF SendWait, mainVars, workerVars, ackVars, netVars, rcvVars
<1>0. /\ TypeOK /\ PcInv /\ TokenAccount /\ FullNeverAhead
      /\ RingInv /\ WireInv /\ AckInv /\ DupsAreOfBase
  BY DEF IInv
<1>1. TypeOK' BY <1>0, SenderAssumption DEF TypeOK, SenderAssumption
<1>2. PcInv' BY <1>0 DEF PcInv, TypeOK
<1>3. TokenAccount' BY <1>0 DEF TokenAccount, Held, TypeOK
<1>4. FullNeverAhead' BY <1>0 DEF FullNeverAhead, TypeOK
<1>5. RingInv' BY <1>0 DEF RingInv, Headed
<1>6. WireInv' BY <1>0 DEF WireInv, Headed
<1>7. AckInv' BY <1>0 DEF AckInv
<1>8. DupsAreOfBase' BY <1>0 DEF DupsAreOfBase
<1> QED BY <1>1, <1>2, <1>3, <1>4, <1>5, <1>6, <1>7, <1>8 DEF IInv

(* Setting closeCalled keeps the invariant: main has sent every chunk. *)
LEMMA CallCloseStep == ASSUME IInv, CallClose PROVE IInv'
<1> USE DEF CallClose, mainVars, workerVars, ackVars, netVars, rcvVars
<1>0. /\ TypeOK /\ PcInv /\ TokenAccount /\ FullNeverAhead
      /\ RingInv /\ WireInv /\ AckInv /\ DupsAreOfBase
  BY DEF IInv
<1>1. TypeOK' BY <1>0, SenderAssumption DEF TypeOK, SenderAssumption
<1>2. PcInv' BY <1>0 DEF PcInv, TypeOK
<1>3. TokenAccount' BY <1>0 DEF TokenAccount, Held, TypeOK
<1>4. FullNeverAhead' BY <1>0 DEF FullNeverAhead, TypeOK
<1>5. RingInv' BY <1>0 DEF RingInv, Headed
<1>6. WireInv' BY <1>0 DEF WireInv, Headed
<1>7. AckInv' BY <1>0 DEF AckInv
<1>8. DupsAreOfBase' BY <1>0 DEF DupsAreOfBase
<1> QED BY <1>1, <1>2, <1>3, <1>4, <1>5, <1>6, <1>7, <1>8 DEF IInv

(* Main returning from its wait for the worker keeps the invariant. *)
LEMMA JoinStep == ASSUME IInv, Join PROVE IInv'
<1> USE DEF Join, mainVars, workerVars, ackVars, netVars, rcvVars
<1>0. /\ TypeOK /\ PcInv /\ TokenAccount /\ FullNeverAhead
      /\ RingInv /\ WireInv /\ AckInv /\ DupsAreOfBase
  BY DEF IInv
<1>1. TypeOK' BY <1>0, SenderAssumption DEF TypeOK, SenderAssumption
<1>2. PcInv' BY <1>0 DEF PcInv, TypeOK
<1>3. TokenAccount' BY <1>0 DEF TokenAccount, Held, TypeOK
<1>4. FullNeverAhead' BY <1>0 DEF FullNeverAhead, TypeOK
<1>5. RingInv' BY <1>0 DEF RingInv, Headed
<1>6. WireInv' BY <1>0 DEF WireInv, Headed
<1>7. AckInv' BY <1>0 DEF AckInv
<1>8. DupsAreOfBase' BY <1>0 DEF DupsAreOfBase
<1> QED BY <1>1, <1>2, <1>3, <1>4, <1>5, <1>6, <1>7, <1>8 DEF IInv

(* The worker giving up its wait keeps the invariant. *)
LEMMA WaitTimeoutStep == ASSUME IInv, WaitTimeout PROVE IInv'
<1> USE DEF WaitTimeout, mainVars, workerVars, ackVars, netVars, rcvVars
<1>0. /\ TypeOK /\ PcInv /\ TokenAccount /\ FullNeverAhead
      /\ RingInv /\ WireInv /\ AckInv /\ DupsAreOfBase
  BY DEF IInv
<1>1. TypeOK' BY <1>0, SenderAssumption DEF TypeOK, SenderAssumption
<1>2. PcInv' BY <1>0 DEF PcInv, TypeOK
<1>3. TokenAccount' BY <1>0 DEF TokenAccount, Held, TypeOK
<1>4. FullNeverAhead' BY <1>0 DEF FullNeverAhead, TypeOK
<1>5. RingInv' BY <1>0 DEF RingInv, Headed
<1>6. WireInv' BY <1>0 DEF WireInv, Headed
<1>7. AckInv' BY <1>0 DEF AckInv
<1>8. DupsAreOfBase' BY <1>0 DEF DupsAreOfBase
<1> QED BY <1>1, <1>2, <1>3, <1>4, <1>5, <1>6, <1>7, <1>8 DEF IInv

(* A failing recvfrom in ReceiveACK keeps the invariant. *)
LEMMA RecvErrorStep == ASSUME IInv, RecvError PROVE IInv'
<1> USE DEF RecvError, mainVars, workerVars, ackVars, netVars, rcvVars
<1>0. /\ TypeOK /\ PcInv /\ TokenAccount /\ FullNeverAhead
      /\ RingInv /\ WireInv /\ AckInv /\ DupsAreOfBase
  BY DEF IInv
<1>1. TypeOK' BY <1>0, SenderAssumption DEF TypeOK, SenderAssumption, NextIteration
<1>2. PcInv' BY <1>0 DEF PcInv, TypeOK, NextIteration
<1>3. TokenAccount' BY <1>0 DEF TokenAccount, Held, TypeOK
<1>4. FullNeverAhead' BY <1>0 DEF FullNeverAhead, TypeOK
<1>5. RingInv' BY <1>0 DEF RingInv, Headed
<1>6. WireInv' BY <1>0 DEF WireInv, Headed
<1>7. AckInv' BY <1>0 DEF AckInv
<1>8. DupsAreOfBase' BY <1>0 DEF DupsAreOfBase
<1> QED BY <1>1, <1>2, <1>3, <1>4, <1>5, <1>6, <1>7, <1>8 DEF IInv

(* While main holds a token there is a chunk for it. *)
LEMMA WritingFacts ==
  ASSUME IInv, mpc \in {"header", "payload", "publish"}
  PROVE  W \in Nat /\ W > 0 /\ NChunks \in Nat /\ sendSeq \in Nat /\ sendSeq \in Chunks
<1>1. W \in Nat /\ W > 0 /\ NChunks \in Nat BY SenderAssumption DEF SenderAssumption
<1>2. sendSeq \in 0..NChunks BY DEF IInv, TypeOK
<1>3. sendSeq < NChunks BY DEF IInv, PcInv
<1> QED BY <1>1, <1>2, <1>3 DEF Chunks

(* Writing a header keeps the invariant: by the token account the slot is *)
(* not one of the last W - 1 headed chunks. *)
LEMMA SendHeaderStep == ASSUME IInv, SendHeader PROVE IInv'
<1> USE DEF SendHeader, mainVars, workerVars, ackVars, netVars, rcvVars
<1> DEFINE j == Slot(sendSeq)
<1>0. /\ TypeOK /\ PcInv /\ TokenAccount /\ FullNeverAhead
      /\ RingInv /\ WireInv /\ AckInv /\ DupsAreOfBase
  BY DEF IInv
<1>a. W \in Nat /\ W > 0 /\ sendSeq \in Chunks /\ sendSeq \in Nat /\ NChunks \in Nat
  BY WritingFacts
<1>b. j \in 0..(W - 1) BY <1>a, SlotRange
<1>c. Headed = sendSeq /\ Headed' = sendSeq + 1 BY <1>a DEF Headed
<1>d. /\ slots \in [0..(W - 1) -> Packets] /\ slots' \in [0..(W - 1) -> Packets]
      /\ slots'[j].seq = sendSeq /\ slots'[j].size = BytesOf(sendSeq)
      /\ slots'[j].load = slots[j].load
      /\ \A i \in 0..(W - 1) : i # j => slots'[i] = slots[i]
  <2>1. BytesOf(sendSeq) \in Nat BY SenderAssumption DEF SenderAssumption, BytesOf
  <2>2. slots \in [0..(W - 1) -> Packets] BY <1>0 DEF TypeOK
  <2>3. slots[j] \in Packets BY <2>2, <1>b
  <2>4. [slots[j] EXCEPT !.seq = sendSeq, !.size = BytesOf(sendSeq)] \in Packets
    BY <2>1, <2>3, <1>a DEF Packets
  <2> QED BY <2>2, <2>3, <2>4, <1>b DEF Packets
<1>1. TypeOK' BY <1>0, <1>d, SenderAssumption DEF TypeOK, SenderAssumption
<1>2. PcInv' BY <1>0 DEF PcInv, TypeOK
<1>3. TokenAccount' BY <1>0 DEF TokenAccount, Held, TypeOK
<1>4. FullNeverAhead' BY <1>0 DEF FullNeverAhead, TypeOK
<1>5. RingInv'
  <2>1. \A s \in Chunks : Headed' - W <= s /\ s < sendSeq => slots'[Slot(s)] = Whole(s)
    <3> SUFFICES ASSUME NEW s \in Chunks, Headed' - W <= s, s < sendSeq
                 PROVE  slots'[Slot(s)] = Whole(s)
      OBVIOUS
    <3>1. s \in Nat /\ Slot(s) \in 0..(W - 1) BY <1>a, SlotRange DEF Chunks
    <3>2. sendSeq < s + W BY <1>a, <1>c, <3>1
    <3>3. Slot(s) # j BY <3>1, <3>2, <1>a, SlotDistinct
    <3>4. slots[Slot(s)] = Whole(s) BY <1>0, <1>a, <1>c, <3>1 DEF RingInv
    <3> QED BY <3>1, <3>3, <3>4, <1>d
  <2>2. slots[j].load \in {None, sendSeq - W}
    <3>1. CASE sendSeq >= W
      <4>1. sendSeq - W \in Chunks BY <3>1, <1>a DEF Chunks
      <4>2. Slot(sendSeq - W) = j BY <3>1, <1>a, SlotBack
      <4>3. slots[Slot(sendSeq - W)] = Whole(sendSeq - W)
        BY <4>1, <1>0, <1>a, <1>c DEF RingInv
      <4> QED BY <4>2, <4>3 DEF Whole
    <3>2. CASE sendSeq < W
      <4>1. j = sendSeq BY <3>2, <1>a, SlotSmall
      <4>2. slots[j] = Blank BY <4>1, <1>0, <1>b, <1>c, <1>a DEF RingInv
      <4> QED BY <4>2 DEF Blank
    <3> QED BY <3>1, <3>2, <1>a
  <2>3. \A i \in 0..(W - 1) : i >= Headed' => slots'[i] = Blank
    <3> SUFFICES ASSUME NEW i \in 0..(W - 1), i >= sendSeq + 1 PROVE slots'[i] = Blank
      BY <1>c
    <3>1. j = sendSeq BY <1>a, SlotSmall
    <3> QED BY <3>1, <1>0, <1>a, <1>c, <1>d DEF RingInv
  <2>4. \A i \in 0..(W - 1) : slots'[i].seq < Headed'
    <3> SUFFICES ASSUME NEW i \in 0..(W - 1) PROVE slots'[i].seq < sendSeq + 1
      BY <1>c
    <3>1. CASE i = j BY <3>1, <1>a, <1>d
    <3>2. CASE i # j
      <4>1. slots'[i] = slots[i] /\ slots[i].seq < sendSeq BY <3>2, <1>0, <1>c, <1>d DEF RingInv
      <4>2. slots[i].seq \in Int BY <1>d, <1>a DEF Packets, Chunks, None
      <4> QED BY <4>1, <4>2, <1>a
    <3> QED BY <3>1, <3>2
  <2> QED BY <2>1, <2>2, <2>3, <2>4, <1>d DEF RingInv
<1>6. WireInv'
  <2>1. \A m \in data : m.seq \in Int
    BY <1>0, SenderAssumption DEF TypeOK, Datagrams, Chunks, SenderAssumption
  <2>2. \A m \in data : m.seq < sendSeq + 1 BY <2>1, <1>0, <1>a, <1>c DEF WireInv
  <2>3. \A s \in Chunks : rcvBuf[s].full => s < sendSeq + 1
    BY <1>0, <1>a, <1>c DEF WireInv, Chunks
  <2>4. base <= rcvNext /\ rcvNext <= sendSeq + 1
    BY <1>0, <1>a, <1>c DEF WireInv, TypeOK
  <2> QED BY <2>2, <2>3, <2>4, <1>c DEF WireInv
<1>7. AckInv' BY <1>0 DEF AckInv
<1>8. DupsAreOfBase' BY <1>0 DEF DupsAreOfBase
<1> QED BY <1>1, <1>2, <1>3, <1>4, <1>5, <1>6, <1>7, <1>8 DEF IInv

(* Writing the payload keeps the invariant, and makes the slot whole. *)
LEMMA SendPayloadStep == ASSUME IInv, SendPayload PROVE IInv'
<1> USE DEF SendPayload, mainVars, workerVars, ackVars, netVars, rcvVars
<1> DEFINE j == Slot(sendSeq)
<1>0. /\ TypeOK /\ PcInv /\ TokenAccount /\ FullNeverAhead
      /\ RingInv /\ WireInv /\ AckInv /\ DupsAreOfBase
  BY DEF IInv
<1>a. W \in Nat /\ W > 0 /\ sendSeq \in Chunks /\ sendSeq \in Nat /\ NChunks \in Nat
  BY WritingFacts
<1>b. j \in 0..(W - 1) BY <1>a, SlotRange
<1>c. Headed = sendSeq + 1 /\ Headed' = sendSeq + 1 BY <1>a DEF Headed
<1>d. /\ slots' \in [0..(W - 1) -> Packets]
      /\ slots'[j] = Whole(sendSeq)
      /\ \A i \in 0..(W - 1) : i # j => slots'[i] = slots[i]
  <2>1. slots \in [0..(W - 1) -> Packets] BY <1>0 DEF TypeOK
  <2>2. slots[j] \in Packets BY <2>1, <1>b
  <2>3. slots[j].seq = sendSeq /\ slots[j].size = BytesOf(sendSeq) BY <1>0 DEF RingInv
  <2>4. [slots[j] EXCEPT !.load = sendSeq] = Whole(sendSeq)
    BY <2>2, <2>3 DEF Packets, Whole
  <2>5. [slots[j] EXCEPT !.load = sendSeq] \in Packets BY <2>2, <1>a DEF Packets
  <2> QED BY <2>1, <2>4, <2>5, <1>b
<1>1. TypeOK' BY <1>0, <1>d, SenderAssumption DEF TypeOK, SenderAssumption
<1>2. PcInv' BY <1>0 DEF PcInv, TypeOK
<1>3. TokenAccount' BY <1>0 DEF TokenAccount, Held, TypeOK
<1>4. FullNeverAhead' BY <1>0 DEF FullNeverAhead, TypeOK
<1>5. RingInv'
  <2>1. \A s \in Chunks : Headed' - W <= s /\ s < sendSeq => slots'[Slot(s)] = Whole(s)
    <3> SUFFICES ASSUME NEW s \in Chunks, Headed' - W <= s, s < sendSeq
                 PROVE  slots'[Slot(s)] = Whole(s)
      OBVIOUS
    <3>1. s \in Nat /\ Slot(s) \in 0..(W - 1) BY <1>a, SlotRange DEF Chunks
    <3>2. sendSeq < s + W BY <1>a, <1>c, <3>1
    <3>3. Slot(s) # j BY <3>1, <3>2, <1>a, SlotDistinct
    <3>4. slots[Slot(s)] = Whole(s) BY <1>0, <1>a, <1>c, <3>1 DEF RingInv
    <3> QED BY <3>1, <3>3, <3>4, <1>d
  <2>2. \A i \in 0..(W - 1) : /\ i >= Headed' => slots'[i] = Blank
                              /\ slots'[i].seq < Headed'
    <3> SUFFICES ASSUME NEW i \in 0..(W - 1)
                 PROVE  /\ i >= sendSeq + 1 => slots'[i] = Blank
                        /\ slots'[i].seq < sendSeq + 1
      BY <1>c
    <3>1. CASE i = j
      <4>1. slots'[i].seq = sendSeq BY <3>1, <1>d DEF Whole
      <4>2. ~(i >= sendSeq + 1) BY <3>1, <1>a, SlotSmall
      <4> QED BY <4>1, <4>2, <1>a
    <3>2. CASE i # j BY <3>2, <1>0, <1>c, <1>d DEF RingInv
    <3> QED BY <3>1, <3>2
  <2> QED BY <2>1, <2>2, <1>d DEF RingInv
<1>6. WireInv' BY <1>0, <1>c DEF WireInv
<1>7. AckInv' BY <1>0 DEF AckInv
<1>8. DupsAreOfBase' BY <1>0 DEF DupsAreOfBase
<1> QED BY <1>1, <1>2, <1>3, <1>4, <1>5, <1>6, <1>7, <1>8 DEF IInv

(* Counting and publishing the chunk keeps the invariant. *)
LEMMA SendPublishStep == ASSUME IInv, SendPublish PROVE IInv'
<1> USE DEF SendPublish, mainVars, workerVars, ackVars, netVars, rcvVars
<1>0. /\ TypeOK /\ PcInv /\ TokenAccount /\ FullNeverAhead
      /\ RingInv /\ WireInv /\ AckInv /\ DupsAreOfBase
  BY DEF IInv
<1>a. W \in Nat /\ W > 0 /\ sendSeq \in Chunks /\ sendSeq \in Nat /\ NChunks \in Nat
  BY WritingFacts
<1>c. Headed = sendSeq + 1 /\ Headed' = sendSeq + 1 BY <1>a DEF Headed
<1>1. TypeOK' BY <1>0, SenderAssumption DEF TypeOK, SenderAssumption, PcInv, Released
<1>2. PcInv' BY <1>0 DEF PcInv, TypeOK
<1>3. TokenAccount' BY <1>0 DEF TokenAccount, Held, TypeOK
<1>4. FullNeverAhead' BY <1>0 DEF FullNeverAhead, TypeOK, Released
<1>5. RingInv'
  <2>1. ASSUME NEW s \in Chunks, Headed' - W <= s, s < sendSeq + 1
        PROVE  slots[Slot(s)] = Whole(s)
    <3>1. s < sendSeq \/ s = sendSeq BY <1>a, <2>1 DEF Chunks
    <3> QED BY <2>1, <3>1, <1>0, <1>c DEF RingInv
  <2> QED BY <2>1, <1>0, <1>c DEF RingInv
<1>6. WireInv' BY <1>0, <1>c DEF WireInv
<1>7. AckInv' BY <1>0 DEF AckInv
<1>8. DupsAreOfBase' BY <1>0 DEF DupsAreOfBase
<1> QED BY <1>1, <1>2, <1>3, <1>4, <1>5, <1>6, <1>7, <1>8 DEF IInv

(* Sending any slot puts only headed chunks on the wire. *)
LEMMA TransmitFacts ==
  ASSUME IInv, NEW i \in 0..(W - 1), Transmit(i)
  PROVE  data' \subseteq Datagrams /\ retx' \in BOOLEAN /\ \A m \in data' : m.seq < Headed
<1> DEFINE d == [seq |-> slots[i].seq, load |-> slots[i].load]
<1>1. data' \subseteq data \cup {d} /\ (slots[i].seq = None => data' = data)
  BY DEF Transmit, Put
<1>2. slots[i] \in Packets /\ slots[i].seq < Headed BY DEF IInv, TypeOK, RingInv
<1>3. data \subseteq Datagrams /\ \A m \in data : m.seq < Headed BY DEF IInv, TypeOK, WireInv
<1>4. slots[i].seq # None => d \in Datagrams BY <1>2 DEF Packets, Datagrams
<1>5. d.seq < Headed BY <1>2
<1>6. retx' \in BOOLEAN BY DEF IInv, TypeOK, Transmit
<1> QED BY <1>1, <1>3, <1>4, <1>5, <1>6

(* The retransmission of WAIT_TIMEOUT keeps the invariant. *)
LEMMA TimeoutStep == ASSUME IInv, Timeout PROVE IInv'
<1> USE DEF Timeout, mainVars, workerVars, ackVars, netVars, rcvVars
<1>0. /\ TypeOK /\ PcInv /\ TokenAccount /\ FullNeverAhead
      /\ RingInv /\ WireInv /\ AckInv /\ DupsAreOfBase
  BY DEF IInv
<1>a. Slot(base) \in 0..(W - 1) BY <1>0, SlotRange DEF TypeOK
<1>b. data' \subseteq Datagrams /\ retx' \in BOOLEAN /\ \A m \in data' : m.seq < Headed
  BY <1>a, TransmitFacts
<1>1. TypeOK' BY <1>0, <1>b DEF TypeOK, NextIteration
<1>2. PcInv' BY <1>0 DEF PcInv, NextIteration
<1>3. TokenAccount' BY <1>0 DEF TokenAccount, Held
<1>4. FullNeverAhead' BY <1>0 DEF FullNeverAhead
<1>5. RingInv' BY <1>0 DEF RingInv, Headed
<1>6. WireInv' BY <1>0, <1>b DEF WireInv, Headed
<1>7. AckInv' BY <1>0 DEF AckInv
<1>8. DupsAreOfBase' BY <1>0 DEF DupsAreOfBase
<1> QED BY <1>1, <1>2, <1>3, <1>4, <1>5, <1>6, <1>7, <1>8 DEF IInv

(* The regular transmission keeps the invariant. *)
LEMMA SendNextStep == ASSUME IInv, SendNext PROVE IInv'
<1> USE DEF SendNext, mainVars, workerVars, ackVars, netVars, rcvVars
<1>0. /\ TypeOK /\ PcInv /\ TokenAccount /\ FullNeverAhead
      /\ RingInv /\ WireInv /\ AckInv /\ DupsAreOfBase
  BY DEF IInv
<1>a. Slot(nextToSend) \in 0..(W - 1) BY <1>0, SlotRange DEF TypeOK
<1>b. data' \subseteq Datagrams /\ retx' \in BOOLEAN /\ \A m \in data' : m.seq < Headed
  BY <1>a, TransmitFacts
<1>c. full \in Nat /\ nextToSend \in Nat /\ nextToSend < sendSeq
  BY <1>0, SenderAssumption DEF TypeOK, FullNeverAhead, SenderAssumption
<1>1. TypeOK' BY <1>0, <1>b, <1>c, SenderAssumption DEF TypeOK, NextIteration, SenderAssumption
<1>2. PcInv' BY <1>0 DEF PcInv, NextIteration
<1>3. TokenAccount' BY <1>0 DEF TokenAccount, Held
<1>4. FullNeverAhead' BY <1>0, <1>c DEF FullNeverAhead, TypeOK
<1>5. RingInv' BY <1>0 DEF RingInv, Headed
<1>6. WireInv' BY <1>0, <1>b DEF WireInv, Headed
<1>7. AckInv' BY <1>0 DEF AckInv
<1>8. DupsAreOfBase' BY <1>0 DEF DupsAreOfBase
<1> QED BY <1>1, <1>2, <1>3, <1>4, <1>5, <1>6, <1>7, <1>8 DEF IInv

(* What every acknowledgment does on arrival. *)
LEMMA ConsumeFacts ==
  ASSUME NEW a, Consume(a)
  PROVE  a \in acks /\ acks' \subseteq acks /\ wpc' \in {"wait", "done"}
  BY DEF Consume, NextIteration

(* An acknowledgment below the send base keeps the invariant. *)
LEMMA StaleAckStep == ASSUME IInv, NEW a, StaleAck(a) PROVE IInv'
<1> USE DEF StaleAck, Consume, mainVars, workerVars, ackVars, netVars, rcvVars
<1>0. /\ TypeOK /\ PcInv /\ TokenAccount /\ FullNeverAhead
      /\ RingInv /\ WireInv /\ AckInv /\ DupsAreOfBase
  BY DEF IInv
<1>a. acks' \subseteq acks /\ wpc' \in {"wait", "done"} BY ConsumeFacts
<1>b. a.ack \in Int /\ base \in Int BY <1>0, SenderAssumption DEF TypeOK, AckSet, SenderAssumption
<1>1. TypeOK' BY <1>0, <1>a DEF TypeOK
<1>2. PcInv' BY <1>0, <1>b DEF PcInv, NextIteration
<1>3. TokenAccount' BY <1>0 DEF TokenAccount, Held
<1>4. FullNeverAhead' BY <1>0 DEF FullNeverAhead
<1>5. RingInv' BY <1>0 DEF RingInv, Headed
<1>6. WireInv' BY <1>0 DEF WireInv, Headed
<1>7. AckInv' BY <1>0, <1>a DEF AckInv
<1>8. DupsAreOfBase' BY <1>0 DEF DupsAreOfBase
<1> QED BY <1>1, <1>2, <1>3, <1>4, <1>5, <1>6, <1>7, <1>8 DEF IInv

(* A repeated acknowledgment keeps the invariant, fast retransmission *)
(* included. *)
LEMMA RepeatedAckStep == ASSUME IInv, NEW a, RepeatedAck(a) PROVE IInv'
<1> USE DEF RepeatedAck, Consume, mainVars, workerVars, ackVars, netVars, rcvVars
<1>0. /\ TypeOK /\ PcInv /\ TokenAccount /\ FullNeverAhead
      /\ RingInv /\ WireInv /\ AckInv /\ DupsAreOfBase
  BY DEF IInv
<1>a. acks' \subseteq acks /\ wpc' \in {"wait", "done"} /\ a.ack = base BY ConsumeFacts
<1>b. /\ duplicateAckCheck' = base
      /\ dupAck' \in 1..DupCap /\ numRTX' \in 1..DupCap
      /\ Transmit(Slot(base)) \/ UNCHANGED <<data, retx>>
  <2>1. dupAck > 0 => duplicateAckCheck = base BY <1>0 DEF DupsAreOfBase
  <2>2. dupAck \in 0..DupCap /\ numRTX \in 0..DupCap BY <1>0 DEF TypeOK
  <2>3. DupCap \in Nat /\ DupCap >= 5 BY SenderAssumption DEF SenderAssumption
  <2> QED BY <2>1, <2>2, <2>3, <1>a DEF Bump
<1>c. Slot(base) \in 0..(W - 1) BY <1>0, SlotRange DEF TypeOK
<1>d. data' \subseteq Datagrams /\ retx' \in BOOLEAN /\ \A m \in data' : m.seq < Headed
  BY <1>0, <1>b, <1>c, TransmitFacts DEF TypeOK, WireInv
<1>1. TypeOK'
  <2>1. base \in -1..NChunks /\ 1..DupCap \subseteq 0..DupCap
    BY <1>0, SenderAssumption DEF TypeOK, SenderAssumption
  <2> QED BY <2>1, <1>0, <1>a, <1>b, <1>d DEF TypeOK
<1>2. PcInv' BY <1>0, <1>a DEF PcInv, NextIteration
<1>3. TokenAccount' BY <1>0 DEF TokenAccount, Held
<1>4. FullNeverAhead' BY <1>0 DEF FullNeverAhead
<1>5. RingInv' BY <1>0 DEF RingInv, Headed
<1>6. WireInv' BY <1>0, <1>d DEF WireInv, Headed
<1>7. AckInv' BY <1>0, <1>a DEF AckInv
<1>8. DupsAreOfBase' BY <1>b, SenderAssumption DEF DupsAreOfBase, SenderAssumption
<1> QED BY <1>1, <1>2, <1>3, <1>4, <1>5, <1>6, <1>7, <1>8 DEF IInv

(* The fields of an acknowledgment in flight are natural numbers. *)
LEMMA AckTypes == ASSUME TypeOK, NEW a \in acks
  PROVE a.ack \in 0..NChunks /\ a.ack \in Nat /\ a.wnd \in Nat
<1>1. a \in AckSet BY DEF TypeOK
<1>2. Wnds \subseteq Nat /\ NChunks \in Nat BY SenderAssumption DEF SenderAssumption
<1>3. a.ack \in 0..NChunks /\ a.wnd \in Wnds BY <1>1 DEF AckSet
<1>4. a.wnd \in Nat BY <1>2, <1>3
<1>5. a.ack \in Nat BY <1>2, <1>3
<1> QED BY <1>3, <1>4, <1>5

(* An acknowledgment above the send base grants at least what was granted *)
(* before, and no more than its window and the ring allow. *)
LEMMA GrantFacts ==
  ASSUME IInv, NEW a \in acks, Moves(a)
  PROVE  /\ a.ack \in 0..NChunks /\ a.wnd \in Nat
         /\ Grant(a) \in Nat /\ lastReleased <= Grant(a)
         /\ Grant(a) <= a.ack + W /\ Grant(a) <= a.ack + a.wnd
         /\ a.ack <= rcvNext /\ base < a.ack
<1>1. a \in AckSet BY DEF IInv, TypeOK
<1>2. a.ack \in 0..NChunks /\ a.wnd \in Nat /\ W \in Nat /\ NChunks \in Nat
  BY <1>1, SenderAssumption DEF AckSet, SenderAssumption
<1>3. base \in Nat /\ lastReleased \in Nat BY SenderAssumption DEF IInv, TypeOK, SenderAssumption
<1>4. base < a.ack BY DEF Moves
<1>5. lastReleased <= a.ack + a.wnd /\ a.ack <= rcvNext BY <1>4, <1>2, <1>3 DEF IInv, AckInv
<1>6. lastReleased <= base + W BY DEF IInv, TokenAccount
<1> QED BY <1>2, <1>3, <1>4, <1>5, <1>6 DEF Grant, MinOf

(* The bytes an acknowledgment adds are a natural number. *)
LEMMA AckedBytesNat == ASSUME IInv, NEW a \in acks, Moves(a) PROVE AckedBytes(a) \in Nat
<1>1. a.ack \in 0..NChunks /\ base \in 0..NChunks /\ base < a.ack
  BY GrantFacts DEF IInv, TypeOK
<1>2. NChunks \in Nat /\ ChunkBytes \in Nat BY SenderAssumption DEF SenderAssumption
<1>3. a.ack - 1 \in Nat /\ a.ack - base - 1 \in Nat BY <1>1, <1>2
<1>4. slots[Slot(a.ack - 1)] \in Packets BY <1>3, SlotRange DEF IInv, TypeOK
<1>5. slots[Slot(a.ack - 1)].size \in Nat BY <1>4 DEF Packets
<1>6. (a.ack - base - 1) * ChunkBytes \in Nat BY <1>2, <1>3
<1> QED BY <1>5, <1>6 DEF AckedBytes

(* An acknowledgment above the send base keeps the invariant. *)
LEMMA NewAckStep == ASSUME IInv, NEW a, NewAck(a) PROVE IInv'
<1> USE DEF NewAck, Consume, ForgetDups, mainVars, workerVars, ackVars, netVars, rcvVars
<1>0. /\ TypeOK /\ PcInv /\ TokenAccount /\ FullNeverAhead
      /\ RingInv /\ WireInv /\ AckInv /\ DupsAreOfBase
  BY DEF IInv
<1>a. a \in acks /\ acks' \subseteq acks /\ wpc' \in {"wait", "done"} BY ConsumeFacts
<1>b. /\ a.ack \in 0..NChunks /\ a.wnd \in Nat
      /\ Grant(a) \in Nat /\ lastReleased <= Grant(a)
      /\ Grant(a) <= a.ack + W /\ Grant(a) <= a.ack + a.wnd
      /\ a.ack <= rcvNext /\ base < a.ack
  BY <1>a, GrantFacts
<1>c. bytesTotal' \in Nat BY <1>0, <1>a, AckedBytesNat DEF TypeOK
<1>d. a.ack <= sendSeq + Held
  <2>1. rcvNext <= Headed BY <1>0 DEF WireInv
  <2>2. rcvNext \in Nat /\ sendSeq \in Nat /\ a.ack \in Nat
    BY <1>0, <1>b, SenderAssumption DEF TypeOK, SenderAssumption
  <2> QED BY <2>1, <2>2, <1>b DEF Headed, Held
<1>e. /\ empty' = empty + (Grant(a) - lastReleased)
      /\ empty' \in 0..W
  <2>1. empty \in 0..W /\ sendSeq \in Nat /\ W \in Nat /\ lastReleased \in Nat /\ a.ack \in Nat
    BY <1>0, <1>b, SenderAssumption DEF TypeOK, SenderAssumption
  <2>2. Held \in {0, 1} BY DEF Held
  <2>3. empty + sendSeq + Held = lastReleased BY <1>0 DEF TokenAccount
  <2> QED BY <2>1, <2>2, <2>3, <1>b, <1>d DEF Released
<1>1. TypeOK'
  <2>1. DupCap \in Nat /\ NChunks \in Nat BY SenderAssumption DEF SenderAssumption
  <2>2. ambiguous' \in BOOLEAN BY <1>0 DEF TypeOK
  <2>3. acks' \subseteq AckSet BY <1>0, <1>a DEF TypeOK
  <2>4. dupAck' \in 0..DupCap /\ numRTX' \in 0..DupCap /\ duplicateAckCheck' \in -1..NChunks
    BY <2>1
  <2>5. base' \in 0..NChunks /\ lastReleased' \in Nat /\ retx' \in BOOLEAN BY <1>b
  <2> QED BY <2>2, <2>3, <2>4, <2>5, <1>0, <1>a, <1>c, <1>e DEF TypeOK
<1>2. PcInv' BY <1>0, <1>b DEF PcInv, NextIteration
<1>3. TokenAccount'
  <2>1. empty \in Int /\ sendSeq \in Int /\ lastReleased \in Int /\ W \in Int
    BY <1>0, SenderAssumption DEF TypeOK, SenderAssumption
  <2>2. Held \in {0, 1} /\ Held' = Held BY DEF Held
  <2> QED BY <2>1, <2>2, <1>0, <1>b, <1>e DEF TokenAccount
<1>4. FullNeverAhead' BY <1>0 DEF FullNeverAhead
<1>5. RingInv' BY <1>0 DEF RingInv, Headed
<1>6. WireInv' BY <1>0, <1>b DEF WireInv, Headed
<1>7. AckInv'
  <2>1. Grant(a) <= rcvEdge
    <3>1. a.ack + a.wnd <= rcvEdge BY <1>0, <1>a DEF AckInv
    <3>2. rcvEdge \in Nat /\ a.ack \in Nat BY <1>0, <1>b DEF TypeOK
    <3> QED BY <3>1, <3>2, <1>b
  <2>2. ASSUME NEW b \in acks', b.ack > a.ack PROVE Grant(a) <= b.ack + b.wnd
    <3>1. b \in acks BY <1>a
    <3>2. b.ack \in Int /\ b.wnd \in Int BY <3>1, <1>0, AckTypes
    <3>3. a.ack + a.wnd <= b.ack + b.wnd BY <3>1, <3>2, <2>2, <1>a, <1>b, <1>0 DEF AckInv
    <3> QED BY <3>2, <3>3, <1>b
  <2> QED BY <2>1, <2>2, <1>0, <1>a DEF AckInv
<1>8. DupsAreOfBase' BY DEF DupsAreOfBase
<1> QED BY <1>1, <1>2, <1>3, <1>4, <1>5, <1>6, <1>7, <1>8 DEF IInv

(* Losing a datagram keeps the invariant. *)
LEMMA LoseDataStep == ASSUME IInv, NEW m, LoseData(m) PROVE IInv'
<1> USE DEF LoseData, mainVars, workerVars, ackVars, netVars, rcvVars
<1>0. /\ TypeOK /\ PcInv /\ TokenAccount /\ FullNeverAhead
      /\ RingInv /\ WireInv /\ AckInv /\ DupsAreOfBase
  BY DEF IInv
<1>1. TypeOK' BY <1>0 DEF TypeOK
<1>2. PcInv' BY <1>0 DEF PcInv
<1>3. TokenAccount' BY <1>0 DEF TokenAccount, Held
<1>4. FullNeverAhead' BY <1>0 DEF FullNeverAhead
<1>5. RingInv' BY <1>0 DEF RingInv, Headed
<1>6. WireInv' BY <1>0 DEF WireInv, Headed
<1>7. AckInv' BY <1>0 DEF AckInv
<1>8. DupsAreOfBase' BY <1>0 DEF DupsAreOfBase
<1> QED BY <1>1, <1>2, <1>3, <1>4, <1>5, <1>6, <1>7, <1>8 DEF IInv

(* The receiver taking and answering a datagram keeps the invariant. *)
LEMMA ReceiveDataStep ==
  ASSUME IInv, NEW m \in data, NEW answered \in BOOLEAN, ReceiveData(m, answered) PROVE IInv'
<1> USE DEF mainVars, workerVars, ackVars, netVars, rcvVars
<1>0. /\ TypeOK /\ PcInv /\ TokenAccount /\ FullNeverAhead
      /\ RingInv /\ WireInv /\ AckInv /\ DupsAreOfBase
  BY DEF IInv
<1>u. UNCHANGED <<mpc, sendSeq, closeCalled, slots, empty, full, wpc, nextToSend, sockOpen,
                  base, lastReleased, dupAck, duplicateAckCheck, numRTX, bytesTotal,
                  ambiguous, retx>>
  BY DEF ReceiveData
<1>a. data' \subseteq data BY DEF ReceiveData
<1>b. /\ rcvBuf' \in [Chunks -> [full : BOOLEAN, load : Chunks \cup {None}]]
      /\ \A s \in Chunks : rcvBuf'[s].full => s < Headed
  <2>1. m \in Datagrams /\ m.seq < Headed BY <1>0 DEF TypeOK, WireInv
  <2>2. m.seq \in Chunks /\ m.load \in Chunks \cup {None} BY <2>1 DEF Datagrams
  <2>3. \/ rcvBuf' = rcvBuf
        \/ rcvBuf' = [rcvBuf EXCEPT ![m.seq] = [full |-> TRUE, load |-> m.load]]
    BY DEF ReceiveData
  <2>4. CASE rcvBuf' = rcvBuf BY <2>4, <1>0 DEF TypeOK, WireInv
  <2>5. CASE rcvBuf' = [rcvBuf EXCEPT ![m.seq] = [full |-> TRUE, load |-> m.load]]
    <3>1. rcvBuf \in [Chunks -> [full : BOOLEAN, load : Chunks \cup {None}]] BY <1>0 DEF TypeOK
    <3>2. [full |-> TRUE, load |-> m.load] \in [full : BOOLEAN, load : Chunks \cup {None}]
      BY <2>2
    <3>3. \A s \in Chunks : rcvBuf[s].full => s < Headed BY <1>0 DEF WireInv
    <3>4. rcvBuf' \in [Chunks -> [full : BOOLEAN, load : Chunks \cup {None}]]
      BY <2>5, <3>1, <3>2, <2>2
    <3>5. \A s \in Chunks : s # m.seq => rcvBuf'[s] = rcvBuf[s] BY <2>5, <3>1
    <3> QED BY <3>3, <3>4, <3>5, <2>1
  <2> QED BY <2>3, <2>4, <2>5
<1>c. PICK n \in rcvNext..NChunks, w \in Wnds :
        /\ \A s \in rcvNext..(n - 1) : rcvBuf'[s].full
        /\ n + w >= rcvEdge /\ rcvNext' = n /\ rcvEdge' = n + w
        /\ acks' \subseteq acks \cup {[ack |-> n, wnd |-> w]}
  BY DEF ReceiveData, Put
<1>d. /\ rcvNext \in Nat /\ NChunks \in Nat /\ n \in 0..NChunks /\ rcvNext <= n
      /\ w \in Nat /\ rcvEdge \in Nat /\ base \in Nat /\ lastReleased \in Nat
  BY <1>0, SenderAssumption DEF TypeOK, SenderAssumption
<1>e. Headed \in Nat /\ Headed' = Headed BY <1>0, <1>u, SenderAssumption DEF Headed, TypeOK, SenderAssumption
<1>f. n <= Headed
  <2>1. CASE n = rcvNext BY <2>1, <1>0 DEF WireInv
  <2>2. CASE n > rcvNext
    <3>1. n - 1 \in rcvNext..(n - 1) /\ n - 1 \in Chunks BY <2>2, <1>d DEF Chunks
    <3>2. n - 1 < Headed BY <3>1, <1>b, <1>c
    <3> QED BY <3>2, <1>d, <1>e
  <2> QED BY <2>1, <2>2, <1>d
<1>1. TypeOK'
  <2>1. [ack |-> n, wnd |-> w] \in AckSet BY <1>d DEF AckSet
  <2>2. acks' \subseteq AckSet BY <2>1, <1>c, <1>0 DEF TypeOK
  <2>3. rcvNext' \in 0..NChunks /\ rcvEdge' \in Nat BY <1>c, <1>d
  <2> QED BY <2>2, <2>3, <1>0, <1>a, <1>b, <1>u DEF TypeOK
<1>2. PcInv' BY <1>0, <1>u DEF PcInv
<1>3. TokenAccount' BY <1>0, <1>u DEF TokenAccount, Held
<1>4. FullNeverAhead' BY <1>0, <1>u DEF FullNeverAhead
<1>5. RingInv' BY <1>0, <1>u DEF RingInv, Headed
<1>6. WireInv'
  <2>1. base <= n BY <1>0, <1>d DEF WireInv
  <2> QED BY <2>1, <1>0, <1>a, <1>b, <1>c, <1>e, <1>f, <1>u DEF WireInv
<1>7. AckInv'
  <2> DEFINE new == [ack |-> n, wnd |-> w]
  <2>0. \A a \in acks : a.ack \in Nat /\ a.wnd \in Nat
    BY <1>0, AckTypes
  <2>1. lastReleased <= rcvEdge' /\ rcvEdge' = n + w BY <1>0, <1>c, <1>d DEF AckInv
  <2>2. ASSUME NEW a \in acks'
        PROVE  /\ a.ack <= n /\ a.ack + a.wnd <= n + w
               /\ a.ack > base => lastReleased <= a.ack + a.wnd
    <3>1. CASE a \in acks BY <3>1, <2>0, <1>0, <1>c, <1>d DEF AckInv
    <3>2. CASE a = new BY <3>2, <2>1, <1>d
    <3> QED BY <3>1, <3>2, <1>c
  <2>3. ASSUME NEW a \in acks', NEW b \in acks', a.ack < b.ack
        PROVE  a.ack + a.wnd <= b.ack + b.wnd
    <3>1. CASE a \in acks /\ b \in acks BY <3>1, <2>3, <1>0 DEF AckInv
    <3>2. CASE a \in acks /\ b = new BY <3>2, <2>0, <1>0, <1>c, <1>d DEF AckInv
    <3>3. CASE a = new /\ b \in acks BY <3>3, <2>3, <2>0, <1>0, <1>d DEF AckInv
    <3>4. CASE a = new /\ b = new BY <3>4, <2>3, <1>d
    <3> QED BY <3>1, <3>2, <3>3, <3>4, <1>c
  <2> QED BY <2>1, <2>2, <2>3, <1>c, <1>u DEF AckInv
<1>8. DupsAreOfBase' BY <1>0, <1>u DEF DupsAreOfBase
<1> QED BY <1>1, <1>2, <1>3, <1>4, <1>5, <1>6, <1>7, <1>8 DEF IInv

(* What Open leaves satisfies the invariant. *)
LEMMA InitIInv == Init => IInv
<1> SUFFICES ASSUME Init PROVE IInv OBVIOUS
<1> USE DEF Init
<1>0. /\ W \in Nat /\ W > 0 /\ NChunks \in Nat /\ NChunks > 0 /\ DupCap \in Nat /\ Wnds \subseteq Nat
  BY SenderAssumption DEF SenderAssumption
<1>a. PICK w \in Wnds : /\ rcvEdge = w
                        /\ lastReleased = MinOf(W, w) /\ empty = MinOf(W, w)
                        /\ acks = {} \/ acks = {[ack |-> 0, wnd |-> w]}
  OBVIOUS
<1>b. w \in Nat BY <1>a, <1>0
<1>c. MinOf(W, w) \in 0..W /\ MinOf(W, w) <= w BY <1>0, <1>b DEF MinOf
<1>d. acks \subseteq AckSet BY <1>a, <1>0 DEF AckSet
<1>e. Headed = 0 BY DEF Headed
<1>1. TypeOK
  <2>1. Blank \in Packets BY DEF Blank, Packets
  <2>2. slots \in [0..(W - 1) -> Packets] BY <2>1
  <2>3. rcvBuf \in [Chunks -> [full : BOOLEAN, load : Chunks \cup {None}]] OBVIOUS
  <2>4. /\ sendSeq \in 0..NChunks /\ base \in 0..NChunks /\ nextToSend \in 0..NChunks
        /\ rcvNext \in 0..NChunks /\ duplicateAckCheck \in -1..NChunks
        /\ full \in 0..W /\ dupAck \in 0..DupCap /\ numRTX \in 0..DupCap /\ bytesTotal \in Nat
    BY <1>0
  <2>5. empty \in 0..W /\ lastReleased \in Nat /\ rcvEdge \in Nat BY <1>0, <1>a, <1>b, <1>c
  <2>6. data \subseteq Datagrams OBVIOUS
  <2> QED BY <2>2, <2>3, <2>4, <2>5, <2>6, <1>d DEF TypeOK
<1>2. PcInv BY DEF PcInv
<1>3. TokenAccount BY <1>0, <1>a, <1>c DEF TokenAccount, Held
<1>4. FullNeverAhead BY DEF FullNeverAhead
<1>5. RingInv BY <1>e, <1>0 DEF RingInv, Chunks, Blank, None
<1>6. WireInv BY <1>e DEF WireInv
<1>7. AckInv BY <1>a, <1>b, <1>c DEF AckInv
<1>8. DupsAreOfBase BY DEF DupsAreOfBase
<1> QED BY <1>1, <1>2, <1>3, <1>4, <1>5, <1>6, <1>7, <1>8 DEF IInv

(* A step that changes nothing keeps the invariant. *)
LEMMA StutterStep == ASSUME IInv, UNCHANGED vars PROVE IInv'
<1> USE DEF vars, mainVars, workerVars, ackVars, netVars, rcvVars
<1>0. /\ TypeOK /\ PcInv /\ TokenAccount /\ FullNeverAhead
      /\ RingInv /\ WireInv /\ AckInv /\ DupsAreOfBase
  BY DEF IInv
<1>1. TypeOK' BY <1>0 DEF TypeOK
<1>2. PcInv' BY <1>0 DEF PcInv
<1>3. TokenAccount' BY <1>0 DEF TokenAccount, Held
<1>4. FullNeverAhead' BY <1>0 DEF FullNeverAhead
<1>5. RingInv' BY <1>0 DEF RingInv, Headed
<1>6. WireInv' BY <1>0 DEF WireInv, Headed
<1>7. AckInv' BY <1>0 DEF AckInv
<1>8. DupsAreOfBase' BY <1>0 DEF DupsAreOfBase
<1> QED BY <1>1, <1>2, <1>3, <1>4, <1>5, <1>6, <1>7, <1>8 DEF IInv

(* Every step keeps the invariant. *)
LEMMA NextIInv == IInv /\ [Next]_vars => IInv'
<1> SUFFICES ASSUME IInv, [Next]_vars PROVE IInv' OBVIOUS
<1>1. CASE Main
  BY <1>1, SendWaitStep, SendHeaderStep, SendPayloadStep, SendPublishStep, CallCloseStep,
     JoinStep DEF Main
<1>2. CASE Worker
  BY <1>2, WaitTimeoutStep, TimeoutStep, SendNextStep, RecvErrorStep, StaleAckStep, NewAckStep,
     RepeatedAckStep DEF Worker, ReceiveACK
<1>3. CASE Network
  BY <1>3, LoseDataStep, ReceiveDataStep DEF Network
<1>4. CASE UNCHANGED vars BY <1>4, StutterStep
<1> QED BY <1>1, <1>2, <1>3, <1>4 DEF Next

(* The inductive invariant holds of every behaviour of the sender. *)
THEOREM Invariance == Spec => []IInv
<1> QED BY InitIInv, NextIInv, PTL DEF Spec

(* Every variable keeps its type, for every window and length. *)
THEOREM TypeCorrect == Spec => []TypeOK
<1>1. IInv => TypeOK BY DEF IInv
<1> QED BY Invariance, <1>1, PTL

(* No token of empty is lost or minted, and no release of it is refused. *)
THEOREM TokensAccounted == Spec => []TokenAccount
<1>1. IInv => TokenAccount BY DEF IInv
<1> QED BY Invariance, <1>1, PTL

(* The branch of ReceiveACK for numRTX > 4 is dead code. *)
THEOREM DupsOfBase == Spec => []DupsAreOfBase
<1>1. IInv => DupsAreOfBase BY DEF IInv
<1> QED BY Invariance, <1>1, PTL

(* The chain base <= rcvNext <= Headed <= lastReleased <= base + W. *)
LEMMA HeadedWithinGrant ==
  ASSUME IInv
  PROVE  /\ Headed \in Nat /\ base \in Nat /\ sendSeq \in Nat /\ lastReleased \in Nat /\ W \in Nat
         /\ sendSeq <= Headed /\ Headed <= lastReleased /\ lastReleased <= base + W
         /\ base <= rcvNext /\ rcvNext <= Headed /\ rcvNext \in Nat
<1>1. /\ W \in Nat /\ empty \in Nat /\ sendSeq \in Nat /\ base \in Nat /\ lastReleased \in Nat
      /\ rcvNext \in Nat
  BY SenderAssumption DEF IInv, TypeOK, SenderAssumption
<1>2. empty + sendSeq + Held = lastReleased /\ lastReleased <= base + W
  BY DEF IInv, TokenAccount
<1>3. base <= rcvNext /\ rcvNext <= Headed BY DEF IInv, WireInv
<1> QED BY <1>1, <1>2, <1>3 DEF Headed, Held

(* main never overwrites a chunk that is not acknowledged. *)
THEOREM RingSafe == Spec => []OutstandingIntact
<1>1. IInv => OutstandingIntact
  <2> SUFFICES ASSUME IInv, NEW s \in Chunks, base <= s, s < sendSeq
               PROVE  slots[Slot(s)] = Whole(s)
    BY DEF OutstandingIntact
  <2>1. Headed - W <= s BY HeadedWithinGrant DEF Chunks
  <2> QED BY <2>1 DEF IInv, RingInv
<1> QED BY Invariance, <1>1, PTL

(* What the worker sends for a token of full is a chunk main has published, *)
(* and as long as that chunk is not acknowledged its slot holds it whole.   *)
(* The timeout case and the fast retransmission take no token: they may     *)
(* send the slot main is still filling.                                     *)
TokenSendsPublished ==
  full > 0 => /\ nextToSend < sendSeq
              /\ base <= nextToSend => slots[Slot(nextToSend)] = Whole(nextToSend)

(* No token of full runs ahead of what main has copied into the ring.       *)
THEOREM TokensBehindMain == Spec => []TokenSendsPublished
<1>1. IInv => TokenSendsPublished
  <2> SUFFICES ASSUME IInv, full > 0 PROVE TokenSendsPublished BY DEF TokenSendsPublished
  <2>1. /\ full \in Nat /\ nextToSend \in Nat /\ sendSeq \in 0..NChunks
        /\ full + nextToSend <= sendSeq
    BY SenderAssumption DEF IInv, TypeOK, FullNeverAhead, SenderAssumption
  <2>2. nextToSend < sendSeq /\ nextToSend \in Chunks
    BY <2>1, SenderAssumption DEF Chunks, SenderAssumption
  <2>3. ASSUME base <= nextToSend PROVE slots[Slot(nextToSend)] = Whole(nextToSend)
    <3>1. Headed - W <= nextToSend BY <2>1, <2>3, HeadedWithinGrant
    <3> QED BY <2>2, <3>1 DEF IInv, RingInv
  <2> QED BY <2>2, <2>3 DEF TokenSendsPublished
<1> QED BY Invariance, <1>1, PTL

(* Nothing is granted or sent beyond the window the receiver advertised. *)
THEOREM FlowControlled == Spec => []FlowControl
<1>1. IInv => FlowControl
  <2> SUFFICES ASSUME IInv PROVE FlowControl OBVIOUS
  <2>1. lastReleased <= rcvEdge /\ rcvEdge \in Nat BY DEF IInv, AckInv, TypeOK
  <2>2. ASSUME NEW m \in data PROVE m.seq < rcvEdge
    <3>1. m \in Datagrams /\ m.seq < Headed BY DEF IInv, TypeOK, WireInv
    <3>2. m.seq \in Int BY <3>1 DEF Datagrams, Chunks
    <3> QED BY <3>1, <3>2, <2>1, HeadedWithinGrant
  <2> QED BY <2>1, <2>2 DEF FlowControl
<1> QED BY Invariance, <1>1, PTL

(* No step takes back a grant or moves the send base back. *)
LEMMA StepGrants == IInv /\ [Next]_vars => lastReleased' >= lastReleased /\ base' >= base
<1> SUFFICES ASSUME IInv, [Next]_vars PROVE lastReleased' >= lastReleased /\ base' >= base
  OBVIOUS
<1> USE DEF mainVars, workerVars, ackVars, netVars, rcvVars
<1>0. base \in Int /\ lastReleased \in Int BY HeadedWithinGrant
<1>1. CASE \E a \in acks : NewAck(a)
  <2>1. PICK a \in acks : NewAck(a) BY <1>1
  <2>2. lastReleased' = Grant(a) /\ base' = a.ack /\ Moves(a) BY <2>1 DEF NewAck
  <2>3. a.ack \in Int /\ Grant(a) \in Int /\ lastReleased <= Grant(a) /\ base < a.ack
    BY <2>2, GrantFacts
  <2> QED BY <2>2, <2>3, <1>0
<1>2. CASE Main \/ Network \/ UNCHANGED vars
  <2>1. UNCHANGED <<base, lastReleased>>
    BY <1>2 DEF Main, SendWait, SendHeader, SendPayload, SendPublish, CallClose, Join,
                Network, LoseData, ReceiveData, vars
  <2> QED BY <2>1, <1>0
<1>3. CASE WaitTimeout \/ Timeout \/ SendNext \/ RecvError \/ \E a \in acks : StaleAck(a) \/ RepeatedAck(a)
  <2>1. UNCHANGED <<base, lastReleased>>
    BY <1>3 DEF WaitTimeout, Timeout, SendNext, RecvError, StaleAck, RepeatedAck
  <2> QED BY <2>1, <1>0
<1> QED BY <1>1, <1>2, <1>3 DEF Next, Worker, ReceiveACK

(* A late acknowledgment never takes a grant back nor moves the base back. *)
THEOREM GrantsNeverShrink == Spec => GrantNeverShrinks
<1>1. IInv /\ [Next]_vars => [lastReleased' >= lastReleased /\ base' >= base]_vars
  BY StepGrants
<1> QED BY Invariance, <1>1, PTL DEF Spec, GrantNeverShrinks

(* A token of full is refused only behind an acknowledgment that overtook   *)
(* the regular transmission of its chunk.                                   *)
THEOREM FullLostBehindAck == Spec => FullLostOnlyBehindAck
<1>1. ASSUME IInv, [Next]_vars, sendSeq' # sendSeq, full' = full PROVE nextToSend < base
  <2>1. SendPublish
    BY <1>1 DEF Next, Main, SendWait, SendHeader, SendPayload, CallClose, Join, Worker, WaitTimeout,
                Timeout, SendNext, RecvError, ReceiveACK, StaleAck, NewAck, RepeatedAck, Consume,
                Network, LoseData, ReceiveData, vars, mainVars
  <2>2. /\ W \in Nat /\ full \in 0..W /\ nextToSend \in Int
        /\ full + nextToSend <= sendSeq /\ sendSeq + 1 <= Headed
    BY <1>1, <2>1, SenderAssumption
    DEF SenderAssumption, IInv, TypeOK, FullNeverAhead, SendPublish, Headed
  <2>3. full = W BY <1>1, <2>1, <2>2 DEF SendPublish, Released
  <2> QED BY <1>1, <2>2, <2>3, HeadedWithinGrant
<1>2. IInv /\ [Next]_vars => [sendSeq' # sendSeq /\ full' = full => nextToSend < base]_vars
  BY <1>1
<1> QED BY Invariance, <1>2, PTL DEF Spec, FullLostOnlyBehindAck

(* A token is granted beyond every chunk that is acknowledged. *)
GrantAhead == lastReleased > base

(* Whenever main waits for a token, a chunk is outstanding, its slot holds  *)
(* it whole for the worker to repeat, and the receiver's window admits it.  *)
BlockedMainHasWork ==
  mpc = "idle" /\ sendSeq < NChunks /\ empty = 0 =>
    base < sendSeq /\ slots[Slot(base)] = Whole(base) /\ base < rcvEdge

(* main never waits for a token that no repetition can bring, as long as    *)
(* the receiver's window never closes: only an acknowledgment above the     *)
(* base releases tokens, and there is a chunk for it to acknowledge.        *)
THEOREM NeverStuck == ASSUME 0 \notin Wnds PROVE Spec => []BlockedMainHasWork
<1> USE DEF mainVars, workerVars, ackVars, netVars, rcvVars
<1>0. \A w \in Wnds : MinOf(W, w) >= 1 /\ MinOf(W, w) \in Nat
  BY SenderAssumption DEF SenderAssumption, MinOf
<1>1. Init => GrantAhead BY <1>0 DEF Init, GrantAhead
<1>2. ASSUME IInv, GrantAhead, [Next]_vars PROVE GrantAhead'
  <2>1. CASE \E a \in acks : NewAck(a)
    <3>1. PICK a \in acks : NewAck(a) BY <2>1
    <3>2. lastReleased' = a.ack + MinOf(W, a.wnd) /\ base' = a.ack
      BY <3>1 DEF NewAck, Grant
    <3>3. a.ack \in Nat /\ a.wnd \in Wnds BY <1>2 DEF IInv, TypeOK, AckSet
    <3> QED BY <3>2, <3>3, <1>0 DEF GrantAhead
  <2>2. CASE Main \/ Network \/ UNCHANGED vars
    <3>1. UNCHANGED <<base, lastReleased>>
      BY <2>2 DEF Main, SendWait, SendHeader, SendPayload, SendPublish, CallClose, Join,
                  Network, LoseData, ReceiveData, vars
    <3> QED BY <3>1, <1>2 DEF GrantAhead
  <2>3. CASE \/ WaitTimeout \/ Timeout \/ SendNext \/ RecvError
             \/ \E a \in acks : StaleAck(a) \/ RepeatedAck(a)
    <3>1. UNCHANGED <<base, lastReleased>>
      BY <2>3 DEF WaitTimeout, Timeout, SendNext, RecvError, StaleAck, RepeatedAck
    <3> QED BY <3>1, <1>2 DEF GrantAhead
  <2> QED BY <1>2, <2>1, <2>2, <2>3 DEF Next, Worker, ReceiveACK
<1>3. ASSUME IInv, GrantAhead PROVE BlockedMainHasWork
  <2> SUFFICES ASSUME mpc = "idle", sendSeq < NChunks, empty = 0
               PROVE  base < sendSeq /\ slots[Slot(base)] = Whole(base) /\ base < rcvEdge
    BY DEF BlockedMainHasWork
  <2>1. lastReleased <= rcvEdge /\ rcvEdge \in Nat /\ NChunks \in Nat
    BY <1>3, SenderAssumption DEF IInv, AckInv, TypeOK, SenderAssumption
  <2>2. base < sendSeq /\ base < rcvEdge
    BY <1>3, <2>1, HeadedWithinGrant DEF IInv, TokenAccount, Held, GrantAhead
  <2>3. base \in Chunks /\ Headed - W <= base
    BY <1>3, <2>1, <2>2, HeadedWithinGrant DEF Chunks
  <2> QED BY <1>3, <2>2, <2>3 DEF IInv, RingInv
<1>4. IInv /\ GrantAhead /\ [Next]_vars => GrantAhead' BY <1>2
<1>5. IInv /\ GrantAhead => BlockedMainHasWork BY <1>3
<1> QED BY Invariance, <1>1, <1>4, <1>5, PTL DEF Spec

(* Every step of the sender is a step of the abstract pipe, or none.        *)
LEMMA StepRefines == IInv /\ [Next]_vars => [Pipe!Next]_(Pipe!vars)
<1> SUFFICES ASSUME IInv, [Next]_vars PROVE [Pipe!Next]_(Pipe!vars) OBVIOUS
<1> USE DEF mainVars, workerVars, ackVars, netVars, rcvVars
<1>0. /\ Headed \in Nat /\ base \in Nat /\ sendSeq \in Nat /\ lastReleased \in Nat /\ W \in Nat
      /\ sendSeq <= Headed /\ Headed <= lastReleased /\ lastReleased <= base + W
      /\ base <= rcvNext /\ rcvNext <= Headed /\ rcvNext \in Nat
  BY HeadedWithinGrant
<1>i. IInv' BY NextIInv
<1>1. CASE SendHeader
  <2>1. Headed = sendSeq /\ Headed' = Headed + 1 /\ UNCHANGED <<rcvNext, base>>
    BY <1>1, WritingFacts DEF SendHeader, Headed
  <2>2. sendSeq < NChunks BY <1>1, WritingFacts DEF SendHeader, IInv, PcInv
  <2>3. sendSeq < base + W
    <3>1. empty \in 0..W BY DEF IInv, TypeOK
    <3>2. empty + sendSeq + 1 = lastReleased
      BY <1>1 DEF SendHeader, IInv, TokenAccount, Held
    <3> QED BY <1>0, <3>1, <3>2
  <2> QED BY <2>1, <2>2, <2>3 DEF Pipe!Next, Pipe!Send
<1>2. CASE \E m \in data, answered \in BOOLEAN : ReceiveData(m, answered)
  <2>1. UNCHANGED <<mpc, sendSeq, base>> /\ rcvNext' \in rcvNext..NChunks
    BY <1>2 DEF ReceiveData
  <2>2. Headed' = Headed BY <2>1 DEF Headed
  <2>3. rcvNext' <= Headed /\ rcvNext' \in Nat
    BY <1>i, <2>2, <1>0, <2>1, SenderAssumption DEF IInv, WireInv, SenderAssumption
  <2>4. CASE rcvNext' = rcvNext BY <2>1, <2>2, <2>4 DEF Pipe!vars
  <2>5. CASE rcvNext' # rcvNext
    <3>1. rcvNext' \in (rcvNext + 1)..Headed BY <2>1, <2>3, <2>5, <1>0, SenderAssumption DEF SenderAssumption
    <3> QED BY <3>1, <2>1, <2>2 DEF Pipe!Next, Pipe!Receive
  <2> QED BY <2>4, <2>5
<1>3. CASE \E a \in acks : NewAck(a)
  <2>1. PICK a \in acks : NewAck(a) BY <1>3
  <2>2. base' = a.ack /\ UNCHANGED <<mpc, sendSeq, rcvNext>> BY <2>1 DEF NewAck, Consume
  <2>3. a.ack \in (base + 1)..rcvNext BY <2>1, GrantFacts, <1>0, SenderAssumption DEF NewAck, SenderAssumption
  <2>4. Headed' = Headed BY <2>2 DEF Headed
  <2> QED BY <2>2, <2>3, <2>4 DEF Pipe!Next, Pipe!Acknowledge
<1>4. CASE SendPublish
  <2>1. Headed' = Headed BY <1>4, WritingFacts DEF SendPublish, Headed
  <2> QED BY <2>1, <1>4 DEF SendPublish, Pipe!vars
<1>5. CASE SendWait \/ SendPayload \/ CallClose \/ Join \/ UNCHANGED vars
  <2>1. UNCHANGED <<sendSeq, base, rcvNext>>
    BY <1>5 DEF SendWait, SendPayload, CallClose, Join, vars
  <2>2. Headed' = Headed BY <1>5 DEF SendWait, SendPayload, CallClose, Join, vars, Headed
  <2> QED BY <2>1, <2>2 DEF Pipe!vars
<1>6. CASE \/ WaitTimeout \/ Timeout \/ SendNext \/ RecvError
           \/ \E a \in acks : StaleAck(a) \/ RepeatedAck(a)
           \/ \E m \in data : LoseData(m)
  <2>1. UNCHANGED <<mpc, sendSeq, base, rcvNext>>
    BY <1>6 DEF WaitTimeout, Timeout, SendNext, RecvError, StaleAck, RepeatedAck, Consume, LoseData
  <2>2. Headed' = Headed BY <2>1 DEF Headed
  <2> QED BY <2>1, <2>2 DEF Pipe!vars
<1> QED BY <1>1, <1>2, <1>3, <1>4, <1>5, <1>6 DEF Next, Main, Worker, ReceiveACK, Network

(* The sender implements the sliding window of the abstract specification.  *)
THEOREM Refinement == Spec => Implements
<1>1. Init => Pipe!Init BY DEF Init, Pipe!Init, Headed
<1> QED BY Invariance, StepRefines, <1>1, PTL DEF Spec, Implements, Pipe!Spec

-----------------------------------------------------------------------------
(* What IInv says of the slots fixes bytesTotal and what a datagram holds.  *)

(* The slot of the last chunk acknowledged holds the size of that chunk. *)
LEMMA AckedSize ==
  ASSUME IInv, NEW a \in acks, Moves(a)
  PROVE  a.ack - 1 \in Chunks /\ slots[Slot(a.ack - 1)].size = BytesOf(a.ack - 1)
<1>1. /\ a.ack \in 0..NChunks /\ NChunks \in Nat /\ base < a.ack /\ a.ack <= Headed
      /\ base \in Nat /\ Headed - W <= base /\ W \in Nat /\ sendSeq \in Nat
  BY GrantFacts, HeadedWithinGrant, SenderAssumption DEF SenderAssumption
<1>2. a.ack - 1 \in Chunks BY <1>1 DEF Chunks
<1>3. CASE a.ack - 1 < sendSeq
  <2>0. RingInv /\ Headed - W <= a.ack - 1 BY <1>1, HeadedWithinGrant DEF IInv
  <2>1. slots[Slot(a.ack - 1)] = Whole(a.ack - 1) BY <2>0, <1>2, <1>3 DEF RingInv
  <2> QED BY <2>1, <1>2 DEF Whole
<1>4. CASE a.ack - 1 >= sendSeq
  <2>1. a.ack - 1 = sendSeq /\ mpc \in {"payload", "publish"} BY <1>1, <1>4 DEF Headed
  <2> QED BY <2>1, <1>2 DEF IInv, RingInv, Whole
<1> QED BY <1>1, <1>2, <1>3, <1>4

(* Every step keeps bytesTotal exact. *)
LEMMA StepGoodput == IInv /\ GoodputExact /\ [Next]_vars => GoodputExact'
<1> SUFFICES ASSUME IInv, GoodputExact, [Next]_vars PROVE GoodputExact' OBVIOUS
<1> USE DEF mainVars, workerVars, ackVars, netVars, rcvVars
<1>1. CASE \E a \in acks : NewAck(a)
  <2>1. PICK a \in acks : NewAck(a) BY <1>1
  <2>2. Moves(a) /\ base' = a.ack /\ bytesTotal' = bytesTotal + AckedBytes(a) BY <2>1 DEF NewAck
  <2>3. a.ack \in 0..NChunks /\ base < a.ack /\ base \in Nat BY <2>2, GrantFacts, HeadedWithinGrant
  <2>4. ChunkBytes \in Nat /\ LastBytes \in Nat /\ NChunks \in Nat
    BY SenderAssumption DEF SenderAssumption
  <2>5. AckedBytes(a) = BytesOf(a.ack - 1) + (a.ack - base - 1) * ChunkBytes
    BY <2>2, AckedSize DEF AckedBytes
  <2>6. bytesTotal = base * ChunkBytes BY <2>3, <2>4 DEF GoodputExact
  <2>7. base * ChunkBytes + (a.ack - base - 1) * ChunkBytes = (a.ack - 1) * ChunkBytes
    BY <2>3, <2>4
  <2>8. base * ChunkBytes \in Int /\ (a.ack - base - 1) * ChunkBytes \in Int
        /\ (a.ack - 1) * ChunkBytes \in Int /\ a.ack * ChunkBytes = (a.ack - 1) * ChunkBytes + ChunkBytes
    BY <2>3, <2>4
  <2>9. bytesTotal' = (a.ack - 1) * ChunkBytes + BytesOf(a.ack - 1)
    <3>1. BytesOf(a.ack - 1) \in Int BY <2>4 DEF BytesOf
    <3> HIDE DEF BytesOf
    <3> QED BY <3>1, <2>2, <2>5, <2>6, <2>7, <2>8
  <2>10. CASE a.ack = NChunks BY <2>2, <2>9, <2>10 DEF BytesOf, GoodputExact
  <2>11. CASE a.ack # NChunks
    <3>1. BytesOf(a.ack - 1) = ChunkBytes BY <2>11, <2>3, <2>4 DEF BytesOf
    <3> QED BY <3>1, <2>2, <2>8, <2>9, <2>11 DEF GoodputExact
  <2> QED BY <2>10, <2>11
<1>2. CASE Main \/ Network \/ UNCHANGED vars
  <2>1. UNCHANGED <<base, bytesTotal>>
    BY <1>2 DEF Main, SendWait, SendHeader, SendPayload, SendPublish, CallClose, Join,
                Network, LoseData, ReceiveData, vars
  <2> QED BY <2>1 DEF GoodputExact
<1>3. CASE WaitTimeout \/ Timeout \/ SendNext \/ RecvError \/ \E a \in acks : StaleAck(a) \/ RepeatedAck(a)
  <2>1. UNCHANGED <<base, bytesTotal>>
    BY <1>3 DEF WaitTimeout, Timeout, SendNext, RecvError, StaleAck, RepeatedAck
  <2> QED BY <2>1 DEF GoodputExact
<1> QED BY <1>1, <1>2, <1>3 DEF Next, Worker, ReceiveACK

(* bytesTotal is exact after every acknowledgment.                          *)
THEOREM GoodputIsExact == Spec => []GoodputExact
<1>1. Init => GoodputExact
  <2>1. NChunks # 0 /\ 0 * ChunkBytes = 0 BY SenderAssumption DEF SenderAssumption
  <2> QED BY <2>1 DEF Init, GoodputExact
<1> QED BY <1>1, Invariance, StepGoodput, PTL DEF Spec

(* The worker leaves its loop only when the receiver has every chunk.       *)
THEOREM DoneDelivered == Spec => []DoneMeansDelivered
<1>1. IInv /\ GoodputExact => DoneMeansDelivered
  <2> SUFFICES ASSUME IInv, GoodputExact, wpc = "done"
               PROVE  /\ sendSeq = NChunks /\ rcvNext = NChunks
                      /\ bytesTotal = (NChunks - 1) * ChunkBytes + LastBytes
    BY DEF DoneMeansDelivered
  <2>1. sendSeq = NChunks /\ base = NChunks BY DEF IInv, PcInv
  <2>2. rcvNext \in 0..NChunks BY DEF IInv, TypeOK
  <2> QED BY <2>1, <2>2, HeadedWithinGrant DEF GoodputExact
<1> QED BY <1>1, Invariance, GoodputIsExact, PTL

-----------------------------------------------------------------------------
(* A slot is whole unless main is between the two copies into it. *)
SlotsWhole == \A i \in 0..(W - 1) :
  slots[i].load = slots[i].seq \/ (mpc = "payload" /\ i = Slot(sendSeq))

TInv == SlotsWhole /\ TornLoadIsAcked

(* Sending any slot puts on the wire only torn loads that were *)
(* acknowledged. *)
LEMMA TransmitTorn ==
  ASSUME IInv, TInv, NEW i \in 0..(W - 1), Transmit(i),
         NEW m \in data', m.load # m.seq
  PROVE  m.load = None \/ (m.load = m.seq - W /\ m.load < base)
<1>1. CASE m \in data BY <1>1 DEF TInv, TornLoadIsAcked
<1>2. CASE m = [seq |-> slots[i].seq, load |-> slots[i].load]
  <2>1. mpc = "payload" /\ i = Slot(sendSeq) BY <1>2 DEF TInv, SlotsWhole
  <2>2. m.seq = sendSeq /\ m.load \in {None, sendSeq - W} BY <2>1, <1>2 DEF IInv, RingInv
  <2>3. Headed = sendSeq + 1 /\ Headed <= base + W /\ sendSeq \in Nat /\ W \in Nat /\ base \in Nat
    BY <2>1, HeadedWithinGrant DEF Headed
  <2> QED BY <2>2, <2>3
<1> QED BY <1>1, <1>2 DEF Transmit, Put

(* Every step keeps slots whole outside the copy and torn loads *)
(* acknowledged. *)
LEMMA StepTorn == IInv /\ IInv' /\ TInv /\ [Next]_vars => TInv'
<1> SUFFICES ASSUME IInv, IInv', TInv, [Next]_vars PROVE TInv' OBVIOUS
<1> USE DEF mainVars, workerVars, ackVars, netVars, rcvVars
<1>0. base \in Int /\ base' \in Int /\ base' >= base
  <2>1. base \in 0..NChunks BY DEF IInv, TypeOK
  <2>2. base' \in 0..NChunks BY DEF IInv, TypeOK
  <2> QED BY <2>1, <2>2, StepGrants
<1>1. ASSUME data' \subseteq data PROVE TornLoadIsAcked'
  <2> SUFFICES ASSUME NEW m \in data', m.load # m.seq
               PROVE  m.load = None \/ (m.load = m.seq - W /\ m.load < base')
    BY DEF TornLoadIsAcked
  <2>1. m \in data /\ (m.load = None \/ (m.load = m.seq - W /\ m.load < base))
    BY <1>1 DEF TInv, TornLoadIsAcked
  <2>2. m.load \in Chunks \cup {None} BY <2>1 DEF IInv, TypeOK, Datagrams
  <2>3. m.load \in Int BY <2>2 DEF Chunks, None
  <2> QED BY <2>1, <2>3, <1>0
<1>2. ASSUME NEW i \in 0..(W - 1), Transmit(i), base' = base PROVE TornLoadIsAcked'
  BY <1>2, TransmitTorn DEF TornLoadIsAcked
<1>3. ASSUME UNCHANGED <<slots, mpc, sendSeq>> PROVE SlotsWhole' BY <1>3 DEF TInv, SlotsWhole
<1>4. CASE SendHeader
  <2>1. Slot(sendSeq) \in 0..(W - 1) /\ slots \in [0..(W - 1) -> Packets]
    BY <1>4, WritingFacts, SlotRange DEF SendHeader, IInv, TypeOK
  <2>2. mpc' = "payload" /\ sendSeq' = sendSeq /\ data' = data /\ mpc # "payload"
        /\ \A i \in 0..(W - 1) : i # Slot(sendSeq) => slots'[i] = slots[i]
    BY <1>4, <2>1 DEF SendHeader
  <2>3. SlotsWhole' BY <2>2 DEF TInv, SlotsWhole
  <2> QED BY <2>2, <2>3, <1>1 DEF TInv
<1>5. CASE SendPayload
  <2>1. Slot(sendSeq) \in 0..(W - 1) /\ slots \in [0..(W - 1) -> Packets]
    BY <1>5, WritingFacts, SlotRange DEF SendPayload, IInv, TypeOK
  <2>2. mpc' = "publish" /\ sendSeq' = sendSeq /\ data' = data
        /\ \A i \in 0..(W - 1) : i # Slot(sendSeq) => slots'[i] = slots[i]
    BY <1>5, <2>1 DEF SendPayload
  <2>3. slots'[Slot(sendSeq)] = Whole(sendSeq) BY <2>2 DEF IInv, RingInv
  <2>4. SlotsWhole' BY <2>2, <2>3 DEF TInv, SlotsWhole, Whole
  <2> QED BY <2>2, <2>4, <1>1 DEF TInv
<1>6. CASE SendWait \/ SendPublish \/ CallClose \/ Join
  <2>1. mpc # "payload" /\ UNCHANGED <<slots, data>>
    BY <1>6 DEF SendWait, SendPublish, CallClose, Join
  <2>2. SlotsWhole' BY <2>1 DEF TInv, SlotsWhole
  <2> QED BY <2>1, <2>2, <1>1 DEF TInv
<1>7. CASE Timeout
  <2>1. Slot(base) \in 0..(W - 1) BY SlotRange, HeadedWithinGrant
  <2> QED BY <1>7, <2>1, <1>2, <1>3 DEF Timeout, TInv
<1>8. CASE SendNext
  <2>1. Slot(nextToSend) \in 0..(W - 1) BY SlotRange DEF IInv, TypeOK
  <2> QED BY <1>8, <2>1, <1>2, <1>3 DEF SendNext, TInv
<1>9. CASE \E a \in acks : RepeatedAck(a)
  <2>1. PICK a \in acks : RepeatedAck(a) BY <1>9
  <2>2. Slot(base) \in 0..(W - 1) BY SlotRange, HeadedWithinGrant
  <2>3. /\ UNCHANGED <<slots, mpc, sendSeq, base>>
        /\ Transmit(Slot(base)) \/ data' = data
    BY <2>1 DEF RepeatedAck, Consume
  <2> QED BY <2>2, <2>3, <1>1, <1>2, <1>3 DEF TInv
<1>10. CASE \/ WaitTimeout \/ RecvError \/ (\E a \in acks : StaleAck(a) \/ NewAck(a))
            \/ Network \/ UNCHANGED vars
  <2>1. UNCHANGED <<slots, mpc, sendSeq>> /\ data' \subseteq data
    BY <1>10 DEF WaitTimeout, RecvError, StaleAck, NewAck, Consume, Network, LoseData, ReceiveData, vars
  <2> QED BY <2>1, <1>1, <1>3 DEF TInv
<1> QED BY <1>4, <1>5, <1>6, <1>7, <1>8, <1>9, <1>10 DEF Next, Main, Worker, ReceiveACK

(* A torn datagram carries the load of a chunk that was acknowledged.       *)
THEOREM TornLoads == Spec => []TornLoadIsAcked
<1>1. Init => TInv
  BY DEF Init, TInv, SlotsWhole, TornLoadIsAcked, Blank
<1>2. IInv /\ IInv' /\ TInv /\ [Next]_vars => TInv' BY StepTorn
<1>3. TInv => TornLoadIsAcked BY DEF TInv
<1> QED BY <1>1, <1>2, <1>3, Invariance, PTL DEF Spec
=============================================================================
