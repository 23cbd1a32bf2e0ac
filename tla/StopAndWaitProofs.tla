-------------------------- MODULE StopAndWaitProofs --------------------------
(***************************************************************************)
(* Safety of StopAndWait for every number of chunks and attempts.          *)
(***************************************************************************)
EXTENDS StopAndWait, TLAPS

Opening == {"start", "syn", "synWait"}
Sending == {"send", "sendWait"}
Closing == {"join", "fin", "finWait"}

-----------------------------------------------------------------------------
(* The inductive invariant, in named parts. *)

(* What main's place says of the calls it has made. *)
CallInv ==
  /\ mpc \in Opening => done = 0 /\ sent = 0
  /\ mpc \in Sending => done < NChunks
  /\ mpc = "sendWait" => sent = base + 1
  /\ mpc \in Closing => done = NChunks
  /\ mpc \in {"start", "send"} => attempt >= 1
  /\ mpc \in {"syn", "synWait", "sendWait"} => attempt > 1
  /\ mpc = "finWait" => attempt > 0

(* Only what was sent is on its way, received or acknowledged, and at most  *)
(* one chunk is between acknowledged and sent.                              *)
WireInv ==
  /\ base <= rcvNext /\ rcvNext <= sent /\ sent <= base + 1
  /\ \A m \in reqs : m.type = "DATA" => m.seq < sent
  /\ \A a \in acks : a <= rcvNext

(* Nothing is on its way. *)
Quiet == reqs = {} /\ acks = {} /\ rcvNext = base

(* While nothing was repeated there is one datagram for each call: none     *)
(* between calls, and one request or its answer during a call.              *)
FreshInv ==
  ~repeated =>
    /\ base = done
    /\ closed => finHeard
    /\ mpc \in {"start", "idle", "join"} => Quiet
    /\ (mpc = "send" /\ attempt = 1) \/ (mpc = "fin" /\ attempt = 0) => Quiet
    /\ mpc \in {"syn", "synWait"} =>
         /\ \A m, n \in reqs : m = n
         /\ \A a \in acks : a = 0 /\ reqs = {}
    /\ mpc = "sendWait" \/ (mpc = "send" /\ attempt > 1) =>
         /\ \A m \in reqs : m = [type |-> "DATA", seq |-> base] /\ rcvNext = base
         /\ \A a \in acks : a = base + 1 /\ reqs = {}
    /\ mpc = "finWait" \/ (mpc = "fin" /\ attempt > 0) =>
         /\ \A m \in reqs : m.type = "FIN"
         /\ acks # {} => finHeard

SawInv == TypeOK /\ CallInv /\ WireInv /\ LagOnlyAfterRepeat /\ FreshInv
-----------------------------------------------------------------------------
(* The initial states satisfy the invariant. *)
LEMMA InitInv == Init => SawInv
<1> SUFFICES ASSUME Init PROVE SawInv OBVIOUS
<1> USE StopAndWaitAssumption DEF StopAndWaitAssumption, Init
<1>1. TypeOK
  <2>1. 0 \in 0..NChunks /\ 1 \in 0..(Attempts + CloseAttempts) /\ 0 \in 0..DupCap OBVIOUS
  <2> QED BY <2>1, Zenon DEF TypeOK
<1>2. CallInv BY DEF CallInv, Opening, Sending, Closing
<1>3. WireInv /\ LagOnlyAfterRepeat BY DEF WireInv, LagOnlyAfterRepeat
<1>4. FreshInv BY DEF FreshInv, Quiet
<1> QED BY <1>1, <1>2, <1>3, <1>4 DEF SawInv

(* The actions of Open keep the invariant. *)
LEMMA OpenStep == SawInv /\ (OpenFails \/ SendSyn \/ SynTimeout \/ SynAnswered) => SawInv'
<1> SUFFICES ASSUME SawInv, (OpenFails \/ SendSyn \/ SynTimeout \/ SynAnswered) PROVE SawInv' OBVIOUS
<1> USE StopAndWaitAssumption DEF StopAndWaitAssumption, SawInv, callVars, statVars, netVars, finVars
<1>1. CASE OpenFails
  <2> USE <1>1 DEF OpenFails
  <2>1. TypeOK' BY DEF TypeOK
  <2>2. CallInv' BY DEF TypeOK, CallInv, WireInv, Opening, Sending, Closing
  <2>3. WireInv' BY DEF TypeOK, CallInv, WireInv, Sending
  <2>4. LagOnlyAfterRepeat' BY DEF TypeOK, CallInv, WireInv, LagOnlyAfterRepeat, FreshInv, Sending, Closing
  <2>5. FreshInv' BY DEF TypeOK, CallInv, WireInv, LagOnlyAfterRepeat, FreshInv, Quiet, Opening
  <2> QED BY <2>1, <2>2, <2>3, <2>4, <2>5
<1>2. CASE SendSyn
  <2> USE <1>2 DEF SendSyn, Transmit, Requests
  <2>1. TypeOK' BY DEF TypeOK
  <2>2. CallInv' BY DEF TypeOK, CallInv, WireInv, Opening, Sending, Closing
  <2>3. WireInv' BY DEF TypeOK, CallInv, WireInv, Sending
  <2>4. LagOnlyAfterRepeat' BY DEF TypeOK, CallInv, WireInv, LagOnlyAfterRepeat, FreshInv, Sending, Closing
  <2>5. FreshInv'
    <3> SUFFICES ASSUME ~repeated' PROVE FreshInv' BY DEF FreshInv
    <3>1. ~repeated /\ attempt = 1 OBVIOUS
    <3>2. mpc = "start" BY <3>1 DEF CallInv
    <3>3. base = done /\ Quiet BY <3>1, <3>2 DEF FreshInv
    <3>4. reqs' = {[type |-> "SYN", seq |-> 0]} /\ acks' = {} BY <3>3 DEF Quiet
    <3>5. base' = done' /\ mpc' = "synWait" BY <3>3
    <3>6. closed' => finHeard' BY <3>1 DEF FreshInv
    <3> QED BY <3>4, <3>5, <3>6 DEF FreshInv
  <2> QED BY <2>1, <2>2, <2>3, <2>4, <2>5
<1>3. CASE SynTimeout
  <2> USE <1>3 DEF SynTimeout
  <2>1. TypeOK' BY DEF TypeOK
  <2>2. CallInv' BY DEF TypeOK, CallInv, WireInv, Opening, Sending, Closing
  <2>3. WireInv' BY DEF TypeOK, CallInv, WireInv, Sending
  <2>4. LagOnlyAfterRepeat' BY DEF TypeOK, CallInv, WireInv, LagOnlyAfterRepeat, FreshInv, Sending, Closing
  <2>5. FreshInv' BY DEF TypeOK, CallInv, WireInv, LagOnlyAfterRepeat, FreshInv, Quiet, Opening
  <2> QED BY <2>1, <2>2, <2>3, <2>4, <2>5
<1>4. CASE SynAnswered
  <2> USE <1>4 DEF SynAnswered, Take
  <2>1. TypeOK' BY DEF TypeOK
  <2>2. CallInv' BY DEF TypeOK, CallInv, WireInv, Opening, Sending, Closing
  <2>3. WireInv' BY DEF TypeOK, CallInv, WireInv, Sending
  <2>4. LagOnlyAfterRepeat' BY DEF TypeOK, CallInv, WireInv, LagOnlyAfterRepeat, FreshInv, Sending, Closing
  <2>5. FreshInv'
    <3> SUFFICES ASSUME ~repeated' PROVE base' = done' /\ Quiet' /\ (closed' => finHeard')
      BY DEF FreshInv
    <3>1. PICK a \in acks : Take(a) OBVIOUS
    <3>2. ~repeated /\ acks' = acks \ {a} BY <3>1
    <3>3. base = done /\ reqs = {} /\ \A b \in acks : b = 0
      BY <3>1, <3>2 DEF FreshInv
    <3>4. acks' = {} BY <3>2, <3>3
    <3>5. rcvNext = base BY DEF TypeOK, CallInv, WireInv, Opening
    <3>6. closed' => finHeard' BY <3>2 DEF FreshInv
    <3> QED BY <3>3, <3>4, <3>5, <3>6 DEF Quiet
  <2> QED BY <2>1, <2>2, <2>3, <2>4, <2>5
<1> QED BY <1>1, <1>2, <1>3, <1>4 DEF SawInv

(* So do those of Send: the answer to the one datagram of a call that was   *)
(* not repeated acknowledges it.                                            *)
LEMMA SendStep == SawInv /\ (CallSend \/ Send \/ SendFails \/ SendTimeout \/ SendAnswered \/ SendRetx) => SawInv'
<1> SUFFICES ASSUME SawInv, (CallSend \/ Send \/ SendFails \/ SendTimeout \/ SendAnswered \/ SendRetx) PROVE SawInv' OBVIOUS
<1> USE StopAndWaitAssumption DEF StopAndWaitAssumption, SawInv, callVars, statVars, netVars, finVars
<1>1. CASE CallSend
  <2> USE <1>1 DEF CallSend
  <2>1. TypeOK' BY DEF TypeOK
  <2>2. CallInv' BY DEF TypeOK, CallInv, WireInv, Opening, Sending, Closing
  <2>3. WireInv' BY DEF TypeOK, CallInv, WireInv, Sending
  <2>4. LagOnlyAfterRepeat' BY DEF TypeOK, CallInv, WireInv, LagOnlyAfterRepeat, FreshInv, Sending, Closing
  <2>5. FreshInv' BY DEF TypeOK, CallInv, WireInv, LagOnlyAfterRepeat, FreshInv, Quiet, Opening
  <2> QED BY <2>1, <2>2, <2>3, <2>4, <2>5
<1>2. CASE Send
  <2> USE <1>2 DEF Send, Transmit, Requests
  <2>1. TypeOK'
    <3>1. attempt' \in 0..(Attempts + CloseAttempts) /\ attempt' <= Attempts BY DEF TypeOK
    <3>2. sent' \in 0..NChunks BY DEF TypeOK, CallInv, Sending, LagOnlyAfterRepeat
    <3>3. reqs' \subseteq Requests BY DEF TypeOK
    <3> HIDE DEF Requests
    <3> QED BY <3>1, <3>2, <3>3 DEF TypeOK
  <2>2. CallInv' BY DEF TypeOK, CallInv, WireInv, Opening, Sending, Closing
  <2>3. WireInv' BY DEF TypeOK, CallInv, WireInv, Sending
  <2>4. LagOnlyAfterRepeat' BY DEF TypeOK, CallInv, WireInv, LagOnlyAfterRepeat, FreshInv, Sending, Closing
  <2>5. FreshInv' BY DEF TypeOK, CallInv, WireInv, LagOnlyAfterRepeat, FreshInv, Quiet, Opening
  <2> QED BY <2>1, <2>2, <2>3, <2>4, <2>5
<1>3. CASE SendFails
  <2> USE <1>3 DEF SendFails
  <2>1. TypeOK' BY DEF TypeOK
  <2>2. CallInv' BY DEF TypeOK, CallInv, WireInv, Opening, Sending, Closing
  <2>3. WireInv' BY DEF TypeOK, CallInv, WireInv, Sending
  <2>4. LagOnlyAfterRepeat' BY DEF TypeOK, CallInv, WireInv, LagOnlyAfterRepeat, FreshInv, Sending, Closing
  <2>5. FreshInv' BY DEF TypeOK, CallInv, WireInv, LagOnlyAfterRepeat, FreshInv, Quiet, Opening
  <2> QED BY <2>1, <2>2, <2>3, <2>4, <2>5
<1>4. CASE SendTimeout
  <2> USE <1>4 DEF SendTimeout
  <2>1. TypeOK' BY DEF TypeOK
  <2>2. CallInv' BY DEF TypeOK, CallInv, WireInv, Opening, Sending, Closing
  <2>3. WireInv' BY DEF TypeOK, CallInv, WireInv, Sending
  <2>4. LagOnlyAfterRepeat' BY DEF TypeOK, CallInv, WireInv, LagOnlyAfterRepeat, FreshInv, Sending, Closing
  <2>5. FreshInv' BY DEF TypeOK, CallInv, WireInv, LagOnlyAfterRepeat, FreshInv, Quiet, Opening
  <2> QED BY <2>1, <2>2, <2>3, <2>4, <2>5
<1>5. CASE SendAnswered
  <2> USE <1>5 DEF SendAnswered, RecvFrom, Take, Advances, RetxOccured, Bump
  <2>1. TypeOK'
    <3>1. done' \in 0..NChunks BY DEF TypeOK, CallInv, Sending
    <3>2. base' \in 0..NChunks BY DEF TypeOK
    <3>3. dupAck' \in 0..DupCap BY DEF TypeOK
    <3>4. acks' \subseteq 0..NChunks BY DEF TypeOK
    <3> QED BY <3>1, <3>2, <3>3, <3>4 DEF TypeOK
  <2>2. CallInv' BY DEF TypeOK, CallInv, WireInv, Opening, Sending, Closing
  <2>3. WireInv' BY DEF TypeOK, CallInv, WireInv, Sending
  <2>4. LagOnlyAfterRepeat' BY DEF TypeOK, CallInv, WireInv, LagOnlyAfterRepeat, FreshInv, Sending, Closing
  <2>5. FreshInv'
    <3> SUFFICES ASSUME ~repeated' PROVE base' = done' /\ Quiet' /\ (closed' => finHeard')
      BY DEF FreshInv
    <3>1. PICK a \in acks : RecvFrom(a) OBVIOUS
    <3>2. ~repeated /\ acks' = acks \ {a} BY <3>1
    <3>3. base = done /\ reqs = {} /\ \A b \in acks : b = base + 1
      BY <3>1, <3>2 DEF FreshInv
    <3>4. base' = base + 1 /\ done' = done + 1 BY <3>1, <3>3
    <3>5. acks' = {} /\ reqs' = {} BY <3>2, <3>3
    <3>6. rcvNext' = base + 1 BY <3>1, <3>3 DEF TypeOK, WireInv
    <3>7. closed' => finHeard' BY <3>2 DEF FreshInv
    <3> QED BY <3>3, <3>4, <3>5, <3>6, <3>7 DEF Quiet
  <2> QED BY <2>1, <2>2, <2>3, <2>4, <2>5
<1>6. CASE SendRetx
  <2> USE <1>6 DEF SendRetx, RecvFrom, Take, Advances, RetxOccured, Bump
  <2>1. TypeOK' BY DEF TypeOK
  <2>2. CallInv' BY DEF TypeOK, CallInv, WireInv, Opening, Sending, Closing
  <2>3. WireInv' BY DEF TypeOK, CallInv, WireInv, Sending
  <2>4. LagOnlyAfterRepeat' BY DEF TypeOK, CallInv, WireInv, LagOnlyAfterRepeat, FreshInv, Sending, Closing
  <2>5. FreshInv' BY DEF TypeOK, CallInv, WireInv, LagOnlyAfterRepeat, FreshInv, Quiet, Opening
  <2> QED BY <2>1, <2>2, <2>3, <2>4, <2>5
<1> QED BY <1>1, <1>2, <1>3, <1>4, <1>5, <1>6 DEF SawInv

(* And those of main's shutdown and Close. *)
LEMMA CloseStep == SawInv /\ (SetBreak \/ Join \/ SendFin \/ CloseFails \/ FinTimeout \/ FinAnswered) => SawInv'
<1> SUFFICES ASSUME SawInv, (SetBreak \/ Join \/ SendFin \/ CloseFails \/ FinTimeout \/ FinAnswered) PROVE SawInv' OBVIOUS
<1> USE StopAndWaitAssumption DEF StopAndWaitAssumption, SawInv, callVars, statVars, netVars, finVars
<1>1. CASE SetBreak
  <2> USE <1>1 DEF SetBreak
  <2>1. TypeOK' BY DEF TypeOK
  <2>2. CallInv' BY DEF TypeOK, CallInv, WireInv, Opening, Sending, Closing
  <2>3. WireInv' BY DEF TypeOK, CallInv, WireInv, Sending
  <2>4. LagOnlyAfterRepeat' BY DEF TypeOK, CallInv, WireInv, LagOnlyAfterRepeat, FreshInv, Sending, Closing
  <2>5. FreshInv' BY DEF TypeOK, CallInv, WireInv, LagOnlyAfterRepeat, FreshInv, Quiet, Opening
  <2> QED BY <2>1, <2>2, <2>3, <2>4, <2>5
<1>2. CASE Join
  <2> USE <1>2 DEF Join
  <2>1. TypeOK' BY DEF TypeOK
  <2>2. CallInv' BY DEF TypeOK, CallInv, WireInv, Opening, Sending, Closing
  <2>3. WireInv' BY DEF TypeOK, CallInv, WireInv, Sending
  <2>4. LagOnlyAfterRepeat' BY DEF TypeOK, CallInv, WireInv, LagOnlyAfterRepeat, FreshInv, Sending, Closing
  <2>5. FreshInv' BY DEF TypeOK, CallInv, WireInv, LagOnlyAfterRepeat, FreshInv, Quiet, Opening
  <2> QED BY <2>1, <2>2, <2>3, <2>4, <2>5
<1>3. CASE SendFin
  <2> USE <1>3 DEF SendFin, Transmit, Requests
  <2>1. TypeOK' BY DEF TypeOK
  <2>2. CallInv' BY DEF TypeOK, CallInv, WireInv, Opening, Sending, Closing
  <2>3. WireInv' BY DEF TypeOK, CallInv, WireInv, Sending
  <2>4. LagOnlyAfterRepeat' BY DEF TypeOK, CallInv, WireInv, LagOnlyAfterRepeat, FreshInv, Sending, Closing
  <2>5. FreshInv'
    <3> SUFFICES ASSUME ~repeated' PROVE FreshInv' BY DEF FreshInv
    <3>1. ~repeated /\ attempt = 0 /\ mpc = "fin" OBVIOUS
    <3>2. base = done /\ Quiet /\ (closed => finHeard) BY <3>1 DEF FreshInv
    <3>3. \A m \in reqs' : m.type = "FIN" BY <3>2 DEF Quiet
    <3>4. acks' = {} /\ mpc' = "finWait" BY <3>2 DEF Quiet
    <3> QED BY <3>2, <3>3, <3>4 DEF FreshInv
  <2> QED BY <2>1, <2>2, <2>3, <2>4, <2>5
<1>4. CASE CloseFails
  <2> USE <1>4 DEF CloseFails
  <2>1. TypeOK' BY DEF TypeOK
  <2>2. CallInv' BY DEF TypeOK, CallInv, WireInv, Opening, Sending, Closing
  <2>3. WireInv' BY DEF TypeOK, CallInv, WireInv, Sending
  <2>4. LagOnlyAfterRepeat' BY DEF TypeOK, CallInv, WireInv, LagOnlyAfterRepeat, FreshInv, Sending, Closing
  <2>5. FreshInv' BY DEF TypeOK, CallInv, WireInv, LagOnlyAfterRepeat, FreshInv, Quiet, Opening
  <2> QED BY <2>1, <2>2, <2>3, <2>4, <2>5
<1>5. CASE FinTimeout
  <2> USE <1>5 DEF FinTimeout, FinNextRound
  <2>1. TypeOK' BY DEF TypeOK
  <2>2. CallInv' BY DEF TypeOK, CallInv, WireInv, Opening, Sending, Closing
  <2>3. WireInv' BY DEF TypeOK, CallInv, WireInv, Sending
  <2>4. LagOnlyAfterRepeat' BY DEF TypeOK, CallInv, WireInv, LagOnlyAfterRepeat, FreshInv, Sending, Closing
  <2>5. FreshInv' BY DEF TypeOK, CallInv, WireInv, LagOnlyAfterRepeat, FreshInv, Quiet, Opening
  <2> QED BY <2>1, <2>2, <2>3, <2>4, <2>5
<1>6. CASE FinAnswered
  <2> USE <1>6 DEF FinAnswered, RecvFrom, Take, Advances, RetxOccured, Bump, FinNextRound
  <2>1. TypeOK' BY DEF TypeOK
  <2>2. CallInv' BY DEF TypeOK, CallInv, WireInv, Opening, Sending, Closing
  <2>3. WireInv' BY DEF TypeOK, CallInv, WireInv, Sending
  <2>4. LagOnlyAfterRepeat' BY DEF TypeOK, CallInv, WireInv, LagOnlyAfterRepeat, FreshInv, Sending, Closing
  <2>5. FreshInv'
    <3> SUFFICES ASSUME ~repeated' PROVE FreshInv' BY DEF FreshInv
    <3>1. ~repeated /\ base = done BY DEF FreshInv
    <3>2. done = NChunks BY DEF CallInv, Closing
    <3>3. PICK a \in acks : RecvFrom(a) BY DEF RecvFrom
    <3>4. a # base + 1 BY <3>1, <3>2 DEF TypeOK
    <3>5. base' = done' BY <3>1, <3>3, <3>4
    <3>6. finHeard' /\ \A m \in reqs' : m.type = "FIN" BY <3>1, <3>3 DEF FreshInv
    <3>7. mpc' \in {"fin", "ended"} /\ attempt' = attempt /\ attempt > 0
      BY <3>1 DEF CallInv
    <3> QED BY <3>5, <3>6, <3>7 DEF FreshInv
  <2> QED BY <2>1, <2>2, <2>3, <2>4, <2>5
<1> QED BY <1>1, <1>2, <1>3, <1>4, <1>5, <1>6 DEF SawInv

(* The status thread touches none of this. *)
LEMMA StatsStep == SawInv /\ Stats => SawInv'
<1> SUFFICES ASSUME SawInv, Stats PROVE SawInv' OBVIOUS
<1> USE StopAndWaitAssumption DEF StopAndWaitAssumption, SawInv, callVars, statVars, netVars, finVars
<1>1. CASE StatsWake
  <2> USE <1>1 DEF StatsWake
  <2>1. TypeOK' BY DEF TypeOK
  <2>2. CallInv' BY DEF TypeOK, CallInv, WireInv, Opening, Sending, Closing
  <2>3. WireInv' BY DEF TypeOK, CallInv, WireInv, Sending
  <2>4. LagOnlyAfterRepeat' BY DEF TypeOK, CallInv, WireInv, LagOnlyAfterRepeat, FreshInv, Sending, Closing
  <2>5. FreshInv' BY DEF TypeOK, CallInv, WireInv, LagOnlyAfterRepeat, FreshInv, Quiet, Opening
  <2> QED BY <2>1, <2>2, <2>3, <2>4, <2>5
<1>2. CASE StatsCheck
  <2> USE <1>2 DEF StatsCheck
  <2>1. TypeOK' BY DEF TypeOK
  <2>2. CallInv' BY DEF TypeOK, CallInv, WireInv, Opening, Sending, Closing
  <2>3. WireInv' BY DEF TypeOK, CallInv, WireInv, Sending
  <2>4. LagOnlyAfterRepeat' BY DEF TypeOK, CallInv, WireInv, LagOnlyAfterRepeat, FreshInv, Sending, Closing
  <2>5. FreshInv' BY DEF TypeOK, CallInv, WireInv, LagOnlyAfterRepeat, FreshInv, Quiet, Opening
  <2> QED BY <2>1, <2>2, <2>3, <2>4, <2>5
<1> QED BY <1>1, <1>2 DEF Stats

(* The network: a datagram delivered is one that was sent, and its answer   *)
(* takes its place.                                                         *)
LEMMA NetworkStep == SawInv /\ Network => SawInv'
<1> SUFFICES ASSUME SawInv, Network PROVE SawInv' OBVIOUS
<1> USE StopAndWaitAssumption DEF StopAndWaitAssumption, SawInv, callVars, statVars, netVars, finVars
<1>1. ASSUME NEW r \in reqs, Deliver(r) PROVE SawInv'
  <2> USE <1>1 DEF Deliver
  <2>1. TypeOK' BY DEF TypeOK, WireInv, Requests
  <2>2. CallInv' BY DEF CallInv
  <2>3. WireInv' BY DEF TypeOK, WireInv, Requests
  <2>4. LagOnlyAfterRepeat' BY DEF LagOnlyAfterRepeat
  <2>5. FreshInv'
    <3> SUFFICES ASSUME ~repeated' PROVE FreshInv' BY DEF FreshInv
    <3>1. /\ ~repeated /\ r \in reqs /\ reqs' \subseteq reqs
          /\ base = done /\ (closed => finHeard) /\ (finHeard => finHeard')
      BY DEF FreshInv
    <3>2. mpc \notin {"start", "idle", "join"} /\ ~(mpc = "send" /\ attempt = 1)
          /\ ~(mpc = "fin" /\ attempt = 0)
      BY <3>1 DEF FreshInv, Quiet
    <3>3. CASE mpc \in {"finWait", "fin"}
      <4>1. mpc = "finWait" \/ (mpc = "fin" /\ attempt > 0) BY <3>2, <3>3 DEF TypeOK
      <4>2. \A m \in reqs : m.type = "FIN" BY <3>1, <4>1 DEF FreshInv
      <4>3. finHeard' BY <3>1, <4>2
      <4> QED BY <3>1, <3>2, <3>3, <4>2, <4>3 DEF FreshInv
    <3>4. CASE mpc \notin {"finWait", "fin"}
      BY <3>1, <3>2, <3>4 DEF TypeOK, CallInv, WireInv, FreshInv, Opening, Requests
    <3> QED BY <3>3, <3>4
  <2> QED BY <2>1, <2>2, <2>3, <2>4, <2>5
<1>2. ASSUME NEW r \in reqs, LoseRequest(r) PROVE SawInv'
  <2> USE <1>2 DEF LoseRequest
  <2>1. TypeOK' BY DEF TypeOK, WireInv, Requests
  <2>2. CallInv' BY DEF CallInv
  <2>3. WireInv' BY DEF TypeOK, WireInv, Requests
  <2>4. LagOnlyAfterRepeat' BY DEF LagOnlyAfterRepeat
  <2>5. FreshInv' BY DEF TypeOK, CallInv, WireInv, FreshInv, Quiet, Opening, Requests
  <2> QED BY <2>1, <2>2, <2>3, <2>4, <2>5
<1>3. ASSUME NEW a \in acks, LoseAck(a) PROVE SawInv'
  <2> USE <1>3 DEF LoseAck
  <2>1. TypeOK' BY DEF TypeOK, WireInv, Requests
  <2>2. CallInv' BY DEF CallInv
  <2>3. WireInv' BY DEF TypeOK, WireInv, Requests
  <2>4. LagOnlyAfterRepeat' BY DEF LagOnlyAfterRepeat
  <2>5. FreshInv' BY DEF TypeOK, CallInv, WireInv, FreshInv, Quiet, Opening, Requests
  <2> QED BY <2>1, <2>2, <2>3, <2>4, <2>5
<1> QED BY <1>1, <1>2, <1>3 DEF Network

(* The invariant holds in every reachable state. *)
THEOREM Invariance == Spec => []SawInv
<1>1. SawInv /\ UNCHANGED vars => SawInv'
  <2> SUFFICES ASSUME SawInv, UNCHANGED vars PROVE SawInv' OBVIOUS
  <2> USE DEF SawInv, vars, callVars, statVars, netVars, finVars
  <2>1. TypeOK' /\ CallInv' BY DEF TypeOK, CallInv
  <2>2. WireInv' /\ LagOnlyAfterRepeat' BY DEF WireInv, LagOnlyAfterRepeat
  <2>3. FreshInv' BY DEF FreshInv, Quiet
  <2> QED BY <2>1, <2>2, <2>3
<1>2. SawInv /\ Next => SawInv'
  BY OpenStep, SendStep, CloseStep, StatsStep, NetworkStep DEF Next, Main
<1> QED BY InitInv, <1>1, <1>2, PTL DEF Spec

(* Type correctness; no loop passes its number of attempts. *)
THEOREM TypeCorrect == Spec => []TypeOK
<1>1. SawInv => TypeOK BY DEF SawInv
<1> QED BY <1>1, Invariance, PTL

(* No acknowledgment passes the chunk being sent. *)
THEOREM AcksBounded == Spec => []AcksInWindow
<1>1. SawInv => AcksInWindow
  BY DEF SawInv, TypeOK, WireInv, AcksInWindow
<1> QED BY <1>1, Invariance, PTL

(* Send says STATUS_OK of an unacknowledged chunk only after a repetition. *)
THEOREM LagsOnlyAfterRepeat == Spec => []LagOnlyAfterRepeat
<1>1. SawInv => LagOnlyAfterRepeat BY DEF SawInv
<1> QED BY <1>1, Invariance, PTL

(* Close takes an answer to data for that to its FIN only after a           *)
(* repetition.                                                              *)
THEOREM ClosesOnFin == Spec => []ClosedOnFin
<1>1. SawInv => ClosedOnFin BY DEF SawInv, FreshInv, ClosedOnFin
<1> QED BY <1>1, Invariance, PTL

(* Every step is one of the abstract window or leaves it alone. *)
LEMMA StepRefines == SawInv /\ [Next]_vars => [Pipe!Next]_(Pipe!vars)
<1> SUFFICES ASSUME SawInv, [Next]_vars PROVE [Pipe!Next]_(Pipe!vars) OBVIOUS
<1> USE StopAndWaitAssumption
    DEF StopAndWaitAssumption, SawInv, TypeOK, CallInv, WireInv, Pipe!vars, callVars,
        statVars, netVars
<1>1. CASE UNCHANGED <<sent, rcvNext, base>> BY <1>1
<1>2. CASE Send BY <1>2 DEF Send, Pipe!Next, Pipe!Send, LagOnlyAfterRepeat, Sending
<1>3. CASE \E a \in acks : RecvFrom(a) /\ UNCHANGED <<sent, rcvNext>>
  BY <1>3 DEF RecvFrom, Advances, Pipe!Next, Pipe!Acknowledge
<1>4. CASE \E r \in reqs : Deliver(r)
  BY <1>4 DEF Deliver, Pipe!Next, Pipe!Receive
<1>5. OpenFails \/ SendSyn \/ SynTimeout \/ SynAnswered => UNCHANGED <<sent, rcvNext, base>>
  BY DEF OpenFails, SendSyn, SynTimeout, SynAnswered
<1>6. CallSend \/ SendFails \/ SendTimeout => UNCHANGED <<sent, rcvNext, base>>
  BY DEF CallSend, SendFails, SendTimeout
<1>7. SetBreak \/ Join \/ SendFin \/ CloseFails \/ FinTimeout => UNCHANGED <<sent, rcvNext, base>>
  BY DEF SetBreak, Join, SendFin, CloseFails, FinTimeout
<1>8. SendAnswered \/ SendRetx \/ FinAnswered
        => \E a \in acks : RecvFrom(a) /\ UNCHANGED <<sent, rcvNext>>
  BY DEF SendAnswered, SendRetx, FinAnswered
<1>9. Stats \/ (\E r \in reqs : LoseRequest(r)) \/ (\E a \in acks : LoseAck(a)) \/ UNCHANGED vars
        => UNCHANGED <<sent, rcvNext, base>>
  BY DEF Stats, StatsWake, StatsCheck, LoseRequest, LoseAck, vars
<1> QED BY <1>1, <1>2, <1>3, <1>4, <1>5, <1>6, <1>7, <1>8, <1>9 DEF Next, Main, Network

(* The sender implements a sliding window of one chunk. *)
THEOREM Refinement == Spec => Implements
<1>1. Init => Pipe!Init BY DEF Init, Pipe!Init
<1> QED BY <1>1, Invariance, StepRefines, PTL DEF Spec, Implements, Pipe!Spec
-----------------------------------------------------------------------------
(* Termination. *)

(* The steps of Close, of n calls of Send, and of the round a loop that     *)
(* makes n attempts is in.                                                  *)
OfClose    == 2 * CloseAttempts + 2
OfCalls(n) == n * (2 * Attempts)
OfLoop(n)  == 2 * (n - attempt)

(* main takes at most this many steps more ...                              *)
StepsOfMain ==
  CASE mpc = "start"    -> OfClose + OfCalls(NChunks) + 2 * Attempts + 1
    [] mpc = "synWait"  -> OfClose + OfCalls(NChunks) + OfLoop(Attempts) + 3
    [] mpc = "syn"      -> OfClose + OfCalls(NChunks) + OfLoop(Attempts) + 2
    [] mpc = "idle"     -> OfClose + OfCalls(NChunks - done) + 1
    [] mpc = "sendWait" -> OfClose + OfCalls(NChunks - done - 1) + OfLoop(Attempts) + 2
    [] mpc = "send"     -> OfClose + OfCalls(NChunks - done - 1) + OfLoop(Attempts) + 1
    [] mpc = "join"     -> OfClose
    [] mpc = "finWait"  -> OfLoop(CloseAttempts) + 2
    [] mpc = "fin"      -> OfLoop(CloseAttempts) + 1
    [] OTHER            -> 0

(* ... and the status thread, once breakThread is set, this many.           *)
StepsOfStats ==
  CASE spc = "exited"               -> 0
    [] spc = "check" /\ breakThread -> 1
    [] OTHER                        -> 2

StepsLeft == StepsOfMain + StepsOfStats

(* The calls of Send that are left, those that remain once this one is over. *)
LEMMA CallsLeft ==
  ASSUME TypeOK
  PROVE  /\ OfCalls(NChunks - done) \in Nat /\ OfCalls(NChunks) \in Nat
         /\ OfCalls(NChunks - done) <= OfCalls(NChunks)
         /\ done < NChunks => /\ OfCalls(NChunks - done - 1) \in Nat
                              /\ OfCalls(NChunks - done)
                                   = OfCalls(NChunks - done - 1) + 2 * Attempts
<1>1. PICK a \in Nat : a = 2 * Attempts
  BY StopAndWaitAssumption DEF StopAndWaitAssumption
<1>2. done \in 0..NChunks /\ NChunks \in Nat
  BY StopAndWaitAssumption DEF StopAndWaitAssumption, TypeOK
<1>3. \A m, n \in Nat : m <= n => m * a \in Nat /\ n * a \in Nat /\ m * a <= n * a
  BY <1>1
<1>4. \A n \in Nat : n > 0 => n - 1 \in Nat /\ n * a = (n - 1) * a + a BY <1>1
<1>5. PICK r \in Nat : r = NChunks - done /\ r <= NChunks /\ (done < NChunks => r > 0) BY <1>2
<1>6. r * a \in Nat /\ NChunks * a \in Nat /\ r * a <= NChunks * a BY <1>2, <1>3, <1>5
<1>7. ASSUME r > 0 PROVE (r - 1) * a \in Nat /\ r * a = (r - 1) * a + a
  <2>1. r - 1 \in Nat /\ r * a = (r - 1) * a + a BY <1>4, <1>5, <1>7
  <2>2. \A m \in Nat : m * a \in Nat BY <1>1
  <2> QED BY <2>1, <2>2
<1>8. /\ OfCalls(NChunks - done) = r * a /\ OfCalls(NChunks) = NChunks * a
      /\ OfCalls(NChunks - done - 1) = (r - 1) * a
  BY <1>1, <1>5 DEF OfCalls
<1>9. done < NChunks => r > 0 BY <1>5
<1> QED BY <1>1, <1>6, <1>7, <1>8, <1>9

LEMMA StepsOfMainIsNat ==
  TypeOK /\ CallInv => StepsOfMain \in Nat /\ (mpc # "ended" => StepsOfMain > 0)
<1> SUFFICES ASSUME TypeOK, CallInv
             PROVE  StepsOfMain \in Nat /\ (mpc # "ended" => StepsOfMain > 0)
  OBVIOUS
<1>1. /\ Attempts \in Nat /\ CloseAttempts \in Nat /\ attempt \in Nat
      /\ mpc \in {"syn", "synWait", "send", "sendWait"} => attempt <= Attempts
      /\ mpc \in {"fin", "finWait"} => attempt <= CloseAttempts
      /\ mpc \in {"send", "sendWait"} => done < NChunks
  BY StopAndWaitAssumption DEF StopAndWaitAssumption, TypeOK, CallInv, Sending
<1>2. StepsOfMain \in Nat BY <1>1, CallsLeft DEF StepsOfMain, OfClose, OfLoop
<1>3. PICK c \in Nat : c = OfCalls(NChunks - done) BY CallsLeft
<1>4. PICK d \in Nat : d = OfCalls(NChunks) BY CallsLeft
<1>5. CASE mpc \in {"send", "sendWait"}
  <2>1. PICK e \in Nat : e = OfCalls(NChunks - done - 1) BY <1>1, <1>5, CallsLeft
  <2>2. StepsOfMain > 0 BY <1>1, <1>5, <2>1 DEF StepsOfMain, OfClose, OfLoop
  <2> QED BY <1>2, <2>2
<1>6. CASE mpc \in {"start", "syn", "synWait", "idle", "join", "fin", "finWait"}
  <2>1. StepsOfMain > 0 BY <1>1, <1>3, <1>4, <1>6 DEF StepsOfMain, OfClose, OfLoop
  <2> QED BY <1>2, <2>1
<1> QED BY <1>2, <1>5, <1>6 DEF TypeOK

(* Every step of main brings it closer to its end.                         *)
LEMMA MainFalls ==
  ASSUME SawInv, SawInv', Main PROVE StepsOfMain' < StepsOfMain
<1>1. /\ Attempts \in Nat /\ CloseAttempts \in Nat /\ attempt \in Nat /\ Attempts > 1
      /\ mpc \in {"syn", "synWait", "send", "sendWait"} => attempt <= Attempts
      /\ mpc \in {"fin", "finWait"} => attempt <= CloseAttempts
      /\ mpc \in {"send", "sendWait"} => done < NChunks
      /\ mpc = "start" => attempt >= 1
      /\ NChunks \in Nat /\ done \in 0..NChunks
  BY StopAndWaitAssumption
  DEF StopAndWaitAssumption, SawInv, TypeOK, CallInv, Sending
<1>2. PICK c \in Nat : c = OfCalls(NChunks - done) BY CallsLeft DEF SawInv
<1>3. PICK d \in Nat : d = OfCalls(NChunks) /\ c <= d BY <1>2, CallsLeft DEF SawInv
<1>4. done < NChunks => \E e \in Nat : e = OfCalls(NChunks - done - 1) /\ c = e + 2 * Attempts
  BY <1>2, CallsLeft DEF SawInv
<1>5. OfClose \in Nat /\ OfClose = 2 * CloseAttempts + 2 BY <1>1 DEF OfClose
<1>6. ASSUME mpc' = "ended", mpc # "ended" PROVE StepsOfMain' < StepsOfMain
  <2>1. StepsOfMain' = 0 BY <1>6 DEF StepsOfMain
  <2>2. StepsOfMain \in Nat /\ StepsOfMain > 0 BY <1>6, StepsOfMainIsNat DEF SawInv
  <2> QED BY <2>1, <2>2
<1>7. CASE OpenFails \/ SendFails \/ CloseFails
  BY <1>6, <1>7 DEF OpenFails, SendFails, CloseFails
<1>8. CASE SendSyn
  <2>1. attempt' = attempt + 1 /\ mpc' = "synWait" /\ mpc \in {"start", "syn"} /\ attempt < Attempts
    BY <1>8 DEF SendSyn, Transmit
  <2>2. StepsOfMain' = OfClose + d + 2 * (Attempts - (attempt + 1)) + 3
    BY <1>3, <2>1 DEF StepsOfMain, OfLoop, OfClose, OfCalls
  <2>3. CASE mpc = "start" BY <1>1, <1>3, <1>5, <2>1, <2>2, <2>3 DEF StepsOfMain
  <2>4. CASE mpc = "syn" BY <1>1, <1>3, <1>5, <2>1, <2>2, <2>4 DEF StepsOfMain, OfLoop
  <2> QED BY <2>1, <2>3, <2>4
<1>9. CASE SynTimeout
  <2>1. mpc = "synWait" /\ mpc' \in {"syn", "ended"} /\ attempt' = attempt
    BY <1>9 DEF SynTimeout
  <2>2. CASE mpc' = "syn"
    <3>1. StepsOfMain' = OfClose + d + OfLoop(Attempts) + 2
      BY <1>3, <2>1, <2>2 DEF StepsOfMain, OfLoop, OfClose, OfCalls
    <3> QED BY <1>1, <1>3, <1>5, <2>1, <3>1 DEF StepsOfMain, OfLoop
  <2> QED BY <1>6, <2>1, <2>2
<1>10. CASE SynAnswered
  <2>1. mpc = "synWait" /\ mpc' = "idle" /\ done' = done
    BY <1>10 DEF SynAnswered, callVars
  <2>2. StepsOfMain' = OfClose + c + 1
    BY <1>2, <2>1 DEF StepsOfMain, OfClose, OfCalls
  <2> QED BY <1>1, <1>3, <1>5, <2>1, <2>2 DEF StepsOfMain, OfLoop
<1>11. CASE CallSend
  <2>1. mpc = "idle" /\ mpc' = "send" /\ done < NChunks /\ done' = done /\ attempt' = 1
    BY <1>11 DEF CallSend, callVars
  <2>2. PICK e \in Nat : e = OfCalls(NChunks - done - 1) /\ c = e + 2 * Attempts
    BY <1>4, <2>1
  <2>3. StepsOfMain' = OfClose + e + 2 * (Attempts - 1) + 1
    BY <2>1, <2>2 DEF StepsOfMain, OfLoop, OfClose, OfCalls
  <2> QED BY <1>1, <1>2, <1>5, <2>1, <2>2, <2>3 DEF StepsOfMain
<1>12. CASE Send \/ SendTimeout
  <2>1. /\ \/ mpc = "send" /\ mpc' = "sendWait" /\ attempt' = attempt + 1 /\ attempt < Attempts
           \/ mpc = "sendWait" /\ mpc' = "send" /\ attempt' = attempt
        /\ done' = done /\ done < NChunks
    BY <1>1, <1>12 DEF Send, SendTimeout, Transmit, callVars
  <2>2. PICK e \in Nat : e = OfCalls(NChunks - done - 1) BY <1>4, <2>1
  <2>3. CASE mpc = "send"
    <3>1. StepsOfMain' = OfClose + e + 2 * (Attempts - (attempt + 1)) + 2
      BY <2>1, <2>2, <2>3 DEF StepsOfMain, OfLoop, OfClose, OfCalls
    <3> QED BY <1>1, <1>5, <2>1, <2>2, <2>3, <3>1 DEF StepsOfMain, OfLoop
  <2>4. CASE mpc = "sendWait"
    <3>1. StepsOfMain' = OfClose + e + OfLoop(Attempts) + 1
      BY <2>1, <2>2, <2>4 DEF StepsOfMain, OfLoop, OfClose, OfCalls
    <3> QED BY <1>1, <1>5, <2>1, <2>2, <2>4, <3>1 DEF StepsOfMain, OfLoop
  <2> QED BY <2>1, <2>3, <2>4
<1>13. CASE SendAnswered
  <2>1. mpc = "sendWait" /\ mpc' = "idle" /\ done' = done + 1 /\ done < NChunks
    BY <1>1, <1>13 DEF SendAnswered
  <2>2. PICK e \in Nat : e = OfCalls(NChunks - done - 1) BY <1>4, <2>1
  <2>3. NChunks - done' = NChunks - done - 1 BY <1>1, <2>1
  <2>4. StepsOfMain' = OfClose + e + 1
    BY <2>1, <2>2, <2>3 DEF StepsOfMain, OfClose, OfCalls
  <2> QED BY <1>1, <1>5, <2>1, <2>2, <2>4 DEF StepsOfMain, OfLoop
<1>14. CASE SendRetx
  <2>1. mpc = "sendWait" /\ mpc' \in {"send", "ended"} /\ attempt' = attempt /\ done' = done
    BY <1>14 DEF SendRetx
  <2>2. PICK e \in Nat : e = OfCalls(NChunks - done - 1) BY <1>1, <1>4, <2>1
  <2>3. CASE mpc' = "send"
    <3>1. StepsOfMain' = OfClose + e + OfLoop(Attempts) + 1
      BY <2>1, <2>2, <2>3 DEF StepsOfMain, OfLoop, OfClose, OfCalls
    <3> QED BY <1>1, <1>5, <2>1, <2>2, <3>1 DEF StepsOfMain, OfLoop
  <2> QED BY <1>6, <2>1, <2>3
<1>15. CASE SetBreak
  <2>1. mpc = "idle" /\ mpc' = "join" BY <1>15 DEF SetBreak
  <2>2. StepsOfMain' = OfClose BY <2>1 DEF StepsOfMain, OfClose
  <2> QED BY <1>2, <1>5, <2>1, <2>2 DEF StepsOfMain
<1>16. CASE Join
  <2>1. mpc = "join" /\ mpc' = "fin" /\ attempt' = 0 BY <1>16 DEF Join
  <2>2. StepsOfMain' = 2 * (CloseAttempts - 0) + 1 BY <2>1 DEF StepsOfMain, OfLoop
  <2> QED BY <1>1, <1>5, <2>1, <2>2 DEF StepsOfMain
<1>17. CASE SendFin
  <2>1. mpc = "fin" /\ mpc' = "finWait" /\ attempt' = attempt + 1 /\ attempt < CloseAttempts
    BY <1>17 DEF SendFin, Transmit
  <2>2. StepsOfMain' = 2 * (CloseAttempts - (attempt + 1)) + 2
    BY <2>1 DEF StepsOfMain, OfLoop
  <2> QED BY <1>1, <2>1, <2>2 DEF StepsOfMain, OfLoop
<1>18. CASE FinTimeout \/ FinAnswered
  <2>1. mpc = "finWait" /\ mpc' \in {"fin", "ended"} /\ attempt' = attempt
    BY <1>18 DEF FinTimeout, FinAnswered, FinNextRound
  <2>2. CASE mpc' = "fin"
    <3>1. StepsOfMain' = OfLoop(CloseAttempts) + 1 BY <2>1, <2>2 DEF StepsOfMain, OfLoop
    <3> QED BY <1>1, <2>1, <3>1 DEF StepsOfMain, OfLoop
  <2> QED BY <1>6, <2>1, <2>2
<1> QED BY <1>7, <1>8, <1>9, <1>10, <1>11, <1>12, <1>13, <1>14, <1>15, <1>16, <1>17, <1>18
    DEF Main

(* The status thread has at most two steps to go once breakThread is set.   *)
LEMMA StatsFall ==
  ASSUME TypeOK, Stats
  PROVE  /\ StepsOfStats' <= StepsOfStats
         /\ breakThread => StepsOfStats' < StepsOfStats
<1>1. breakThread' = breakThread /\ breakThread \in BOOLEAN
  BY DEF Stats, StatsWake, StatsCheck, statVars, TypeOK
<1>2. CASE StatsWake
  <2>1. spc = "wait" /\ spc' \in {"check", "exited"} BY <1>2 DEF StatsWake
  <2> QED BY <1>1, <2>1 DEF StepsOfStats
<1>3. CASE StatsCheck
  <2>1. spc = "check" /\ spc' = IF breakThread THEN "exited" ELSE "wait" BY <1>3 DEF StatsCheck
  <2> QED BY <1>1, <2>1 DEF StepsOfStats
<1> QED BY <1>2, <1>3 DEF Stats

(* Every step of main, and once breakThread is set every step of the status *)
(* thread, takes one of a number of steps that attempts and chunks bound;   *)
(* nothing the network or the status thread does gives main more of them.   *)
(* So main cannot go on for ever: what MainEnds adds is that the threads    *)
(* are scheduled and that only Join keeps main waiting.                     *)
THEOREM StepsBounded ==
  Spec => /\ [](StepsLeft \in Nat)
          /\ [][/\ StepsLeft' <= StepsLeft
                /\ mpc' # mpc \/ (breakThread /\ spc' # spc) => StepsLeft' < StepsLeft]_vars
<1> DEFINE Falls == /\ StepsLeft' <= StepsLeft
                    /\ mpc' # mpc \/ (breakThread /\ spc' # spc) => StepsLeft' < StepsLeft
<1>1. SawInv => StepsOfMain \in Nat /\ StepsOfStats \in 0..2
  BY StepsOfMainIsNat DEF SawInv, StepsOfStats
<1>2. SawInv => StepsLeft \in Nat
  <2> SUFFICES ASSUME SawInv PROVE StepsLeft \in Nat OBVIOUS
  <2>1. PICK m \in Nat : m = StepsOfMain BY <1>1
  <2>2. PICK n \in Nat : n = StepsOfStats BY <1>1
  <2> QED BY <2>1, <2>2 DEF StepsLeft
<1>3. SawInv /\ SawInv' /\ [Next]_vars => [Falls]_vars
  <2> SUFFICES ASSUME SawInv, SawInv', Next PROVE Falls OBVIOUS
  <2>1. (SawInv => StepsOfMain \in Nat /\ StepsOfStats \in 0..2)' BY <1>1, PTL
  <2>2. PICK m0 \in Nat : m0 = StepsOfMain BY <1>1
  <2>3. PICK m1 \in Nat : m1 = StepsOfMain' BY <2>1
  <2>4. PICK n0 \in 0..2 : n0 = StepsOfStats BY <1>1
  <2>5. PICK n1 \in 0..2 : n1 = StepsOfStats' BY <2>1
  <2>6. StepsLeft = m0 + n0 /\ StepsLeft' = m1 + n1 BY <2>2, <2>3, <2>4, <2>5 DEF StepsLeft
  <2>7. CASE Main
    <3>1. m1 < m0 BY <2>2, <2>3, <2>7, MainFalls
    <3>2. spc' = spc /\ (breakThread' = breakThread \/ breakThread' = TRUE)
      BY <2>7 DEF Main, OpenFails, SendSyn, SynTimeout, SynAnswered, CallSend, Send, SendFails,
         SendTimeout, SendAnswered, SendRetx, SetBreak, Join, SendFin, CloseFails, FinTimeout,
         FinAnswered, statVars
    <3>3. n1 <= n0 BY <2>4, <2>5, <3>2 DEF StepsOfStats, SawInv, TypeOK
    <3> QED BY <2>6, <3>1, <3>3
  <2>8. CASE Stats
    <3>1. UNCHANGED <<mpc, attempt, done>> BY <2>8 DEF Stats, StatsWake, StatsCheck, callVars
    <3>2. m1 = m0
      BY <2>2, <2>3, <3>1 DEF StepsOfMain, OfClose, OfCalls, OfLoop
    <3>3. n1 <= n0 /\ (breakThread => n1 < n0) BY <2>4, <2>5, <2>8, StatsFall DEF SawInv
    <3> QED BY <2>6, <3>1, <3>2, <3>3
  <2>9. CASE Network
    <3>1. UNCHANGED <<mpc, attempt, done, spc, breakThread>>
      BY <2>9 DEF Network, Deliver, LoseRequest, LoseAck, callVars, statVars
    <3>2. m1 = m0 /\ n1 = n0
      BY <2>2, <2>3, <2>4, <2>5, <3>1
      DEF StepsOfMain, StepsOfStats, OfClose, OfCalls, OfLoop
    <3> QED BY <2>6, <3>1, <3>2
  <2> QED BY <2>7, <2>8, <2>9 DEF Next
<1> QED BY Invariance, <1>2, <1>3, PTL DEF Spec
=============================================================================
