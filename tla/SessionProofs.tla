---------------------------- MODULE SessionProofs ----------------------------
(***************************************************************************)
(* Safety of Session for every number of attempts.                         *)
(***************************************************************************)
EXTENDS Session, TLAPS

(* main before Open has returned, in the transfer, and from SetBreak on. *)
Opening  == {"start", "refused", "failed", "syn", "synWait", "opening"}
Sending  == {"transfer", "break"}
Stopping == {"raise", "await", "closeHandle", "fin", "finWait", "closed"}

-----------------------------------------------------------------------------
(* The inductive invariant, in named parts. *)

(* breakThread, the event and its handle follow main's program. *)
EventInv ==
  /\ mpc \in Opening \cup Sending => ~breakThread
  /\ mpc \in Stopping => breakThread
  /\ event \/ ~handleOpen => breakThread
  /\ mpc = "raise" => ~event
  /\ mpc \in {"raise", "await", "closeHandle"} => handleOpen
  /\ caught => breakThread
  /\ mpc = "await" /\ ~event => caught /\ spc \notin {"print", "reset"}

(* The stats thread runs only once created, works only once opened is set,  *)
(* and, from SetBreak on, is past its test at most once.                    *)
StatsInv ==
  /\ mpc \in Opening \ {"opening"} => spc = "none"
  /\ mpc \in Opening \ {"start", "refused"} => ~opened
  /\ mpc \in Sending \cup Stopping => opened
  /\ spc \in {"check", "print", "reset"} \/ printMe => opened
  /\ mpc \in Opening \ {"opening"} => ~printMe
  /\ prints > 0 => printMe
  /\ breakThread /\ spc \in {"print", "reset"} => caught
  /\ late > 0 => caught
  /\ late <= 1
  /\ spc = "print" => late = 0

(* Close's connection: it is answered, what concerns its end comes after    *)
(* SetBreak, and over a socket that the transfer has closed nothing passes. *)
LinkInv ==
  /\ mpc \in {"break"} \cup Stopping => synHeard
  /\ mpc \in Opening => sockOpen
  /\ "FIN" \in wire \/ "FIN-ACK" \in inbound => synHeard /\ breakThread
  /\ closedOn # "nothing" => ~sockOpen /\ mpc \in {"closed", "ended"}
  /\ ~sockOpen /\ closedOn = "nothing" => "FIN" \notin wire /\ "FIN-ACK" \notin inbound

SessionInv == /\ TypeOK /\ EventInv /\ StatsInv /\ LinkInv /\ PrintsUntilBreak

-----------------------------------------------------------------------------
(* The initial states satisfy the invariant. *)
LEMMA InitInv == Init => SessionInv
<1> SUFFICES ASSUME Init PROVE SessionInv OBVIOUS
<1> USE SessionAssumption DEF SessionAssumption, Init
<1>1. TypeOK
  <2>1. attempt \in 0..Attempts /\ prints \in 0..PrintCap /\ late \in 0..PrintCap OBVIOUS
  <2>2. wire \subseteq Requests /\ inbound \subseteq Answers OBVIOUS
  <2> QED BY <2>1, <2>2 DEF TypeOK
<1>2. EventInv BY DEF EventInv, Opening, Sending, Stopping
<1>3. StatsInv BY DEF StatsInv, Opening, Sending, Stopping
<1>4. LinkInv BY DEF LinkInv, Opening, Stopping
<1>5. PrintsUntilBreak BY DEF PrintsUntilBreak
<1> QED BY <1>1, <1>2, <1>3, <1>4, <1>5 DEF SessionInv

(* A step of main, or the socket's end under the worker, keeps it.  SetBreak *)
(* is where caught is decided; RaiseEvent where the event may yet be reset.  *)
LEMMA MainStep == SessionInv /\ (Main \/ TransferBroken) => SessionInv'
<1> SUFFICES ASSUME SessionInv, Main \/ TransferBroken PROVE SessionInv' OBVIOUS
<1> USE SessionAssumption
    DEF SessionAssumption, SessionInv, TypeOK, EventInv, StatsInv, LinkInv,
        PrintsUntilBreak, Opening, Sending, Stopping, Requests, Answers,
        mainVars, statsVars, eventVars, netVars, endVars
<1>1. CASE OpenRefused \/ OpenFails
  <2>1. /\ mpc = "start" /\ mpc' \in {"refused", "failed"} /\ (mpc' = "failed" => ~opened)
        /\ UNCHANGED <<attempt, opened, statsVars, eventVars, netVars, endVars>>
    BY <1>1 DEF OpenRefused, OpenFails
  <2>2. TypeOK' /\ EventInv' BY <2>1
  <2>3. StatsInv' BY <2>1
  <2>4. LinkInv' /\ PrintsUntilBreak' BY <2>1
  <2> QED BY <2>2, <2>3, <2>4
<1>1a. CASE ConnectFailed
  <2>1. TypeOK' BY <1>1a DEF ConnectFailed
  <2>2. EventInv' BY <1>1a DEF ConnectFailed
  <2>3. StatsInv' BY <1>1a DEF ConnectFailed
  <2>4. LinkInv' /\ PrintsUntilBreak' BY <1>1a DEF ConnectFailed
  <2> QED BY <2>1, <2>2, <2>3, <2>4
<1>2. CASE OpenBegin BY <1>2 DEF OpenBegin
<1>3. CASE SendSyn
  <2>0. attempt' \in 0..Attempts BY <1>3 DEF SendSyn
  <2>1. TypeOK' BY <1>3, <2>0 DEF SendSyn
  <2>2. EventInv' /\ StatsInv' BY <1>3 DEF SendSyn
  <2>3. LinkInv' /\ PrintsUntilBreak' BY <1>3 DEF SendSyn
  <2> QED BY <2>1, <2>2, <2>3
<1>4. CASE SynTimeout BY <1>4 DEF SynTimeout
<1>5. CASE SynAnswered BY <1>5 DEF SynAnswered
<1>6. CASE OpenReturns BY <1>6 DEF OpenReturns
<1>7. CASE Transfer \/ TransferClosed
  <2> USE DEF Transfer, TransferClosed, LeaveTransfer, LeaveAnswers
  <2>1. TypeOK' BY <1>7
  <2>2. EventInv' /\ StatsInv' BY <1>7
  <2>3. LinkInv' BY <1>7
  <2>4. PrintsUntilBreak' BY <1>7
  <2> QED BY <2>1, <2>2, <2>3, <2>4
<1>8. CASE TransferBroken BY <1>8 DEF TransferBroken
<1>9. CASE SetBreak BY <1>9 DEF SetBreak
<1>10. CASE RaiseEvent BY <1>10 DEF RaiseEvent
<1>11. CASE AwaitEvent BY <1>11 DEF AwaitEvent
<1>12. CASE CloseStatusEvent
  <2>0. attempt' \in 0..Attempts BY <1>12 DEF CloseStatusEvent
  <2>1. TypeOK' BY <1>12, <2>0 DEF CloseStatusEvent
  <2>2. EventInv' /\ StatsInv' BY <1>12 DEF CloseStatusEvent
  <2>3. LinkInv' /\ PrintsUntilBreak' BY <1>12 DEF CloseStatusEvent
  <2> QED BY <2>1, <2>2, <2>3
<1>13. CASE SendFin
  <2>0. attempt' \in 0..Attempts BY <1>13 DEF SendFin
  <2>1. TypeOK' BY <1>13, <2>0 DEF SendFin
  <2>2. EventInv' /\ StatsInv' BY <1>13 DEF SendFin
  <2>3. LinkInv' /\ PrintsUntilBreak' BY <1>13 DEF SendFin
  <2> QED BY <2>1, <2>2, <2>3
<1>14. CASE FinTimeout BY <1>14 DEF FinTimeout
<1>15. CASE FinAnswered BY <1>15 DEF FinAnswered
<1>16. CASE CloseGivesUp BY <1>16 DEF CloseGivesUp
<1>17. CASE Exit BY <1>17 DEF Exit
<1> QED BY <1>1, <1>1a, <1>2, <1>3, <1>4, <1>5, <1>6, <1>7, <1>8, <1>9, <1>10, <1>11, <1>12, <1>13, <1>14, <1>15, <1>16, <1>17
     DEF Main

(* A step of the stats thread keeps it: with breakThread set its test sends *)
(* it out of the loop, so it prints and resets at most once more.           *)
LEMMA StatsStep == SessionInv /\ Stats => SessionInv'
<1> SUFFICES ASSUME SessionInv, Stats PROVE SessionInv' OBVIOUS
<1> USE SessionAssumption
    DEF SessionAssumption, SessionInv, TypeOK, EventInv, StatsInv, LinkInv,
        PrintsUntilBreak, Opening, Sending, Stopping,
        mainVars, statsVars, eventVars, netVars, endVars
<1>1. CASE StatsWake BY <1>1 DEF StatsWake, StatsContinues
<1>2. CASE StatsCheck BY <1>2 DEF StatsCheck
<1>3. CASE StatsPrint BY <1>3 DEF StatsPrint, Bump
<1>4. CASE StatsReset BY <1>4 DEF StatsReset
<1> QED BY <1>1, <1>2, <1>3, <1>4 DEF Stats

(* So does the network, which creates no request. *)
LEMMA NetworkStep == SessionInv /\ Network => SessionInv'
<1> SUFFICES ASSUME SessionInv, Network PROVE SessionInv' OBVIOUS
<1> USE DEF SessionInv, TypeOK, EventInv, StatsInv, LinkInv, PrintsUntilBreak,
            Opening, Sending, Stopping, mainVars, statsVars, eventVars, netVars, endVars
<1>1. CASE \E r \in wire : Deliver(r)
  BY <1>1 DEF Deliver, Answered, Requests, Answers
<1>2. CASE \E r \in wire : LoseRequest(r) BY <1>2 DEF LoseRequest
<1>3. CASE \E d \in inbound : LoseAnswer(d) BY <1>3 DEF LoseAnswer
<1> QED BY <1>1, <1>2, <1>3 DEF Network

(* The invariant holds in every reachable state. *)
THEOREM Invariance == Spec => []SessionInv
<1>1. SessionInv /\ UNCHANGED vars => SessionInv'
  BY DEF SessionInv, TypeOK, EventInv, StatsInv, LinkInv, PrintsUntilBreak, Opening,
         Sending, Stopping, vars, mainVars, statsVars, eventVars, netVars, endVars
<1>2. SessionInv /\ [Next]_vars => SessionInv'
  BY <1>1, MainStep, StatsStep, NetworkStep DEF Next
<1> QED BY InitInv, <1>2, PTL DEF Spec

(* Type correctness; Open and Close try at most REATTEMPTS_ALLOWED times. *)
THEOREM TypeCorrect == Spec => []TypeOK
<1>1. SessionInv => TypeOK BY DEF SessionInv
<1> QED BY <1>1, Invariance, PTL

(* main's shutdown of the stats thread hangs only when SetBreak caught the  *)
(* thread between its test of breakThread and its ResetEvent.               *)
THEOREM WakeupsLost == Spec => []WakeupLostOnlyIfCaught
<1>1. SessionInv => WakeupLostOnlyIfCaught
  BY DEF SessionInv, EventInv, StatsInv, WakeupLostOnlyIfCaught
<1> QED BY <1>1, Invariance, PTL

(* A stats thread that has printed runs until main stops it. *)
THEOREM PrintsGoOn == Spec => []PrintsUntilBreak
<1>1. SessionInv => PrintsUntilBreak BY DEF SessionInv
<1> QED BY <1>1, Invariance, PTL

(* Close never runs on a connection that was not answered, and on a socket  *)
(* that ReceiveACK has closed it sends no FIN.                              *)
THEOREM CloseIsSafe == Spec => []CloseFindsConnection
<1>1. SessionInv => CloseFindsConnection
  BY DEF SessionInv, TypeOK, LinkInv, CloseFindsConnection, Stopping
<1> QED BY <1>1, Invariance, PTL

-----------------------------------------------------------------------------
(* Close's answer.  From the end of a transfer that left nothing on its way *)
(* no answer but to a FIN can arrive.                                       *)
QuietInv ==
  /\ mpc \in {"break"} \cup Stopping /\ ~leftover =>
       "SYN" \notin wire /\ inbound \subseteq {"FIN-ACK"}
  /\ breakThread /\ ~leftover => closedOn \in {"nothing", "FIN-ACK"}

(* main leaves the transfer having decided whether something is left, and   *)
(* receives only in FinAnswered.                                            *)
LEMMA QuietMain ==
  ASSUME SessionInv, QuietInv, Main \/ TransferBroken PROVE QuietInv'
<1> USE DEF QuietInv, Stopping, netVars, eventVars, endVars
<1>0. LinkInv /\ EventInv BY DEF SessionInv
<1>1. CASE OpenRefused \/ OpenFails \/ ConnectFailed
  <2>1. mpc' \in {"refused", "failed", "ended"} /\ UNCHANGED <<breakThread, leftover, closedOn>>
    BY <1>1 DEF OpenRefused, OpenFails, ConnectFailed
  <2> QED BY <2>1
<1>2. CASE OpenBegin \/ SendSyn \/ SynTimeout \/ SynAnswered \/ OpenReturns
  <2>1. /\ mpc' \in {"syn", "synWait", "opening", "transfer"}
        /\ UNCHANGED <<breakThread, leftover, closedOn>>
    BY <1>2 DEF OpenBegin, SendSyn, SynTimeout, SynAnswered, OpenReturns
  <2> QED BY <2>1
<1>3. CASE Transfer \/ TransferClosed
  <2>0. LeaveTransfer BY <1>3 DEF Transfer, TransferClosed
  <2>1. mpc' = "break" /\ wire' = wire /\ UNCHANGED <<breakThread, closedOn>> /\ mpc = "transfer"
    BY <2>0 DEF LeaveTransfer
  <2>2. ~leftover' => inbound' = {} /\ "SYN" \notin wire BY <2>0 DEF LeaveTransfer, LeaveAnswers
  <2>3. ~breakThread BY <1>0, <2>1 DEF EventInv, Sending
  <2> QED BY <2>1, <2>2, <2>3
<1>4. CASE TransferBroken BY <1>4 DEF TransferBroken, mainVars
<1>5. CASE SetBreak \/ RaiseEvent \/ AwaitEvent \/ CloseStatusEvent \/ FinTimeout \/ CloseGivesUp
  <2>1. /\ mpc \in {"break"} \cup Stopping /\ mpc' \in Stopping
        /\ mpc = "break" \/ breakThread' = breakThread
        /\ UNCHANGED <<leftover, wire, inbound, closedOn>>
    BY <1>5 DEF SetBreak, RaiseEvent, AwaitEvent, CloseStatusEvent, FinTimeout, CloseGivesUp
  <2>2. mpc = "break" => closedOn = "nothing" BY <1>0 DEF LinkInv
  <2> QED BY <2>1, <2>2
<1>6. CASE SendFin
  <2>1. /\ mpc \in Stopping /\ mpc' = "finWait" /\ wire' \subseteq wire \cup {"FIN"}
        /\ UNCHANGED <<leftover, inbound, breakThread, closedOn>>
    BY <1>6 DEF SendFin
  <2> QED BY <2>1
<1>7. CASE FinAnswered
  <2>1. /\ mpc = "finWait" /\ mpc' = "closed" /\ UNCHANGED <<leftover, wire>>
        /\ closedOn' \in inbound /\ inbound' \subseteq inbound
    BY <1>7 DEF FinAnswered
  <2> QED BY <2>1
<1>9. CASE Exit BY <1>9 DEF Exit
<1> QED BY <1>1, <1>2, <1>3, <1>4, <1>5, <1>6, <1>7, <1>9 DEF Main

(* The network answers a FIN with a FIN-ACK. *)
LEMMA QuietNetwork ==
  ASSUME SessionInv, QuietInv, Network PROVE QuietInv'
<1> USE DEF QuietInv, eventVars, endVars, mainVars
<1>1. CASE \E r \in wire : Deliver(r)
  <2>1. PICK r \in wire : Deliver(r) BY <1>1
  <2>2. r \in {"SYN", "FIN"} BY DEF SessionInv, TypeOK, Requests
  <2>3. /\ UNCHANGED <<mpc, leftover, breakThread, sockOpen, closedOn>>
        /\ wire' \subseteq wire /\ inbound' = inbound \cup {Answered(r)}
    BY <2>1 DEF Deliver
  <2> QED BY <2>2, <2>3 DEF Answered
<1>2. CASE \E r \in wire : LoseRequest(r) BY <1>2 DEF LoseRequest
<1>3. CASE \E d \in inbound : LoseAnswer(d) BY <1>3 DEF LoseAnswer
<1> QED BY <1>1, <1>2, <1>3 DEF Network

(* When the transfer leaves nothing on its way, Close ends on the FIN-ACK,  *)
(* or on nothing: then the socket is open, or the transfer had closed it    *)
(* and the receiver never hears of an end.                                  *)
THEOREM ClosesOnFinAck == Spec => []ClosedOnFinAck
<1>1. Init => QuietInv BY DEF Init, QuietInv, Stopping
<1>2. ASSUME SessionInv, QuietInv, Stats \/ UNCHANGED vars PROVE QuietInv'
  <2>1. UNCHANGED <<mpc, breakThread, leftover, wire, inbound, sockOpen, closedOn>>
    BY <1>2 DEF Stats, StatsWake, StatsCheck, StatsPrint, StatsReset, vars, mainVars,
                eventVars, netVars, endVars
  <2> QED BY <1>2, <2>1 DEF QuietInv, Stopping
<1>3. SessionInv /\ QuietInv /\ [Next]_vars => QuietInv'
  BY <1>2, QuietMain, QuietNetwork DEF Next
<1>4. SessionInv /\ QuietInv => ClosedOnFinAck
  <2> SUFFICES ASSUME LinkInv, QuietInv, breakThread, ~leftover
               PROVE  \/ closedOn = "FIN-ACK" /\ ~sockOpen
                      \/ closedOn = "nothing" /\ sockOpen
                      \/ closedOn = "nothing" /\ "FIN" \notin wire /\ "FIN-ACK" \notin inbound
    BY DEF SessionInv, ClosedOnFinAck
  <2>1. CASE closedOn = "FIN-ACK" BY <2>1 DEF LinkInv
  <2>2. CASE closedOn = "nothing" BY <2>2 DEF LinkInv
  <2> QED BY <2>1, <2>2 DEF QuietInv
<1> QED BY <1>1, <1>3, <1>4, Invariance, PTL DEF Spec
-----------------------------------------------------------------------------
(* Termination. *)

(* The rounds of the loop main is in, and the steps of Close with those     *)
(* that lead to it.                                                         *)
OfLoop  == 2 * (Attempts - attempt)
OfClose == 2 * Attempts + 3

(* main takes at most this many steps more ...                              *)
StepsOfMain ==
  CASE mpc = "start"       -> OfClose + 2 * Attempts + 8
    [] mpc = "synWait"     -> OfClose + OfLoop + 8
    [] mpc = "syn"         -> OfClose + OfLoop + 7
    [] mpc = "opening"     -> OfClose + 6
    [] mpc = "transfer"    -> OfClose + 5
    [] mpc = "break"       -> OfClose + 4
    [] mpc = "raise"       -> OfClose + 3
    [] mpc = "await"       -> OfClose + 2
    [] mpc = "closeHandle" -> OfClose + 1
    [] mpc = "finWait"     -> OfLoop + 3
    [] mpc = "fin"         -> OfLoop + 2
    [] mpc \in {"closed", "refused", "failed"} -> 1
    [] OTHER               -> 0

(* ... and the stats thread, once breakThread is set, this many: if it is   *)
(* past its test it prints, resets the event, waits, and tests again.       *)
StepsOfStats ==
  CASE spc \in {"exited", "killed"} -> 0
    [] spc = "check" /\ breakThread -> 1
    [] spc = "wait"  /\ breakThread -> 2
    [] spc = "reset" /\ breakThread -> 3
    [] OTHER                        -> 4

StepsLeft == StepsOfMain + StepsOfStats

LEMMA StepsAreNat == TypeOK => StepsOfMain \in Nat /\ StepsOfStats \in 0..4
<1> SUFFICES ASSUME TypeOK PROVE StepsOfMain \in Nat /\ StepsOfStats \in 0..4 OBVIOUS
<1>1. attempt \in 0..Attempts /\ Attempts \in Nat
  BY SessionAssumption DEF SessionAssumption, TypeOK
<1>2. OfLoop \in Nat /\ OfClose \in Nat BY <1>1 DEF OfLoop, OfClose
<1>3. StepsOfMain \in Nat BY <1>2, <1>1 DEF StepsOfMain
<1>4. StepsOfStats \in 0..4 BY DEF StepsOfStats
<1> QED BY <1>3, <1>4

(* Every step of main brings it closer to its end.                          *)
LEMMA MainFalls ==
  ASSUME TypeOK, TypeOK', Main PROVE StepsOfMain' < StepsOfMain
<1>1. attempt \in 0..Attempts /\ Attempts \in Nat
  BY SessionAssumption DEF SessionAssumption, TypeOK
<1>2. PICK c \in Nat : c = OfClose /\ c = 2 * Attempts + 3 BY <1>1 DEF OfClose
<1>3. OfClose' = c BY <1>2 DEF OfClose
<1>4. PICK n \in Nat : n = OfLoop /\ n = 2 * (Attempts - attempt) BY <1>1 DEF OfLoop
<1>5. attempt' = attempt => OfLoop' = n BY <1>4 DEF OfLoop
<1>6. CASE OpenRefused
  <2>1. mpc = "start" /\ mpc' = "refused" BY <1>6 DEF OpenRefused
  <2> QED BY <1>1, <1>2, <2>1 DEF StepsOfMain
<1>6a. CASE OpenFails
  <2>1. mpc = "start" /\ mpc' = "failed" BY <1>6a DEF OpenFails
  <2> QED BY <1>1, <1>2, <2>1 DEF StepsOfMain
<1>6b. CASE ConnectFailed
  <2>1. mpc \in {"refused", "failed"} /\ mpc' = "ended" BY <1>6b DEF ConnectFailed
  <2> QED BY <2>1 DEF StepsOfMain
<1>7. CASE OpenBegin
  <2>1. mpc = "start" /\ mpc' = "syn" /\ attempt' = attempt BY <1>7 DEF OpenBegin
  <2>2. StepsOfMain' = c + n + 7 BY <1>3, <1>5, <2>1 DEF StepsOfMain
  <2> QED BY <1>1, <1>2, <1>4, <2>1, <2>2 DEF StepsOfMain
<1>8. CASE SendSyn
  <2>1. mpc = "syn" /\ mpc' \in {"syn", "synWait"} /\ attempt' = attempt + 1 /\ attempt < Attempts
    BY <1>8 DEF SendSyn
  <2>2. PICK k \in Nat : k = OfLoop' /\ k = n - 2 BY <1>1, <1>4, <2>1 DEF OfLoop
  <2>3. StepsOfMain' \in {c + k + 7, c + k + 8} BY <1>3, <2>1, <2>2 DEF StepsOfMain
  <2>4. StepsOfMain = c + n + 7 BY <1>2, <1>4, <2>1 DEF StepsOfMain
  <2> QED BY <2>2, <2>3, <2>4
<1>9. CASE SynTimeout
  <2>1. mpc = "synWait" /\ mpc' = "syn" /\ attempt' = attempt BY <1>9 DEF SynTimeout
  <2>2. StepsOfMain' = c + n + 7 BY <1>3, <1>5, <2>1 DEF StepsOfMain
  <2> QED BY <1>2, <1>4, <2>1, <2>2 DEF StepsOfMain
<1>10. CASE SynAnswered
  <2>1. mpc = "synWait" /\ mpc' = "opening" BY <1>10 DEF SynAnswered
  <2>2. StepsOfMain' = c + 6 BY <1>3, <2>1 DEF StepsOfMain
  <2> QED BY <1>2, <1>4, <2>1, <2>2 DEF StepsOfMain
<1>11. CASE OpenReturns
  <2>1. mpc \in {"opening", "syn"} /\ mpc' = "transfer" BY <1>11 DEF OpenReturns
  <2>2. StepsOfMain' = c + 5 BY <1>3, <2>1 DEF StepsOfMain
  <2> QED BY <1>2, <1>4, <2>1, <2>2 DEF StepsOfMain
<1>12. CASE Transfer \/ TransferClosed \/ SetBreak \/ RaiseEvent \/ AwaitEvent
  <2>1. <<mpc, mpc'>> \in {<<"transfer", "break">>, <<"break", "raise">>,
                           <<"raise", "await">>, <<"await", "closeHandle">>}
    BY <1>12 DEF Transfer, TransferClosed, LeaveTransfer, SetBreak, RaiseEvent, AwaitEvent
  <2> QED BY <1>2, <1>3, <2>1 DEF StepsOfMain
<1>13. CASE CloseStatusEvent
  <2>1. mpc = "closeHandle" /\ mpc' = "fin" /\ attempt' = 0 BY <1>13 DEF CloseStatusEvent
  <2>2. StepsOfMain' = 2 * (Attempts - 0) + 2 BY <2>1 DEF StepsOfMain, OfLoop
  <2> QED BY <1>1, <1>2, <2>1, <2>2 DEF StepsOfMain
<1>14. CASE SendFin
  <2>1. mpc = "fin" /\ mpc' = "finWait" /\ attempt' = attempt + 1 /\ attempt < Attempts
    BY <1>14 DEF SendFin
  <2>2. PICK k \in Nat : k = OfLoop' /\ k = n - 2 BY <1>1, <1>4, <2>1 DEF OfLoop
  <2>3. StepsOfMain' = k + 3 BY <2>1, <2>2 DEF StepsOfMain
  <2>4. StepsOfMain = n + 2 BY <1>4, <2>1 DEF StepsOfMain
  <2> QED BY <2>2, <2>3, <2>4
<1>15. CASE FinTimeout
  <2>1. mpc = "finWait" /\ mpc' = "fin" /\ attempt' = attempt BY <1>15 DEF FinTimeout
  <2>2. StepsOfMain' = n + 2 BY <1>5, <2>1 DEF StepsOfMain
  <2> QED BY <1>4, <2>1, <2>2 DEF StepsOfMain
<1>16. CASE FinAnswered \/ CloseGivesUp
  <2>1. mpc \in {"fin", "finWait"} /\ mpc' = "closed"
    BY <1>16 DEF FinAnswered, CloseGivesUp
  <2> QED BY <1>4, <2>1 DEF StepsOfMain
<1>17. CASE Exit
  <2>1. mpc = "closed" /\ mpc' = "ended" BY <1>17 DEF Exit
  <2> QED BY <2>1 DEF StepsOfMain
<1> QED BY <1>6, <1>6a, <1>6b, <1>7, <1>8, <1>9, <1>10, <1>11, <1>12, <1>13, <1>14, <1>15,
           <1>16, <1>17
    DEF Main

(* main does not give the stats thread more steps.                          *)
LEMMA StatsOfMain ==
  ASSUME SessionInv, Main PROVE StepsOfStats' <= StepsOfStats
<1>1. StepsOfStats \in 0..4 /\ (~breakThread /\ spc \notin {"exited", "killed"} => StepsOfStats = 4)
  BY DEF StepsOfStats
<1>2. CASE Exit
  <2>1. spc' \in {"exited", "killed"} BY <1>2 DEF Exit
  <2> QED BY <1>1, <2>1 DEF StepsOfStats
<1>3. CASE SynAnswered
  <2>1. spc = "none" /\ breakThread' = breakThread /\ ~breakThread
    BY <1>3 DEF SynAnswered, SessionInv, StatsInv, EventInv, Opening, eventVars
  <2>2. StepsOfStats = 4 /\ StepsOfStats' \in 0..4 BY <2>1 DEF StepsOfStats
  <2> QED BY <2>2
<1>4. CASE SetBreak
  <2>1. spc' = spc BY <1>4 DEF SetBreak, statsVars
  <2>2. CASE spc \in {"exited", "killed"} BY <2>1, <2>2 DEF StepsOfStats
  <2>3. CASE spc \notin {"exited", "killed"}
    <3>1. ~breakThread BY <1>4 DEF SetBreak, SessionInv, EventInv, Sending
    <3>2. StepsOfStats' \in 0..4 BY DEF StepsOfStats
    <3> QED BY <1>1, <2>3, <3>1, <3>2
  <2> QED BY <2>2, <2>3
<1>5. CASE Main /\ ~Exit /\ ~SynAnswered /\ ~SetBreak
  <2>1. spc' = spc /\ breakThread' = breakThread
    BY <1>5 DEF Main, OpenRefused, OpenFails, ConnectFailed, OpenBegin, SendSyn, SynTimeout,
       OpenReturns, Transfer, TransferClosed, LeaveTransfer, RaiseEvent, AwaitEvent, CloseStatusEvent, SendFin, FinTimeout, FinAnswered, CloseGivesUp,
       statsVars, eventVars
  <2>2. StepsOfStats' = StepsOfStats BY <2>1 DEF StepsOfStats
  <2> QED BY <1>1, <2>2
<1> QED BY <1>2, <1>3, <1>4, <1>5

(* Once breakThread is set each step of the stats thread is one less.       *)
LEMMA StatsFall ==
  ASSUME TypeOK, Stats
  PROVE  /\ StepsOfStats' <= StepsOfStats
         /\ breakThread => StepsOfStats' < StepsOfStats
<1>1. breakThread' = breakThread /\ breakThread \in BOOLEAN
  BY DEF Stats, StatsWake, StatsCheck, StatsPrint, StatsReset, eventVars, TypeOK
<1>2. \/ spc = "wait" /\ spc' \in {"check", "exited"}
      \/ spc = "check" /\ spc' = IF breakThread THEN "exited" ELSE "print"
      \/ spc = "print" /\ spc' = "reset"
      \/ spc = "reset" /\ spc' = "wait"
  BY DEF Stats, StatsWake, StatsCheck, StatsPrint, StatsReset
<1>3. CASE breakThread BY <1>1, <1>2, <1>3 DEF StepsOfStats
<1>4. CASE ~breakThread BY <1>1, <1>2, <1>4 DEF StepsOfStats
<1> QED BY <1>1, <1>3, <1>4

(* Every step of main, and once breakThread is set every step of the stats  *)
(* thread, takes one of a number of steps that attempts bound; nothing the  *)
(* network, the transfer's failure or the stats thread do gives them more.  *)
(* So Open's and Close's loops end, and the stats thread after SetBreak:    *)
(* what MainReturns and StatsStops add is scheduling, and that main waits   *)
(* nowhere but in the transfer and in AwaitEvent.                           *)
THEOREM StepsBounded ==
  Spec => /\ [](StepsLeft \in Nat)
          /\ [][/\ StepsLeft' <= StepsLeft
                /\ mpc' # mpc \/ attempt' # attempt \/ (breakThread /\ spc' # spc)
                     => StepsLeft' < StepsLeft]_vars
<1> DEFINE Falls == /\ StepsLeft' <= StepsLeft
                    /\ mpc' # mpc \/ attempt' # attempt \/ (breakThread /\ spc' # spc)
                         => StepsLeft' < StepsLeft
<1>1. SessionInv => StepsOfMain \in Nat /\ StepsOfStats \in 0..4
  BY StepsAreNat DEF SessionInv
<1>2. SessionInv => StepsLeft \in Nat
  <2> SUFFICES ASSUME SessionInv PROVE StepsLeft \in Nat OBVIOUS
  <2>1. PICK m \in Nat : m = StepsOfMain BY <1>1
  <2>2. PICK n \in Nat : n = StepsOfStats BY <1>1
  <2> QED BY <2>1, <2>2 DEF StepsLeft
<1>3. SessionInv /\ SessionInv' /\ [Next]_vars => [Falls]_vars
  <2> SUFFICES ASSUME SessionInv, SessionInv', Next PROVE Falls OBVIOUS
  <2>1. (SessionInv => StepsOfMain \in Nat /\ StepsOfStats \in 0..4)' BY <1>1, PTL
  <2>2. PICK m0 \in Nat : m0 = StepsOfMain BY <1>1
  <2>3. PICK m1 \in Nat : m1 = StepsOfMain' BY <2>1
  <2>4. PICK n0 \in 0..4 : n0 = StepsOfStats BY <1>1
  <2>5. PICK n1 \in 0..4 : n1 = StepsOfStats' BY <2>1
  <2>6. StepsLeft = m0 + n0 /\ StepsLeft' = m1 + n1 BY <2>2, <2>3, <2>4, <2>5 DEF StepsLeft
  <2>7. CASE Main
    <3>1. m1 < m0 BY <2>2, <2>3, <2>7, MainFalls DEF SessionInv
    <3>2. n1 <= n0 BY <2>4, <2>5, <2>7, StatsOfMain
    <3> QED BY <2>6, <3>1, <3>2
  <2>8. CASE Stats
    <3>1. UNCHANGED <<mpc, attempt>>
      BY <2>8 DEF Stats, StatsWake, StatsCheck, StatsPrint, StatsReset, mainVars
    <3>2. m1 = m0 BY <2>2, <2>3, <3>1 DEF StepsOfMain, OfClose, OfLoop
    <3>3. n1 <= n0 /\ (breakThread => n1 < n0) BY <2>4, <2>5, <2>8, StatsFall DEF SessionInv
    <3> QED BY <2>6, <3>1, <3>2, <3>3
  <2>9. CASE TransferBroken \/ Network
    <3>1. UNCHANGED <<mpc, attempt, spc, breakThread>>
      BY <2>9 DEF TransferBroken, Network, Deliver, LoseRequest, LoseAnswer, mainVars, statsVars,
         eventVars
    <3>2. m1 = m0 /\ n1 = n0
      BY <2>2, <2>3, <2>4, <2>5, <3>1 DEF StepsOfMain, StepsOfStats, OfClose, OfLoop
    <3> QED BY <2>6, <3>1, <3>2
  <2> QED BY <2>7, <2>8, <2>9 DEF Next
<1> QED BY Invariance, <1>2, <1>3, PTL DEF Spec
=============================================================================
