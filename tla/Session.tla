------------------------------- MODULE Session -------------------------------
(***************************************************************************)
(* The life of one hw3p3 connection: main from Open over the transfer and  *)
(* the shutdown of the stats thread to Close, the thread runStats, the     *)
(* manual-reset event statusEvent they share, and, as an external          *)
(* environment, a network that loses, delays and duplicates datagrams.     *)
(* The transfer itself is SenderSocket's: here it is one step.             *)
(***************************************************************************)
EXTENDS Naturals

CONSTANTS
  Attempts,   \* REATTEMPTS_ALLOWED
  PrintCap    \* prints saturates here; no property tells more prints apart

ASSUME SessionAssumption == Attempts \in Nat \ {0} /\ PrintCap \in Nat \ {0}

VARIABLES
  mpc,          \* where main is
  attempt,      \* i in Open's loop, then count in Close's
  opened,       \* ss.opened
  sockOpen,     \* FALSE once some closesocket was executed
  spc, printMe, \* where the stats thread is, and its local printMe
  breakThread,  \* st.breakThread
  event,        \* is statusEvent signalled?
  handleOpen,   \* FALSE once main has closed statusEvent's handle
  wire,         \* requests on their way to the receiver
  inbound,      \* datagrams on their way back or in the socket's buffer
  prints,       \* history: lines the stats thread has printed
  late,         \* history: those printed with breakThread already set
  caught,       \* history: was the stats thread past its test of breakThread then?
  synHeard,     \* history: did Open receive an answer?
  leftover,     \* history: did the transfer leave an answer on its way?
  closedOn      \* history: what Close received before it closed the socket

mainVars  == <<mpc, attempt, opened>>
statsVars == <<spc, printMe, prints, late>>
eventVars == <<breakThread, event, handleOpen, caught>>
netVars   == <<wire, inbound>>
endVars   == <<sockOpen, synHeard, leftover, closedOn>>
vars      == <<mainVars, statsVars, eventVars, netVars, endVars>>

Requests == {"SYN", "FIN"}
Answers  == {"SYN-ACK", "ACK", "FIN-ACK"}

Bump(n) == IF n < PrintCap THEN n + 1 ELSE n

(* The constructor leaves opened as the stack had it. *)
Init ==
  /\ mpc = "start" /\ attempt = 1 /\ opened \in BOOLEAN /\ sockOpen = TRUE
  /\ spc = "none" /\ printMe = FALSE /\ prints = 0 /\ late = 0
  /\ breakThread = FALSE /\ event = FALSE /\ handleOpen = TRUE /\ caught = FALSE
  /\ wire = {} /\ inbound = {}
  /\ synHeard = FALSE /\ leftover = FALSE /\ closedOn = "nothing"

-----------------------------------------------------------------------------
(* Open.                                                                    *)

(* ALREADY_CONNECTED. *)
OpenRefused ==
  /\ mpc = "start" /\ opened
  /\ mpc' = "refused"
  /\ UNCHANGED <<attempt, opened, statsVars, eventVars, netVars, endVars>>

(* No Winsock, no socket, or no port. *)
OpenFails ==
  /\ mpc = "start" /\ ~opened
  /\ mpc' = "failed"
  /\ UNCHANGED <<attempt, opened, statsVars, eventVars, netVars, endVars>>

(* main prints the status and returns. *)
ConnectFailed ==
  /\ mpc \in {"refused", "failed"}
  /\ mpc' = "ended" /\ opened' = FALSE
  /\ UNCHANGED <<attempt, statsVars, eventVars, netVars, endVars>>

OpenBegin ==
  /\ mpc = "start" /\ ~opened
  /\ mpc' = "syn"
  /\ UNCHANGED <<attempt, opened, statsVars, eventVars, netVars, endVars>>

(* One round of the loop; a sendto that fails goes to the next at once.     *)
SendSyn ==
  /\ mpc = "syn" /\ attempt < Attempts
  /\ attempt' = attempt + 1
  /\ \/ mpc' = "synWait" /\ wire' = wire \cup {"SYN"}
     \/ mpc' = "syn" /\ UNCHANGED wire
  /\ UNCHANGED <<opened, statsVars, eventVars, inbound, endVars>>

(* select times out or fails, or recvfrom fails. *)
SynTimeout ==
  /\ mpc = "synWait"
  /\ mpc' = "syn"
  /\ UNCHANGED <<attempt, opened, statsVars, eventVars, netVars, endVars>>

(* Any datagram is the answer; stats and workers are created. *)
SynAnswered ==
  /\ mpc = "synWait"
  /\ \E d \in inbound : inbound' = inbound \ {d}
  /\ mpc' = "opening" /\ synHeard' = TRUE /\ spc' = "wait"
  /\ UNCHANGED <<attempt, opened, printMe, prints, late, eventVars, wire, sockOpen,
                 leftover, closedOn>>

(* opened = true and STATUS_OK, answered or not. *)
OpenReturns ==
  /\ mpc = "opening" \/ (mpc = "syn" /\ attempt = Attempts)
  /\ opened' = TRUE
  /\ mpc' = "transfer"
  /\ UNCHANGED <<attempt, statsVars, eventVars, netVars, endVars>>

-----------------------------------------------------------------------------
(* The transfer.                                                            *)

LeaveAnswers ==
  /\ inbound' \in SUBSET (inbound \cup {"ACK"})
  /\ leftover' = (inbound' # {} \/ "SYN" \in wire)

TransferUnanswered ==  \* mutant
  /\ mpc = "transfer" /\ sockOpen
  /\ mpc' = "break"
  /\ LeaveAnswers
  /\ UNCHANGED <<attempt, opened, statsVars, eventVars, wire, sockOpen, synHeard, closedOn>>

(* main has sent every chunk, all are acknowledged, and main joins the      *)
(* worker.  Without an answer to Open there is no token for Send and no     *)
(* worker.  Acknowledgments of chunks that were retransmitted may still be  *)
(* on their way.                                                            *)
LeaveTransfer ==
  /\ mpc = "transfer" /\ synHeard /\ sockOpen
  /\ mpc' = "break"
  /\ LeaveAnswers
  /\ UNCHANGED <<attempt, opened, statsVars, eventVars, wire, synHeard, closedOn>>

Transfer == LeaveTransfer /\ sockOpen' = TRUE

(* recvfrom fails in ReceiveACK, which closes the socket.  After the last   *)
(* acknowledgment, with closeCalled not yet seen by the worker, that stops  *)
(* nobody: the worker's loop ends all the same and main goes on ...         *)
TransferClosed == LeaveTransfer /\ sockOpen' = FALSE

(* ... before it, no further acknowledgment can come: the worker spins and  *)
(* main waits for it, or for tokens, forever.                               *)
TransferBroken ==
  /\ mpc = "transfer" /\ synHeard /\ sockOpen
  /\ sockOpen' = FALSE
  /\ UNCHANGED <<mainVars, statsVars, eventVars, netVars, synHeard, leftover, closedOn>>

-----------------------------------------------------------------------------
(* main stops the stats thread.                                             *)

SetBreak ==
  /\ mpc = "break"
  /\ breakThread' = TRUE
  /\ caught' = (spc \in {"print", "reset"})
  /\ mpc' = "raise"
  /\ UNCHANGED <<attempt, opened, statsVars, event, handleOpen, netVars, endVars>>

RaiseEventNever ==  \* mutant
  /\ mpc = "raise"
  /\ mpc' = "await"
  /\ UNCHANGED <<attempt, opened, statsVars, eventVars, netVars, endVars>>

(* SetEvent(statusEvent). *)
RaiseEvent ==
  /\ mpc = "raise"
  /\ event' = TRUE
  /\ mpc' = "await"
  /\ UNCHANGED <<attempt, opened, statsVars, breakThread, handleOpen, caught, netVars, endVars>>

(* WaitForSingleObject(statusEvent, INFINITE): main waits on the event it   *)
(* has just raised, not on the thread.                                      *)
AwaitEvent ==
  /\ mpc = "await" /\ event
  /\ mpc' = "closeHandle"
  /\ UNCHANGED <<attempt, opened, statsVars, eventVars, netVars, endVars>>

(* CloseHandle(statusEvent), and into Close with count = 0. *)
CloseStatusEvent ==
  /\ mpc = "closeHandle"
  /\ handleOpen' = FALSE
  /\ mpc' = "fin" /\ attempt' = 0
  /\ UNCHANGED <<opened, statsVars, breakThread, event, caught, netVars, endVars>>

-----------------------------------------------------------------------------
(* Close.                                                                   *)

(* A sendto that fails, as all do on a closed socket, is only printed. *)
SendFin ==
  /\ mpc = "fin" /\ attempt < Attempts
  /\ attempt' = attempt + 1
  /\ \/ UNCHANGED wire
     \/ sockOpen /\ wire' = wire \cup {"FIN"}
  /\ mpc' = "finWait"
  /\ UNCHANGED <<opened, statsVars, eventVars, inbound, endVars>>

FinTimeoutCloses ==  \* mutant
  /\ mpc = "finWait"
  /\ mpc' = "closed" /\ sockOpen' = FALSE
  /\ UNCHANGED <<attempt, opened, statsVars, eventVars, netVars, synHeard, leftover, closedOn>>

(* select times out, or fails at once: the tv_usec Close computes is not a  *)
(* time, or the socket is closed.                                           *)
FinTimeout ==
  /\ mpc = "finWait"
  /\ mpc' = "fin"
  /\ UNCHANGED <<attempt, opened, statsVars, eventVars, netVars, endVars>>

(* Any datagram is the FIN-ACK: closesocket. *)
FinAnswered ==
  /\ mpc = "finWait" /\ sockOpen
  /\ \E d \in inbound : inbound' = inbound \ {d} /\ closedOn' = d
  /\ mpc' = "closed" /\ sockOpen' = FALSE
  /\ UNCHANGED <<attempt, opened, statsVars, eventVars, wire, synHeard, leftover>>

(* recvfrom fails, or the last round has passed: Close does not close the   *)
(* socket, and returns STATUS_OK like every other way.                      *)
CloseGivesUp ==
  /\ \/ mpc = "finWait" /\ sockOpen
     \/ mpc = "fin" /\ attempt = Attempts
  /\ mpc' = "closed"
  /\ UNCHANGED <<attempt, opened, statsVars, eventVars, netVars, endVars>>

(* main prints "<-- FIN-ACK" and returns.  The destructor asks for the exit *)
(* code of a handle that is closed and may read anything: it waits for the  *)
(* stats thread or does not, and the process takes a thread still running   *)
(* with it.                                                                 *)
Exit ==
  /\ mpc = "closed"
  /\ mpc' = "ended"
  /\ spc' = IF spc = "exited" THEN spc ELSE "killed"
  /\ UNCHANGED <<attempt, opened, printMe, prints, late, eventVars, netVars, endVars>>

Main == \/ OpenRefused \/ OpenFails \/ ConnectFailed
        \/ OpenBegin \/ SendSyn \/ SynTimeout \/ SynAnswered \/ OpenReturns
        \/ Transfer \/ TransferClosed
        \/ SetBreak \/ RaiseEvent \/ AwaitEvent \/ CloseStatusEvent
        \/ SendFin \/ FinTimeout \/ FinAnswered \/ CloseGivesUp \/ Exit

-----------------------------------------------------------------------------
(* SenderSocket::runStats.                                                  *)

StatsContinues(timeout) == (timeout \/ ~printMe) /\ opened

(* The loop's condition.  The wait ends by a timeout, by the event, or, its *)
(* handle closed, by failing.                                               *)
StatsWake ==
  /\ spc = "wait"
  /\ \E timeout \in BOOLEAN :
       /\ timeout => handleOpen /\ ~event
       /\ ~timeout => event \/ ~handleOpen
       /\ spc' = IF StatsContinues(timeout) THEN "check" ELSE "exited"
  /\ UNCHANGED <<mainVars, printMe, prints, late, eventVars, netVars, endVars>>

StatsCheckNot ==  \* mutant
  /\ spc = "check"
  /\ spc' = "print"
  /\ UNCHANGED <<mainVars, printMe, prints, late, eventVars, netVars, endVars>>

StatsCheck ==
  /\ spc = "check"
  /\ spc' = IF breakThread THEN "exited" ELSE "print"
  /\ UNCHANGED <<mainVars, printMe, prints, late, eventVars, netVars, endVars>>

StatsPrint ==
  /\ spc = "print"
  /\ printMe' = TRUE
  /\ prints' = Bump(prints)
  /\ late' = IF breakThread THEN Bump(late) ELSE late
  /\ spc' = "reset"
  /\ UNCHANGED <<mainVars, eventVars, netVars, endVars>>

(* ResetEvent, without effect on a closed handle. *)
StatsReset ==
  /\ spc = "reset"
  /\ event' = (event /\ ~handleOpen)
  /\ spc' = "wait"
  /\ UNCHANGED <<mainVars, printMe, prints, late, breakThread, handleOpen, caught, netVars, endVars>>

Stats == StatsWake \/ StatsCheck \/ StatsPrint \/ StatsReset

-----------------------------------------------------------------------------
(* The network and the receiver, which are not part of the repository.      *)

Answered(r) == IF r = "SYN" THEN "SYN-ACK" ELSE "FIN-ACK"

Deliver(r) ==
  /\ wire' \in {wire, wire \ {r}}
  /\ inbound' = inbound \cup {Answered(r)}
  /\ UNCHANGED <<mainVars, statsVars, eventVars, endVars>>

LoseRequest(r) ==
  /\ wire' = wire \ {r}
  /\ UNCHANGED <<mainVars, statsVars, eventVars, inbound, endVars>>

LoseAnswer(d) ==
  /\ inbound' = inbound \ {d}
  /\ UNCHANGED <<mainVars, statsVars, eventVars, wire, endVars>>

Network == /\ mpc # "ended"
           /\ \/ \E r \in wire : Deliver(r) \/ LoseRequest(r)
              \/ \E d \in inbound : LoseAnswer(d)

Next == Main \/ TransferBroken \/ Stats \/ Network

Spec == Init /\ [][Next]_vars

(* Both threads are scheduled.  That the transfer ends when the network     *)
(* lets it is SenderSocket's Termination.                                   *)
FairSpec == Spec /\ WF_vars(Main) /\ WF_vars(Stats)

-----------------------------------------------------------------------------
(* Type invariant; attempts never pass REATTEMPTS_ALLOWED. *)
TypeOK ==
  /\ mpc \in {"start", "refused", "failed", "syn", "synWait", "opening", "transfer",
              "break", "raise", "await", "closeHandle", "fin", "finWait", "closed", "ended"}
  /\ attempt \in 0..Attempts /\ opened \in BOOLEAN /\ sockOpen \in BOOLEAN
  /\ spc \in {"none", "wait", "check", "print", "reset", "exited", "killed"}
  /\ printMe \in BOOLEAN
  /\ breakThread \in BOOLEAN /\ event \in BOOLEAN /\ handleOpen \in BOOLEAN
  /\ wire \subseteq Requests /\ inbound \subseteq Answers
  /\ prints \in 0..PrintCap /\ late \in 0..PrintCap
  /\ caught \in BOOLEAN /\ synHeard \in BOOLEAN /\ leftover \in BOOLEAN
  /\ closedOn \in Answers \cup {"nothing"}

(* main finds its own event taken back only if the stats thread was past    *)
(* its test of breakThread, or had not yet reset the event, when main set   *)
(* breakThread; and only in that case is a line printed after the transfer, *)
(* one at most.                                                             *)
WakeupLostOnlyIfCaught ==
  /\ mpc = "await" /\ ~event => caught /\ spc \notin {"print", "reset"}
  /\ late > 0 => caught
  /\ late <= 1

(* A stats thread that has printed goes on until main stops it: it cannot   *)
(* leave its loop on an event or a flag of Open's.                          *)
PrintsUntilBreak == spc = "exited" /\ ~breakThread => prints = 0 /\ ~printMe

(* Close always finds a connection, although Open says STATUS_OK without an *)
(* answer: main is then held in the transfer.  It need not find a socket:   *)
(* if ReceiveACK has closed it after the last acknowledgment, no round of   *)
(* Close sends anything.  No FIN is sent before main stops the stats thread.*)
CloseFindsConnection ==
  /\ mpc \in {"fin", "finWait"} => synHeard /\ (sockOpen \/ "FIN" \notin wire)
  /\ "FIN" \in wire => synHeard /\ breakThread

(* How Close ends when the transfer left nothing on its way (with something *)
(* left, it takes that for the FIN-ACK): it has received the FIN-ACK and    *)
(* closed the socket; or it has received nothing, and leaves the socket     *)
(* open, or never had one and the receiver has not been sent a FIN.         *)
ClosedOnFinAck ==
  mpc \in {"closed", "ended"} /\ breakThread /\ ~leftover =>
    \/ closedOn = "FIN-ACK" /\ ~sockOpen
    \/ closedOn = "nothing" /\ sockOpen
    \/ closedOn = "nothing" /\ "FIN" \notin wire /\ "FIN-ACK" \notin inbound

(* Once main has set breakThread the stats thread ends, whatever becomes of *)
(* the event main raises, resets or closes under it.                        *)
StatsStops == breakThread ~> spc \in {"exited", "killed"}

(* main returns, unless no token or acknowledgment ever comes (Open was not *)
(* answered, or the socket was closed under the worker before the last      *)
(* one) or the stats thread took back the event main waits for.             *)
MainReturns ==
  \/ <>(mpc = "ended")
  \/ <>[](mpc = "transfer" /\ ~(synHeard /\ sockOpen))
  \/ <>[](mpc = "await" /\ caught)

(* workerThreads' comment says that once the workers closed, stats is       *)
(* closed: main, which has told it to end, gets on with Close.  The code    *)
(* may hang here.                                                           *)
StatsCloseReturns == mpc = "raise" ~> mpc = "fin"

=============================================================================
