------------------------------ MODULE PageRead ------------------------------
(***************************************************************************)
(* What a crawler thread of hw1p3 does with the network for its URLs: the  *)
(* Socket class, and RobotSendRead and ReconnectHostSend, which download   *)
(* robots.txt and the page, each over a Socket of its own.  Servers are    *)
(* external: they take a request or not, and answer in segments that come  *)
(* at any time, or stop.                                                   *)
(*                                                                         *)
(* Time is counted in half seconds: an odd number stands for any duration  *)
(* strictly between the two seconds next to it.                            *)
(***************************************************************************)
EXTENDS Integers

CONSTANTS
  INITIAL_BUF_SIZE, ROBOT_MAX, PAGE_MAX,  \* sizes of the buffer
  MinHeader,  \* the 50 bytes below which an answer is refused
  Limit,      \* the ten seconds Read starts with
  MaxUrls     \* bound: URLs the thread takes from the queue

ASSUME PageReadAssumption ==
  /\ INITIAL_BUF_SIZE \in Nat /\ INITIAL_BUF_SIZE >= 4
  /\ ROBOT_MAX = 2 * INITIAL_BUF_SIZE
  /\ PAGE_MAX \in Nat /\ PAGE_MAX > ROBOT_MAX
  /\ MinHeader \in Nat \ {0} /\ Limit \in Nat \ {0} /\ MaxUrls \in Nat

VARIABLES
  pc, urls,
  stage,           \* "robots" or "page": which of the two downloads
  sock,            \* webSocket->sock
  opened, refs,    \* sockets open; WSAStartups without their WSACleanup
  abandoned,       \* history: open sockets whose Socket was deleted
  robots, allocatedSize, curPos,
  tvSec,           \* timeout.tv_sec of the next select
  waited, polls,   \* history: time spent in select, segments received
  outcome,         \* history: how Read ended
  numberRobotPass, numberSuccessfullyCrawled, newNumberPagesInBatch, http

counters   == <<numberRobotPass, numberSuccessfullyCrawled, newNumberPagesInBatch, http>>
handleVars == <<sock, opened, refs, abandoned>>
readVars   == <<allocatedSize, curPos, tvSec, waited, polls, outcome>>
vars       == <<pc, urls, stage, handleVars, robots, readVars, counters>>

(* What stoi finds in a status line: a number of one of these classes, no   *)
(* number, or what nobody catches: substr throws when a NUL is among the    *)
(* first nine bytes, stoi when an int cannot hold the number.               *)
Classes == {"200", "300", "400", "500", "XXX"}
Codes   == Classes \cup {"word", "throws"}

(* The constructor of parsedHtml and the line before the loop have made a   *)
(* Socket each; the next one takes the place of both.                       *)
Init ==
  /\ pc = "top" /\ urls = 0 /\ stage = "robots"
  /\ sock = "none" /\ opened = 2 /\ refs = 2 /\ abandoned = 2
  /\ robots = TRUE /\ allocatedSize = INITIAL_BUF_SIZE /\ curPos = 0
  /\ tvSec = 0 /\ waited = 0 /\ polls = 0 /\ outcome = "none"
  /\ numberRobotPass = 0 /\ numberSuccessfullyCrawled = 0 /\ newNumberPagesInBatch = 0
  /\ http = [c \in Classes |-> 0]

-----------------------------------------------------------------------------
(* The Socket class.                                                        *)

(* The constructor: WSAStartup and socket(), or socket() fails and Winsock  *)
(* is given back.  An open socket of the previous object stays open.        *)
NewSocket ==
  /\ \/ sock' = "open" /\ opened' = opened + 1 /\ refs' = refs + 1
     \/ sock' = "none" /\ UNCHANGED <<opened, refs>>
  /\ allocatedSize' = INITIAL_BUF_SIZE /\ curPos' = 0 /\ robots' = TRUE
  /\ outcome' = "none" /\ UNCHANGED <<tvSec, waited, polls>>

(* The destructor closes nothing. *)
DeleteSocket ==
  /\ sock' = "none"
  /\ abandoned' = IF sock = "open" THEN abandoned + 1 ELSE abandoned
  /\ UNCHANGED <<opened, refs>>

CloseKeepsHandle == sock' = "none" /\ refs' = refs - 1 /\ UNCHANGED <<opened, abandoned>> \* mutant
(* closeSocket and WSACleanup. *)
Close ==
  /\ sock' = "none" /\ opened' = opened - 1 /\ refs' = refs - 1
  /\ UNCHANGED abandoned

(* A download returns false: the loop deletes the Socket and starts over.   *)
Fail == /\ DeleteSocket
        /\ pc' = "top"

(* Connect, and the request.  socket() may have failed before. *)
Connect ==
  /\ pc = "connect" /\ sock = "open"
  /\ pc' = "send"
  /\ UNCHANGED <<urls, stage, handleVars, robots, readVars, counters>>

ConnectFails ==
  /\ pc = "connect"
  /\ Fail
  /\ UNCHANGED <<urls, stage, robots, readVars, counters>>

SendFails ==
  /\ pc = "send"
  /\ Fail
  /\ UNCHANGED <<urls, stage, robots, readVars, counters>>

(* tv_sec -= elapsed, where tv_sec is a whole number: what is left of a     *)
(* second that has begun is lost.                                           *)
LeftExact(sec, w) == IF w < 2 THEN sec ELSE sec - (w \div 2) \* mutant
Left(sec, w) == (2 * sec - w) \div 2

(* Read up to its first select: its clock may tick before. *)
Send ==
  /\ pc = "send"
  /\ pc' = "select" /\ curPos' = 0
  /\ \E w \in {0, 1} : tvSec' = Left(Limit, w) /\ waited' = w
  /\ polls' = 0 /\ outcome' = "none"
  /\ UNCHANGED <<urls, stage, handleVars, robots, allocatedSize, counters>>

(* Read returns false. *)
ReadFails(why) == Fail /\ outcome' = why

AtMax == allocatedSize = IF robots THEN ROBOT_MAX ELSE PAGE_MAX

TooFullLate(pos) == pos > allocatedSize \* mutant
(* Less than a quarter of the buffer is free. *)
TooFull(pos) == allocatedSize - pos < allocatedSize \div 4

(* select says there is data: recv takes n bytes of it. *)
Segment ==
  /\ pc = "select"
  /\ \E w \in 0..(2 * tvSec), n \in 1..(allocatedSize - curPos) :
       /\ waited' = waited + w /\ polls' = polls + 1
       /\ tvSec' = Left(tvSec, w)
       /\ curPos' = curPos + n
       /\ IF TooFull(curPos + n) /\ AtMax
          THEN ReadFails("limit") /\ UNCHANGED allocatedSize
          ELSE /\ allocatedSize' = IF TooFull(curPos + n) THEN 2 * allocatedSize
                                                          ELSE allocatedSize
               /\ UNCHANGED <<pc, outcome, handleVars>>
  /\ UNCHANGED <<urls, stage, robots, counters>>

(* recv returns 0: the server has closed the connection, or there was no    *)
(* room to receive anything.                                                *)
EndOfPage ==
  /\ pc = "select"
  /\ \E w \in 0..(2 * tvSec) : waited' = waited + w
  /\ IF curPos < MinHeader
     THEN ReadFails("short")
     ELSE pc' = "status" /\ outcome' = "full" /\ Close
  /\ UNCHANGED <<urls, stage, robots, allocatedSize, curPos, tvSec, polls, counters>>

TimeoutReconnects ==  \* mutant
  /\ pc = "select"
  /\ pc' = "connect" /\ outcome' = "timeout" /\ waited' = waited + 2 * tvSec
  /\ UNCHANGED <<urls, stage, handleVars, robots, allocatedSize, curPos, tvSec, polls, counters>>

SelectTimeout ==
  /\ pc = "select"
  /\ ReadFails("timeout") /\ waited' = waited + 2 * tvSec
  /\ UNCHANGED <<urls, stage, robots, allocatedSize, curPos, tvSec, polls, counters>>

(* select or recv returns an error. *)
ReadError ==
  /\ pc = "select"
  /\ ReadFails("error")
  /\ UNCHANGED <<urls, stage, robots, allocatedSize, curPos, tvSec, waited, polls, counters>>

-----------------------------------------------------------------------------
(* The loop of the crawler thread.                                          *)

(* resetParser for the next URL of the queue. *)
NextUrl ==
  /\ pc = "top" /\ urls < MaxUrls
  /\ NewSocket
  /\ urls' = urls + 1 /\ stage' = "robots" /\ pc' = "connect"
  /\ UNCHANGED <<abandoned, counters>>

(* The URL does not parse, or its host or address has been seen or is not   *)
(* found.                                                                   *)
Refuse ==
  /\ pc = "connect" /\ stage = "robots"
  /\ Fail
  /\ UNCHANGED <<urls, stage, robots, readVars, counters>>

(* resetParser, and the queue is empty: the Socket is left as it is. *)
Finish ==
  /\ pc = "top"
  /\ NewSocket
  /\ pc' = "done"
  /\ UNCHANGED <<urls, stage, abandoned, counters>>

(* The rest of RobotSendRead.  Only 4xx lets the page be crawled, over a    *)
(* new Socket.                                                              *)
RobotStatus(code) ==
  /\ pc = "status" /\ stage = "robots"
  /\ newNumberPagesInBatch' = newNumberPagesInBatch + 1
  /\ IF code = "400"
     THEN /\ numberRobotPass' = numberRobotPass + 1
          /\ NewSocket
          /\ stage' = "page" /\ pc' = "connect"
     ELSE /\ pc' = IF code = "throws" THEN "aborted" ELSE "top"
          /\ robots' = (code \notin {"200", "300"})
          /\ UNCHANGED <<numberRobotPass, stage, sock, opened, refs, readVars>>
  /\ UNCHANGED <<urls, abandoned, numberSuccessfullyCrawled, http>>

PageStatusCountsFirst(code) ==  \* mutant
  /\ pc = "status" /\ stage = "page"
  /\ numberSuccessfullyCrawled' = numberSuccessfullyCrawled + 1
  /\ http' = IF code \in Classes THEN [http EXCEPT ![code] = @ + 1] ELSE http
  /\ newNumberPagesInBatch' = newNumberPagesInBatch + (IF code = "200" THEN 1 ELSE 0)
  /\ pc' = IF code = "throws" THEN "aborted" ELSE "top"
  /\ UNCHANGED <<urls, stage, handleVars, robots, readVars, numberRobotPass>>

(* The rest of ReconnectHostSend. *)
PageStatus(code) ==
  /\ pc = "status" /\ stage = "page"
  /\ IF code \in Classes
     THEN /\ numberSuccessfullyCrawled' = numberSuccessfullyCrawled + 1
          /\ http' = [http EXCEPT ![code] = @ + 1]
          /\ newNumberPagesInBatch' = newNumberPagesInBatch + (IF code = "200" THEN 1 ELSE 0)
     ELSE UNCHANGED <<numberSuccessfullyCrawled, http, newNumberPagesInBatch>>
  /\ pc' = IF code = "throws" THEN "aborted" ELSE "top"
  /\ UNCHANGED <<urls, stage, handleVars, robots, readVars, numberRobotPass>>

Read == Segment \/ EndOfPage \/ SelectTimeout \/ ReadError

Next ==
  \/ NextUrl \/ Refuse \/ Finish
  \/ Connect \/ ConnectFails \/ Send \/ SendFails
  \/ Read
  \/ \E code \in Codes : RobotStatus(code) \/ PageStatus(code)

Spec == Init /\ [][Next]_vars

(* The thread runs, and select and recv return. *)
FairSpec == Spec /\ WF_vars(Next)

-----------------------------------------------------------------------------
(* Properties. *)

InUse == IF sock = "open" THEN 1 ELSE 0

(* Type invariant.  A socket is open while it is connected, sent to and     *)
(* read from, and no longer when its answer is parsed.                      *)
TypeOK ==
  /\ pc \in {"top", "connect", "send", "select", "status", "done", "aborted"}
  /\ urls \in 0..MaxUrls /\ stage \in {"robots", "page"}
  /\ sock \in {"none", "open"}
  /\ opened \in Nat /\ refs \in Nat /\ abandoned \in Nat
  /\ pc \in {"send", "select"} => sock = "open"
  /\ pc \in {"top", "status", "aborted"} => sock = "none"
  /\ robots \in BOOLEAN /\ allocatedSize \in Nat /\ curPos \in Nat
  /\ tvSec \in 0..Limit /\ waited \in Nat /\ polls \in Nat
  /\ outcome \in {"none", "full", "short", "timeout", "limit", "error"}
  /\ numberRobotPass \in Nat /\ numberSuccessfullyCrawled \in Nat
  /\ newNumberPagesInBatch \in Nat /\ http \in [Classes -> Nat]

(* recv is never asked for zero bytes, whose answer Read would take for the *)
(* end of the page; the closing NUL has room in the buffer; and what is     *)
(* accepted or refused for its size is told apart at three quarters of the  *)
(* limit for robots.txt, in both downloads.                                 *)
BufferSuffices ==
  /\ pc = "select" => /\ allocatedSize - curPos >= allocatedSize \div 4
                      /\ allocatedSize <= ROBOT_MAX
  /\ outcome = "full" => curPos < allocatedSize
  /\ outcome = "full" => ROBOT_MAX - curPos >= ROBOT_MAX \div 4
  /\ outcome = "limit" => ROBOT_MAX - curPos < ROBOT_MAX \div 4

(* Read gives up for time after ten seconds at most, and earlier only by    *)
(* the parts of seconds that each segment makes it lose: a page in ten      *)
(* segments may fail within any time.                                       *)
TimeAccount ==
  outcome = "timeout" =>
    /\ waited <= 2 * Limit
    /\ waited + polls + 1 >= 2 * Limit

(* Whichever way a download fails, every socket is accounted for: in use,   *)
(* closed, or left open by the deletion of its Socket, which happens once   *)
(* per failure at most.  Winsock is up as long as any is open.              *)
HandlesAccounted ==
  /\ opened = refs
  /\ opened = abandoned + InUse
  /\ abandoned <= 2 + urls

(* Every page counted as crawled is in exactly one class of statuses, and   *)
(* every 2xx page was preceded by a robots.txt that passed.                 *)
StatusesAddUp ==
  /\ numberSuccessfullyCrawled =
       http["200"] + http["300"] + http["400"] + http["500"] + http["XXX"]
  /\ numberSuccessfullyCrawled + (IF stage = "page" /\ pc \in {"connect", "send", "select", "status"} THEN 1 ELSE 0)
       <= numberRobotPass
  /\ newNumberPagesInBatch >= numberRobotPass + http["200"]

(* No server can hold the thread for ever: it gets through its URLs, or an  *)
(* answer whose status line makes substr or stoi throw out_of_range, which  *)
(* no handler catches, ends the process.                                    *)
DownloadsEnd == <>(pc \in {"done", "aborted"})

=============================================================================
