--------------------------- MODULE PageReadProofs ---------------------------
(***************************************************************************)
(* Safety of PageRead for every size of the buffer, limit and number of    *)
(* URLs.                                                                   *)
(***************************************************************************)
EXTENDS PageRead, TLAPS

(* The places in which a download goes on. *)
Busy == pc \in {"connect", "send", "select"}

(* A Socket that is read from still has the flag of its constructor, and    *)
(* its buffer is as the constructor made it or doubled once.                *)
SizeInv ==
  /\ allocatedSize \in {INITIAL_BUF_SIZE, ROBOT_MAX}
  /\ Busy => robots /\ outcome = "none"
  /\ BufferSuffices

(* What select has left and what it has used make up the limit, but for     *)
(* what the rounding lost.                                                  *)
TimeInv ==
  /\ pc = "select" => /\ waited + 2 * tvSec <= 2 * Limit
                      /\ waited + 2 * tvSec + polls + 1 >= 2 * Limit
  /\ TimeAccount

(* A download that goes on has not abandoned its Socket yet.                *)
HandleInv ==
  /\ HandlesAccounted
  /\ Busy \/ pc = "status" => abandoned <= 1 + urls

PageInv == /\ TypeOK /\ SizeInv /\ TimeInv /\ HandleInv /\ StatusesAddUp

-----------------------------------------------------------------------------
(* Rounding. *)

LEMMA LeftBounds ==
  ASSUME NEW sec \in Nat, NEW w \in 0..(2 * sec)
  PROVE  /\ Left(sec, w) \in 0..sec
         /\ 2 * Left(sec, w) <= 2 * sec - w
         /\ 2 * sec - w <= 2 * Left(sec, w) + 1
BY DEF Left

LEMMA QuarterBounds ==
  ASSUME NEW n \in Nat, n >= 4
  PROVE  /\ n \div 4 \in Nat /\ n \div 4 >= 1
         /\ (2 * n) \div 4 \in Nat /\ (2 * n) \div 4 <= n
OBVIOUS

LEMMA Sizes ==
  /\ INITIAL_BUF_SIZE \in Nat \ {0} /\ ROBOT_MAX \in Nat
  /\ ROBOT_MAX = 2 * INITIAL_BUF_SIZE
  /\ INITIAL_BUF_SIZE \div 4 \in Nat \ {0}
  /\ ROBOT_MAX \div 4 \in Nat \ {0} /\ ROBOT_MAX \div 4 <= INITIAL_BUF_SIZE
<1>1. ROBOT_MAX \in Nat /\ ROBOT_MAX >= 4 BY PageReadAssumption DEF PageReadAssumption
<1> QED BY <1>1, QuarterBounds, PageReadAssumption DEF PageReadAssumption

-----------------------------------------------------------------------------
LEMMA InitInv == Init => PageInv
BY Sizes, PageReadAssumption
   DEF PageReadAssumption, Init, PageInv, TypeOK, SizeInv, Busy, BufferSuffices, TimeInv,
       TimeAccount, HandleInv, HandlesAccounted, InUse, StatusesAddUp, Classes

LEMMA FailHandles ==
  ASSUME PageInv, Busy, Fail, urls' = urls
  PROVE  HandleInv'
<1>1. /\ pc' = "top" /\ sock' = "none" /\ opened' = opened /\ refs' = refs
      /\ opened = refs /\ opened = abandoned + InUse /\ abandoned <= 1 + urls
      /\ abandoned \in Nat /\ urls \in Nat
  <2>1. /\ pc' = "top" /\ sock' = "none" /\ opened' = opened /\ refs' = refs
    BY DEF Fail, DeleteSocket
  <2>2. opened = refs /\ opened = abandoned + InUse /\ abandoned <= 1 + urls
    BY DEF PageInv, HandleInv, HandlesAccounted
  <2>3. abandoned \in Nat /\ urls \in Nat
    BY PageReadAssumption DEF PageReadAssumption, PageInv, TypeOK
  <2> QED BY <2>1, <2>2, <2>3
<1>2. InUse' = 0 BY <1>1 DEF InUse
<1>3. abandoned' = abandoned + InUse BY <1>1 DEF Fail, DeleteSocket, InUse
<1>4. abandoned' <= 2 + urls BY <1>1, <1>3 DEF InUse
<1> QED BY <1>1, <1>2, <1>3, <1>4 DEF HandleInv, HandlesAccounted, Busy

LEMMA NextUrlStep == ASSUME PageInv, NextUrl PROVE PageInv'
<1>1. TypeOK'
  BY Sizes, PageReadAssumption
     DEF PageReadAssumption, PageInv, TypeOK, Classes, NextUrl, NewSocket, counters
<1>2. SizeInv'
  BY Sizes, PageReadAssumption
     DEF PageReadAssumption, PageInv, TypeOK, SizeInv, Busy, BufferSuffices, NextUrl,
         NewSocket, counters
<1>3. TimeInv'
  BY Sizes, PageReadAssumption
     DEF PageReadAssumption, PageInv, TypeOK, SizeInv, Busy, TimeInv, TimeAccount,
         NextUrl, NewSocket, counters
<1>4. HandleInv'
  BY DEF PageInv, TypeOK, HandleInv, HandlesAccounted, InUse, Busy, NextUrl, NewSocket,
         counters
<1>5. StatusesAddUp'
  BY DEF PageInv, TypeOK, StatusesAddUp, Classes, NextUrl, NewSocket, counters
<1> QED BY <1>1, <1>2, <1>3, <1>4, <1>5 DEF PageInv

LEMMA RefuseStep == ASSUME PageInv, Refuse PROVE PageInv'
<1>1. TypeOK'
  BY Sizes, PageReadAssumption
     DEF PageReadAssumption, PageInv, TypeOK, Classes, Refuse, Fail, DeleteSocket,
         readVars, counters
<1>2. SizeInv'
  BY Sizes, PageReadAssumption
     DEF PageReadAssumption, PageInv, TypeOK, SizeInv, Busy, BufferSuffices, Refuse,
         Fail, DeleteSocket, readVars, counters
<1>3. TimeInv'
  BY Sizes, PageReadAssumption
     DEF PageReadAssumption, PageInv, TypeOK, SizeInv, Busy, TimeInv, TimeAccount,
         Refuse, Fail, DeleteSocket, readVars, counters
<1>4. HandleInv'
  BY FailHandles DEF Refuse, PageInv, TypeOK, Busy
<1>5. StatusesAddUp'
  BY DEF PageInv, TypeOK, StatusesAddUp, Classes, Refuse, Fail, DeleteSocket, readVars,
         counters
<1> QED BY <1>1, <1>2, <1>3, <1>4, <1>5 DEF PageInv

LEMMA FinishStep == ASSUME PageInv, Finish PROVE PageInv'
<1>1. TypeOK'
  BY Sizes, PageReadAssumption
     DEF PageReadAssumption, PageInv, TypeOK, Classes, Finish, NewSocket, counters
<1>2. SizeInv'
  BY Sizes, PageReadAssumption
     DEF PageReadAssumption, PageInv, TypeOK, SizeInv, Busy, BufferSuffices, Finish,
         NewSocket, counters
<1>3. TimeInv'
  BY Sizes, PageReadAssumption
     DEF PageReadAssumption, PageInv, TypeOK, SizeInv, Busy, TimeInv, TimeAccount,
         Finish, NewSocket, counters
<1>4. HandleInv'
  BY DEF PageInv, TypeOK, HandleInv, HandlesAccounted, InUse, Busy, Finish, NewSocket,
         counters
<1>5. StatusesAddUp'
  BY DEF PageInv, TypeOK, StatusesAddUp, Classes, Finish, NewSocket, counters
<1> QED BY <1>1, <1>2, <1>3, <1>4, <1>5 DEF PageInv

LEMMA ConnectStep == ASSUME PageInv, Connect PROVE PageInv'
<1>1. TypeOK'
  BY Sizes, PageReadAssumption
     DEF PageReadAssumption, PageInv, TypeOK, Classes, Connect, handleVars, readVars,
         counters
<1>2. SizeInv'
  BY Sizes, PageReadAssumption
     DEF PageReadAssumption, PageInv, TypeOK, SizeInv, Busy, BufferSuffices, Connect,
         handleVars, readVars, counters
<1>3. TimeInv'
  BY Sizes, PageReadAssumption
     DEF PageReadAssumption, PageInv, TypeOK, SizeInv, Busy, TimeInv, TimeAccount,
         Connect, handleVars, readVars, counters
<1>4. HandleInv'
  BY DEF PageInv, TypeOK, HandleInv, HandlesAccounted, InUse, Busy, Connect, handleVars,
         readVars, counters
<1>5. StatusesAddUp'
  BY DEF PageInv, TypeOK, StatusesAddUp, Classes, Connect, handleVars, readVars, counters
<1> QED BY <1>1, <1>2, <1>3, <1>4, <1>5 DEF PageInv

LEMMA ConnectFailsStep == ASSUME PageInv, ConnectFails PROVE PageInv'
<1>1. TypeOK'
  BY Sizes, PageReadAssumption
     DEF PageReadAssumption, PageInv, TypeOK, Classes, ConnectFails, Fail,
         DeleteSocket, readVars, counters
<1>2. SizeInv'
  BY Sizes, PageReadAssumption
     DEF PageReadAssumption, PageInv, TypeOK, SizeInv, Busy, BufferSuffices,
         ConnectFails, Fail, DeleteSocket, readVars, counters
<1>3. TimeInv'
  BY Sizes, PageReadAssumption
     DEF PageReadAssumption, PageInv, TypeOK, SizeInv, Busy, TimeInv, TimeAccount,
         ConnectFails, Fail, DeleteSocket, readVars, counters
<1>4. HandleInv'
  BY FailHandles DEF ConnectFails, PageInv, TypeOK, Busy
<1>5. StatusesAddUp'
  BY DEF PageInv, TypeOK, StatusesAddUp, Classes, ConnectFails, Fail, DeleteSocket,
         readVars, counters
<1> QED BY <1>1, <1>2, <1>3, <1>4, <1>5 DEF PageInv

LEMMA SendStep == ASSUME PageInv, Send PROVE PageInv'
<1> PICK w \in {0, 1} : tvSec' = Left(Limit, w) /\ waited' = w
  BY DEF Send
<1>a. /\ tvSec' \in 0..Limit /\ waited' \in Nat
      /\ waited' + 2 * tvSec' <= 2 * Limit /\ waited' + 2 * tvSec' + 1 >= 2 * Limit
  <2>1. Limit \in Nat /\ w \in 0..(2 * Limit) BY PageReadAssumption DEF PageReadAssumption
  <2>2. /\ Left(Limit, w) \in 0..Limit
        /\ 2 * Left(Limit, w) <= 2 * Limit - w
        /\ 2 * Limit - w <= 2 * Left(Limit, w) + 1
    BY <2>1, LeftBounds
  <2> QED BY <2>1, <2>2
<1>1. TypeOK'
  BY <1>a DEF Send, PageInv, TypeOK, handleVars, counters
<1>2. SizeInv'
  BY Sizes, PageReadAssumption
     DEF PageReadAssumption, PageInv, TypeOK, SizeInv, Busy, BufferSuffices, Send,
         handleVars, counters
<1>3. TimeInv'
  BY <1>a, PageReadAssumption DEF PageReadAssumption, Send, TimeInv, TimeAccount
<1>4. HandleInv'
  BY DEF PageInv, TypeOK, HandleInv, HandlesAccounted, InUse, Busy, Send, handleVars,
         counters
<1>5. StatusesAddUp'
  BY DEF PageInv, TypeOK, StatusesAddUp, Classes, Send, handleVars, counters
<1> QED BY <1>1, <1>2, <1>3, <1>4, <1>5 DEF PageInv

LEMMA SendFailsStep == ASSUME PageInv, SendFails PROVE PageInv'
<1>1. TypeOK'
  BY Sizes, PageReadAssumption
     DEF PageReadAssumption, PageInv, TypeOK, Classes, SendFails, Fail, DeleteSocket,
         readVars, counters
<1>2. SizeInv'
  BY Sizes, PageReadAssumption
     DEF PageReadAssumption, PageInv, TypeOK, SizeInv, Busy, BufferSuffices, SendFails,
         Fail, DeleteSocket, readVars, counters
<1>3. TimeInv'
  BY Sizes, PageReadAssumption
     DEF PageReadAssumption, PageInv, TypeOK, SizeInv, Busy, TimeInv, TimeAccount,
         SendFails, Fail, DeleteSocket, readVars, counters
<1>4. HandleInv'
  BY FailHandles DEF SendFails, PageInv, TypeOK, Busy
<1>5. StatusesAddUp'
  BY DEF PageInv, TypeOK, StatusesAddUp, Classes, SendFails, Fail, DeleteSocket,
         readVars, counters
<1> QED BY <1>1, <1>2, <1>3, <1>4, <1>5 DEF PageInv

LEMMA SegmentStep == ASSUME PageInv, Segment PROVE PageInv'
<1> PICK w \in 0..(2 * tvSec), n \in 1..(allocatedSize - curPos) :
      /\ waited' = waited + w /\ polls' = polls + 1
      /\ tvSec' = Left(tvSec, w)
      /\ curPos' = curPos + n
      /\ IF TooFull(curPos + n) /\ AtMax
         THEN ReadFails("limit") /\ UNCHANGED allocatedSize
         ELSE /\ allocatedSize' = IF TooFull(curPos + n) THEN 2 * allocatedSize
                                                         ELSE allocatedSize
              /\ UNCHANGED <<pc, outcome, handleVars>>
  BY DEF Segment
<1>a. /\ pc = "select" /\ UNCHANGED <<urls, stage, robots, counters>>
      /\ tvSec \in Nat /\ tvSec <= Limit /\ waited \in Nat /\ polls \in Nat /\ w \in Nat
      /\ allocatedSize \in {INITIAL_BUF_SIZE, ROBOT_MAX} /\ curPos \in Nat /\ n \in Nat
      /\ AtMax <=> allocatedSize = ROBOT_MAX
  BY Sizes, PageReadAssumption
     DEF PageReadAssumption, Segment, PageInv, TypeOK, SizeInv, Busy, AtMax
<1>b. /\ tvSec' \in 0..tvSec
      /\ waited' + 2 * tvSec' <= waited + 2 * tvSec
      /\ waited' + 2 * tvSec' + 1 >= waited + 2 * tvSec
      /\ waited' \in Nat /\ polls' \in Nat /\ curPos' \in Nat
  <2>1. /\ Left(tvSec, w) \in 0..tvSec
        /\ 2 * Left(tvSec, w) <= 2 * tvSec - w
        /\ 2 * tvSec - w <= 2 * Left(tvSec, w) + 1
    BY <1>a, LeftBounds
  <2> QED BY <1>a, <2>1
<1>c. CASE TooFull(curPos + n) /\ AtMax
  <2>1. ReadFails("limit") /\ UNCHANGED allocatedSize BY <1>c
  <2>2. TypeOK'
    BY <1>a, <1>b, <2>1, PageReadAssumption
       DEF PageReadAssumption, PageInv, TypeOK, ReadFails, Fail, DeleteSocket, counters
  <2>3. SizeInv'
    BY <1>a, <1>c, <2>1, Sizes
       DEF PageInv, SizeInv, BufferSuffices, Busy, TooFull, ReadFails, Fail
  <2>4. TimeInv'
    BY <2>1 DEF TimeInv, TimeAccount, ReadFails, Fail
  <2>5. HandleInv'
    BY <1>a, <2>1, FailHandles DEF ReadFails, Busy
  <2>6. StatusesAddUp'
    BY <1>a, <2>1 DEF PageInv, TypeOK, StatusesAddUp, ReadFails, Fail, counters, Classes
  <2> QED BY <2>2, <2>3, <2>4, <2>5, <2>6 DEF PageInv
<1>d. CASE ~(TooFull(curPos + n) /\ AtMax)
  <2>1. /\ allocatedSize' = IF TooFull(curPos + n) THEN 2 * allocatedSize ELSE allocatedSize
        /\ UNCHANGED <<pc, outcome, handleVars>>
    BY <1>d
  <2>2. SizeInv'
    BY <1>a, <1>d, <2>1, Sizes
       DEF PageInv, SizeInv, BufferSuffices, Busy, TooFull
  <2>3. TypeOK'
    BY <1>a, <1>b, <2>1, <2>2, Sizes, PageReadAssumption
       DEF PageReadAssumption, PageInv, TypeOK, SizeInv, handleVars, counters
  <2>4. TimeInv'
    BY <1>a, <1>b, <2>1, PageReadAssumption
       DEF PageReadAssumption, PageInv, SizeInv, Busy, TimeInv, TimeAccount
  <2>5. HandleInv'
    BY <1>a, <2>1 DEF PageInv, HandleInv, HandlesAccounted, InUse, Busy, handleVars
  <2>6. StatusesAddUp'
    BY <1>a, <2>1 DEF PageInv, StatusesAddUp, counters
  <2> QED BY <2>2, <2>3, <2>4, <2>5, <2>6 DEF PageInv
<1> QED BY <1>c, <1>d

LEMMA EndOfPageStep == ASSUME PageInv, EndOfPage PROVE PageInv'
<1>1. TypeOK'
  <2> USE DEF PageInv, TypeOK, EndOfPage, counters
  <2>1. waited' \in Nat
    OBVIOUS
  <2>2. CASE curPos < MinHeader
    BY <2>1, <2>2 DEF ReadFails, Fail, DeleteSocket
  <2>3. CASE ~(curPos < MinHeader)
    BY <2>1, <2>3 DEF Close, HandleInv, HandlesAccounted, InUse
  <2> QED BY <2>2, <2>3
<1>2. SizeInv'
  BY Sizes, PageReadAssumption
     DEF PageReadAssumption, PageInv, TypeOK, SizeInv, Busy, BufferSuffices, EndOfPage,
         ReadFails, Close, Fail, DeleteSocket, counters
<1>3. TimeInv'
  BY Sizes, PageReadAssumption
     DEF PageReadAssumption, PageInv, TypeOK, SizeInv, Busy, TimeInv, TimeAccount,
         EndOfPage, ReadFails, Close, Fail, DeleteSocket, counters
<1>4. HandleInv'
  BY DEF PageInv, TypeOK, HandleInv, HandlesAccounted, InUse, Busy, EndOfPage,
         ReadFails, Close, Fail, DeleteSocket, counters
<1>5. StatusesAddUp'
  BY DEF PageInv, TypeOK, StatusesAddUp, Classes, EndOfPage, ReadFails, Close, Fail,
         DeleteSocket, counters
<1> QED BY <1>1, <1>2, <1>3, <1>4, <1>5 DEF PageInv

LEMMA SelectTimeoutStep == ASSUME PageInv, SelectTimeout PROVE PageInv'
<1>1. TypeOK'
  BY Sizes, PageReadAssumption
     DEF PageReadAssumption, PageInv, TypeOK, Classes, SelectTimeout, ReadFails, Fail,
         DeleteSocket, counters
<1>2. SizeInv'
  BY Sizes, PageReadAssumption
     DEF PageReadAssumption, PageInv, TypeOK, SizeInv, Busy, BufferSuffices,
         SelectTimeout, ReadFails, Fail, DeleteSocket, counters
<1>3. TimeInv'
  BY Sizes, PageReadAssumption
     DEF PageReadAssumption, PageInv, TypeOK, SizeInv, Busy, TimeInv, TimeAccount,
         SelectTimeout, ReadFails, Fail, DeleteSocket, counters
<1>4. HandleInv'
  BY FailHandles DEF SelectTimeout, ReadFails, PageInv, TypeOK, Busy
<1>5. StatusesAddUp'
  BY DEF PageInv, TypeOK, StatusesAddUp, Classes, SelectTimeout, ReadFails, Fail,
         DeleteSocket, counters
<1> QED BY <1>1, <1>2, <1>3, <1>4, <1>5 DEF PageInv

LEMMA ReadErrorStep == ASSUME PageInv, ReadError PROVE PageInv'
<1>1. TypeOK'
  BY Sizes, PageReadAssumption
     DEF PageReadAssumption, PageInv, TypeOK, Classes, ReadError, ReadFails, Fail,
         DeleteSocket, counters
<1>2. SizeInv'
  BY Sizes, PageReadAssumption
     DEF PageReadAssumption, PageInv, TypeOK, SizeInv, Busy, BufferSuffices, ReadError,
         ReadFails, Fail, DeleteSocket, counters
<1>3. TimeInv'
  BY Sizes, PageReadAssumption
     DEF PageReadAssumption, PageInv, TypeOK, SizeInv, Busy, TimeInv, TimeAccount,
         ReadError, ReadFails, Fail, DeleteSocket, counters
<1>4. HandleInv'
  BY FailHandles DEF ReadError, ReadFails, PageInv, TypeOK, Busy
<1>5. StatusesAddUp'
  BY DEF PageInv, TypeOK, StatusesAddUp, Classes, ReadError, ReadFails, Fail,
         DeleteSocket, counters
<1> QED BY <1>1, <1>2, <1>3, <1>4, <1>5 DEF PageInv

LEMMA RobotStatusStep == ASSUME NEW code \in Codes, PageInv, RobotStatus(code) PROVE PageInv'
<1>1. TypeOK'
  <2> USE Sizes DEF PageInv, TypeOK, RobotStatus
  <2>1. CASE code = "400"
    BY <2>1 DEF NewSocket
  <2>2. CASE code # "400"
    BY <2>2 DEF readVars
  <2> QED BY <2>1, <2>2
<1>2. SizeInv'
  BY Sizes, PageReadAssumption
     DEF PageReadAssumption, PageInv, TypeOK, SizeInv, Busy, BufferSuffices,
         RobotStatus, NewSocket, readVars
<1>3. TimeInv'
  BY Sizes, PageReadAssumption
     DEF PageReadAssumption, PageInv, TypeOK, SizeInv, Busy, TimeInv, TimeAccount,
         RobotStatus, NewSocket, readVars
<1>4. HandleInv'
  BY DEF PageInv, TypeOK, HandleInv, HandlesAccounted, InUse, Busy, RobotStatus,
         NewSocket, readVars
<1>5. StatusesAddUp'
  BY DEF PageInv, TypeOK, StatusesAddUp, Classes, RobotStatus, NewSocket, readVars
<1> QED BY <1>1, <1>2, <1>3, <1>4, <1>5 DEF PageInv

LEMMA PageStatusStep == ASSUME NEW code \in Codes, PageInv, PageStatus(code) PROVE PageInv'
<1>1. TypeOK'
  BY Sizes, PageReadAssumption
     DEF PageReadAssumption, PageInv, TypeOK, Classes, PageStatus, handleVars, readVars
<1>2. SizeInv'
  BY Sizes, PageReadAssumption
     DEF PageReadAssumption, PageInv, TypeOK, SizeInv, Busy, BufferSuffices,
         PageStatus, handleVars, readVars
<1>3. TimeInv'
  BY Sizes, PageReadAssumption
     DEF PageReadAssumption, PageInv, TypeOK, SizeInv, Busy, TimeInv, TimeAccount,
         PageStatus, handleVars, readVars
<1>4. HandleInv'
  BY DEF PageInv, TypeOK, HandleInv, HandlesAccounted, InUse, Busy, PageStatus,
         handleVars, readVars
<1>5. StatusesAddUp'
  BY DEF PageInv, TypeOK, StatusesAddUp, Classes, PageStatus, handleVars, readVars
<1> QED BY <1>1, <1>2, <1>3, <1>4, <1>5 DEF PageInv

LEMMA StepInv == PageInv /\ [Next]_vars => PageInv'
<1> SUFFICES ASSUME PageInv, [Next]_vars PROVE PageInv' OBVIOUS
<1>1. CASE Next
  BY <1>1, NextUrlStep, RefuseStep, FinishStep, ConnectStep, ConnectFailsStep, SendStep,
     SendFailsStep, SegmentStep, EndOfPageStep, SelectTimeoutStep, ReadErrorStep,
     RobotStatusStep, PageStatusStep DEF Next, Read
<1>2. CASE UNCHANGED vars
  <2> USE <1>2 DEF vars, handleVars, readVars, counters, PageInv
  <2>1. TypeOK' BY DEF TypeOK
  <2>2. SizeInv' BY DEF SizeInv, BufferSuffices, Busy
  <2>3. TimeInv' BY DEF TimeInv, TimeAccount
  <2>4. HandleInv' BY DEF HandleInv, HandlesAccounted, InUse, Busy
  <2>5. StatusesAddUp' BY DEF StatusesAddUp
  <2> QED BY <2>1, <2>2, <2>3, <2>4, <2>5
<1> QED BY <1>1, <1>2

-----------------------------------------------------------------------------
(* The inductive invariant holds in every behaviour.                        *)
THEOREM Invariance == Spec => []PageInv
BY InitInv, StepInv, PTL DEF Spec

(* Every variable stays in its type, and a socket is open exactly where the *)
(* code uses it.                                                            *)
THEOREM TypeCorrect == Spec => []TypeOK
<1>1. PageInv => TypeOK BY DEF PageInv
<1> QED BY <1>1, Invariance, PTL

(* For every size of the buffer recv has room, the closing NUL has room,    *)
(* and both downloads are cut at three quarters of ROBOT_MAX.               *)
THEOREM BufferAlwaysSuffices == Spec => []BufferSuffices
<1>1. PageInv => BufferSuffices BY DEF PageInv, SizeInv
<1> QED BY <1>1, Invariance, PTL

(* A timeout comes after the limit at most, and before it only by less than *)
(* a second for each segment.                                               *)
THEOREM TimeAccounted == Spec => []TimeAccount
<1>1. PageInv => TimeAccount BY DEF PageInv, TimeInv
<1> QED BY <1>1, Invariance, PTL

(* No failure of a download leaves more than the one socket open, and none  *)
(* leaves Winsock without its reference.                                    *)
THEOREM HandlesAlwaysAccounted == Spec => []HandlesAccounted
<1>1. PageInv => HandlesAccounted BY DEF PageInv, HandleInv
<1> QED BY <1>1, Invariance, PTL

(* The statistics of a thread agree with one another.                       *)
THEOREM StatusesAlwaysAddUp == Spec => []StatusesAddUp
<1>1. PageInv => StatusesAddUp BY DEF PageInv
<1> QED BY <1>1, Invariance, PTL

-----------------------------------------------------------------------------
(* Termination. *)

(* More than the steps of one download: each segment fills the buffer       *)
(* further, which never gets larger than ROBOT_MAX.                         *)
Download == 6 + ROBOT_MAX

(* The steps that are left of the download under way.                       *)
StepsOfDownload ==
  CASE pc = "top"     -> 1
    [] pc = "status"  -> 2
    [] pc = "select"  -> 3 + (ROBOT_MAX - curPos)
    [] pc = "send"    -> 4 + ROBOT_MAX
    [] pc = "connect" -> 5 + ROBOT_MAX
    [] OTHER          -> 0

(* While robots.txt is downloaded the page is still ahead.                  *)
StepsOfPage == IF stage = "robots" /\ (Busy \/ pc = "status") THEN Download ELSE 0

(* At most this many steps are left: two downloads for each URL to come.    *)
StepsLeft == (MaxUrls - urls) * (2 * Download) + StepsOfPage + StepsOfDownload

(* The parts of StepsLeft are numbers.                                      *)
LEMMA StepsLeftParts ==
  ASSUME PageInv
  PROVE  /\ Download \in Nat /\ ROBOT_MAX \in Nat
         /\ (MaxUrls - urls) * (2 * Download) \in Nat
         /\ StepsOfPage \in {0, Download}
         /\ StepsOfDownload \in 0..(5 + ROBOT_MAX)
<1>1. ROBOT_MAX \in Nat /\ Download \in Nat /\ 2 * Download \in Nat
  BY Sizes DEF Download
<1>2. MaxUrls - urls \in Nat BY PageReadAssumption DEF PageInv, TypeOK, PageReadAssumption
<1>3. \A m, n \in Nat : m * n \in Nat OBVIOUS
<1>4. (MaxUrls - urls) * (2 * Download) \in Nat BY <1>1, <1>2, <1>3
<1>5. pc = "select" => ROBOT_MAX - curPos \in 0..ROBOT_MAX
  <2>1. pc = "select" => /\ allocatedSize - curPos >= allocatedSize \div 4
                         /\ allocatedSize <= ROBOT_MAX
                         /\ allocatedSize \div 4 \in Nat
    BY Sizes DEF PageInv, SizeInv, BufferSuffices
  <2> QED BY <1>1, <2>1 DEF PageInv, TypeOK
<1>6. StepsOfDownload \in 0..(5 + ROBOT_MAX) BY <1>1, <1>5 DEF StepsOfDownload
<1> QED BY <1>1, <1>4, <1>6 DEF StepsOfPage

(* Every step of the thread takes one of the steps left.                    *)
LEMMA StepsFall == ASSUME PageInv, PageInv', Next PROVE StepsLeft' < StepsLeft
<1> DEFINE Ahead == (MaxUrls - urls) * (2 * Download)
<1>1. /\ Download = 6 + ROBOT_MAX /\ ROBOT_MAX \in Nat /\ Ahead \in Nat /\ Ahead' \in Nat
      /\ StepsOfPage \in {0, Download} /\ StepsOfPage' \in {0, Download}
      /\ StepsOfDownload \in 0..(5 + ROBOT_MAX) /\ StepsOfDownload' \in 0..(5 + ROBOT_MAX)
  <2>1. /\ Download \in Nat /\ ROBOT_MAX \in Nat /\ Ahead \in Nat
        /\ StepsOfPage \in {0, Download} /\ StepsOfDownload \in 0..(5 + ROBOT_MAX)
    BY StepsLeftParts
  <2>2. /\ Ahead' \in Nat /\ StepsOfPage' \in {0, Download}
        /\ StepsOfDownload' \in 0..(5 + ROBOT_MAX)
    <3>1. (PageInv => /\ Ahead \in Nat /\ StepsOfPage \in {0, Download}
                      /\ StepsOfDownload \in 0..(5 + ROBOT_MAX))'
      BY StepsLeftParts, PTL
    <3> QED BY <3>1 DEF Download
  <2> QED BY <2>1, <2>2 DEF Download
<1>2. UNCHANGED urls => Ahead' = Ahead BY DEF Download
<1>3. CASE NextUrl
  <2>1. urls' = urls + 1 /\ pc = "top" /\ pc' = "connect" /\ urls \in Nat /\ MaxUrls \in Nat
    BY <1>3, PageReadAssumption DEF NextUrl, PageInv, TypeOK, PageReadAssumption
  <2>2. \A m \in Int, n \in Int : (m - 1) * n = m * n - n OBVIOUS
  <2>3. Ahead' = Ahead - 2 * Download
    <3>1. Ahead' = ((MaxUrls - urls) - 1) * (2 * Download) BY <2>1 DEF Download
    <3> QED BY <3>1, <2>1, <2>2, <1>1
  <2>4. StepsOfDownload = 1 /\ StepsOfDownload' = 5 + ROBOT_MAX
    BY <2>1 DEF StepsOfDownload
  <2> HIDE DEF Ahead
  <2> QED BY <2>3, <2>4, <1>1 DEF StepsLeft, Ahead
<1>4. ASSUME UNCHANGED <<urls, stage>>, ~(Busy \/ pc = "status")' \/ (Busy \/ pc = "status"),
             StepsOfDownload' < StepsOfDownload
      PROVE  StepsLeft' < StepsLeft
  <2>1. StepsOfPage' <= StepsOfPage BY <1>1, <1>4 DEF StepsOfPage, Download
  <2>2. Ahead' = Ahead BY <1>2, <1>4
  <2> HIDE DEF Ahead
  <2> QED BY <2>1, <2>2, <1>1, <1>4 DEF StepsLeft, Ahead
<1>5. CASE \/ Refuse \/ Finish \/ Connect \/ ConnectFails \/ Send \/ SendFails
           \/ EndOfPage \/ SelectTimeout \/ ReadError
  <2>1. UNCHANGED <<urls, stage>>
    BY <1>5 DEF Refuse, Finish, Connect, ConnectFails, Send, SendFails, EndOfPage,
                SelectTimeout, ReadError
  <2>2. \/ pc = "connect" /\ pc' \in {"send", "top"}
        \/ pc = "send" /\ pc' = "select" /\ curPos' = 0
        \/ pc = "send" /\ pc' = "top"
        \/ pc = "select" /\ pc' \in {"status", "top"}
        \/ pc = "top" /\ pc' = "done"
    BY <1>5 DEF Refuse, Finish, Connect, ConnectFails, Send, SendFails, EndOfPage,
                SelectTimeout, ReadError, ReadFails, Fail
  <2>3. pc = "select" => StepsOfDownload >= 3
    <3>1. pc = "select" => curPos <= ROBOT_MAX
      <4>1. pc = "select" => /\ allocatedSize - curPos >= allocatedSize \div 4
                             /\ allocatedSize <= ROBOT_MAX
                             /\ allocatedSize \div 4 \in Nat
        BY Sizes DEF PageInv, SizeInv, BufferSuffices
      <4> QED BY <1>1, <4>1 DEF PageInv, TypeOK
    <3> QED BY <1>1, <3>1 DEF StepsOfDownload, PageInv, TypeOK
  <2>4. StepsOfDownload' < StepsOfDownload
    BY <2>2, <2>3, <1>1 DEF StepsOfDownload
  <2> QED BY <2>1, <2>2, <2>4, <1>4 DEF Busy
<1>6. CASE Segment
  <2>1. UNCHANGED <<urls, stage>> /\ pc = "select" BY <1>6 DEF Segment
  <2>2. PICK n \in 1..(allocatedSize - curPos) : curPos' = curPos + n BY <1>6 DEF Segment
  <2>3. pc' \in {"select", "top"} BY <1>6 DEF Segment, ReadFails, Fail
  <2>4. curPos \in Nat /\ n \in Nat /\ n >= 1 /\ allocatedSize <= ROBOT_MAX
        /\ allocatedSize \in Nat /\ curPos + n <= allocatedSize
    BY <2>1, <2>2 DEF PageInv, TypeOK, SizeInv, BufferSuffices
  <2>5. StepsOfDownload' < StepsOfDownload
    BY <2>1, <2>2, <2>3, <2>4, <1>1 DEF StepsOfDownload
  <2> QED BY <2>1, <2>5, <1>4 DEF Busy
<1>7. ASSUME NEW code \in Codes, RobotStatus(code) PROVE StepsLeft' < StepsLeft
  <2>1. CASE code = "400"
    <3>1. /\ UNCHANGED urls /\ stage = "robots" /\ pc = "status"
          /\ stage' = "page" /\ pc' = "connect"
      BY <1>7, <2>1 DEF RobotStatus
    <3>2. StepsOfPage = Download /\ StepsOfPage' = 0 BY <3>1 DEF StepsOfPage
    <3>3. StepsOfDownload = 2 /\ StepsOfDownload' = 5 + ROBOT_MAX
      BY <3>1 DEF StepsOfDownload
    <3>4. Ahead' = Ahead BY <3>1, <1>2
    <3> HIDE DEF Ahead
    <3> QED BY <3>2, <3>3, <3>4, <1>1 DEF StepsLeft, Ahead
  <2>2. CASE code # "400"
    <3>1. UNCHANGED <<urls, stage>> /\ pc = "status" /\ pc' \in {"top", "aborted"}
      BY <1>7, <2>2 DEF RobotStatus
    <3>2. StepsOfDownload' < StepsOfDownload BY <3>1 DEF StepsOfDownload
    <3> QED BY <3>1, <3>2, <1>4 DEF Busy
  <2> QED BY <2>1, <2>2
<1>8. ASSUME NEW code \in Codes, PageStatus(code) PROVE StepsLeft' < StepsLeft
  <2>1. UNCHANGED <<urls, stage>> /\ pc = "status" /\ pc' \in {"top", "aborted"}
    BY <1>8 DEF PageStatus
  <2>2. StepsOfDownload' < StepsOfDownload BY <2>1 DEF StepsOfDownload
  <2> QED BY <2>1, <2>2, <1>4 DEF Busy
<1> QED BY <1>3, <1>5, <1>6, <1>7, <1>8 DEF Next, Read

(* The thread takes no more steps than StepsLeft says, which falls with     *)
(* each and starts at 2 * MaxUrls downloads: servers that stall, trickle    *)
(* bytes or never end their pages cannot hold it longer.                    *)
THEOREM StepsBounded ==
  Spec => [](StepsLeft \in Nat) /\ [][StepsLeft' < StepsLeft]_vars
<1>1. PageInv => StepsLeft \in Nat BY StepsLeftParts DEF StepsLeft
<1>2. PageInv /\ PageInv' /\ [Next]_vars => [StepsLeft' < StepsLeft]_vars BY StepsFall
<1> QED BY Invariance, <1>1, <1>2, PTL DEF Spec
=============================================================================
