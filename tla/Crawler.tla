------------------------------- MODULE Crawler -------------------------------
(***************************************************************************)
(* The hw1p3 crawler: main in handleThreads, its crawler threads in        *)
(* runParsingRobotsSendingStatus and the printing thread twoSecondPrint.   *)
(* They share the queue of URLs, the sets of hosts and addresses seen, the *)
(* statistics, the count numberThread and the event statusEvent.  DNS and  *)
(* the web servers are an external environment.                            *)
(*                                                                         *)
(* A critical section that alone protects its data is one step.            *)
(* numberThread is incremented under one lock and decremented under        *)
(* another, so there each load and each store is a step.                   *)
(***************************************************************************)
EXTENDS Integers, Sequences, FiniteSets

CONSTANTS
  N,          \* numberThread of main: crawler threads
  Hosts,      \* hosts the URLs name
  Ips,        \* addresses DNS may answer with
  Malformed,  \* a URL that parseString refuses
  Blank,      \* the empty URL, which a line of a lone carriage return leaves
  Files       \* queues that parseTXTFile may build

Urls == Hosts \cup {Malformed, Blank}

ASSUME CrawlerAssumption ==
  /\ N \in Nat \ {0}
  /\ Malformed \notin Hosts /\ Blank \notin Hosts /\ Malformed # Blank
  /\ Files \subseteq Seq(Urls) /\ Files # {}
  /\ IsFiniteSet(Hosts) /\ IsFiniteSet(Ips)

VARIABLES
  mpc, created, mreg,      \* main: its place, threads created, the load of ++
  pc, reg,                 \* crawlers: place, the load of --
  url, ip,                 \* and the URL and the address each works on
  passed, crawled,         \* parserHelper.numberRobotPass, .numberSuccessfullyCrawled
  pages,                   \* parserHelper.newNumberPagesInBatch
  q, numberExtractedURL,
  seenHosts, numberUniqueHost, numberDnsLookup,
  seenIPs, numberIpUnique,
  numberRobotPass, numberSuccessfullyCrawled, newNumberPagesInBatch,
  numberThread,
  spc, printMe,            \* the printing thread
  event,                   \* is statusEvent signalled?
  caught,                  \* history: was the printer unready when main raised it?
  visits                   \* history: times each address was asked for robots.txt

mainVars    == <<mpc, created, mreg>>
totals      == <<numberRobotPass, numberSuccessfullyCrawled, newNumberPagesInBatch>>
seenVars    == <<seenHosts, numberUniqueHost, numberDnsLookup, seenIPs, numberIpUnique>>
queueVars   == <<q, numberExtractedURL>>
localVars   == <<url, ip, passed, crawled, pages>>
printVars   == <<spc, printMe, event, caught>>
crawlerVars == <<pc, reg, localVars, queueVars, seenVars, totals, visits>>
vars        == <<mainVars, crawlerVars, numberThread, printVars>>

Threads == 1..N
Crawls  == {"host", "dns", "ip", "robots", "addRobots", "page", "addPage"}

(* The constructors; parseTXTFile has filled the queue, and the printing    *)
(* thread is running.                                                       *)
Init ==
  /\ mpc = "create" /\ created = 0 /\ mreg = 0
  /\ pc = [t \in Threads |-> "none"] /\ reg = [t \in Threads |-> 0]
  /\ url = [t \in Threads |-> Blank] /\ ip \in [Threads -> Ips]
  /\ passed = [t \in Threads |-> 0] /\ crawled = [t \in Threads |-> 0]
  /\ pages = [t \in Threads |-> 0]
  /\ q \in Files /\ numberExtractedURL = 0
  /\ seenHosts = {} /\ numberUniqueHost = 0 /\ numberDnsLookup = 0
  /\ seenIPs = {} /\ numberIpUnique = 0
  /\ numberRobotPass = 0 /\ numberSuccessfullyCrawled = 0 /\ newNumberPagesInBatch = 0
  /\ numberThread = 0
  /\ spc = "wait" /\ printMe = FALSE /\ event = FALSE /\ caught = FALSE
  /\ visits = [a \in Ips |-> 0]

-----------------------------------------------------------------------------
(* handleThreads.                                                           *)

(* CreateThread. *)
Create ==
  /\ mpc = "create"
  /\ created' = created + 1
  /\ pc' = [pc EXCEPT ![created + 1] = "top"]
  /\ mpc' = "count"
  /\ UNCHANGED <<mreg, reg, localVars, queueVars, seenVars, totals, visits,
                 numberThread, printVars>>

(* numberThread++ under threadQueueLock. *)
CountLoad ==
  /\ mpc = "count"
  /\ mreg' = numberThread
  /\ mpc' = "store"
  /\ UNCHANGED <<created, crawlerVars, numberThread, printVars>>

CountStore ==
  /\ mpc = "store"
  /\ numberThread' = mreg + 1
  /\ mpc' = IF created < N THEN "create" ELSE "join"
  /\ UNCHANGED <<created, mreg, crawlerVars, printVars>>

JoinAny ==  \* mutant
  /\ mpc = "join" /\ \E t \in Threads : pc[t] = "done"
  /\ mpc' = "raise"
  /\ UNCHANGED <<created, mreg, crawlerVars, numberThread, printVars>>

(* The waits for all crawlers. *)
Join ==
  /\ mpc = "join" /\ \A t \in Threads : pc[t] = "done"
  /\ mpc' = "raise"
  /\ UNCHANGED <<created, mreg, crawlerVars, numberThread, printVars>>

RaiseEvent ==
  /\ mpc = "raise"
  /\ event' = TRUE
  /\ caught' = (spc = "print" \/ ~printMe)
  /\ mpc' = "await"
  /\ UNCHANGED <<created, mreg, crawlerVars, numberThread, spc, printMe>>

(* The wait for the printing thread, and finalPrint. *)
FinalPrint ==
  /\ mpc = "await" /\ spc = "exited"
  /\ mpc' = "ended"
  /\ UNCHANGED <<created, mreg, crawlerVars, numberThread, printVars>>

Main == Create \/ CountLoad \/ CountStore \/ Join \/ RaiseEvent \/ FinalPrint

-----------------------------------------------------------------------------
(* runParsingRobotsSendingStatus, on crawler thread t.                      *)

GoTo(t, place) == pc' = [pc EXCEPT ![t] = place]

(* editQueueLink is held from the load to the store of numberThread--.      *)
QueueFreeAlways == TRUE \* mutant
QueueFree == \A u \in Threads : pc[u] # "leave"

LoadNoBreak(t) ==  \* mutant
  /\ pc[t] = "top" /\ QueueFree
  /\ q = <<>>
  /\ reg' = [reg EXCEPT ![t] = numberThread]
  /\ UNCHANGED <<mainVars, pc, localVars, queueVars, seenVars, totals, visits,
                 numberThread, printVars>>

(* The queue is empty: numberThread-- and out of the loop. *)
Load(t) ==
  /\ pc[t] = "top" /\ QueueFree
  /\ q = <<>>
  /\ reg' = [reg EXCEPT ![t] = numberThread]
  /\ GoTo(t, "leave")
  /\ UNCHANGED <<mainVars, localVars, queueVars, seenVars, totals, visits,
                 numberThread, printVars>>

Leave(t) ==
  /\ pc[t] = "leave"
  /\ numberThread' = reg[t] - 1
  /\ GoTo(t, "done")
  /\ UNCHANGED <<mainVars, reg, localVars, queueVars, seenVars, totals, visits, printVars>>

(* The front of the queue is taken and parsed, unless it is empty: then it  *)
(* stays and the loop starts over, which changes nothing.                   *)
Pop(t) ==
  /\ pc[t] = "top" /\ QueueFree
  /\ q # <<>> /\ Head(q) # Blank
  /\ q' = Tail(q) /\ numberExtractedURL' = numberExtractedURL + 1
  /\ url' = [url EXCEPT ![t] = Head(q)]
  /\ GoTo(t, IF Head(q) = Malformed THEN "top" ELSE "host")
  /\ UNCHANGED <<mainVars, reg, ip, passed, crawled, pages, seenVars, totals, visits,
                 numberThread, printVars>>

CheckHostAny(t) ==  \* mutant
  /\ pc[t] = "host"
  /\ seenHosts' = seenHosts \cup {url[t]}
  /\ numberUniqueHost' = numberUniqueHost + 1
  /\ GoTo(t, IF url[t] \in seenHosts THEN "top" ELSE "dns")
  /\ UNCHANGED <<mainVars, reg, localVars, queueVars, numberDnsLookup, seenIPs,
                 numberIpUnique, totals, visits, numberThread, printVars>>

(* seenHosts.insert under hostCheckUnique. *)
CheckHost(t) ==
  /\ pc[t] = "host"
  /\ seenHosts' = seenHosts \cup {url[t]}
  /\ IF url[t] \in seenHosts
     THEN GoTo(t, "top") /\ UNCHANGED numberUniqueHost
     ELSE GoTo(t, "dns") /\ numberUniqueHost' = numberUniqueHost + 1
  /\ UNCHANGED <<mainVars, reg, localVars, queueVars, numberDnsLookup, seenIPs,
                 numberIpUnique, totals, visits, numberThread, printVars>>

(* DNSCheck: no answer, or an address, counted under dnsCheckLock. *)
DnsFails(t) ==
  /\ pc[t] = "dns"
  /\ GoTo(t, "top")
  /\ UNCHANGED <<mainVars, reg, localVars, queueVars, seenVars, totals, visits,
                 numberThread, printVars>>

DnsAnswers(t) ==
  /\ pc[t] = "dns"
  /\ \E a \in Ips : ip' = [ip EXCEPT ![t] = a]
  /\ numberDnsLookup' = numberDnsLookup + 1
  /\ GoTo(t, "ip")
  /\ UNCHANGED <<mainVars, reg, url, passed, crawled, pages, queueVars, seenHosts,
                 numberUniqueHost, seenIPs, numberIpUnique, totals, visits,
                 numberThread, printVars>>

(* seenIPs.insert under ipCheckLock: new if the set has grown. *)
IpIsNewAny(t) == numberDnsLookup > Cardinality(seenIPs) \* mutant
IpIsNew(t) == Cardinality(seenIPs \cup {ip[t]}) # Cardinality(seenIPs)

CheckIp(t) ==
  /\ pc[t] = "ip"
  /\ seenIPs' = seenIPs \cup {ip[t]}
  /\ IF IpIsNew(t)
     THEN GoTo(t, "robots") /\ numberIpUnique' = numberIpUnique + 1
     ELSE GoTo(t, "top") /\ UNCHANGED numberIpUnique
  /\ UNCHANGED <<mainVars, reg, localVars, queueVars, seenHosts, numberUniqueHost,
                 numberDnsLookup, totals, visits, numberThread, printVars>>

(* RobotSendRead: HEAD /robots.txt fails, perhaps only after it was read,   *)
(* or is answered by other than 4xx; or the page may be crawled.            *)
AskRobots(t) == visits' = [visits EXCEPT ![ip[t]] = @ + 1]
CountsPage(t) == pages' = [pages EXCEPT ![t] = @ + 1]

RobotsFail(t) ==
  /\ pc[t] = "robots"
  /\ AskRobots(t)
  /\ CountsPage(t) \/ UNCHANGED pages
  /\ GoTo(t, "top")
  /\ UNCHANGED <<mainVars, reg, url, ip, passed, crawled, queueVars, seenVars, totals,
                 numberThread, printVars>>

RobotsPass(t) ==
  /\ pc[t] = "robots"
  /\ AskRobots(t)
  /\ CountsPage(t)
  /\ passed' = [passed EXCEPT ![t] = @ + 1]
  /\ GoTo(t, "addRobots")
  /\ UNCHANGED <<mainVars, reg, url, ip, crawled, queueVars, seenVars, totals,
                 numberThread, printVars>>

(* Under genericSyntaxLock what this thread has counted in all its life is  *)
(* added to the totals.  The count of bytes goes the way of the pages.      *)
AddsPages(t) == newNumberPagesInBatch' = newNumberPagesInBatch + pages[t]

AddRobotsAndPages(t) ==  \* mutant
  /\ pc[t] = "addRobots"
  /\ numberRobotPass' = numberRobotPass + passed[t]
  /\ numberSuccessfullyCrawled' = numberSuccessfullyCrawled + crawled[t]
  /\ AddsPages(t)
  /\ GoTo(t, "page")
  /\ UNCHANGED <<mainVars, reg, localVars, queueVars, seenVars,
                 visits, numberThread, printVars>>

AddRobots(t) ==
  /\ pc[t] = "addRobots"
  /\ numberRobotPass' = numberRobotPass + passed[t]
  /\ AddsPages(t)
  /\ GoTo(t, "page")
  /\ UNCHANGED <<mainVars, reg, localVars, queueVars, seenVars, numberSuccessfullyCrawled,
                 visits, numberThread, printVars>>

(* ReconnectHostSend: GET fails, or some status was read; only a page of    *)
(* status 2xx is counted among those downloaded.                            *)
PageFails(t) ==
  /\ pc[t] = "page"
  /\ GoTo(t, "top")
  /\ UNCHANGED <<mainVars, reg, localVars, queueVars, seenVars, totals, visits,
                 numberThread, printVars>>

PageRead(t) ==
  /\ pc[t] = "page"
  /\ crawled' = [crawled EXCEPT ![t] = @ + 1]
  /\ CountsPage(t) \/ UNCHANGED pages
  /\ GoTo(t, "addPage")
  /\ UNCHANGED <<mainVars, reg, url, ip, passed, queueVars, seenVars, totals, visits,
                 numberThread, printVars>>

(* The same for the page, with the counts of statuses and links; bytes and  *)
(* pages are added again, robots.txt included.                              *)
AddPage(t) ==
  /\ pc[t] = "addPage"
  /\ numberSuccessfullyCrawled' = numberSuccessfullyCrawled + crawled[t]
  /\ AddsPages(t)
  /\ GoTo(t, "top")
  /\ UNCHANGED <<mainVars, reg, localVars, queueVars, seenVars, numberRobotPass, visits,
                 numberThread, printVars>>

Crawl(t) == \/ Load(t) \/ Leave(t) \/ Pop(t) \/ CheckHost(t)
            \/ DnsFails(t) \/ DnsAnswers(t) \/ CheckIp(t)
            \/ RobotsFail(t) \/ RobotsPass(t) \/ AddRobots(t)
            \/ PageFails(t) \/ PageRead(t) \/ AddPage(t)

-----------------------------------------------------------------------------
(* twoSecondPrint.                                                          *)

PrintsAlways(timeout) == TRUE \* mutant
Prints(timeout) == timeout \/ ~printMe

(* The wait ends by its timeout or by the event; at least one line is       *)
(* printed.                                                                 *)
PrinterWakes ==
  /\ spc = "wait"
  /\ spc' = IF Prints(~event) THEN "print" ELSE "exited"
  /\ UNCHANGED <<mainVars, crawlerVars, numberThread, printMe, event, caught>>

(* The lines, which only read, and ResetEvent. *)
PrinterResets ==
  /\ spc = "print"
  /\ printMe' = TRUE /\ event' = FALSE
  /\ spc' = "wait"
  /\ UNCHANGED <<mainVars, crawlerVars, numberThread, caught>>

Printer == PrinterWakes \/ PrinterResets

Next == Main \/ Printer \/ \E t \in Threads : Crawl(t)

Spec == Init /\ [][Next]_vars

(* Every thread is scheduled; DNS lookups and downloads end, by an answer,  *)
(* an error or Read's ten seconds.                                          *)
FairSpec == /\ Spec /\ WF_vars(Main) /\ WF_vars(Printer)
            /\ \A t \in Threads : WF_vars(Crawl(t))

-----------------------------------------------------------------------------
(* Type invariant. *)
TypeOK ==
  /\ mpc \in {"create", "count", "store", "join", "raise", "await", "ended"}
  /\ created \in 0..N /\ mreg \in Int /\ numberThread \in Int
  /\ pc \in [Threads -> Crawls \cup {"none", "top", "leave", "done"}]
  /\ reg \in [Threads -> Int] /\ url \in [Threads -> Urls] /\ ip \in [Threads -> Ips]
  /\ passed \in [Threads -> Nat] /\ crawled \in [Threads -> Nat]
  /\ pages \in [Threads -> Nat]
  /\ q \in Seq(Urls) /\ numberExtractedURL \in Nat
  /\ seenHosts \subseteq Hosts /\ seenIPs \subseteq Ips
  /\ numberUniqueHost \in Nat /\ numberDnsLookup \in Nat /\ numberIpUnique \in Nat
  /\ numberRobotPass \in Nat /\ numberSuccessfullyCrawled \in Nat
  /\ newNumberPagesInBatch \in Nat
  /\ spc \in {"wait", "print", "exited"}
  /\ printMe \in BOOLEAN /\ event \in BOOLEAN /\ caught \in BOOLEAN
  /\ visits \in [Ips -> Nat]

(* No server is visited twice, whatever the threads and DNS do, although    *)
(* host check, lookup and address check are under three locks.              *)
EachIpOnce == \A a \in Ips : visits[a] <= 1

(* The lines of twoSecondPrint are right about hosts and addresses, each    *)
(* counted under its own lock, and no later count passes an earlier one.    *)
StatsAgree ==
  /\ numberUniqueHost = Cardinality(seenHosts) /\ numberIpUnique = Cardinality(seenIPs)
  /\ numberIpUnique <= numberDnsLookup /\ numberDnsLookup <= numberUniqueHost
  /\ numberUniqueHost <= numberExtractedURL

(* A triple for each document that a thread has read and each robots.txt    *)
(* it has passed or page it has crawled.                                    *)
Batches == UNION {({t} \X (1..(passed[t] + crawled[t]))) \X (1..pages[t]) : t \in Threads}

(* How wrong totals get that are made of a thread's whole life's counts.    *)
(* Robots passed are right until some thread passes its second; pages       *)
(* crawled never exceed them; of the documents downloaded none counts more  *)
(* often than its thread has passed a robots.txt or crawled a page, which   *)
(* for the first robots.txt is twice already.                               *)
TotalsAccount ==
  /\ (\A t \in Threads : passed[t] <= 1) => numberRobotPass <= numberIpUnique
  /\ numberSuccessfullyCrawled <= numberRobotPass
  /\ newNumberPagesInBatch <= Cardinality(Batches)

(* main prints last: the queue is drained and nobody runs.  The printing    *)
(* thread ends only when main raised the event with it ready.               *)
FinalPrintIsLast ==
  /\ mpc \in {"raise", "await", "ended"} =>
       q = <<>> /\ \A t \in Threads : pc[t] = "done"
  /\ spc = "exited" => mpc \in {"await", "ended"} /\ ~caught

(* The error of numberThread: what it says less the crawlers that run.      *)
Drift == numberThread - (created - Cardinality({t \in Threads : pc[t] = "done"}))

(* Once main has created all threads and no crawler holds an older value.   *)
Settled == /\ mpc \in {"join", "raise", "await", "ended"}
           /\ \A t \in Threads : pc[t] = "leave" => reg[t] = numberThread

(* Updates of numberThread get lost only between main and a crawler that    *)
(* ends while main still creates threads; afterwards the error stays.       *)
DriftSettles == [][Settled => Settled' /\ Drift' = Drift]_vars

(* All crawlers end, unless an empty URL comes to the front of the queue:   *)
(* then they all spin on it.                                                *)
CrawlersEnd ==
  \/ <>(\A t \in Threads : pc[t] = "done")
  \/ <>[](q # <<>> /\ Head(q) = Blank)

(* Once main has raised the event it gets to finalPrint, unless the printer *)
(* was past its wait, or had never printed: it then takes the event back.   *)
RaiseIsHeard == mpc = "await" ~> mpc = "ended" \/ caught
=============================================================================
