--------------------------- MODULE CrawlerProofs ---------------------------
(***************************************************************************)
(* Safety of Crawler for every number of threads, every queue and every    *)
(* answer of DNS and the servers.                                          *)
(***************************************************************************)
EXTENDS Crawler, TLAPS, FiniteSetTheorems

Places == Crawls \cup {"none", "top", "leave", "done"}

(* The threads at a place, and their number. *)
At(p) == {t \in Threads : pc[t] = p}
Num(p) == Cardinality(At(p))

-----------------------------------------------------------------------------
(* The inductive invariant, in named parts. *)

(* An address asked for robots.txt is seen, and the threads that are about  *)
(* to ask have distinct addresses that nobody has asked.                    *)
VisitInv ==
  /\ \A a \in Ips : visits[a] > 0 => a \in seenIPs
  /\ \A t \in Threads : pc[t] = "robots" => ip[t] \in seenIPs /\ visits[ip[t]] = 0
  /\ \A t, u \in Threads : pc[t] = "robots" /\ pc[u] = "robots" /\ ip[t] = ip[u] => t = u

(* Each statistic leads the next by the threads that are between the two.   *)
CountInv ==
  /\ numberUniqueHost = Cardinality(seenHosts) /\ numberIpUnique = Cardinality(seenIPs)
  /\ numberIpUnique + Num("ip") <= numberDnsLookup
  /\ numberDnsLookup + Num("dns") <= numberUniqueHost
  /\ numberUniqueHost + Num("host") <= numberExtractedURL

(* editQueueLink: one thread at a time gives its number back, and only once *)
(* the queue is empty.                                                      *)
QueueInv ==
  /\ \A t, u \in Threads : pc[t] = "leave" /\ pc[u] = "leave" => t = u
  /\ \A t \in Threads : pc[t] \in {"leave", "done"} => q = <<>>

(* The event is raised after the join, and a printer that was not ready for *)
(* it does not leave its loop.                                              *)
EventInv ==
  /\ event \/ caught => mpc \in {"await", "ended"}
  /\ caught /\ event => spc = "print" \/ ~printMe

(* A thread at work on a URL works on a host. *)
UrlInv ==
  /\ mpc = "create" => created < N
  /\ \A t \in Threads : pc[t] = "host" => url[t] \in Hosts

CrawlerInv == /\ TypeOK /\ UrlInv /\ VisitInv /\ EachIpOnce /\ CountInv /\ QueueInv
              /\ EventInv /\ FinalPrintIsLast

-----------------------------------------------------------------------------
(* The steps that leave pc alone, and those of one crawler. *)

(* Finite sets of threads, hosts and addresses. *)
LEMMA Finite ==
  /\ IsFiniteSet(Threads)
  /\ \A p : IsFiniteSet(At(p)) /\ Num(p) \in Nat
  /\ TypeOK => /\ IsFiniteSet(seenHosts) /\ Cardinality(seenHosts) \in Nat
               /\ IsFiniteSet(seenIPs) /\ Cardinality(seenIPs) \in Nat
<1>1. IsFiniteSet(Threads) BY CrawlerAssumption, FS_Interval DEF CrawlerAssumption, Threads
<1>2. ASSUME NEW p PROVE IsFiniteSet(At(p)) /\ Num(p) \in Nat
  <2>1. At(p) \in SUBSET Threads BY DEF At
  <2>2. IsFiniteSet(At(p)) BY <1>1, <2>1, FS_Subset
  <2> QED BY <2>2, FS_CardinalityType DEF Num
<1>3. ASSUME TypeOK
      PROVE  /\ IsFiniteSet(seenHosts) /\ Cardinality(seenHosts) \in Nat
             /\ IsFiniteSet(seenIPs) /\ Cardinality(seenIPs) \in Nat
  <2>1. seenHosts \in SUBSET Hosts /\ seenIPs \in SUBSET Ips BY <1>3 DEF TypeOK
  <2>2. IsFiniteSet(seenHosts) /\ IsFiniteSet(seenIPs)
    BY <2>1, CrawlerAssumption, FS_Subset DEF CrawlerAssumption
  <2> QED BY <2>2, FS_CardinalityType
<1> QED BY <1>1, <1>2, <1>3

(* When thread t goes to another place, the number at the place it leaves   *)
(* falls by one, that at the place it reaches rises by one.                 *)
LEMMA GoToCounts ==
  ASSUME TypeOK, NEW t \in Threads, NEW place, place # pc[t], GoTo(t, place), NEW p
  PROVE  Num(p)' = IF p = place THEN Num(p) + 1
                   ELSE IF p = pc[t] THEN Num(p) - 1 ELSE Num(p)
<1>1. IsFiniteSet(At(p)) /\ Cardinality(At(p)) \in Nat BY Finite DEF Num
<1>2. CASE p = place
  <2>1. At(p)' = At(p) \cup {t} /\ t \notin At(p) BY <1>2 DEF At, GoTo, TypeOK
  <2>2. Cardinality(At(p) \cup {t}) = Cardinality(At(p)) + 1 BY <1>1, <2>1, FS_AddElement
  <2> QED BY <1>2, <2>1, <2>2 DEF Num
<1>3. CASE p # place /\ p = pc[t]
  <2>1. At(p)' = At(p) \ {t} /\ t \in At(p) BY <1>3 DEF At, GoTo, TypeOK
  <2>2. Cardinality(At(p) \ {t}) = Cardinality(At(p)) - 1 BY <1>1, <2>1, FS_RemoveElement
  <2> QED BY <1>3, <2>1, <2>2 DEF Num
<1>4. CASE p # place /\ p # pc[t]
  <2>1. At(p)' = At(p) BY <1>4 DEF At, GoTo, TypeOK
  <2> QED BY <1>4, <2>1 DEF Num
<1> QED BY <1>2, <1>3, <1>4

(* The insertion finds an address new exactly if it was not in the set. *)
LEMMA NewIp ==
  ASSUME TypeOK, NEW t \in Threads
  PROVE  /\ IpIsNew(t) <=> ip[t] \notin seenIPs
         /\ Cardinality(seenIPs \cup {ip[t]}) =
              IF IpIsNew(t) THEN Cardinality(seenIPs) + 1 ELSE Cardinality(seenIPs)
<1>1. Cardinality(seenIPs \cup {ip[t]}) =
        IF ip[t] \in seenIPs THEN Cardinality(seenIPs) ELSE Cardinality(seenIPs) + 1
  BY Finite, FS_AddElement
<1> QED BY <1>1, Finite DEF IpIsNew

-----------------------------------------------------------------------------
(* Each part of the invariant is preserved by every step. *)

LEMMA InitInv == Init => CrawlerInv
<1> SUFFICES ASSUME Init PROVE CrawlerInv OBVIOUS
<1> USE DEF Init
<1>1. TypeOK
  <2>1. q \in Seq(Urls) /\ numberExtractedURL \in Nat
    BY CrawlerAssumption DEF CrawlerAssumption
  <2>2. /\ pc \in [Threads -> Crawls \cup {"none", "top", "leave", "done"}]
        /\ url \in [Threads -> Urls]
    BY DEF Urls
  <2>3. /\ passed \in [Threads -> Nat] /\ crawled \in [Threads -> Nat]
        /\ reg \in [Threads -> Int] /\ visits \in [Ips -> Nat] /\ ip \in [Threads -> Ips]
        /\ pages \in [Threads -> Nat]
    OBVIOUS
  <2>4. created \in 0..N /\ mreg \in Int /\ numberThread \in Int
    BY CrawlerAssumption DEF CrawlerAssumption
  <2>5. /\ seenHosts \subseteq Hosts /\ seenIPs \subseteq Ips
        /\ numberUniqueHost \in Nat /\ numberDnsLookup \in Nat /\ numberIpUnique \in Nat
        /\ numberRobotPass \in Nat /\ numberSuccessfullyCrawled \in Nat
        /\ newNumberPagesInBatch \in Nat
    OBVIOUS
  <2>6. /\ mpc = "create" /\ spc = "wait"
        /\ printMe \in BOOLEAN /\ event \in BOOLEAN /\ caught \in BOOLEAN
    OBVIOUS
  <2> HIDE DEF Init
  <2> QED BY <2>1, <2>2, <2>3, <2>4, <2>5, <2>6 DEF TypeOK
<1>2. CountInv
  <2>1. ASSUME NEW p, p # "none" PROVE Num(p) = 0
    <3>1. At(p) = {} BY <2>1 DEF At
    <3> QED BY <3>1, FS_EmptySet DEF Num
  <2> QED BY <2>1, FS_EmptySet DEF CountInv
<1>3. UrlInv /\ VisitInv /\ EachIpOnce
  BY CrawlerAssumption DEF CrawlerAssumption, UrlInv, VisitInv, EachIpOnce
<1>4. QueueInv /\ EventInv /\ FinalPrintIsLast
  BY DEF QueueInv, EventInv, FinalPrintIsLast
<1> QED BY <1>1, <1>2, <1>3, <1>4 DEF CrawlerInv

(* Type correctness of a crawler's steps. *)
LEMMA TypeCrawl ==
  ASSUME TypeOK, UrlInv, NEW t \in Threads, Crawl(t) PROVE TypeOK'
<1> USE DEF TypeOK, GoTo, Crawls, mainVars, totals, seenVars, queueVars, localVars,
            printVars
<1>1. CASE Load(t) BY <1>1 DEF Load
<1>2. CASE Leave(t) BY <1>2 DEF Leave
<1>3. CASE Pop(t)
  <2>1. Head(q) \in Urls /\ Tail(q) \in Seq(Urls) BY <1>3 DEF Pop
  <2> QED BY <1>3, <2>1 DEF Pop
<1>4. CASE CheckHost(t)
  <2>1. seenHosts' \subseteq Hosts BY <1>4 DEF CheckHost, UrlInv
  <2>2. \E place \in {"top", "dns"} : GoTo(t, place)
    BY ONLY <1>4 DEF CheckHost
  <2>3. numberUniqueHost' \in {numberUniqueHost, numberUniqueHost + 1} BY <1>4 DEF CheckHost
  <2> QED BY <1>4, <2>1, <2>2, <2>3 DEF CheckHost
<1>5. CASE DnsFails(t) BY <1>5 DEF DnsFails
<1>6. CASE DnsAnswers(t) BY <1>6 DEF DnsAnswers
<1>7. CASE CheckIp(t)
  <2>1. seenIPs' \subseteq Ips BY <1>7 DEF CheckIp
  <2>2. \E place \in {"top", "robots"} : GoTo(t, place)
    BY ONLY <1>7 DEF CheckIp
  <2>3. numberIpUnique' \in {numberIpUnique, numberIpUnique + 1} BY <1>7 DEF CheckIp
  <2> QED BY <1>7, <2>1, <2>2, <2>3 DEF CheckIp
<1>8. CASE RobotsFail(t)
  <2>1. pages' \in [Threads -> Nat] BY <1>8 DEF RobotsFail, CountsPage
  <2>2. pc' \in [Threads -> Places] /\ visits' \in [Ips -> Nat]
    BY <1>8 DEF RobotsFail, AskRobots, Places
  <2>3. UNCHANGED <<mainVars, reg, url, ip, passed, crawled, queueVars, seenVars, totals,
                    numberThread, printVars>>
    BY <1>8 DEF RobotsFail
  <2> QED BY <2>1, <2>2, <2>3 DEF Places
<1>9. CASE RobotsPass(t) BY <1>9 DEF RobotsPass, AskRobots, CountsPage
<1>10. CASE AddRobots(t)
  <2>1. numberRobotPass' \in Nat /\ newNumberPagesInBatch' \in Nat
    BY <1>10 DEF AddRobots, AddsPages
  <2>2. pc' \in [Threads -> Places] BY <1>10 DEF AddRobots, Places
  <2>3. UNCHANGED <<mainVars, reg, localVars, queueVars, seenVars, numberSuccessfullyCrawled,
                    visits, numberThread, printVars>>
    BY <1>10 DEF AddRobots
  <2> QED BY <2>1, <2>2, <2>3 DEF Places
<1>11. CASE PageFails(t) BY <1>11 DEF PageFails
<1>12. CASE PageRead(t)
  <2>1. pages' \in [Threads -> Nat] BY <1>12 DEF PageRead, CountsPage
  <2>2. pc' \in [Threads -> Places] /\ crawled' \in [Threads -> Nat]
    BY <1>12 DEF PageRead, Places
  <2>3. UNCHANGED <<mainVars, reg, url, ip, passed, queueVars, seenVars, totals, visits,
                    numberThread, printVars>>
    BY <1>12 DEF PageRead
  <2> QED BY <2>1, <2>2, <2>3 DEF Places
<1>13. CASE AddPage(t)
  <2>1. numberSuccessfullyCrawled' \in Nat /\ newNumberPagesInBatch' \in Nat
    BY <1>13 DEF AddPage, AddsPages
  <2>2. pc' \in [Threads -> Places] BY <1>13 DEF AddPage, Places
  <2>3. UNCHANGED <<mainVars, reg, localVars, queueVars, seenVars, numberRobotPass, visits,
                    numberThread, printVars>>
    BY <1>13 DEF AddPage
  <2> QED BY <2>1, <2>2, <2>3 DEF Places
<1> QED BY <1>1, <1>2, <1>3, <1>4, <1>5, <1>6, <1>7, <1>8, <1>9, <1>10, <1>11, <1>12,
           <1>13 DEF Crawl

LEMMA TypeStep == ASSUME CrawlerInv, [Next]_vars PROVE TypeOK'
<1> USE DEF CrawlerInv
<1>1. CASE Main
  <2> USE DEF TypeOK, mainVars, totals, seenVars, queueVars, localVars, printVars,
              crawlerVars, UrlInv
  <2>1. CASE Create
    <3>1. created + 1 \in 0..N BY <2>1, CrawlerAssumption DEF Create, CrawlerAssumption
    <3> QED BY <2>1, <3>1 DEF Create
  <2>2. CASE CountLoad BY <2>2 DEF CountLoad
  <2>3. CASE CountStore BY <2>3 DEF CountStore
  <2>4. CASE Join BY <2>4 DEF Join
  <2>5. CASE RaiseEvent BY <2>5 DEF RaiseEvent
  <2>6. CASE FinalPrint BY <2>6 DEF FinalPrint
  <2> QED BY <1>1, <2>1, <2>2, <2>3, <2>4, <2>5, <2>6 DEF Main
<1>2. CASE Printer
  <2> USE DEF TypeOK, mainVars, totals, seenVars, queueVars, localVars, crawlerVars
  <2>1. CASE PrinterWakes BY <2>1 DEF PrinterWakes
  <2>2. CASE PrinterResets BY <2>2 DEF PrinterResets
  <2> QED BY <1>2, <2>1, <2>2 DEF Printer
<1>3. CASE \E t \in Threads : Crawl(t) BY <1>3, TypeCrawl
<1>4. CASE UNCHANGED vars
  BY <1>4 DEF TypeOK, vars, mainVars, totals, seenVars, queueVars, localVars, printVars,
              crawlerVars
<1> QED BY <1>1, <1>2, <1>3, <1>4 DEF Next

LEMMA UrlStep == ASSUME CrawlerInv, [Next]_vars PROVE UrlInv'
<1> USE DEF CrawlerInv, TypeOK, UrlInv, GoTo, mainVars, totals, seenVars, queueVars,
            localVars, printVars, crawlerVars
<1>1. CASE Main
  <2>1. CASE Create BY <2>1, CrawlerAssumption DEF Create, CrawlerAssumption
  <2>2. CASE CountStore BY <2>2 DEF CountStore
  <2>3. CASE CountLoad \/ Join \/ RaiseEvent \/ FinalPrint
    BY <2>3 DEF CountLoad, Join, RaiseEvent, FinalPrint
  <2> QED BY <1>1, <2>1, <2>2, <2>3 DEF Main
<1>2. CASE Printer BY <1>2 DEF Printer, PrinterWakes, PrinterResets
<1>3. ASSUME NEW t \in Threads, Crawl(t) PROVE UrlInv'
  <2>1. CASE Pop(t)
    <3>1. Head(q) \in Urls BY <2>1 DEF Pop
    <3> QED BY <2>1, <3>1 DEF Pop, Urls
  <2>2. CASE Load(t) \/ Leave(t) BY <2>2 DEF Load, Leave
  <2>3. CASE CheckHost(t) \/ DnsFails(t) \/ DnsAnswers(t) \/ CheckIp(t)
    BY <2>3 DEF CheckHost, DnsFails, DnsAnswers, CheckIp
  <2>4. CASE RobotsFail(t) \/ RobotsPass(t) \/ AddRobots(t)
    BY <2>4 DEF RobotsFail, RobotsPass, AddRobots
  <2>5. CASE PageFails(t) \/ PageRead(t) \/ AddPage(t)
    BY <2>5 DEF PageFails, PageRead, AddPage
  <2> QED BY <1>3, <2>1, <2>2, <2>3, <2>4, <2>5 DEF Crawl
<1>4. CASE UNCHANGED vars BY <1>4 DEF vars
<1> QED BY <1>1, <1>2, <1>3, <1>4 DEF Next

(* The visits: the address check hands each address to one thread, once. *)
LEMMA VisitStep == ASSUME CrawlerInv, [Next]_vars PROVE VisitInv' /\ EachIpOnce'
<1> USE DEF CrawlerInv, TypeOK, VisitInv, EachIpOnce
<1>1. CASE Main
  <2>1. UNCHANGED <<visits, seenIPs, ip>> /\ \A t \in Threads : pc'[t] = "robots" => pc[t] = "robots"
    BY <1>1 DEF Main, Create, CountLoad, CountStore, Join, RaiseEvent, FinalPrint,
                crawlerVars, seenVars, localVars
  <2> QED BY <2>1
<1>2. CASE Printer \/ UNCHANGED vars
  <2>1. UNCHANGED <<visits, seenIPs, ip, pc>>
    BY <1>2 DEF Printer, PrinterWakes, PrinterResets, vars, crawlerVars, seenVars, localVars
  <2> QED BY <2>1
<1>3. ASSUME NEW t \in Threads, Crawl(t) PROVE VisitInv' /\ EachIpOnce'
  <2>1. CASE \/ Load(t) \/ Leave(t) \/ Pop(t) \/ CheckHost(t) \/ DnsFails(t)
             \/ AddRobots(t) \/ PageFails(t) \/ PageRead(t) \/ AddPage(t)
    <3>1. /\ UNCHANGED <<visits, seenIPs, ip>>
          /\ \A u \in Threads : pc'[u] = "robots" => pc[u] = "robots"
      BY <2>1 DEF Load, Leave, Pop, CheckHost, DnsFails, AddRobots, PageFails, PageRead,
                  AddPage, GoTo, seenVars, localVars
    <3> QED BY <3>1
  <2>2. CASE DnsAnswers(t)
    <3>1. /\ UNCHANGED <<visits, seenIPs>>
          /\ \A u \in Threads : pc'[u] = "robots" => pc[u] = "robots" /\ ip'[u] = ip[u]
      BY <2>2 DEF DnsAnswers, GoTo
    <3> QED BY <3>1
  <2>3. CASE CheckIp(t)
    <3>1. UNCHANGED <<visits, ip>> /\ seenIPs' = seenIPs \cup {ip[t]}
      BY <2>3 DEF CheckIp, localVars
    <3>2. \A u \in Threads : pc'[u] = "robots" =>
             \/ u # t /\ pc[u] = "robots"
             \/ u = t /\ ip[t] \notin seenIPs
      BY <2>3, NewIp DEF CheckIp, GoTo
    <3>3. \A a \in Ips : visits'[a] > 0 => a \in seenIPs'
      BY <3>1
    <3>4. /\ ip[t] \notin seenIPs => visits[ip[t]] = 0
          /\ ip[t] \notin seenIPs => \A u \in Threads : pc[u] = "robots" => ip[u] # ip[t]
      OBVIOUS
    <3>5. \A u \in Threads : pc'[u] = "robots" => ip'[u] \in seenIPs' /\ visits'[ip'[u]] = 0
      BY <3>1, <3>2, <3>4
    <3>6. \A u, v \in Threads :
             pc'[u] = "robots" /\ pc'[v] = "robots" /\ ip'[u] = ip'[v] => u = v
      BY <3>1, <3>2, <3>4
    <3> QED BY <3>1, <3>3, <3>5, <3>6
  <2>4. CASE RobotsFail(t) \/ RobotsPass(t)
    <3>1. /\ UNCHANGED <<seenIPs, ip>> /\ pc[t] = "robots"
          /\ visits' = [visits EXCEPT ![ip[t]] = @ + 1]
      BY <2>4 DEF RobotsFail, RobotsPass, AskRobots, seenVars, localVars
    <3>2. \A u \in Threads : pc'[u] = "robots" => u # t /\ pc[u] = "robots"
      BY <2>4 DEF RobotsFail, RobotsPass, GoTo
    <3> QED BY <3>1, <3>2
  <2> QED BY <1>3, <2>1, <2>2, <2>3, <2>4 DEF Crawl
<1> QED BY <1>1, <1>2, <1>3 DEF Next

(* The statistics: a crawler adds to the next one when it goes on. *)
LEMMA CountStep == ASSUME CrawlerInv, [Next]_vars PROVE CountInv'
<1> DEFINE Stats == <<seenHosts, numberUniqueHost, numberDnsLookup, seenIPs, numberIpUnique,
                      numberExtractedURL>>
           Falls == \A p \in {"host", "dns", "ip"} : Num(p)' <= Num(p)
<1> USE DEF CrawlerInv
<1>1. /\ \A p : Num(p) \in Nat
      /\ numberUniqueHost \in Nat /\ numberDnsLookup \in Nat /\ numberIpUnique \in Nat
      /\ numberExtractedURL \in Nat
  BY Finite DEF TypeOK
<1>2. \A p : Num(p)' \in Nat
  <2>1. TypeOK' BY TypeStep
  <2>2. \A p : IsFiniteSet(At(p)')
    <3> TAKE p
    <3>1. At(p)' \in SUBSET Threads BY DEF At
    <3> QED BY <3>1, Finite, FS_Subset
  <2> QED BY <2>2, FS_CardinalityType DEF Num
<1>3. ASSUME Falls, UNCHANGED Stats PROVE CountInv'
  BY <1>1, <1>2, <1>3 DEF CountInv
<1>4. ASSUME UNCHANGED pc PROVE Falls
  <2>1. \A p : At(p)' = At(p) BY <1>4 DEF At
  <2> QED BY <2>1, <1>1 DEF Num
<1>5. CASE Main
  <2>1. UNCHANGED Stats
    BY <1>5 DEF Main, Create, CountLoad, CountStore, Join, RaiseEvent, FinalPrint,
                crawlerVars, seenVars, queueVars
  <2>2. CASE Create
    <3>1. created + 1 \in Threads /\ GoTo(created + 1, "top")
      BY <2>2, CrawlerAssumption DEF Create, GoTo, UrlInv, TypeOK, Threads, CrawlerAssumption
    <3>2. CASE pc[created + 1] = "top"
      <4>1. pc' = pc BY <3>1, <3>2 DEF GoTo, TypeOK
      <4> QED BY <4>1, <1>3, <1>4, <2>1
    <3>3. CASE pc[created + 1] # "top"
      <4>1. Falls BY <3>1, <3>3, <1>1, GoToCounts
      <4> QED BY <4>1, <1>3, <2>1
    <3> QED BY <3>2, <3>3
  <2>3. CASE CountLoad \/ CountStore \/ Join \/ RaiseEvent \/ FinalPrint
    <3>1. UNCHANGED pc
      BY <2>3 DEF CountLoad, CountStore, Join, RaiseEvent, FinalPrint, crawlerVars
    <3> QED BY <3>1, <1>3, <1>4, <2>1
  <2> QED BY <1>5, <2>2, <2>3 DEF Main
<1>6. CASE Printer \/ UNCHANGED vars
  <2>1. UNCHANGED Stats /\ UNCHANGED pc
    BY <1>6 DEF Printer, PrinterWakes, PrinterResets, vars, crawlerVars, seenVars, queueVars
  <2> QED BY <2>1, <1>3, <1>4
<1>7. ASSUME NEW t \in Threads, Crawl(t) PROVE CountInv'
  <2>1. ASSUME NEW place \in {"top", "leave", "done", "robots", "addRobots", "page", "addPage"},
               place # pc[t], GoTo(t, place)
        PROVE  Falls
    BY <2>1, <1>1, GoToCounts
  <2>2. CASE \/ Load(t) \/ Leave(t) \/ DnsFails(t) \/ RobotsFail(t) \/ RobotsPass(t)
             \/ AddRobots(t) \/ PageFails(t) \/ PageRead(t) \/ AddPage(t)
    <3>1. UNCHANGED Stats
      BY <2>2 DEF Load, Leave, DnsFails, RobotsFail, RobotsPass, AddRobots, PageFails,
                  PageRead, AddPage, seenVars, queueVars
    <3>2. \E place \in {"top", "leave", "done", "addRobots", "page", "addPage"} :
            place # pc[t] /\ GoTo(t, place)
      BY <2>2 DEF Load, Leave, DnsFails, RobotsFail, RobotsPass, AddRobots, PageFails,
                  PageRead, AddPage
    <3> QED BY <3>1, <3>2, <2>1, <1>3
  <2>3. CASE Pop(t)
    <3>1. /\ pc[t] = "top" /\ numberExtractedURL' = numberExtractedURL + 1
          /\ UNCHANGED <<seenHosts, numberUniqueHost, numberDnsLookup, seenIPs, numberIpUnique>>
      BY <2>3 DEF Pop, seenVars
    <3>2. CASE GoTo(t, "top")
      <4>1. pc' = pc BY <3>1, <3>2 DEF GoTo, TypeOK
      <4>2. Falls BY <4>1, <1>4
      <4> QED BY <3>1, <4>2, <1>1, <1>2 DEF CountInv
    <3>3. CASE GoTo(t, "host")
      <4>1. Num("host")' = Num("host") + 1 /\ Num("dns")' = Num("dns") /\ Num("ip")' = Num("ip")
        BY <3>1, <3>3, GoToCounts
      <4> QED BY <3>1, <4>1, <1>1 DEF CountInv
    <3> QED BY <2>3, <3>2, <3>3 DEF Pop
  <2>4. CASE CheckHost(t)
    <3>1. /\ pc[t] = "host" /\ seenHosts' = seenHosts \cup {url[t]}
          /\ UNCHANGED <<numberDnsLookup, seenIPs, numberIpUnique, numberExtractedURL>>
      BY <2>4 DEF CheckHost, queueVars
    <3>2. CASE url[t] \in seenHosts
      <4>1. seenHosts' = seenHosts /\ UNCHANGED numberUniqueHost /\ GoTo(t, "top")
        BY <2>4, <3>1, <3>2 DEF CheckHost
      <4>2. Falls BY <3>1, <4>1, <2>1
      <4> QED BY <3>1, <4>1, <4>2, <1>3
    <3>3. CASE url[t] \notin seenHosts
      <4>1. numberUniqueHost' = numberUniqueHost + 1 /\ GoTo(t, "dns")
        BY <2>4, <3>3 DEF CheckHost
      <4>2. Cardinality(seenHosts') = Cardinality(seenHosts) + 1
        BY <3>1, <3>3, Finite, FS_AddElement
      <4>3. Num("host")' = Num("host") - 1 /\ Num("dns")' = Num("dns") + 1 /\ Num("ip")' = Num("ip")
        BY <3>1, <4>1, GoToCounts
      <4> QED BY <3>1, <4>1, <4>2, <4>3, <1>1 DEF CountInv
    <3> QED BY <3>2, <3>3
  <2>5. CASE DnsAnswers(t)
    <3>1. /\ pc[t] = "dns" /\ GoTo(t, "ip") /\ numberDnsLookup' = numberDnsLookup + 1
          /\ UNCHANGED <<seenHosts, numberUniqueHost, seenIPs, numberIpUnique, numberExtractedURL>>
      BY <2>5 DEF DnsAnswers, queueVars
    <3>2. Num("host")' = Num("host") /\ Num("dns")' = Num("dns") - 1 /\ Num("ip")' = Num("ip") + 1
      BY <3>1, GoToCounts
    <3> QED BY <3>1, <3>2, <1>1 DEF CountInv
  <2>6. CASE CheckIp(t)
    <3>1. /\ pc[t] = "ip" /\ seenIPs' = seenIPs \cup {ip[t]}
          /\ UNCHANGED <<seenHosts, numberUniqueHost, numberDnsLookup, numberExtractedURL>>
      BY <2>6 DEF CheckIp, queueVars
    <3>2. CASE IpIsNew(t)
      <4>1. numberIpUnique' = numberIpUnique + 1 /\ GoTo(t, "robots") BY <2>6, <3>2 DEF CheckIp
      <4>2. Num("host")' = Num("host") /\ Num("dns")' = Num("dns") /\ Num("ip")' = Num("ip") - 1
        BY <3>1, <4>1, GoToCounts
      <4>3. Cardinality(seenIPs') = Cardinality(seenIPs) + 1 BY <3>1, <3>2, NewIp
      <4> QED BY <3>1, <4>1, <4>2, <4>3, <1>1 DEF CountInv
    <3>3. CASE ~IpIsNew(t)
      <4>1. UNCHANGED numberIpUnique /\ GoTo(t, "top") BY <2>6, <3>3 DEF CheckIp
      <4>2. seenIPs' = seenIPs BY <3>1, <3>3, NewIp
      <4>3. Falls BY <3>1, <4>1, <2>1
      <4> QED BY <3>1, <4>1, <4>2, <4>3, <1>3
    <3> QED BY <3>2, <3>3
  <2> QED BY <1>7, <2>2, <2>3, <2>4, <2>5, <2>6 DEF Crawl
<1> QED BY <1>5, <1>6, <1>7 DEF Next

(* The queue: only a thread that finds it empty leaves, one after another. *)
LEMMA QueueStep == ASSUME CrawlerInv, [Next]_vars PROVE QueueInv'
<1> USE DEF CrawlerInv, QueueInv
<1>1. CASE Main \/ Printer \/ UNCHANGED vars
  <2>1. UNCHANGED q /\ \A t \in Threads : pc'[t] \in {"leave", "done"} => pc'[t] = pc[t]
    BY <1>1 DEF TypeOK, Main, Create, CountLoad, CountStore, Join, RaiseEvent, FinalPrint,
                Printer, PrinterWakes, PrinterResets, vars, crawlerVars, queueVars
  <2> QED BY <2>1
<1>2. ASSUME NEW t \in Threads, Crawl(t) PROVE QueueInv'
  <2>1. CASE Pop(t)
    <3>1. q # <<>> /\ pc'[t] \notin {"leave", "done"}
          /\ \A u \in Threads \ {t} : pc'[u] = pc[u]
      BY <2>1 DEF Pop, GoTo, TypeOK
    <3> QED BY <3>1
  <2>2. CASE Load(t)
    <3>1. /\ UNCHANGED q /\ q = <<>>
          /\ \A u \in Threads : pc[u] # "leave"
          /\ \A u \in Threads \ {t} : pc'[u] = pc[u]
      BY <2>2 DEF Load, QueueFree, GoTo, TypeOK, queueVars
    <3> QED BY <3>1
  <2>3. CASE Leave(t)
    <3>1. /\ UNCHANGED q /\ pc[t] = "leave" /\ pc'[t] = "done"
          /\ \A u \in Threads \ {t} : pc'[u] = pc[u]
      BY <2>3 DEF Leave, GoTo, TypeOK, queueVars
    <3> QED BY <3>1
  <2>4. CASE \/ CheckHost(t) \/ DnsFails(t) \/ DnsAnswers(t) \/ CheckIp(t)
             \/ RobotsFail(t) \/ RobotsPass(t) \/ AddRobots(t)
             \/ PageFails(t) \/ PageRead(t) \/ AddPage(t)
    <3>1. UNCHANGED q
      BY <2>4 DEF CheckHost, DnsFails, DnsAnswers, CheckIp, RobotsFail, RobotsPass,
                  AddRobots, PageFails, PageRead, AddPage, queueVars
    <3>2. \E place \in Crawls \cup {"top"} : GoTo(t, place)
      BY <2>4 DEF CheckHost, DnsFails, DnsAnswers, CheckIp, RobotsFail, RobotsPass,
                  AddRobots, PageFails, PageRead, AddPage, Crawls
    <3>3. \A u \in Threads : pc'[u] \in {"leave", "done"} => pc'[u] = pc[u]
      BY <3>2 DEF GoTo, TypeOK, Crawls
    <3> QED BY <3>1, <3>3
  <2> QED BY <1>2, <2>1, <2>2, <2>3, <2>4 DEF Crawl
<1> QED BY <1>1, <1>2 DEF Next

(* The end: main raises the event after the join, and the printer leaves   *)
(* its loop at an event that found it ready.                                *)
LEMMA EndStep == ASSUME CrawlerInv, [Next]_vars PROVE EventInv' /\ FinalPrintIsLast'
<1> USE DEF CrawlerInv, EventInv, FinalPrintIsLast
<1>1. CASE Main
  <2>1. CASE Join
    <3>1. \A t \in Threads : pc[t] = "done" BY <2>1 DEF Join
    <3>2. 1 \in Threads BY CrawlerAssumption DEF CrawlerAssumption, Threads
    <3>3. q = <<>> BY <3>1, <3>2 DEF QueueInv
    <3> QED BY <2>1, <3>1, <3>3 DEF Join, crawlerVars, queueVars, printVars
  <2>2. CASE RaiseEvent BY <2>2 DEF RaiseEvent, crawlerVars, queueVars, TypeOK
  <2>3. CASE FinalPrint BY <2>3 DEF FinalPrint, crawlerVars, queueVars, printVars
  <2>4. CASE Create BY <2>4 DEF Create, printVars
  <2>5. CASE CountLoad \/ CountStore BY <2>5 DEF CountLoad, CountStore, printVars
  <2> QED BY <1>1, <2>1, <2>2, <2>3, <2>4, <2>5 DEF Main
<1>2. CASE Printer
  <2>1. UNCHANGED <<mpc, pc, q, caught>>
    BY <1>2 DEF Printer, PrinterWakes, PrinterResets, mainVars, crawlerVars, queueVars
  <2>2. CASE PrinterWakes BY <2>1, <2>2 DEF PrinterWakes, Prints
  <2>3. CASE PrinterResets BY <2>1, <2>3 DEF PrinterResets
  <2> QED BY <1>2, <2>2, <2>3 DEF Printer
<1>3. ASSUME NEW t \in Threads, Crawl(t) PROVE EventInv' /\ FinalPrintIsLast'
  <2>1. UNCHANGED <<mpc, spc, event, caught, printMe>> /\ pc[t] # "done"
    BY <1>3 DEF Crawl, Load, Leave, Pop, CheckHost, DnsFails, DnsAnswers, CheckIp, RobotsFail,
                RobotsPass, AddRobots, PageFails, PageRead, AddPage, mainVars, printVars
  <2> QED BY <2>1
<1>4. CASE UNCHANGED vars BY <1>4 DEF vars, mainVars, crawlerVars, queueVars, printVars
<1> QED BY <1>1, <1>2, <1>3, <1>4 DEF Next

-----------------------------------------------------------------------------
(* The properties. *)

(* CrawlerInv holds in every reachable state. *)
THEOREM Invariance == Spec => []CrawlerInv
<1>1. CrawlerInv /\ [Next]_vars => CrawlerInv'
  BY TypeStep, UrlStep, VisitStep, CountStep, QueueStep, EndStep DEF CrawlerInv
<1> QED BY InitInv, <1>1, PTL DEF Spec

(* Type correctness: no statistic ever falls below zero. *)
THEOREM TypeCorrect == Spec => []TypeOK
<1>1. CrawlerInv => TypeOK BY DEF CrawlerInv
<1> QED BY Invariance, <1>1, PTL

(* Whatever DNS answers and however the threads interleave, each address is *)
(* asked for robots.txt at most once.                                       *)
THEOREM VisitedOnce == Spec => []EachIpOnce
<1>1. CrawlerInv => EachIpOnce BY DEF CrawlerInv
<1> QED BY Invariance, <1>1, PTL

(* The statistics of hosts, lookups and addresses agree with the sets and   *)
(* with one another in every state, although each has its own lock.         *)
THEOREM StatsCorrect == Spec => []StatsAgree
<1>1. CrawlerInv => StatsAgree
  <2> SUFFICES ASSUME CrawlerInv PROVE StatsAgree OBVIOUS
  <2>1. \A p : Num(p) \in Nat BY Finite
  <2>2. /\ numberUniqueHost \in Nat /\ numberDnsLookup \in Nat /\ numberIpUnique \in Nat
        /\ numberExtractedURL \in Nat
    BY DEF CrawlerInv, TypeOK
  <2>3. CountInv BY DEF CrawlerInv
  <2> QED BY <2>1, <2>2, <2>3 DEF CountInv, StatsAgree
<1> QED BY Invariance, <1>1, PTL

(* Everything is drained and joined before main raises the event, and the   *)
(* printing thread ends only at an event that found it ready.               *)
THEOREM PrintsLast == Spec => []FinalPrintIsLast
<1>1. CrawlerInv => FinalPrintIsLast BY DEF CrawlerInv
<1> QED BY Invariance, <1>1, PTL

(* Lost updates of numberThread end with the creation of threads. *)
THEOREM DriftStays == Spec => DriftSettles
<1>1. ASSUME CrawlerInv, [Next]_vars, Settled PROVE Settled' /\ Drift' = Drift
  <2> USE DEF CrawlerInv
  <2>1. Drift = numberThread - (created - Num("done")) BY DEF Drift, Num, At
  <2>2. Drift' = numberThread' - (created' - Num("done")') BY DEF Drift, Num, At
  <2>3. ASSUME UNCHANGED <<numberThread, created, pc, reg>>,
               mpc' \in {"join", "raise", "await", "ended"}
        PROVE  Settled' /\ Drift' = Drift
    BY <1>1, <2>3 DEF Settled, Drift
  <2>4. CASE Main
    <3>1. Join \/ RaiseEvent \/ FinalPrint
      BY <1>1, <2>4 DEF Main, Create, CountLoad, CountStore, Settled
    <3> QED BY <2>3, <3>1 DEF Join, RaiseEvent, FinalPrint, crawlerVars
  <2>5. CASE Printer \/ UNCHANGED vars
    BY <1>1, <2>3, <2>5 DEF Printer, PrinterWakes, PrinterResets, Settled, vars, mainVars,
                            crawlerVars
  <2>6. ASSUME NEW t \in Threads, Crawl(t) PROVE Settled' /\ Drift' = Drift
    <3>1. UNCHANGED <<mpc, created>>
      BY <2>6 DEF Crawl, Load, Leave, Pop, CheckHost, DnsFails, DnsAnswers, CheckIp,
                  RobotsFail, RobotsPass, AddRobots, PageFails, PageRead, AddPage, mainVars
    <3>2. /\ numberThread \in Int /\ created \in Int /\ Num("done") \in Nat
          /\ pc \in [Threads -> Places] /\ reg \in [Threads -> Int]
      BY <1>1, Finite DEF TypeOK, Places
    <3>3. CASE Leave(t)
      <4>1. /\ numberThread' = numberThread - 1 /\ pc[t] = "leave" /\ GoTo(t, "done")
        BY <1>1, <3>3 DEF Leave, Settled
      <4>2. Num("done")' = Num("done") + 1 BY <1>1, <4>1, GoToCounts
      <4>3. \A u \in Threads : pc'[u] # "leave"
        BY <1>1, <3>2, <4>1 DEF GoTo, QueueInv
      <4> QED BY <1>1, <2>1, <2>2, <3>1, <3>2, <4>1, <4>2, <4>3 DEF Settled
    <3>4. CASE ~Leave(t)
      <4>1. /\ UNCHANGED numberThread
            /\ \E place \in Places \ {"done"} : pc[t] # "done" /\ GoTo(t, place)
        BY <2>6, <3>4 DEF Crawl, Load, Pop, CheckHost, DnsFails, DnsAnswers, CheckIp,
              RobotsFail, RobotsPass, AddRobots, PageFails, PageRead, AddPage, Places, Crawls
      <4>2. At("done")' = At("done") BY <3>2, <4>1 DEF At, GoTo
      <4>3. ASSUME NEW u \in Threads, pc'[u] = "leave" PROVE reg'[u] = numberThread'
        <5>1. CASE Load(t)
          <6>1. u = t BY <3>2, <4>3, <5>1 DEF Load, QueueFree, GoTo
          <6> QED BY <3>2, <5>1, <6>1 DEF Load
        <5>2. CASE ~Load(t)
          <6>1. UNCHANGED reg /\ pc[u] = "leave"
            BY <2>6, <3>2, <3>4, <4>3, <5>2 DEF Crawl, Pop, CheckHost, DnsFails, DnsAnswers,
               CheckIp, RobotsFail, RobotsPass, AddRobots, PageFails, PageRead, AddPage, GoTo
          <6> QED BY <1>1, <4>1, <6>1 DEF Settled
        <5> QED BY <5>1, <5>2
      <4> QED BY <1>1, <2>1, <2>2, <3>1, <4>1, <4>2, <4>3 DEF Settled, Num
    <3> QED BY <3>3, <3>4
  <2> QED BY <1>1, <2>4, <2>5, <2>6 DEF Next
<1>2. CrawlerInv /\ [Next]_vars => [Settled => Settled' /\ Drift' = Drift]_vars
  BY <1>1
<1> QED BY Invariance, <1>2, PTL DEF Spec, DriftSettles

-----------------------------------------------------------------------------
(* The totals of robots passed and pages crawled.                           *)

(* As long as no thread has passed a second robots.txt, each address is     *)
(* counted once at most, and not before its thread has added it.            *)
OnceInv ==
  (\A t \in Threads : passed[t] <= 1) =>
    numberRobotPass + Num("robots") + Num("addRobots") <= numberIpUnique

(* What a thread with its page ahead has added for robots.txt, as a set of  *)
(* pairs so that the sum over the threads is a cardinality.                 *)
Pending  == {t \in Threads : pc[t] \in {"page", "addPage"}}
Pairs(t) == {t} \X (1..passed[t])
Debt     == UNION {Pairs(t) : t \in Pending}

(* Pages crawled lag the robots passed, each thread's own and in total by   *)
(* what the threads have ahead of them.                                     *)
DebtInv ==
  /\ \A t \in Threads : /\ crawled[t] <= passed[t]
                        /\ pc[t] \in {"addRobots", "page"} => crawled[t] < passed[t]
  /\ IsFiniteSet(Debt)
  /\ numberSuccessfullyCrawled + Cardinality(Debt) <= numberRobotPass

(* The pairs of a thread are as many as the robots.txt it has passed.       *)
LEMMA PairsCount ==
  ASSUME TypeOK, NEW t \in Threads
  PROVE  IsFiniteSet(Pairs(t)) /\ Cardinality(Pairs(t)) = passed[t]
<1>1. passed[t] \in Nat BY DEF TypeOK
<1>2. IsFiniteSet(1..passed[t]) /\ Cardinality(1..passed[t]) = passed[t]
  BY <1>1, FS_Interval
<1>3. IsFiniteSet({t}) /\ Cardinality({t}) = 1 BY FS_Singleton
<1>4. /\ IsFiniteSet({t} \X (1..passed[t]))
      /\ Cardinality({t} \X (1..passed[t])) = Cardinality({t}) * Cardinality(1..passed[t])
  BY <1>2, <1>3, FS_Product
<1>5. 1 * passed[t] = passed[t] BY <1>1
<1> QED BY <1>2, <1>3, <1>4, <1>5 DEF Pairs

(* A thread gets a page ahead of it. *)
LEMMA DebtGrows ==
  ASSUME TypeOK, IsFiniteSet(Debt), NEW t \in Threads, t \notin Pending,
         Pending' = Pending \cup {t}, passed' = passed
  PROVE  /\ IsFiniteSet(Debt')
         /\ Cardinality(Debt') = Cardinality(Debt) + passed[t]
<1>1. Debt' = Debt \cup Pairs(t) BY DEF Debt, Pairs
<1>2. Debt \cap Pairs(t) = {} BY DEF Debt, Pairs
<1>3. /\ IsFiniteSet(Debt \cup Pairs(t))
      /\ Cardinality(Debt \cup Pairs(t)) =
           Cardinality(Debt) + Cardinality(Pairs(t)) - Cardinality(Debt \cap Pairs(t))
  BY PairsCount, FS_Union
<1>4. Cardinality(Debt) \in Nat /\ passed[t] \in Nat BY FS_CardinalityType DEF TypeOK
<1>5. Cardinality(Debt \cap Pairs(t)) = 0 BY <1>2, FS_EmptySet
<1>6. Cardinality(Pairs(t)) = passed[t] BY PairsCount
<1> QED BY <1>1, <1>3, <1>4, <1>5, <1>6

(* A thread is done with its page. *)
LEMMA DebtFalls ==
  ASSUME TypeOK, IsFiniteSet(Debt), NEW t \in Pending,
         Pending' = Pending \ {t}, passed' = passed
  PROVE  /\ IsFiniteSet(Debt')
         /\ Cardinality(Debt') = Cardinality(Debt) - passed[t]
<1>0. t \in Threads BY DEF Pending
<1>1. Debt' = Debt \ Pairs(t)
  <2>1. Debt' = UNION {Pairs(u) : u \in Pending \ {t}} BY DEF Debt, Pairs
  <2>2. \A u \in Pending \ {t} : Pairs(u) \cap Pairs(t) = {} BY DEF Pairs
  <2> QED BY <2>1, <2>2 DEF Debt
<1>2. Debt \cap Pairs(t) = Pairs(t) BY DEF Debt
<1>3. /\ IsFiniteSet(Debt \ Pairs(t))
      /\ Cardinality(Debt \ Pairs(t)) = Cardinality(Debt) - Cardinality(Debt \cap Pairs(t))
  BY FS_Difference
<1> QED BY <1>0, <1>1, <1>2, <1>3, PairsCount

(* Threads go on without the pages ahead of them being touched. *)
LEMMA DebtStays ==
  ASSUME IsFiniteSet(Debt), Pending' \subseteq Pending,
         \A t \in Pending : passed'[t] = passed[t]
  PROVE  IsFiniteSet(Debt') /\ Cardinality(Debt') <= Cardinality(Debt)
<1>1. Debt' \subseteq Debt BY DEF Debt, Pairs
<1> QED BY <1>1, FS_Subset

(* A step outside the crawlers: no thread gets further. *)
LEMMA OutsideStep ==
  ASSUME TypeOK, UrlInv, Main \/ Printer \/ UNCHANGED vars
  PROVE  /\ UNCHANGED <<totals, numberIpUnique, passed, crawled, pages>>
         /\ \A t \in Threads : pc'[t] = pc[t] \/ pc'[t] = "top"
         /\ \A p : p # "top" => Num(p)' <= Num(p)
<1>1. CASE ~Create
  <2>1. UNCHANGED <<totals, numberIpUnique, passed, crawled, pages, pc>>
    BY <1>1 DEF Main, CountLoad, CountStore, Join, RaiseEvent, FinalPrint, Printer,
                PrinterWakes, PrinterResets, vars, crawlerVars, localVars, seenVars
  <2>2. \A p : Num(p)' = Num(p) BY <2>1 DEF Num, At
  <2> QED BY <2>1, <2>2, Finite
<1>2. CASE Create
  <2>1. /\ UNCHANGED <<totals, numberIpUnique, passed, crawled, pages>>
        /\ created + 1 \in Threads /\ GoTo(created + 1, "top")
    BY <1>2, CrawlerAssumption
    DEF Create, GoTo, localVars, seenVars, UrlInv, TypeOK, Threads, CrawlerAssumption
  <2>2. \A t \in Threads : pc'[t] = pc[t] \/ pc'[t] = "top" BY <2>1 DEF GoTo, TypeOK
  <2>3. CASE pc[created + 1] = "top"
    <3>1. pc' = pc BY <2>1, <2>3 DEF GoTo, TypeOK
    <3>2. \A p : Num(p)' = Num(p) BY <3>1 DEF Num, At
    <3> QED BY <2>1, <2>2, <3>2, Finite
  <2>4. CASE pc[created + 1] # "top"
    <3>1. \A p : p # "top" => Num(p)' <= Num(p) BY <2>1, <2>4, Finite, GoToCounts
    <3> QED BY <2>1, <2>2, <3>1
  <2> QED BY <2>3, <2>4
<1> QED BY <1>1, <1>2

LEMMA OnceStep == ASSUME CrawlerInv, OnceInv, [Next]_vars PROVE OnceInv'
<1> DEFINE Ahead == Num("robots") + Num("addRobots")
<1> USE DEF CrawlerInv
<1>1. /\ Num("robots") \in Nat /\ Num("addRobots") \in Nat
      /\ numberRobotPass \in Nat /\ numberIpUnique \in Nat
      /\ passed \in [Threads -> Nat] /\ pc \in [Threads -> Places]
  BY Finite DEF TypeOK, Places
<1>2. ASSUME numberIpUnique' - numberIpUnique
               >= numberRobotPass' - numberRobotPass + (Ahead' - Ahead),
             numberIpUnique' \in Nat, numberRobotPass' \in Nat,
             Num("robots")' \in Nat, Num("addRobots")' \in Nat,
             \A t \in Threads : passed'[t] >= passed[t] /\ passed'[t] \in Nat
      PROVE  OnceInv'
  BY <1>1, <1>2 DEF OnceInv
<1>3. /\ Num("robots")' \in Nat /\ Num("addRobots")' \in Nat
      /\ numberRobotPass' \in Nat /\ numberIpUnique' \in Nat
      /\ \A t \in Threads : passed'[t] \in Nat
  <2>1. TypeOK' BY TypeStep
  <2>2. \A p : IsFiniteSet(At(p)')
    <3> TAKE p
    <3>1. At(p)' \in SUBSET Threads BY DEF At
    <3> QED BY <3>1, Finite, FS_Subset
  <2> QED BY <2>1, <2>2, FS_CardinalityType DEF Num, TypeOK
<1>4. CASE Main \/ Printer \/ UNCHANGED vars
  <2>1. /\ UNCHANGED <<totals, numberIpUnique, passed>>
        /\ Num("robots")' <= Num("robots") /\ Num("addRobots")' <= Num("addRobots")
    BY <1>4, OutsideStep
  <2> QED BY <2>1, <1>1, <1>2, <1>3 DEF totals
<1>5. ASSUME NEW t \in Threads, Crawl(t) PROVE OnceInv'
  <2>1. ASSUME NEW place \in Places, GoTo(t, place), place \notin {"robots", "addRobots"},
               pc[t] \notin {"robots", "addRobots"}
        PROVE  UNCHANGED <<Num("robots"), Num("addRobots")>>
    <3>1. At("robots")' = At("robots") /\ At("addRobots")' = At("addRobots")
      BY <2>1, <1>1 DEF At, GoTo
    <3> QED BY <3>1 DEF Num
  <2>2. CASE \/ Load(t) \/ Leave(t) \/ Pop(t) \/ CheckHost(t) \/ DnsFails(t) \/ DnsAnswers(t)
             \/ PageFails(t) \/ PageRead(t) \/ AddPage(t)
    <3>1. UNCHANGED <<numberRobotPass, numberIpUnique, passed>>
      BY <2>2 DEF Load, Leave, Pop, CheckHost, DnsFails, DnsAnswers, PageFails, PageRead,
                  AddPage, seenVars, totals, localVars
    <3>2. \E place \in Places : /\ GoTo(t, place) /\ place \notin {"robots", "addRobots"}
                                /\ pc[t] \notin {"robots", "addRobots"}
      BY <2>2 DEF Load, Leave, Pop, CheckHost, DnsFails, DnsAnswers, PageFails, PageRead,
                  AddPage, Places, Crawls
    <3>3. UNCHANGED <<Num("robots"), Num("addRobots")>> BY <3>2, <2>1
    <3> QED BY <3>1, <3>3, <1>1, <1>2, <1>3
  <2>3. CASE CheckIp(t)
    <3>1. UNCHANGED <<numberRobotPass, passed>> /\ pc[t] = "ip"
      BY <2>3 DEF CheckIp, totals, localVars
    <3>2. CASE IpIsNew(t)
      <4>1. GoTo(t, "robots") /\ numberIpUnique' = numberIpUnique + 1 BY <2>3, <3>2 DEF CheckIp
      <4>2. Num("robots")' = Num("robots") + 1 /\ Num("addRobots")' = Num("addRobots")
        BY <3>1, <4>1, GoToCounts
      <4> QED BY <3>1, <4>1, <4>2, <1>1, <1>2, <1>3
    <3>3. CASE ~IpIsNew(t)
      <4>1. GoTo(t, "top") /\ UNCHANGED numberIpUnique BY <2>3, <3>3 DEF CheckIp
      <4>2. UNCHANGED <<Num("robots"), Num("addRobots")>> BY <3>1, <4>1, <2>1 DEF Places
      <4> QED BY <3>1, <4>1, <4>2, <1>1, <1>2, <1>3
    <3> QED BY <3>2, <3>3
  <2>4. CASE RobotsFail(t)
    <3>1. /\ UNCHANGED <<numberRobotPass, numberIpUnique, passed>>
          /\ pc[t] = "robots" /\ GoTo(t, "top")
      BY <2>4 DEF RobotsFail, seenVars, totals, localVars
    <3>2. Num("robots")' = Num("robots") - 1 /\ Num("addRobots")' = Num("addRobots")
      BY <3>1, GoToCounts
    <3> QED BY <3>1, <3>2, <1>1, <1>2, <1>3
  <2>5. CASE RobotsPass(t)
    <3>1. /\ UNCHANGED <<numberRobotPass, numberIpUnique>>
          /\ pc[t] = "robots" /\ GoTo(t, "addRobots")
          /\ passed' = [passed EXCEPT ![t] = @ + 1]
      BY <2>5 DEF RobotsPass, seenVars, totals
    <3>2. Num("robots")' = Num("robots") - 1 /\ Num("addRobots")' = Num("addRobots") + 1
      BY <3>1, GoToCounts
    <3>3. \A u \in Threads : passed'[u] >= passed[u] BY <3>1, <1>1
    <3> QED BY <3>1, <3>2, <3>3, <1>1, <1>2, <1>3
  <2>6. CASE AddRobots(t)
    <3>1. /\ UNCHANGED <<numberIpUnique, passed>> /\ pc[t] = "addRobots" /\ GoTo(t, "page")
          /\ numberRobotPass' = numberRobotPass + passed[t]
      BY <2>6 DEF AddRobots, seenVars, localVars
    <3>2. Num("robots")' = Num("robots") /\ Num("addRobots")' = Num("addRobots") - 1
      BY <3>1, GoToCounts
    <3>3. CASE passed[t] <= 1
      BY <3>1, <3>2, <3>3, <1>1, <1>2, <1>3
    <3>4. CASE ~(passed[t] <= 1)
      BY <3>1, <3>4 DEF OnceInv
    <3> QED BY <3>3, <3>4
  <2> QED BY <1>5, <2>2, <2>3, <2>4, <2>5, <2>6 DEF Crawl
<1> QED BY <1>4, <1>5 DEF Next

LEMMA DebtStep == ASSUME CrawlerInv, DebtInv, [Next]_vars PROVE DebtInv'
<1> USE DEF CrawlerInv
<1>1. /\ numberRobotPass \in Nat /\ numberSuccessfullyCrawled \in Nat
      /\ passed \in [Threads -> Nat] /\ crawled \in [Threads -> Nat]
      /\ pc \in [Threads -> Places]
  BY DEF TypeOK, Places
<1>2. IsFiniteSet(Debt) /\ Cardinality(Debt) \in Nat BY FS_CardinalityType DEF DebtInv
<1>3. ASSUME IsFiniteSet(Debt') PROVE Cardinality(Debt') \in Nat
  <2>1. \A S : IsFiniteSet(S) => Cardinality(S) \in Nat BY FS_CardinalityType
  <2> QED BY <1>3, <2>1
<1>4. ASSUME UNCHANGED totals, Pending' \subseteq Pending,
             \A t \in Pending : passed'[t] = passed[t],
             \A t \in Threads : /\ crawled'[t] <= passed'[t]
                                /\ pc'[t] \in {"addRobots", "page"} => crawled'[t] < passed'[t]
      PROVE  DebtInv'
  <2>1. IsFiniteSet(Debt') /\ Cardinality(Debt') <= Cardinality(Debt)
    BY <1>2, <1>4, DebtStays
  <2> QED BY <2>1, <1>1, <1>2, <1>3, <1>4 DEF DebtInv, totals
<1>5. CASE Main \/ Printer \/ UNCHANGED vars
  <2>1. /\ UNCHANGED <<totals, passed, crawled>>
        /\ \A t \in Threads : pc'[t] = pc[t] \/ pc'[t] = "top"
    BY <1>5, OutsideStep
  <2>2. Pending' \subseteq Pending BY <2>1 DEF Pending
  <2> QED BY <2>1, <2>2, <1>4 DEF DebtInv
<1>6. ASSUME NEW t \in Threads, Crawl(t) PROVE DebtInv'
  <2>1. CASE \/ Load(t) \/ Leave(t) \/ Pop(t) \/ CheckHost(t) \/ DnsFails(t) \/ DnsAnswers(t)
             \/ CheckIp(t) \/ RobotsFail(t)
    <3>1. /\ UNCHANGED <<totals, passed, crawled>>
          /\ \E place \in Places \ {"addRobots", "page", "addPage"} : GoTo(t, place)
      BY <2>1 DEF Load, Leave, Pop, CheckHost, DnsFails, DnsAnswers, CheckIp, RobotsFail,
                  localVars, Places, Crawls
    <3>2. \A u \in Threads : pc'[u] \in {"addRobots", "page", "addPage"} => pc'[u] = pc[u]
      BY <3>1, <1>1 DEF GoTo
    <3>3. Pending' \subseteq Pending BY <3>2 DEF Pending
    <3> QED BY <3>1, <3>2, <3>3, <1>4 DEF DebtInv
  <2>2. CASE RobotsPass(t)
    <3>1. /\ UNCHANGED <<totals, crawled>> /\ pc[t] = "robots" /\ GoTo(t, "addRobots")
          /\ passed' = [passed EXCEPT ![t] = @ + 1]
      BY <2>2 DEF RobotsPass
    <3>2. /\ \A u \in Threads : u # t => pc'[u] = pc[u] /\ passed'[u] = passed[u]
          /\ passed'[t] = passed[t] + 1 /\ pc'[t] = "addRobots"
      BY <3>1, <1>1 DEF GoTo
    <3>3. Pending' = Pending /\ t \notin Pending BY <3>1, <3>2 DEF Pending
    <3>4. \A u \in Pending : passed'[u] = passed[u] BY <3>2, <3>3 DEF Pending
    <3>5. \A u \in Threads : /\ crawled'[u] <= passed'[u]
                             /\ pc'[u] \in {"addRobots", "page"} => crawled'[u] < passed'[u]
      BY <3>1, <3>2, <1>1 DEF DebtInv
    <3> QED BY <3>1, <3>3, <3>4, <3>5, <1>4
  <2>3. CASE AddRobots(t)
    <3>1. /\ UNCHANGED <<numberSuccessfullyCrawled, passed, crawled>>
          /\ pc[t] = "addRobots" /\ GoTo(t, "page")
          /\ numberRobotPass' = numberRobotPass + passed[t]
      BY <2>3 DEF AddRobots, localVars
    <3>2. \A u \in Threads : pc'[u] = IF u = t THEN "page" ELSE pc[u]
      BY <3>1, <1>1 DEF GoTo
    <3>3. Pending' = Pending \cup {t} /\ t \notin Pending BY <3>1, <3>2 DEF Pending
    <3>4. IsFiniteSet(Debt') /\ Cardinality(Debt') = Cardinality(Debt) + passed[t]
      BY <3>1, <3>3, <1>2, DebtGrows
    <3> QED BY <3>1, <3>2, <3>4, <1>1, <1>2 DEF DebtInv
  <2>4. CASE PageRead(t)
    <3>1. /\ UNCHANGED <<totals, passed>> /\ pc[t] = "page" /\ GoTo(t, "addPage")
          /\ crawled' = [crawled EXCEPT ![t] = @ + 1]
      BY <2>4 DEF PageRead
    <3>2. /\ \A u \in Threads : u # t => pc'[u] = pc[u] /\ crawled'[u] = crawled[u]
          /\ crawled'[t] = crawled[t] + 1 /\ pc'[t] = "addPage"
      BY <3>1, <1>1 DEF GoTo
    <3>3. Pending' \subseteq Pending BY <3>1, <3>2 DEF Pending
    <3>4. crawled[t] < passed[t] BY <3>1 DEF DebtInv
    <3>5. \A u \in Threads : /\ crawled'[u] <= passed'[u]
                             /\ pc'[u] \in {"addRobots", "page"} => crawled'[u] < passed'[u]
      BY <3>1, <3>2, <3>4, <1>1 DEF DebtInv
    <3> QED BY <3>1, <3>3, <3>5, <1>4
  <2>5. CASE PageFails(t) \/ AddPage(t)
    <3>1. /\ UNCHANGED <<numberRobotPass, passed, crawled>> /\ t \in Pending /\ GoTo(t, "top")
          /\ numberSuccessfullyCrawled' \in
               {numberSuccessfullyCrawled, numberSuccessfullyCrawled + crawled[t]}
      BY <2>5 DEF PageFails, AddPage, totals, localVars, Pending
    <3>2. t \in Threads /\ \A u \in Threads : pc'[u] = IF u = t THEN "top" ELSE pc[u]
      BY <3>1, <1>1 DEF GoTo
    <3>3. Pending' = Pending \ {t} BY <3>2 DEF Pending
    <3>4. IsFiniteSet(Debt') /\ Cardinality(Debt') = Cardinality(Debt) - passed[t]
      BY <3>1, <3>3, <1>2, DebtFalls
    <3>5. crawled[t] <= passed[t] /\ crawled[t] \in Nat /\ passed[t] \in Nat
      BY <1>1 DEF DebtInv
    <3>6. numberSuccessfullyCrawled' + Cardinality(Debt') <= numberRobotPass'
      BY <3>1, <3>4, <3>5, <1>1, <1>2 DEF DebtInv
    <3> QED BY <3>1, <3>2, <3>4, <3>6 DEF DebtInv
  <2> QED BY <1>6, <2>1, <2>2, <2>3, <2>4, <2>5 DEF Crawl
<1> QED BY <1>5, <1>6 DEF Next

(* The documents of a thread as pairs, and as often as its thread counts    *)
(* them; those that the threads are about to add.                           *)
Rounds(t) == passed[t] + crawled[t]
Docs(t)   == {t} \X (1..pages[t])
Batch(t)  == ({t} \X (1..Rounds(t))) \X (1..pages[t])
Adding    == {t \in Threads : pc[t] \in {"addRobots", "addPage"}}
ToAdd     == UNION {Docs(t) : t \in Adding}

(* A document is entitled to be counted before it is.                       *)
PagesInv ==
  /\ IsFiniteSet(ToAdd)
  /\ newNumberPagesInBatch + Cardinality(ToAdd) <= Cardinality(Batches)

(* The pairs of a thread are as many as its documents. *)
LEMMA DocsCount ==
  ASSUME NEW t, NEW n \in Nat
  PROVE  IsFiniteSet({t} \X (1..n)) /\ Cardinality({t} \X (1..n)) = n
<1>1. IsFiniteSet(1..n) /\ Cardinality(1..n) = n BY FS_Interval
<1>2. IsFiniteSet({t}) /\ Cardinality({t}) = 1 BY FS_Singleton
<1>3. /\ IsFiniteSet({t} \X (1..n))
      /\ Cardinality({t} \X (1..n)) = Cardinality({t}) * Cardinality(1..n)
  BY <1>1, <1>2, FS_Product
<1> QED BY <1>1, <1>2, <1>3

LEMMA BatchesFinite ==
  ASSUME TypeOK PROVE IsFiniteSet(Batches) /\ Cardinality(Batches) \in Nat
<1>1. ASSUME NEW t \in Threads PROVE IsFiniteSet(Batch(t))
  <2>1. Rounds(t) \in Nat /\ pages[t] \in Nat BY DEF TypeOK, Rounds
  <2>2. IsFiniteSet({t} \X (1..Rounds(t))) BY <2>1, DocsCount
  <2>3. IsFiniteSet(1..pages[t]) BY <2>1, FS_Interval
  <2> QED BY <2>2, <2>3, FS_Product DEF Batch
<1>2. IsFiniteSet({Batch(t) : t \in Threads})
  <2> DEFINE T == {Batch(t) : t \in Threads}
             f == [t \in Threads |-> Batch(t)]
  <2>1. f \in Surjection(Threads, T) BY DEF Surjection
  <2>2. IsFiniteSet(Threads) BY Finite
  <2> QED BY <2>1, <2>2, FS_Surjection
<1>3. Batches = UNION {Batch(t) : t \in Threads} BY DEF Batches, Batch, Rounds
<1>4. IsFiniteSet(Batches) BY <1>1, <1>2, <1>3, FS_UNION
<1> QED BY <1>4, FS_CardinalityType

(* A document read by thread t together with a robots.txt passed or a page  *)
(* crawled: all its documents are entitled to be counted once more.         *)
LEMMA BatchGrows ==
  ASSUME TypeOK, TypeOK', NEW t \in Threads, pages'[t] >= pages[t],
         Rounds(t)' = Rounds(t) + 1,
         \A u \in Threads \ {t} : Rounds(u)' = Rounds(u) /\ pages'[u] = pages[u]
  PROVE  Cardinality(Batches') >= Cardinality(Batches) + pages'[t]
<1>1. PICK k \in Nat, m \in Nat, n \in Nat :
        k = Rounds(t) /\ m = pages[t] /\ n = pages'[t] /\ n >= m
  <2>1. passed[t] \in Nat /\ crawled[t] \in Nat /\ pages[t] \in Nat BY DEF TypeOK
  <2>2. Rounds(t) \in Nat BY <2>1 DEF Rounds
  <2>3. pages'[t] \in Nat BY DEF TypeOK
  <2> QED BY <2>1, <2>2, <2>3
<1> DEFINE New == ({t} \X {k + 1}) \X (1..n)
<1>2. IsFiniteSet(New) /\ Cardinality(New) = n
  <2>1. IsFiniteSet({<<t, k + 1>>}) /\ Cardinality({<<t, k + 1>>}) = 1 BY FS_Singleton
  <2>2. {t} \X {k + 1} = {<<t, k + 1>>} OBVIOUS
  <2>3. IsFiniteSet(1..n) /\ Cardinality(1..n) = n BY FS_Interval
  <2>4. /\ IsFiniteSet({<<t, k + 1>>} \X (1..n))
        /\ Cardinality({<<t, k + 1>>} \X (1..n)) = Cardinality({<<t, k + 1>>}) * Cardinality(1..n)
    BY <2>1, <2>3, FS_Product
  <2>5. 1 * n = n OBVIOUS
  <2> QED BY <2>1, <2>2, <2>3, <2>4, <2>5
<1>3. Batches = UNION {Batch(u) : u \in Threads} /\ Batches' = UNION {Batch(u)' : u \in Threads}
  BY DEF Batches, Batch, Rounds
<1>4. Batch(t) = ({t} \X (1..k)) \X (1..m) /\ Batch(t)' = ({t} \X (1..(k + 1))) \X (1..n)
  BY <1>1 DEF Batch
<1>5. Batches \cup New \subseteq Batches'
  <2>1. 1..k \subseteq 1..(k + 1) /\ k + 1 \in 1..(k + 1) /\ 1..m \subseteq 1..n BY <1>1
  <2>2. Batch(t) \subseteq Batch(t)' /\ New \subseteq Batch(t)' BY <1>4, <2>1
  <2>3. \A u \in Threads \ {t} : Batch(u)' = Batch(u) BY DEF Batch
  <2>4. \A u \in Threads : Batch(u) \subseteq Batch(u)' BY <2>2, <2>3
  <2> HIDE DEF New
  <2> QED BY <1>3, <2>2, <2>4
<1>6. Batches \cap New = {}
  <2>1. k + 1 \notin 1..k OBVIOUS
  <2>2. \A u \in Threads : Batch(u) \cap New = {}
    <3>1. Batch(t) \cap New = {} BY <1>4, <2>1
    <3>2. ASSUME NEW u \in Threads \ {t} PROVE Batch(u) \cap New = {} BY <3>2 DEF Batch
    <3> QED BY <3>1, <3>2
  <2> HIDE DEF New
  <2> QED BY <1>3, <2>2
<1> HIDE DEF New
<1>7. IsFiniteSet(Batches) /\ Cardinality(Batches) \in Nat BY BatchesFinite
<1>8. (TypeOK => IsFiniteSet(Batches) /\ Cardinality(Batches) \in Nat)' BY BatchesFinite, PTL
<1>9. Cardinality(Batches \cup New) = Cardinality(Batches) + n
  <2>1. Cardinality(Batches \cup New) =
          Cardinality(Batches) + Cardinality(New) - Cardinality(Batches \cap New)
    BY <1>2, <1>7, FS_Union
  <2>2. Cardinality(Batches \cap New) = 0 BY <1>6, FS_EmptySet
  <2> QED BY <1>2, <1>7, <2>1, <2>2
<1>10. Cardinality(Batches \cup New) <= Cardinality(Batches') BY <1>5, <1>8, FS_Subset
<1> QED BY <1>1, <1>7, <1>8, <1>9, <1>10

(* No other step takes an entitlement away. *)
LEMMA BatchStays ==
  ASSUME TypeOK, TypeOK',
         \A u \in Threads : Rounds(u)' = Rounds(u) /\ pages'[u] >= pages[u]
  PROVE  Cardinality(Batches') >= Cardinality(Batches)
<1>1. Batches = UNION {Batch(u) : u \in Threads} /\ Batches' = UNION {Batch(u)' : u \in Threads}
  BY DEF Batches, Batch, Rounds
<1>2. ASSUME NEW u \in Threads PROVE Batch(u) \subseteq Batch(u)'
  <2>1. pages[u] \in Nat /\ pages'[u] \in Nat BY DEF TypeOK
  <2>2. 1..pages[u] \subseteq 1..pages'[u] BY <2>1
  <2> QED BY <2>2 DEF Batch
<1>3. Batches \subseteq Batches' BY <1>1, <1>2
<1>4. (TypeOK => IsFiniteSet(Batches) /\ Cardinality(Batches) \in Nat)' BY BatchesFinite, PTL
<1>5. Cardinality(Batches) <= Cardinality(Batches') BY <1>3, <1>4, FS_Subset
<1> QED BY <1>4, <1>5, BatchesFinite

(* A thread comes to the place where it adds its documents, or leaves it. *)
LEMMA ToAddGrows ==
  ASSUME TypeOK, TypeOK', IsFiniteSet(ToAdd), NEW t \in Threads, t \notin Adding,
         Adding' = Adding \cup {t}, \A u \in Threads \ {t} : pages'[u] = pages[u]
  PROVE  /\ IsFiniteSet(ToAdd')
         /\ Cardinality(ToAdd') = Cardinality(ToAdd) + pages'[t]
<1>1. ToAdd' = ToAdd \cup Docs(t)'
  <2>1. ToAdd' = UNION {Docs(u)' : u \in Adding \cup {t}} BY DEF ToAdd, Docs
  <2>2. \A u \in Adding : Docs(u)' = Docs(u) BY DEF Docs, Adding
  <2>3. ASSUME NEW x PROVE x \in ToAdd' <=> x \in ToAdd \cup Docs(t)'
    <3>1. x \in ToAdd' <=> \E u \in Adding \cup {t} : x \in Docs(u)' BY <2>1
    <3>2. x \in ToAdd <=> \E u \in Adding : x \in Docs(u)' BY <2>2 DEF ToAdd
    <3> QED BY <3>1, <3>2
  <2> QED BY <2>3
<1>2. ToAdd \cap Docs(t)' = {}
  <2>1. \A u \in Adding : Docs(u) \cap Docs(t)' = {} BY DEF Docs
  <2> QED BY <2>1 DEF ToAdd
<1>3. PICK n \in Nat : n = pages'[t] BY DEF TypeOK
<1>4. IsFiniteSet(Docs(t)') /\ Cardinality(Docs(t)') = n BY <1>3, DocsCount DEF Docs
<1>5. /\ IsFiniteSet(ToAdd \cup Docs(t)')
      /\ Cardinality(ToAdd \cup Docs(t)') =
           Cardinality(ToAdd) + Cardinality(Docs(t)') - Cardinality(ToAdd \cap Docs(t)')
  BY <1>4, FS_Union
<1>6. Cardinality(ToAdd) \in Nat BY FS_CardinalityType
<1>7. Cardinality(ToAdd \cap Docs(t)') = 0 BY <1>2, FS_EmptySet
<1> QED BY <1>1, <1>3, <1>4, <1>5, <1>6, <1>7

LEMMA ToAddFalls ==
  ASSUME TypeOK, IsFiniteSet(ToAdd), NEW t \in Adding,
         Adding' = Adding \ {t}, pages' = pages
  PROVE  /\ IsFiniteSet(ToAdd')
         /\ Cardinality(ToAdd') = Cardinality(ToAdd) - pages[t]
<1>1. ToAdd' = ToAdd \ Docs(t)
  <2>1. ToAdd' = UNION {Docs(u) : u \in Adding \ {t}} BY DEF ToAdd, Docs
  <2>2. \A u \in Adding \ {t} : Docs(u) \cap Docs(t) = {} BY DEF Docs
  <2> QED BY <2>1, <2>2 DEF ToAdd
<1>2. ToAdd \cap Docs(t) = Docs(t) BY DEF ToAdd
<1>3. /\ IsFiniteSet(ToAdd \ Docs(t))
      /\ Cardinality(ToAdd \ Docs(t)) = Cardinality(ToAdd) - Cardinality(ToAdd \cap Docs(t))
  BY FS_Difference
<1>4. pages[t] \in Nat BY DEF TypeOK, Adding
<1>5. Cardinality(Docs(t)) = pages[t] BY <1>4, DocsCount DEF Docs
<1> QED BY <1>1, <1>2, <1>3, <1>5

LEMMA PagesStep == ASSUME CrawlerInv, PagesInv, [Next]_vars PROVE PagesInv'
<1>0. TypeOK /\ TypeOK' BY TypeStep DEF CrawlerInv
<1>1. /\ newNumberPagesInBatch \in Nat /\ newNumberPagesInBatch' \in Nat
      /\ passed \in [Threads -> Nat] /\ crawled \in [Threads -> Nat]
      /\ pages \in [Threads -> Nat] /\ pc \in [Threads -> Places]
      /\ \A u \in Threads : pages'[u] \in Nat
  BY <1>0 DEF TypeOK, Places
<1>2. /\ IsFiniteSet(ToAdd) /\ Cardinality(ToAdd) \in Nat
      /\ Cardinality(Batches) \in Nat
      /\ newNumberPagesInBatch + Cardinality(ToAdd) <= Cardinality(Batches)
  BY <1>0, FS_CardinalityType, BatchesFinite DEF PagesInv
<1>3. Cardinality(Batches') \in Nat
  <2>1. (TypeOK => Cardinality(Batches) \in Nat)' BY BatchesFinite, PTL
  <2> QED BY <1>0, <2>1
<1>4. ASSUME UNCHANGED newNumberPagesInBatch, Adding' \subseteq Adding,
             \A u \in Adding : pages'[u] = pages[u],
             \A u \in Threads : Rounds(u)' = Rounds(u) /\ pages'[u] >= pages[u]
      PROVE  PagesInv'
  <2>1. ToAdd' \subseteq ToAdd BY <1>4 DEF ToAdd, Docs
  <2>2. IsFiniteSet(ToAdd') /\ Cardinality(ToAdd') <= Cardinality(ToAdd)
    BY <1>2, <2>1, FS_Subset
  <2>3. \A S : IsFiniteSet(S) => Cardinality(S) \in Nat BY FS_CardinalityType
  <2>4. Cardinality(ToAdd') \in Nat BY <2>2, <2>3
  <2>5. Cardinality(Batches') >= Cardinality(Batches) BY <1>0, <1>4, BatchStays
  <2> QED BY <1>1, <1>2, <1>3, <1>4, <2>2, <2>4, <2>5 DEF PagesInv
<1>5. CASE Main \/ Printer \/ UNCHANGED vars
  <2>1. /\ UNCHANGED <<totals, passed, crawled, pages>>
        /\ \A t \in Threads : pc'[t] = pc[t] \/ pc'[t] = "top"
    BY <1>0, <1>5, OutsideStep DEF CrawlerInv
  <2>2. Adding' \subseteq Adding BY <2>1 DEF Adding
  <2> QED BY <1>1, <1>4, <2>1, <2>2 DEF Rounds, totals
<1>6. ASSUME NEW t \in Threads, Crawl(t) PROVE PagesInv'
  <2>1. CASE \/ Load(t) \/ Leave(t) \/ Pop(t) \/ CheckHost(t) \/ DnsFails(t) \/ DnsAnswers(t)
             \/ CheckIp(t) \/ PageFails(t)
    <3>1. /\ UNCHANGED <<totals, passed, crawled, pages>>
          /\ \E place \in Places \ {"addRobots", "addPage"} : GoTo(t, place)
      BY <2>1 DEF Load, Leave, Pop, CheckHost, DnsFails, DnsAnswers, CheckIp, PageFails,
                  localVars, Places, Crawls
    <3>2. \A u \in Threads : pc'[u] \in {"addRobots", "addPage"} => pc'[u] = pc[u]
      BY <3>1, <1>1 DEF GoTo
    <3>3. Adding' \subseteq Adding BY <3>2 DEF Adding
    <3> QED BY <1>1, <1>4, <3>1, <3>3 DEF Rounds, totals
  <2>2. CASE RobotsFail(t)
    <3>1. /\ UNCHANGED <<totals, passed, crawled>> /\ pc[t] = "robots" /\ GoTo(t, "top")
          /\ pages' = [pages EXCEPT ![t] = @ + 1] \/ pages' = pages
      BY <2>2 DEF RobotsFail, CountsPage
    <3>2. Adding' = Adding /\ t \notin Adding BY <3>1, <1>1 DEF Adding, GoTo
    <3>3. /\ \A u \in Adding : pages'[u] = pages[u]
          /\ \A u \in Threads : pages'[u] >= pages[u]
      BY <3>1, <3>2, <1>1 DEF Adding
    <3> QED BY <1>4, <3>1, <3>2, <3>3 DEF Rounds, totals
  <2>3. CASE RobotsPass(t) \/ PageRead(t)
    <3>1. /\ UNCHANGED totals /\ pc[t] \in {"robots", "page"}
          /\ GoTo(t, "addRobots") \/ GoTo(t, "addPage")
          /\ pages' = [pages EXCEPT ![t] = @ + 1] \/ pages' = pages
          /\ \/ passed' = [passed EXCEPT ![t] = @ + 1] /\ crawled' = crawled
             \/ passed' = passed /\ crawled' = [crawled EXCEPT ![t] = @ + 1]
      BY <2>3 DEF RobotsPass, PageRead, CountsPage
    <3>2. Adding' = Adding \cup {t} /\ t \notin Adding BY <3>1, <1>1 DEF Adding, GoTo
    <3>3. /\ Rounds(t)' = Rounds(t) + 1 /\ pages'[t] >= pages[t]
          /\ \A u \in Threads \ {t} : Rounds(u)' = Rounds(u) /\ pages'[u] = pages[u]
      BY <3>1, <1>1 DEF Rounds
    <3>4. Cardinality(Batches') >= Cardinality(Batches) + pages'[t]
      BY <1>0, <3>3, BatchGrows
    <3>5. IsFiniteSet(ToAdd') /\ Cardinality(ToAdd') = Cardinality(ToAdd) + pages'[t]
      BY <1>0, <1>2, <3>2, <3>3, ToAddGrows
    <3>6. newNumberPagesInBatch' = newNumberPagesInBatch BY <3>1 DEF totals
    <3> QED BY <1>1, <1>2, <1>3, <3>4, <3>5, <3>6 DEF PagesInv
  <2>4. CASE AddRobots(t) \/ AddPage(t)
    <3>1. /\ UNCHANGED <<passed, crawled, pages>> /\ pc[t] \in {"addRobots", "addPage"}
          /\ GoTo(t, "page") \/ GoTo(t, "top")
          /\ newNumberPagesInBatch' = newNumberPagesInBatch + pages[t]
      BY <2>4 DEF AddRobots, AddPage, AddsPages, localVars
    <3>2. Adding' = Adding \ {t} /\ t \in Adding BY <3>1, <1>1 DEF Adding, GoTo
    <3>3. IsFiniteSet(ToAdd') /\ Cardinality(ToAdd') = Cardinality(ToAdd) - pages[t]
      BY <1>0, <1>2, <3>1, <3>2, ToAddFalls
    <3>4. Batches' = Batches BY <3>1 DEF Batches
    <3> QED BY <1>1, <1>2, <3>1, <3>3, <3>4 DEF PagesInv
  <2> QED BY <1>6, <2>1, <2>2, <2>3, <2>4 DEF Crawl
<1> QED BY <1>5, <1>6 DEF Next

(* A thread adds its whole life's counts after every robots.txt passed and  *)
(* after every page.  For any number of threads: robots passed are right    *)
(* until some thread passes its second, pages crawled never exceed them,    *)
(* and each document is counted at most once for each robots.txt passed and *)
(* each page crawled by its thread.                                         *)
THEOREM TotalsBounded == Spec => []TotalsAccount
<1> DEFINE Inv == CrawlerInv /\ OnceInv /\ DebtInv /\ PagesInv
<1>1. Init => Inv
  <2> SUFFICES ASSUME Init PROVE Inv OBVIOUS
  <2>1. CrawlerInv BY InitInv
  <2>2. \A p : p # "none" => Num(p) = 0
    <3> SUFFICES ASSUME NEW p, p # "none" PROVE Num(p) = 0 OBVIOUS
    <3>1. At(p) = {} BY DEF Init, At
    <3> QED BY <3>1, FS_EmptySet DEF Num
  <2>3. OnceInv BY <2>2 DEF Init, OnceInv
  <2>4. Debt = {} BY DEF Init, Debt, Pending
  <2>5. IsFiniteSet(Debt) /\ Cardinality(Debt) = 0 BY <2>4, FS_EmptySet
  <2>6. DebtInv BY <2>5 DEF Init, DebtInv
  <2>7. ToAdd = {} BY DEF Init, ToAdd, Adding
  <2>8. IsFiniteSet(ToAdd) /\ Cardinality(ToAdd) = 0 BY <2>7, FS_EmptySet
  <2>9. Cardinality(Batches) \in Nat BY <2>1, BatchesFinite DEF CrawlerInv
  <2>10. PagesInv BY <2>8, <2>9 DEF Init, PagesInv
  <2> QED BY <2>1, <2>3, <2>6, <2>10
<1>2. Inv /\ [Next]_vars => Inv'
  BY TypeStep, UrlStep, VisitStep, CountStep, QueueStep, EndStep, OnceStep, DebtStep, PagesStep
  DEF CrawlerInv
<1>3. Inv => TotalsAccount
  <2> SUFFICES ASSUME Inv PROVE TotalsAccount OBVIOUS
  <2>1. /\ Num("robots") \in Nat /\ Num("addRobots") \in Nat
        /\ numberRobotPass \in Nat /\ numberIpUnique \in Nat
        /\ numberSuccessfullyCrawled \in Nat /\ newNumberPagesInBatch \in Nat
    BY Finite DEF CrawlerInv, TypeOK
  <2>2. Cardinality(Debt) \in Nat /\ Cardinality(ToAdd) \in Nat
    BY FS_CardinalityType DEF DebtInv, PagesInv
  <2>3. Cardinality(Batches) \in Nat BY BatchesFinite DEF CrawlerInv
  <2>4. newNumberPagesInBatch <= Cardinality(Batches) BY <2>1, <2>2, <2>3 DEF PagesInv
  <2> QED BY <2>1, <2>2, <2>4 DEF OnceInv, DebtInv, TotalsAccount
<1> QED BY <1>1, <1>2, <1>3, PTL DEF Spec
-----------------------------------------------------------------------------
(* Termination. *)

(* main takes at most this many steps more: it creates and counts N threads. *)
StepsOfMain ==
  CASE mpc = "count"  -> 3 * (N - created) + 6
    [] mpc = "store"  -> 3 * (N - created) + 5
    [] mpc = "create" -> 3 * (N - created) + 4
    [] mpc = "join"   -> 3
    [] mpc = "raise"  -> 2
    [] mpc = "await"  -> 1
    [] OTHER          -> 0

(* A crawler at place p has at most this many steps to its end, but for the *)
(* URLs it takes then.                                                      *)
Rank(p) ==
  CASE p = "host"      -> 9
    [] p = "dns"       -> 8
    [] p = "ip"        -> 7
    [] p = "robots"    -> 6
    [] p = "addRobots" -> 5
    [] p = "page"      -> 4
    [] p = "addPage"   -> 3
    [] p = "none"      -> 3
    [] p = "top"       -> 2
    [] p = "leave"     -> 1
    [] OTHER           -> 0

(* What numbers of crawlers at the places come to.                          *)
Weighed(n) == 9 * n["host"] + 8 * n["dns"] + 7 * n["ip"] + 6 * n["robots"] + 5 * n["addRobots"]
                + 4 * n["page"] + 3 * n["addPage"] + 3 * n["none"] + 2 * n["top"] + n["leave"]

Numbers == [p \in Places |-> Num(p)]

(* The numbers n when the crawlers o leave their places for the places i.   *)
Moved(n, i, o) == [p \in Places |-> n[p] + i[p] - o[p]]

(* The crawlers together; a URL costs a crawler seven steps.                *)
StepsOfCrawlers == 8 * Len(q) + Weighed(Numbers)

StepsLeft == StepsOfMain + StepsOfCrawlers

LEMMA KeysArePlaces ==
  /\ "host" \in Places /\ "dns" \in Places /\ "ip" \in Places /\ "robots" \in Places
  /\ "addRobots" \in Places /\ "page" \in Places /\ "addPage" \in Places
  /\ "none" \in Places /\ "top" \in Places /\ "leave" \in Places
BY DEF Places, Crawls

LEMMA WeighedNat ==
  ASSUME NEW n \in [Places -> Nat] PROVE Weighed(n) \in Nat
<1>1. PICK n0 \in Nat, n1 \in Nat, n2 \in Nat, n3 \in Nat, n4 \in Nat,
            n5 \in Nat, n6 \in Nat, n7 \in Nat, n8 \in Nat, n9 \in Nat :
          /\ n["host"] = n0 /\ n["dns"] = n1 /\ n["ip"] = n2 /\ n["robots"] = n3
          /\ n["addRobots"] = n4 /\ n["page"] = n5 /\ n["addPage"] = n6 /\ n["none"] = n7
          /\ n["top"] = n8 /\ n["leave"] = n9
  BY KeysArePlaces
<1>2. Weighed(n) = 9 * n0 + 8 * n1 + 7 * n2 + 6 * n3 + 5 * n4 + 4 * n5 + 3 * n6 + 3 * n7 + 2 * n8 + n9
  BY <1>1 DEF Weighed
<1> QED BY <1>2

LEMMA WeighedSum ==
  ASSUME NEW n \in [Places -> Nat], NEW i \in [Places -> Nat], NEW o \in [Places -> Nat],
         NEW m \in [Places -> Nat], m = Moved(n, i, o)
  PROVE  Weighed(m) = Weighed(n) + Weighed(i) - Weighed(o)
<1>1. PICK n0 \in Nat, n1 \in Nat, n2 \in Nat, n3 \in Nat, n4 \in Nat,
            n5 \in Nat, n6 \in Nat, n7 \in Nat, n8 \in Nat, n9 \in Nat :
          /\ n["host"] = n0 /\ n["dns"] = n1 /\ n["ip"] = n2 /\ n["robots"] = n3
          /\ n["addRobots"] = n4 /\ n["page"] = n5 /\ n["addPage"] = n6 /\ n["none"] = n7
          /\ n["top"] = n8 /\ n["leave"] = n9
  BY KeysArePlaces
<1>2. PICK i0 \in Nat, i1 \in Nat, i2 \in Nat, i3 \in Nat, i4 \in Nat,
            i5 \in Nat, i6 \in Nat, i7 \in Nat, i8 \in Nat, i9 \in Nat :
          /\ i["host"] = i0 /\ i["dns"] = i1 /\ i["ip"] = i2 /\ i["robots"] = i3
          /\ i["addRobots"] = i4 /\ i["page"] = i5 /\ i["addPage"] = i6 /\ i["none"] = i7
          /\ i["top"] = i8 /\ i["leave"] = i9
  BY KeysArePlaces
<1>3. PICK o0 \in Nat, o1 \in Nat, o2 \in Nat, o3 \in Nat, o4 \in Nat,
            o5 \in Nat, o6 \in Nat, o7 \in Nat, o8 \in Nat, o9 \in Nat :
          /\ o["host"] = o0 /\ o["dns"] = o1 /\ o["ip"] = o2 /\ o["robots"] = o3
          /\ o["addRobots"] = o4 /\ o["page"] = o5 /\ o["addPage"] = o6 /\ o["none"] = o7
          /\ o["top"] = o8 /\ o["leave"] = o9
  BY KeysArePlaces
<1>4. PICK m0 \in Nat, m1 \in Nat, m2 \in Nat, m3 \in Nat, m4 \in Nat,
            m5 \in Nat, m6 \in Nat, m7 \in Nat, m8 \in Nat, m9 \in Nat :
          /\ m["host"] = m0 /\ m["dns"] = m1 /\ m["ip"] = m2 /\ m["robots"] = m3
          /\ m["addRobots"] = m4 /\ m["page"] = m5 /\ m["addPage"] = m6 /\ m["none"] = m7
          /\ m["top"] = m8 /\ m["leave"] = m9
  BY KeysArePlaces
<1>5. /\ m0 = n0 + i0 - o0 /\ m1 = n1 + i1 - o1 /\ m2 = n2 + i2 - o2 /\ m3 = n3 + i3 - o3
      /\ m4 = n4 + i4 - o4 /\ m5 = n5 + i5 - o5 /\ m6 = n6 + i6 - o6 /\ m7 = n7 + i7 - o7
      /\ m8 = n8 + i8 - o8 /\ m9 = n9 + i9 - o9
  <2>1. \A p \in Places : m[p] = n[p] + i[p] - o[p] BY DEF Moved
  <2> QED BY <1>1, <1>2, <1>3, <1>4, <2>1, KeysArePlaces
<1>6. Weighed(n) = 9 * n0 + 8 * n1 + 7 * n2 + 6 * n3 + 5 * n4 + 4 * n5 + 3 * n6 + 3 * n7 + 2 * n8 + n9
  BY <1>1 DEF Weighed
<1>7. Weighed(i) = 9 * i0 + 8 * i1 + 7 * i2 + 6 * i3 + 5 * i4 + 4 * i5 + 3 * i6 + 3 * i7 + 2 * i8 + i9
  BY <1>2 DEF Weighed
<1>8. Weighed(o) = 9 * o0 + 8 * o1 + 7 * o2 + 6 * o3 + 5 * o4 + 4 * o5 + 3 * o6 + 3 * o7 + 2 * o8 + o9
  BY <1>3 DEF Weighed
<1>9. Weighed(m) = 9 * m0 + 8 * m1 + 7 * m2 + 6 * m3 + 5 * m4 + 4 * m5 + 3 * m6 + 3 * m7 + 2 * m8 + m9
  BY <1>4 DEF Weighed
<1>10. 9 * m0 + 8 * m1 + 7 * m2 + 6 * m3 + 5 * m4 + 4 * m5 + 3 * m6 + 3 * m7 + 2 * m8 + m9
         = (9 * n0 + 8 * n1 + 7 * n2 + 6 * n3 + 5 * n4 + 4 * n5 + 3 * n6 + 3 * n7 + 2 * n8 + n9)
           + (9 * i0 + 8 * i1 + 7 * i2 + 6 * i3 + 5 * i4 + 4 * i5 + 3 * i6 + 3 * i7 + 2 * i8 + i9)
           - (9 * o0 + 8 * o1 + 7 * o2 + 6 * o3 + 5 * o4 + 4 * o5 + 3 * o6 + 3 * o7 + 2 * o8 + o9)
  BY <1>5
<1> QED BY <1>6, <1>7, <1>8, <1>9, <1>10

LEMMA RankNat == \A p \in Places : Rank(p) \in Nat
BY DEF Rank, Places, Crawls

LEMMA StepsAreNat ==
  TypeOK => /\ StepsOfMain \in Nat /\ StepsOfCrawlers \in Nat
            /\ Len(q) \in Nat /\ Numbers \in [Places -> Nat]
<1> SUFFICES ASSUME TypeOK
             PROVE  /\ StepsOfMain \in Nat /\ StepsOfCrawlers \in Nat
                    /\ Len(q) \in Nat /\ Numbers \in [Places -> Nat]
  OBVIOUS
<1>1. N \in Nat /\ created \in 0..N BY CrawlerAssumption DEF CrawlerAssumption, TypeOK
<1>2. StepsOfMain \in Nat BY <1>1 DEF StepsOfMain
<1>3. Len(q) \in Nat
  <2>1. q \in Seq(Urls) BY DEF TypeOK
  <2> QED BY <2>1
<1>4. Numbers \in [Places -> Nat]
  <2>1. \A p : Num(p) \in Nat BY Finite
  <2> QED BY <2>1 DEF Numbers
<1>5. StepsOfCrawlers \in Nat BY <1>3, <1>4, WeighedNat DEF StepsOfCrawlers
<1> QED BY <1>2, <1>3, <1>4, <1>5

(* When one crawler goes to another place, the crawlers' steps change by    *)
(* the difference of the two places, and with the queue.                    *)
LEMMA CrawlerMoves ==
  ASSUME TypeOK, TypeOK', NEW t \in Threads, NEW place \in Places, place # pc[t], GoTo(t, place)
  PROVE  StepsOfCrawlers' = StepsOfCrawlers + 8 * (Len(q') - Len(q)) + Rank(place) - Rank(pc[t])
<1>1. Len(q) \in Nat /\ Numbers \in [Places -> Nat] BY StepsAreNat
<1>2. (TypeOK => Len(q) \in Nat /\ Numbers \in [Places -> Nat])' BY StepsAreNat, PTL
<1>3. PICK n \in [Places -> Nat] : n = Numbers BY <1>1
<1>4. PICK m \in [Places -> Nat] : m = Numbers' BY <1>2
<1> DEFINE i == [p \in Places |-> IF p = place THEN 1 ELSE 0]
           o == [p \in Places |-> IF p = pc[t] THEN 1 ELSE 0]
<1>5. i \in [Places -> Nat] /\ o \in [Places -> Nat] OBVIOUS
<1>6. ASSUME NEW p \in Places PROVE m[p] = n[p] + i[p] - o[p]
  <2>1. Num(p)' = IF p = place THEN Num(p) + 1 ELSE IF p = pc[t] THEN Num(p) - 1 ELSE Num(p)
    BY GoToCounts
  <2>2. n[p] = Num(p) /\ m[p] = Num(p)' /\ n[p] \in Nat BY <1>3, <1>4 DEF Numbers
  <2>3. /\ i[p] = IF p = place THEN 1 ELSE 0
        /\ o[p] = IF p = pc[t] THEN 1 ELSE 0
    OBVIOUS
  <2> QED BY <2>1, <2>2, <2>3
<1>7. Rank(place) = Weighed(i) BY DEF Rank, Weighed, Places, Crawls
<1>8. pc[t] \in Places BY DEF TypeOK, Places
<1>9. Rank(pc[t]) = Weighed(o) BY <1>8 DEF Rank, Weighed, Places, Crawls
<1> HIDE DEF i, o
<1>10. Weighed(m) = Weighed(n) + Weighed(i) - Weighed(o)
  <2>1. m = Moved(n, i, o) BY <1>4, <1>6 DEF Moved
  <2> QED BY <1>3, <1>4, <1>5, <2>1, WeighedSum
<1>11. PICK wn \in Nat, wi \in Nat, wo \in Nat, wm \in Nat :
          wn = Weighed(n) /\ wi = Weighed(i) /\ wo = Weighed(o) /\ wm = Weighed(m)
  BY <1>5, WeighedNat
<1>12. PICK l0 \in Nat : l0 = Len(q) BY <1>1
<1>13. PICK l1 \in Nat : l1 = Len(q') BY <1>2
<1>14. StepsOfCrawlers = 8 * l0 + wn /\ StepsOfCrawlers' = 8 * l1 + wm
  BY <1>3, <1>4, <1>11, <1>12, <1>13 DEF StepsOfCrawlers
<1>15. wm = wn + wi - wo BY <1>10, <1>11
<1>16. 8 * l1 + wm = 8 * l0 + wn + 8 * (l1 - l0) + wi - wo BY <1>15
<1> QED BY <1>7, <1>9, <1>11, <1>12, <1>13, <1>14, <1>16

LEMMA CrawlFalls ==
  ASSUME TypeOK, TypeOK', NEW t \in Threads, Crawl(t)
  PROVE  StepsOfCrawlers' < StepsOfCrawlers
<1>1. ASSUME NEW from \in Places, NEW to \in Places, Rank(to) < Rank(from),
             pc[t] = from, GoTo(t, to), q' = q
      PROVE  StepsOfCrawlers' < StepsOfCrawlers
  <2>1. PICK k \in Nat, l \in Nat : k = Rank(to) /\ l = Rank(from) BY RankNat
  <2>2. PICK n \in Nat : n = Len(q) BY StepsAreNat
  <2>3. PICK c \in Nat : c = StepsOfCrawlers BY StepsAreNat
  <2>4. StepsOfCrawlers' = StepsOfCrawlers + 8 * (Len(q') - Len(q)) + Rank(to) - Rank(pc[t])
    BY <1>1, <2>1, CrawlerMoves
  <2>5. StepsOfCrawlers' = c + 8 * (n - n) + k - l BY <1>1, <2>1, <2>2, <2>3, <2>4
  <2> QED BY <1>1, <2>1, <2>3, <2>5
<1> USE KeysArePlaces DEF Rank
<1>2. CASE Pop(t)
  <2>1. PICK n \in Nat : n = Len(q) BY StepsAreNat
  <2>2. Len(q') = n - 1
    <3>1. q \in Seq(Urls) /\ q # <<>> /\ q' = Tail(q) BY <1>2 DEF Pop, TypeOK
    <3> QED BY <2>1, <3>1
  <2>3. PICK c \in Nat : c = StepsOfCrawlers BY StepsAreNat
  <2>4. CASE Head(q) = Malformed
    <3>1. pc' = pc BY <1>2, <2>4 DEF Pop, GoTo, TypeOK
    <3>2. Numbers' = Numbers BY <3>1 DEF Numbers, Num, At
    <3>3. PICK w \in Nat : w = Weighed(Numbers) BY StepsAreNat, WeighedNat
    <3>4. Weighed(Numbers)' = w BY <3>2, <3>3
    <3>5. c = 8 * n + w BY <2>1, <2>3, <3>3 DEF StepsOfCrawlers
    <3>6. StepsOfCrawlers' = 8 * (n - 1) + w BY <2>2, <3>4 DEF StepsOfCrawlers
    <3> QED BY <2>3, <3>5, <3>6
  <2>5. CASE Head(q) # Malformed
    <3>1. pc[t] = "top" /\ GoTo(t, "host") BY <1>2, <2>5 DEF Pop
    <3>2. StepsOfCrawlers' = StepsOfCrawlers + 8 * (Len(q') - Len(q)) + Rank("host") - Rank(pc[t])
      BY <3>1, CrawlerMoves
    <3>3. Rank("host") = 9 /\ Rank(pc[t]) = 2 BY <3>1
    <3>4. StepsOfCrawlers' = c + 8 * ((n - 1) - n) + 9 - 2
      BY <2>1, <2>2, <2>3, <3>2, <3>3
    <3> QED BY <2>3, <3>4
  <2> QED BY <2>4, <2>5
<1> USE DEF queueVars
<1>3. CASE Load(t)
  <2>1. pc[t] = "top" /\ GoTo(t, "leave") /\ q' = q BY <1>3 DEF Load
  <2> QED BY <1>1, <2>1
<1>4. CASE Leave(t)
  <2>1. pc[t] = "leave" /\ GoTo(t, "done") /\ q' = q BY <1>4 DEF Leave
  <2>2. "done" \in Places BY DEF Places
  <2> QED BY <1>1, <2>1, <2>2
<1>5. CASE CheckHost(t)
  <2>1. pc[t] = "host" /\ (GoTo(t, "top") \/ GoTo(t, "dns")) /\ q' = q BY <1>5 DEF CheckHost
  <2> QED BY <1>1, <2>1
<1>6. CASE DnsFails(t)
  <2>1. pc[t] = "dns" /\ GoTo(t, "top") /\ q' = q BY <1>6 DEF DnsFails
  <2> QED BY <1>1, <2>1
<1>7. CASE DnsAnswers(t)
  <2>1. pc[t] = "dns" /\ GoTo(t, "ip") /\ q' = q BY <1>7 DEF DnsAnswers
  <2> QED BY <1>1, <2>1
<1>8. CASE CheckIp(t)
  <2>1. pc[t] = "ip" /\ (GoTo(t, "top") \/ GoTo(t, "robots")) /\ q' = q BY <1>8 DEF CheckIp
  <2> QED BY <1>1, <2>1
<1>9. CASE RobotsFail(t)
  <2>1. pc[t] = "robots" /\ GoTo(t, "top") /\ q' = q BY <1>9 DEF RobotsFail
  <2> QED BY <1>1, <2>1
<1>10. CASE RobotsPass(t)
  <2>1. pc[t] = "robots" /\ GoTo(t, "addRobots") /\ q' = q BY <1>10 DEF RobotsPass
  <2> QED BY <1>1, <2>1
<1>11. CASE AddRobots(t)
  <2>1. pc[t] = "addRobots" /\ GoTo(t, "page") /\ q' = q BY <1>11 DEF AddRobots
  <2> QED BY <1>1, <2>1
<1>12. CASE PageFails(t)
  <2>1. pc[t] = "page" /\ GoTo(t, "top") /\ q' = q BY <1>12 DEF PageFails
  <2> QED BY <1>1, <2>1
<1>13. CASE PageRead(t)
  <2>1. pc[t] = "page" /\ GoTo(t, "addPage") /\ q' = q BY <1>13 DEF PageRead
  <2> QED BY <1>1, <2>1
<1>14. CASE AddPage(t)
  <2>1. pc[t] = "addPage" /\ GoTo(t, "top") /\ q' = q BY <1>14 DEF AddPage
  <2> QED BY <1>1, <2>1
<1> QED BY <1>2, <1>3, <1>4, <1>5, <1>6, <1>7, <1>8, <1>9, <1>10, <1>11, <1>12,
           <1>13, <1>14 DEF Crawl

(* A crawler runs once main has created it. *)
BornInv == \A t \in Threads : t > created => pc[t] = "none"

LEMMA BornStep == ASSUME CrawlerInv, BornInv, [Next]_vars PROVE BornInv'
<1> USE DEF CrawlerInv, TypeOK, BornInv
<1>1. CASE Create
  <2>1. created' = created + 1 /\ pc' = [pc EXCEPT ![created + 1] = "top"]
    BY <1>1 DEF Create
  <2>2. created \in Nat BY CrawlerAssumption DEF CrawlerAssumption
  <2>3. SUFFICES ASSUME NEW t \in Threads, t > created' PROVE pc'[t] = "none" OBVIOUS
  <2>4. t \in Nat BY DEF Threads
  <2>5. t > created /\ t # created + 1 BY <2>1, <2>2, <2>3, <2>4
  <2> QED BY <2>1, <2>5
<1>2. ASSUME NEW t \in Threads, Crawl(t) PROVE BornInv'
  <2>1. pc[t] # "none" /\ (\E place : GoTo(t, place)) /\ created' = created
    BY <1>2 DEF Crawl, Load, Leave, Pop, CheckHost, DnsFails, DnsAnswers, CheckIp,
                RobotsFail, RobotsPass, AddRobots, PageFails, PageRead, AddPage, mainVars
  <2> QED BY <2>1 DEF GoTo
<1>3. CASE UNCHANGED <<pc, created>> BY <1>3
<1>4. CASE Main
  BY <1>1, <1>3, <1>4 DEF Main, CountLoad, CountStore, Join, RaiseEvent, FinalPrint, crawlerVars
<1>5. CASE Printer
  BY <1>3, <1>5 DEF Printer, PrinterWakes, PrinterResets, mainVars, crawlerVars
<1>6. CASE UNCHANGED vars BY <1>3, <1>6 DEF vars, mainVars, crawlerVars
<1> QED BY <1>2, <1>4, <1>5, <1>6 DEF Next

LEMMA CrawlersStay ==
  ASSUME UNCHANGED <<pc, q>> PROVE StepsOfCrawlers' = StepsOfCrawlers
<1>1. Numbers' = Numbers BY DEF Numbers, Num, At
<1>2. Weighed(Numbers)' = Weighed(Numbers) BY <1>1
<1> QED BY <1>2 DEF StepsOfCrawlers

LEMMA MainFalls ==
  ASSUME CrawlerInv, BornInv, TypeOK', Main PROVE StepsLeft' < StepsLeft
<1>1. TypeOK BY DEF CrawlerInv
<1>2. PICK a \in Nat, b \in Nat : a = StepsOfMain /\ b = StepsOfCrawlers BY <1>1, StepsAreNat
<1>3. StepsLeft = a + b BY <1>2 DEF StepsLeft
<1>4. (TypeOK => StepsOfMain \in Nat /\ StepsOfCrawlers \in Nat)' BY StepsAreNat, PTL
<1>5. PICK c \in Nat, d \in Nat : c = StepsOfMain' /\ d = StepsOfCrawlers' BY <1>4
<1>6. StepsLeft' = c + d BY <1>5 DEF StepsLeft
<1>7. PICK n \in Nat, k \in Nat : n = N /\ k = created /\ k <= n
  BY <1>1, CrawlerAssumption DEF CrawlerAssumption, TypeOK
<1>8. c < a
  <2>1. CASE Create
    <3>1. k < n BY <1>7, <2>1 DEF CrawlerInv, UrlInv, Create
    <3>2. a = 3 * (n - k) + 4 BY <1>2, <1>7, <2>1 DEF StepsOfMain, Create
    <3>3. c = 3 * (n - (k + 1)) + 6 BY <1>5, <1>7, <2>1 DEF StepsOfMain, Create
    <3> QED BY <1>7, <3>1, <3>2, <3>3
  <2>2. CASE CountLoad
    <3>1. a = 3 * (n - k) + 6 BY <1>2, <1>7, <2>2 DEF StepsOfMain, CountLoad
    <3>2. c = 3 * (n - k) + 5 BY <1>5, <1>7, <2>2 DEF StepsOfMain, CountLoad
    <3> QED BY <1>7, <3>1, <3>2
  <2>3. CASE CountStore
    <3>1. a = 3 * (n - k) + 5 BY <1>2, <1>7, <2>3 DEF StepsOfMain, CountStore
    <3>2. c \in {3, 3 * (n - k) + 4} BY <1>5, <1>7, <2>3 DEF StepsOfMain, CountStore
    <3> QED BY <1>7, <3>1, <3>2
  <2>4. CASE Join
    BY <1>2, <1>5, <2>4 DEF StepsOfMain, Join
  <2>5. CASE RaiseEvent
    BY <1>2, <1>5, <2>5 DEF StepsOfMain, RaiseEvent
  <2>6. CASE FinalPrint
    BY <1>2, <1>5, <2>6 DEF StepsOfMain, FinalPrint
  <2> QED BY <2>1, <2>2, <2>3, <2>4, <2>5, <2>6 DEF Main
<1>9. d <= b
  <2>1. CASE Create
    <3>1. created + 1 \in Threads /\ created + 1 > created
      BY <1>7, <2>1 DEF CrawlerInv, UrlInv, Create, Threads
    <3>2. pc[created + 1] = "none" BY <3>1 DEF BornInv
    <3>3. GoTo(created + 1, "top") /\ q' = q BY <2>1 DEF Create, GoTo, queueVars
    <3>4. PICK t \in Threads : t = created + 1 BY <3>1
    <3>5. StepsOfCrawlers' = StepsOfCrawlers + 8 * (Len(q') - Len(q)) + Rank("top") - Rank(pc[t])
      BY <1>1, <3>2, <3>3, <3>4, CrawlerMoves, KeysArePlaces
    <3>6. Rank("top") = 2 /\ Rank(pc[t]) = 3 BY <3>2, <3>4 DEF Rank
    <3>7. PICK l \in Nat : l = Len(q) BY <1>1, StepsAreNat
    <3>8. d = b + 8 * (l - l) + 2 - 3 BY <1>2, <1>5, <3>3, <3>5, <3>6, <3>7
    <3> QED BY <1>2, <3>7, <3>8
  <2>2. CASE UNCHANGED <<pc, q>> BY <1>2, <1>5, <2>2, CrawlersStay
  <2> QED BY <2>1, <2>2 DEF Main, CountLoad, CountStore, Join, RaiseEvent, FinalPrint,
                            crawlerVars, queueVars
<1>10. a \in Nat /\ b \in Nat /\ c \in Nat /\ d \in Nat BY <1>2, <1>5
<1>11. c + d < a + b BY <1>8, <1>9, <1>10
<1> QED BY <1>3, <1>6, <1>11

(* handleThreads and runParsingRobotsSendingStatus: main and the crawlers   *)
(* together take at most StepsLeft steps more, whatever DNS and the servers *)
(* do and however the threads interleave, and the printing thread adds      *)
(* none.  What a crawler does at an empty URL, which stays at the front of  *)
(* the queue, is no step.                                                   *)
THEOREM StepsBounded ==
  Spec => /\ [](StepsLeft \in Nat)
          /\ [][/\ StepsLeft' <= StepsLeft
                /\ Main \/ (\E t \in Threads : Crawl(t)) => StepsLeft' < StepsLeft]_vars
<1>1. Init => BornInv BY DEF Init, BornInv
<1>2. CrawlerInv /\ BornInv /\ CrawlerInv' /\ [Next]_vars => BornInv' BY BornStep
<1>3. CrawlerInv => StepsLeft \in Nat
  <2>1. CrawlerInv => TypeOK BY DEF CrawlerInv
  <2> QED BY <2>1, StepsAreNat DEF StepsLeft
<1>4. ASSUME CrawlerInv, BornInv, CrawlerInv', [Next]_vars
      PROVE  [/\ StepsLeft' <= StepsLeft
              /\ Main \/ (\E t \in Threads : Crawl(t)) => StepsLeft' < StepsLeft]_vars
  <2>1. TypeOK /\ TypeOK' BY <1>4 DEF CrawlerInv
  <2>2. PICK a \in Nat, b \in Nat : a = StepsOfMain /\ b = StepsOfCrawlers
    BY <2>1, StepsAreNat
  <2>3. (TypeOK => StepsOfMain \in Nat /\ StepsOfCrawlers \in Nat)' BY StepsAreNat, PTL
  <2>4. PICK c \in Nat, d \in Nat : c = StepsOfMain' /\ d = StepsOfCrawlers' BY <2>1, <2>3
  <2>5. StepsLeft = a + b /\ StepsLeft' = c + d BY <2>2, <2>4 DEF StepsLeft
  <2>6. ASSUME Main PROVE StepsLeft' < StepsLeft BY <1>4, <2>1, <2>6, MainFalls
  <2>7. ASSUME NEW t \in Threads, Crawl(t) PROVE StepsLeft' < StepsLeft
    <3>1. StepsOfCrawlers' < StepsOfCrawlers BY <2>1, <2>7, CrawlFalls
    <3>2. UNCHANGED <<mpc, created>>
      BY <2>7 DEF Crawl, Load, Leave, Pop, CheckHost, DnsFails, DnsAnswers, CheckIp,
                  RobotsFail, RobotsPass, AddRobots, PageFails, PageRead, AddPage, mainVars
    <3>3. StepsOfMain' = StepsOfMain BY <3>2 DEF StepsOfMain
    <3>4. c = a /\ d < b BY <2>2, <2>4, <3>1, <3>3
    <3>5. a \in Nat /\ b \in Nat /\ c \in Nat /\ d \in Nat BY <2>2, <2>4
    <3>6. c + d < a + b BY <3>4, <3>5
    <3> QED BY <2>5, <3>6
  <2>8. CASE Printer \/ UNCHANGED vars
    <3>1. UNCHANGED <<mpc, created, pc, q>>
      BY <2>8 DEF Printer, PrinterWakes, PrinterResets, vars, mainVars, crawlerVars, queueVars
    <3>2. StepsOfMain' = StepsOfMain BY <3>1 DEF StepsOfMain
    <3>3. StepsOfCrawlers' = StepsOfCrawlers BY <3>1, CrawlersStay
    <3>4. StepsLeft' <= StepsLeft BY <2>2, <2>4, <2>5, <3>2, <3>3
    <3> QED BY <2>6, <2>7, <3>4
  <2>9. CASE Main \/ \E t \in Threads : Crawl(t)
    <3>1. StepsLeft' < StepsLeft BY <2>6, <2>7, <2>9
    <3>2. StepsLeft' <= StepsLeft
      <4>1. a \in Nat /\ b \in Nat /\ c \in Nat /\ d \in Nat BY <2>2, <2>4
      <4>2. c + d < a + b BY <2>5, <3>1
      <4>3. c + d <= a + b BY <4>1, <4>2
      <4> QED BY <2>5, <4>3
    <3> QED BY <3>1, <3>2
  <2> QED BY <1>4, <2>8, <2>9 DEF Next
<1> QED BY <1>1, <1>2, <1>3, <1>4, Invariance, PTL DEF Spec
=============================================================================
