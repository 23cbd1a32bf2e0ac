# Verification of csce-463-Distributed-Networks

TLA+ models, TLC runs and TLAPS proofs for the programs of this repository: Windows
C++ coursework on reliable transport over UDP (hw3), a multi-threaded web crawler (hw1), a DNS
client (hw2) and a parallel traceroute (hw4). The repository has no README and no tests;
every definition here is translated from the source, and PROJECT.json maps each to its lines.

The main subject is the sender of hw3p3, a sliding-window transport protocol run by three
threads. It is modelled, model-checked and proved for every window size, transfer length and
loss pattern. Its predecessor hw3p2 (stop-and-wait) is shown to implement the same abstract
window with one chunk. The other subjects are the threads of the hw1p3 crawler, what one of
them does with its sockets, the probes of the hw4 traceroute, and the DNS client of hw2p3 with
its parser of compressed names.

## 1. Inventory

### hw3p3: sliding-window sender (`src/hw3p3/hw3p3/`)

Three threads in one process, and a receiver that is not part of the repository.

| Part | State | Operations | Talks to |
|---|---|---|---|
| `main` (hw3p3.cpp) | position in the buffer, `closeCalled`, `breakThread` | Open, a loop of Send, join of the worker, shutdown of the stats thread, Close | all others |
| `SenderSocket::Open` | `opened`, the socket, ring, semaphores | SYN, up to 49 rounds of send and select; makes the ring and the threads; releases the first tokens of `empty` | network |
| `SenderSocket::Send` (main's thread) | `sendSequenceNumber`, the slot it fills | takes a token of `empty`, copies header and payload into slot `seq % W`, `full`++ | worker, through `empty`, `full` and the ring |
| `workerThreads` | `nextToSend`, timeouts | waits on { datagram, `full` } with a timeout; sends the next slot, resends the base, or calls ReceiveACK | ring, socket |
| `ReceiveACK` (worker's thread) | `packetsSendBaseStats`, `lastReleased`, `dupAck`, `duplicateAckCheck`, `numRTX`, `bytesTotal`, `estimateRTT` | moves the base, releases tokens of `empty`, counts repetitions and resends on the third | main, through `empty` |
| `runStats` | `printMe` | prints every two seconds until `breakThread`; resets `statusEvent` | main, through `statusEvent` and `breakThread` |
| `Close` | attempts | FIN, up to 50 rounds, closes the socket | network |

Hard: main and the worker share the ring with no lock; the semaphores and
`lastReleased` are three accounts of one quantity; acknowledgments arrive late, repeated and
out of order, with windows that change; a timeout resends what main may be overwriting; main
and the stats thread use one manual-reset event in both directions. Correct when: a slot is
overwritten only after its chunk was acknowledged; no token is lost or minted; nothing passes
the advertised window; the worker ends only when everything was delivered, and does end; main
gets through the shutdown; Close runs on an answered connection and reports what became of it.

### hw3p2: stop-and-wait sender (`src/hw3p2/hw3p2/`)

`main` calls Open, Send for each chunk, and Close; all three loop over sendto and `recvFrom`
(select with a timeout, then recvfrom). State: `st.packetsSendBase`, `dupAck`, `opened`.
`statusThread` prints every two seconds; main stops it with `breakThread` and joins it. Hard:
answers to repeated datagrams arrive in later calls. Correct when: the base follows the
receiver and never passes it, STATUS_OK of Send and Close means what it says, main ends.

### hw3p1: SYN/FIN exchange (`src/hw3p1/hw3p1/`)

The first form of Open and Close: SYN up to three times, FIN up to five, sequential. Its later
form is in Session.

### hw1p3: crawler (`src/hw1p3recheck/hw1p3recheck/`)

`main` reads URLs into a queue and starts N crawler threads and one printing thread. State: the
queue `Q`, the sets of seen hosts and IPs, `numberThread` (active threads), counters of links,
pages, status codes and bytes; the locks `editQueueLink`, `threadQueueLock` and others; an event
that ends `twoSecondPrint`. A crawler pops a URL, checks host and IP for uniqueness, asks for
robots.txt by HEAD and for the page by GET, parses, and adds its counts. Hard: one counter under
two locks; an empty line at the front of the queue; counters that outlive a page and are added
more than once; an event raised by main and reset by the printer. Correct when: each host and IP
is crawled at most once; counts add up; all threads end once the queue is empty.

Each of the two downloads of a URL has a `Socket` of its own (socket.cpp), made by
`resetParser` or `ReconnectHostSend` and deleted on failure: `sock`, `robots`, the buffer with
`allocatedSize` and `curPos`. `Socket::Read` calls select until the server closes the
connection, the ten seconds are used up, or the buffer, doubled when less than a quarter is
free, is at its limit. Hard: a clock in whole seconds; a limit chosen by a flag; failures at
every call; a destructor that closes nothing. Correct when: recv always has room, the time
given is the time taken, handles are accounted for and statuses add up.

### hw1 and hw1p2: single-page crawlers (`src/hw1/hw1/`, `src/hw1p2/hw1p2/`)

Sequential predecessors of the crawler: parse a URL, resolve, download, parse the page.

### hw2p3: DNS client (`src/hw2p3/hw2p3/hw2p3.cpp`)

Builds one query (A or PTR), sends it, waits up to three times ten seconds, checks the
answer's header and walks its questions and resource records, following compression pointers.
State: offsets into a 512-byte buffer, the attempt count, the offsets a name has jumped through.
Hard: truncated answers, pointers beyond the packet or to each other, a position that depends on
the form of every name before it, errors that are returned as strings behind text, a retry that
resends nothing. Correct when: every walk ends, circles are told from long names, a sound answer
is read to its last record, and the attempts end.

### hw4: parallel traceroute (`src/hw4/`)

`reportWork` takes URLs from a queue and traces one host after the other, writing the number
of hops to a file. A trace sends thirty ICMP echo requests with TTL 1 to 30 at once, reads
answers in any order, and sends to silent hops three times in all before it gives them up. One
thread. State: `pd`, an array by TTL (attempts, completion, line to print, times), `countSeq`,
`errorBreak`, and the report's index and `hop_host`. Hard: answers repeated, lost, or left by an
earlier trace; an array indexed by a count of answers and timeouts; an index taken back on
failure. Correct when: hops are given up only after their attempts, indices stay in range,
the file has the rows of the hosts traced, and the report ends.

### Others

`checksum`/`Checksum` (CRC32 for hw3, Internet checksum for hw4): pure algorithms. `cpu`:
sampling for the crawler's statistics. `HTMLParserBase.h`: header of a binary library.
`testingShorts`: scratch. `.vs`, `Debug`, `x64`: build artefacts.

## 2. Plan

1. **SlidingWindow** (abstract), **SenderSocket**, **SenderSocketProofs**: the core. *Done.*
2. **Session**, **SessionProofs**: Open, stats thread, shutdown, Close of hw3p3. *Done.*
3. **StopAndWait**, **StopAndWaitProofs**: hw3p2, implementing SlidingWindow with a window of
   one. *Done.*
4. **Crawler**, **CrawlerProofs**: queue, crawler threads, printing thread, `numberThread`,
   uniqueness sets, statistics of hw1p3. *Done.*
5. **Traceroute**, **TracerouteProofs**: the report, probes, answers and retransmissions of
   hw4. *Done.*
6. **PageRead**, **PageReadProofs**: the Socket class and both downloads of hw1p3;
   **DnsLookup**, **DnsLookupProofs**: the attempts of hw2p3 and the walk over a packet with
   pointers. *Done.*
7. Proofs of the remaining safety properties (ClosedOnFinAck, TotalsAccount) and of
   bounds on the steps of every program that ends under any network. *Done.*
8. Next: a receiver that closes its window to zero and reopens it with the same acknowledgment
   number (SenderSocket with a receiver of its own); the CRC table against its polynomial
   definition; the digits and dots of the DNS query's name.

## 3. What is modelled

### SlidingWindow, SenderSocket (hw3p3 between Open and Close)

`SlidingWindow` says what any window protocol promises, with three counters: chunks put on the
wire, in order, at most Window of them unacknowledged (`sent`); the receiver's in-order prefix,
which grows only over sent chunks (`got`); and the prefix the sender knows delivered, which
never passes the receiver's (`acked`).

`SenderSocket` is the code. Variables carry the source's names where it has them: `sendSeq` is
`sendSequenceNumber`, `slots` is `packetsSharedQueue`, `empty` and `full` are the counts of the
two semaphores, `base` is `st.packetsSendBaseStats`, and `nextToSend`, `lastReleased`,
`dupAck`, `duplicateAckCheck`, `numRTX`, `bytesTotal` are those of the class.

| Code | Actions |
|---|---|
| `Send`: wait for `empty`; size and header; payload; counter and release of `full` | SendWait, SendHeader, SendPayload, SendPublish |
| main: `closeCalled = true`; wait for the worker | CallClose, Join |
| `workerThreads`: wait times out; case WAIT_TIMEOUT; case `full` | WaitTimeout, Timeout, SendNext |
| loop head | NextIteration, a part of each of the worker's steps |
| `ReceiveACK`: below the base; above it; equal to it; recvfrom error | StaleAck, NewAck, RepeatedAck, RecvError |
| network and receiver (external) | LoseData, ReceiveData |

Atomicity. The copy into a slot is two steps because the code makes two `memcpy_s` calls and
the worker takes no lock. WaitTimeout and Timeout are two steps because main may act between
the wait's end and the send. SendPublish merges `sendSequenceNumber++` with the release of
`full`: the worker reads the counter only once `closeCalled` is set, after all of Send's calls.
The test at the loop's head is merged with the end of the previous iteration: only main's one
assignment to `closeCalled` can fall between them, and the worker reads it nowhere else.

Data. A chunk's payload is its sequence number, so a datagram is whole exactly when its load
equals its number. `dupAck` and `numRTX` saturate above the values the code compares them
with. A datagram lost on the way back is one the receiver never answered.

The receiver is the course's and not in the repository. It is modelled from what the sender
relies on: it keeps the first copy of a chunk in its window, answers with its in-order
prefix, and advertises a window whose right edge never moves back.

Left out: the arithmetic of the estimates (`estimateRTT`, deviation, RTO) and all durations,
so a timeout may happen whenever nothing is ready; `effectiveWindowStats` (display);
`setsockopt` failures; the infinite wait that an uninitialised byte of the first slot may cause
until the first chunk is written there, which only removes timeouts; a receiver that takes
back its window or reopens a closed one with a repeated acknowledgment number (see the
hazard at SenderSocket.cpp:708 and item 8 of the plan).

### Session (hw3p3 around the transfer)

main from Open to the end of the process, the stats thread, `statusEvent`, and the SYN and
FIN exchange. `attempt` is Open's `i` and Close's `count`; `event` is the state of
`statusEvent`; `handleOpen` says whether main has closed its handle.

| Code | Actions |
|---|---|
| `Open`: `opened` already set; no Winsock, socket or port; rounds of SYN; STATUS_OK | OpenRefused; OpenFails; OpenBegin, SendSyn, SynTimeout, SynAnswered; OpenReturns |
| main: Open failed | ConnectFailed |
| the transfer, up to the join of the worker | Transfer, TransferClosed, TransferBroken |
| main: `breakThread`, SetEvent, wait, CloseHandle | SetBreak, RaiseEvent, AwaitEvent, CloseStatusEvent |
| `Close`: rounds of FIN; any datagram; recvfrom error or no rounds left | SendFin, FinTimeout; FinAnswered; CloseGivesUp |
| main's last line, the destructor | Exit |
| `runStats` | StatsWake, StatsCheck, StatsPrint, StatsReset |

The transfer is one step; `Termination` of SenderSocket is why one fair step may stand for it.
A recvfrom error in ReceiveACK closes the socket (SenderSocket.cpp:633) but stops no loop. Before
the last acknowledgment it means that none comes any more, and main waits for the worker
forever (TransferBroken). After it, with `closeCalled` not yet set (hw3p3.cpp:167), the worker's
condition at line 481 holds all the same, main joins it and goes on to Close with the socket
closed (TransferClosed): every sendto and select of Close then fails. `opened` starts with
either value, as nothing initialises it. The destructor's wait on a closed handle may return
at once or not: Exit takes the stats thread, if still running, with the process. Left out:
name lookup, time.

### StopAndWait (hw3p2)

The calls main makes, in order: Open (SendSyn, SynTimeout, SynAnswered, OpenFails), Send
(CallSend, Send, SendTimeout, SendAnswered, SendRetx, SendFails), the join of the status
thread (SetBreak, Join), Close (SendFin, FinTimeout, FinAnswered, CloseFails). `recvFrom`'s
treatment of an acknowledgment is RecvFrom with Advances and RetxOccured; Close uses it too, as
the code does. `done` counts the Sends that returned STATUS_OK; the history variables `closed`
and `finHeard` say that Close did, and that the receiver has had a FIN. The status thread (StatsWake,
StatsCheck) waits on its own handle, which main has stored over the event: the wait always
ends by its timeout. Left out: the checksum, the estimates, time.

### Crawler (hw1p3)

`main` in handleThreads (Create, CountLoad, CountStore, Join, RaiseEvent, FinalPrint), the
crawler threads in runParsingRobotsSendingStatus, and twoSecondPrint (PrinterWakes,
PrinterResets). Variables have the source's names, `q`, `seenHosts`, `seenIPs`, `numberThread`
and the statistics of `parserStats`, `newNumberPagesInBatch` among them; `passed`, `crawled` and
`pages` are the counters of each thread's own `parserHelper`, which nothing resets: robots.txt
passed, pages crawled, and documents received of either kind.

| Code, on a crawler thread | Actions |
|---|---|
| `editQueueLink`: empty queue, `numberThread--`; else pop and parse | Load, Leave; Pop |
| `hostCheckUnique` | CheckHost |
| `DNSCheck`, `dnsCheckLock` | DnsFails, DnsAnswers |
| `ipCheckLock` | CheckIp |
| `RobotSendRead` | RobotsFail, RobotsPass |
| `genericSyntaxLock`, first | AddRobots |
| `ReconnectHostSend` | PageFails, PageRead |
| `genericSyntaxLock`, second | AddPage |

Atomicity. A critical section whose data no other lock or thread touches is one step.
`numberThread` is incremented under `threadQueueLock` and decremented under `editQueueLink`, so
its loads and stores are steps; Pop waits while another thread is between the two, as the lock
makes it. DnsAnswers merges the lookup, which nobody sees, with the count of it.

Data. A URL is its host, or one that parseString refuses, or the empty string a line of a lone
carriage return leaves. An empty URL stays at the front of the queue: the thread starts over
and nothing changes, so this is a stuttering step. DNS may map any host to any address, two
hosts to one included. Pages are added at both places where a thread adds its counters
(Crawler.cpp:239 and 269), and so are bytes, which are left out, since they go the way of the
pages; statuses and links go that of `crawled`. The exception of `substr`
on an answer shorter than nine bytes, which ends the process, is in PageRead. Left out: the
writes to `webSocket` after its deletion, the rates the printing thread computes for its lines.

### PageRead (hw1p3, the sockets of one crawler thread)

| Code | Actions |
|---|---|
| loop in runParsingRobotsSendingStatus, `resetParser` | NextUrl, Refuse, Finish |
| `Socket::Socket`, `~Socket`, `closeSocket` | NewSocket, DeleteSocket, Close (operators) |
| `Connect`, `Send` | Connect, ConnectFails, Send, SendFails |
| `Read`: data; end of the connection; timeout; errors | Segment, EndOfPage, SelectTimeout, ReadError |
| `RobotSendRead` after Read | RobotStatus |
| `ReconnectHostSend` after Read | PageStatus |

`sock`, `robots`, `allocatedSize` and `curPos` are the members of `Socket`, `tvSec` is
`timeout.tv_sec`. `opened` and `refs` count what the process holds of Winsock, `abandoned` the
sockets left open by the deletion of their object. Time is in half seconds, so that `Left` shows
what the assignment of a fraction to a whole number does. The number of bytes of a segment and
the moment it comes are the server's choice. Every failure returns through Fail, as in the code.
A status line is reduced to its class, a word that is no number, or one that makes `substr` or
`stoi` throw out_of_range (too short, or a NUL in it; a number beyond int), which no handler
catches. Left out: failures of WSAStartup and closesocket, the text of the requests, links
found in the page.

### DnsLookup (hw2p3)

| Code | Actions |
|---|---|
| query and sendto | SendQuery |
| attempt loop: select times out; recvfrom fails; a datagram and its checks | Timeout; ReceiveError; ReceiveAnswer, ReceiveStray |
| questions | Questions |
| `processJump` and the first `jump` of an owner or a value | ReadOwner, ReadValue |
| `jump` at a pointer | Jump |
| fixed header, type, address | Header |
| behind a value; end of a section | Value; SectionEnd |
| network and server (external) | Answer, Lose |

A packet is a graph: `graph[o]` is what the parser meets when it follows a pointer to offset `o`
(the end of a name, another pointer, the end of the packet), and `labels` says at which offsets
there is text before the next pointer, both chosen freely when a datagram is received. So every
packet over the offsets is covered, circles included, and no byte is written down. `name` is the
form of the name at the parser's position: labels or none, and how they end. `firstJump` and
`seen` are `jump`'s count and its list of offsets; `Contains` says which offsets' decimals occur
in which, since the list is searched as a string. An error of `jump` is a string ("random6"), and
the calls that return put the labels they have read in front of it (hw2p3.cpp:296, 352).
checkErrors compares with ==, so an error behind text is not recognised: it is printed as a name,
with the position left where it was, and the parser goes on. `text` says that labels were read
before, and Return makes the verdict "joined" then. `Landing` is where `processJump` leaves the
position for each form, and `aligned` says whether that was right so far. `sound` says that all
names and records so far were of the forms that the parser handles (GoodName), which are those of
ordinary servers: owners that are one pointer or plain labels, values of labels or labels with a
pointer, addresses of four bytes, nothing that is taken for the end of the packet. The three loops
over sections are one definition with the section as its parameter, as their code is the same.

Assumed of the build: the Debug build, which fills the buffer with 0xCC, the byte the parser
takes for the packet's end. Assumed of packets: names end in a letter; offsets are below 512 and
in the buffer; text holds no byte 0xC0 or 0xCC. Left out: the text of the query, printing,
formatting of the root's name.

### Traceroute (hw4)

| Code | Actions |
|---|---|
| `reportWork`: head of the loop; row of a traced host; `i--` and the row of the one before | ReportEnds; Traced; Failed |
| constructor, `createPacket`, `sendPacket` | StartTrace, NoHost, SendFails |
| `recvPackets`: select times out, fails | SelectTimeout, SelectError |
| `recvPackets`: TTL expired; something else; an error; nothing left | Expired, Unrelated, IcmpError, Drained |
| `checkComplete`, the host's line | NotComplete, LastLine |
| `retransmitPackets` | RetransmitPackets |
| `pd[countSeq]` beyond the array | Crash |

`probe`, `icmpComplete` and `printString` are the members of `pd`, the last reduced to the kind
of line. `net` counts the answers in flight of each hop: none, one or more to a probe sent, also
to one of an earlier trace, whose answers the code cannot tell from the present ones.
WSAEventSelect has made the socket non-blocking, so recvfrom ends a round by returning -1 with
a zeroed buffer, which the code takes for the echo reply (packetHelper.cpp:301). Left out:
round trips and the length of the wait, name lookups, the checksum, traces of other programs on
the same machine, the histogram after the loop.

## 4. What the runs show

| Run | Instance | Question |
|---|---|---|
| sender_safety | 4 chunks, 2 slots, windows {1, 3}, 1 datagram and 2 acknowledgments in flight, duplicates | is the ring, window and token bookkeeping right? |
| sender_live | 3 chunks, 2 slots, window 2, loss, recvfrom errors, fairness | does the transfer end; is it a sliding window? |
| sender_torn | as the first, property DataIntact | may Send copy without a lock, as its comment says? No. |
| sender_karn | TrackRtt, property NoAmbiguousSample | is a resent chunk never sampled, as the comment says? No. |
| session | 3 attempts | do the shutdown and Close work, up to the one window named? |
| session_hang | as session, StatsCloseReturns | does main get past the shutdown of stats? Not always. |
| stop_and_wait | 3 chunks, 2 rounds per call | is hw3p2 a window of one; what does Close take for its answer; does main end? |
| stop_and_wait_ok | as stop_and_wait, OkMeansAcked | does Send's STATUS_OK mean acknowledged? No. |
| crawler | 2 threads, 2 hosts, 2 addresses, two queues | are the sets, counts and the end of the crawl right? |
| page_read | buffers of 8 and 16, a limit of 3 seconds, 2 URLs | are room, time, handles and statuses accounted for? |
| traceroute | 3 hops, 3 URLs, 2 rows wanted, 2 answers of a hop in flight | are hops, index and rows right; does the report end? |
| dns_lookup | 3 attempts, 2 offsets, packet of 3, 2 records | do walks end, which circles are reported, is a sound reply read whole? |

Each model's type invariant, the inductive invariants, `FullNeverAhead` (SenderSocket),
`PrintsUntilBreak` (Session) and `AcksInWindow` (StopAndWait) are proved for all constants
(section 7) and are not listed in the configurations.

**sender_safety.** `OutstandingIntact`: main never overwrites an unacknowledged chunk;
`TokenAccount`: `empty` plus what main has taken is what ReceiveACK has granted, at most one ring
beyond the base; `FlowControl`: neither grant nor datagram beyond the advertised edge;
`GrantNeverShrinks`: whatever the order of acknowledgments; `DoneMeansDelivered`: the worker
leaves only when the receiver has everything; `GoodputExact`: `bytesTotal` is exact although it
reads a slot main may be overwriting; `DupsAreOfBase`: repetitions counted are of the present
base. The model showed two things not visible in the code: a chunk resent by the timeout case can
be acknowledged before its token of `full` is taken, so `nextToSend` runs behind the base, and
main can then find `full` at its maximum, so that ReleaseSemaphore is refused and the token is
lost. Neither does harm: `FullNeverAhead`, by which tokens of `full` stand only for chunks main
has published, is an inequality for this reason, `FullLostOnlyBehindAck` says that a token is lost
only then, and `Termination` holds nevertheless, the timeout case sending what SendNext missed.
`TornLoadIsAcked` bounds what sender_torn shows: a torn datagram carries the previous load of its
slot, one that was acknowledged.

**sender_live.** `Termination` under fairness, unless ReceiveACK has closed the socket;
`Implements`, the refinement of SlidingWindow.

**session.** The shutdown can hang, and `WakeupLostOnlyIfCaught` says exactly when: the stats
thread was past its test of `breakThread` when main set it. `StatsStops` and `MainReturns`: in
every other case both end, but for a transfer that cannot make progress. `CloseFindsConnection`:
although Open reports STATUS_OK unanswered, Close never runs on a connection nobody answered; it
may run on a socket that ReceiveACK has closed, and then no FIN goes out. `ClosedOnFinAck`: Close
takes another datagram for the FIN-ACK only if the transfer left one behind. If not, it ends in
one of three ways: with the FIN-ACK and the socket closed; with nothing and the socket left
open; with nothing on a socket closed before, the receiver still waiting for a FIN. main is told
STATUS_OK of all three, and prints "<-- FIN-ACK".

**stop_and_wait.** `AcksInWindow`, proved: the branch for acknowledgments out of order is dead.
`LagOnlyAfterRepeat`: Send reports an unacknowledged chunk only after a datagram was sent
again or duplicated. `ClosedOnFin`: Close reads its answer with the recvFrom of data and takes any
acknowledgment for the FIN's; that the receiver has had no FIN at all by then takes a
repetition too. `MainEnds` under any network. `Implements`.

**crawler.** `EachIpOnce`: no server is asked twice, although host check, lookup and address check
are under three locks and two hosts may share an address. `StatsAgree`: the counts that
twoSecondPrint shows (finalPrint shows URLs and hosts, but no addresses) agree with the sets, and
with one another, in every state. `TotalsAccount`: the totals made of the threads' own counters
are not right, and this says how wrong they can be. Robots passed are at most the addresses as
long as no thread has passed a second one; pages crawled are at most robots passed; of the
documents received, none counts more often than its thread has passed a robots.txt or crawled a
page. The first robots.txt counts twice already: it is added before its page (Crawler.cpp:239) and
again after it (269). `FinalPrintIsLast`: the final report comes after everything. The other three
say exactly how far the known weaknesses go. `DriftSettles`: `numberThread` loses updates only
while main still creates threads, since afterwards all updates are under one lock. `CrawlersEnd`:
every crawler ends, unless an empty URL comes to the front of the queue. `RaiseIsHeard`: main gets
past the wait for the printing thread unless, when it raised the event, that thread was past its
wait or had never printed. The second case is every crawl that takes less than the printer's two
seconds.

**traceroute.** `GiveUpTogether`: a star is written only in the round that ends the trace,
so no hop is given up while another still has attempts. `IndexInRange`: `countSeq` is the number
of answers plus one as long as no wait timed out and no hop answered twice, and then leaves
`pd` only when all hops answered, which is what the routers before a host more than N hops
away do. `RowsFollowHosts`: the file has the hosts traced, in order, a failed one replaced by
the host before; `hop_host.at` throws only if no host was traced yet. `ReportIsFinite`: at most five
rounds a trace, whatever arrives, and one URL a trace.

**page_read.** `BufferSuffices`: recv never gets an empty buffer, whose 0 Read would take for
the end of the page, and the closing NUL has room. It also says what the limit is: three
quarters of ROBOT_MAX for *both* downloads. PAGE_MAX (socket.cpp:15, 2 MB) is never applied,
because every Socket that reads has the flag `robots` of its constructor (socket.cpp:39), and
only RobotSendRead clears it, on one about to be deleted; so pages beyond 12288 bytes fail.
`TimeAccount`: Read gives up after ten seconds at most, and earlier by less than a second per
segment, which ten segments make ten seconds. `HandlesAccounted`: a socket is in use, closed, or
left open by the deletion of its object (the destructor in socket.h:37 closes nothing): that is
one per download that fails before or in Read and one per URL refused, whose object has made
its socket already.
`StatusesAddUp`: pages counted as crawled are the sum of the status classes, and none was
requested without a robots.txt that passed. `DownloadsEnd`: no server holds the thread for ever;
it gets through its URLs, or the process is ended by an exception that nothing catches
(parsedHTML.cpp:318, 426).

**dns_lookup.** `WalkBounded`: the recursion of `jump` is no deeper than the packet is long.
`LoopsReported`: "jump loop" is reported for the names that are pointers in a circle without a
label, and for no others; the search in a string of decimals, which finds 12 in 112, does no harm
because of the second condition, a count of jumps. A circle with labels on it, or reached behind
labels, is noticed by `jump` as well, but its "random6" comes back behind text and is printed as a
name. `SoundReadWhole`: a reply of the forms named in section 3 is read from the right position
and printed to its last record without an alarm. The forms were found by this property, and the
others are what the parser gets wrong: an owner of labels and a pointer, a value that is a pointer
alone, and a pointer of 256 or more behind labels put it off its position; the root as an owner
(an OPT record) is reported as a jump beyond the packet; a plain name as the last value, or a byte
204 in the TTL, is reported as a truncated header; an address of one to three bytes is printed
from beyond the packet. `LookupEnds`: whatever the network does and the packet holds. The query is
sent once, before the loop (hw2p3.cpp:573), although the comment that opens each round says "send
request to the server" (588): once it or the answer is lost, two more waits bring nothing, and any
stranger's datagram ends the loop.

### Findings

- *Torn datagram* (SenderSocket.cpp:427, sender_torn). All sent chunks are acknowledged, the
  worker's wait times out while main fills the slot of the send base between its two copies:
  the timeout case sends the new header with the old payload, and the receiver keeps it.
- *Ambiguous sample* (SenderSocket.cpp:671, sender_karn). The test for a round-trip sample
  counts acknowledgments; a chunk sent again by a timeout passes it.
- *Shutdown hang* (hw3p3.cpp:174, session_hang). main waits for the event it has raised, and
  runStats resets it.
- *STATUS_OK for an unacknowledged chunk* (hw3p2 SenderSocket.cpp:340, stop_and_wait_ok).

Other weaknesses have no run of their own. Passing properties say how far they go:

- Open reports STATUS_OK without an answer (SenderSocket.cpp:328; CloseFindsConnection and
  MainReturns say what follows).
- Close may run on a socket ReceiveACK has closed (SenderSocket.cpp:633), and returns STATUS_OK
  whatever happened (411), after which main prints "<-- FIN-ACK" (hw3p3.cpp:198). ClosedOnFinAck
  names the three ways in which it ends. The tv_usec it computes (366) is often no time at all, so
  that all rounds fail at once.
- The first Open may be refused as "second call to ss.Open()" (SenderSocket.cpp:6, 124), since
  nothing initialises `opened`: OpenRefused, after which main returns (MainReturns).
- The crawler's totals count robots.txt twice and a thread's earlier pages again (Crawler.cpp:237
  to 239, 269; TotalsAccount).
- An exception nobody catches ends the crawler (parsedHTML.cpp:318; DownloadsEnd).
- A circle of pointers with labels is printed as a name (hw2p3.cpp:296; LoopsReported).

## 5. Bounds

- SenderSocket: `W = 2`, `NChunks = 4`. With three chunks an extra grant could never overwrite
  an outstanding chunk, the fourth reuses the second slot while the second chunk is
  outstanding. Windows {1, 3} take both arms of `min(senderWindow, recvWnd)`. `DataCap` and
  `AckCap` bound what is in flight at once: what does not fit is lost, which the
  network may do anyway, so the bounds only remove behaviours. Two acknowledgments are needed
  for reordering. `DupCap = 5` is above the greatest value the code tests. The liveness run
  has three chunks, a constant window and one datagram each way; loss stays.
- Session: three attempts give a first, a middle and a last round; `PrintCap = 2` tells one
  print from more.
- StopAndWait: two rounds per call and three chunks; `DupCap = 4` is above the 3 the code tests.

- Crawler: with two threads every pair of critical sections interleaves, and one thread may get
  two pages. Two hosts and two addresses: both collisions of hosts on an address and none. The queue
  `<<h1, h2, h1>>` repeats a host; `<<Malformed, h1, Blank, h2>>` has a URL that does not parse and
  an empty one before the last.

- Traceroute: three hops: one that answers, one that does not, one that answers late or twice. Of
  three URLs the first may fail or one between, and two rows end the report by its other
  condition. Two answers of a hop in flight are one for the present trace and one more; what
  does not fit is lost, which the network may do anyway.

- PageRead: buffers keep the ratios of the code (8192 and 16384 bytes become 8 and 16), so each
  of the three quarters, one doubling and the limit occur, with every size of segment. Three
  seconds and segments of any half second give full, partial and no loss by rounding. Two URLs:
  the second meets what the first left behind, and Winsock's counter.

- DnsLookup: two offsets, one in the other's decimals, make every circle of one and two and every
  chain into the header, behind the packet, to a zero byte and to a cut pointer. `Size` need only
  exceed the number of offsets, which it does by one, the least that makes the count of jumps
  matter. Two records give a record before another in one section, and records in two sections.
  `MAX_ATTEMPTS` is the code's.

The theorems hold for every value of these constants.

Deadlock checking is off in all runs: the programs end, and main may hang as section 4 says.

## 6. Fairness

- Weak fairness of each thread's steps: the Windows scheduler runs every ready thread. No
  fairness is asked of a single action of a thread but the next item.
- SenderSocket, strong fairness of receiving a given chunk and of reading a given
  acknowledgment: a path that loses every copy of a datagram forever ends no transfer, and
  hw3p3 has no limit of retransmissions. No fairness is asked of loss. The reading of an
  acknowledgment is fair because WaitForMultipleObjects prefers the socket's event, index 0.
- Crawler: weak fairness of main, of the printing thread and of each crawler. A DNS lookup or
  a download ends somehow (Read has a limit of ten seconds). The printer's timeout needs no
  fairness of its own: both ends of its wait are the same step.
- Traceroute: weak fairness of its one thread. Other programs' ICMP traffic leaves gaps, so
  recvfrom finds the socket empty at last.
- PageRead: weak fairness of the thread's steps. A server that stays silent is a SelectTimeout.
- DnsLookup: weak fairness of the client's own steps, of which the timeout of select is one.
  None of the server, the network or strangers.
- Session and StopAndWait ask nothing of the network: their loops are bounded.

## 7. What is proved

From the assumptions on the constants alone (`SenderAssumption`, `SessionAssumption`,
`StopAndWaitAssumption`, `CrawlerAssumption`, `TracerouteAssumption`, `PageReadAssumption`,
`DnsLookupAssumption`: sizes are positive, sets finite, counters saturate above what the code
tests; ROBOT_MAX is twice INITIAL_BUF_SIZE and below PAGE_MAX; a packet has more bytes than
offsets behind its header, and an offset's decimals occur in themselves).

**SenderSocketProofs.** The inductive invariant is `IInv`: type correctness; `PcInv`, what the
places of main and the worker say of `sendSeq`, `closeCalled` and `base`; `TokenAccount` and
`FullNeverAhead`; `RingInv`, the last W chunks are in the ring, whole but for the one being
copied; `WireInv`, only chunks with a header in the ring are in flight or received, and `base <=
rcvNext`; `AckInv`, acknowledgments in flight promise what the receiver has and their right edges
grow with their numbers; `DupsAreOfBase`. RingInv needs TokenAccount (main takes a slot only with
a token, hence at most W beyond the base), TokenAccount needs AckInv (a late acknowledgment above
the base grants no less than was granted) and AckInv needs the receiver's edge, so none of them is
inductive alone. The lemmas on `Slot` (chunks fewer than W apart have different slots, chunks W
apart the same) carry the arithmetic. There is one lemma per action. From `Spec => []IInv` follow
TypeOK, TokenAccount, TokenSendsPublished, OutstandingIntact, FlowControl, TornLoadIsAcked,
DoneMeansDelivered, GoodputExact (each with the part it adds to IInv), DupsAreOfBase, the action
properties GrantNeverShrinks and FullLostOnlyBehindAck, and `Spec => Implements`.
`TokenSendsPublished` (theorem TokensBehindMain) is about what the worker sends for a token of
`full`: a chunk main has published, whole in its slot as long as it is not acknowledged. It does
not speak of the timeout case and the fast retransmission, which take no token and may send a slot
main is still filling. `NeverStuck` is about the wait for `empty`: unless an advertised window may
be zero, main waits there only while a chunk is outstanding, whole in its slot, and within the
receiver's window, so that resending it can bring the token. Its own part is `GrantAhead`, a token
is granted beyond every acknowledged chunk.

**SessionProofs.** `SessionInv`: the event's life (`EventInv`), the stats thread's place against
`printMe`, `prints`, `late` and `caught` (`StatsInv`), and the connection (`LinkInv`): a place of
main after the transfer implies that Open was answered; what Close received, it received at its
end, and closed the socket; on a socket closed before, no FIN goes out. It gives TypeOK,
WakeupLostOnlyIfCaught, PrintsUntilBreak and CloseFindsConnection. With `QuietInv`, that a
transfer without leftovers leaves nothing for Close to read but answers to its FIN, it gives
ClosedOnFinAck.

**StopAndWaitProofs.** `SawInv`: what main's place says of its calls (`CallInv`), that only
what was sent is in flight and at most one chunk is between base and `sent` (`WireInv`), and
that as long as nothing was repeated there is one datagram per call (`FreshInv`), which is what
makes LagOnlyAfterRepeat and ClosedOnFin inductive: the one answer Close finds then is the
FIN's. It gives TypeOK, AcksInWindow, LagOnlyAfterRepeat, ClosedOnFin and `Spec => Implements`.

**CrawlerProofs.** `CrawlerInv`: the threads about to ask for robots.txt have distinct addresses
that nobody has asked (`VisitInv`, which makes EachIpOnce inductive); each statistic leads the
next by at least the number of threads between the two (`CountInv`; the lemma GoToCounts says how
those numbers change when a thread goes on); a thread leaves alone and only from an empty queue
(`QueueInv`); a printer that was not ready does not leave its loop (`EventInv`). It gives TypeOK,
EachIpOnce, StatsAgree, FinalPrintIsLast, and the action property DriftSettles.
TotalsAccount has three invariants of its own. `OnceInv`: as long as no thread has passed
twice, the robots counted and the threads about to ask or to add are at most the addresses.
`DebtInv`: pages crawled lag the robots passed by what the threads have ahead of them.
`PagesInv`: the documents added, and those a thread is about to add, are at most the triples of a
thread, one of its additions and one of its documents (`Batches`). The sums over the threads are
written as the cardinality of a set of pairs or triples; lemmas such as DebtGrows, DebtFalls and
DebtStays say how it follows one thread's step.

**TracerouteProofs.** `TraceInv`: hops not complete have the same number of attempts, and one
with a line is complete (`HopInv`, from which GiveUpTogether follows for the round that gives
up); during a trace without timeouts and repetitions `countSeq` is one more than the number of
hops that answered (`CountInv`, a cardinality, which makes IndexInRange inductive); the report's
index is the number of hosts traced, and hosts and rows come in the queue's order
(`ReportInv`, for RowsFollowHosts). It gives TypeOK, GiveUpTogether, IndexInRange and
RowsFollowHosts.

**PageReadProofs.** `PageInv`: a Socket that is read from still has its constructor's flag, and
its buffer was doubled at most once (`SizeInv`, why PAGE_MAX plays no part); time used and time
left make up the limit but for half a second per segment at most (`TimeInv`, from the lemma
LeftBounds on the rounding); a download that goes on has not abandoned its socket yet
(`HandleInv`). It gives TypeOK, BufferSuffices, TimeAccount, HandlesAccounted, StatusesAddUp.

**DnsLookupProofs.** `LookupInv`. `WalkInv`: a walk has either just listed its first offset, or
met only new ones (`Fresh`: then the jumps are at most one more than the offsets listed, which
are fewer than `Size`, a cardinality), or come back to one (`Round`: the offsets listed are
closed under pointers, so it can only end as a circle). A circle is a set of offsets closed
under pointers (`Stuck`), which the lemmas StuckBack and StuckOn carry along a jump, forward and
back; so LoopsReported holds for any relation `Contains` that is reflexive. `TextInv`, a part of
WalkInv, follows the labels: a name without text so far has met no label, and a circle without
labels stays one. `SoundInv`: as long as the packet is sound, the records printed and those to
come are all there are. It gives TypeOK, WalkBounded, LoopsReported and SoundReadWhole.
LoopsReported holds for every packet, of whatever length, which no bounded run shows.

**Step bounds.** The theorem `StepsBounded` of six modules is the part of liveness that can be
proved. Each gives a natural number `StepsLeft`, defined from the state, that every step of the
threads it speaks of lowers and nothing raises; so none of these programs can go on for ever,
whatever the network does.

| Module | Which steps lower the number | What bounds it |
|---|---|---|
| PageReadProofs | every step | URLs, two downloads each; of a download ROBOT_MAX, as each segment fills the buffer further |
| DnsLookupProofs | every step, the network's too | attempts; of a packet its records and `Size`, which bounds the jumps of each name (WalkBounded) |
| TracerouteProofs | every step, the network's too | URLs; the rounds left by the attempts of the silent hops; answers in flight |
| StopAndWaitProofs | main's; the status thread's once `breakThread` is set | chunks and rounds |
| SessionProofs | main's; the stats thread's once `breakThread` is set | attempts |
| CrawlerProofs | main's and every crawler's | N and the queue, weighted by how far each crawler is from its end |

A thread that waits takes no step, so the bounds leave to TLC, which checks DownloadsEnd,
LookupEnds, ReportIsFinite, MainEnds, MainReturns, StatsStops and CrawlersEnd, that the threads
are scheduled and that no wait but those these properties name lasts for ever. The bound of
Traceroute counts on `NetCap`, since every answer may be read, those of PageRead and DnsLookup on
`MaxUrls` and `MaxRecords`, the queue's length and the counts of a packet's header; that of
Crawler calls no step what a crawler does at an empty URL at the front of the queue, which changes
nothing. For the sender of hw3p3 there is no such number: it repeats a lost datagram without
limit.

**Only model-checked.** The liveness properties (Termination, StatsStops, MainReturns, MainEnds,
CrawlersEnd, RaiseIsHeard, ReportIsFinite, DownloadsEnd, LookupEnds): liveness under fairness is
beyond the prover, as are ENABLED, induction over data and RECURSIVE operators (the modules have
none). Every safety and action property of the passing runs is proved, and both refinements are.
The four properties that the code violates stay with TLC, which shows how.

## 8. What is not modelled, and why

- hw3p1, hw1 and hw1p2: earlier forms of Session, PageRead and Crawler; modules of their own
  would repeat those.
- The checksums: pure algorithms without state, whose width TLC reaches only on toy polynomials.
- A receiver that reopens a closed window with a repeated acknowledgment number: the hazard at
  SenderSocket.cpp:708, for which the present receiver would have to be replaced. What is proved
  is that nothing of the kind happens while no window is zero (NeverStuck).
- The text of the DNS query and of what the programs print, URL and header strings, name lookup,
  estimates of round trips, rates: they decide nothing about the order of steps. Where a
  conversion does (the list of offsets as a string, a fraction stored as a whole number), it is
  modelled.
- CPU sampling and the HTML library's header hold no state that other parts depend on.

PROJECT.json lists every part with its status and every hazard with the properties that cover
it; a hazard without one says why.
