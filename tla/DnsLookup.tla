----------------------------- MODULE DnsLookup -----------------------------
(***************************************************************************)
(* The DNS client of hw2p3: one query over UDP, up to three attempts to    *)
(* receive the answer, and the parser that prints it.  The network and the *)
(* server are external.                                                    *)
(*                                                                         *)
(* A packet is what the parser meets in it.  A name is labels, or none, up *)
(* to a zero byte, a compression pointer or the end of the packet; graph   *)
(* says what the parser meets when it follows a pointer to an offset, and  *)
(* labels at which offsets there are labels before the next pointer.  The  *)
(* buffer is larger than the packet and full of 0xCC, as the Debug build   *)
(* leaves it: that byte is what the parser takes for the end of the packet.*)
(* Names end in a letter, as top-level domains do.                         *)
(***************************************************************************)
EXTENDS Integers, FiniteSets

CONSTANTS
  MAX_ATTEMPTS,
  Offsets, QName,  \* offsets in the packet behind its header; that of the question
  Contains,        \* pairs: the first offset's digits occur within the second's
  Size,            \* bytes of the packet
  MaxRecords       \* bound: records in the packet

(* Where a pointer may lead: into the fixed header, behind the packet, or   *)
(* to an offset.                                                            *)
Targets == Offsets \cup {"low", "beyond"}
Ends    == Targets \cup {"zero", "cut"}

ASSUME DnsLookupAssumption ==
  /\ MAX_ATTEMPTS \in Nat \ {0} /\ MaxRecords \in Nat
  /\ QName \in Offsets /\ Offsets \cap {"low", "beyond", "zero", "cut"} = {}
  /\ \A o \in Offsets : <<o, o>> \in Contains
  /\ IsFiniteSet(Offsets) /\ Size \in Nat /\ Cardinality(Offsets) < Size

VARIABLES
  pc, count,
  sent, net, got,    \* queries sent; where the query or its answer is; the datagram received
  graph, labels, counts,  \* the packet: its names, its records per section
  sec, left,         \* the section, and the records left in it
  role, name,        \* the name being read: an owner, or a value
  at, firstJump, seen, text, verdict,  \* the walk along its pointers
  aligned, sound,    \* history: see below
  printed, alarm

netVars    == <<sent, net, got>>
packetVars == <<graph, labels, counts>>
loopVars   == <<sec, left>>
walkVars   == <<role, name, at, firstJump, seen, text, verdict>>
printVars  == <<aligned, sound, printed, alarm>>
vars == <<pc, count, netVars, packetVars, loopVars, walkVars, printVars>>

(* A datagram: from the server's address and port, of twelve bytes or more, *)
(* with Rcode 0, and with the identifier of the query.                      *)
Datagrams == [fromServer : BOOLEAN, whole : BOOLEAN, ok : BOOLEAN, ours : BOOLEAN]

(* A name where the parser stands: whether it has labels, where they end as *)
(* the parser sees it, and whether the parser has read over a pointer: a    *)
(* pointer to 256 or more behind a label, for only the byte 0xC0 is looked  *)
(* for.                                                                     *)
Names == {n \in [label : BOOLEAN, end : Ends, over : BOOLEAN] : n.over => n.label}
Root  == [label |-> FALSE, end |-> "zero", over |-> FALSE]

Sections == 1..3  \* answers, authority, additional
Counts   == {c \in [Sections -> 0..MaxRecords] : c[1] + c[2] + c[3] <= MaxRecords}

ResetWalk == /\ name' = Root /\ at' = QName /\ firstJump' = 0 /\ seen' = {}
             /\ text' = FALSE /\ verdict' = "none"

Init ==
  /\ pc = "start" /\ count = 0
  /\ sent = 0 /\ net = "none"
  /\ got = [fromServer |-> FALSE, whole |-> FALSE, ok |-> FALSE, ours |-> FALSE]
  /\ graph = [o \in Offsets |-> "zero"] /\ labels = {} /\ counts = [s \in Sections |-> 0]
  /\ sec = 1 /\ left = 0
  /\ role = "owner" /\ name = Root /\ at = QName /\ firstJump = 0 /\ seen = {}
  /\ text = FALSE /\ verdict = "none"
  /\ aligned = TRUE /\ sound = TRUE /\ printed = 0 /\ alarm = "none"

-----------------------------------------------------------------------------
(* The query and the attempts. *)

(* Winsock, the socket and sendto.  The query is sent here and never again. *)
SendQuery ==
  /\ pc = "start"
  /\ \/ pc' = "select" /\ count' = 1 /\ sent' = sent + 1 /\ net' = "query"
     \/ pc' = "done" /\ UNCHANGED <<count, sent, net>>
  /\ UNCHANGED <<got, packetVars, loopVars, walkVars, printVars>>

(* External: the server answers the query. *)
Answer ==
  /\ net = "query" /\ net' = "reply"
  /\ UNCHANGED <<pc, count, sent, got, packetVars, loopVars, walkVars, printVars>>

(* External: the query or the answer is lost. *)
Lose ==
  /\ net \in {"query", "reply"} /\ net' = "lost"
  /\ UNCHANGED <<pc, count, sent, got, packetVars, loopVars, walkVars, printVars>>

AgainUncounted == UNCHANGED <<pc, count>> \* mutant
(* The condition of the loop. *)
Again ==
  IF count < MAX_ATTEMPTS THEN count' = count + 1 /\ UNCHANGED pc
                          ELSE pc' = "done" /\ UNCHANGED count

(* Ten seconds without a datagram, or an error of select. *)
Timeout ==
  /\ pc = "select"
  /\ Again
  /\ UNCHANGED <<netVars, packetVars, loopVars, walkVars, printVars>>

(* recvfrom fails. *)
ReceiveError ==
  /\ pc = "select"
  /\ pc' = "done"
  /\ UNCHANGED <<count, netVars, packetVars, loopVars, walkVars, printVars>>

(* What is parsed; any other datagram ends the loop. *)
Accept(d) == d.fromServer /\ d.whole /\ d.ok /\ d.ours

(* recvfrom and the checks of the datagram, whose packet may hold anything. *)
Receive(d) ==
  /\ pc = "select"
  /\ got' = d
  /\ IF Accept(d)
     THEN /\ pc' = "questions"
          /\ graph' \in [Offsets -> Ends] /\ counts' \in Counts
          /\ labels' \in SUBSET {o \in Offsets : graph'[o] \in Targets}
     ELSE pc' = "done" /\ UNCHANGED packetVars
  /\ UNCHANGED <<count, sent, loopVars, walkVars, printVars>>

ReceiveAnswer ==
  /\ net = "reply" /\ net' = "read"
  /\ \E d \in Datagrams : d.fromServer /\ Receive(d)

(* External: anybody may send to the client's port. *)
ReceiveStray ==
  /\ UNCHANGED net
  /\ \E d \in Datagrams : ~d.fromServer /\ Receive(d)

-----------------------------------------------------------------------------
(* The walk along a name. *)

(* The walk from o never ends, or only in one of bad. *)
Stuck(o, bad) ==
  \E S \in SUBSET Offsets : o \in S /\ \A x \in S : graph[x] \in S \cup bad
Cyclic(o) == Stuck(o, {})
Clean(o)  == o \in Offsets /\ ~Stuck(o, {"cut", "low", "beyond"})

LoopEver(o) == \E x \in seen : <<o, x>> \in Contains \* mutant
LoopLate(o) == /\ \E x \in seen : <<o, x>> \in Contains \* mutant
               /\ firstJump > 2 * Size
(* The digits of the offset occur in the list of those followed, which may  *)
(* be by accident, and there were more jumps than bytes.                    *)
Loop(o) == /\ \E x \in seen : <<o, x>> \in Contains
           /\ firstJump > Size

(* An error is a string, to which the calls that return put the labels they *)
(* have read: what comes out behind text is taken for a name.               *)
Return(v) == /\ verdict' = IF text /\ v # "name" THEN "joined" ELSE v
             /\ pc' = "walked"
             /\ UNCHANGED <<at, firstJump, seen, text>>

(* jump where it finds a pointer.  Behind the packet it finds 0xCC, and     *)
(* looks whether the pointer itself was cut in half.                        *)
Jump ==
  /\ pc = "walk"
  /\ \/ Loop(at) /\ Return("random6")
     \/ /\ ~Loop(at)
        /\ \/ at = "low" /\ Return("random0")
           \/ at = "beyond" /\ \E v \in {"random5", "random7"} : Return(v)
           \/ /\ at \in Offsets /\ graph[at] = "cut"
              /\ Return(IF at = QName THEN "random5" ELSE "random4p1")
           \/ at \in Offsets /\ graph[at] = "zero" /\ Return("name")
           \/ /\ at \in Offsets /\ graph[at] \in Targets
              /\ at' = graph[at] /\ firstJump' = firstJump + 1 /\ seen' = seen \cup {at}
              /\ text' = (text \/ at \in labels)
              /\ UNCHANGED <<pc, verdict>>
  /\ UNCHANGED <<count, netVars, packetVars, loopVars, role, name, printVars>>

(* jump where the name begins.  The root is one zero byte, and refused when *)
(* a second follows, as it does behind an owner.  A pointer behind labels   *)
(* is listed here and read again.                                           *)
FirstCall(r, n) ==
  \/ /\ n = Root
     /\ \E v \in IF r = "owner" /\ aligned THEN {"random5"} ELSE {"random5", "name"} : Return(v)
  \/ n.end = "cut" /\ \E v \in {"random1", "random4p1"} : Return(v)
  \/ n.label /\ n.end = "zero" /\ Return("name")
  \/ n.label /\ n.end = "low" /\ Return("random0")
  \/ /\ n.label /\ n.end \in Targets \ {"low"}
     /\ at' = n.end /\ firstJump' = 1 /\ seen' = {n.end} /\ text' = TRUE
     /\ pc' = "walk" /\ UNCHANGED verdict
  \/ /\ ~n.label /\ n.end \in Targets
     /\ at' = n.end /\ pc' = "walk" /\ UNCHANGED <<firstJump, seen, text, verdict>>

(* Forms of a name that are read right, from a packet of a sane server.     *)
GoodName(r, n) ==
  /\ ~n.over
  /\ \/ n.label /\ n.end = "zero"
     \/ Clean(n.end) /\ (n.label <=> r = "value")

ReadName(r, n) ==
  /\ role' = r /\ name' = n
  /\ FirstCall(r, n)
  /\ sound' = (sound /\ GoodName(r, n))
  /\ UNCHANGED <<count, netVars, packetVars, loopVars, aligned, printed, alarm>>

(* A pointer behind labels: processJump returns early. *)
Early(n) == n.label /\ n.end \in Targets

LandingOnPointer(r, n) ==  \* mutant
  IF n.over THEN 1 ELSE IF n.end = "zero" /\ r = "owner" THEN -1 ELSE 0
(* Where processJump leaves the position, from the first byte behind the    *)
(* name.  Behind a plain owner there is the zero byte of the type's high    *)
(* half.                                                                    *)
Landing(r, n) ==
  CASE n.over                         -> 1
    [] ~n.over /\ n.end = "zero"      -> IF r = "owner" THEN -1 ELSE 0
    [] Early(n) /\ ~n.over            -> 0
    [] OTHER                          -> -1

(* Eleven bytes are skipped behind an owner, and its header has ten; none   *)
(* behind a value.                                                          *)
Lands(r, n) == Landing(r, n) + (IF r = "owner" THEN 11 ELSE 0)
                 = (IF r = "owner" THEN 10 ELSE 0)

(* There are more records behind this one. *)
More == left > 1 \/ \E t \in Sections : t > sec /\ counts[t] > 0

(* checkErrors compares the whole answer with the error strings.            *)
Failed == verdict \notin {"name", "joined"}

(* An error of jump, reported or not, leaves the position where it was.     *)
Arrives == verdict = "name" /\ Lands(role, name)

(* Whether the byte eight behind the position is 0xCC.  Behind the value of *)
(* the last record it is beyond the packet.  It is looked at for every name *)
(* but those left early and those jump gave up.                             *)
Truncated == IF Early(name) \/ verdict # "name" THEN {FALSE}
             ELSE IF aligned /\ role = "value" /\ ~More THEN {TRUE} ELSE BOOLEAN

-----------------------------------------------------------------------------
(* The sections. *)

(* TerminateRun. *)
Terminate(v) == /\ alarm' = v /\ pc' = "done"
                /\ UNCHANGED <<loopVars, printed, aligned>>

(* The questions are plain names, one is compressed and put the parser off  *)
(* its position, or the packet ends in them.                                *)
Questions ==
  /\ pc = "questions"
  /\ \/ pc' = "record" /\ left' = counts[1] /\ UNCHANGED <<sec, printVars>>
     \/ /\ pc' = "record" /\ left' = counts[1] /\ aligned' = FALSE /\ sound' = FALSE
        /\ UNCHANGED <<sec, printed, alarm>>
     \/ Terminate("random4p3") /\ sound' = FALSE
  /\ UNCHANGED <<count, netVars, packetVars, walkVars>>

ReadOwner ==
  /\ pc = "record" /\ left > 0
  /\ \E n \in Names : ReadName("owner", n)

RecordRead == /\ left' = left - 1 /\ pc' = "record"
              /\ UNCHANGED <<sec, alarm>>

(* processJump has returned an owner: the type decides what follows.  Only  *)
(* an address of no bytes at all is noticed; a value of another type is not *)
(* skipped.                                                                 *)
Header ==
  /\ pc = "walked" /\ role = "owner"
  /\ ResetWalk
  /\ \E cut \in Truncated :
       \/ /\ Failed \/ cut
          /\ Terminate(IF cut THEN "random4p2" ELSE verdict)
          /\ sound' = (sound /\ ~cut) /\ UNCHANGED role
       \/ /\ ~Failed /\ ~cut
          /\ \/ \E bytes \in 0..4 :
                  /\ sound' = (sound /\ bytes = 4)
                  /\ IF bytes = 0 THEN Terminate("random4p3")
                     ELSE /\ RecordRead /\ printed' = printed + 1
                          /\ aligned' = (aligned /\ Arrives)
                  /\ UNCHANGED role
             \/ /\ pc' = "value" /\ role' = "value"
                /\ aligned' = (aligned /\ Arrives)
                /\ UNCHANGED <<loopVars, sound, printed, alarm>>
             \/ /\ RecordRead /\ aligned' = FALSE /\ sound' = FALSE
                /\ UNCHANGED <<printed, role>>
  /\ UNCHANGED <<count, netVars, packetVars>>

(* The value of an NS, CNAME or PTR record. *)
ReadValue ==
  /\ pc = "value"
  /\ \E n \in Names : ReadName("value", n)

Value ==
  /\ pc = "walked" /\ role = "value"
  /\ ResetWalk /\ role' = "owner"
  /\ \E cut \in Truncated :
       /\ sound' = (sound /\ ~cut)
       /\ IF Failed \/ cut
          THEN Terminate(IF cut THEN "random4p2" ELSE verdict)
          ELSE /\ RecordRead /\ printed' = printed + 1
               /\ aligned' = (aligned /\ Arrives)
  /\ UNCHANGED <<count, netVars, packetVars>>

SectionEnd ==
  /\ pc = "record" /\ left = 0
  /\ sec' = sec + 1
  /\ left' = IF sec < 3 THEN counts[sec + 1] ELSE 0
  /\ pc' = IF sec < 3 THEN "record" ELSE "done"
  /\ UNCHANGED <<count, netVars, packetVars, walkVars, printVars>>

(* The three loops over records, which are the same. *)
Section(s) == sec = s /\ (ReadOwner \/ Header \/ ReadValue \/ Value \/ SectionEnd)

Answers    == Section(1)
Authority  == Section(2)
Additional == Section(3)

Parse  == Questions \/ Answers \/ Authority \/ Additional \/ Jump
Client == SendQuery \/ Timeout \/ ReceiveAnswer \/ Parse
Next   == Client \/ ReceiveError \/ ReceiveStray \/ Answer \/ Lose

Spec == Init /\ [][Next]_vars

(* The client runs, and select returns after ten seconds. *)
FairSpec == Spec /\ WF_vars(Client)

-----------------------------------------------------------------------------
(* Properties. *)

Parsing == {"questions", "record", "walk", "walked", "value"}

Verdicts == {"name", "joined", "random0", "random1", "random4p1", "random5", "random6", "random7"}

(* Type invariant.  The attempts are at most MAX_ATTEMPTS, the section is   *)
(* one of the three until the parser is done.                               *)
TypeOK ==
  /\ pc \in {"start", "select", "done"} \cup Parsing /\ count \in 0..MAX_ATTEMPTS
  /\ sent \in {0, 1} /\ net \in {"none", "query", "reply", "read", "lost"}
  /\ got \in Datagrams
  /\ graph \in [Offsets -> Ends] /\ labels \subseteq Offsets /\ counts \in Counts
  /\ sec \in 1..4 /\ left \in 0..MaxRecords
  /\ pc \in Parsing => sec \in Sections
  /\ pc \in {"walk", "walked", "value"} => left > 0
  /\ role \in {"owner", "value"} /\ name \in Names
  /\ at \in Targets /\ firstJump \in Nat /\ seen \subseteq Targets /\ text \in BOOLEAN
  /\ verdict \in Verdicts \cup {"none"} /\ (pc = "walked" => verdict \in Verdicts)
  /\ aligned \in BOOLEAN /\ sound \in BOOLEAN /\ printed \in Nat
  /\ alarm \in Verdicts \cup {"none", "random4p2", "random4p3"}

(* However the pointers of a packet refer to each other, the recursion of   *)
(* jump is no deeper than the packet is long.                               *)
WalkBounded == firstJump <= Size + 1

(* The walk from o never ends and meets no label on its way.                *)
Mute(o) ==
  \E S \in SUBSET Offsets : o \in S /\ \A x \in S : graph[x] \in S /\ x \notin labels

(* "jump loop" is reported for the names that are pointers in a circle      *)
(* without a single label, and for no others, although the list of offsets  *)
(* is searched as a string, where 12 is found in 112.  A circle behind or   *)
(* with labels is noticed too, but printed as a name.                       *)
LoopsReported ==
  pc = "walked" /\ name.end \in Targets =>
    /\ verdict = "random6" <=> ~name.label /\ name.end \in Offsets /\ Mute(name.end)
    /\ name.end \in Offsets /\ Cyclic(name.end) => verdict \in {"random6", "joined"}

(* A reply whose records are all of the forms the parser handles is read    *)
(* from the right position throughout, raises no alarm, and is printed to   *)
(* its last record.                                                         *)
SoundReadWhole ==
  sound =>
    /\ aligned
    /\ alarm = "none"
    /\ pc = "done" /\ Accept(got) => printed = counts[1] + counts[2] + counts[3]

(* The lookup ends, whatever the network does and whatever the packet says. *)
LookupEnds == <>(pc = "done")

=============================================================================
