-------------------------- MODULE DnsLookupProofs --------------------------
(***************************************************************************)
(* Safety of DnsLookup for every packet, whatever its names and offsets.   *)
(***************************************************************************)
EXTENDS DnsLookup, FiniteSetTheorems, TLAPS

Bad == {"cut", "low", "beyond"}

(* The first call has listed the pointer it found behind labels.            *)
Listed == seen = {at} /\ firstJump = 1 /\ at = name.end

(* Every offset so far is new.                                              *)
Fresh == /\ at \notin seen /\ seen \subseteq Offsets
         /\ firstJump <= Cardinality(seen) + 1
         /\ \A x \in seen : graph[x] \in seen \cup {at}
         /\ name.end \in seen \cup {at}

(* The walk has come back to an offset: it will never leave those it knows. *)
Round == /\ at \in seen /\ seen \subseteq Offsets
         /\ \A x \in seen : graph[x] \in seen
         /\ name.end \in seen

Circles(o) == o \in Offsets /\ Cyclic(o)
Silent(o)  == o \in Offsets /\ Mute(o)

(* text says whether a label has been read.                                 *)
TextInv ==
  /\ ~text => ~name.label /\ \A x \in seen : x \notin labels
  /\ ~name.label /\ Silent(name.end) => Silent(at) /\ ~text

WalkInv ==
  /\ firstJump <= Size + 1
  /\ pc \in {"start", "select", "questions", "record", "value"} =>
       seen = {} /\ firstJump = 0 /\ text = FALSE
  /\ pc = "walk" =>
       /\ name.end \in Targets
       /\ Listed \/ Fresh \/ Round
       /\ Circles(name.end) => Circles(at)
       /\ Clean(name.end) => Clean(at)
       /\ TextInv
  /\ LoopsReported

(* Records not printed yet.                                                 *)
Behind == CASE sec = 1 -> counts[2] + counts[3] [] sec = 2 -> counts[3] [] OTHER -> 0
Total  == counts[1] + counts[2] + counts[3]

SoundInv ==
  /\ pc \in {"start", "select"} => ~Accept(got)
  /\ pc = "questions" => printed = 0 /\ sec = 1
  /\ sound => /\ aligned /\ alarm = "none"
              /\ pc \in {"record", "value", "walk", "walked"} => printed + left + Behind = Total
              /\ pc = "done" /\ Accept(got) => printed = Total
              /\ pc = "walk" => GoodName(role, name)
              /\ pc = "walked" => verdict = "name" /\ GoodName(role, name)

QueryInv ==
  /\ pc = "start" => sent = 0
  /\ pc \in {"start", "select"} => printed = 0 /\ sec = 1

LookupInv == TypeOK /\ WalkInv /\ SoundInv /\ QueryInv

-----------------------------------------------------------------------------
(* Walks in the packet. *)

LEMMA StuckBack ==
  ASSUME NEW o \in Offsets, NEW bad, graph[o] \in Offsets, Stuck(graph[o], bad)
  PROVE  Stuck(o, bad)
<1>1. PICK S \in SUBSET Offsets : graph[o] \in S /\ \A x \in S : graph[x] \in S \cup bad
  BY DEF Stuck
<1> DEFINE U == S \cup {o}
<1>2. U \in SUBSET Offsets /\ o \in U OBVIOUS
<1>3. \A x \in U : graph[x] \in U \cup bad BY <1>1
<1> HIDE DEF U
<1> QED BY <1>2, <1>3 DEF Stuck

LEMMA StuckOn ==
  ASSUME NEW o \in Offsets, NEW bad, Stuck(o, bad), graph[o] \notin bad
  PROVE  graph[o] \in Offsets /\ Stuck(graph[o], bad)
<1>1. PICK S \in SUBSET Offsets : o \in S /\ \A x \in S : graph[x] \in S \cup bad
  BY DEF Stuck
<1>2. graph[o] \in S BY <1>1
<1> QED BY <1>1, <1>2 DEF Stuck

LEMMA StuckAt ==
  ASSUME NEW o \in Offsets, NEW bad, graph[o] \in bad
  PROVE  Stuck(o, bad)
<1> DEFINE S == {o}
<1>1. S \in SUBSET Offsets /\ o \in S /\ \A x \in S : graph[x] \in S \cup bad OBVIOUS
<1> HIDE DEF S
<1> QED BY <1>1 DEF Stuck

LEMMA CyclicIsStuck ==
  ASSUME NEW o, NEW bad, Cyclic(o)
  PROVE  Stuck(o, bad)
BY DEF Cyclic, Stuck

LEMMA OffsetNames ==
  ASSUME NEW o \in Offsets
  PROVE  o \notin {"low", "beyond", "zero", "cut"}
BY DnsLookupAssumption DEF DnsLookupAssumption

LEMMA ZeroNoTarget == "zero" \notin Targets /\ "cut" \notin Targets
BY OffsetNames DEF Targets

LEMMA SeenFits ==
  ASSUME NEW S \in SUBSET Offsets
  PROVE  IsFiniteSet(S) /\ Cardinality(S) \in Nat /\ Cardinality(S) < Size /\ Size \in Nat
BY FS_Subset, FS_CardinalityType, DnsLookupAssumption DEF DnsLookupAssumption

LEMMA OneMore ==
  ASSUME NEW S \in SUBSET Offsets, NEW o \in Offsets \ S
  PROVE  Cardinality(S \cup {o}) = Cardinality(S) + 1
BY FS_AddElement, SeenFits

LEMMA MuteOn ==
  ASSUME NEW o \in Offsets, Mute(o)
  PROVE  graph[o] \in Offsets /\ Mute(graph[o]) /\ o \notin labels /\ Cyclic(o)
<1>1. PICK S \in SUBSET Offsets : o \in S /\ \A x \in S : graph[x] \in S /\ x \notin labels
  BY DEF Mute
<1>2. graph[o] \in S /\ o \notin labels BY <1>1
<1>3. Mute(graph[o]) BY <1>1, <1>2 DEF Mute
<1>4. Cyclic(o) BY <1>1 DEF Cyclic, Stuck
<1> QED BY <1>1, <1>2, <1>3, <1>4

(* A walk that has come round circles from where it began. *)
LEMMA RoundCircles ==
  ASSUME Round
  PROVE  Circles(name.end) /\ Circles(at)
BY DEF Round, Circles, Cyclic, Stuck

LEMMA RoundMute ==
  ASSUME Round, \A x \in seen : x \notin labels
  PROVE  Silent(name.end)
BY DEF Round, Silent, Mute

(* More jumps than bytes are made only in a circle. *)
LEMMA LoopIsRound ==
  ASSUME TypeOK, Listed \/ Fresh \/ Round, firstJump > Size
  PROVE  Round
<1>1. firstJump \in Nat BY DEF TypeOK
<1>2. Size \in Nat /\ Size > 0
  BY SeenFits, FS_EmptySet, DnsLookupAssumption DEF DnsLookupAssumption
<1>3. ~Listed BY <1>1, <1>2 DEF Listed
<1>4. ASSUME Fresh PROVE FALSE
  <2>1. Cardinality(seen) \in Nat /\ Cardinality(seen) < Size BY <1>4, SeenFits DEF Fresh
  <2> QED BY <1>1, <1>2, <1>4, <2>1 DEF Fresh
<1> QED BY <1>3, <1>4

-----------------------------------------------------------------------------
(* A jump. *)

LEMMA FollowStep ==
  ASSUME TypeOK, Listed \/ Fresh \/ Round, ~Loop(at), firstJump <= Size + 1,
         at \in Offsets, graph[at] \in Targets, at' = graph[at],
         firstJump' = firstJump + 1, seen' = seen \cup {at},
         UNCHANGED <<graph, name>>
  PROVE  firstJump' <= Size + 1 /\ (Fresh' \/ Round')
<1>1. firstJump \in Nat /\ Size \in Nat /\ Size > 0
  BY SeenFits, FS_EmptySet, DnsLookupAssumption DEF DnsLookupAssumption, TypeOK
<1>2. CASE Listed
  <2>1. seen' = {at} /\ firstJump' = 2 BY <1>2 DEF Listed
  <2>2. Cardinality(seen') = 1 BY <2>1, FS_Singleton
  <2>3. name'.end = at /\ graph' = graph BY <1>2 DEF Listed
  <2>4. CASE graph[at] = at BY <2>1, <2>3, <2>4, <1>1 DEF Round
  <2>5. CASE graph[at] # at BY <2>1, <2>2, <2>3, <2>5, <1>1 DEF Fresh
  <2> QED BY <2>4, <2>5
<1>3. CASE Fresh
  <2>1. Cardinality(seen') = Cardinality(seen) + 1 BY <1>3, OneMore DEF Fresh
  <2>2. seen' \subseteq Offsets BY <1>3 DEF Fresh
  <2>3. Cardinality(seen) \in Nat /\ Cardinality(seen') < Size
    BY <1>3, <2>2, SeenFits DEF Fresh
  <2>4. firstJump' <= Cardinality(seen') + 1 /\ firstJump' <= Size + 1
    BY <1>1, <1>3, <2>1, <2>3 DEF Fresh
  <2>5. /\ \A x \in seen' : graph[x] \in seen' \cup {at'}
        /\ name'.end \in seen'
    BY <1>3 DEF Fresh
  <2>6. CASE at' \in seen' BY <2>2, <2>4, <2>5, <2>6 DEF Round
  <2>7. CASE at' \notin seen' BY <2>2, <2>4, <2>5, <2>7 DEF Fresh
  <2> QED BY <2>6, <2>7
<1>4. CASE Round
  <2>1. seen' = seen /\ at' \in seen BY <1>4 DEF Round
  <2>2. <<at, at>> \in Contains BY DnsLookupAssumption DEF DnsLookupAssumption
  <2>3. firstJump <= Size BY <1>1, <1>4, <2>2 DEF Round, Loop
  <2>4. Round' BY <1>4, <2>1 DEF Round
  <2> QED BY <1>1, <2>3, <2>4
<1> QED BY <1>2, <1>3, <1>4

LEMMA JumpWalk ==
  ASSUME LookupInv, Jump
  PROVE  /\ WalkInv'
         /\ (GoodName(role, name) /\ pc' = "walked" => verdict' = "name")
<1>1. /\ UNCHANGED <<graph, labels, role, name>>
      /\ name.end \in Targets /\ (Listed \/ Fresh \/ Round)
      /\ Circles(name.end) => Circles(at)
      /\ Clean(name.end) => Clean(at)
      /\ TextInv
      /\ firstJump <= Size + 1
      /\ TypeOK
  BY DEF Jump, LookupInv, WalkInv, packetVars
<1>2. GoodName(role, name) => Clean(name.end)
  BY <1>1, ZeroNoTarget DEF GoodName
<1>3. /\ (Circles(name.end))' <=> Circles(name.end)
      /\ (Clean(name.end))' <=> Clean(name.end)
      /\ (Silent(name.end))' <=> Silent(name.end)
      /\ (Circles(at))' <=> Circles(at')
      /\ (Clean(at))' <=> Clean(at')
      /\ (Silent(at))' <=> Silent(at')
  BY <1>1 DEF Circles, Clean, Silent, Cyclic, Stuck, Mute
<1>4. Silent(name.end) => Circles(name.end) BY MuteOn DEF Silent, Circles
<1>5. SUFFICES \/ /\ pc' = "walked" /\ firstJump' = firstJump
                  /\ verdict' = "random6" <=> ~name.label /\ Silent(name.end)
                  /\ Circles(name.end) => verdict' \in {"random6", "joined"}
                  /\ Clean(name.end) => verdict' = "name"
               \/ /\ pc' = "walk" /\ firstJump' <= Size + 1 /\ (Fresh' \/ Round')
                  /\ Circles(name.end) => Circles(at')
                  /\ Clean(name.end) => Clean(at')
                  /\ ~text' => ~name.label /\ \A x \in seen' : x \notin labels
                  /\ ~name.label /\ Silent(name.end) => Silent(at') /\ ~text'
  <2>1. CASE /\ pc' = "walked" /\ firstJump' = firstJump
             /\ verdict' = "random6" <=> ~name.label /\ Silent(name.end)
             /\ Circles(name.end) => verdict' \in {"random6", "joined"}
             /\ Clean(name.end) => verdict' = "name"
    <3>1. LoopsReported' BY <1>1, <1>3, <2>1 DEF LoopsReported, Circles, Silent
    <3>2. firstJump' <= Size + 1 BY <1>1, <2>1
    <3> QED BY <1>2, <2>1, <3>1, <3>2 DEF WalkInv
  <2>2. CASE /\ pc' = "walk" /\ firstJump' <= Size + 1 /\ (Fresh' \/ Round')
             /\ Circles(name.end) => Circles(at')
             /\ Clean(name.end) => Clean(at')
             /\ ~text' => ~name.label /\ \A x \in seen' : x \notin labels
             /\ ~name.label /\ Silent(name.end) => Silent(at') /\ ~text'
    <3>1. LoopsReported' BY <2>2 DEF LoopsReported
    <3>2. name'.end \in Targets BY <1>1
    <3>3. TextInv' BY <1>1, <1>3, <2>2 DEF TextInv
    <3> QED BY <1>3, <2>2, <3>1, <3>2, <3>3 DEF WalkInv
  <2> QED BY <1>5, <2>1, <2>2
<1>6. CASE Loop(at) /\ Return("random6")
  <2>1. Round BY <1>1, <1>6, LoopIsRound DEF Loop
  <2>2. Circles(name.end) BY <2>1, RoundCircles
  <2>3. ~Clean(name.end) BY <2>2, CyclicIsStuck DEF Circles, Clean
  <2>4. ~text => ~name.label /\ Silent(name.end) BY <1>1, <2>1, RoundMute DEF TextInv
  <2>5. ~name.label /\ Silent(name.end) => ~text BY <1>1 DEF TextInv
  <2>6. verdict' = IF text THEN "joined" ELSE "random6" BY <1>6 DEF Return
  <2> QED BY <1>6, <2>2, <2>3, <2>4, <2>5, <2>6 DEF Return
<1>7. ASSUME NEW v, v \notin {"random6", "name"}, Return(v),
             ~Circles(name.end), ~Clean(name.end)
      PROVE  /\ pc' = "walked" /\ firstJump' = firstJump
             /\ verdict' = "random6" <=> ~name.label /\ Silent(name.end)
             /\ Circles(name.end) => verdict' \in {"random6", "joined"}
             /\ Clean(name.end) => verdict' = "name"
  BY <1>4, <1>7 DEF Return
<1>8. CASE at \in {"low", "beyond"} /\ \E v \in {"random0", "random5", "random7"} : Return(v)
  <2>1. PICK v \in {"random0", "random5", "random7"} : Return(v) BY <1>8
  <2>2. at \notin Offsets BY <1>8, OffsetNames
  <2>3. ~Circles(name.end) /\ ~Clean(name.end) BY <1>1, <2>2 DEF Circles, Clean
  <2> QED BY <1>7, <2>1, <2>3
<1>9. ASSUME at \in Offsets, graph[at] \notin Offsets PROVE ~Circles(name.end)
  BY <1>1, <1>9, StuckOn DEF Circles, Cyclic
<1>10. CASE /\ at \in Offsets /\ graph[at] = "cut"
            /\ Return(IF at = QName THEN "random5" ELSE "random4p1")
  <2>1. graph[at] \notin Offsets BY <1>10, OffsetNames
  <2>2. ~Clean(at) BY <1>10, StuckAt DEF Clean
  <2>3. PICK v \in {"random5", "random4p1"} : Return(v) BY <1>10
  <2>4. ~Clean(name.end) /\ ~Circles(name.end) BY <1>1, <1>9, <1>10, <2>1, <2>2
  <2> QED BY <1>7, <2>3, <2>4
<1>11. CASE at \in Offsets /\ graph[at] = "zero" /\ Return("name")
  <2>1. graph[at] \notin Offsets BY <1>11, OffsetNames
  <2> QED BY <1>1, <1>4, <1>9, <1>11, <2>1 DEF Return
<1>12. CASE /\ ~Loop(at) /\ at \in Offsets /\ graph[at] \in Targets
            /\ at' = graph[at] /\ firstJump' = firstJump + 1 /\ seen' = seen \cup {at}
            /\ text' = (text \/ at \in labels)
            /\ UNCHANGED <<pc, verdict>>
  <2>1. pc' = "walk" BY <1>12 DEF Jump
  <2>2. firstJump' <= Size + 1 /\ (Fresh' \/ Round') BY <1>1, <1>12, FollowStep
  <2>3. Circles(at) => Circles(at') BY <1>12, StuckOn DEF Circles, Cyclic
  <2>4. ASSUME Clean(at) PROVE Clean(at')
    <3>1. graph[at] \notin Bad BY <1>12, <2>4, StuckAt DEF Clean, Bad
    <3>2. graph[at] \in Offsets BY <1>12, <3>1 DEF Bad, Targets
    <3>3. ~Stuck(graph[at], {"cut", "low", "beyond"})
      BY <1>12, <2>4, <3>2, StuckBack DEF Clean
    <3> QED BY <1>12, <3>2, <3>3 DEF Clean
  <2>5. ~text' => ~name.label /\ \A x \in seen' : x \notin labels
    BY <1>1, <1>12 DEF TextInv
  <2>6. ~name.label /\ Silent(name.end) => Silent(at') /\ ~text'
    BY <1>1, <1>12, MuteOn DEF TextInv, Silent
  <2> QED BY <1>1, <2>1, <2>2, <2>3, <2>4, <2>5, <2>6
<1> QED BY <1>6, <1>8, <1>10, <1>11, <1>12 DEF Jump

-----------------------------------------------------------------------------
(* The first call. *)

LEMMA NotOffsetNotClean ==
  ASSUME NEW o, o \notin Offsets
  PROVE  ~Clean(o) /\ ~Circles(o) /\ ~Silent(o)
BY DEF Clean, Circles, Silent

LEMMA CallWalk ==
  ASSUME LookupInv, pc \in {"record", "value"}, NEW r, NEW n \in Names, ReadName(r, n)
  PROVE  /\ WalkInv'
         /\ (GoodName(r, n) /\ pc' = "walked" => verdict' = "name")
<1>1. /\ role' = r /\ name' = n /\ graph' = graph /\ text = FALSE
      /\ seen = {} /\ firstJump = 0 /\ FirstCall(r, n) /\ Size \in Nat
  BY DnsLookupAssumption
     DEF DnsLookupAssumption, ReadName, packetVars, LookupInv, WalkInv
<1>2. ASSUME pc' = "walked", firstJump' = 0,
             n.end \in Offsets => FALSE, verdict' # "random6", GoodName(r, n) => verdict' = "name"
      PROVE  WalkInv' /\ (GoodName(r, n) /\ pc' = "walked" => verdict' = "name")
  BY <1>1, <1>2 DEF WalkInv, LoopsReported
<1>3. /\ "zero" \notin Offsets /\ "cut" \notin Offsets /\ "low" \notin Offsets
      /\ "zero" \notin Targets
  BY OffsetNames, ZeroNoTarget
<1>4. CASE n = Root /\ \E v \in {"random5", "name"} : Return(v)
  <2>1. n.end = "zero" /\ ~n.label BY <1>4 DEF Root
  <2>2. ~GoodName(r, n) BY <1>3, <2>1, NotOffsetNotClean DEF GoodName
  <2>3. pc' = "walked" /\ firstJump' = 0 /\ verdict' # "random6" BY <1>1, <1>4 DEF Return
  <2> QED BY <1>2, <1>3, <2>1, <2>2, <2>3
<1>5. CASE n.end = "cut" /\ \E v \in {"random1", "random4p1"} : Return(v)
  <2>1. ~GoodName(r, n) BY <1>3, <1>5, NotOffsetNotClean DEF GoodName
  <2>2. pc' = "walked" /\ firstJump' = 0 /\ verdict' # "random6" BY <1>1, <1>5 DEF Return
  <2> QED BY <1>2, <1>3, <1>5, <2>1, <2>2
<1>6. CASE n.label /\ n.end = "zero" /\ Return("name")
  <2>1. pc' = "walked" /\ firstJump' = 0 /\ verdict' = "name" BY <1>1, <1>6 DEF Return
  <2> QED BY <1>2, <1>3, <1>6, <2>1
<1>7. CASE n.label /\ n.end = "low" /\ Return("random0")
  <2>1. ~GoodName(r, n) BY <1>3, <1>7, NotOffsetNotClean DEF GoodName
  <2>2. pc' = "walked" /\ firstJump' = 0 /\ verdict' = "random0" BY <1>1, <1>7 DEF Return
  <2> QED BY <1>2, <1>3, <1>7, <2>1, <2>2
<1>8. ASSUME n.end \in Targets, at' = n.end, pc' = "walk", firstJump' \in {0, 1},
             Listed' \/ Fresh', text' = n.label, ~n.label => seen' = {}
      PROVE  WalkInv' /\ (GoodName(r, n) /\ pc' = "walked" => verdict' = "name")
  <2>1. firstJump' <= Size + 1 BY <1>1, <1>8
  <2>2. name'.end = at' BY <1>1, <1>8
  <2>3. (Circles(name.end))' <=> (Circles(at))' BY <2>2 DEF Circles, Cyclic, Stuck
  <2>4. (Clean(name.end))' <=> (Clean(at))' BY <2>2 DEF Clean, Stuck
  <2>5. LoopsReported' BY <1>8 DEF LoopsReported
  <2>6. (Silent(name.end))' <=> (Silent(at))' BY <2>2 DEF Silent, Mute
  <2>7. TextInv' BY <1>1, <1>8, <2>6 DEF TextInv
  <2> QED BY <1>1, <1>8, <2>1, <2>3, <2>4, <2>5, <2>7 DEF WalkInv
<1>9. CASE /\ n.label /\ n.end \in Targets \ {"low"}
           /\ at' = n.end /\ firstJump' = 1 /\ seen' = {n.end} /\ text' = TRUE
           /\ pc' = "walk" /\ UNCHANGED verdict
  <2>1. Listed' BY <1>1, <1>9 DEF Listed
  <2> QED BY <1>8, <1>9, <2>1
<1>10. CASE /\ ~n.label /\ n.end \in Targets
            /\ at' = n.end /\ pc' = "walk" /\ UNCHANGED <<firstJump, seen, text, verdict>>
  <2>1. Cardinality({}) = 0 BY FS_EmptySet
  <2>2. seen' = {} /\ firstJump' = 0 /\ at' = n.end /\ name' = n BY <1>1, <1>10
  <2>3. Fresh' BY <2>1, <2>2 DEF Fresh
  <2>4. text' = n.label
    <3>1. n.label = FALSE BY <1>10 DEF Names
    <3> QED BY <1>1, <1>10, <3>1
  <2> QED BY <1>8, <1>10, <2>2, <2>3, <2>4
<1>11. FirstCall(r, n) BY <1>1
<1> QED BY <1>4, <1>5, <1>6, <1>7, <1>9, <1>10, <1>11 DEF FirstCall

-----------------------------------------------------------------------------
(* The walk in the other steps. *)

LEMMA WalkStays ==
  ASSUME WalkInv, UNCHANGED <<pc, packetVars, walkVars>>
  PROVE  WalkInv'
BY DEF WalkInv, packetVars, walkVars, Circles, Clean, Cyclic, Stuck, Listed, Fresh, Round,
       LoopsReported, TextInv, Silent, Mute

LEMMA WalkIdle ==
  ASSUME WalkInv, pc' \notin {"walk", "walked"}, seen' = {}, firstJump' = 0, text' = FALSE
  PROVE  WalkInv'
<1>1. Size \in Nat BY DnsLookupAssumption DEF DnsLookupAssumption
<1> QED BY <1>1 DEF WalkInv, LoopsReported

LEMMA ParseWalk ==
  ASSUME LookupInv, NEW s \in Sections, Section(s)
  PROVE  WalkInv'
<1>1. WalkInv BY DEF LookupInv
<1>2. CASE ReadOwner BY <1>2, CallWalk DEF ReadOwner
<1>3. CASE ReadValue BY <1>3, CallWalk DEF ReadValue
<1>4. CASE Header
  <2>1. seen' = {} /\ firstJump' = 0 /\ text' = FALSE BY <1>4 DEF Header, ResetWalk
  <2>2. pc' \in {"done", "record", "value"} BY <1>4 DEF Header, Terminate, RecordRead
  <2> QED BY <1>1, <2>1, <2>2, WalkIdle
<1>5. CASE Value
  <2>1. seen' = {} /\ firstJump' = 0 /\ text' = FALSE BY <1>5 DEF Value, ResetWalk
  <2>2. pc' \in {"done", "record"} BY <1>5 DEF Value, Terminate, RecordRead
  <2> QED BY <1>1, <2>1, <2>2, WalkIdle
<1>6. CASE SectionEnd
  <2>1. seen' = {} /\ firstJump' = 0 /\ text' = FALSE BY <1>1, <1>6 DEF SectionEnd, walkVars, WalkInv
  <2>2. pc' \in {"done", "record"} BY <1>6 DEF SectionEnd
  <2> QED BY <1>1, <2>1, <2>2, WalkIdle
<1> QED BY <1>2, <1>3, <1>4, <1>5, <1>6 DEF Section

LEMMA WalkStep ==
  ASSUME LookupInv, [Next]_vars
  PROVE  WalkInv'
<1>1. WalkInv BY DEF LookupInv
<1>2. CASE UNCHANGED <<pc, packetVars, walkVars>> BY <1>1, <1>2, WalkStays
<1>3. CASE Answer \/ Lose BY <1>2, <1>3 DEF Answer, Lose
<1>4. CASE UNCHANGED vars BY <1>2, <1>4 DEF vars
<1>5. ASSUME pc \in {"start", "select", "questions"}, UNCHANGED walkVars,
             pc' \notin {"walk", "walked"}
      PROVE  WalkInv'
  BY <1>1, <1>5, WalkIdle DEF WalkInv, walkVars
<1>6. CASE SendQuery BY <1>5, <1>6 DEF SendQuery
<1>7. CASE Timeout
  <2>1. pc = "select" /\ UNCHANGED walkVars /\ pc' \in {"select", "done"}
    BY <1>7 DEF Timeout, Again
  <2> QED BY <1>5, <2>1
<1>8. CASE ReceiveError BY <1>5, <1>8 DEF ReceiveError
<1>9. CASE ReceiveAnswer \/ ReceiveStray
  <2>1. PICK d \in Datagrams : Receive(d) BY <1>9 DEF ReceiveAnswer, ReceiveStray
  <2>2. pc = "select" /\ UNCHANGED walkVars /\ pc' \in {"questions", "done"}
    BY <2>1 DEF Receive
  <2> QED BY <1>5, <2>2
<1>10. CASE Questions
  <2>1. pc = "questions" /\ UNCHANGED walkVars /\ pc' \in {"record", "done"}
    BY <1>10 DEF Questions, Terminate
  <2> QED BY <1>5, <2>1
<1>11. CASE Answers \/ Authority \/ Additional
  BY <1>11, ParseWalk DEF Answers, Authority, Additional, Sections
<1>12. CASE Jump BY <1>12, JumpWalk
<1> QED BY <1>3, <1>4, <1>6, <1>7, <1>8, <1>9, <1>10, <1>11, <1>12 DEF Next, Client, Parse

-----------------------------------------------------------------------------
(* Types. *)

LEMMA RootName == Root \in Names
BY DEF Root, Names, Ends

LEMMA FirstCallType ==
  ASSUME TypeOK, NEW r, NEW n \in Names, FirstCall(r, n)
  PROVE  /\ pc' \in {"walk", "walked"}
         /\ at' \in Targets /\ firstJump' \in Nat /\ seen' \subseteq Targets /\ text' \in BOOLEAN
         /\ verdict' \in Verdicts \cup {"none"} /\ (pc' = "walked" => verdict' \in Verdicts)
<1>1. ASSUME NEW v \in {"name", "random0", "random1", "random4p1", "random5"}, Return(v)
      PROVE  /\ pc' = "walked" /\ verdict' \in Verdicts
             /\ UNCHANGED <<at, firstJump, seen, text>>
  BY <1>1 DEF Return, Verdicts
<1>2. CASE \E v \in {"name", "random0", "random1", "random4p1", "random5"} : Return(v)
  BY <1>1, <1>2 DEF TypeOK
<1>3. CASE /\ n.end \in Targets /\ at' = n.end /\ pc' = "walk" /\ UNCHANGED verdict
           /\ \/ firstJump' = 1 /\ seen' = {n.end} /\ text' = TRUE
              \/ UNCHANGED <<firstJump, seen, text>>
  <2>1. /\ firstJump \in Nat /\ seen \subseteq Targets /\ text \in BOOLEAN
        /\ verdict \in Verdicts \cup {"none"}
    BY DEF TypeOK
  <2>2. firstJump' \in Nat /\ seen' \subseteq Targets /\ text' \in BOOLEAN
    <3>1. CASE firstJump' = 1 /\ seen' = {n.end} /\ text' = TRUE BY <1>3, <3>1
    <3>2. CASE UNCHANGED <<firstJump, seen, text>> BY <2>1, <3>2
    <3> QED BY <1>3, <3>1, <3>2
  <2> QED BY <1>3, <2>1, <2>2
<1>4. ASSUME NEW v \in {"random5", "name"}, Return(v)
      PROVE  \E x \in {"name", "random0", "random1", "random4p1", "random5"} : Return(x)
  BY <1>4
<1>5. FirstCall(r, n) OBVIOUS
<1> QED BY <1>2, <1>3, <1>4, <1>5 DEF FirstCall

LEMMA ReadNameType ==
  ASSUME TypeOK, NEW r \in {"owner", "value"}, NEW n \in Names, ReadName(r, n),
         pc \in {"record", "value"}, left > 0
  PROVE  TypeOK'
<1>1. /\ pc' \in {"walk", "walked"}
      /\ at' \in Targets /\ firstJump' \in Nat /\ seen' \subseteq Targets /\ text' \in BOOLEAN
      /\ verdict' \in Verdicts \cup {"none"} /\ (pc' = "walked" => verdict' \in Verdicts)
  BY FirstCallType DEF ReadName
<1>2. sound' \in BOOLEAN BY DEF ReadName
<1> QED BY <1>1, <1>2 DEF ReadName, TypeOK, Parsing, netVars, packetVars, loopVars

LEMMA ResetType ==
  ASSUME ResetWalk
  PROVE  /\ name' \in Names /\ at' \in Targets /\ firstJump' \in Nat
         /\ seen' \subseteq Targets /\ text' = FALSE /\ verdict' = "none"
BY RootName, DnsLookupAssumption DEF DnsLookupAssumption, ResetWalk, Targets

LEMMA JumpType ==
  ASSUME TypeOK, Jump
  PROVE  TypeOK'
<1>1. /\ pc' \in {"walk", "walked"} /\ left > 0 /\ sec \in Sections
      /\ at' \in Targets /\ firstJump' \in Nat /\ seen' \subseteq Targets /\ text' \in BOOLEAN
      /\ verdict' \in Verdicts \cup {"none"} /\ (pc' = "walked" => verdict' \in Verdicts)
  <2>1. ASSUME NEW v \in {"name", "random0", "random4p1", "random5", "random6", "random7"},
               Return(v)
        PROVE  /\ pc' = "walked" /\ verdict' \in Verdicts
               /\ UNCHANGED <<at, firstJump, seen, text>>
    BY <2>1 DEF Return, Verdicts
  <2>2. pc = "walk" /\ left > 0 /\ sec \in Sections BY DEF Jump, TypeOK, Parsing
  <2>3. CASE UNCHANGED pc
    <3>1. ASSUME NEW v, Return(v) PROVE FALSE BY <2>2, <2>3, <3>1 DEF Return
    <3>2. /\ at' = graph[at] /\ graph[at] \in Targets /\ firstJump' = firstJump + 1
          /\ seen' = seen \cup {at} /\ text' = (text \/ at \in labels) /\ UNCHANGED verdict
      BY <3>1 DEF Jump
    <3> QED BY <2>2, <2>3, <3>2 DEF TypeOK
  <2>4. CASE pc' # pc
    <3>1. PICK v \in {"name", "random0", "random4p1", "random5", "random6", "random7"} : Return(v)
      BY <2>4 DEF Jump
    <3> QED BY <2>1, <2>2, <3>1 DEF TypeOK
  <2> QED BY <2>3, <2>4
<1> QED BY <1>1 DEF TypeOK, Jump, Parsing, netVars, packetVars, loopVars, printVars

LEMMA LandsType ==
  ASSUME NEW r, NEW n
  PROVE  Lands(r, n) \in BOOLEAN /\ Arrives \in BOOLEAN
BY DEF Lands, Arrives

LEMMA HeaderType ==
  ASSUME TypeOK, Header
  PROVE  TypeOK'
<1> USE LandsType, ResetType DEF Header
<1>1. /\ UNCHANGED <<count, netVars, packetVars>> /\ ResetWalk
      /\ sec \in Sections /\ left \in 1..MaxRecords /\ MaxRecords \in Nat
      /\ verdict \in Verdicts
  BY DnsLookupAssumption DEF DnsLookupAssumption, TypeOK, Parsing
<1>2. role' \in {"owner", "value"} BY DEF TypeOK
<1>3. sound' \in BOOLEAN /\ aligned' \in BOOLEAN
  BY DEF TypeOK, Terminate, RecordRead
<1>4. /\ pc' \in {"done", "record", "value"} /\ sec' = sec
      /\ left' \in 0..MaxRecords /\ (pc' = "value" => left' > 0)
      /\ printed' \in Nat
  <2>1. sec' = sec /\ left' \in {left, left - 1} /\ printed' \in {printed, printed + 1}
    BY DEF Terminate, RecordRead, loopVars
  <2>2. pc' \in {"done", "record", "value"} /\ (pc' = "value" => left' = left)
    BY DEF Terminate, RecordRead, loopVars
  <2> QED BY <1>1, <2>1, <2>2 DEF TypeOK
<1>5. alarm' \in Verdicts \cup {"none", "random4p2", "random4p3"}
  BY <1>1 DEF TypeOK, Terminate, RecordRead
<1> QED BY <1>1, <1>2, <1>3, <1>4, <1>5 DEF TypeOK, netVars, packetVars, Parsing, Sections

LEMMA ValueType ==
  ASSUME TypeOK, Value
  PROVE  TypeOK'
<1> USE LandsType, ResetType DEF Value
<1>1. /\ UNCHANGED <<count, netVars, packetVars>> /\ ResetWalk /\ role' = "owner"
      /\ sec \in Sections /\ left \in 1..MaxRecords /\ MaxRecords \in Nat
      /\ verdict \in Verdicts
  BY DnsLookupAssumption DEF DnsLookupAssumption, TypeOK, Parsing
<1>2. sound' \in BOOLEAN /\ aligned' \in BOOLEAN
  BY DEF TypeOK, Terminate
<1>3. /\ pc' \in {"done", "record"} /\ sec' = sec
      /\ left' \in 0..MaxRecords /\ printed' \in Nat
  BY <1>1 DEF TypeOK, Terminate, RecordRead, loopVars
<1>4. alarm' \in Verdicts \cup {"none", "random4p2", "random4p3"}
  BY <1>1 DEF TypeOK, Terminate, RecordRead
<1> QED BY <1>1, <1>2, <1>3, <1>4 DEF TypeOK, netVars, packetVars, Parsing, Sections

LEMMA SectionEndType ==
  ASSUME TypeOK, SectionEnd
  PROVE  TypeOK'
<1>1. sec \in Sections BY DEF TypeOK, SectionEnd, Parsing
<1>2. counts \in [Sections -> 0..MaxRecords] BY DEF TypeOK, Counts
<1>3. /\ sec' \in 1..4 /\ left' \in 0..MaxRecords /\ pc' \in {"record", "done"}
      /\ (pc' = "record" => sec' \in Sections)
  BY <1>1, <1>2, DnsLookupAssumption DEF DnsLookupAssumption, SectionEnd, Sections
<1> QED BY <1>3
        DEF SectionEnd, TypeOK, Parsing, netVars, packetVars, walkVars, printVars

LEMMA QuestionsType ==
  ASSUME TypeOK, Questions
  PROVE  TypeOK'
<1>1. counts \in [Sections -> 0..MaxRecords] /\ MaxRecords \in Nat
  BY DnsLookupAssumption DEF DnsLookupAssumption, TypeOK, Counts
<1>2. counts[1] \in 0..MaxRecords /\ sec \in Sections
  BY <1>1 DEF Sections, TypeOK, Questions, Parsing
<1>3. /\ pc' \in {"record", "done"} /\ sec' = sec /\ left' \in 0..MaxRecords
      /\ sound' \in BOOLEAN /\ aligned' \in BOOLEAN /\ printed' = printed
      /\ alarm' \in Verdicts \cup {"none", "random4p2", "random4p3"}
  BY <1>2 DEF Questions, Terminate, loopVars, printVars, TypeOK
<1> QED BY <1>2, <1>3 DEF Questions, TypeOK, Parsing, netVars, packetVars, walkVars

LEMMA ReceiveType ==
  ASSUME TypeOK, NEW d \in Datagrams, Receive(d), sec = 1,
         net' \in {"none", "query", "reply", "read", "lost"}
  PROVE  TypeOK'
<1>1. /\ pc' \in {"questions", "done"} /\ got' \in Datagrams
      /\ graph' \in [Offsets -> Ends] /\ labels' \subseteq Offsets /\ counts' \in Counts
  BY DEF Receive, TypeOK, packetVars
<1>2. UNCHANGED <<count, sent, loopVars, walkVars, printVars>> BY DEF Receive
<1> QED BY <1>1, <1>2 DEF TypeOK, Parsing, loopVars, walkVars, printVars, Sections

LEMMA TypeStep ==
  ASSUME TypeOK, QueryInv, [Next]_vars
  PROVE  TypeOK'
<1> USE DEF TypeOK, Parsing
<1>1. CASE SendQuery
  <2>1. sent = 0 /\ 1 \in 0..MAX_ATTEMPTS
    BY <1>1, DnsLookupAssumption DEF DnsLookupAssumption, SendQuery, QueryInv
  <2> QED BY <1>1, <2>1 DEF SendQuery, packetVars, loopVars, walkVars, printVars
<1>2. CASE Timeout
  <2>1. count' \in 0..MAX_ATTEMPTS /\ pc' \in {"select", "done"}
    BY <1>2, DnsLookupAssumption DEF DnsLookupAssumption, Timeout, Again
  <2> QED BY <1>2, <2>1 DEF Timeout, netVars, packetVars, loopVars, walkVars, printVars
<1>3. CASE ReceiveAnswer
  <2>1. PICK d \in Datagrams : Receive(d) BY <1>3 DEF ReceiveAnswer
  <2>2. sec = 1 /\ net' = "read" BY <1>3, <2>1 DEF ReceiveAnswer, Receive, QueryInv
  <2> QED BY <2>1, <2>2, ReceiveType
<1>4. CASE ReceiveStray
  <2>1. PICK d \in Datagrams : Receive(d) BY <1>4 DEF ReceiveStray
  <2>2. sec = 1 /\ net' = net BY <1>4, <2>1 DEF ReceiveStray, Receive, QueryInv
  <2> QED BY <2>1, <2>2, ReceiveType
<1>5. CASE ReceiveError
  BY <1>5 DEF ReceiveError, netVars, packetVars, loopVars, walkVars, printVars
<1>6. CASE Answer
  BY <1>6 DEF Answer, packetVars, loopVars, walkVars, printVars
<1>7. CASE Lose
  BY <1>7 DEF Lose, packetVars, loopVars, walkVars, printVars
<1>8. ASSUME NEW s \in Sections, Section(s) PROVE TypeOK'
  <2>1. CASE ReadOwner BY <2>1, ReadNameType DEF ReadOwner
  <2>2. CASE ReadValue BY <2>2, ReadNameType DEF ReadValue
  <2> QED BY <1>8, <2>1, <2>2, HeaderType, ValueType, SectionEndType DEF Section
<1>9. CASE Answers \/ Authority \/ Additional
  BY <1>8, <1>9 DEF Answers, Authority, Additional, Sections
<1>10. CASE UNCHANGED vars
  BY <1>10 DEF vars, netVars, packetVars, loopVars, walkVars, printVars
<1> QED BY <1>1, <1>2, <1>3, <1>4, <1>5, <1>6, <1>7, <1>9, <1>10, QuestionsType, JumpType
        DEF Next, Client, Parse

-----------------------------------------------------------------------------
(* Sound replies. *)

LEMMA GoodLands ==
  ASSUME NEW r \in {"owner", "value"}, NEW n \in Names, GoodName(r, n)
  PROVE  Lands(r, n)
<1>1. CASE n.label /\ n.end = "zero"
  BY <1>1, ZeroNoTarget DEF GoodName, Lands, Landing, Early
<1>2. CASE Clean(n.end) /\ (n.label <=> r = "value")
  <2>1. n.end \in Targets /\ n.end # "zero" BY <1>2, OffsetNames DEF Clean, Targets
  <2> QED BY <1>2, <2>1 DEF GoodName, Lands, Landing, Early
<1> QED BY <1>1, <1>2 DEF GoodName

LEMMA GoodStays ==
  ASSUME UNCHANGED <<role, name, graph>>
  PROVE  (GoodName(role, name))' <=> GoodName(role, name)
BY DEF GoodName, Clean, Stuck

LEMMA Counted ==
  ASSUME TypeOK
  PROVE  /\ counts[1] \in Nat /\ counts[2] \in Nat /\ counts[3] \in Nat
         /\ left \in Nat /\ printed \in Nat /\ Behind \in Nat
<1>1. counts \in [Sections -> 0..MaxRecords] /\ MaxRecords \in Nat
  BY DnsLookupAssumption DEF DnsLookupAssumption, TypeOK, Counts
<1>2. counts[1] \in Nat /\ counts[2] \in Nat /\ counts[3] \in Nat BY <1>1 DEF Sections
<1> QED BY <1>1, <1>2 DEF TypeOK, Behind

LEMMA SameCounts ==
  ASSUME UNCHANGED <<counts, sec>>
  PROVE  Behind' = Behind /\ Total' = Total
BY DEF Behind, Total

LEMMA ReadNameSound ==
  ASSUME LookupInv, NEW r \in {"owner", "value"}, NEW n \in Names, ReadName(r, n),
         pc \in {"record", "value"}
  PROVE  SoundInv'
<1>1. /\ pc' \in {"walk", "walked"} /\ role' = r /\ name' = n /\ graph' = graph
      /\ sound' => sound /\ GoodName(r, n)
      /\ UNCHANGED <<counts, sec, left, printed, aligned, alarm>>
  <2>1. pc' \in {"walk", "walked"} BY FirstCallType DEF LookupInv, ReadName
  <2> QED BY <2>1 DEF ReadName, packetVars, loopVars
<1>2. (GoodName(role, name))' <=> GoodName(r, n) BY <1>1 DEF GoodName, Clean, Stuck
<1>3. GoodName(r, n) /\ pc' = "walked" => verdict' = "name" BY CallWalk
<1>4. sound => aligned /\ alarm = "none" /\ printed + left + Behind = Total
  BY DEF LookupInv, SoundInv
<1> QED BY <1>1, <1>2, <1>3, <1>4, SameCounts DEF SoundInv

LEMMA JumpSound ==
  ASSUME LookupInv, Jump
  PROVE  SoundInv'
<1>1. /\ pc = "walk" /\ pc' \in {"walk", "walked"}
      /\ UNCHANGED <<role, name, graph, counts, sec, left, sound, printed, aligned, alarm>>
  BY DEF Jump, Return, packetVars, loopVars, printVars
<1>2. (GoodName(role, name))' <=> GoodName(role, name) BY <1>1, GoodStays
<1>3. GoodName(role, name) /\ pc' = "walked" => verdict' = "name" BY JumpWalk
<1>4. sound => /\ aligned /\ alarm = "none" /\ printed + left + Behind = Total
               /\ GoodName(role, name)
  BY <1>1 DEF LookupInv, SoundInv
<1> QED BY <1>1, <1>2, <1>3, <1>4, SameCounts DEF SoundInv

(* A record has been read, or the parser goes on to its value. *)
LEMMA RecordSound ==
  ASSUME LookupInv, pc = "walked", UNCHANGED <<counts, sec>>,
         sound' => sound /\ alarm' = alarm /\ aligned' = (aligned /\ Arrives),
         \/ pc' = "record" /\ left' = left - 1 /\ (sound' => printed' = printed + 1)
         \/ pc' = "value" /\ left' = left /\ printed' = printed
         \/ pc' = "done" /\ ~sound'
  PROVE  SoundInv'
<1>1. sound => /\ aligned /\ alarm = "none" /\ printed + left + Behind = Total
               /\ GoodName(role, name) /\ verdict = "name"
  BY DEF LookupInv, SoundInv
<1>2. role \in {"owner", "value"} /\ name \in Names BY DEF LookupInv, TypeOK
<1>3. sound' => aligned' /\ alarm' = "none" BY <1>1, <1>2, GoodLands DEF Arrives
<1>4. sound' /\ pc' # "done" => printed' + left' + Behind = Total
  BY <1>1, Counted DEF LookupInv
<1> QED BY <1>3, <1>4, SameCounts DEF SoundInv

LEMMA HeaderSound ==
  ASSUME LookupInv, Header
  PROVE  SoundInv'
<1>1. pc = "walked" /\ UNCHANGED counts /\ (sound => verdict = "name") /\ sound \in BOOLEAN
  BY DEF Header, packetVars, LookupInv, SoundInv, TypeOK
<1>2. PICK cut \in Truncated :
        \/ /\ Failed \/ cut
           /\ Terminate(IF cut THEN "random4p2" ELSE verdict)
           /\ sound' = (sound /\ ~cut) /\ UNCHANGED role
        \/ /\ ~Failed /\ ~cut
           /\ \/ \E bytes \in 0..4 :
                   /\ sound' = (sound /\ bytes = 4)
                   /\ IF bytes = 0 THEN Terminate("random4p3")
                      ELSE /\ RecordRead /\ printed' = printed + 1
                           /\ aligned' = (aligned /\ Arrives)
                   /\ UNCHANGED role
              \/ /\ pc' = "value" /\ role' = "value"
                 /\ aligned' = (aligned /\ Arrives)
                 /\ UNCHANGED <<loopVars, sound, printed, alarm>>
              \/ /\ RecordRead /\ aligned' = FALSE /\ sound' = FALSE
                 /\ UNCHANGED <<printed, role>>
  BY DEF Header
<1>3. UNCHANGED sec BY <1>2 DEF Terminate, RecordRead, loopVars
<1>4. CASE /\ Failed \/ cut
           /\ Terminate(IF cut THEN "random4p2" ELSE verdict)
           /\ sound' = (sound /\ ~cut) /\ UNCHANGED role
  <2>1. pc' = "done" /\ ~sound' BY <1>1, <1>4 DEF Terminate, Failed
  <2> QED BY <1>1, <1>3, <2>1, RecordSound
<1>5. ASSUME NEW bytes \in 0..4, sound' = (sound /\ bytes = 4),
             IF bytes = 0 THEN Terminate("random4p3")
             ELSE /\ RecordRead /\ printed' = printed + 1
                  /\ aligned' = (aligned /\ Arrives)
      PROVE  SoundInv'
  <2>1. CASE bytes = 0
    <3>1. pc' = "done" BY <1>5, <2>1 DEF Terminate
    <3>2. ~sound'
      <4>1. bytes # 4 BY <2>1
      <4>2. sound' = (sound /\ bytes = 4) BY <1>5
      <4> QED BY <4>1, <4>2, Zenon
    <3> QED BY <1>1, <1>3, <3>1, <3>2, RecordSound
  <2>2. CASE bytes # 0 BY <1>1, <1>3, <1>5, <2>2, RecordSound DEF RecordRead
  <2> QED BY <2>1, <2>2
<1>6. CASE /\ pc' = "value" /\ role' = "value"
           /\ aligned' = (aligned /\ Arrives)
           /\ UNCHANGED <<loopVars, sound, printed, alarm>>
  BY <1>1, <1>3, <1>6, RecordSound DEF loopVars
<1>7. CASE /\ RecordRead /\ aligned' = FALSE /\ sound' = FALSE
           /\ UNCHANGED <<printed, role>>
  BY <1>1, <1>3, <1>7, RecordSound DEF RecordRead
<1> QED BY <1>2, <1>4, <1>5, <1>6, <1>7

LEMMA ValueSound ==
  ASSUME LookupInv, Value
  PROVE  SoundInv'
<1>1. pc = "walked" /\ UNCHANGED counts /\ (sound => verdict = "name") /\ sound \in BOOLEAN
  BY DEF Value, packetVars, LookupInv, SoundInv, TypeOK
<1>2. PICK cut \in Truncated :
        /\ sound' = (sound /\ ~cut)
        /\ IF Failed \/ cut
           THEN Terminate(IF cut THEN "random4p2" ELSE verdict)
           ELSE /\ RecordRead /\ printed' = printed + 1
                /\ aligned' = (aligned /\ Arrives)
  BY DEF Value
<1>3. UNCHANGED sec BY <1>2 DEF Terminate, RecordRead, loopVars
<1>4. CASE Failed \/ cut
  <2>1. pc' = "done" /\ ~sound' BY <1>1, <1>2, <1>4 DEF Terminate, Failed
  <2> QED BY <1>1, <1>3, <2>1, RecordSound
<1>5. CASE ~(Failed \/ cut)
  BY <1>1, <1>2, <1>3, <1>5, RecordSound DEF RecordRead
<1> QED BY <1>4, <1>5

LEMMA SectionEndSound ==
  ASSUME LookupInv, NEW s \in Sections, sec = s, SectionEnd
  PROVE  SoundInv'
<1>1. UNCHANGED <<counts, got, sound, aligned, alarm, printed>>
  BY DEF SectionEnd, netVars, packetVars, printVars
<1>2. sound => aligned /\ alarm = "none" /\ printed + Behind = Total
  BY Counted DEF LookupInv, SoundInv, SectionEnd
<1>3. CASE sec < 3
  <2>1. pc' = "record" /\ left' = counts[sec + 1] /\ sec' = sec + 1 BY <1>3 DEF SectionEnd
  <2>2. left' + Behind' = Behind
    BY <1>1, <1>3, <2>1, Counted DEF LookupInv, Behind, Sections
  <2>3. left' \in Nat /\ Behind' \in Nat /\ printed \in Nat /\ Total' = Total
    BY <1>1, <1>3, <2>1, Counted DEF LookupInv, Behind, Sections, Total
  <2> QED BY <1>1, <1>2, <2>1, <2>2, <2>3 DEF SoundInv
<1>4. CASE sec = 3
  <2>1. pc' = "done" /\ Behind = 0 BY <1>4 DEF SectionEnd, Behind
  <2>2. sound => printed = Total BY <1>2, <2>1, Counted DEF LookupInv
  <2>3. Total' = Total BY <1>1 DEF Total
  <2> QED BY <1>1, <1>2, <2>1, <2>2, <2>3 DEF SoundInv
<1> QED BY <1>3, <1>4 DEF Sections

LEMMA QuestionsSound ==
  ASSUME LookupInv, Questions
  PROVE  SoundInv'
<1>1. printed = 0 /\ sec = 1 /\ UNCHANGED <<counts, graph, got>>
  BY DEF Questions, LookupInv, SoundInv, netVars, packetVars
<1>2. CASE pc' = "record" /\ left' = counts[1] /\ UNCHANGED <<sec, printVars>>
  <2>1. left' + Behind' = Total' /\ printed' = 0 /\ Total' \in Nat
    BY <1>1, <1>2, Counted DEF LookupInv, Behind, Total, printVars
  <2>2. sound' => aligned' /\ alarm' = "none"
    BY <1>2 DEF LookupInv, SoundInv, printVars
  <2>3. printed' + left' + Behind' = Total'
    BY <1>1, <1>2, <2>1, Counted DEF LookupInv, Behind, Total
  <2> QED BY <1>2, <2>2, <2>3 DEF SoundInv
<1>3. CASE sound' = FALSE /\ pc' \in {"record", "done"} BY <1>3 DEF SoundInv
<1> QED BY <1>2, <1>3 DEF Questions, Terminate

LEMMA ReceiveSound ==
  ASSUME LookupInv, NEW d \in Datagrams, Receive(d)
  PROVE  SoundInv'
<1>1. /\ pc = "select" /\ got' = d /\ UNCHANGED <<sec, sound, aligned, printed, alarm>>
      /\ printed = 0 /\ sec = 1
      /\ sound => aligned /\ alarm = "none"
  BY DEF Receive, loopVars, printVars, LookupInv, QueryInv, SoundInv
<1>2. CASE Accept(d) BY <1>1, <1>2 DEF Receive, SoundInv
<1>3. CASE ~Accept(d)
  <2>1. pc' = "done" /\ ~(Accept(got))' BY <1>1, <1>3 DEF Receive, Accept
  <2> QED BY <1>1, <2>1 DEF SoundInv
<1> QED BY <1>2, <1>3

LEMMA SoundStep ==
  ASSUME LookupInv, [Next]_vars
  PROVE  SoundInv'
<1>1. SoundInv BY DEF LookupInv
<1>2. CASE ReceiveAnswer \/ ReceiveStray
  BY <1>2, ReceiveSound DEF ReceiveAnswer, ReceiveStray
<1>3. CASE SendQuery \/ Timeout \/ ReceiveError
  <2>1. /\ pc \in {"start", "select"} /\ pc' \in {"select", "done"} /\ got' = got
        /\ UNCHANGED <<sound, aligned, alarm>>
    BY <1>3 DEF SendQuery, Timeout, Again, ReceiveError, netVars, printVars
  <2> QED BY <1>1, <2>1 DEF SoundInv, Accept
<1>4. CASE UNCHANGED <<pc, got, packetVars, loopVars, walkVars, printVars>>
  <2>1. /\ UNCHANGED <<pc, got, graph, counts, sec, left, role, name, verdict>>
        /\ UNCHANGED <<sound, aligned, printed, alarm>>
    BY <1>4 DEF packetVars, loopVars, walkVars, printVars
  <2> QED BY <1>1, <2>1, GoodStays, SameCounts DEF SoundInv, Accept
<1>5. CASE Answer \/ Lose \/ UNCHANGED vars
  BY <1>4, <1>5 DEF Answer, Lose, vars, netVars
<1>6. ASSUME NEW s \in Sections, Section(s) PROVE SoundInv'
  <2>1. CASE ReadOwner BY <2>1, ReadNameSound DEF ReadOwner
  <2>2. CASE ReadValue BY <2>2, ReadNameSound DEF ReadValue
  <2> QED BY <1>6, <2>1, <2>2, HeaderSound, ValueSound, SectionEndSound DEF Section
<1>7. CASE Answers \/ Authority \/ Additional
  BY <1>6, <1>7 DEF Answers, Authority, Additional, Sections
<1> QED BY <1>2, <1>3, <1>5, <1>7, QuestionsSound, JumpSound DEF Next, Client, Parse

-----------------------------------------------------------------------------
(* The query. *)

LEMMA ParseQuery ==
  ASSUME LookupInv, Parse
  PROVE  QueryInv'
<1>1. pc \in Parsing /\ pc' \in Parsing \cup {"done"} /\ UNCHANGED <<count, netVars>>
  <2>1. CASE Questions BY <2>1 DEF Questions, Terminate, Parsing
  <2>2. CASE Jump BY <2>2 DEF Jump, Return, Parsing
  <2>3. ASSUME NEW s \in Sections, Section(s)
        PROVE  pc \in Parsing /\ pc' \in Parsing \cup {"done"} /\ UNCHANGED <<count, netVars>>
    <3>1. CASE ReadOwner
      BY <3>1, FirstCallType DEF ReadOwner, ReadName, Parsing, LookupInv
    <3>2. CASE ReadValue
      BY <3>2, FirstCallType DEF ReadValue, ReadName, Parsing, LookupInv
    <3>3. CASE Header BY <3>3 DEF Header, Terminate, RecordRead, Parsing
    <3>4. CASE Value BY <3>4 DEF Value, Terminate, RecordRead, Parsing
    <3>5. CASE SectionEnd BY <3>5 DEF SectionEnd, Parsing
    <3> QED BY <2>3, <3>1, <3>2, <3>3, <3>4, <3>5 DEF Section
  <2> QED BY <2>1, <2>2, <2>3 DEF Parse, Answers, Authority, Additional, Sections
<1> QED BY <1>1 DEF QueryInv, Parsing

LEMMA QueryStep ==
  ASSUME LookupInv, [Next]_vars
  PROVE  QueryInv'
<1> USE DEF LookupInv, QueryInv, printVars, loopVars
<1>1. CASE SendQuery BY <1>1 DEF SendQuery
<1>2. CASE Timeout
  <2>1. pc = "select" /\ pc' \in {"select", "done"} /\ UNCHANGED <<sec, printed>>
    BY <1>2 DEF Timeout, Again
  <2> QED BY <2>1
<1>3. CASE ReceiveError BY <1>3 DEF ReceiveError
<1>4. CASE ReceiveAnswer \/ ReceiveStray
  <2>1. PICK d \in Datagrams : Receive(d) BY <1>4 DEF ReceiveAnswer, ReceiveStray
  <2> QED BY <2>1 DEF Receive
<1>5. CASE Answer \/ Lose BY <1>5 DEF Answer, Lose
<1>6. CASE UNCHANGED vars BY <1>6 DEF vars, netVars
<1> QED BY <1>1, <1>2, <1>3, <1>4, <1>5, <1>6, ParseQuery DEF Next, Client

-----------------------------------------------------------------------------
(* Results. *)

LEMMA InitInv == Init => LookupInv
<1> SUFFICES ASSUME Init PROVE LookupInv
  OBVIOUS
<1>1. TypeOK
  <2>1. graph \in [Offsets -> Ends] /\ labels \subseteq Offsets BY DEF Init, Ends
  <2>2. counts \in Counts /\ got \in Datagrams /\ sec \in 1..4 /\ left \in 0..MaxRecords
    BY DnsLookupAssumption DEF DnsLookupAssumption, Init, Counts, Sections, Datagrams
  <2>3. /\ role \in {"owner", "value"} /\ name \in Names /\ at \in Targets
        /\ firstJump \in Nat /\ seen \subseteq Targets /\ text \in BOOLEAN
        /\ verdict \in Verdicts \cup {"none"}
    BY RootName, DnsLookupAssumption DEF DnsLookupAssumption, Init, Targets
  <2>4. /\ pc = "start" /\ count \in 0..MAX_ATTEMPTS /\ sent = 0 /\ net = "none"
        /\ aligned \in BOOLEAN /\ sound \in BOOLEAN /\ printed \in Nat /\ alarm = "none"
    BY DnsLookupAssumption DEF DnsLookupAssumption, Init
  <2> QED BY <2>1, <2>2, <2>3, <2>4 DEF TypeOK, Parsing
<1>2. WalkInv BY DnsLookupAssumption DEF DnsLookupAssumption, Init, WalkInv, LoopsReported
<1>3. SoundInv BY DEF Init, SoundInv, Accept
<1>4. QueryInv BY DEF Init, QueryInv, Parsing
<1> QED BY <1>1, <1>2, <1>3, <1>4 DEF LookupInv

(* The inductive invariant: types, where the walk stands among the offsets  *)
(* it has listed, what remains of a sound reply, and the query.             *)
THEOREM Invariance == Spec => []LookupInv
<1>1. ASSUME LookupInv, [Next]_vars PROVE LookupInv'
  <2>1. TypeOK' BY <1>1, TypeStep DEF LookupInv
  <2> QED BY <1>1, <2>1, WalkStep, SoundStep, QueryStep DEF LookupInv
<1> QED BY <1>1, InitInv, PTL DEF Spec

(* The state of the client is of its type, with no more attempts than       *)
(* MAX_ATTEMPTS.                                                            *)
THEOREM TypeCorrect == Spec => []TypeOK
<1>1. LookupInv => TypeOK BY DEF LookupInv
<1> QED BY <1>1, Invariance, PTL

(* jump recurses no deeper than the packet is long, for every packet.       *)
THEOREM WalkAlwaysBounded == Spec => []WalkBounded
<1>1. LookupInv => WalkBounded BY DEF LookupInv, WalkInv, WalkBounded
<1> QED BY <1>1, Invariance, PTL

(* "jump loop" is said of exactly the names that circle without a label:    *)
(* more jumps than the packet has bytes come to an offset twice, what comes *)
(* to an offset twice never ends, and an error loses its meaning behind the *)
(* first label.                                                             *)
THEOREM LoopsAlwaysReported == Spec => []LoopsReported
<1>1. LookupInv => LoopsReported BY DEF LookupInv, WalkInv
<1> QED BY <1>1, Invariance, PTL

(* A sound reply is read in place, to its last record, without an alarm.    *)
THEOREM SoundAlwaysReadWhole == Spec => []SoundReadWhole
<1>1. LookupInv => SoundReadWhole BY DEF LookupInv, SoundInv, SoundReadWhole, Total
<1> QED BY <1>1, Invariance, PTL

-----------------------------------------------------------------------------
(* Termination. *)

Reading == {"record", "walk", "walked", "value"}

(* More than the jumps along one name. *)
Jumps == Size + 3

(* The steps of a record: two names, each with its jumps, the header and    *)
(* the value.                                                               *)
OneRecord == 2 * Jumps + 4

(* The steps left of the record that is being read. *)
StepsOfRecord ==
  CASE pc = "record"                      -> OneRecord
    [] pc = "walk" /\ role = "owner"      -> 2 * Jumps + 3 - firstJump
    [] pc = "walked" /\ role = "owner"    -> Jumps + 3
    [] pc = "value"                       -> Jumps + 2
    [] pc = "walk" /\ role = "value"      -> Jumps + 1 - firstJump
    [] OTHER                              -> 1

Records   == (left + Behind) * OneRecord
Sending   == MaxRecords * OneRecord + OneRecord + 4

StepsOfClient ==
  CASE pc \in Reading     -> Records + (4 - sec) + StepsOfRecord
    [] pc = "questions"   -> Sending
    [] pc = "select"      -> Sending + 1 + (MAX_ATTEMPTS - count)
    [] pc = "start"       -> Sending + MAX_ATTEMPTS + 4
    [] OTHER              -> 0

StepsOfNet == CASE net = "query" -> 2 [] net = "reply" -> 1 [] OTHER -> 0

(* At most this many steps are left of the lookup. *)
StepsLeft == StepsOfClient + StepsOfNet

LEMMA Numbers ==
  ASSUME TypeOK, WalkInv
  PROVE  /\ Jumps \in Nat /\ firstJump \in 0..(Jumps - 2) /\ OneRecord = 2 * Jumps + 4
         /\ left + Behind \in Nat /\ Records \in Nat
         /\ Sending \in Nat /\ Sending = MaxRecords * OneRecord + OneRecord + 4
         /\ MaxRecords * OneRecord \in Nat /\ MAX_ATTEMPTS \in Nat
         /\ StepsOfRecord \in 1..OneRecord
         /\ pc \in Reading => sec \in 1..3 /\ role \in {"owner", "value"}
         /\ count \in 0..MAX_ATTEMPTS /\ StepsOfNet \in 0..2
<1>1. /\ Size \in Nat /\ Jumps \in Nat /\ OneRecord \in Nat /\ MaxRecords \in Nat
      /\ MAX_ATTEMPTS \in Nat
  BY DnsLookupAssumption DEF DnsLookupAssumption, Jumps, OneRecord
<1>2. firstJump \in 0..(Jumps - 2) BY <1>1 DEF TypeOK, WalkInv, Jumps
<1>3. left + Behind \in Nat BY Counted
<1>4. \A m, n \in Nat : m * n \in Nat OBVIOUS
<1>5. Records \in Nat BY <1>1, <1>3, <1>4 DEF Records
<1>6. MaxRecords * OneRecord \in Nat BY <1>1, <1>4
<1>7. Sending \in Nat BY <1>1, <1>6 DEF Sending
<1>8. StepsOfRecord \in 1..OneRecord BY <1>1, <1>2 DEF StepsOfRecord, OneRecord
<1>9. pc \in Reading => sec \in 1..3 /\ role \in {"owner", "value"}
  BY DEF TypeOK, Reading, Parsing, Sections
<1>10. count \in 0..MAX_ATTEMPTS /\ StepsOfNet \in 0..2 BY DEF TypeOK, StepsOfNet
<1> QED BY <1>1, <1>2, <1>3, <1>5, <1>6, <1>7, <1>8, <1>9, <1>10 DEF Sending, OneRecord

(* While the parser is in one section, its steps fall with those of the     *)
(* record it reads.                                                         *)
LEMMA RecordFalls ==
  ASSUME LookupInv, LookupInv', pc \in Reading, pc' \in Reading, UNCHANGED <<counts, sec, left, net>>,
         StepsOfRecord' < StepsOfRecord
  PROVE  StepsLeft' < StepsLeft
<1>1. Records \in Nat /\ StepsOfRecord \in Int /\ StepsOfRecord' \in Int /\ sec \in Int
      /\ StepsOfNet \in Int
  <2>1. (TypeOK /\ WalkInv => StepsOfRecord \in 1..OneRecord)' BY Numbers, PTL
  <2>2. OneRecord' = OneRecord BY DEF OneRecord, Jumps
  <2>3. StepsOfRecord' \in 1..OneRecord BY <2>1, <2>2 DEF LookupInv
  <2> QED BY <2>3, Numbers DEF LookupInv
<1>2. Behind' = Behind BY SameCounts
<1>3. Records' = Records BY <1>2 DEF Records, OneRecord, Jumps
<1>4. StepsOfNet' = StepsOfNet BY DEF StepsOfNet
<1>5. StepsOfClient = Records + (4 - sec) + StepsOfRecord BY DEF StepsOfClient, Reading
<1>6. StepsOfClient' = Records + (4 - sec) + StepsOfRecord' BY <1>3 DEF StepsOfClient, Reading
<1>7. PICK n \in Int : StepsOfRecord' = n BY <1>1
<1> QED BY <1>1, <1>4, <1>5, <1>6, <1>7 DEF StepsLeft

(* A record has been read. *)
LEMMA RecordDone ==
  ASSUME LookupInv, LookupInv', UNCHANGED <<counts, sec, net>>, pc \in Reading,
         pc # "record", left' = left - 1, pc' = "record"
  PROVE  StepsLeft' < StepsLeft
<1> DEFINE R == left + Behind
<1>1. /\ R \in Nat /\ Records \in Nat /\ Jumps \in Nat /\ OneRecord = 2 * Jumps + 4
      /\ StepsOfRecord \in 1..OneRecord /\ sec \in 1..3 /\ StepsOfNet \in 0..2
  BY Numbers DEF LookupInv
<1>2. Behind' = Behind BY SameCounts
<1>3. \A m, n \in Int : (m - 1) * n = m * n - n OBVIOUS
<1>4. R' = R - 1 BY <1>2, Counted DEF LookupInv
<1>5. Records' = Records - OneRecord
  <2>1. Records' = (R - 1) * OneRecord BY <1>4 DEF Records, OneRecord, Jumps
  <2> HIDE DEF R
  <2>2. (R - 1) * OneRecord = R * OneRecord - OneRecord BY <1>1, <1>3
  <2> QED BY <2>1, <2>2 DEF Records, R
<1>6. StepsOfRecord' = OneRecord BY DEF StepsOfRecord, OneRecord, Jumps
<1>7. StepsOfClient = Records + (4 - sec) + StepsOfRecord BY DEF StepsOfClient, Reading
<1>8. StepsOfClient' = (Records - OneRecord) + (4 - sec) + OneRecord
  BY <1>5, <1>6 DEF StepsOfClient, Reading
<1>9. StepsOfNet' = StepsOfNet BY DEF StepsOfNet
<1> QED BY <1>1, <1>7, <1>8, <1>9 DEF StepsLeft

(* The parser is done. *)
LEMMA ClientDone ==
  ASSUME LookupInv, pc \in Reading \cup {"questions", "select", "start"}, pc' = "done",
         StepsOfNet' <= StepsOfNet, StepsOfNet' \in Nat
  PROVE  StepsLeft' < StepsLeft
<1>1. /\ Records \in Nat /\ Sending \in Nat /\ StepsOfRecord \in Nat /\ StepsOfRecord >= 1
      /\ pc \in Reading => sec \in 1..3
      /\ MAX_ATTEMPTS \in Nat /\ count \in 0..MAX_ATTEMPTS /\ StepsOfNet \in 0..2
      /\ Sending >= 4
  BY Numbers DEF LookupInv
<1>2. StepsOfClient' = 0 BY DEF StepsOfClient, Reading
<1>3. StepsOfClient > 0 /\ StepsOfClient \in Int
  <2>1. CASE pc \in Reading BY <2>1, <1>1 DEF StepsOfClient, Reading
  <2>2. CASE pc = "questions" BY <2>2, <1>1 DEF StepsOfClient, Reading
  <2>3. CASE pc = "select" BY <2>3, <1>1 DEF StepsOfClient, Reading
  <2>4. CASE pc = "start" BY <2>4, <1>1 DEF StepsOfClient, Reading
  <2> QED BY <2>1, <2>2, <2>3, <2>4
<1>4. PICK n \in Nat : StepsOfNet' = n OBVIOUS
<1> QED BY <1>1, <1>2, <1>3, <1>4 DEF StepsLeft

(* The steps of a section. *)
LEMMA SectionFalls ==
  ASSUME LookupInv, LookupInv', NEW s \in Sections, Section(s)
  PROVE  StepsLeft' < StepsLeft
<1>1. /\ Jumps \in Nat /\ firstJump \in 0..(Jumps - 2) /\ OneRecord = 2 * Jumps + 4
      /\ StepsOfNet \in 0..2
  BY Numbers DEF LookupInv
<1>2. firstJump' \in 0..(Jumps - 2)
  <2>1. (TypeOK /\ WalkInv => firstJump \in 0..(Jumps - 2))' BY Numbers, PTL
  <2>2. Jumps' = Jumps BY DEF Jumps
  <2> QED BY <2>1, <2>2 DEF LookupInv
<1>3. OneRecord' = OneRecord /\ Jumps' = Jumps BY DEF OneRecord, Jumps
<1>4. net' = net
  BY DEF Section, ReadOwner, ReadValue, ReadName, Header, Value, SectionEnd, netVars
<1>5. StepsOfNet' = StepsOfNet BY <1>4 DEF StepsOfNet
<1>6. CASE ReadOwner \/ ReadValue
  <2>1. PICK r \in {"owner", "value"}, n \in Names :
          ReadName(r, n) /\ pc = (IF r = "owner" THEN "record" ELSE "value")
    BY <1>6 DEF ReadOwner, ReadValue
  <2>2. /\ role' = r /\ pc' \in {"walk", "walked"} /\ UNCHANGED <<counts, sec, left>>
    BY <2>1, FirstCallType DEF ReadName, LookupInv, packetVars, loopVars
  <2>3. StepsOfRecord' < StepsOfRecord
    BY <2>1, <2>2, <1>1, <1>2, <1>3 DEF StepsOfRecord
  <2> QED BY <2>1, <2>2, <2>3, <1>4, RecordFalls DEF Reading
<1>7. CASE Header
  <2>1. pc = "walked" /\ role = "owner" /\ UNCHANGED counts BY <1>7 DEF Header, packetVars
  <2>2. \/ pc' = "done"
        \/ pc' = "record" /\ left' = left - 1 /\ sec' = sec
        \/ pc' = "value" /\ UNCHANGED <<sec, left>>
    BY <1>7 DEF Header, Terminate, RecordRead, loopVars
  <2>3. pc' = "value" => StepsOfRecord' < StepsOfRecord
    BY <2>1, <1>1, <1>3 DEF StepsOfRecord
  <2> QED BY <2>1, <2>2, <2>3, <1>1, <1>4, <1>5, RecordDone, RecordFalls, ClientDone DEF Reading
<1>8. CASE Value
  <2>1. pc = "walked" /\ UNCHANGED counts BY <1>8 DEF Value, packetVars
  <2>2. \/ pc' = "done"
        \/ pc' = "record" /\ left' = left - 1 /\ sec' = sec
    BY <1>8 DEF Value, Terminate, RecordRead
  <2> QED BY <2>1, <2>2, <1>1, <1>4, <1>5, RecordDone, ClientDone DEF Reading
<1>9. CASE SectionEnd
  <2>1. pc = "record" /\ left = 0 /\ UNCHANGED counts /\ sec \in 1..3
    BY <1>9, Numbers DEF SectionEnd, packetVars, LookupInv, Reading
  <2>2. CASE sec = 3
    <3>1. pc' = "done" BY <1>9, <2>2 DEF SectionEnd
    <3> QED BY <2>1, <3>1, <1>1, <1>5, ClientDone DEF Reading
  <2>3. CASE sec < 3
    <3>1. pc' = "record" /\ sec' = sec + 1 /\ left' = counts[sec + 1]
      BY <1>9, <2>3 DEF SectionEnd
    <3>2. counts[1] \in Nat /\ counts[2] \in Nat /\ counts[3] \in Nat
      BY Counted DEF LookupInv
    <3>3. left' + Behind' = left + Behind BY <2>1, <2>3, <3>1, <3>2 DEF Behind
    <3>4. Records' = Records BY <3>3 DEF Records, OneRecord, Jumps
    <3>5. StepsOfRecord = OneRecord /\ StepsOfRecord' = OneRecord
      BY <2>1, <3>1, <1>3 DEF StepsOfRecord
    <3>6. StepsOfClient = Records + (4 - sec) + OneRecord
          /\ StepsOfClient' = Records + (4 - (sec + 1)) + OneRecord
      BY <2>1, <3>1, <3>4, <3>5 DEF StepsOfClient, Reading
    <3>7. Records \in Nat BY Numbers DEF LookupInv
    <3> QED BY <2>1, <3>6, <3>7, <1>1, <1>5 DEF StepsLeft
  <2> QED BY <2>1, <2>2, <2>3
<1> QED BY <1>6, <1>7, <1>8, <1>9 DEF Section

(* The datagram that is parsed starts what Sending counts. *)
LEMMA ReceiveFalls ==
  ASSUME LookupInv, NEW d \in Datagrams, Receive(d), StepsOfNet' <= StepsOfNet, StepsOfNet' \in Nat
  PROVE  StepsLeft' < StepsLeft
<1>1. pc = "select" /\ pc' \in {"questions", "done"} BY DEF Receive
<1>2. CASE pc' = "done" BY <1>1, <1>2, ClientDone
<1>3. CASE pc' = "questions"
  <2>1. StepsOfClient' = Sending /\ StepsOfClient = Sending + 1 + (MAX_ATTEMPTS - count)
    BY <1>1, <1>3 DEF StepsOfClient, Reading, Sending, OneRecord, Jumps
  <2>2. Sending \in Nat /\ MAX_ATTEMPTS \in Nat /\ count \in 0..MAX_ATTEMPTS
        /\ StepsOfNet \in 0..2
    BY Numbers DEF LookupInv
  <2>3. PICK n \in Nat : StepsOfNet' = n OBVIOUS
  <2> QED BY <2>1, <2>2, <2>3 DEF StepsLeft
<1> QED BY <1>1, <1>2, <1>3

LEMMA StepsFall == ASSUME LookupInv, LookupInv', Next PROVE StepsLeft' < StepsLeft
<1>1. /\ Sending \in Nat /\ MAX_ATTEMPTS \in Nat /\ count \in 0..MAX_ATTEMPTS
      /\ StepsOfNet \in 0..2 /\ OneRecord \in Nat /\ Jumps \in Nat
      /\ Sending = MaxRecords * OneRecord + OneRecord + 4
      /\ MaxRecords * OneRecord \in Nat
  BY Numbers DEF LookupInv
<1>2. Sending' = Sending /\ OneRecord' = OneRecord BY DEF Sending, OneRecord, Jumps
<1>3. StepsOfNet' \in Nat BY DEF StepsOfNet
<1>4. CASE SendQuery
  <2>1. CASE pc' = "done"
    <3>1. pc = "start" /\ net' = net BY <1>4, <2>1 DEF SendQuery
    <3>2. StepsOfNet' = StepsOfNet BY <3>1 DEF StepsOfNet
    <3> QED BY <2>1, <3>1, <3>2, <1>1, <1>3, ClientDone
  <2>2. CASE pc' # "done"
    <3>1. pc = "start" /\ pc' = "select" /\ count' = 1 /\ net' = "query"
      BY <1>4, <2>2 DEF SendQuery
    <3>2. StepsOfClient = Sending + MAX_ATTEMPTS + 4
          /\ StepsOfClient' = Sending + 1 + (MAX_ATTEMPTS - 1)
      BY <3>1, <1>2 DEF StepsOfClient, Reading
    <3>3. StepsOfNet' = 2 BY <3>1 DEF StepsOfNet
    <3> QED BY <3>2, <3>3, <1>1 DEF StepsLeft
  <2> QED BY <2>1, <2>2
<1>5. CASE Timeout
  <2>1. pc = "select" /\ net' = net BY <1>5 DEF Timeout, netVars
  <2>2. StepsOfNet' = StepsOfNet BY <2>1 DEF StepsOfNet
  <2>3. CASE pc' = "done" BY <2>1, <2>2, <2>3, <1>1, <1>3, ClientDone
  <2>4. CASE pc' # "done"
    <3>1. pc' = "select" /\ count' = count + 1 BY <1>5, <2>1, <2>4 DEF Timeout, Again
    <3>2. StepsOfClient = Sending + 1 + (MAX_ATTEMPTS - count)
          /\ StepsOfClient' = Sending + 1 + (MAX_ATTEMPTS - (count + 1))
      BY <2>1, <3>1, <1>2 DEF StepsOfClient, Reading
    <3> QED BY <2>2, <3>2, <1>1 DEF StepsLeft
  <2> QED BY <2>3, <2>4
<1>6. CASE ReceiveError
  <2>1. pc = "select" /\ pc' = "done" /\ net' = net BY <1>6 DEF ReceiveError, netVars
  <2>2. StepsOfNet' = StepsOfNet BY <2>1 DEF StepsOfNet
  <2> QED BY <2>1, <2>2, <1>1, <1>3, ClientDone
<1>7. CASE ReceiveAnswer \/ ReceiveStray
  <2>1. PICK d \in Datagrams : Receive(d) BY <1>7 DEF ReceiveAnswer, ReceiveStray
  <2>2. StepsOfNet' <= StepsOfNet
    BY <1>7, <1>1 DEF ReceiveAnswer, ReceiveStray, StepsOfNet
  <2> QED BY <2>1, <2>2, <1>3, ReceiveFalls
<1>8. CASE Answer \/ Lose
  <2>1. UNCHANGED <<pc, count, sec, left, counts, role, firstJump>>
    BY <1>8 DEF Answer, Lose, packetVars, loopVars, walkVars
  <2>2. StepsOfClient' = StepsOfClient
    BY <2>1, SameCounts DEF StepsOfClient, Reading, Records, StepsOfRecord, Sending, OneRecord, Jumps
  <2>3. StepsOfNet' < StepsOfNet BY <1>8, <1>1 DEF Answer, Lose, StepsOfNet
  <2>4. StepsOfClient \in Int
    <3>1. /\ Records \in Nat /\ StepsOfRecord \in Nat
          /\ pc \in Reading => sec \in 1..3
      BY Numbers DEF LookupInv
    <3> QED BY <3>1, <1>1 DEF StepsOfClient, Reading
  <2>5. PICK n \in Nat : StepsOfNet' = n BY <1>3
  <2> QED BY <1>1, <2>2, <2>3, <2>4, <2>5 DEF StepsLeft
<1>9. CASE Questions
  <2>1. pc = "questions" /\ net' = net BY <1>9 DEF Questions, netVars
  <2>2. StepsOfNet' = StepsOfNet BY <2>1 DEF StepsOfNet
  <2>3. CASE pc' = "done" BY <2>1, <2>2, <2>3, <1>1, <1>3, ClientDone
  <2>4. CASE pc' # "done"
    <3>1. pc' = "record" /\ left' = counts[1] /\ UNCHANGED <<sec, counts>> /\ sec = 1
      BY <1>9, <2>1, <2>4
      DEF Questions, Terminate, packetVars, LookupInv, SoundInv
    <3>2. left' + Behind' \in 0..MaxRecords
      <4>1. counts \in [Sections -> 0..MaxRecords] /\ counts[1] + counts[2] + counts[3] <= MaxRecords
        BY DEF LookupInv, TypeOK, Counts
      <4>2. counts[1] \in Nat /\ counts[2] \in Nat /\ counts[3] \in Nat
        BY Counted DEF LookupInv
      <4>3. MaxRecords \in Nat BY DnsLookupAssumption DEF DnsLookupAssumption
      <4> QED BY <3>1, <4>1, <4>2, <4>3 DEF Behind
    <3>3. \A m, n, k \in Nat : m <= n => m * k <= n * k /\ m * k \in Nat OBVIOUS
    <3>4. Records' \in Nat /\ Records' <= MaxRecords * OneRecord
      <4>1. Records' = (left' + Behind') * OneRecord BY <1>2 DEF Records
      <4>2. MaxRecords \in Nat BY DnsLookupAssumption DEF DnsLookupAssumption
      <4> QED BY <4>1, <4>2, <3>2, <3>3, <1>1
    <3>5. StepsOfClient = Sending /\ StepsOfClient' = Records' + (4 - 1) + OneRecord
      BY <2>1, <3>1, <1>2 DEF StepsOfClient, Reading, StepsOfRecord
    <3> QED BY <3>4, <3>5, <2>2, <1>1 DEF StepsLeft
  <2> QED BY <2>3, <2>4
<1>10. CASE Answers \/ Authority \/ Additional
  BY <1>10, SectionFalls DEF Answers, Authority, Additional, Sections
<1>11. CASE Jump
  <2>0. pc = "walk" BY <1>11 DEF Jump
  <2>1. /\ pc = "walk" /\ UNCHANGED <<counts, sec, left, net, role>>
        /\ role \in {"owner", "value"}
    BY <1>11 DEF Jump, packetVars, loopVars, netVars, LookupInv, TypeOK
  <2>2. pc' = "walked" \/ (pc' = "walk" /\ firstJump' = firstJump + 1)
    <3>1. ASSUME NEW v, Return(v) PROVE pc' = "walked" BY <3>1 DEF Return
    <3>2. CASE \E v \in {"random0", "random4p1", "random5", "random6", "random7", "name"} : Return(v)
      <4>1. PICK v \in {"random0", "random4p1", "random5", "random6", "random7", "name"} : Return(v)
        BY <3>2
      <4> QED BY <4>1, <3>1
    <3>3. CASE firstJump' = firstJump + 1 /\ pc' = pc BY <2>0, <3>3
    <3> QED BY <1>11, <3>2, <3>3 DEF Jump
  <2>3. firstJump \in 0..(Jumps - 2) BY Numbers DEF LookupInv
  <2>4. Jumps' = Jumps BY DEF Jumps
  <2>5. StepsOfRecord' < StepsOfRecord
    BY <2>1, <2>2, <2>3, <2>4, <1>1 DEF StepsOfRecord
  <2> QED BY <2>1, <2>2, <2>5, RecordFalls DEF Reading
<1> QED BY <1>4, <1>5, <1>6, <1>7, <1>8, <1>9, <1>10, <1>11 DEF Next, Client, Parse

(* Every step takes one of a number of steps that the packet's size and     *)
(* records bound: no packet, however its pointers run and wherever they put *)
(* the parser off, and no sequence of stray datagrams, can hold the client. *)
THEOREM StepsBounded ==
  Spec => [](StepsLeft \in Nat) /\ [][StepsLeft' < StepsLeft]_vars
<1>1. LookupInv => StepsLeft \in Nat
  <2> SUFFICES ASSUME LookupInv PROVE StepsLeft \in Nat OBVIOUS
  <2>1. /\ Records \in Nat /\ StepsOfRecord \in Nat
        /\ pc \in Reading => sec \in 1..3
        /\ Sending \in Nat /\ MAX_ATTEMPTS \in Nat /\ count \in 0..MAX_ATTEMPTS
        /\ StepsOfNet \in Nat
    BY Numbers DEF LookupInv
  <2>2. StepsOfClient \in Nat BY <2>1 DEF StepsOfClient, Reading
  <2> QED BY <2>1, <2>2 DEF StepsLeft
<1>2. LookupInv /\ LookupInv' /\ [Next]_vars => [StepsLeft' < StepsLeft]_vars BY StepsFall
<1> QED BY Invariance, <1>1, <1>2, PTL DEF Spec
=============================================================================
