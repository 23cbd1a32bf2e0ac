-------------------------- MODULE TracerouteProofs --------------------------
(***************************************************************************)
(* Safety of Traceroute for every number of hops and URLs.                 *)
(***************************************************************************)
EXTENDS Traceroute, TLAPS, FiniteSetTheorems

Answered == {s \in Hops : printString[s] = "hop"}
Elems(s) == {s[k] : k \in 1..Len(s)}

-----------------------------------------------------------------------------
(* The inductive invariant, in named parts. *)

(* The hops still waited for have been sent to equally often, and a hop has *)
(* a line only once it is complete.                                         *)
HopInv ==
  /\ \A s, u \in Hops : ~icmpComplete[s] /\ ~icmpComplete[u] => probe[s] = probe[u]
  /\ \A s \in Hops : printString[s] # "none" => icmpComplete[s]

(* Until the last line is written countSeq counts the hops that answered. *)
CountInv ==
  pc \in {"recv", "drain", "check", "retransmit"} =>
    extra \/ countSeq = 1 + Cardinality(Answered)

(* The index of the loop is the number of hosts traced; hosts are traced    *)
(* and rows written in the queue's order.                                   *)
ReportInv ==
  /\ i = Len(hop_host)
  /\ pc \in {"recv", "drain", "check", "retransmit", "return"} => q > 0
  /\ \A k \in 1..Len(hop_host) : hop_host[k] <= NUrls - q
  /\ \A k \in 1..Len(rows) : /\ hop_host # <<>>
                             /\ rows[k] <= hop_host[Len(hop_host)]

TraceInv == /\ TypeOK /\ HopInv /\ CountInv /\ ReportInv
            /\ GiveUpTogether /\ IndexInRange /\ RowsFollowHosts

-----------------------------------------------------------------------------
(* Finite sets and sequences. *)

LEMMA HopsFinite == IsFiniteSet(Hops) /\ Cardinality(Hops) = N
BY TracerouteAssumption, FS_Interval DEF Hops, TracerouteAssumption

LEMMA AnsweredFinite ==
  /\ IsFiniteSet(Answered) /\ Cardinality(Answered) \in Nat
  /\ Cardinality(Answered) <= N /\ (Cardinality(Answered) = N => Answered = Hops)
<1>1. Answered \in SUBSET Hops BY DEF Answered
<1>2. IsFiniteSet(Answered) BY <1>1, HopsFinite, FS_Subset
<1> QED BY <1>1, <1>2, HopsFinite, FS_Subset, FS_CardinalityType

(* Appending adds one element, at the end. *)
LEMMA AppendElems ==
  ASSUME NEW S, NEW s \in Seq(S), NEW e \in S, NEW t, t = Append(s, e)
  PROVE  /\ t \in Seq(S) /\ Len(t) = Len(s) + 1
         /\ \A k \in 1..Len(s) : t[k] = s[k]
         /\ t[Len(s) + 1] = e
OBVIOUS

LEMMA ElemsAppend ==
  ASSUME NEW S, NEW s \in Seq(S), NEW e \in S
  PROVE  Elems(Append(s, e)) = Elems(s) \cup {e}
<1> DEFINE t == Append(s, e)
<1>1. /\ Len(t) = Len(s) + 1 /\ Len(s) \in Nat
      /\ \A k \in 1..Len(s) : t[k] = s[k]
      /\ t[Len(s) + 1] = e
  OBVIOUS
<1>2. 1..(Len(s) + 1) = 1..Len(s) \cup {Len(s) + 1} BY <1>1
<1>3. Elems(t) = {t[k] : k \in 1..Len(s)} \cup {e} BY <1>1, <1>2 DEF Elems
<1>4. {t[k] : k \in 1..Len(s)} = Elems(s) BY <1>1 DEF Elems
<1> QED BY <1>3, <1>4

(* The queue's URLs, by place. *)
Urls == 1..NUrls

LEMMA ElemsTyped ==
  ASSUME NEW S, NEW s \in Seq(S)
  PROVE  Len(s) \in Nat /\ \A k \in 1..Len(s) : s[k] \in S
OBVIOUS

LEMMA ReportTyped ==
  ASSUME TypeOK
  PROVE  /\ hop_host \in Seq(Urls) /\ rows \in Seq(Urls)
         /\ Len(hop_host) \in Nat /\ \A k \in 1..Len(hop_host) : hop_host[k] \in 1..NUrls
         /\ Len(rows) \in Nat /\ \A k \in 1..Len(rows) : rows[k] \in 1..NUrls
<1>1. hop_host \in Seq(Urls) /\ rows \in Seq(Urls) BY DEF TypeOK, Urls
<1>2. Len(hop_host) \in Nat /\ \A k \in 1..Len(hop_host) : hop_host[k] \in Urls
  BY <1>1, ElemsTyped
<1>3. Len(rows) \in Nat /\ \A k \in 1..Len(rows) : rows[k] \in Urls
  BY <1>1, ElemsTyped
<1> QED BY <1>1, <1>2, <1>3 DEF Urls

-----------------------------------------------------------------------------
(* The initial states satisfy the invariant. *)

LEMMA InitInv == Init => TraceInv
<1> SUFFICES ASSUME Init PROVE TraceInv OBVIOUS
<1>1. TypeOK
  <2>1. /\ probe \in [Hops -> 1..4] /\ icmpComplete \in [Hops -> BOOLEAN]
        /\ printString \in [Hops -> {"none", "hop", "star", "last"}]
    BY DEF Init
  <2>2. net \in [Hops -> 0..NetCap] /\ q \in 0..NUrls /\ countSeq \in Nat /\ i \in Nat
    BY TracerouteAssumption DEF Init, TracerouteAssumption
  <2>3. hop_host \in Seq(1..NUrls) /\ rows \in Seq(1..NUrls) BY DEF Init
  <2> QED BY <2>1, <2>2, <2>3 DEF Init, TypeOK
<1>2. HopInv /\ CountInv /\ GiveUpTogether BY DEF Init, HopInv, CountInv, GiveUpTogether
<1>3. ReportInv /\ RowsFollowHosts
  BY TracerouteAssumption DEF Init, ReportInv, RowsFollowHosts, TracerouteAssumption
<1>4. IndexInRange BY TracerouteAssumption DEF Init, IndexInRange, TracerouteAssumption
<1> QED BY <1>1, <1>2, <1>3, <1>4 DEF TraceInv

(* Answers in flight stay within their bound. *)
LEMMA SendType ==
  ASSUME TypeOK, NEW S, Send(S) PROVE net' \in [Hops -> 0..NetCap] /\ errors' \in BOOLEAN
<1>1. PICK answered \in SUBSET S :
        net' = [s \in Hops |-> IF s \in answered /\ net[s] < NetCap THEN net[s] + 1 ELSE net[s]]
  BY DEF Send
<1>2. \A s \in Hops : net[s] \in 0..NetCap BY DEF TypeOK
<1>3. net' \in [Hops -> 0..NetCap] BY <1>1, <1>2, TracerouteAssumption DEF TracerouteAssumption
<1> QED BY <1>3 DEF Send, TypeOK

-----------------------------------------------------------------------------
(* The steps of a trace. *)

LEMMA TraceStep == ASSUME TraceInv, Trace PROVE TraceInv'
<1> USE DEF TraceInv
<1> DEFINE Same == UNCHANGED <<i, q, hop_host, rows, probe, icmpComplete, printString>>
<1>1. ASSUME UNCHANGED <<i, q, hop_host, rows>>, pc # "threw", pc' # "threw",
             pc' \in {"recv", "drain", "check", "retransmit", "return"} => q > 0
      PROVE  ReportInv' /\ RowsFollowHosts'
  BY <1>1 DEF ReportInv, RowsFollowHosts
<1>2. CASE SelectTimeout
  <2> USE <1>2 DEF SelectTimeout, reportVars, pd
  <2>1. TypeOK' BY DEF TypeOK
  <2>2. HopInv' /\ CountInv' /\ GiveUpTogether' /\ IndexInRange'
    BY DEF HopInv, CountInv, GiveUpTogether, IndexInRange, Complete
  <2>3. ReportInv' /\ RowsFollowHosts' BY <1>1 DEF ReportInv
  <2> QED BY <2>1, <2>2, <2>3
<1>3. CASE SelectError \/ Unrelated \/ Drained \/ NotComplete
  <2> USE <1>3 DEF SelectError, Unrelated, Drained, NotComplete, reportVars, pd
  <2>1. TypeOK' BY DEF TypeOK
  <2>2. HopInv' /\ GiveUpTogether' /\ IndexInRange'
    BY DEF HopInv, GiveUpTogether, IndexInRange, Complete
  <2>3. Answered' = Answered BY DEF Answered
  <2>4. UNCHANGED <<countSeq, extra>> /\ pc \in {"recv", "drain", "check", "retransmit"}
    OBVIOUS
  <2>5. CountInv'
    <3> HIDE <1>3 DEF SelectError, Unrelated, Drained, NotComplete
    <3> QED BY <2>3, <2>4 DEF CountInv
  <2>6. ReportInv' /\ RowsFollowHosts' BY <1>1 DEF ReportInv
  <2> QED BY <2>1, <2>2, <2>5, <2>6
<1>4. CASE IcmpError \/ Crash \/ SendFails
  <2>1. UNCHANGED <<reportVars, pd, countSeq, extra, net>> /\ pc' \in {"return", "crashed", "exit"}
        /\ errors' \in BOOLEAN /\ errorBreak' \in BOOLEAN /\ pc # "threw" /\ (pc' = "return" => q > 0)
    BY <1>4 DEF IcmpError, Crash, SendFails, TypeOK, ReportInv, pd, reportVars
  <2>2. TypeOK' BY <2>1 DEF TypeOK, reportVars, pd, Ended
  <2>3. HopInv' /\ CountInv' /\ GiveUpTogether' /\ IndexInRange'
    BY <2>1 DEF HopInv, CountInv, GiveUpTogether, IndexInRange, Complete, pd
  <2>4. ReportInv' /\ RowsFollowHosts' BY <1>1, <2>1 DEF reportVars
  <2> QED BY <2>2, <2>3, <2>4
<1>5. ASSUME NEW s \in Hops, Expired(s) PROVE TraceInv'
  <2> USE <1>5 DEF Expired, reportVars
  <2>1. TypeOK'
    <3>1. net' \in [Hops -> 0..NetCap]
      BY TracerouteAssumption DEF TypeOK, TracerouteAssumption
    <3> QED BY <3>1 DEF TypeOK
  <2>2. HopInv' /\ GiveUpTogether'
    BY DEF TypeOK, HopInv, GiveUpTogether, Complete
  <2>3. CountInv'
    <3>1. Answered' = Answered \cup {s} BY DEF Answered, TypeOK
    <3>2. s \in Answered <=> printString[s] = "hop" BY DEF Answered
    <3>3. Cardinality(Answered') =
            IF s \in Answered THEN Cardinality(Answered) ELSE Cardinality(Answered) + 1
      BY <3>1, AnsweredFinite, FS_AddElement
    <3>4. countSeq \in Nat /\ (extra \/ countSeq = 1 + Cardinality(Answered))
      BY DEF CountInv, TypeOK
    <3>5. countSeq' = countSeq + 1 /\ extra' = (extra \/ printString[s] = "hop") OBVIOUS
    <3>6. extra \in BOOLEAN BY DEF TypeOK
    <3> HIDE <1>5 DEF Expired, TraceInv
    <3>7. CASE extra BY <3>5, <3>7 DEF CountInv
    <3>8. CASE s \in Answered BY <3>2, <3>5, <3>8 DEF CountInv
    <3>9. CASE ~extra /\ s \notin Answered
      <4>1. countSeq' = 1 + Cardinality(Answered')
        BY <3>3, <3>4, <3>5, <3>9, AnsweredFinite
      <4> QED BY <4>1 DEF CountInv
    <3> QED BY <3>6, <3>7, <3>8, <3>9
  <2>4. IndexInRange'
    <3> SUFFICES ASSUME countSeq' > N, ~extra'
                 PROVE  \A u \in Hops : printString'[u] \in {"hop", "last"}
      BY DEF IndexInRange
    <3>1. countSeq' = 1 + Cardinality(Answered') BY <2>3 DEF CountInv
    <3>2. IsFiniteSet(Answered') /\ Answered' \in SUBSET Hops
      <4>1. Answered' \in SUBSET Hops BY DEF Answered
      <4> QED BY <4>1, HopsFinite, FS_Subset
    <3>3. Cardinality(Answered') <= N /\ Cardinality(Answered') \in Nat
          /\ (Cardinality(Answered') = N => Answered' = Hops)
      BY <3>2, HopsFinite, FS_Subset, FS_CardinalityType
    <3>4. Cardinality(Answered') = N
      BY <3>1, <3>3, TracerouteAssumption DEF TracerouteAssumption
    <3> QED BY <3>3, <3>4 DEF Answered
  <2>5. ReportInv' /\ RowsFollowHosts' BY <1>1 DEF ReportInv
  <2> QED BY <2>1, <2>2, <2>3, <2>4, <2>5
<1>6. CASE LastLine
  <2> USE <1>6 DEF LastLine, reportVars
  <2>1. TypeOK' BY DEF TypeOK
  <2>2. HopInv' /\ CountInv' /\ GiveUpTogether' /\ IndexInRange'
    BY DEF TypeOK, HopInv, CountInv, GiveUpTogether, IndexInRange, Complete
  <2>3. ReportInv' /\ RowsFollowHosts' BY <1>1 DEF ReportInv
  <2> QED BY <2>1, <2>2, <2>3
<1>7. CASE RetransmitPackets
  <2> USE <1>7 DEF RetransmitPackets, reportVars
  <2>1. TypeOK'
    <3>1. net' \in [Hops -> 0..NetCap] /\ errors' \in BOOLEAN BY SendType
    <3>2. probe' \in [Hops -> 1..4] BY DEF TypeOK, Counted
    <3>3. icmpComplete' \in [Hops -> BOOLEAN] BY DEF TypeOK, GivenUpNow
    <3>4. printString' \in [Hops -> {"none", "hop", "star", "last"}] BY DEF TypeOK
    <3> QED BY <3>1, <3>2, <3>3, <3>4 DEF TypeOK
  <2>2. HopInv' BY DEF TypeOK, HopInv, Counted, GivenUpNow
  <2>3. GiveUpTogether' BY DEF TypeOK, HopInv, GiveUpTogether, Complete, GivenUpNow
  <2>4. \A s \in Hops : printString[s] \in {"hop", "last"} => printString'[s] = printString[s]
    BY DEF TypeOK, HopInv, GivenUpNow
  <2>5. Answered' = Answered BY <2>4 DEF Answered, TypeOK
  <2>6. CountInv' BY <2>5 DEF CountInv
  <2>7. IndexInRange' BY <2>4 DEF IndexInRange
  <2>8. ReportInv' /\ RowsFollowHosts' BY <1>1 DEF ReportInv
  <2> QED BY <2>1, <2>2, <2>3, <2>6, <2>7, <2>8
<1> QED BY <1>2, <1>3, <1>4, <1>5, <1>6, <1>7 DEF Trace

-----------------------------------------------------------------------------
(* The steps of reportWork. *)

LEMMA ReportStep == ASSUME TraceInv, Report PROVE TraceInv'
<1> USE DEF TraceInv
<1>1. ASSUME UNCHANGED <<pd, countSeq, extra>>, pc' \notin {"recv", "drain", "check", "retransmit"}
      PROVE  HopInv' /\ CountInv' /\ GiveUpTogether' /\ IndexInRange'
  BY <1>1 DEF HopInv, CountInv, GiveUpTogether, IndexInRange, Complete, pd
<1>2. CASE ReportEnds \/ NoHost
  <2> USE <1>2 DEF ReportEnds, NoHost
  <2>1. TypeOK' BY DEF TypeOK, reportVars, pd, Ended
  <2>2. ReportInv' /\ RowsFollowHosts' BY DEF ReportInv, RowsFollowHosts, reportVars
  <2>3. HopInv' /\ CountInv' /\ GiveUpTogether' /\ IndexInRange' BY <1>1
  <2> QED BY <2>1, <2>2, <2>3
<1>3. CASE StartTrace
  <2> USE <1>3 DEF StartTrace, FirstProbe
  <2>1. TypeOK'
    <3>1. net' \in [Hops -> 0..NetCap] /\ errors' \in BOOLEAN BY SendType
    <3>2. /\ probe' \in [Hops -> 1..4] /\ icmpComplete' \in [Hops -> BOOLEAN]
          /\ printString' \in [Hops -> {"none", "hop", "star", "last"}]
      OBVIOUS
    <3>3. UNCHANGED <<i, q, hop_host, rows>> BY DEF reportVars
    <3> QED BY <3>1, <3>2, <3>3 DEF TypeOK
  <2>2. HopInv' /\ GiveUpTogether' BY DEF HopInv, GiveUpTogether
  <2>3. CountInv'
    <3>1. Answered' = {} BY DEF Answered
    <3> QED BY <3>1, FS_EmptySet DEF CountInv
  <2>4. IndexInRange' BY TracerouteAssumption DEF IndexInRange, TracerouteAssumption, Hops
  <2>5. ReportInv' /\ RowsFollowHosts' BY DEF ReportInv, RowsFollowHosts, reportVars
  <2> QED BY <2>1, <2>2, <2>3, <2>4, <2>5
<1>4. CASE Traced
  <2> USE <1>4 DEF Traced
  <2>1. Url \in 1..NUrls /\ Url = NUrls - q' /\ q' \in 0..NUrls
    BY TracerouteAssumption DEF Url, ReportInv, TypeOK, TracerouteAssumption
  <2>2. /\ hop_host \in Seq(1..NUrls) /\ rows \in Seq(1..NUrls) BY DEF TypeOK
  <2>3. hop_host' = Append(hop_host, Url) /\ rows' = Append(rows, Url) /\ i' = i + 1
    OBVIOUS
  <2>4. /\ Len(hop_host) \in Nat /\ \A k \in 1..Len(hop_host) : hop_host[k] \in 1..NUrls
        /\ Len(rows) \in Nat /\ \A k \in 1..Len(rows) : rows[k] \in 1..NUrls
    BY ReportTyped
  <2>5. hop_host \in Seq(Urls) /\ rows \in Seq(Urls) /\ Url \in Urls
    <3>1. Url \in Urls BY <2>1 DEF Urls
    <3> QED BY <3>1, ReportTyped
  <2>6. TypeOK' BY <2>1, <2>2, AppendElems DEF TypeOK, pd
  <2>7. \A k \in 1..Len(hop_host) : hop_host[k] < Url
    BY <2>4, TracerouteAssumption DEF ReportInv, Url, TypeOK, TracerouteAssumption
  <2>8. \A k \in 1..Len(rows) : rows[k] < Url
    <3> TAKE k \in 1..Len(rows)
    <3>1. hop_host # <<>> /\ rows[k] <= hop_host[Len(hop_host)] BY DEF ReportInv
    <3>2. Len(hop_host) \in 1..Len(hop_host) BY <2>2, <3>1
    <3>3. rows[k] \in 1..NUrls /\ hop_host[Len(hop_host)] \in 1..NUrls BY <2>4, <3>2
    <3>4. hop_host[Len(hop_host)] < Url BY <2>7, <3>2
    <3> HIDE <1>4 DEF Traced
    <3> QED BY <2>1, <3>1, <3>3, <3>4, TracerouteAssumption DEF TracerouteAssumption
  <2>9. /\ Len(hop_host') = Len(hop_host) + 1 /\ Len(rows') = Len(rows) + 1
        /\ Len(hop_host) \in Nat /\ Len(rows) \in Nat /\ hop_host' # <<>>
        /\ \A k \in 1..Len(hop_host) : hop_host'[k] = hop_host[k]
        /\ \A k \in 1..Len(rows) : rows'[k] = rows[k]
        /\ hop_host'[Len(hop_host) + 1] = Url /\ rows'[Len(rows) + 1] = Url
        /\ Elems(hop_host') = Elems(hop_host) \cup {Url} /\ Elems(rows') = Elems(rows) \cup {Url}
    <3>1. /\ Len(hop_host') = Len(hop_host) + 1
          /\ \A k \in 1..Len(hop_host) : hop_host'[k] = hop_host[k]
          /\ hop_host'[Len(hop_host) + 1] = Url
          /\ Elems(hop_host') = Elems(hop_host) \cup {Url}
      <4> HIDE <1>4 DEF Traced
      <4>1. Elems(Append(hop_host, Url)) = Elems(hop_host) \cup {Url} BY <2>5, ElemsAppend
      <4> QED BY <2>5, <2>3, <4>1, AppendElems
    <3>2. /\ Len(rows') = Len(rows) + 1
          /\ \A k \in 1..Len(rows) : rows'[k] = rows[k]
          /\ rows'[Len(rows) + 1] = Url
          /\ Elems(rows') = Elems(rows) \cup {Url}
      <4> HIDE <1>4 DEF Traced
      <4>1. Elems(Append(rows, Url)) = Elems(rows) \cup {Url} BY <2>5, ElemsAppend
      <4> QED BY <2>5, <2>3, <4>1, AppendElems
    <3>3. hop_host' # <<>>
      <4> HIDE <1>4 DEF Traced
      <4> QED BY <2>4, <3>1
    <3> QED BY <2>4, <3>1, <3>2, <3>3
  <2>10. /\ \A k \in 1..Len(hop_host') : k \in 1..Len(hop_host) \/ k = Len(hop_host) + 1
        /\ \A k \in 1..Len(rows') : k \in 1..Len(rows) \/ k = Len(rows) + 1
    <3> HIDE <1>4 DEF Traced
    <3> QED BY <2>4, <2>9
  <2>11. ReportInv'
    <3>1. i' = Len(hop_host') BY <2>3, <2>9 DEF ReportInv
    <3>2. \A k \in 1..Len(hop_host') : hop_host'[k] <= NUrls - q'
      <4> HIDE <1>4 DEF Traced
      <4>1. NUrls - q' \in 1..NUrls BY <2>1
      <4>2. \A k \in 1..Len(hop_host) : hop_host'[k] <= NUrls - q'
        BY <2>1, <2>4, <2>7, <2>9, TracerouteAssumption DEF TracerouteAssumption
      <4>3. hop_host'[Len(hop_host) + 1] <= NUrls - q'
        <5>1. Url \in Int /\ Url <= NUrls - q'
          <6>1. Url \in Int /\ Url = NUrls - q' BY <2>1
          <6> QED BY <6>1
        <5> QED BY <2>9, <5>1
      <4> QED BY <2>10, <4>2, <4>3
    <3>3. \A k \in 1..Len(rows') : rows'[k] <= hop_host'[Len(hop_host')]
      <4> HIDE <1>4 DEF Traced
      <4> QED BY <2>1, <2>4, <2>8, <2>9, <2>10, TracerouteAssumption DEF TracerouteAssumption
    <3>4. pc' = "next" OBVIOUS
    <3> HIDE <1>4 DEF Traced
    <3> QED BY <2>9, <3>1, <3>2, <3>3, <3>4 DEF ReportInv
  <2>12. RowsFollowHosts'
    <3>1. Elems(rows) = Elems(hop_host) BY DEF RowsFollowHosts, Elems
    <3>2. {rows'[k] : k \in 1..Len(rows')} = {hop_host'[k] : k \in 1..Len(hop_host')}
      BY <2>9, <3>1 DEF Elems
    <3>3. \A k \in 1..(Len(rows') - 1) : rows'[k] <= rows'[k + 1]
      <4> TAKE k \in 1..(Len(rows') - 1)
      <4> HIDE <1>4 DEF Traced
      <4>1. k \in 1..Len(rows) /\ rows'[k] = rows[k] BY <2>9
      <4>2. CASE k = Len(rows)
        <5>1. rows'[k + 1] = Url /\ rows[k] < Url /\ rows[k] \in 1..NUrls
          BY <2>4, <2>8, <2>9, <4>1, <4>2
        <5> QED BY <2>1, <4>1, <5>1
      <4>3. CASE k # Len(rows)
        <5>1. k \in 1..(Len(rows) - 1) /\ k + 1 \in 1..Len(rows) BY <2>9, <4>1, <4>3
        <5> QED BY <2>9, <4>1, <5>1 DEF RowsFollowHosts
      <4> QED BY <4>2, <4>3
    <3>4. Len(rows') = NUrls - q'
      <4>1. Len(rows) = NUrls - q BY DEF RowsFollowHosts
      <4> QED BY <2>9, <4>1, TracerouteAssumption DEF TypeOK, TracerouteAssumption
    <3> QED BY <3>2, <3>3, <3>4 DEF RowsFollowHosts
  <2>13. HopInv' /\ CountInv' /\ GiveUpTogether' /\ IndexInRange' BY <1>1
  <2> QED BY <2>6, <2>11, <2>12, <2>13
<1>5. CASE Failed
  <2> USE <1>5 DEF Failed, IndexBack
  <2>1. /\ hop_host \in Seq(1..NUrls) /\ rows \in Seq(1..NUrls) /\ q' \in 0..NUrls /\ i = Len(hop_host)
        /\ q' = q - 1 /\ q \in Nat /\ Len(hop_host) \in Nat /\ Len(rows) \in Nat
        /\ \A k \in 1..Len(hop_host) : hop_host[k] \in 1..NUrls
        /\ \A k \in 1..Len(rows) : rows[k] \in 1..NUrls
    BY TracerouteAssumption DEF TypeOK, ReportInv, TracerouteAssumption
  <2>2. HopInv' /\ CountInv' /\ GiveUpTogether' /\ IndexInRange' BY <1>1
  <2>3. CASE i = 0
    <3>1. hop_host = <<>> /\ Len(hop_host) = 0
      <4> HIDE <1>5 DEF Failed, IndexBack
      <4>1. Len(hop_host) = 0 BY <2>1, <2>3
      <4> QED BY <2>1, <4>1
    <3>2. IndexBack \notin 0..(Len(hop_host) - 1) BY <2>3, <3>1 DEF IndexBack
    <3>3. pc' = "threw" /\ UNCHANGED <<rows, i, hop_host>> BY <3>2
    <3>4. TypeOK' BY <2>1, <3>3 DEF TypeOK, pd, Ended
    <3>5. ReportInv' BY <2>1, <3>1, <3>3 DEF ReportInv
    <3>6. RowsFollowHosts'
      <4>1. Elems(rows)' = Elems(hop_host)' BY <3>3 DEF RowsFollowHosts, Elems
      <4> QED BY <3>1, <3>3, <4>1 DEF RowsFollowHosts, Elems
    <3> QED BY <2>2, <3>4, <3>5, <3>6
  <2>4. CASE i # 0
    <3> DEFINE e == hop_host[Len(hop_host)]
    <3>1. Len(hop_host) \in 1..Len(hop_host) /\ IndexBack \in 0..(Len(hop_host) - 1)
      BY <2>1, <2>4 DEF IndexBack, TypeOK
    <3>2. IndexBack + 1 = Len(hop_host) BY <2>1, <3>1 DEF IndexBack
    <3>3. /\ i' = i /\ pc' = "next" /\ rows' = Append(rows, e) /\ UNCHANGED hop_host
      BY <2>1, <3>1, <3>2
    <3> HIDE <1>5 DEF Failed, IndexBack
    <3>4. e \in 1..NUrls BY <2>1, <3>1
    <3>5. /\ Len(rows') = Len(rows) + 1 /\ Len(rows) \in Nat
          /\ \A k \in 1..Len(rows) : rows'[k] = rows[k]
          /\ rows'[Len(rows) + 1] = e /\ rows' \in Seq(1..NUrls)
          /\ Elems(rows') = Elems(rows) \cup {e}
      <4>1. e \in Urls BY <3>4 DEF Urls
      <4>2. rows \in Seq(Urls) /\ Len(rows) \in Nat BY ReportTyped
      <4> HIDE DEF e
      <4>3. /\ Len(rows') = Len(rows) + 1
            /\ \A k \in 1..Len(rows) : rows'[k] = rows[k]
            /\ rows'[Len(rows) + 1] = e /\ rows' \in Seq(Urls)
            /\ Elems(rows') = Elems(rows) \cup {e}
        <5>1. Elems(Append(rows, e)) = Elems(rows) \cup {e} BY <4>1, <4>2, ElemsAppend
        <5> QED BY <3>3, <4>1, <4>2, <5>1, AppendElems
      <4> QED BY <4>2, <4>3 DEF Urls
    <3>6. TypeOK' BY <1>5, <2>1, <3>3, <3>5 DEF TypeOK, pd, Failed
    <3>7. \A k \in 1..Len(rows) : rows[k] <= e BY DEF ReportInv
    <3>8. ReportInv'
      <4>1. \A k \in 1..Len(rows') : rows'[k] <= e BY <3>4, <3>5, <3>7
      <4>2. \A k \in 1..Len(hop_host) : hop_host[k] <= NUrls - q'
        BY <2>1, TracerouteAssumption DEF ReportInv, TracerouteAssumption
      <4>3. hop_host # <<>> BY <3>1
      <4> QED BY <2>1, <3>3, <4>1, <4>2, <4>3 DEF ReportInv
    <3>9. RowsFollowHosts'
      <4>1. e \in Elems(hop_host) BY <3>1 DEF Elems
      <4>2. Elems(rows) = Elems(hop_host) BY DEF RowsFollowHosts, Elems
      <4>3. {rows'[k] : k \in 1..Len(rows')} = {hop_host'[k] : k \in 1..Len(hop_host')}
        BY <3>3, <3>5, <4>1, <4>2 DEF Elems
      <4>4. \A k \in 1..(Len(rows') - 1) : rows'[k] <= rows'[k + 1]
        <5> TAKE k \in 1..(Len(rows') - 1)
        <5>1. k \in 1..Len(rows) /\ rows'[k] = rows[k] BY <3>5
        <5>2. CASE k = Len(rows) BY <3>5, <3>7, <5>1, <5>2
        <5>3. CASE k # Len(rows)
          <6>1. k \in 1..(Len(rows) - 1) /\ k + 1 \in 1..Len(rows) BY <3>5, <5>1, <5>3
          <6> QED BY <3>5, <5>1, <6>1 DEF RowsFollowHosts
        <5> QED BY <5>2, <5>3
      <4>5. Len(rows') = NUrls - q'
        <5>1. Len(rows) = NUrls - q BY <1>5 DEF RowsFollowHosts, Failed
        <5> QED BY <2>1, <3>5, <5>1, TracerouteAssumption DEF TracerouteAssumption
      <4> QED BY <3>3, <4>3, <4>4, <4>5 DEF RowsFollowHosts
    <3> QED BY <2>2, <3>6, <3>8, <3>9
  <2> QED BY <2>3, <2>4
<1> QED BY <1>2, <1>3, <1>4, <1>5 DEF Report

-----------------------------------------------------------------------------
(* The properties. *)

(* TraceInv holds in every reachable state. *)
THEOREM Invariance == Spec => []TraceInv
<1>1. ASSUME TraceInv, UNCHANGED vars PROVE TraceInv'
  <2> USE <1>1 DEF vars, reportVars, pd, TraceInv
  <2>1. TypeOK' BY DEF TypeOK
  <2>2. HopInv' /\ GiveUpTogether' /\ IndexInRange'
    BY DEF HopInv, GiveUpTogether, IndexInRange, Complete
  <2>3. Answered' = Answered BY DEF Answered
  <2>4. CountInv' BY <2>3 DEF CountInv
  <2>5. ReportInv' /\ RowsFollowHosts' BY DEF ReportInv, RowsFollowHosts
  <2> QED BY <2>1, <2>2, <2>4, <2>5
<1>2. TraceInv /\ [Next]_vars => TraceInv' BY <1>1, TraceStep, ReportStep DEF Next
<1> QED BY InitInv, <1>2, PTL DEF Spec

(* Type correctness: no hop gets beyond its fourth round. *)
THEOREM TypeCorrect == Spec => []TypeOK
<1>1. TraceInv => TypeOK BY DEF TraceInv
<1> QED BY Invariance, <1>1, PTL

(* The hops that stay silent are given up in one and the same round. *)
THEOREM GivenUpTogether == Spec => []GiveUpTogether
<1>1. TraceInv => GiveUpTogether BY DEF TraceInv
<1> QED BY Invariance, <1>1, PTL

(* countSeq leaves the array only for the reasons named. *)
THEOREM IndexBounded == Spec => []IndexInRange
<1>1. TraceInv => IndexInRange BY DEF TraceInv
<1> QED BY Invariance, <1>1, PTL

(* The file has the rows of every host traced, in order. *)
THEOREM RowsCorrect == Spec => []RowsFollowHosts
<1>1. TraceInv => RowsFollowHosts BY DEF TraceInv
<1> QED BY Invariance, <1>1, PTL
-----------------------------------------------------------------------------
(* Termination. *)

(* Answers in flight, one by one, and the most there can be of them.        *)
InFlight == {p \in Hops \X (1..NetCap) : p[2] <= net[p[1]]}
Most     == N * NetCap

(* The rounds that are left for the hops still waited for.                  *)
Rounds == IF Complete THEN 0 ELSE 5 - probe[CHOOSE s \in Hops : ~icmpComplete[s]]

(* More than the steps of one round, and of the trace of one host.          *)
Round   == Most + 4
OneHost == 5 * Round + 2

(* The steps that are left of this round but for the answers to read.       *)
StepsOfRound ==
  CASE pc = "recv"       -> 6
    [] pc = "drain"      -> 5
    [] pc = "check"      -> 4
    [] pc = "retransmit" -> 3
    [] OTHER             -> 0

Tracing == {"recv", "drain", "check", "retransmit"}

StepsOfTrace == Rounds * Round + Cardinality(InFlight) + StepsOfRound

(* At most this many steps are left of the report.                          *)
StepsLeft ==
  CASE pc = "next"    -> q * OneHost + 1
    [] pc \in Tracing -> (q - 1) * OneHost + StepsOfTrace
    [] pc = "return"  -> (q - 1) * OneHost + 2
    [] OTHER          -> 0

(* Packets are sent again only to a host that has hops to wait for.         *)
ResendInv == pc = "retransmit" => ~Complete

LEMMA Resend == Spec => []ResendInv
<1>1. Init => ResendInv BY DEF Init, ResendInv
<1>2. ResendInv /\ [Next]_vars => ResendInv'
  <2> SUFFICES ASSUME ResendInv, [Next]_vars, pc' = "retransmit" PROVE ~Complete'
    BY DEF ResendInv
  <2>1. CASE UNCHANGED vars BY <2>1 DEF vars, pd, ResendInv, Complete
  <2>2. CASE NotComplete BY <2>2 DEF NotComplete, Complete, pd
  <2>3. CASE Next /\ ~NotComplete
    BY <2>3 DEF Next, Report, Trace, ReportEnds, StartTrace, NoHost, Traced, Failed,
       SelectTimeout, SelectError, Expired, Unrelated, IcmpError, Drained, LastLine, Crash,
       RetransmitPackets, SendFails
  <2> QED BY <2>1, <2>2, <2>3
<1> QED BY <1>1, <1>2, PTL DEF Spec

LEMMA Counted4 == Most \in Nat /\ Round \in Nat /\ OneHost \in Nat
BY TracerouteAssumption DEF TracerouteAssumption, Most, Round, OneHost

(* There are no more answers in flight than fit.                            *)
LEMMA InFlightBounded ==
  ASSUME NEW S, S \in SUBSET (Hops \X (1..NetCap))
  PROVE  IsFiniteSet(S) /\ Cardinality(S) \in 0..Most
<1>1. IsFiniteSet(1..NetCap) /\ Cardinality(1..NetCap) = NetCap
  BY FS_Interval, TracerouteAssumption DEF TracerouteAssumption
<1>2. IsFiniteSet(Hops \X (1..NetCap)) /\ Cardinality(Hops \X (1..NetCap)) = N * NetCap
  BY <1>1, HopsFinite, FS_Product
<1>3. IsFiniteSet(S) /\ Cardinality(S) <= Most BY <1>2, FS_Subset DEF Most
<1>4. Cardinality(S) \in Nat BY <1>3, FS_CardinalityType
<1> QED BY <1>3, <1>4, Counted4

(* An answer that is read is in flight no longer.                           *)
LEMMA AnswerRead ==
  ASSUME TypeOK, NEW s \in Hops, net[s] > 0, net' = [net EXCEPT ![s] = @ - 1]
  PROVE  Cardinality(InFlight') = Cardinality(InFlight) - 1
<1>1. net \in [Hops -> 0..NetCap] BY DEF TypeOK
<1>2. net[s] \in 1..NetCap BY <1>1
<1>3. <<s, net[s]>> \in InFlight BY <1>2 DEF InFlight
<1>4. ASSUME NEW u \in Hops, NEW k \in 1..NetCap
      PROVE  <<u, k>> \in InFlight' <=> <<u, k>> \in InFlight \ {<<s, net[s]>>}
  <2>1. <<u, k>> \in InFlight <=> k <= net[u] BY DEF InFlight
  <2>2. <<u, k>> \in InFlight' <=> k <= net'[u] BY DEF InFlight
  <2>3. CASE u = s
    <3>1. net'[u] = net[s] - 1 BY <1>1, <2>3
    <3>2. <<u, k>> = <<s, net[s]>> <=> k = net[s] BY <2>3
    <3> QED BY <1>2, <2>1, <2>2, <2>3, <3>1, <3>2
  <2>4. CASE u # s
    <3>1. net'[u] = net[u] BY <1>1, <2>4
    <3> QED BY <2>1, <2>2, <2>4, <3>1
  <2> QED BY <2>3, <2>4
<1>5. InFlight' = InFlight \ {<<s, net[s]>>}
  <2>1. InFlight' \in SUBSET (Hops \X (1..NetCap)) /\ InFlight \in SUBSET (Hops \X (1..NetCap))
    BY DEF InFlight
  <2>2. \A p \in Hops \X (1..NetCap) : p \in InFlight' <=> p \in InFlight \ {<<s, net[s]>>}
    <3> TAKE p \in Hops \X (1..NetCap)
    <3>1. PICK u \in Hops, k \in 1..NetCap : p = <<u, k>> OBVIOUS
    <3> QED BY <1>4, <3>1
  <2> QED BY <2>1, <2>2
<1>6. InFlight \in SUBSET (Hops \X (1..NetCap)) BY DEF InFlight
<1> QED BY <1>3, <1>5, <1>6, InFlightBounded, FS_RemoveElement

(* As the hops waited for have been sent to equally often, any of them      *)
(* tells the rounds that are left.                                          *)
LEMMA RoundsOfHop ==
  ASSUME TypeOK, HopInv
  PROVE  /\ Rounds \in 0..4
         /\ \A s \in Hops : ~icmpComplete[s] => Rounds = 5 - probe[s]
<1> DEFINE c == CHOOSE s \in Hops : ~icmpComplete[s]
<1>1. CASE Complete BY <1>1 DEF Rounds, Complete
<1>2. CASE ~Complete
  <2>1. c \in Hops /\ ~icmpComplete[c] BY <1>2 DEF Complete
  <2>2. probe[c] \in 1..4 BY <2>1 DEF TypeOK
  <2>3. Rounds = 5 - probe[c] BY <1>2 DEF Rounds
  <2>4. \A s \in Hops : ~icmpComplete[s] => probe[s] = probe[c] BY <2>1 DEF HopInv
  <2> QED BY <2>2, <2>3, <2>4
<1> QED BY <1>1, <1>2

(* Hops that become complete leave the rounds as they are, or end them.     *)
LEMMA RoundsStay ==
  ASSUME TypeOK, HopInv, TypeOK', HopInv', probe' = probe,
         \A s \in Hops : icmpComplete[s] => icmpComplete'[s]
  PROVE  Rounds' <= Rounds
<1>0. (TypeOK /\ HopInv => /\ Rounds \in 0..4
                           /\ \A s \in Hops : ~icmpComplete[s] => Rounds = 5 - probe[s])'
  BY RoundsOfHop, PTL
<1>1. Rounds \in 0..4 /\ Rounds' \in 0..4 BY <1>0, RoundsOfHop
<1>2. CASE Complete' BY <1>1, <1>2 DEF Rounds
<1>3. CASE ~Complete'
  <2>1. PICK s \in Hops : ~icmpComplete'[s] BY <1>3 DEF Complete
  <2>2. ~icmpComplete[s] BY <2>1
  <2>3. Rounds = 5 - probe[s] BY <2>2, RoundsOfHop
  <2>4. Rounds' = 5 - probe'[s] BY <1>0, <2>1
  <2> QED BY <1>1, <2>3, <2>4
<1> QED BY <1>2, <1>3
(* With a round over, one round less is left, or the hops are given up.     *)
LEMMA RoundOver ==
  ASSUME TypeOK, HopInv, TypeOK', HopInv', RetransmitPackets, ~Complete
  PROVE  Rounds' <= Rounds - 1
<1>1. (TypeOK /\ HopInv => /\ Rounds \in 0..4
                           /\ \A s \in Hops : ~icmpComplete[s] => Rounds = 5 - probe[s])'
  BY RoundsOfHop, PTL
<1>2. PICK s \in Hops : ~icmpComplete[s] BY DEF Complete
<1>3. Rounds = 5 - probe[s] /\ probe[s] \in 1..4 BY <1>2, RoundsOfHop DEF TypeOK
<1>4. CASE Complete' BY <1>3, <1>4 DEF Rounds
<1>5. CASE ~Complete'
  <2>1. PICK u \in Hops : ~icmpComplete'[u] BY <1>5 DEF Complete
  <2>2. ~icmpComplete[u] /\ ~GivenUpNow(u) BY <2>1 DEF RetransmitPackets
  <2>3. Rounds = 5 - probe[u] /\ probe[u] \in 1..4 BY <2>2, RoundsOfHop DEF TypeOK
  <2>4. Counted(u) BY <2>2, <2>3 DEF Counted, GivenUpNow
  <2>5. probe'[u] = probe[u] + 1 BY <2>4 DEF RetransmitPackets
  <2>6. Rounds' = 5 - probe'[u] BY <1>1, <2>1
  <2> QED BY <2>3, <2>5, <2>6
<1> QED BY <1>4, <1>5

LEMMA StepsFall ==
  TraceInv /\ TraceInv' /\ ResendInv /\ [Next]_vars => [StepsLeft' < StepsLeft]_vars
<1> SUFFICES ASSUME TraceInv, TraceInv', ResendInv, Next PROVE StepsLeft' < StepsLeft
  OBVIOUS
<1> DEFINE F == Cardinality(InFlight)
<1>1. F \in 0..Most /\ F' \in 0..Most
  <2>1. InFlight \in SUBSET (Hops \X (1..NetCap)) /\ InFlight' \in SUBSET (Hops \X (1..NetCap))
    BY DEF InFlight
  <2> QED BY <2>1, InFlightBounded
<1>2. PICK f0 \in 0..Most : f0 = F BY <1>1
<1>3. PICK f1 \in 0..Most : f1 = F' BY <1>1
<1>4. Rounds \in 0..4 /\ Rounds' \in 0..4
  <2>1. (TypeOK /\ HopInv => Rounds \in 0..4)' BY RoundsOfHop, PTL
  <2> QED BY <2>1, RoundsOfHop DEF TraceInv
<1>5. PICK r0 \in 0..4 : r0 = Rounds BY <1>4
<1>6. PICK r1 \in 0..4 : r1 = Rounds' BY <1>4
<1>6a. PICK p0 \in 0..6 : p0 = StepsOfRound BY DEF StepsOfRound
<1>6b. PICK p1 \in 0..6 : p1 = StepsOfRound' BY DEF StepsOfRound
<1>7. /\ StepsLeft  = CASE pc = "next"    -> q * OneHost + 1
                        [] pc \in Tracing -> (q - 1) * OneHost + (r0 * Round + f0 + p0)
                        [] pc = "return"  -> (q - 1) * OneHost + 2
                        [] OTHER          -> 0
      /\ StepsLeft' = CASE pc' = "next"    -> q' * OneHost + 1
                        [] pc' \in Tracing -> (q' - 1) * OneHost + (r1 * Round + f1 + p1)
                        [] pc' = "return"  -> (q' - 1) * OneHost + 2
                        [] OTHER           -> 0
  BY <1>2, <1>3, <1>5, <1>6, <1>6a, <1>6b DEF StepsLeft, StepsOfTrace
<1> DEFINE S0 == r0 * Round + f0 + p0
           S1 == r1 * Round + f1 + p1
<1>8. /\ r0 * Round \in Nat /\ r1 * Round \in Nat /\ r1 * Round <= 4 * Round
      /\ r1 <= r0 => r1 * Round <= r0 * Round
      /\ r1 <= r0 - 1 => r1 * Round + Round <= r0 * Round
  BY Counted4
<1>9. q \in Nat /\ \A m \in Nat : m > 0 => /\ (m - 1) * OneHost \in Nat
                                           /\ m * OneHost = (m - 1) * OneHost + OneHost
  BY Counted4, TracerouteAssumption DEF TraceInv, TypeOK, TracerouteAssumption
<1>10. pc \in Tracing \cup {"return"} => q > 0 BY DEF Tracing, TraceInv, ReportInv
<1>11. PICK x \in Int : x = (q - 1) * OneHost /\ (q > 0 => x \in Nat)
  <2>1. (q - 1) * OneHost \in Int BY <1>9, Counted4
  <2> QED BY <1>9, <2>1
<1>12. ASSUME pc \in Tracing, pc' \in Tracing, q' = q, S1 < S0
       PROVE  StepsLeft' < StepsLeft
  <2>1. StepsLeft = x + S0 /\ StepsLeft' = x + S1 BY <1>7, <1>11, <1>12 DEF Tracing
  <2>2. S0 \in Nat /\ S1 \in Nat BY <1>8
  <2> HIDE DEF S0, S1
  <2> QED BY <2>1, <2>2, <1>12
<1>13. ASSUME pc \in Tracing, pc' = "return", q' = q PROVE StepsLeft' < StepsLeft
  <2>1. StepsLeft = x + S0 /\ StepsLeft' = x + 2 BY <1>7, <1>11, <1>13 DEF Tracing
  <2>2. p0 >= 3 BY <1>6a, <1>13 DEF StepsOfRound, Tracing
  <2>3. S0 \in Nat /\ S0 >= 3 BY <1>8, <2>2
  <2> HIDE DEF S0
  <2> QED BY <2>1, <2>3
<1>14. ASSUME pc' \in Ended, pc \notin Ended PROVE StepsLeft' < StepsLeft
  <2>1. pc \in {"next", "return"} \cup Tracing BY <1>14 DEF Tracing, TraceInv, TypeOK
  <2>2. StepsLeft' = 0 BY <1>7, <1>14 DEF Ended, Tracing
  <2>3. CASE pc = "next"
    <3>1. PICK y \in Nat : y = q * OneHost
      <4>1. \A m, n \in Nat : m * n \in Nat OBVIOUS
      <4> QED BY <4>1, <1>9, Counted4
    <3>2. StepsLeft = y + 1 BY <1>7, <2>3, <3>1 DEF Tracing
    <3> QED BY <2>2, <3>2
  <2>4. CASE pc = "return"
    <3>1. x \in Nat BY <1>10, <1>11, <2>4
    <3>2. StepsLeft = x + 2 BY <1>7, <1>11, <2>4 DEF Tracing
    <3> QED BY <2>2, <3>1, <3>2
  <2>5. CASE pc \in Tracing
    <3>1. x \in Nat BY <1>10, <1>11, <2>5
    <3>2. StepsLeft = x + S0 BY <1>7, <1>11, <2>5 DEF Tracing
    <3>3. p0 >= 3 BY <1>6a, <2>5 DEF StepsOfRound, Tracing
    <3>4. S0 \in Nat /\ S0 >= 3 BY <1>8, <3>3
    <3> HIDE DEF S0
    <3> QED BY <2>2, <3>1, <3>2, <3>4
  <2> QED BY <2>1, <2>3, <2>4, <2>5
<1>15. CASE ReportEnds \/ SendFails \/ Crash
  BY <1>14, <1>15 DEF ReportEnds, SendFails, Crash, Ended
<1>16. CASE StartTrace
  <2>1. pc = "next" /\ q > 0 /\ pc' = "recv" /\ q' = q BY <1>16 DEF StartTrace, reportVars
  <2>2. StepsLeft = q * OneHost + 1 /\ StepsLeft' = (q - 1) * OneHost + S1
    BY <1>7, <2>1 DEF Tracing
  <2>3. p1 = 6 BY <1>6b, <2>1 DEF StepsOfRound
  <2>4. S1 \in Nat /\ S1 <= OneHost
    BY <1>8, <2>3, Counted4 DEF OneHost, Round
  <2> QED BY <1>9, <2>1, <2>2, <2>4, Counted4
<1>17. CASE NoHost
  <2>1. pc = "next" /\ q > 0 /\ pc' = "return" /\ q' = q BY <1>17 DEF NoHost, reportVars
  <2>2. StepsLeft = q * OneHost + 1 /\ StepsLeft' = (q - 1) * OneHost + 2
    BY <1>7, <2>1 DEF Tracing
  <2>3. OneHost > 1 BY Counted4 DEF OneHost
  <2> QED BY <1>9, <2>1, <2>2, <2>3, Counted4
<1>18. CASE SelectTimeout \/ SelectError \/ Unrelated \/ Drained \/ NotComplete
  <2>1. /\ <<pc, pc'>> \in {<<"recv", "check">>, <<"recv", "drain">>,
                            <<"drain", "check">>, <<"check", "retransmit">>}
        /\ q' = q /\ net' = net /\ probe' = probe /\ icmpComplete' = icmpComplete
    BY <1>18 DEF SelectTimeout, SelectError, Unrelated, Drained, NotComplete, reportVars, pd
  <2>2. f1 = f0 BY <1>2, <1>3, <2>1 DEF InFlight
  <2>3. r1 <= r0 BY <1>5, <1>6, <2>1, RoundsStay DEF TraceInv
  <2>4. p1 < p0 BY <1>6a, <1>6b, <2>1 DEF StepsOfRound
  <2>5. S1 < S0 BY <1>8, <2>2, <2>3, <2>4
  <2> QED BY <1>12, <2>1, <2>5 DEF Tracing
<1>19. ASSUME NEW s \in Hops, Expired(s) PROVE StepsLeft' < StepsLeft
  <2>1. /\ pc \in {"recv", "drain"} /\ pc' = "drain" /\ q' = q /\ net[s] > 0
        /\ net' = [net EXCEPT ![s] = @ - 1] /\ probe' = probe
        /\ icmpComplete' = [icmpComplete EXCEPT ![s] = TRUE]
    BY <1>19 DEF Expired, reportVars
  <2>2. f1 = f0 - 1 BY <1>2, <1>3, <2>1, AnswerRead DEF TraceInv
  <2>3. \A u \in Hops : icmpComplete[u] => icmpComplete'[u] BY <2>1 DEF TraceInv, TypeOK
  <2>4. r1 <= r0 BY <1>5, <1>6, <2>1, <2>3, RoundsStay DEF TraceInv
  <2>5. p1 <= p0 BY <1>6a, <1>6b, <2>1 DEF StepsOfRound
  <2>6. S1 < S0 BY <1>8, <2>2, <2>4, <2>5
  <2> QED BY <1>12, <2>1, <2>6 DEF Tracing
<1>20. CASE IcmpError \/ LastLine
  BY <1>13, <1>20 DEF IcmpError, LastLine, reportVars, Tracing
<1>21. CASE RetransmitPackets
  <2>1. pc = "retransmit" /\ pc' = "recv" /\ q' = q BY <1>21 DEF RetransmitPackets, reportVars
  <2>2. r1 <= r0 - 1 BY <1>5, <1>6, <1>21, <2>1, RoundOver DEF TraceInv, ResendInv
  <2>3. p0 = 3 /\ p1 = 6 BY <1>6a, <1>6b, <2>1 DEF StepsOfRound
  <2>4. S1 < S0 BY <1>8, <2>2, <2>3, Counted4 DEF Round
  <2> QED BY <1>12, <2>1, <2>4 DEF Tracing
<1>22. CASE Traced \/ Failed
  <2>1. pc = "return" /\ q' = q - 1 /\ pc' \in {"next", "threw"}
    BY <1>22 DEF Traced, Failed
  <2>2. CASE pc' = "threw" BY <1>14, <2>1, <2>2 DEF Ended
  <2>3. CASE pc' = "next"
    <3>1. StepsLeft = x + 2 /\ StepsLeft' = x + 1 BY <1>7, <1>11, <2>1, <2>3 DEF Tracing
    <3> QED BY <3>1
  <2> QED BY <2>1, <2>2, <2>3
<1> QED BY <1>15, <1>16, <1>17, <1>18, <1>19, <1>20, <1>21, <1>22 DEF Next, Report, Trace

(* Every step takes one of a number of steps that the URLs, the hops and    *)
(* the answers in flight bound: hops that stay silent, answers that come    *)
(* late and errors cannot keep a trace, or the report, from its end.        *)
THEOREM StepsBounded ==
  Spec => [](StepsLeft \in Nat) /\ [][StepsLeft' < StepsLeft]_vars
<1>1. TraceInv => StepsLeft \in Nat
  <2> SUFFICES ASSUME TraceInv PROVE StepsLeft \in Nat OBVIOUS
  <2>1. q \in Nat /\ \A m \in Nat : m * OneHost \in Nat /\ (m > 0 => (m - 1) * OneHost \in Nat)
    BY Counted4, TracerouteAssumption DEF TraceInv, TypeOK, TracerouteAssumption
  <2>2. pc \in Tracing \cup {"return"} => q > 0 BY DEF Tracing, TraceInv, ReportInv
  <2>3. StepsOfTrace \in Nat
    <3>1. InFlight \in SUBSET (Hops \X (1..NetCap)) BY DEF InFlight
    <3>2. PICK f \in Nat : f = Cardinality(InFlight) BY <3>1, InFlightBounded
    <3>3. PICK r \in 0..4 : r = Rounds BY RoundsOfHop DEF TraceInv
    <3>4. r * Round \in Nat BY Counted4
    <3>5. PICK p \in Nat : p = StepsOfRound BY DEF StepsOfRound
    <3>6. StepsOfTrace = r * Round + f + p BY <3>2, <3>3, <3>5 DEF StepsOfTrace
    <3>7. \A k \in Nat : k + f + p \in Nat OBVIOUS
    <3> QED BY <3>4, <3>6, <3>7
  <2>4. CASE pc = "next"
    <3>1. StepsLeft = q * OneHost + 1 BY <2>4 DEF StepsLeft, Tracing
    <3> QED BY <2>1, <3>1
  <2>5. CASE pc \in Tracing
    <3>1. StepsLeft = (q - 1) * OneHost + StepsOfTrace BY <2>5 DEF StepsLeft, Tracing
    <3> QED BY <2>1, <2>2, <2>3, <2>5, <3>1
  <2>6. CASE pc = "return"
    <3>1. StepsLeft = (q - 1) * OneHost + 2 BY <2>6 DEF StepsLeft, Tracing
    <3> QED BY <2>1, <2>2, <2>6, <3>1
  <2>7. CASE pc \in Ended BY <2>7 DEF StepsLeft, Ended, Tracing
  <2> QED BY <2>4, <2>5, <2>6, <2>7 DEF TraceInv, TypeOK, Tracing
<1> QED BY Invariance, Resend, StepsFall, <1>1, PTL DEF Spec
=============================================================================
