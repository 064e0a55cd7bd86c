--------------------------- MODULE ProtocolProofs ---------------------------
(***************************************************************************)
(* What this machine keeps of its talk with a renderer: the session        *)
(* streams only when prepared, the reader of a device description takes    *)
(* each control URL from the service that states it, the RTSP connection   *)
(* returns the answers to its requests, and the file server sends what RFC *)
(* 7233 asks for and what it announced.                                    *)
(***************************************************************************)
EXTENDS Session, Rtsp, Description, MediaServer, SequenceTheorems, TLAPS

-----------------------------------------------------------------------------
(* The session: it streams only when prepared, whatever events are reported *)
(* and for any set of reasons.                                              *)

\* NextOf takes a session along an arrow, to Stopping, to Error, or refuses.
LEMMA NextCases ==
    ASSUME NEW e \in Event, NEW why \in Reason, session.state \in State
    PROVE  LET n == NextOf(session, e, why) IN
             \/ n = Refused
             \/ \E a \in Arrow : a[1] = session.state /\ a[2] = e /\ n = In(a[3])
             \/ session.state # "Idle" /\ n = In("Stopping")
             \/ n = [state |-> "Error", reason |-> why]
<1>1. CASE \E a \in Arrow : a[1] = session.state /\ a[2] = e
  <2> DEFINE b == CHOOSE a \in Arrow : a[1] = session.state /\ a[2] = e
  <2>1. b \in Arrow /\ b[1] = session.state /\ b[2] = e
    BY <1>1
  <2>2. NextOf(session, e, why) = In(b[3])
    BY <1>1 DEF NextOf
  <2> QED BY <2>1, <2>2
<1>2. CASE ~\E a \in Arrow : a[1] = session.state /\ a[2] = e
  BY <1>2 DEF NextOf
<1> QED BY <1>1, <1>2

\* Every report keeps the invariant.
LEMMA ReportKeepsInv ==
    ASSUME SessionInv, NEW e \in Event, NEW why \in Reason, Report(e, why)
    PROVE  SessionInv'
<1> DEFINE n == NextOf(session, e, why)
<1>1. n # Refused /\ session' = n
      /\ reached' = IF n.state = "Idle" THEN {} ELSE reached \cup {n.state}
  BY DEF Report
<1>2. session.state \in State /\ session.reason \in Reason \cup {NoReason}
      /\ reached \subseteq State \ {"Idle"}
  BY DEF SessionInv, SessionTypeOK
<1>3. \/ \E a \in Arrow : a[1] = session.state /\ a[2] = e /\ n = In(a[3])
      \/ session.state # "Idle" /\ n = In("Stopping")
      \/ n = [state |-> "Error", reason |-> why]
  BY <1>1, <1>2, NextCases
<1> HIDE DEF n
<1>4. CASE \E a \in Arrow : a[1] = session.state /\ a[2] = e /\ n = In(a[3])
  <2>1. PICK a \in Arrow : a[1] = session.state /\ n = In(a[3])
    BY <1>4
  <2>2. n.state = a[3] /\ n.reason = NoReason /\ n \in [state: {a[3]}, reason: {NoReason}]
    BY <2>1 DEF In
  <2>3. a[3] \in State \ {"Stopping", "Error"}
    BY DEF Arrow, State
  <2>4. SessionTypeOK'
    BY <1>1, <1>2, <2>2, <2>3 DEF SessionTypeOK, State
  <2>5. Prepared' /\ NoStreamUnprepared'
    BY <1>1, <2>1, <2>2 DEF SessionInv, Prepared, NoStreamUnprepared, Arrow, Live
  <2> QED BY <2>4, <2>5 DEF SessionInv
<1>5. CASE n = In("Stopping")
  BY <1>1, <1>2, <1>5 DEF In, SessionInv, SessionTypeOK, Prepared, NoStreamUnprepared, State, Live
<1>6. CASE n = [state |-> "Error", reason |-> why]
  BY <1>1, <1>2, <1>6, SessionAssumption
    DEF SessionInv, SessionTypeOK, Prepared, NoStreamUnprepared, State, Live
<1> QED BY <1>3, <1>4, <1>5, <1>6

\* SessionInv holds in every state: its type, and how far a session has been taken.
THEOREM SpecSessionInv == SessionSpec => []SessionInv
<1>1. SessionInit => SessionInv
  BY DEF SessionInit, In, SessionInv, SessionTypeOK, Prepared, NoStreamUnprepared, State, Live
<1>2. SessionInv /\ [SessionNext]_sessionVars => SessionInv'
  <2> SUFFICES ASSUME SessionInv, [SessionNext]_sessionVars PROVE SessionInv'
    OBVIOUS
  <2>1. CASE SessionNext
    BY <2>1, ReportKeepsInv DEF SessionNext
  <2>2. CASE UNCHANGED sessionVars
    BY <2>2 DEF sessionVars, SessionInv, SessionTypeOK, Prepared, NoStreamUnprepared
  <2> QED BY <2>1, <2>2
<1> QED BY <1>1, <1>2, PTL DEF SessionSpec

\* A session that streams was prepared since it was last idle, and neither failed nor
\* stopped since (session.rs, SessionState::next).
THEOREM SpecNoStreamUnprepared == SessionSpec => []NoStreamUnprepared
<1>1. SessionInv => NoStreamUnprepared
  BY DEF SessionInv
<1> QED BY <1>1, SpecSessionInv, PTL

-----------------------------------------------------------------------------
(* The description: elements in the order of their nesting.                 *)

\* The last element of a sequence that is not empty, and the rest.
LEMMA LastOpen ==
    ASSUME DescTypeOK, open # <<>>
    PROVE  /\ Len(open) \in Nat \ {0} /\ Last(open) = open[Len(open)] /\ Last(open) \in DOMAIN services
           /\ Front(open) \in Seq(DOMAIN services) /\ Len(Front(open)) = Len(open) - 1
           /\ DOMAIN Front(open) = 1 .. Len(open) - 1
           /\ \A i \in 1 .. Len(open) - 1 : Front(open)[i] = open[i]
<1>1. open \in Seq(DOMAIN services) /\ Len(open) \in Nat /\ Len(open) # 0
  BY EmptySeq DEF DescTypeOK
<1>2. Last(open) = open[Len(open)] /\ Last(open) \in DOMAIN services
  BY <1>1, ElementOfSeq DEF Last
<1>3. /\ Front(open) \in Seq(DOMAIN services) /\ Len(Front(open)) = Len(open) - 1
      /\ \A i \in 1 .. Len(open) - 1 : Front(open)[i] = open[i]
  <2>1. Front(open) = [i \in 1 .. Len(open) - 1 |-> open[i]]
    BY <1>1 DEF Front
  <2>2. \A i \in 1 .. Len(open) - 1 : open[i] \in DOMAIN services
    BY <1>1
  <2> QED BY <1>1, <2>1, <2>2, IsASeq
<1> QED BY <1>1, <1>2, <1>3, LenProperties

\* The services that exist are numbered from 1.
LEMMA ServiceNumbers ==
    ASSUME DescTypeOK
    PROVE  /\ Len(services) \in Nat /\ DOMAIN services = 1 .. Len(services)
           /\ \A n \in DOMAIN services : services[n] \in [avt: BOOLEAN, url: Seq(Text), refs: Nat]
           /\ Len(open) \in Nat /\ DOMAIN open = 1 .. Len(open)
           /\ \A i \in DOMAIN open : open[i] \in DOMAIN services
           /\ Len(closed) \in Nat /\ DOMAIN closed = 1 .. Len(closed)
           /\ \A k \in DOMAIN closed : closed[k] \in DOMAIN services
<1>1. /\ services \in Seq([avt: BOOLEAN, url: Seq(Text), refs: Nat])
      /\ open \in Seq(DOMAIN services) /\ closed \in Seq(DOMAIN services)
  BY DEF DescTypeOK
<1>2. \A T, s : s \in Seq(T) => /\ Len(s) \in Nat /\ DOMAIN s = 1 .. Len(s)
                                /\ \A i \in DOMAIN s : s[i] \in T
  BY LenProperties, ElementOfSeq
<1> QED BY <1>1, <1>2

\* What is trimmed is a sequence of texts.
LEMMA TrimmedType == \A t \in Text : Trimmed(t) \in Seq(Text)
BY DEF Trimmed

\* A service that starts: it is the innermost, and is read.
LEMMA StartServiceStep ==
    ASSUME DescInv, StartService
    PROVE  DescInv'
<1> DEFINE n == Len(services)    S == [avt: BOOLEAN, url: Seq(Text), refs: Nat]
<1>1. /\ services' = Append(services, NewService) /\ open' = Append(open, n + 1)
      /\ inService' = TRUE /\ svcType' = FALSE /\ svcCtrl' = <<>> /\ leaf = "none"
      /\ UNCHANGED <<leaf, closed, field, desc, reading>>
  BY DEF StartService
<1>2. /\ DescTypeOK /\ NestingOK /\ ReadingOK /\ ControlIsTheServices
  BY DEF DescInv
<1>3. NewService \in S
  BY DEF NewService
<1>4. /\ services' \in Seq(S) /\ Len(services') = n + 1 /\ n \in Nat
      /\ \A i \in 1..n : services'[i] = services[i]
      /\ services'[n + 1] = NewService /\ DOMAIN services' = 1 .. n + 1
  BY <1>1, <1>2, <1>3, AppendProperties, ServiceNumbers DEF DescTypeOK
<1>5. open \in Seq(1 .. n + 1) /\ closed \in Seq(1 .. n + 1)
  BY <1>2, <1>4, SeqMonotonic, ServiceNumbers DEF DescTypeOK
<1>6. /\ open' \in Seq(1 .. n + 1) /\ Len(open') = Len(open) + 1 /\ Len(open) \in Nat
      /\ \A i \in 1 .. Len(open) : open'[i] = open[i]
      /\ open'[Len(open) + 1] = n + 1 /\ DOMAIN open' = 1 .. Len(open) + 1
  BY <1>1, <1>4, <1>5, AppendProperties, LenProperties
<1>7. DescTypeOK'
  <2>1. open' \in Seq(DOMAIN services') /\ closed' \in Seq(DOMAIN services')
    BY <1>1, <1>4, <1>5, <1>6
  <2>2. svcCtrl' \in Seq(Text) /\ TRUE \in BOOLEAN /\ FALSE \in BOOLEAN
    BY <1>1
  <2> QED BY <2>1, <2>2, <1>1, <1>2, <1>4 DEF DescTypeOK
<1>8. NestingOK'
  <2>1. \A i, j \in DOMAIN open' : i < j => open'[i] < open'[j]
    <3>1. \A i, j \in 1 .. Len(open) : i < j => open[i] < open[j]
      BY <1>2, <1>6, ServiceNumbers DEF NestingOK
    <3>2. \A i \in 1 .. Len(open) : open[i] < n + 1
      <4>1. \A i \in 1 .. Len(open) : open[i] \in 1 .. n
        BY <1>2, ServiceNumbers
      <4> QED BY <4>1, <1>4
    <3> SUFFICES ASSUME NEW i \in 1 .. Len(open) + 1, NEW j \in 1 .. Len(open) + 1, i < j
                 PROVE  open'[i] < open'[j]
      BY <1>6
    <3>3. i \in 1 .. Len(open)
      BY <1>6
    <3>4. CASE j \in 1 .. Len(open)
      BY <3>1, <3>3, <3>4, <1>6
    <3>5. CASE j = Len(open) + 1
      BY <3>2, <3>3, <3>5, <1>6
    <3>6. Len(open) \in Nat
      BY <1>6
    <3>7. j \in 1 .. Len(open) \/ j = Len(open) + 1
      BY <3>6
    <3> QED BY <3>4, <3>5, <3>7
  <2>2. \A m \in DOMAIN services' :
          (\E i \in DOMAIN open' : open'[i] = m) <=> ~\E k \in DOMAIN closed : closed[k] = m
    <3> SUFFICES ASSUME NEW m \in 1 .. n + 1
                 PROVE  (\E i \in DOMAIN open' : open'[i] = m) <=> ~\E k \in DOMAIN closed : closed[k] = m
      BY <1>4
    <3>1. CASE m = n + 1
      <4>1. open'[Len(open) + 1] = m /\ Len(open) + 1 \in DOMAIN open'
        BY <3>1, <1>6
      <4>2. \A k \in DOMAIN closed : closed[k] \in 1 .. n
        BY <1>2, ServiceNumbers
      <4>3. m \notin 1 .. n
        BY <3>1, <1>4
      <4> QED BY <4>1, <4>2, <4>3
    <3>2. CASE m \in 1 .. n
      <4>1. (\E i \in DOMAIN open' : open'[i] = m) <=> (\E i \in DOMAIN open : open[i] = m)
        <5>1. DOMAIN open = 1 .. Len(open)
          BY <1>2, ServiceNumbers
        <5>2. m # n + 1
          BY <3>2, <1>4
        <5> QED BY <5>1, <5>2, <1>6
      <4>2. m \in DOMAIN services
        BY <3>2, <1>2, ServiceNumbers
      <4> QED BY <4>1, <4>2, <1>2 DEF NestingOK
    <3> QED BY <3>1, <3>2, <1>4
  <2> QED BY <2>1, <2>2, <1>1 DEF NestingOK
<1>9. ReadingOK'
  <2>1. Last(open') = n + 1 /\ open' # <<>>
    BY <1>6 DEF Last
  <2>2. field = "none"
    BY <1>1, <1>2 DEF ReadingOK
  <2>3. services'[Last(open')].avt = FALSE /\ services'[Last(open')].url = <<>>
    BY <2>1, <1>4 DEF NewService
  <2>4. inService' /\ open' # <<>> /\ Last(open') = Len(services')
    BY <2>1, <1>1, <1>4
  <2>5. svcType' = services'[Last(open')].avt /\ svcCtrl' = services'[Last(open')].url
    BY <2>3, <1>1
  <2>6. field' = IF leaf' = "friendlyName" \/ inService' THEN leaf' ELSE "none"
    BY <2>2, <1>1
  <2> QED BY <2>4, <2>5, <2>6 DEF ReadingOK
<1>10. ControlIsTheServices'
  <2>1. \A k \in DOMAIN closed : services'[closed[k]] = services[closed[k]]
    BY <1>2, <1>4, ServiceNumbers
  <2>2. Candidates' = Candidates
    BY <2>1, <1>1 DEF Candidates, Candidate
  <2> QED BY <2>1, <2>2, <1>1, <1>2 DEF ControlIsTheServices, Candidates
<1> QED BY <1>7, <1>8, <1>9, <1>10 DEF DescInv

\* A text changes at most the innermost service, and so no closed one.
LEMMA TextStep ==
    ASSUME DescInv, NEW t \in Text, leaf # "none",
           services' = SaysWith(t) \/ services' = SaysReference,
           UNCHANGED <<open, closed>>
    PROVE  /\ services' \in Seq([avt: BOOLEAN, url: Seq(Text), refs: Nat])
           /\ DOMAIN services' = DOMAIN services /\ Len(services') = Len(services)
           /\ \A k \in DOMAIN closed : services'[closed[k]] = services[closed[k]]
<1> DEFINE S == [avt: BOOLEAN, url: Seq(Text), refs: Nat]
<1>1. DescTypeOK /\ NestingOK
  BY DEF DescInv
<1>2. CASE services' = services
  BY <1>1, <1>2 DEF DescTypeOK
<1>3. CASE services' # services
  <2>1. open # <<>>
    BY <1>3 DEF SaysWith, SaysReference
  <2> DEFINE l == Last(open)
  <2>2. l \in DOMAIN services /\ l = open[Len(open)] /\ Len(open) \in DOMAIN open
    BY <1>1, <2>1, LastOpen, ServiceNumbers
  <2>3. services[l] \in S
    BY <2>2, <1>1, ServiceNumbers
  <2>4. PICK s \in S : services' = [services EXCEPT ![l] = s]
    <3>1. services[l].url \o Trimmed(t) \in Seq(Text)
      BY <2>3, TrimmedType, ConcatProperties
    <3>2. (services[l].avt \/ t = Avt) \in BOOLEAN /\ services[l].refs + 1 \in Nat
      BY <2>3
    <3>3. \/ services' = [services EXCEPT ![l] = [services[l] EXCEPT !.url = services[l].url \o Trimmed(t)]]
          \/ services' = [services EXCEPT ![l] = [services[l] EXCEPT !.avt = services[l].avt \/ t = Avt]]
          \/ services' = [services EXCEPT ![l] = [services[l] EXCEPT !.refs = services[l].refs + 1]]
      BY <1>3, <2>1 DEF SaysWith, SaysReference
    <3> QED BY <2>3, <3>1, <3>2, <3>3
  <2>5. services' \in Seq(S) /\ Len(services') = Len(services)
    BY <2>2, <2>4, <1>1, ExceptSeq, ServiceNumbers, SMTT(30) DEF DescTypeOK
  <2>6. DOMAIN services' = DOMAIN services
    BY <2>4
  <2>7. \A k \in DOMAIN closed : closed[k] # l /\ closed[k] \in DOMAIN services
    BY <2>2, <1>1, ServiceNumbers DEF NestingOK
  <2> QED BY <2>4, <2>5, <2>6, <2>7
<1> QED BY <1>2, <1>3

\* What no step of a text touches: the nesting, and what the closed services say.
LEMMA ClosedStays ==
    ASSUME DescInv, UNCHANGED <<open, closed>>,
           DOMAIN services' = DOMAIN services, Len(services') = Len(services),
           \A k \in DOMAIN closed : services'[closed[k]] = services[closed[k]]
    PROVE  /\ NestingOK'
           /\ desc'.control = desc.control => ControlIsTheServices'
<1>1. NestingOK /\ ControlIsTheServices
  BY DEF DescInv
<1>2. NestingOK'
  BY <1>1 DEF NestingOK
<1>3. Candidates' = Candidates
  BY DEF Candidates, Candidate
<1>4. \A k \in Candidates : services'[closed'[k]].url = services[closed[k]].url
  BY DEF Candidates
<1>5. ASSUME desc'.control = desc.control PROVE ControlIsTheServices'
  BY <1>1, <1>3, <1>4, <1>5 DEF ControlIsTheServices
<1> QED BY <1>2, <1>5

LEMMA GetTextStep ==
    ASSUME DescInv, NEW t \in Text, GetText(t)
    PROVE  DescInv'
<1>1. /\ leaf # "none" /\ services' = SaysWith(t)
      /\ desc' = IF field = "friendlyName" /\ desc.friendly = <<>>
                 THEN [desc EXCEPT !.friendly = Trimmed(t)] ELSE desc
      /\ svcType' = (svcType \/ (field = "serviceType" /\ t = Avt))
      /\ svcCtrl' = IF field = "controlURL" THEN svcCtrl \o Trimmed(t) ELSE svcCtrl
      /\ UNCHANGED <<open, leaf, closed, field, inService, reading>>
  BY DEF GetText
<1>2. DescTypeOK /\ ReadingOK
  BY DEF DescInv
<1>3. /\ services' \in Seq([avt: BOOLEAN, url: Seq(Text), refs: Nat])
      /\ DOMAIN services' = DOMAIN services /\ Len(services') = Len(services)
      /\ \A k \in DOMAIN closed : services'[closed[k]] = services[closed[k]]
  BY <1>1, TextStep
<1>4. desc' \in [friendly: Seq(Text), control: Seq(Text)] /\ desc'.control = desc.control
  BY <1>1, <1>2, TrimmedType DEF DescTypeOK
<1>5. DescTypeOK'
  <2>1. svcCtrl' \in Seq(Text)
    BY <1>1, <1>2, TrimmedType, ConcatProperties DEF DescTypeOK
  <2>2. svcType' \in BOOLEAN
    BY <1>1, <1>2 DEF DescTypeOK
  <2> QED BY <2>1, <2>2, <1>1, <1>2, <1>3, <1>4 DEF DescTypeOK
<1>6. ReadingOK'
  <2>1. inService' <=> open' # <<>> /\ Last(open') = Len(services')
    BY <1>1, <1>2, <1>3 DEF ReadingOK
  <2>2. field' = IF leaf' = "friendlyName" \/ inService' THEN leaf' ELSE "none"
    BY <1>1, <1>2 DEF ReadingOK
  <2>3. ASSUME inService'
        PROVE  svcType' = services'[Last(open')].avt /\ svcCtrl' = services'[Last(open')].url
    <3> DEFINE l == Last(open)
    <3>1. /\ inService /\ open # <<>> /\ field = leaf /\ l \in DOMAIN services
          /\ svcType = services[l].avt /\ svcCtrl = services[l].url
      BY <2>3, <1>1, <1>2, LastOpen DEF ReadingOK
    <3>2. services[l] \in [avt: BOOLEAN, url: Seq(Text), refs: Nat]
      BY <3>1, <1>2, ServiceNumbers
    <3>3. CASE leaf = "controlURL"
      <4>1. services' = [services EXCEPT ![l] = [services[l] EXCEPT !.url = services[l].url \o Trimmed(t)]]
        BY <3>1, <3>3, <1>1 DEF SaysWith
      <4>2. services'[l].url = services[l].url \o Trimmed(t) /\ services'[l].avt = services[l].avt
        BY <3>1, <3>2, <4>1
      <4>3. svcCtrl' = svcCtrl \o Trimmed(t) /\ (svcType' <=> svcType)
        BY <3>1, <3>3, <1>1
      <4>4. svcType' \in BOOLEAN /\ svcType \in BOOLEAN
        BY <1>2, <1>5 DEF DescTypeOK
      <4> QED BY <3>1, <4>2, <4>3, <4>4, <1>1
    <3>4. CASE leaf = "serviceType"
      <4>1. services' = [services EXCEPT ![l] = [services[l] EXCEPT !.avt = services[l].avt \/ t = Avt]]
        BY <3>1, <3>4, <1>1 DEF SaysWith
      <4>2. services'[l].url = services[l].url /\ services'[l].avt = (services[l].avt \/ t = Avt)
        BY <3>1, <3>2, <4>1
      <4>3. svcCtrl' = svcCtrl /\ svcType' = (svcType \/ t = Avt)
        BY <3>1, <3>4, <1>1
      <4> QED BY <3>1, <4>2, <4>3, <1>1
    <3>5. CASE leaf \notin {"controlURL", "serviceType"}
      <4>1. services' = services /\ svcCtrl' = svcCtrl /\ (svcType' <=> svcType)
        BY <3>1, <3>5, <1>1 DEF SaysWith
      <4>2. svcType' \in BOOLEAN /\ svcType \in BOOLEAN
        BY <1>2, <1>5 DEF DescTypeOK
      <4> QED BY <3>1, <4>1, <4>2, <1>1
    <3> QED BY <3>3, <3>4, <3>5
  <2> QED BY <2>1, <2>2, <2>3 DEF ReadingOK
<1> QED BY <1>1, <1>3, <1>4, <1>5, <1>6, ClosedStays DEF DescInv

LEMMA GetReferenceStep ==
    ASSUME DescInv, GetReference
    PROVE  DescInv'
<1>1. /\ leaf # "none" /\ services' = SaysReference
      /\ UNCHANGED <<open, leaf, closed, field, inService, svcType, svcCtrl, desc, reading>>
  BY DEF GetReference
<1>2. DescTypeOK /\ ReadingOK
  BY DEF DescInv
<1>3. /\ services' \in Seq([avt: BOOLEAN, url: Seq(Text), refs: Nat])
      /\ DOMAIN services' = DOMAIN services /\ Len(services') = Len(services)
      /\ \A k \in DOMAIN closed : services'[closed[k]] = services[closed[k]]
  BY <1>1, TextStep, DescriptionAssumption
<1>4. DescTypeOK'
  BY <1>1, <1>2, <1>3 DEF DescTypeOK
<1>5. ReadingOK'
  <2>1. ASSUME open # <<>>
        PROVE  /\ services'[Last(open)].avt = services[Last(open)].avt
               /\ services'[Last(open)].url = services[Last(open)].url
    <3>1. Last(open) \in DOMAIN services
      BY <2>1, <1>2, LastOpen
    <3>2. services[Last(open)] \in [avt: BOOLEAN, url: Seq(Text), refs: Nat]
      BY <3>1, <1>2, ServiceNumbers
    <3>3. \/ services' = services
          \/ services' = [services EXCEPT ![Last(open)] =
                            [services[Last(open)] EXCEPT !.refs = services[Last(open)].refs + 1]]
      BY <1>1 DEF SaysReference
    <3> QED BY <3>1, <3>2, <3>3
  <2>2. inService => open # <<>>
    BY <1>2 DEF ReadingOK
  <2> QED BY <2>1, <2>2, <1>1, <1>2, <1>3 DEF ReadingOK
<1> QED BY <1>1, <1>3, <1>4, <1>5, ClosedStays DEF DescInv

\* The parser takes the elements that hold text of the service it reads only.
LEMMA LeafStep ==
    ASSUME DescInv, (\E e \in Leaf : StartLeaf(e)) \/ EndLeaf
    PROVE  DescInv'
<1>1. UNCHANGED <<open, services, closed, inService, svcType, svcCtrl, desc, reading>>
  BY DEF StartLeaf, EndLeaf
<1>2. DescTypeOK /\ NestingOK /\ ReadingOK /\ ControlIsTheServices
  BY DEF DescInv
<1>3. leaf' \in Leaf \cup {"none"} /\ field' \in Leaf \cup {"none"}
  BY <1>2 DEF StartLeaf, EndLeaf, DescTypeOK
<1>4. field' = IF leaf' = "friendlyName" \/ inService THEN leaf' ELSE "none"
  BY <1>2 DEF StartLeaf, EndLeaf, ReadingOK
<1>5. DescTypeOK'
  BY <1>1, <1>2, <1>3 DEF DescTypeOK
<1>6. ReadingOK'
  BY <1>1, <1>2, <1>4 DEF ReadingOK
<1>7. NestingOK' /\ ControlIsTheServices'
  <2>1. \A k \in DOMAIN closed : services'[closed[k]] = services[closed[k]]
    BY <1>1
  <2> QED BY <2>1, <1>1, ClosedStays
<1> QED BY <1>5, <1>6, <1>7 DEF DescInv

\* A service that ends is a candidate just if the parser has read all of it.
LEMMA EndServiceStep ==
    ASSUME DescInv, EndService
    PROVE  DescInv'
<1> DEFINE l == Last(open)    c == Len(closed)    n == Len(services)    o == Len(open)
<1>1. /\ leaf = "none" /\ open # <<>> /\ open' = Front(open) /\ closed' = Append(closed, l)
      /\ desc' = IF inService /\ svcType /\ desc.control = <<>> /\ svcCtrl # <<>>
                 THEN [desc EXCEPT !.control = svcCtrl] ELSE desc
      /\ inService' = FALSE
      /\ UNCHANGED <<leaf, services, field, svcType, svcCtrl, reading>>
  BY DEF EndService
<1>2. DescTypeOK /\ NestingOK /\ ReadingOK /\ ControlIsTheServices
  BY DEF DescInv
<1>3. /\ o \in Nat \ {0} /\ l = open[o] /\ l \in DOMAIN services
      /\ open' \in Seq(DOMAIN services) /\ DOMAIN open' = 1 .. o - 1 /\ DOMAIN open = 1 .. o
      /\ \A i \in 1 .. o - 1 : open'[i] = open[i]
  BY <1>1, <1>2, LastOpen, ServiceNumbers
<1>4. closed \in Seq(DOMAIN services)
  BY <1>2 DEF DescTypeOK
<1>5. closed' \in Seq(DOMAIN services) /\ Len(closed') = c + 1
  BY <1>1, <1>3, <1>4, AppendProperties
<1>6. /\ DOMAIN closed' = 1 .. c + 1 /\ DOMAIN closed = 1 .. c /\ c \in Nat
      /\ closed'[c + 1] = l
      /\ \A k \in 1 .. c : closed'[k] = closed[k] /\ closed[k] \in 1 .. n
      /\ n \in Nat /\ DOMAIN services = 1 .. n
  BY <1>1, <1>2, <1>3, <1>4, <1>5, AppendProperties, LenProperties, ServiceNumbers
<1>7. DescTypeOK'
  <2>1. desc' \in [friendly: Seq(Text), control: Seq(Text)]
    BY <1>1, <1>2 DEF DescTypeOK
  <2> QED BY <2>1, <1>1, <1>2, <1>3, <1>5 DEF DescTypeOK
<1>o. /\ o \in Nat /\ o > 0 /\ n \in Nat /\ DOMAIN services = 1 .. n /\ l = open[o] /\ l \in 1 .. n
      /\ DOMAIN open = 1 .. o /\ DOMAIN open' = 1 .. o - 1
      /\ \A i \in 1 .. o : open[i] \in 1 .. n
      /\ \A i \in 1 .. o - 1 : open'[i] = open[i]
  BY <1>2, <1>3, <1>6, ServiceNumbers
<1>c. /\ c \in Nat /\ DOMAIN closed = 1 .. c /\ DOMAIN closed' = 1 .. c + 1 /\ closed'[c + 1] = l
      /\ \A k \in 1 .. c : closed'[k] = closed[k] /\ closed[k] \in 1 .. n
  BY <1>6
<1>n. /\ \A i, j \in 1 .. o : i < j => open[i] < open[j]
      /\ \A m \in 1 .. n : (\E i \in 1 .. o : open[i] = m) <=> ~\E k \in 1 .. c : closed[k] = m
  BY <1>2, <1>o, <1>c DEF NestingOK
<1> HIDE DEF l, c, n, o
<1>8. NestingOK'
  <2>1. \A i, j \in 1 .. o - 1 : i < j => open'[i] < open'[j]
    BY <1>n, <1>o
  <2>2. ASSUME NEW m \in 1 .. n
        PROVE  (\E i \in 1 .. o - 1 : open'[i] = m) <=> ~\E k \in 1 .. c + 1 : closed'[k] = m
    <3>1. (\E i \in 1 .. o : open[i] = m) <=> ~\E k \in 1 .. c : closed[k] = m
      BY <1>n
    <3>2. (\E k \in 1 .. c + 1 : closed'[k] = m) <=> m = l \/ \E k \in 1 .. c : closed[k] = m
      <4>1. c + 1 \in 1 .. c + 1 /\ \A k \in 1 .. c + 1 : k = c + 1 \/ k \in 1 .. c
        BY <1>c
      <4>2. \A k \in 1 .. c : k \in 1 .. c + 1
        BY <1>c
      <4> QED BY <4>1, <4>2, <1>c
    <3>3. (\E i \in 1 .. o : open[i] = m) <=> m = l \/ \E i \in 1 .. o - 1 : open'[i] = m
      <4>1. o \in 1 .. o /\ \A i \in 1 .. o : i = o \/ i \in 1 .. o - 1
        BY <1>o
      <4>2. \A i \in 1 .. o - 1 : i \in 1 .. o
        BY <1>o
      <4>3. (\E i \in 1 .. o : open[i] = m) <=> open[o] = m \/ \E i \in 1 .. o - 1 : open[i] = m
        BY <4>1, <4>2
      <4> QED BY <4>3, <1>o
    <3>4. \A i \in 1 .. o - 1 : open'[i] # l
      BY <1>n, <1>o
    <3>5. (\E k \in 1 .. c : closed[k] = m) => m # l
      <4>1. \E i \in 1 .. o : open[i] = l
        BY <1>o
      <4> QED BY <4>1, <1>n
    <3> QED BY <3>1, <3>2, <3>3, <3>4, <3>5
  <2>3. /\ \A i, j \in DOMAIN open' : i < j => open'[i] < open'[j]
        /\ \A m \in DOMAIN services' :
             (\E i \in DOMAIN open' : open'[i] = m) <=> ~\E k \in DOMAIN closed' : closed'[k] = m
    <3>1. DOMAIN open' = 1 .. o - 1 /\ DOMAIN closed' = 1 .. c + 1
      BY <1>o, <1>c
    <3>2. DOMAIN services' = 1 .. n
      BY <1>1, <1>o
    <3> QED BY <2>1, <2>2, <3>1, <3>2
  <2> QED BY <2>3 DEF NestingOK
<1>9. ReadingOK'
  <2>1. ~(open' # <<>> /\ Last(open') = Len(services'))
    <3> SUFFICES ASSUME open' # <<>> PROVE Last(open') # n
      BY <1>1 DEF n
    <3>1. o - 1 \in DOMAIN open' /\ Last(open') = open'[o - 1]
      <4>1. Len(open') = o - 1 /\ o - 1 # 0
        <5>1. Len(open') = o - 1
          BY <1>1, <1>2, LastOpen DEF o
        <5>2. open' \in Seq(DOMAIN services) => Len(open') # 0
          BY EmptySeq
        <5> QED BY <5>1, <5>2, <1>3
      <4>2. o - 1 \in 1 .. o - 1
        BY <4>1, <1>o
      <4> QED BY <4>1, <4>2, <1>o DEF Last
    <3>2. o - 1 \in 1 .. o - 1
      BY <3>1, <1>o
    <3>3. open'[o - 1] < open[o]
      BY <3>2, <1>o, <1>n
    <3>4. open[o] \in 1 .. n /\ open'[o - 1] \in 1 .. n
      BY <3>2, <1>o
    <3> QED BY <3>1, <3>3, <3>4, <1>o
  <2>2. field = "none"
    BY <1>1, <1>2 DEF ReadingOK
  <2> QED BY <2>1, <2>2, <1>1 DEF ReadingOK
<1>10. (\A j \in 1 .. c : closed[j] < l) <=> inService
  <2>1. CASE l = n
    <3>1. \A j \in 1 .. c : closed[j] # l
      <4>1. \E i \in 1 .. o : open[i] = l
        BY <1>o
      <4> QED BY <4>1, <1>n, <1>o
    <3>2. inService
      BY <2>1, <1>1, <1>2 DEF ReadingOK, l, n
    <3> QED BY <2>1, <3>1, <3>2, <1>c, <1>o
  <2>2. CASE l # n
    <3>1. ~inService
      BY <2>2, <1>2 DEF ReadingOK, l, n
    <3>2. l < n /\ n \in 1 .. n
      BY <2>2, <1>o
    <3>3. \A i \in 1 .. o : open[i] <= l
      BY <1>n, <1>o
    <3>4. ~\E i \in 1 .. o : open[i] = n
      BY <3>2, <3>3, <1>o
    <3>5. PICK k \in 1 .. c : closed[k] = n
      BY <3>2, <3>4, <1>n
    <3>6. ~(closed[k] < l)
      BY <3>2, <3>5, <1>o
    <3> QED BY <3>1, <3>6
  <2> QED BY <2>1, <2>2
<1> DEFINE Qualifies == services[l].avt /\ services[l].url # <<>> /\ inService
<1>11. \A k : k = c + 1 => (Candidate(k)' <=> Qualifies)
  <2> SUFFICES ASSUME NEW k, k = c + 1 PROVE Candidate(k)' <=> Qualifies
    OBVIOUS
  <2>1. k - 1 = c /\ closed'[k] = l
    BY <1>c
  <2>2. (\A j \in 1 .. k - 1 : closed'[j] < closed'[k]) <=> inService
    BY <2>1, <1>c, <1>10
  <2> QED BY <2>1, <2>2, <1>1 DEF Candidate
<1>12. \A k \in 1 .. c : Candidate(k)' <=> Candidate(k)
  <2> SUFFICES ASSUME NEW k \in 1 .. c PROVE Candidate(k)' <=> Candidate(k)
    OBVIOUS
  <2>1. closed'[k] = closed[k] /\ \A j \in 1 .. k - 1 : closed'[j] = closed[j]
    BY <1>c
  <2> QED BY <2>1, <1>1 DEF Candidate
<1>13. Candidates' = Candidates \cup (IF Qualifies THEN {c + 1} ELSE {})
  <2>1. \A k : k \in 1 .. c + 1 <=> k \in 1 .. c \/ k = c + 1
    BY <1>c
  <2>2. Candidates' = {k \in 1 .. c + 1 : Candidate(k)'}
    BY <1>c DEF Candidates
  <2>3. Candidates = {k \in 1 .. c : Candidate(k)}
    BY <1>c DEF Candidates
  <2> HIDE DEF Qualifies
  <2> QED BY <2>1, <2>2, <2>3, <1>11, <1>12
<1>14. \A k \in Candidates : k \in 1 .. c /\ closed'[k] = closed[k] /\ services[closed[k]].url # <<>>
  BY <1>c DEF Candidates, Candidate
<1>15. ControlIsTheServices'
  <2>1. CASE Candidates # {}
    <3>1. PICK k \in Candidates : /\ \A j \in Candidates : k <= j
                                  /\ desc.control = services[closed[k]].url
      BY <2>1, <1>2 DEF ControlIsTheServices
    <3>2. desc' = desc
      BY <3>1, <1>1, <1>14
    <3>3. k \in Candidates' /\ \A j \in Candidates' : k <= j
      BY <3>1, <1>c, <1>13, <1>14
    <3> QED BY <3>1, <3>2, <3>3, <1>1, <1>14 DEF ControlIsTheServices
  <2>2. CASE Candidates = {} /\ Qualifies
    <3>1. desc.control = <<>> /\ inService /\ svcType /\ svcCtrl = services[l].url /\ svcCtrl # <<>>
      BY <2>2, <1>2 DEF ControlIsTheServices, ReadingOK, l
    <3>2. desc'.control = services[l].url
      BY <3>1, <1>1, <1>2 DEF DescTypeOK
    <3>3. Candidates' = {c + 1}
      BY <2>2, <1>13
    <3>4. c + 1 <= c + 1
      BY <1>c
    <3> QED BY <3>2, <3>3, <3>4, <1>1, <1>c DEF ControlIsTheServices
  <2>3. CASE Candidates = {} /\ ~Qualifies
    <3>1. Candidates' = {} /\ desc.control = <<>>
      BY <2>3, <1>2, <1>13 DEF ControlIsTheServices
    <3>2. ~(inService /\ svcType /\ svcCtrl # <<>>)
      BY <2>3, <1>2, <1>10 DEF ReadingOK, l
    <3> QED BY <3>1, <3>2, <1>1 DEF ControlIsTheServices
  <2> QED BY <2>1, <2>2, <2>3
<1> QED BY <1>7, <1>8, <1>9, <1>15 DEF DescInv

\* Every step of the parser keeps its invariant.
LEMMA DescStep == DescInv /\ [DescNext]_descVars => DescInv'
<1> SUFFICES ASSUME DescInv, [DescNext]_descVars PROVE DescInv'
  OBVIOUS
<1>1. CASE EndDocument \/ UNCHANGED descVars
  <2>1. /\ UNCHANGED <<open, leaf, services, closed, field, inService, svcType, svcCtrl, desc>>
        /\ reading' \in BOOLEAN
    BY <1>1 DEF EndDocument, descVars, DescInv, DescTypeOK
  <2>2. \A k \in DOMAIN closed : services'[closed[k]] = services[closed[k]]
    BY <2>1
  <2>3. NestingOK' /\ ControlIsTheServices'
    BY <2>1, <2>2, ClosedStays
  <2> QED BY <2>1, <2>3 DEF DescInv, DescTypeOK, ReadingOK
<1> QED BY <1>1, StartServiceStep, LeafStep, GetTextStep, GetReferenceStep, EndServiceStep
        DEF DescNext

LEMMA DescStart == DescInit => DescInv
<1> SUFFICES ASSUME DescInit PROVE DescInv
  OBVIOUS
<1>1. /\ open = <<>> /\ leaf = "none" /\ services = <<>> /\ closed = <<>>
      /\ field = "none" /\ inService = FALSE /\ svcType = FALSE /\ svcCtrl = <<>>
      /\ desc = [friendly |-> <<>>, control |-> <<>>] /\ reading = TRUE
  BY DEF DescInit
<1>2. DescTypeOK
  <2>1. \A S : <<>> \in Seq(S)
    BY EmptySeq
  <2> QED BY <1>1, <2>1 DEF DescTypeOK
<1>3. Candidates = {}
  BY <1>1 DEF Candidates
<1> QED BY <1>1, <1>2, <1>3 DEF DescInv, NestingOK, ReadingOK, ControlIsTheServices

\* What the parser holds is what the document says of the service it reads, and of those
\* that are closed the first that qualifies has given the control URL.
THEOREM SpecDescInv == DescSpec => []DescInv
BY DescStart, DescStep, PTL DEF DescSpec

\* The control URL is that of the first AVTransport service that is complete, contains
\* no other and has a URL, for documents of any length, nested and broken off anywhere.
THEOREM SpecControlIsTheServices == DescSpec => []ControlIsTheServices
<1>1. DescInv => ControlIsTheServices
  BY DEF DescInv
<1> QED BY <1>1, SpecDescInv, PTL

-----------------------------------------------------------------------------
(* The RTSP connection: the bytes that the receiver sent and the client did *)
(* not consume, as one stream.                                              *)

\* The stream is what is in the buffer, then what is on its way.
LEMMA StreamIs ==
    ASSUME RtspTypeOK
    PROVE  /\ Stream \in Seq(Piece) /\ Len(Stream) = Len(buf) + Len(inbound)
           /\ Len(buf) \in Nat /\ Len(inbound) \in Nat /\ Len(Stream) \in Nat
           /\ DOMAIN Stream = 1 .. Len(Stream) /\ DOMAIN buf = 1 .. Len(buf)
           /\ \A i \in 1 .. Len(buf) : Stream[i] = buf[i]
           /\ \A i \in Len(buf) + 1 .. Len(buf) + Len(inbound) : Stream[i] = inbound[i - Len(buf)]
           /\ \A i \in 1 .. Len(Stream) : Stream[i] \in Piece
           /\ Stream = <<>> <=> Len(Stream) = 0
<1>1. buf \in Seq(Piece) /\ inbound \in Seq(Piece)
  BY DEF RtspTypeOK
<1>2. Stream = buf \o inbound
  BY DEF Stream
<1> HIDE DEF Stream
<1>3. /\ Stream \in Seq(Piece) /\ Len(Stream) = Len(buf) + Len(inbound)
      /\ Len(buf) \in Nat /\ Len(inbound) \in Nat
      /\ \A i \in 1 .. Len(buf) + Len(inbound) :
           Stream[i] = IF i <= Len(buf) THEN buf[i] ELSE inbound[i - Len(buf)]
  BY <1>1, <1>2, ConcatProperties, LenProperties
<1>4. /\ DOMAIN Stream = 1 .. Len(Stream) /\ DOMAIN buf = 1 .. Len(buf)
      /\ \A i \in 1 .. Len(Stream) : Stream[i] \in Piece
      /\ Stream = <<>> <=> Len(Stream) = 0
  BY <1>1, <1>3, LenProperties, ElementOfSeq, EmptySeq
<1>5. \A i \in 1 .. Len(buf) : i \in 1 .. Len(buf) + Len(inbound) /\ i <= Len(buf)
  BY <1>3
<1>6. \A i \in Len(buf) + 1 .. Len(buf) + Len(inbound) :
        i \in 1 .. Len(buf) + Len(inbound) /\ ~(i <= Len(buf))
  BY <1>3
<1> QED BY <1>3, <1>4, <1>5, <1>6

\* What the parser finds at the front of the buffer.
LEMMA ParseFront ==
    ASSUME RtspTypeOK, StreamOK
    PROVE  /\ Len(buf) < 2 => Parse(buf) = Incomplete
           /\ Len(buf) >= 2 /\ 1 \notin Starts => Parse(buf) = Malformed
           /\ Len(buf) >= 2 /\ 1 \in Starts =>
                IF Len(buf) < 2 + Stream[1].length THEN Parse(buf) = Incomplete
                ELSE Parse(buf) = Parsed(Stream[1].of, 2 + Stream[1].length,
                                         Body(Stream[1].of, Stream[1].length))
           /\ Len(buf) >= 1 => 1 \in Begins
<1> DEFINE blanks == {i \in DOMAIN buf : buf[i] = Blank}
           end    == CHOOSE i \in blanks : \A j \in blanks : i <= j
<1>1. /\ Len(buf) \in Nat /\ DOMAIN buf = 1 .. Len(buf) /\ Len(Stream) \in Nat
      /\ \A i \in 1 .. Len(buf) : Stream[i] = buf[i]
  BY StreamIs
<1>2. Len(buf) >= 1 => 1 \in Begins /\ buf[1] = Stream[1] /\ buf[1] # Blank
  <2> SUFFICES ASSUME Len(buf) >= 1 PROVE 1 \in Begins /\ buf[1] = Stream[1] /\ buf[1] # Blank
    OBVIOUS
  <2>1. Len(Stream) >= Len(buf) /\ (Stream = <<>> <=> Len(Stream) = 0)
    BY StreamIs
  <2>2. 1 \in Begins
    BY <2>1, <1>1 DEF StreamOK
  <2>3. Blank.piece = "blank"
    BY DEF Blank
  <2> QED BY <2>2, <2>3, <1>1 DEF Begins
<1>3. CASE Len(buf) < 2
  <2>1. \A i \in DOMAIN buf : i = 1 /\ Len(buf) >= 1
    BY <1>1, <1>3
  <2>2. blanks = {}
    BY <2>1, <1>2
  <2>3. Parse(buf) = Incomplete
    BY <2>2 DEF Parse
  <2> QED BY <2>3, <1>1, <1>2, <1>3
<1>4. CASE Len(buf) >= 2
  <2>1. 1 \in Begins /\ buf[1] = Stream[1] /\ buf[1] # Blank
    BY <1>1, <1>2, <1>4
  <2>2. buf[2] = Blank
    <3>1. Stream[1 + 1] = Blank
      BY <2>1 DEF StreamOK
    <3> QED BY <3>1, <1>1, <1>4
  <2>3. 2 \in blanks /\ \A j \in blanks : 2 <= j
    BY <2>1, <2>2, <1>1, <1>4
  <2>4. end = 2
    <3>1. \A i, j \in blanks : i \in Nat /\ j \in Nat
      BY <1>1
    <3> HIDE DEF blanks
    <3> QED BY <2>3, <3>1
  <2>5. blanks # {}
    BY <2>3
  <2>6. 1 \in Starts <=> buf[1].piece = "start"
    BY <2>1 DEF Starts
  <2>7. Parse(buf) = IF buf[1].piece # "start" THEN Malformed
                     ELSE IF Len(buf) < 2 + buf[1].length THEN Incomplete
                     ELSE Parsed(buf[1].of, 2 + buf[1].length, SubSeq(buf, 2 + 1, 2 + buf[1].length))
    <3>1. Parse(buf) = IF blanks = {} THEN Incomplete
                       ELSE IF end # 2 \/ buf[1].piece # "start" THEN Malformed
                       ELSE IF Len(buf) < end + buf[1].length THEN Incomplete
                       ELSE Parsed(buf[1].of, end + buf[1].length,
                                   SubSeq(buf, end + 1, end + buf[1].length))
      BY DEF Parse
    <3> HIDE DEF blanks, end
    <3> QED BY <3>1, <2>4, <2>5
  <2>9. buf[1].length \in Nat
    <3>1. 1 \in 1 .. Len(buf)
      BY <1>1, <1>4
    <3>2. buf[1] \in Piece
      BY <3>1, <1>1, ElementOfSeq DEF RtspTypeOK
    <3> QED BY <3>2 DEF Piece
  <2>8. ASSUME Len(buf) >= 2 + buf[1].length
        PROVE  SubSeq(buf, 2 + 1, 2 + buf[1].length) = Body(buf[1].of, buf[1].length)
    <3> DEFINE k == buf[1].length
    <3>1. k \in Nat
      BY <2>9
    <3>2. SubSeq(buf, 2 + 1, 2 + k) = [i \in 1 .. k |-> buf[i + 2]]
      BY <3>1, <1>1
    <3>3. \A i \in 1 .. k : buf[i + 2] = Part(buf[1].of)
      <4>1. \A i \in 1 .. k : Stream[1 + 1 + i] = Part(Stream[1].of)
        BY <2>1 DEF StreamOK
      <4>2. \A i \in 1 .. k : i + 2 \in 1 .. Len(buf) /\ 1 + 1 + i = i + 2
        BY <3>1, <2>8, <1>1
      <4> QED BY <4>1, <4>2, <2>1, <1>1
    <3> QED BY <3>2, <3>3 DEF Body
  <2>10. ~(Len(buf) < 2) /\ (~(Len(buf) < 2 + buf[1].length) => Len(buf) >= 2 + buf[1].length)
    BY <2>9, <1>1, <1>4
  <2> QED BY <2>1, <2>6, <2>7, <2>8, <2>10
<1> QED BY <1>1, <1>3, <1>4

LEMMA PiecesAssociate ==
    \A x, y, z \in Seq(Piece) : (x \o y) \o z = x \o (y \o z)
BY ConcatAssociative

\* Reading moves pieces from the connection to the buffer, and the stream stays.
LEMMA ReadStream ==
    ASSUME RtspTypeOK, NEW n \in 1 .. Len(inbound),
           buf' = buf \o SubSeq(inbound, 1, n),
           inbound' = SubSeq(inbound, n + 1, Len(inbound))
    PROVE  Stream' = Stream /\ buf' \in Seq(Piece) /\ inbound' \in Seq(Piece)
<1> DEFINE x == SubSeq(inbound, 1, n)    y == SubSeq(inbound, n + 1, Len(inbound))
<1>1. buf \in Seq(Piece) /\ inbound \in Seq(Piece) /\ Len(inbound) \in Nat
  BY LenProperties DEF RtspTypeOK
<1>2. x \o y = inbound
  <2>1. 1 \in 1 .. Len(inbound) + 1 /\ n \in 1 - 1 .. Len(inbound) /\ Len(inbound) \in n .. Len(inbound)
    BY <1>1
  <2>2. x \o y = SubSeq(inbound, 1, Len(inbound))
    BY <1>1, <2>1, ConcatAdjacentSubSeq
  <2> QED BY <1>1, <2>2, SubSeqFull
<1>3. x \in Seq(Piece) /\ y \in Seq(Piece)
  <2>1. \A i \in 1 .. Len(inbound) : inbound[i] \in Piece
    BY <1>1, ElementOfSeq
  <2>2. /\ \A i \in 1 .. n : inbound[i] \in Piece
        /\ \A i \in n + 1 .. Len(inbound) : inbound[i] \in Piece
    BY <1>1, <2>1
  <2> QED BY <1>1, <2>2, SubSeqProperties
<1>4. Stream' = (buf \o x) \o y /\ Stream = buf \o inbound /\ buf' = buf \o x /\ inbound' = y
  BY DEF Stream
<1> HIDE DEF x, y
<1>5. (buf \o x) \o y = buf \o (x \o y)
  BY <1>1, <1>3, PiecesAssociate
<1>6. buf \o x \in Seq(Piece)
  BY <1>1, <1>3, ConcatProperties
<1> QED BY <1>2, <1>3, <1>4, <1>5, <1>6

\* Taking the first u pieces from the buffer takes them from the stream.
LEMMA TakeStream ==
    ASSUME RtspTypeOK, NEW u \in 0 .. Len(buf),
           buf' = SubSeq(buf, u + 1, Len(buf)), inbound' = inbound
    PROVE  /\ buf' \in Seq(Piece) /\ Len(Stream') = Len(Stream) - u
           /\ \A i \in 1 .. Len(Stream) - u : Stream'[i] = Stream[u + i]
           /\ DOMAIN Stream' = 1 .. Len(Stream) - u
           /\ Stream' = <<>> <=> Len(Stream) = u
<1> DEFINE m == Len(buf) - u    l == Len(inbound)
<1>1. /\ Len(buf) \in Nat /\ l \in Nat /\ Len(Stream) = Len(buf) + l /\ u \in Nat /\ m \in Nat
      /\ \A i \in 1 .. Len(buf) : Stream[i] = buf[i]
      /\ \A i \in Len(buf) + 1 .. Len(buf) + l : Stream[i] = inbound[i - Len(buf)]
      /\ \A i \in 1 .. Len(buf) : buf[i] \in Piece
  BY StreamIs, ElementOfSeq DEF RtspTypeOK
<1>2. buf' \in Seq(Piece) /\ Len(buf') = m /\ \A i \in 1 .. m : buf'[i] = buf[u + i]
  <2>1. \A i \in u + 1 .. Len(buf) : buf[i] \in Piece
    BY <1>1
  <2>2. /\ SubSeq(buf, u + 1, Len(buf)) \in Seq(Piece)
        /\ Len(SubSeq(buf, u + 1, Len(buf))) = IF u + 1 <= Len(buf) THEN Len(buf) - (u + 1) + 1 ELSE 0
        /\ \A i \in 1 .. Len(buf) - (u + 1) + 1 : SubSeq(buf, u + 1, Len(buf))[i] = buf[(u + 1) + i - 1]
    BY <1>1, <2>1, SubSeqProperties
  <2>3. \A i \in 1 .. m : i \in 1 .. Len(buf) - (u + 1) + 1 /\ (u + 1) + i - 1 = u + i
    BY <1>1
  <2>4. (IF u + 1 <= Len(buf) THEN Len(buf) - (u + 1) + 1 ELSE 0) = m
    BY <1>1
  <2> QED BY <2>2, <2>3, <2>4
<1>7. inbound' \in Seq(Piece) /\ Stream' = buf' \o inbound' /\ Len(inbound') = l
  BY DEF Stream, RtspTypeOK
<1>3. /\ Stream' \in Seq(Piece) /\ Len(Stream') = m + l
      /\ \A i \in 1 .. m + l : Stream'[i] = IF i <= m THEN buf'[i] ELSE inbound[i - m]
  <2>1. /\ buf' \o inbound' \in Seq(Piece) /\ Len(buf' \o inbound') = Len(buf') + Len(inbound')
        /\ \A i \in 1 .. Len(buf') + Len(inbound') :
             (buf' \o inbound')[i] = IF i <= Len(buf') THEN buf'[i] ELSE inbound'[i - Len(buf')]
    BY <1>2, <1>7, ConcatProperties
  <2> QED BY <2>1, <1>2, <1>7
<1>4. DOMAIN Stream' = 1 .. m + l /\ (Stream' = <<>> <=> m + l = 0)
  BY <1>3, LenProperties, EmptySeq
<1>5. m + l = Len(Stream) - u
  BY <1>1
<1>6. \A i \in 1 .. m + l : Stream'[i] = Stream[u + i]
  <2> SUFFICES ASSUME NEW i \in 1 .. m + l PROVE Stream'[i] = Stream[u + i]
    OBVIOUS
  <2>1. CASE i <= m
    <3>1. i \in 1 .. m /\ u + i \in 1 .. Len(buf)
      BY <2>1, <1>1
    <3>2. Stream'[i] = buf'[i] /\ buf'[i] = buf[u + i] /\ Stream[u + i] = buf[u + i]
      BY <2>1, <3>1, <1>1, <1>2, <1>3
    <3> QED BY <3>2
  <2>2. CASE ~(i <= m)
    <3>1. u + i \in Len(buf) + 1 .. Len(buf) + l /\ (u + i) - Len(buf) = i - m
      BY <2>2, <1>1
    <3>2. Stream[u + i] = inbound[(u + i) - Len(buf)]
      BY <3>1, <1>1
    <3>3. Stream'[i] = inbound[i - m]
      BY <2>2, <1>3
    <3> QED BY <3>1, <3>2, <3>3
  <2> QED BY <2>1, <2>2
<1> QED BY <1>1, <1>2, <1>3, <1>4, <1>5, <1>6

\* A response comes at the end of the stream.
LEMMA ReplyStream ==
    ASSUME RtspTypeOK, NEW r \in Seq(Piece), inbound' = inbound \o r, buf' = buf
    PROVE  /\ inbound' \in Seq(Piece) /\ Len(r) \in Nat
           /\ Len(Stream') = Len(Stream) + Len(r)
           /\ \A i \in 1 .. Len(Stream) : Stream'[i] = Stream[i]
           /\ \A i \in 1 .. Len(r) : Stream'[Len(Stream) + i] = r[i]
           /\ DOMAIN Stream' = 1 .. Len(Stream) + Len(r)
<1>1. buf \in Seq(Piece) /\ inbound \in Seq(Piece)
  BY DEF RtspTypeOK
<1>2. Stream' = buf \o (inbound \o r) /\ Stream = buf \o inbound
  BY DEF Stream
<1>3. Stream' = Stream \o r /\ Stream \in Seq(Piece) /\ inbound' \in Seq(Piece)
  BY <1>1, <1>2, ConcatAssociative, ConcatProperties, SMTT(30)
<1> HIDE DEF Stream
<1>4. /\ Stream' \in Seq(Piece) /\ Len(Stream') = Len(Stream) + Len(r)
      /\ Len(Stream) \in Nat /\ Len(r) \in Nat
      /\ \A i \in 1 .. Len(Stream) + Len(r) :
           Stream'[i] = IF i <= Len(Stream) THEN Stream[i] ELSE r[i - Len(Stream)]
  BY <1>3, ConcatProperties, LenProperties
<1>5. DOMAIN Stream' = 1 .. Len(Stream) + Len(r)
  BY <1>4, LenProperties
<1>6. \A i \in 1 .. Len(Stream) : i \in 1 .. Len(Stream) + Len(r) /\ i <= Len(Stream)
  BY <1>4
<1>7. \A i \in 1 .. Len(r) : /\ Len(Stream) + i \in 1 .. Len(Stream) + Len(r)
                             /\ ~(Len(Stream) + i <= Len(Stream)) /\ (Len(Stream) + i) - Len(Stream) = i
  BY <1>4
<1> QED BY <1>3, <1>4, <1>5, <1>6, <1>7

\* Pieces have numbers for their length, and a response that begins lies in the stream.
LEMMA BeginsAre ==
    ASSUME RtspTypeOK, StreamOK, NEW i \in Begins
    PROVE  /\ i \in Nat /\ 1 <= i /\ i <= Len(Stream) /\ Stream[i].length \in Nat
           /\ Stream[i].of \in 0 .. MaxRequests
           /\ i + 1 + Stream[i].length <= Len(Stream) /\ Stream[i + 1] = Blank
           /\ \A j \in 1 .. Stream[i].length : Stream[i + 1 + j] = Part(Stream[i].of)
           /\ i + 2 + Stream[i].length \in Begins \cup {Len(Stream) + 1}
           /\ Stream[i].piece = "garbage" => Stream[i].length = 0
<1>1. i \in 1 .. Len(Stream) /\ Len(Stream) \in Nat
  BY StreamIs DEF Begins
<1>2. Stream[i] \in Piece
  BY <1>1, StreamIs
<1>3. /\ i + 1 + Stream[i].length <= Len(Stream) /\ Stream[i + 1] = Blank
      /\ \A j \in 1 .. Stream[i].length : Stream[i + 1 + j] = Part(Stream[i].of)
      /\ i + 2 + Stream[i].length \in Begins \cup {Len(Stream) + 1}
      /\ Stream[i].piece = "garbage" => Stream[i].length = 0
  BY DEF StreamOK
<1> HIDE DEF Begins
<1>4. i \in Nat /\ 1 <= i /\ i <= Len(Stream)
  BY <1>1
<1> QED BY <1>2, <1>3, <1>4 DEF Piece

\* The places of a response, before and after the first u pieces are gone.
LEMMA Shifted ==
    \A i, l, u, k \in Nat : i >= 1 /\ (u + i) + 1 + k <= l =>
        /\ i + 1 + k <= l - u /\ i + 1 \in 1 .. l - u /\ u + (i + 1) = (u + i) + 1
        /\ \A j \in 1 .. k : i + 1 + j \in 1 .. l - u /\ u + (i + 1 + j) = (u + i) + 1 + j
        /\ u + (i + 2 + k) = (u + i) + 2 + k
        /\ (u + i) + 2 + k = l + 1 => i + 2 + k = (l - u) + 1
        /\ (u + i) + 2 + k <= l => i + 2 + k \in 1 .. l - u
OBVIOUS

\* Without its first response the stream is still one response after another.
LEMMA TakeOK ==
    \A u :
      /\ RtspTypeOK /\ StreamOK /\ 1 \in Begins /\ u = 2 + Stream[1].length
      /\ Len(Stream') = Len(Stream) - u /\ DOMAIN Stream' = 1 .. Len(Stream) - u
      /\ Stream' = <<>> <=> Len(Stream) = u
      /\ \A i \in 1 .. Len(Stream) - u : Stream'[i] = Stream[u + i]
      => /\ StreamOK' /\ u \in Nat /\ u > 1
         /\ \A i \in Begins' : u + i \in Begins /\ Stream'[i] = Stream[u + i] /\ i \in Nat /\ i >= 1
<1> TAKE u
<1>0. SUFFICES ASSUME RtspTypeOK, StreamOK, 1 \in Begins, u = 2 + Stream[1].length,
                      Len(Stream') = Len(Stream) - u, DOMAIN Stream' = 1 .. Len(Stream) - u,
                      Stream' = <<>> <=> Len(Stream) = u,
                      \A i \in 1 .. Len(Stream) - u : Stream'[i] = Stream[u + i]
               PROVE  /\ StreamOK' /\ u \in Nat /\ u > 1
                      /\ \A i \in Begins' : u + i \in Begins /\ Stream'[i] = Stream[u + i] /\ i \in Nat /\ i >= 1
  OBVIOUS
<1> DEFINE l == Len(Stream)    L == l - u
<1>1. l \in Nat /\ u \in Nat /\ u >= 2 /\ u <= l /\ DOMAIN Stream = 1 .. l
  BY <1>0, BeginsAre, StreamIs
<1>2. \A i \in 1 .. L : u + i \in 1 .. l
  BY <1>1
<1>3. \A i \in Begins' : i \in 1 .. L /\ u + i \in Begins /\ Stream'[i] = Stream[u + i]
  BY <1>0, <1>1, <1>2 DEF Begins
<1>4. \A i \in 1 .. L : u + i \in Begins => i \in Begins'
  BY <1>0, <1>1, <1>2 DEF Begins
<1>5. u + 1 \in Begins \cup {l + 1}
  <2>1. 1 + 2 + Stream[1].length \in Begins \cup {l + 1} /\ Stream[1].length \in Nat
    BY <1>0, BeginsAre
  <2>2. 1 + 2 + Stream[1].length = u + 1
    BY <1>0, <2>1
  <2> QED BY <2>1, <2>2
<1>6. Stream' # <<>> => 1 \in Begins'
  <2> SUFFICES ASSUME Stream' # <<>> PROVE 1 \in Begins'
    OBVIOUS
  <2>1. l # u /\ 1 \in 1 .. L
    BY <1>0, <1>1
  <2>2. u + 1 \in Begins
    BY <1>0, <2>1, <1>1, <1>5
  <2> QED BY <2>1, <2>2, <1>4
<1>7. ASSUME NEW i \in Begins'
      PROVE  /\ i + 1 + Stream'[i].length <= L /\ Stream'[i + 1] = Blank
             /\ \A j \in 1 .. Stream'[i].length : Stream'[i + 1 + j] = Part(Stream'[i].of)
             /\ i + 2 + Stream'[i].length \in Begins' \cup {L + 1}
             /\ Stream'[i].piece = "garbage" => Stream'[i].length = 0
  <2> DEFINE b == u + i    k == Stream[b].length
  <2>1. /\ b \in Begins /\ Stream'[i] = Stream[b] /\ i \in 1 .. L
    BY <1>3
  <2>2. /\ k \in Nat /\ b + 1 + k <= l /\ Stream[b + 1] = Blank
        /\ \A j \in 1 .. k : Stream[b + 1 + j] = Part(Stream[b].of)
        /\ b + 2 + k \in Begins \cup {l + 1}
        /\ Stream[b].piece = "garbage" => k = 0
    BY <1>0, <2>1, BeginsAre
  <2>3. /\ i + 1 + k <= L /\ i + 1 \in 1 .. L /\ u + (i + 1) = b + 1
        /\ \A j \in 1 .. k : i + 1 + j \in 1 .. L /\ u + (i + 1 + j) = b + 1 + j
        /\ u + (i + 2 + k) = b + 2 + k
        /\ b + 2 + k = l + 1 => i + 2 + k = L + 1
        /\ b + 2 + k <= l => i + 2 + k \in 1 .. L
    <3>1. i \in Nat /\ i >= 1 /\ k \in Nat /\ l \in Nat /\ u \in Nat
      BY <2>1, <2>2, <1>1
    <3>2. (u + i) + 1 + k <= l
      BY <2>2
    <3> HIDE DEF k, l
    <3> QED BY <3>1, <3>2, Shifted
  <2> HIDE DEF b, k, l, L
  <2>4. Stream'[i + 1] = Blank
    <3>1. Stream'[i + 1] = Stream[u + (i + 1)]
      BY <1>0, <2>3 DEF L, l
    <3> QED BY <2>2, <2>3, <3>1
  <2>6. \A j \in 1 .. k : Stream'[i + 1 + j] = Part(Stream[b].of)
    <3> SUFFICES ASSUME NEW j \in 1 .. k PROVE Stream'[i + 1 + j] = Part(Stream[b].of)
      OBVIOUS
    <3>1. i + 1 + j \in 1 .. L /\ u + (i + 1 + j) = b + 1 + j
      BY <2>3
    <3>2. Stream'[i + 1 + j] = Stream[u + (i + 1 + j)]
      BY <1>0, <3>1 DEF L, l
    <3>3. Stream[b + 1 + j] = Part(Stream[b].of)
      BY <2>2
    <3> QED BY <3>1, <3>2, <3>3
  <2>7. i + 2 + k \in Begins' \cup {L + 1}
    <3>1. CASE b + 2 + k = l + 1
      <4>1. i + 2 + k = L + 1
        BY <3>1, <2>3
      <4> QED BY <4>1
    <3>2. CASE b + 2 + k \in Begins
      <4>1. b + 2 + k <= l
        BY <1>0, <3>2, BeginsAre DEF l
      <4>2. i + 2 + k \in 1 .. L /\ u + (i + 2 + k) \in Begins
        BY <4>1, <3>2, <2>3
      <4> QED BY <4>2, <1>4
    <3> QED BY <2>2, <3>1, <3>2
  <2> QED BY <2>1, <2>2, <2>3, <2>4, <2>6, <2>7 DEF k
<1>8. StreamOK'
  BY <1>0, <1>6, <1>7 DEF StreamOK
<1> QED BY <1>1, <1>3, <1>8

\* The places of a response that comes after l pieces.
LEMMA Appended ==
    \A l, k \in Nat : \A n : n = l + 2 + k =>
        /\ n \in Nat /\ 1 \in 1 .. n /\ l + 1 \in 1 .. n /\ l + 2 \in 1 .. n /\ l + 1 + 1 = l + 2
        /\ l + 1 \in 1 .. l + 1 /\ l + 2 \notin 1 .. l + 1
        /\ \A i \in 1 .. l : i \in 1 .. n /\ i \in 1 .. l + 1
        /\ \A j \in 1 .. k : l + 2 + j \in 1 .. n /\ l + 2 + j \notin 1 .. l + 1 /\ l + 1 + 1 + j = l + 2 + j
        /\ \A i \in 1 .. n : i \in 1 .. l \/ i = l + 1 \/ i = l + 2 \/ \E j \in 1 .. k : i = l + 2 + j
        /\ l + 1 + 1 + k = n /\ n <= n /\ l + 1 + 2 + k = n + 1
<1> SUFFICES ASSUME NEW l \in Nat, NEW k \in Nat, NEW n, n = l + 2 + k
             PROVE  /\ n \in Nat /\ 1 \in 1 .. n /\ l + 1 \in 1 .. n /\ l + 2 \in 1 .. n /\ l + 1 + 1 = l + 2
                    /\ l + 1 \in 1 .. l + 1 /\ l + 2 \notin 1 .. l + 1
                    /\ \A i \in 1 .. l : i \in 1 .. n /\ i \in 1 .. l + 1
                    /\ \A j \in 1 .. k : l + 2 + j \in 1 .. n /\ l + 2 + j \notin 1 .. l + 1 /\ l + 1 + 1 + j = l + 2 + j
                    /\ \A i \in 1 .. n : i \in 1 .. l \/ i = l + 1 \/ i = l + 2 \/ \E j \in 1 .. k : i = l + 2 + j
                    /\ l + 1 + 1 + k = n /\ n <= n /\ l + 1 + 2 + k = n + 1
  OBVIOUS
<1>1. ASSUME NEW i \in 1 .. n, ~(i \in 1 .. l \/ i = l + 1 \/ i = l + 2)
      PROVE  \E j \in 1 .. k : i = l + 2 + j
  <2>1. i - (l + 2) \in 1 .. k /\ i = l + 2 + (i - (l + 2))
    BY <1>1
  <2> QED BY <2>1
<1> QED BY <1>1

\* The places of a response when others come after it.
LEMMA Followed ==
    \A i, m, l, k \in Nat : \A n : n = l + 2 + k /\ 1 <= i /\ i + 1 + m <= l =>
        /\ i + 1 + m <= n /\ i + 1 \in 1 .. l
        /\ \A j \in 1 .. m : i + 1 + j \in 1 .. l
OBVIOUS

\* A response of k pieces, after h and a blank line, comes at the end of the stream.
Appends(h, k, l, n) ==
    /\ l = Len(Stream) /\ l \in Nat /\ DOMAIN Stream = 1 .. l
    /\ k \in Nat /\ n = l + 2 + k /\ Len(Stream') = n /\ DOMAIN Stream' = 1 .. n
    /\ h.piece \in {"start", "garbage"} /\ Stream'[l + 1] = h /\ Stream'[l + 2] = Blank
    /\ \A j \in 1 .. k : Stream'[l + 2 + j] = Part(h.of)
    /\ \A i \in 1 .. l : Stream'[i] = Stream[i]

\* Where the responses begin when one more comes at the end.
LEMMA ReplyBegins ==
    \A h, k, l, n :
      Appends(h, k, l, n)
      => /\ Begins' = Begins \cup {l + 1}
         /\ \A i \in Begins : Stream'[i] = Stream[i] /\ i \in 1 .. l
<1> TAKE h, k, l, n
<1>0. SUFFICES ASSUME l \in Nat, DOMAIN Stream = 1 .. l, k \in Nat, n = l + 2 + k, DOMAIN Stream' = 1 .. n,
                      h.piece \in {"start", "garbage"}, Stream'[l + 1] = h, Stream'[l + 2] = Blank,
                      \A j \in 1 .. k : Stream'[l + 2 + j] = Part(h.of),
                      \A i \in 1 .. l : Stream'[i] = Stream[i]
               PROVE  /\ Begins' = Begins \cup {l + 1}
                      /\ \A i \in Begins : Stream'[i] = Stream[i] /\ i \in 1 .. l
  BY DEF Appends
<1>1. l \in Nat /\ k \in Nat /\ n = l + 2 + k
  BY <1>0
<1>2. /\ l + 1 \in 1 .. n /\ l + 2 \notin 1 .. l + 1
      /\ \A i \in 1 .. l : i \in 1 .. n /\ i \in 1 .. l + 1
      /\ \A j \in 1 .. k : l + 2 + j \in 1 .. n /\ l + 2 + j \notin 1 .. l + 1
      /\ \A i \in 1 .. n : i \in 1 .. l \/ i = l + 1 \/ i = l + 2 \/ \E j \in 1 .. k : i = l + 2 + j
  BY <1>1, Appended
<1>3. Blank.piece = "blank" /\ Part(h.of).piece = "body"
  BY DEF Blank, Part
<1>4. ASSUME NEW i \in 1 .. n
      PROVE  \/ i \in 1 .. l /\ Stream'[i] = Stream[i]
             \/ i = l + 1 /\ Stream'[i] = h
             \/ Stream'[i].piece \in {"blank", "body"}
  <2>1. CASE i \in 1 .. l
    BY <1>0, <2>1
  <2>2. CASE i = l + 1
    BY <1>0, <2>2
  <2>3. CASE i = l + 2
    BY <1>0, <1>3, <2>3
  <2>4. CASE \E j \in 1 .. k : i = l + 2 + j
    BY <1>0, <1>3, <2>4
  <2> QED BY <1>2, <2>1, <2>2, <2>3, <2>4
<1>5. Begins' = {i \in 1 .. n : Stream'[i].piece \in {"start", "garbage"}}
  BY <1>0 DEF Begins
<1>6. Begins = {i \in 1 .. l : Stream[i].piece \in {"start", "garbage"}}
  BY <1>0 DEF Begins
<1>7. Begins' \subseteq Begins \cup {l + 1}
  BY <1>4, <1>5, <1>6, Zenon
<1>8. Begins \subseteq Begins' /\ l + 1 \in Begins'
  BY <1>0, <1>2, <1>5, <1>6
<1>9. \A i \in Begins : Stream'[i] = Stream[i] /\ i \in 1 .. l
  BY <1>0, <1>6
<1> QED BY <1>7, <1>8, <1>9

\* A whole response at the end of the stream.
LEMMA ReplyOK ==
    \A h, k, l, n :
      /\ RtspTypeOK /\ StreamOK /\ Appends(h, k, l, n) /\ (l = 0 <=> Stream = <<>>)
      /\ h.length = k /\ (h.piece = "garbage" => k = 0)
      => StreamOK'
<1> TAKE h, k, l, n
<1>0. SUFFICES ASSUME RtspTypeOK, StreamOK, Appends(h, k, l, n), l = Len(Stream), l \in Nat, DOMAIN Stream = 1 .. l,
                      k \in Nat, n = l + 2 + k, Len(Stream') = n, DOMAIN Stream' = 1 .. n,
                      h.piece \in {"start", "garbage"}, Stream'[l + 1] = h, Stream'[l + 2] = Blank,
                      h.length = k, h.piece = "garbage" => k = 0,
                      \A j \in 1 .. k : Stream'[l + 2 + j] = Part(h.of),
                      \A i \in 1 .. l : Stream'[i] = Stream[i],
                      l = 0 <=> Stream = <<>>
               PROVE  StreamOK'
  BY DEF Appends
<1>1. l \in Nat /\ k \in Nat /\ n = l + 2 + k
  BY <1>0
<1>2. /\ l + 1 + 1 = l + 2 /\ l + 1 + 1 + k = n /\ n <= n /\ l + 1 + 2 + k = n + 1
      /\ \A j \in 1 .. k : l + 1 + 1 + j = l + 2 + j
  BY <1>1, Appended
<1>3. /\ Begins' = Begins \cup {l + 1}
      /\ \A i \in Begins : Stream'[i] = Stream[i] /\ i \in 1 .. l
  BY <1>0, ReplyBegins
<1>4. 1 \in Begins'
  <2>1. CASE l = 0
    <3>1. l + 1 = 1
      BY <2>1
    <3> QED BY <3>1, <1>3
  <2>2. CASE l # 0
    BY <2>2, <1>0, <1>3 DEF StreamOK
  <2> QED BY <2>1, <2>2
<1>5. ASSUME NEW i \in Begins'
      PROVE  /\ i + 1 + Stream'[i].length <= n /\ Stream'[i + 1] = Blank
             /\ \A j \in 1 .. Stream'[i].length : Stream'[i + 1 + j] = Part(Stream'[i].of)
             /\ i + 2 + Stream'[i].length \in Begins' \cup {n + 1}
             /\ Stream'[i].piece = "garbage" => Stream'[i].length = 0
  <2>1. CASE i \in Begins
    <3> DEFINE m == Stream[i].length
    <3>1. /\ i \in Nat /\ 1 <= i /\ m \in Nat /\ i + 1 + m <= l /\ Stream[i + 1] = Blank
          /\ \A j \in 1 .. m : Stream[i + 1 + j] = Part(Stream[i].of)
          /\ i + 2 + m \in Begins \cup {l + 1}
          /\ Stream[i].piece = "garbage" => m = 0
      BY <2>1, <1>0, BeginsAre
    <3>2. Stream'[i] = Stream[i]
      BY <2>1, <1>3
    <3> HIDE DEF m
    <3>3. i \in Nat /\ 1 <= i /\ m \in Nat /\ i + 1 + m <= l
      BY <3>1
    <3>4. i + 1 + m <= n /\ i + 1 \in 1 .. l /\ \A j \in 1 .. m : i + 1 + j \in 1 .. l
      BY <3>3, <1>1, Followed
    <3>5. Stream'[i + 1] = Blank /\ \A j \in 1 .. m : Stream'[i + 1 + j] = Part(Stream[i].of)
      BY <3>1, <3>4, <1>0
    <3>6. Stream[i].length = m
      BY DEF m
    <3> QED BY <3>1, <3>2, <3>4, <3>5, <3>6, <1>3
  <2>2. CASE i = l + 1
    BY <2>2, <1>0, <1>2
  <2> QED BY <2>1, <2>2, <1>3
<1>6. Len(Stream') = n
  BY <1>0
<1> QED BY <1>4, <1>5, <1>6 DEF StreamOK

-----------------------------------------------------------------------------
(* The connection's inductive invariant.                                    *)

\* The answer that was returned last is the one to the last request.
LastOK ==
    ~dropped /\ returned.how = "answer" /\ client = "idle" =>
        returned.of = cseq /\ returned.whole

ConnectionInv == RtspTypeOK /\ StreamOK /\ OrderOK /\ RequestOK /\ LastOK

LEMMA SameStream ==
    ASSUME Stream' = Stream
    PROVE  Begins' = Begins /\ Starts' = Starts /\ (StreamOK => StreamOK')
<1>1. Begins' = Begins
  BY DEF Begins
<1>2. Starts' = Starts
  BY <1>1 DEF Starts
<1> QED BY <1>1, <1>2 DEF StreamOK

\* The counters, as numbers.
LEMMA Counters ==
    ASSUME RtspTypeOK
    PROVE  /\ cseq \in Nat /\ newest \in Nat /\ replied \in Nat /\ Sent \in Int /\ Pending \in Int
           /\ Len(outbound) \in Nat /\ DOMAIN outbound = 1 .. Len(outbound)
           /\ \A m \in DOMAIN outbound : outbound[m].seq \in Nat
           /\ \A i \in Begins : Stream[i].of \in Nat /\ i \in Nat
           /\ MaxRequests \in Nat /\ MaxBody \in Nat
<1>1. /\ cseq \in Nat /\ newest \in Nat /\ replied \in Nat /\ MaxRequests \in Nat /\ MaxBody \in Nat
  BY RtspAssumption DEF RtspTypeOK
<1>2. Sent \in Int /\ Pending \in Int
  BY <1>1 DEF Sent, Pending
<1>3. Len(outbound) \in Nat /\ DOMAIN outbound = 1 .. Len(outbound)
  BY LenProperties DEF RtspTypeOK
<1>4. \A m \in DOMAIN outbound : outbound[m] \in [seq: 1..MaxRequests, whole: BOOLEAN]
  BY <1>3, ElementOfSeq DEF RtspTypeOK
<1>5. \A m \in DOMAIN outbound : outbound[m].seq \in Nat
  BY <1>1, <1>4
<1>6. \A i \in Begins : i \in 1 .. Len(Stream) /\ Stream[i] \in Piece /\ Len(Stream) \in Nat
  BY StreamIs DEF Begins
<1>7. \A i \in Begins : Stream[i].of \in Nat /\ i \in Nat
  BY <1>1, <1>6 DEF Piece
<1> QED BY <1>1, <1>2, <1>3, <1>5, <1>7

\* A request that ends in an error.
LEMMA ErrorType ==
    ASSUME RtspTypeOK, Ends("error", Incomplete, TRUE)
    PROVE  /\ returned' \in [how: {"none", "answer", "error"}, of: 0..MaxRequests,
                             body: Seq(Piece), whole: BOOLEAN]
           /\ returned'.how = "error"
<1> DEFINE r == [how |-> "error", of |-> 0, body |-> <<>>, whole |-> TRUE]
<1>1. returned' = r
  BY DEF Ends, Incomplete
<1>2. <<>> \in Seq(Piece) /\ 0 \in 0 .. MaxRequests
  BY EmptySeq, RtspAssumption
<1> QED BY <1>1, <1>2

LEMMA SendStep ==
    ASSUME ConnectionInv, Send PROVE ConnectionInv'
<1> USE DEF ConnectionInv
<1>1. RtspTypeOK /\ RtspTypeOK'
  BY RtspAssumption DEF RtspTypeOK, Send
<1>2. Stream' = Stream
  BY DEF Stream, Send
<1>3. Begins' = Begins /\ Starts' = Starts /\ StreamOK'
  BY <1>2, SameStream
<1>4. /\ client = "idle" /\ client' = "writing" /\ cseq' = cseq + 1 /\ outbound' = outbound
      /\ replied' = replied /\ newest' = newest /\ dropped' = dropped /\ buf' = buf
      /\ connected' = connected
  BY DEF Send
<1>5. Sent' = Sent /\ Pending' = Pending /\ Sent = cseq
  <2>1. cseq \in Nat
    BY <1>1, Counters
  <2>2. Sent = cseq /\ Sent' = cseq
    BY <2>1, <1>4 DEF Sent
  <2> QED BY <2>2, <1>4 DEF Pending
<1>6. OrderOK'
  BY <1>2, <1>3, <1>4, <1>5 DEF OrderOK
<1>7. RequestOK'
  <2>1. replied < cseq' /\ Pending \in Int
    BY <1>1, <1>4, Counters DEF RtspTypeOK
  <2> QED BY <1>2, <1>3, <1>4, <1>5, <2>1 DEF RequestOK
<1>8. LastOK'
  BY <1>4 DEF LastOK
<1> QED BY <1>1, <1>3, <1>6, <1>7, <1>8

LEMMA WriteFailsStep ==
    ASSUME ConnectionInv, WriteFails PROVE ConnectionInv'
<1> USE DEF ConnectionInv
<1>1. RtspTypeOK /\ RtspTypeOK'
  BY ErrorType DEF RtspTypeOK, WriteFails
<1>2. Stream' = Stream
  BY DEF Stream, WriteFails
<1>3. Begins' = Begins /\ Starts' = Starts /\ StreamOK'
  BY <1>2, SameStream
<1>4. /\ client = "writing" /\ client' = "idle" /\ cseq' = cseq /\ outbound' = outbound
      /\ replied' = replied /\ newest' = newest /\ dropped' = dropped /\ buf' = buf
      /\ connected' = connected /\ ~connected /\ returned'.how = "error"
  BY DEF WriteFails, Ends
<1>5. Sent' = Sent + 1 /\ Pending' = Pending + 1 /\ Sent \in Int /\ Pending \in Int
  <2>1. cseq \in Nat /\ replied \in Nat
    BY <1>1, Counters
  <2>2. Sent = cseq - 1 /\ Sent' = cseq
    BY <1>4 DEF Sent
  <2>3. Pending = Sent - replied /\ Pending' = Sent' - replied
    BY <1>4 DEF Pending
  <2> QED BY <2>1, <2>2, <2>3
<1>6. OrderOK'
  <2>1. /\ newest <= Sent => newest <= Sent + 1
        /\ \A m \in DOMAIN outbound : outbound[m].seq <= Sent => outbound[m].seq <= Sent + 1
        /\ \A i \in Starts : Stream[i].of <= Sent => Stream[i].of <= Sent + 1
    <3>1. /\ newest \in Int /\ \A m \in DOMAIN outbound : outbound[m].seq \in Int
          /\ \A i \in Starts : Stream[i].of \in Int
      BY <1>1, Counters DEF Starts
    <3>2. \A x, y \in Int : x <= y => x <= y + 1
      OBVIOUS
    <3> HIDE DEF ConnectionInv
    <3> QED BY <3>1, <3>2, <1>5
  <2> QED BY <1>2, <1>3, <1>4, <1>5, <2>1 DEF OrderOK
<1>7. RequestOK'
  <2>1. Len(outbound) <= Pending => Len(outbound) <= Pending + 1
    BY <1>1, <1>5, Counters
  <2> QED BY <1>2, <1>3, <1>4, <1>5, <2>1 DEF RequestOK
<1>8. LastOK'
  BY <1>4 DEF LastOK
<1> QED BY <1>1, <1>3, <1>6, <1>7, <1>8

LEMMA DropWaitingStep ==
    ASSUME ConnectionInv, DropWhileWaiting PROVE ConnectionInv'
<1> USE DEF ConnectionInv
<1>1. RtspTypeOK /\ RtspTypeOK'
  BY DEF RtspTypeOK, DropWhileWaiting
<1>2. Stream' = Stream
  BY DEF Stream, DropWhileWaiting
<1>3. Begins' = Begins /\ Starts' = Starts /\ StreamOK'
  BY <1>2, SameStream
<1>4. /\ client = "waiting" /\ client' = "idle" /\ cseq' = cseq /\ outbound' = outbound
      /\ replied' = replied /\ newest' = newest /\ dropped' = TRUE
  BY DEF DropWhileWaiting
<1>5. Sent' = Sent /\ Pending' = Pending
  BY <1>4 DEF Sent, Pending
<1>6. OrderOK'
  BY <1>2, <1>3, <1>4, <1>5 DEF OrderOK
<1>7. RequestOK' /\ LastOK'
  BY <1>4, <1>5 DEF RequestOK, LastOK
<1> QED BY <1>1, <1>3, <1>6, <1>7

LEMMA CloseStep ==
    ASSUME ConnectionInv, Close PROVE ConnectionInv'
<1> USE DEF ConnectionInv
<1>1. RtspTypeOK'
  BY DEF RtspTypeOK, Close
<1>2. Stream' = Stream
  BY DEF Stream, Close
<1>3. Begins' = Begins /\ Starts' = Starts /\ StreamOK'
  BY <1>2, SameStream
<1>4. /\ client' = client /\ cseq' = cseq /\ outbound' = outbound /\ returned' = returned
      /\ replied' = replied /\ newest' = newest /\ dropped' = dropped /\ buf' = buf
      /\ ~connected'
  BY DEF Close
<1>5. Sent' = Sent /\ Pending' = Pending
  BY <1>4 DEF Sent, Pending
<1>6. OrderOK' /\ RequestOK' /\ LastOK'
  BY <1>2, <1>3, <1>4, <1>5 DEF OrderOK, RequestOK, LastOK
<1> QED BY <1>1, <1>3, <1>6

\* A request at the end of those on their way.
LEMMA AppendOutbound ==
    ASSUME RtspTypeOK, NEW e \in [seq: 1..MaxRequests, whole: BOOLEAN],
           outbound' = Append(outbound, e)
    PROVE  /\ outbound' \in Seq([seq: 1..MaxRequests, whole: BOOLEAN])
           /\ Len(outbound') = Len(outbound) + 1 /\ Len(outbound) \in Nat
           /\ \A m \in DOMAIN outbound : m \in 1 .. Len(outbound) /\ outbound'[m] = outbound[m]
           /\ outbound'[Len(outbound) + 1] = e
           /\ DOMAIN outbound' = (1 .. Len(outbound)) \cup {Len(outbound) + 1}
           /\ outbound' # <<>>
<1> DEFINE S == [seq: 1..MaxRequests, whole: BOOLEAN]
<1>1. outbound \in Seq(S) /\ e \in S
  BY DEF RtspTypeOK
<1> HIDE DEF S
<1>2. /\ outbound' \in Seq(S) /\ Len(outbound') = Len(outbound) + 1 /\ Len(outbound) \in Nat
      /\ \A i \in 1 .. Len(outbound) : outbound'[i] = outbound[i]
      /\ outbound'[Len(outbound) + 1] = e
      /\ outbound' # <<>>
  BY <1>1, AppendProperties, LenProperties
<1>3. DOMAIN outbound' = 1 .. Len(outbound) + 1 /\ DOMAIN outbound = 1 .. Len(outbound)
  BY <1>1, <1>2, LenProperties
<1>4. DOMAIN outbound' = (1 .. Len(outbound)) \cup {Len(outbound) + 1}
  <2>1. \A n \in Nat : 1 .. n + 1 = (1 .. n) \cup {n + 1}
    OBVIOUS
  <2>2. Len(outbound) \in Nat
    BY <1>2
  <2> QED BY <2>1, <2>2, <1>3
<1> QED BY <1>2, <1>3, <1>4 DEF S

\* A request that was being written is the newest of those on their way.
LEMMA AppendOrder ==
    ASSUME RtspTypeOK, OrderOK, NEW e \in [seq: 1..MaxRequests, whole: BOOLEAN],
           outbound' = Append(outbound, e), e.seq = cseq,
           client = "writing", client' # "writing", cseq' = cseq, newest' = newest,
           Stream' = Stream
    PROVE  OrderOK' /\ Sent' = Sent + 1 /\ Sent \in Int
<1>1. Sent = cseq - 1 /\ Sent' = cseq /\ cseq \in Nat
  BY Counters DEF Sent
<1>2. Sent' = Sent + 1 /\ Sent \in Int
  BY <1>1
<1>3. /\ newest \in Int /\ \A m \in DOMAIN outbound : outbound[m].seq \in Int
      /\ \A i \in Starts : Stream[i].of \in Int
  BY Counters DEF Starts
<1>4. \A x \in Int : x <= Sent => x <= Sent' /\ x < cseq
  <2>1. \A x, y \in Int : x <= y - 1 => x <= y /\ x < y
    OBVIOUS
  <2>2. cseq \in Int
    BY <1>1
  <2> QED BY <1>1, <2>1, <2>2
<1>5. /\ newest <= Sent' /\ newest < cseq
      /\ \A m \in DOMAIN outbound : outbound[m].seq <= Sent' /\ outbound[m].seq < cseq
      /\ \A i \in Starts : Stream[i].of <= Sent' /\ Stream[i].of < cseq
  BY <1>3, <1>4 DEF OrderOK
<1>6. Starts' = Starts
  BY SameStream
<1> DEFINE l == Len(outbound)
<1>7. /\ l \in Nat /\ \A m \in DOMAIN outbound : outbound'[m] = outbound[m] /\ m \in 1 .. l
      /\ outbound'[l + 1] = e /\ DOMAIN outbound' = (1 .. l) \cup {l + 1}
      /\ Len(outbound') = l + 1
  BY AppendOutbound
<1>8. DOMAIN outbound = 1 .. l
  BY Counters
<1>9. cseq <= Sent'
  BY <1>1
<1>10. ASSUME NEW m \in DOMAIN outbound'
       PROVE  /\ newest < outbound'[m].seq /\ outbound'[m].seq <= Sent'
              /\ \A i \in Starts : Stream[i].of < outbound'[m].seq
  BY <1>5, <1>7, <1>8, <1>9 DEF OrderOK
<1>11. ASSUME NEW m \in DOMAIN outbound', NEW n \in DOMAIN outbound', m < n
       PROVE  outbound'[m].seq < outbound'[n].seq
  <2>1. m \in 1 .. l
    BY <1>7, <1>11
  <2>2. CASE n \in 1 .. l
    BY <2>1, <2>2, <1>7, <1>8, <1>11 DEF OrderOK
  <2>3. CASE n = l + 1
    BY <2>1, <2>3, <1>5, <1>7, <1>8
  <2> QED BY <1>7, <2>2, <2>3
<1>12. \A i, j \in Starts : i < j => Stream[i].of < Stream[j].of
  BY DEF OrderOK
<1>13. \A i \in Starts : newest < Stream[i].of
  BY DEF OrderOK
<1>14. outbound'[Len(outbound')].seq = cseq'
  BY <1>7
<1>15. OrderOK'
  <2> HIDE DEF l
  <2> QED BY <1>5, <1>6, <1>10, <1>11, <1>12, <1>13, <1>14 DEF OrderOK
<1> QED BY <1>2, <1>15

LEMMA WrittenStep ==
    ASSUME ConnectionInv, Written PROVE ConnectionInv'
<1> DEFINE e == [seq |-> cseq, whole |-> TRUE]
<1>1. RtspTypeOK /\ StreamOK /\ OrderOK /\ RequestOK /\ LastOK
  BY DEF ConnectionInv
<1>2. /\ client = "writing" /\ client' = "waiting" /\ cseq' = cseq /\ outbound' = Append(outbound, e)
      /\ replied' = replied /\ newest' = newest /\ dropped' = dropped /\ buf' = buf
      /\ inbound' = inbound /\ connected' = connected /\ returned' = returned
  BY DEF Written
<1>3. /\ Stream' = Stream /\ Begins' = Begins /\ Starts' = Starts /\ StreamOK'
  <2>1. Stream' = Stream
    BY <1>2 DEF Stream
  <2> QED BY <1>1, <2>1, SameStream
<1>4. e \in [seq: 1..MaxRequests, whole: BOOLEAN]
  <2>1. newest <= Sent /\ Sent = cseq - 1 /\ newest \in Nat /\ cseq \in 0 .. MaxRequests
    BY <1>1, <1>2, Counters DEF OrderOK, Sent, RtspTypeOK
  <2>2. cseq \in 1 .. MaxRequests
    BY <2>1
  <2> QED BY <2>2
<1> HIDE DEF e
<1>5. e.seq = cseq /\ e.whole = TRUE
  BY DEF e
<1>6. OrderOK' /\ Sent' = Sent + 1 /\ Sent \in Int
  BY <1>1, <1>2, <1>3, <1>4, <1>5, AppendOrder
<1>7. /\ outbound' \in Seq([seq: 1..MaxRequests, whole: BOOLEAN])
      /\ Len(outbound') = Len(outbound) + 1 /\ Len(outbound) \in Nat
      /\ \A m \in DOMAIN outbound : m \in 1 .. Len(outbound) /\ outbound'[m] = outbound[m]
      /\ outbound'[Len(outbound) + 1] = e
      /\ DOMAIN outbound' = (1 .. Len(outbound)) \cup {Len(outbound) + 1}
      /\ DOMAIN outbound = 1 .. Len(outbound)
  BY <1>1, <1>2, <1>4, AppendOutbound, Counters
<1>8. RtspTypeOK'
  BY <1>1, <1>2, <1>7 DEF RtspTypeOK
<1>9. Pending' = Pending + 1 /\ Pending \in Int /\ cseq - 1 - replied = Pending /\ replied \in Nat /\ cseq \in Nat
  <2>1. Pending' = (Sent + 1) - replied /\ Pending = Sent - replied /\ Sent = cseq - 1
    BY <1>2, <1>6 DEF Pending, Sent
  <2>2. replied \in Nat /\ cseq \in Nat
    BY <1>1, Counters
  <2> QED BY <2>1, <2>2
<1>10. RequestOK'
  <2>1. Len(outbound') <= Pending' /\ replied < cseq
    <3>1. Len(outbound) <= Pending
      BY <1>1 DEF RequestOK
    <3>2. Len(outbound) + 1 <= Pending + 1 /\ replied < cseq
      BY <3>1, <1>7, <1>9
    <3> QED BY <3>2, <1>7, <1>9
  <2>2. ~dropped => \A m \in DOMAIN outbound' : outbound'[m].whole
    BY <1>1, <1>5, <1>7 DEF RequestOK
  <2>3. ~dropped /\ Stream = <<>> /\ connected => Len(outbound') = Pending' /\ Pending' = 1
    <3>1. ~dropped /\ Stream = <<>> /\ connected => Len(outbound) = Pending /\ Pending = 0
      BY <1>1, <1>2 DEF RequestOK
    <3> QED BY <3>1, <1>7, <1>9
  <2>4. ~dropped => 1 \notin Starts
    BY <1>1, <1>2 DEF RequestOK
  <2> QED BY <1>2, <1>3, <2>1, <2>2, <2>3, <2>4 DEF RequestOK
<1>11. LastOK'
  BY <1>2 DEF LastOK
<1> QED BY <1>3, <1>6, <1>8, <1>10, <1>11 DEF ConnectionInv

LEMMA DropWritingStep ==
    ASSUME ConnectionInv, NEW some \in BOOLEAN, DropWhileWriting(some) PROVE ConnectionInv'
<1> DEFINE e == [seq |-> cseq, whole |-> FALSE]
<1>1. RtspTypeOK /\ StreamOK /\ OrderOK /\ RequestOK /\ LastOK
  BY DEF ConnectionInv
<1>2. /\ client = "writing" /\ client' = "idle" /\ cseq' = cseq /\ dropped' = TRUE
      /\ outbound' = IF some THEN Append(outbound, e) ELSE outbound
      /\ replied' = replied /\ newest' = newest /\ buf' = buf
      /\ inbound' = inbound /\ connected' = connected /\ returned' = returned
  BY DEF DropWhileWriting
<1>3. /\ Stream' = Stream /\ Begins' = Begins /\ Starts' = Starts /\ StreamOK'
  <2>1. Stream' = Stream
    BY <1>2 DEF Stream
  <2> QED BY <1>1, <2>1, SameStream
<1>4. e \in [seq: 1..MaxRequests, whole: BOOLEAN]
  <2>1. newest <= Sent /\ Sent = cseq - 1 /\ newest \in Nat /\ cseq \in 0 .. MaxRequests
    BY <1>1, <1>2, Counters DEF OrderOK, Sent, RtspTypeOK
  <2>2. cseq \in 1 .. MaxRequests
    BY <2>1
  <2> QED BY <2>2
<1>5. e.seq = cseq
  OBVIOUS
<1> HIDE DEF e
<1>6. Sent' = Sent + 1 /\ Pending' = Pending + 1 /\ Pending \in Int /\ Len(outbound) \in Nat /\ Sent \in Int
  <2>1. cseq \in Nat /\ replied \in Nat /\ Len(outbound) \in Nat
    BY <1>1, Counters
  <2>2. Sent = cseq - 1 /\ Sent' = cseq
    BY <1>2 DEF Sent
  <2>3. Pending = Sent - replied /\ Pending' = Sent' - replied
    BY <1>2 DEF Pending
  <2> QED BY <2>1, <2>2, <2>3
<1>7. Len(outbound) <= Pending
  BY <1>1 DEF RequestOK
<1>8. CASE some
  <2>1. OrderOK'
    BY <1>1, <1>2, <1>3, <1>4, <1>5, <1>8, AppendOrder
  <2>2. outbound' \in Seq([seq: 1..MaxRequests, whole: BOOLEAN]) /\ Len(outbound') = Len(outbound) + 1
    BY <1>1, <1>2, <1>4, <1>8, AppendOutbound
  <2>3. RtspTypeOK'
    BY <1>1, <1>2, <2>2 DEF RtspTypeOK
  <2>4. Len(outbound') <= Pending'
    BY <2>2, <1>6, <1>7
  <2>5. RequestOK' /\ LastOK'
    BY <1>2, <2>4 DEF RequestOK, LastOK
  <2> QED BY <1>3, <2>1, <2>3, <2>5 DEF ConnectionInv
<1>9. CASE ~some
  <2>1. /\ newest <= Sent => newest <= Sent + 1
        /\ \A m \in DOMAIN outbound : outbound[m].seq <= Sent => outbound[m].seq <= Sent + 1
        /\ \A i \in Starts : Stream[i].of <= Sent => Stream[i].of <= Sent + 1
    <3>1. /\ newest \in Int /\ \A m \in DOMAIN outbound : outbound[m].seq \in Int
          /\ \A i \in Starts : Stream[i].of \in Int
      BY <1>1, Counters DEF Starts
    <3>2. \A x, y \in Int : x <= y => x <= y + 1
      OBVIOUS
    <3> QED BY <3>1, <3>2, <1>6
  <2>2. outbound' = outbound
    BY <1>2, <1>9
  <2>3. OrderOK'
    BY <1>1, <1>2, <1>3, <1>6, <2>1, <2>2 DEF OrderOK
  <2>4. RtspTypeOK'
    BY <1>1, <1>2, <2>2 DEF RtspTypeOK
  <2>5. Len(outbound') <= Pending'
    BY <2>2, <1>6, <1>7
  <2>6. RequestOK' /\ LastOK'
    BY <1>2, <2>5 DEF RequestOK, LastOK
  <2> QED BY <1>3, <2>3, <2>4, <2>6 DEF ConnectionInv
<1> QED BY <1>8, <1>9

\* A request that ends in an error while it waits, when what has arrived is garbage or
\* nothing more can arrive.
LEMMA GiveUpStep ==
    ASSUME ConnectionInv, client = "waiting", client' = "idle", Ends("error", Incomplete, TRUE),
           UNCHANGED <<cseq, outbound, inbound, buf, connected, replied, newest, dropped>>,
           \/ Parse(buf).is = "malformed"
           \/ Parse(buf).is = "incomplete" /\ inbound = <<>> /\ ~connected
    PROVE  ConnectionInv'
<1>1. RtspTypeOK /\ StreamOK /\ OrderOK /\ RequestOK /\ LastOK
  BY DEF ConnectionInv
<1>2. RtspTypeOK' /\ returned'.how = "error"
  BY <1>1, ErrorType DEF RtspTypeOK
<1>3. /\ Stream' = Stream /\ Begins' = Begins /\ Starts' = Starts /\ StreamOK'
  <2>1. Stream' = Stream
    BY DEF Stream
  <2> QED BY <1>1, <2>1, SameStream
<1>4. Sent' = Sent /\ Pending' = Pending
  BY DEF Sent, Pending
<1>5. OrderOK'
  BY <1>1, <1>3, <1>4 DEF OrderOK
<1>6. /\ Parse(buf).is = "malformed" => Len(buf) >= 2 /\ 1 \notin Starts
      /\ Parse(buf).is = "incomplete" =>
           Len(buf) < 2 \/ (1 \in Starts /\ Len(buf) < 2 + Stream[1].length)
  <2>1. /\ Len(buf) < 2 => Parse(buf) = Incomplete
        /\ Len(buf) >= 2 /\ 1 \notin Starts => Parse(buf) = Malformed
        /\ Len(buf) >= 2 /\ 1 \in Starts =>
             IF Len(buf) < 2 + Stream[1].length THEN Parse(buf) = Incomplete
             ELSE Parse(buf) = Parsed(Stream[1].of, 2 + Stream[1].length,
                                      Body(Stream[1].of, Stream[1].length))
    BY <1>1, ParseFront
  <2>2. Len(buf) < 2 \/ Len(buf) >= 2
    BY <1>1, StreamIs
  <2>3. /\ Incomplete.is = "incomplete" /\ Malformed.is = "malformed"
        /\ \A n, u, b : Parsed(n, u, b).is = "parsed"
    BY DEF Incomplete, Malformed, Parsed
  <2> QED BY <2>1, <2>2, <2>3
<1>7. Stream = <<>> => Len(buf) < 2
  BY <1>1, StreamIs
<1>8. inbound = <<>> => Len(Stream) = Len(buf) /\ Len(buf) \in Nat
  BY <1>1, StreamIs, EmptySeq
<1>9. 1 \in Begins => Len(Stream) >= 2 /\ Stream[1].length \in Nat
  <2>1. 1 \in Begins => 1 + 1 + Stream[1].length <= Len(Stream) /\ Stream[1].length \in Nat /\ Len(Stream) \in Nat
    BY <1>1, BeginsAre, StreamIs
  <2> QED BY <2>1
<1>10. RequestOK'
  <2>1. CASE dropped
    BY <2>1, <1>1, <1>4 DEF RequestOK
  <2>2. CASE ~dropped
    <3>1. 1 \in Starts => Len(Stream) = 2 + Stream[1].length /\ 1 \in Begins
      BY <2>2, <1>1 DEF RequestOK, Starts
    <3>2. 1 \notin Starts
      <4> SUFFICES ASSUME 1 \in Starts PROVE FALSE
        OBVIOUS
      <4>1. Parse(buf).is = "incomplete" /\ inbound = <<>>
        BY <1>6
      <4>2. Len(buf) < 2 \/ Len(buf) < 2 + Stream[1].length
        BY <1>6, <4>1
      <4> QED BY <4>1, <4>2, <3>1, <1>8, <1>9
    <3>3. 1 \in Begins => Len(buf) >= 2
      <4>1. CASE Parse(buf).is = "malformed"
        BY <4>1, <1>6
      <4>2. CASE inbound = <<>>
        BY <4>2, <1>8, <1>9
      <4> QED BY <4>1, <4>2
    <3>4. Stream = <<>> => ~connected
      <4>1. CASE Parse(buf).is = "malformed"
        <5>1. Len(buf) \in Nat
          BY <1>1, StreamIs
        <5> QED BY <4>1, <5>1, <1>6, <1>7
      <4> QED BY <4>1
    <3> QED BY <2>2, <3>2, <3>3, <3>4, <1>1, <1>3, <1>4 DEF RequestOK
  <2> QED BY <2>1, <2>2
<1>11. LastOK'
  BY <1>2 DEF LastOK
<1> QED BY <1>2, <1>3, <1>5, <1>10, <1>11 DEF ConnectionInv

LEMMA ReadSomeStep ==
    ASSUME ConnectionInv, NEW n \in 1 .. Len(inbound), ReadSome(n) PROVE ConnectionInv'
<1>1. RtspTypeOK /\ StreamOK /\ OrderOK /\ RequestOK /\ LastOK
  BY DEF ConnectionInv
<1>2. /\ client = "waiting" /\ client' = client /\ cseq' = cseq /\ outbound' = outbound
      /\ connected' = connected /\ replied' = replied /\ returned' = returned
      /\ newest' = newest /\ dropped' = dropped
      /\ buf' = buf \o SubSeq(inbound, 1, n) /\ inbound' = SubSeq(inbound, n + 1, Len(inbound))
  BY DEF ReadSome
<1>3. Stream' = Stream /\ buf' \in Seq(Piece) /\ inbound' \in Seq(Piece)
  BY <1>1, <1>2, ReadStream
<1>4. Begins' = Begins /\ Starts' = Starts /\ StreamOK'
  BY <1>1, <1>3, SameStream
<1>5. Sent' = Sent /\ Pending' = Pending
  BY <1>2 DEF Sent, Pending
<1>6. RtspTypeOK'
  BY <1>1, <1>2, <1>3 DEF RtspTypeOK
<1>7. OrderOK' /\ LastOK'
  BY <1>1, <1>2, <1>3, <1>4, <1>5 DEF OrderOK, LastOK
<1>8. RequestOK'
  BY <1>1, <1>2, <1>3, <1>4, <1>5 DEF RequestOK
<1> QED BY <1>4, <1>6, <1>7, <1>8 DEF ConnectionInv

\* A body of the right pieces.
LEMMA BodyType ==
    \A n \in 0 .. MaxRequests, k \in Nat :
        /\ Body(n, k) \in Seq(Piece) /\ Len(Body(n, k)) = k
        /\ \A i \in 1 .. k : Body(n, k)[i] = Part(n)
<1> TAKE n \in 0 .. MaxRequests, k \in Nat
<1>1. Part(n) \in Piece
  BY DEF Part, Piece
<1>2. Body(n, k) = [i \in 1 .. k |-> Part(n)]
  BY DEF Body
<1> QED BY <1>1, <1>2

\* What the client takes is the first response, and it is whole.
LEMMA Taken ==
    ASSUME ConnectionInv, TakeResponse
    PROVE  /\ 1 \in Starts /\ Stream[1].of \in 0 .. MaxRequests /\ Stream[1].length \in Nat
           /\ 2 + Stream[1].length \in 0 .. Len(buf)
           /\ buf' = SubSeq(buf, (2 + Stream[1].length) + 1, Len(buf))
           /\ newest' = Stream[1].of
           /\ returned' = [how |-> "answer", of |-> Stream[1].of,
                           body |-> Body(Stream[1].of, Stream[1].length), whole |-> TRUE]
<1>1. RtspTypeOK /\ StreamOK
  BY DEF ConnectionInv
<1>2. /\ Len(buf) \in Nat /\ (Len(buf) < 2 \/ Len(buf) >= 2)
      /\ \A i \in 1 .. Len(buf) : Stream[i] = buf[i]
  BY <1>1, StreamIs
<1>3. /\ Incomplete.is = "incomplete" /\ Malformed.is = "malformed"
  BY DEF Incomplete, Malformed
<1>4. Parse(buf).is = "parsed"
  BY DEF TakeResponse
<1>5. /\ Len(buf) >= 2 /\ 1 \in Starts /\ ~(Len(buf) < 2 + Stream[1].length)
      /\ Parse(buf) = Parsed(Stream[1].of, 2 + Stream[1].length,
                             Body(Stream[1].of, Stream[1].length))
  BY <1>1, <1>2, <1>3, <1>4, ParseFront
<1>6. 1 \in Begins
  BY <1>5 DEF Starts
<1>7. Stream[1].of \in 0 .. MaxRequests /\ Stream[1].length \in Nat
  BY <1>1, <1>6, BeginsAre
<1>8. buf[1] = Stream[1]
  <2>1. 1 \in 1 .. Len(buf)
    BY <1>2, <1>5
  <2> QED BY <1>2, <2>1
<1>9. /\ Parse(buf).of = Stream[1].of /\ Parse(buf).used = 2 + Stream[1].length
      /\ Parse(buf).body = Body(Stream[1].of, Stream[1].length)
  BY <1>5 DEF Parsed
<1>10. 2 + Stream[1].length \in 0 .. Len(buf)
  BY <1>2, <1>5, <1>7
<1>11. /\ buf' = SubSeq(buf, Parse(buf).used + 1, Len(buf)) /\ newest' = Parse(buf).of
       /\ returned' = [how |-> "answer", of |-> Parse(buf).of, body |-> Parse(buf).body,
                       whole |-> Parse(buf).body = Body(Parse(buf).of, buf[1].length)]
  BY DEF TakeResponse, Ends
<1>12. (Parse(buf).body = Body(Parse(buf).of, buf[1].length)) = TRUE
  BY <1>8, <1>9
<1> QED BY <1>5, <1>7, <1>9, <1>10, <1>11, <1>12

LEMMA TakeStep ==
    ASSUME ConnectionInv, TakeResponse PROVE ConnectionInv'
<1> DEFINE u == 2 + Stream[1].length    o == Stream[1].of
<1>1. RtspTypeOK /\ StreamOK /\ OrderOK /\ RequestOK /\ LastOK
  BY DEF ConnectionInv
<1>2. /\ 1 \in Starts /\ o \in 0 .. MaxRequests /\ u \in 0 .. Len(buf) /\ Stream[1].length \in Nat
      /\ buf' = SubSeq(buf, u + 1, Len(buf)) /\ newest' = o
      /\ returned' = [how |-> "answer", of |-> o, body |-> Body(o, Stream[1].length), whole |-> TRUE]
  BY Taken
<1>3. /\ client = "waiting" /\ client' = "idle" /\ cseq' = cseq /\ outbound' = outbound
      /\ inbound' = inbound /\ connected' = connected /\ replied' = replied /\ dropped' = dropped
  BY DEF TakeResponse
<1>4. u = 2 + Stream[1].length
  OBVIOUS
<1> HIDE DEF u, o
<1>5. /\ buf' \in Seq(Piece) /\ Len(Stream') = Len(Stream) - u
      /\ \A i \in 1 .. Len(Stream) - u : Stream'[i] = Stream[u + i]
      /\ DOMAIN Stream' = 1 .. Len(Stream) - u
      /\ (Stream' = <<>> <=> Len(Stream) = u)
  BY <1>1, <1>2, <1>3, TakeStream
<1>6. 1 \in Begins
  BY <1>2 DEF Starts
<1>7. /\ StreamOK' /\ u \in Nat /\ u > 1
      /\ \A i \in Begins' : u + i \in Begins /\ Stream'[i] = Stream[u + i] /\ i \in Nat /\ i >= 1
  BY <1>1, <1>4, <1>5, <1>6, TakeOK
<1>8. \A i \in Starts' : /\ u + i \in Starts /\ Stream'[i] = Stream[u + i]
                         /\ i \in Nat /\ 1 < u + i /\ Stream[1].of < Stream[u + i].of
  <2>1. \A i \in Starts' : i \in Begins' /\ Stream'[i].piece = "start"
    BY DEF Starts
  <2>2. \A i \in Starts' : u + i \in Starts /\ Stream'[i] = Stream[u + i] /\ i \in Nat
    BY <2>1, <1>7 DEF Starts
  <2>3. \A i \in Nat : 1 < u + i
    BY <1>7
  <2> QED BY <2>2, <2>3, <1>1, <1>2 DEF OrderOK
<1>9. Sent' = Sent /\ Pending' = Pending /\ Sent = cseq /\ Pending = cseq - replied
  BY <1>3 DEF Sent, Pending
<1>10. RtspTypeOK'
  <2>1. o \in 0 .. cseq
    <3>1. o <= cseq /\ o \in Nat /\ cseq \in Nat
      BY <1>1, <1>2, <1>6, <1>9, Counters DEF OrderOK, o
    <3> QED BY <3>1
  <2>2. Body(o, Stream[1].length) \in Seq(Piece)
    BY <1>2, BodyType
  <2>3. returned' \in [how: {"none", "answer", "error"}, of: 0..MaxRequests,
                       body: Seq(Piece), whole: BOOLEAN]
    BY <1>2, <2>2
  <2> QED BY <1>1, <1>2, <1>3, <1>5, <2>1, <2>3 DEF RtspTypeOK
<1>11. OrderOK'
  <2>1. newest' <= Sent'
    BY <1>1, <1>2, <1>9 DEF OrderOK, o
  <2>2. \A i \in Starts' : newest' < Stream'[i].of /\ Stream'[i].of <= Sent'
    BY <1>1, <1>2, <1>8, <1>9 DEF OrderOK, o
  <2>3. \A i, j \in Starts' : i < j => Stream'[i].of < Stream'[j].of
    <3> SUFFICES ASSUME NEW i \in Starts', NEW j \in Starts', i < j
                 PROVE  Stream'[i].of < Stream'[j].of
      OBVIOUS
    <3>1. u + i < u + j
      BY <1>7, <1>8
    <3> QED BY <3>1, <1>1, <1>8 DEF OrderOK
  <2>4. \A m \in DOMAIN outbound' :
          /\ newest' < outbound'[m].seq /\ outbound'[m].seq <= Sent'
          /\ \A i \in Starts' : Stream'[i].of < outbound'[m].seq
          /\ \A n \in DOMAIN outbound' : m < n => outbound'[m].seq < outbound'[n].seq
    BY <1>1, <1>2, <1>3, <1>8, <1>9 DEF OrderOK, o
  <2> QED BY <1>3, <2>1, <2>2, <2>3, <2>4 DEF OrderOK
<1>12. RequestOK'
  <2>1. CASE dropped
    BY <2>1, <1>1, <1>3, <1>9 DEF RequestOK
  <2>2. CASE ~dropped
    <3>1. /\ replied = cseq /\ outbound = <<>> /\ Len(Stream) = u
      BY <2>2, <1>1, <1>2, <1>4 DEF RequestOK
    <3>2. Stream' = <<>> /\ Len(Stream) - u = 0
      BY <3>1, <1>5, <1>7
    <3>3. Begins' = {}
      BY <3>2, <1>5 DEF Begins
    <3>4. 1 \notin Starts' /\ 1 \notin Begins'
      BY <3>3 DEF Starts
    <3>5. Pending = 0 /\ Len(outbound) = 0
      <4>1. cseq \in Nat
        BY <1>1, Counters
      <4> QED BY <4>1, <3>1, <1>9, EmptySeq
    <3> QED BY <3>1, <3>4, <3>5, <1>1, <1>3, <1>9 DEF RequestOK
  <2> QED BY <2>1, <2>2
<1>13. LastOK'
  BY <1>1, <1>2, <1>3 DEF LastOK, RequestOK, o
<1> QED BY <1>7, <1>10, <1>11, <1>12, <1>13 DEF ConnectionInv

\* The requests on their way, without the first.
LEMMA TailOutbound ==
    ASSUME RtspTypeOK, outbound # <<>>, outbound' = Tail(outbound)
    PROVE  /\ outbound' \in Seq([seq: 1..MaxRequests, whole: BOOLEAN])
           /\ Len(outbound') = Len(outbound) - 1 /\ Len(outbound) \in Nat /\ Len(outbound) >= 1
           /\ 1 \in DOMAIN outbound /\ Head(outbound) = outbound[1]
           /\ \A m \in DOMAIN outbound' : /\ m \in Nat /\ m >= 1 /\ m + 1 \in DOMAIN outbound
                                          /\ outbound'[m] = outbound[m + 1]
           /\ outbound' # <<>> => outbound'[Len(outbound')] = outbound[Len(outbound)]
<1> DEFINE S == [seq: 1..MaxRequests, whole: BOOLEAN]    l == Len(outbound)
<1>1. outbound \in Seq(S)
  BY DEF RtspTypeOK
<1>2. Head(outbound) = outbound[1]
  OBVIOUS
<1> HIDE DEF S
<1>3. /\ outbound' \in Seq(S) /\ Len(outbound') = l - 1 /\ l \in Nat /\ l # 0
      /\ \A i \in 1 .. Len(outbound') : outbound'[i] = outbound[i + 1]
  BY <1>1, HeadTailProperties, EmptySeq
<1>4. DOMAIN outbound' = 1 .. l - 1 /\ DOMAIN outbound = 1 .. l
  BY <1>1, <1>3, LenProperties
<1> HIDE DEF l
<1>5. /\ l >= 1 /\ 1 \in 1 .. l
      /\ \A m \in 1 .. l - 1 : m \in Nat /\ m >= 1 /\ m + 1 \in 1 .. l
  BY <1>3
<1>6. ASSUME outbound' # <<>> PROVE outbound'[Len(outbound')] = outbound[Len(outbound)]
  <2>1. Len(outbound') # 0
    BY <1>3, <1>6, EmptySeq
  <2>2. l - 1 \in 1 .. l - 1 /\ (l - 1) + 1 = l
    BY <2>1, <1>3
  <2>3. outbound'[l - 1] = outbound[(l - 1) + 1]
    BY <2>2, <1>3
  <2> QED BY <2>2, <2>3, <1>3 DEF l
<1> QED BY <1>2, <1>3, <1>4, <1>5, <1>6 DEF S, l

\* The receiver answers the first request on its way, well or not.
LEMMA AnswerStep ==
    \A h, k, l, n :
      /\ ConnectionInv /\ Appends(h, k, l, n) /\ inbound' \in Seq(Piece)
      /\ connected /\ outbound # <<>> /\ outbound' = Tail(outbound) /\ replied' = replied + 1
      /\ h.length = k /\ (h.piece = "garbage" => k = 0)
      /\ (h.piece = "start" => h.of = outbound[1].seq)
      /\ UNCHANGED <<cseq, client, buf, connected, returned, newest, dropped>>
      => ConnectionInv'
<1> TAKE h, k, l, n
<1>0. SUFFICES ASSUME ConnectionInv, Appends(h, k, l, n), inbound' \in Seq(Piece),
                      connected, outbound # <<>>, outbound' = Tail(outbound), replied' = replied + 1,
                      h.length = k, h.piece = "garbage" => k = 0,
                      h.piece = "start" => h.of = outbound[1].seq,
                      UNCHANGED <<cseq, client, buf, connected, returned, newest, dropped>>
               PROVE  ConnectionInv'
  OBVIOUS
<1>1. RtspTypeOK /\ StreamOK /\ OrderOK /\ RequestOK /\ LastOK
  BY <1>0 DEF ConnectionInv
<1>2. /\ cseq' = cseq /\ client' = client /\ buf' = buf /\ connected' = connected
      /\ returned' = returned /\ newest' = newest /\ dropped' = dropped
  BY <1>0
<1>3. /\ l = Len(Stream) /\ l \in Nat /\ k \in Nat /\ n = l + 2 + k /\ Len(Stream') = n
      /\ h.piece \in {"start", "garbage"} /\ Stream'[l + 1] = h
  BY <1>0 DEF Appends
<1>4. Stream = <<>> <=> l = 0
  BY <1>1, <1>3, StreamIs
<1>5. StreamOK'
  BY <1>0, <1>1, <1>4, ReplyOK
<1>6. /\ Begins' = Begins \cup {l + 1}
      /\ \A i \in Begins : Stream'[i] = Stream[i] /\ i \in 1 .. l
  BY <1>0, ReplyBegins
<1>7. /\ \A i \in Starts' : i \in Starts \/ (i = l + 1 /\ h.piece = "start")
      /\ \A i \in Starts : i \in Begins /\ i \in Starts' /\ Stream'[i] = Stream[i] /\ i \in 1 .. l
  BY <1>3, <1>6 DEF Starts
<1>8. /\ outbound' \in Seq([seq: 1..MaxRequests, whole: BOOLEAN])
      /\ Len(outbound') = Len(outbound) - 1 /\ Len(outbound) \in Nat /\ Len(outbound) >= 1
      /\ 1 \in DOMAIN outbound
      /\ \A m \in DOMAIN outbound' : /\ m \in Nat /\ m >= 1 /\ m + 1 \in DOMAIN outbound
                                     /\ outbound'[m] = outbound[m + 1]
      /\ outbound' # <<>> => outbound'[Len(outbound')] = outbound[Len(outbound)]
  BY <1>0, <1>1, TailOutbound
<1>9. Sent' = Sent /\ Pending' = Pending - 1 /\ Pending \in Int /\ Sent \in Int /\ Pending = Sent - replied
  <2>1. Sent' = Sent
    BY <1>2 DEF Sent
  <2>2. Pending = Sent - replied /\ Pending' = Sent' - replied'
    BY DEF Pending
  <2>3. Sent \in Int /\ replied \in Nat
    BY <1>1, Counters
  <2> QED BY <2>1, <2>2, <2>3, <1>0
<1>10. RtspTypeOK'
  <2>1. Len(outbound) <= Pending /\ Sent <= cseq /\ cseq \in Nat /\ replied \in Nat
    BY <1>1, Counters DEF RequestOK, Sent
  <2>2. replied + 1 \in 0 .. cseq
    BY <2>1, <1>8, <1>9
  <2> QED BY <2>2, <1>0, <1>1, <1>2, <1>8 DEF RtspTypeOK
<1>11. ASSUME NEW m \in DOMAIN outbound'
       PROVE  m + 1 \in DOMAIN outbound /\ 1 < m + 1 /\ outbound'[m] = outbound[m + 1]
  <2>1. m \in Nat /\ m >= 1 /\ m + 1 \in DOMAIN outbound /\ outbound'[m] = outbound[m + 1]
    BY <1>8
  <2> QED BY <2>1
<1>12. OrderOK'
  <2>1. ASSUME NEW i \in Starts' PROVE newest' < Stream'[i].of /\ Stream'[i].of <= Sent'
    <3>1. CASE i \in Starts
      BY <3>1, <1>1, <1>2, <1>7, <1>9 DEF OrderOK
    <3>2. CASE i = l + 1 /\ h.piece = "start"
      BY <3>2, <1>0, <1>1, <1>2, <1>3, <1>8, <1>9 DEF OrderOK
    <3> QED BY <1>7, <3>1, <3>2
  <2>2. ASSUME NEW i \in Starts', NEW j \in Starts', i < j PROVE Stream'[i].of < Stream'[j].of
    <3>1. CASE j \in Starts
      <4>1. i # l + 1
        <5>1. j \in 1 .. l
          BY <3>1, <1>7
        <5> QED BY <5>1, <2>2, <1>3
      <4>2. i \in Starts
        BY <4>1, <1>7
      <4> QED BY <3>1, <4>2, <2>2, <1>1, <1>7 DEF OrderOK
    <3>2. CASE j = l + 1 /\ h.piece = "start"
      <4>1. i \in Starts
        BY <3>2, <2>2, <1>3, <1>7
      <4>2. Stream'[i] = Stream[i] /\ Stream[i].of < outbound[1].seq
        BY <4>1, <1>1, <1>7, <1>8 DEF OrderOK
      <4> QED BY <4>2, <3>2, <1>0, <1>3
    <3> QED BY <1>7, <3>1, <3>2
  <2>3. ASSUME NEW m \in DOMAIN outbound'
        PROVE  /\ newest' < outbound'[m].seq /\ outbound'[m].seq <= Sent'
               /\ \A i \in Starts' : Stream'[i].of < outbound'[m].seq
    <3>1. m + 1 \in DOMAIN outbound /\ 1 < m + 1 /\ outbound'[m] = outbound[m + 1]
      BY <1>11
    <3>2. newest < outbound[m + 1].seq /\ outbound[m + 1].seq <= Sent
      BY <3>1, <1>1 DEF OrderOK
    <3>3. outbound[1].seq < outbound[m + 1].seq
      BY <3>1, <1>1, <1>8 DEF OrderOK
    <3>4. \A i \in Starts : Stream[i].of < outbound[m + 1].seq
      BY <3>1, <1>1 DEF OrderOK
    <3>5. \A i \in Starts' : Stream'[i].of < outbound'[m].seq
      BY <3>1, <3>3, <3>4, <1>0, <1>3, <1>7
    <3> QED BY <3>1, <3>2, <3>5, <1>2, <1>9
  <2>4. ASSUME NEW m \in DOMAIN outbound', NEW p \in DOMAIN outbound', m < p
        PROVE  outbound'[m].seq < outbound'[p].seq
    <3>1. m + 1 \in DOMAIN outbound /\ p + 1 \in DOMAIN outbound /\ m \in Nat /\ p \in Nat
      BY <1>8
    <3>2. m + 1 < p + 1
      BY <3>1, <2>4
    <3>3. outbound[m + 1].seq < outbound[p + 1].seq
      BY <3>1, <3>2, <1>1 DEF OrderOK
    <3> QED BY <3>3, <1>8
  <2>5. client' = "waiting" /\ outbound' # <<>> => outbound'[Len(outbound')].seq = cseq'
    BY <1>0, <1>1, <1>2, <1>8 DEF OrderOK
  <2>6. newest' <= Sent'
    BY <1>1, <1>2, <1>9 DEF OrderOK
  <2> QED BY <2>1, <2>2, <2>3, <2>4, <2>5, <2>6 DEF OrderOK
<1>13. Len(outbound') <= Pending'
  <2>1. Len(outbound) <= Pending
    BY <1>1 DEF RequestOK
  <2> QED BY <2>1, <1>8, <1>9
<1>14. n # 0 /\ Stream' # <<>>
  <2>1. n # 0
    BY <1>3
  <2> QED BY <2>1, <1>3, EmptySeq
<1>15. ASSUME ~dropped, Stream = <<>>
       PROVE  /\ client = "waiting" /\ Pending = 1 /\ Len(outbound) = 1 /\ replied + 1 = cseq
              /\ outbound[1].seq = cseq
  <2>1. Len(outbound) = Pending /\ Pending = IF client = "waiting" THEN 1 ELSE 0
    BY <1>15, <1>0, <1>1 DEF RequestOK
  <2>2. client = "waiting" /\ Pending = 1 /\ Len(outbound) = 1
    BY <2>1, <1>8
  <2>3. replied + 1 = cseq
    <3>1. Pending = cseq - replied
      BY <2>2 DEF Pending, Sent
    <3>2. cseq \in Nat /\ replied \in Nat
      BY <1>1, Counters
    <3> QED BY <2>2, <3>1, <3>2
  <2>4. outbound[1].seq = cseq
    BY <2>2, <1>0, <1>1 DEF OrderOK
  <2> QED BY <2>2, <2>3, <2>4
<1>16. ASSUME ~dropped, 1 \in Starts' PROVE Stream = <<>>
  <2>1. CASE l = 0
    BY <2>1, <1>4
  <2>2. CASE l # 0
    <3>1. 1 # l + 1
      BY <2>2, <1>3
    <3>2. 1 \in Starts
      BY <3>1, <1>7, <1>16
    <3> QED BY <3>2, <1>0, <1>1, <1>16 DEF RequestOK
  <2> QED BY <2>1, <2>2
<1>17. RequestOK'
  <2>1. CASE dropped
    BY <2>1, <1>2, <1>13 DEF RequestOK
  <2>2. CASE ~dropped
    <3>1. \A m \in DOMAIN outbound' : outbound'[m].whole
      BY <2>2, <1>1, <1>8 DEF RequestOK
    <3>2. ASSUME 1 \in Starts'
          PROVE  /\ client' = "waiting" /\ replied' = cseq' /\ outbound' = <<>>
                 /\ Stream'[1].of = cseq' /\ Len(Stream') = 2 + Stream'[1].length
      <4>1. Stream = <<>>
        BY <2>2, <3>2, <1>16
      <4>2. l = 0 /\ l + 1 = 1
        BY <4>1, <1>4
      <4>3. h.piece = "start"
        BY <3>2, <4>2, <1>7
      <4>4. /\ client = "waiting" /\ Len(outbound) = 1 /\ replied + 1 = cseq
            /\ outbound[1].seq = cseq
        BY <2>2, <4>1, <1>15
      <4>5. outbound' = <<>>
        <5>1. Len(outbound') = 0
          BY <4>4, <1>8
        <5> QED BY <5>1, <1>8, EmptySeq
      <4>6. Stream'[1] = h /\ n = 2 + h.length
        <5>1. Stream'[1] = h
          BY <4>2, <1>3
        <5>2. n = 2 + k
          BY <4>2, <1>3
        <5> QED BY <5>1, <5>2, <1>0
      <4> QED BY <4>3, <4>4, <4>5, <4>6, <1>0, <1>2, <1>3
    <3>3. ASSUME 1 \in Begins' \ Starts' PROVE client' = "waiting" \/ Len(buf') >= 2
      <4>1. CASE Stream = <<>>
        BY <2>2, <4>1, <1>2, <1>15
      <4>2. CASE Stream # <<>>
        <5>1. l # 0
          BY <4>2, <1>4
        <5>2. 1 # l + 1
          BY <5>1, <1>3
        <5>3. 1 \in Begins \ Starts
          BY <5>2, <3>3, <1>6, <1>7
        <5> QED BY <2>2, <5>3, <1>1, <1>2 DEF RequestOK
      <4> QED BY <4>1, <4>2
    <3> QED BY <3>1, <3>2, <3>3, <1>13, <1>14 DEF RequestOK
  <2> QED BY <2>1, <2>2
<1>18. LastOK'
  BY <1>1, <1>2 DEF LastOK
<1> QED BY <1>5, <1>10, <1>12, <1>17, <1>18 DEF ConnectionInv

\* The pieces of a response.
LEMMA ResponseIs ==
    \A n \in 0 .. MaxRequests, k \in Nat :
        /\ Response(n, k) \in Seq(Piece) /\ Len(Response(n, k)) = 2 + k
        /\ Response(n, k)[1] = Start(n, k) /\ Response(n, k)[2] = Blank
        /\ \A j \in 1 .. k : Response(n, k)[2 + j] = Part(n)
<1> TAKE n \in 0 .. MaxRequests, k \in Nat
<1> DEFINE a == <<Start(n, k), Blank>>    b == Body(n, k)
<1>1. Start(n, k) \in Piece /\ Blank \in Piece
  BY RtspAssumption DEF Start, Blank, Piece
<1>2. a \in Seq(Piece) /\ Len(a) = 2 /\ a[1] = Start(n, k) /\ a[2] = Blank
  BY <1>1
<1>3. b \in Seq(Piece) /\ Len(b) = k /\ \A i \in 1 .. k : b[i] = Part(n)
  BY BodyType
<1>4. Response(n, k) = a \o b
  BY DEF Response
<1> HIDE DEF a, b
<1>5. /\ Response(n, k) \in Seq(Piece) /\ Len(Response(n, k)) = 2 + k
      /\ \A i \in 1 .. 2 + k : Response(n, k)[i] = IF i <= 2 THEN a[i] ELSE b[i - 2]
  <2>1. a \in Seq(Piece) /\ b \in Seq(Piece) /\ Len(a) = 2 /\ Len(b) = k
    BY <1>2, <1>3
  <2>2. /\ a \o b \in Seq(Piece) /\ Len(a \o b) = Len(a) + Len(b)
        /\ \A i \in 1 .. Len(a) + Len(b) :
             (a \o b)[i] = IF i <= Len(a) THEN a[i] ELSE b[i - Len(a)]
    BY <2>1, ConcatProperties
  <2> QED BY <2>1, <2>2, <1>4
<1>6. /\ 1 \in 1 .. 2 + k /\ 2 \in 1 .. 2 + k /\ 1 <= 2 /\ 2 <= 2
      /\ \A j \in 1 .. k : 2 + j \in 1 .. 2 + k /\ ~(2 + j <= 2) /\ (2 + j) - 2 = j
  OBVIOUS
<1> QED BY <1>2, <1>3, <1>5, <1>6

\* What the receiver sends comes at the end of the stream.
LEMMA SentAppends ==
    ASSUME RtspTypeOK, NEW r \in Seq(Piece), NEW h, NEW k \in Nat, Len(r) = 2 + k, r[1] = h, r[2] = Blank,
           \A j \in 1 .. k : r[2 + j] = Part(h.of), h.piece \in {"start", "garbage"},
           inbound' = inbound \o r, buf' = buf
    PROVE  inbound' \in Seq(Piece) /\ Appends(h, k, Len(Stream), Len(Stream) + 2 + k)
<1> DEFINE l == Len(Stream)
<1>1. l \in Nat /\ DOMAIN Stream = 1 .. l
  BY StreamIs
<1>2. /\ inbound' \in Seq(Piece) /\ Len(Stream') = l + Len(r)
      /\ \A i \in 1 .. l : Stream'[i] = Stream[i]
      /\ \A i \in 1 .. Len(r) : Stream'[l + i] = r[i]
      /\ DOMAIN Stream' = 1 .. l + Len(r)
  BY ReplyStream
<1> HIDE DEF l
<1>3. /\ l + (2 + k) = l + 2 + k /\ 1 \in 1 .. 2 + k /\ 2 \in 1 .. 2 + k
      /\ \A j \in 1 .. k : 2 + j \in 1 .. 2 + k /\ l + (2 + j) = l + 2 + j
  BY <1>1
<1>4. Stream'[l + 1] = h /\ Stream'[l + 2] = Blank /\ \A j \in 1 .. k : Stream'[l + 2 + j] = Part(h.of)
  BY <1>2, <1>3
<1>5. Len(Stream') = l + 2 + k /\ DOMAIN Stream' = 1 .. l + 2 + k
  BY <1>2, <1>3
<1>6. Appends(h, k, l, l + 2 + k)
  <2> DEFINE n == l + 2 + k
  <2>1. n = l + 2 + k /\ Len(Stream') = n /\ DOMAIN Stream' = 1 .. n
    BY <1>5
  <2> HIDE DEF n
  <2>2. Appends(h, k, l, n)
    BY <2>1, <1>1, <1>2, <1>4 DEF Appends, l
  <2> QED BY <2>2 DEF n
<1> QED BY <1>2, <1>6 DEF l

LEMMA ReplyStep ==
    ASSUME ConnectionInv, NEW k \in 0 .. MaxBody, Reply(k) PROVE ConnectionInv'
<1> DEFINE q == Head(outbound).seq    h == Start(q, k)    r == Response(q, k)
<1>1. RtspTypeOK
  BY DEF ConnectionInv
<1>2. /\ connected /\ outbound # <<>> /\ inbound' = inbound \o r /\ outbound' = Tail(outbound)
      /\ replied' = replied + 1 /\ buf' = buf
      /\ UNCHANGED <<cseq, client, buf, connected, returned, newest, dropped>>
  BY DEF Reply
<1>3. q \in 0 .. MaxRequests /\ q = outbound[1].seq
  <2>1. Head(outbound) = outbound[1] /\ outbound[1] \in [seq: 1..MaxRequests, whole: BOOLEAN]
    <3>1. 1 \in DOMAIN outbound /\ Head(outbound) = outbound[1]
      BY <1>1, <1>2, TailOutbound
    <3> QED BY <1>1, <3>1, ElementOfSeq, Counters DEF RtspTypeOK
  <2> QED BY <2>1
<1>4. k \in Nat
  BY RtspAssumption
<1> HIDE DEF q
<1>5. h.piece = "start" /\ h.of = q /\ h.length = k
  BY DEF Start
<1>6. r \in Seq(Piece) /\ Len(r) = 2 + k /\ r[1] = h /\ r[2] = Blank /\ \A j \in 1 .. k : r[2 + j] = Part(h.of)
  <2>1. /\ r \in Seq(Piece) /\ Len(r) = 2 + k /\ r[1] = h /\ r[2] = Blank
        /\ \A j \in 1 .. k : r[2 + j] = Part(q)
    <3>1. q \in 0 .. MaxRequests
      BY <1>3
    <3> QED BY <3>1, <1>4, ResponseIs, Zenon
  <2> HIDE DEF r, h
  <2> QED BY <2>1, <1>5
<1> HIDE DEF h, r
<1>7. inbound' \in Seq(Piece) /\ Appends(h, k, Len(Stream), Len(Stream) + 2 + k)
  BY <1>1, <1>2, <1>4, <1>5, <1>6, SentAppends
<1>8. h.piece = "garbage" => k = 0
  BY <1>5
<1> QED BY <1>8,  <1>2, <1>3, <1>5, <1>7, AnswerStep

LEMMA GarbageStep ==
    ASSUME ConnectionInv, ReplyGarbage PROVE ConnectionInv'
<1> DEFINE r == <<Garbage, Blank>>
<1>1. RtspTypeOK
  BY DEF ConnectionInv
<1>2. /\ connected /\ outbound # <<>> /\ inbound' = inbound \o r /\ outbound' = Tail(outbound)
      /\ replied' = replied + 1 /\ buf' = buf
      /\ UNCHANGED <<cseq, client, buf, connected, returned, newest, dropped>>
  BY DEF ReplyGarbage
<1>3. Garbage.piece = "garbage" /\ Garbage.of = 0 /\ Garbage.length = 0
  BY DEF Garbage
<1>4. Garbage \in Piece /\ Blank \in Piece
  BY RtspAssumption DEF Garbage, Blank, Piece
<1>5. r \in Seq(Piece) /\ Len(r) = 2 + 0 /\ r[1] = Garbage /\ r[2] = Blank
      /\ \A j \in 1 .. 0 : r[2 + j] = Part(Garbage.of)
  BY <1>4
<1> HIDE DEF r
<1>6. inbound' \in Seq(Piece) /\ Appends(Garbage, 0, Len(Stream), Len(Stream) + 2 + 0)
  BY <1>1, <1>2, <1>3, <1>5, SentAppends
<1>7. Garbage.piece # "start"
  BY <1>3
<1> QED BY <1>2, <1>3, <1>6, <1>7, AnswerStep

LEMMA MisreadStep ==
    ASSUME ConnectionInv, Misread PROVE ConnectionInv'
<1> DEFINE S == [seq: 1..MaxRequests, whole: BOOLEAN]    l == Len(outbound)
<1>1. RtspTypeOK /\ StreamOK /\ OrderOK /\ RequestOK /\ LastOK
  BY DEF ConnectionInv
<1>2. /\ cseq' = cseq /\ client' = client /\ buf' = buf /\ inbound' = inbound
      /\ connected' = connected /\ replied' = replied
      /\ returned' = returned /\ newest' = newest /\ dropped' = dropped
      /\ l > 1 /\ ~Head(outbound).whole /\ outbound' = Tail(Tail(outbound))
  BY DEF Misread
<1>3. Stream' = Stream /\ Begins' = Begins /\ Starts' = Starts /\ StreamOK'
  <2>1. Stream' = Stream
    BY <1>2 DEF Stream
  <2> QED BY <1>1, <2>1, SameStream
<1>4. Sent' = Sent /\ Pending' = Pending
  BY <1>2 DEF Sent, Pending
<1>5. outbound \in Seq(S) /\ l \in Nat /\ outbound # <<>> /\ DOMAIN outbound = 1 .. l
  BY <1>1, <1>2, LenProperties, EmptySeq DEF RtspTypeOK
<1>6. Head(outbound) = outbound[1]
  OBVIOUS
<1> DEFINE t == Tail(outbound)
<1> HIDE DEF S
<1>7. t \in Seq(S) /\ Len(t) = l - 1 /\ \A i \in 1 .. Len(t) : t[i] = outbound[i + 1]
  BY <1>5, HeadTailProperties
<1>8. outbound' = Tail(t)
  BY <1>2
<1> HIDE DEF t
<1>9. t # <<>>
  BY <1>2, <1>5, <1>7, EmptySeq
<1>10. /\ outbound' \in Seq(S) /\ Len(outbound') = Len(t) - 1
       /\ \A i \in 1 .. Len(outbound') : outbound'[i] = t[i + 1]
  BY <1>7, <1>8, <1>9, HeadTailProperties
<1>11. DOMAIN outbound' = 1 .. Len(outbound') /\ (outbound' # <<>> => Len(outbound') # 0)
  BY <1>10, LenProperties, EmptySeq
<1> HIDE DEF l
<1>12. Len(outbound') = l - 2 /\ l - 2 \in Nat
  BY <1>2, <1>5, <1>7, <1>10
<1>13. \A m \in DOMAIN outbound' : /\ m \in Nat /\ m >= 1 /\ m + 2 \in DOMAIN outbound
                                   /\ outbound'[m] = outbound[m + 2]
  <2> SUFFICES ASSUME NEW m \in 1 .. l - 2
               PROVE  /\ m \in Nat /\ m >= 1 /\ m + 2 \in 1 .. l /\ outbound'[m] = outbound[m + 2]
    BY <1>5, <1>11, <1>12
  <2>1. m \in Nat /\ m >= 1 /\ m + 2 \in 1 .. l /\ m + 1 \in 1 .. l - 1 /\ (m + 1) + 1 = m + 2
    BY <1>5, <1>12
  <2>2. outbound'[m] = t[m + 1]
    BY <1>10, <1>12
  <2>3. t[m + 1] = outbound[(m + 1) + 1]
    BY <2>1, <1>7
  <2> QED BY <2>1, <2>2, <2>3
<1>14. outbound' # <<>> => outbound'[Len(outbound')] = outbound[Len(outbound)]
  <2> SUFFICES ASSUME outbound' # <<>> PROVE outbound'[Len(outbound')] = outbound[Len(outbound)]
    OBVIOUS
  <2>1. l - 2 # 0
    BY <1>11, <1>12
  <2>2. l - 2 \in 1 .. l - 2 /\ (l - 2) + 2 = l
    BY <2>1, <1>5, <1>12
  <2> DEFINE m == l - 2
  <2>3. m \in DOMAIN outbound' /\ m + 2 = l /\ Len(outbound') = m
    BY <2>2, <1>11, <1>12
  <2> HIDE DEF m
  <2> QED BY <2>3, <1>13 DEF l
<1>15. RtspTypeOK'
  BY <1>1, <1>2, <1>10 DEF RtspTypeOK, S
<1>16. OrderOK'
  <2>1. ASSUME NEW m \in DOMAIN outbound', NEW p \in DOMAIN outbound', m < p
        PROVE  outbound'[m].seq < outbound'[p].seq
    <3>1. m + 2 < p + 2
      BY <1>13, <2>1
    <3> QED BY <3>1, <1>1, <1>13 DEF OrderOK
  <2>2. ASSUME NEW m \in DOMAIN outbound'
        PROVE  /\ newest < outbound'[m].seq /\ outbound'[m].seq <= Sent
               /\ \A i \in Starts : Stream[i].of < outbound'[m].seq
    BY <1>1, <1>13 DEF OrderOK
  <2>3. client = "waiting" /\ outbound' # <<>> => outbound'[Len(outbound')].seq = cseq
    BY <1>1, <1>5, <1>14 DEF OrderOK
  <2>4. /\ newest <= Sent
        /\ \A i \in Starts : newest < Stream[i].of /\ Stream[i].of <= Sent
        /\ \A i, j \in Starts : i < j => Stream[i].of < Stream[j].of
    BY <1>1 DEF OrderOK
  <2> QED BY <2>1, <2>2, <2>3, <2>4, <1>2, <1>3, <1>4 DEF OrderOK
<1>17. dropped
  <2>1. 1 \in DOMAIN outbound
    BY <1>2, <1>5
  <2> QED BY <2>1, <1>1, <1>2, <1>6 DEF RequestOK
<1>18. RequestOK' /\ LastOK'
  <2>1. l <= Pending /\ Pending \in Int
    BY <1>1, Counters DEF RequestOK, l
  <2>2. Len(outbound') <= Pending
    BY <2>1, <1>5, <1>12
  <2> QED BY <2>2, <1>1, <1>2, <1>4, <1>17 DEF RequestOK, LastOK
<1> QED BY <1>3, <1>15, <1>16, <1>18 DEF ConnectionInv

LEMMA ConnectionInit ==
    ASSUME RtspInit PROVE ConnectionInv
<1>1. <<>> \in Seq(Piece) /\ <<>> \in Seq([seq: 1..MaxRequests, whole: BOOLEAN]) /\ Len(<<>>) = 0
  BY EmptySeq
<1>2. returned \in [how: {"none", "answer", "error"}, of: 0..MaxRequests, body: Seq(Piece), whole: BOOLEAN]
  <2>1. 0 \in 0 .. MaxRequests
    BY RtspAssumption
  <2> QED BY <1>1, <2>1 DEF RtspInit
<1>3. RtspTypeOK
  <2>1. /\ outbound \in Seq([seq: 1..MaxRequests, whole: BOOLEAN])
        /\ inbound \in Seq(Piece) /\ buf \in Seq(Piece)
    BY <1>1 DEF RtspInit
  <2>2. /\ cseq \in 0..MaxRequests /\ client \in {"idle", "writing", "waiting"}
        /\ replied \in 0..cseq /\ newest \in 0..cseq
    <3>1. cseq = 0 /\ replied = 0 /\ newest = 0 /\ client = "idle"
      BY DEF RtspInit
    <3> QED BY <3>1, RtspAssumption
  <2>3. connected \in BOOLEAN /\ dropped \in BOOLEAN
    BY DEF RtspInit
  <2> QED BY <1>2, <2>1, <2>2, <2>3 DEF RtspTypeOK
<1>4. Stream = <<>> /\ DOMAIN Stream = 1 .. 0
  <2>1. Len(Stream) = Len(buf) + Len(inbound) /\ DOMAIN Stream = 1 .. Len(Stream) /\ (Stream = <<>> <=> Len(Stream) = 0)
    BY <1>3, StreamIs
  <2>2. Len(buf) = 0 /\ Len(inbound) = 0
    BY <1>1 DEF RtspInit
  <2> QED BY <2>1, <2>2
<1>5. Begins = {} /\ Starts = {}
  BY <1>4 DEF Begins, Starts
<1>6. DOMAIN outbound = {} /\ Len(outbound) = 0
  BY <1>1 DEF RtspInit
<1>7. Sent = 0 /\ Pending = 0
  BY DEF Sent, Pending, RtspInit
<1> QED BY <1>3, <1>4, <1>5, <1>6, <1>7 DEF ConnectionInv, StreamOK, OrderOK, RequestOK, LastOK, RtspInit

LEMMA ConnectionStep ==
    ConnectionInv /\ [RtspNext]_rtspVars => ConnectionInv'
<1> SUFFICES ASSUME ConnectionInv, [RtspNext]_rtspVars PROVE ConnectionInv'
  OBVIOUS
<1>1. CASE Send
  BY <1>1, SendStep
<1>2. CASE Written
  BY <1>2, WrittenStep
<1>3. CASE WriteFails
  BY <1>3, WriteFailsStep
<1>4. CASE DropWhileWaiting
  BY <1>4, DropWaitingStep
<1>5. CASE \E some \in BOOLEAN : DropWhileWriting(some)
  BY <1>5, DropWritingStep
<1>6. CASE TakeResponse
  BY <1>6, TakeStep
<1>7. CASE ParseFails
  BY <1>7, GiveUpStep DEF ParseFails
<1>8. CASE ReadEof
  BY <1>8, GiveUpStep DEF ReadEof
<1>9. CASE \E n \in 1..Len(inbound) : ReadSome(n)
  BY <1>9, ReadSomeStep
<1>10. CASE \E k \in 0..MaxBody : Reply(k)
  BY <1>10, ReplyStep
<1>11. CASE ReplyGarbage
  BY <1>11, GarbageStep
<1>12. CASE Misread
  BY <1>12, MisreadStep
<1>13. CASE Close
  BY <1>13, CloseStep
<1>14. CASE UNCHANGED rtspVars
  <2>1. Stream' = Stream
    BY <1>14 DEF Stream, rtspVars
  <2>2. Begins' = Begins /\ Starts' = Starts /\ StreamOK'
    BY <2>1, SameStream DEF ConnectionInv
  <2>3. Sent' = Sent /\ Pending' = Pending
    BY <1>14 DEF Sent, Pending, rtspVars
  <2>4. RtspTypeOK'
    BY <1>14 DEF ConnectionInv, RtspTypeOK, rtspVars
  <2>5. OrderOK' /\ LastOK'
    BY <1>14, <2>1, <2>2, <2>3 DEF ConnectionInv, OrderOK, LastOK, rtspVars
  <2>6. RequestOK'
    BY <1>14, <2>1, <2>2, <2>3 DEF ConnectionInv, RequestOK, rtspVars
  <2> QED BY <2>2, <2>4, <2>5, <2>6 DEF ConnectionInv
<1> QED BY <1>1, <1>2, <1>3, <1>4, <1>5, <1>6, <1>7, <1>8, <1>9, <1>10, <1>11, <1>12, <1>13, <1>14
        DEF RtspNext

\* When the answer to the request that waits has arrived, the parser says so.
LEMMA ArrivedIsSeen ==
    ASSUME ConnectionInv, ~dropped, client = "waiting", replied = cseq, inbound = <<>>
    PROVE  Parse(buf).is # "incomplete"
<1>1. RtspTypeOK /\ StreamOK /\ RequestOK
  BY DEF ConnectionInv
<1>2. cseq \in Nat
  BY <1>1, Counters
<1>3. Stream # <<>>
  BY <1>1, <1>2 DEF RequestOK
<1>4. 1 \in Begins
  BY <1>1, <1>3 DEF StreamOK
<1>5. Len(Stream) = Len(buf) /\ Len(buf) \in Nat
  BY <1>1, StreamIs, EmptySeq
<1>6. Stream[1].length \in Nat /\ 1 + 1 + Stream[1].length <= Len(Stream)
  BY <1>1, <1>4, BeginsAre
<1>7. Len(buf) >= 2 /\ ~(Len(buf) < 2 + Stream[1].length)
  BY <1>5, <1>6
<1>8. \/ Parse(buf) = Malformed
      \/ Parse(buf) = Parsed(Stream[1].of, 2 + Stream[1].length, Body(Stream[1].of, Stream[1].length))
  BY <1>1, <1>7, ParseFront
<1> QED BY <1>8 DEF Malformed, Parsed

\* The connection's invariant: the stream that the client reads is one whole response
\* after another, responses and requests on their way are in order of CSeq, and as long
\* as no request was dropped the answer to each request is the one that is returned.
THEOREM SpecRtspInv == RtspSpec => []RtspInv
<1>1. RtspInit => ConnectionInv
  BY ConnectionInit
<1>2. ConnectionInv /\ [RtspNext]_rtspVars => ConnectionInv'
  BY ConnectionStep
<1>3. ConnectionInv => RtspInv
  BY ArrivedIsSeen DEF RtspInv, ConnectionInv, OwnAnswer, LastOK
<1> QED BY <1>1, <1>2, <1>3, PTL DEF RtspSpec

\* A response that send() returns is the one to the request it sent, as long as no
\* request's future was dropped, and one that has arrived is not left unnoticed.
THEOREM SpecOwnAnswer == RtspSpec => []OwnAnswer
<1>1. RtspInv => OwnAnswer
  BY DEF RtspInv
<1> QED BY <1>1, SpecRtspInv, PTL

\* Whatever was dropped, no response is returned twice, out of order, or spliced from
\* two, and nothing is taken from a stream that can no longer be parsed.
THEOREM SpecAnswersInOrder == RtspSpec => AnswersInOrder
<1> DEFINE Step == /\ returned' # returned /\ returned'.how = "answer" =>
                        newest < returned'.of /\ returned'.whole
                   /\ Parse(buf).is = "malformed" =>
                        Parse(buf').is = "malformed" /\ newest' = newest
<1>1. RtspInit => ConnectionInv
  BY ConnectionInit
<1>2. ConnectionInv /\ [RtspNext]_rtspVars => ConnectionInv'
  BY ConnectionStep
<1>3. ConnectionInv /\ [RtspNext]_rtspVars => [Step]_rtspVars
  <2> SUFFICES ASSUME ConnectionInv, RtspNext PROVE Step
    OBVIOUS
  <2>1. CASE TakeResponse
    <3>1. newest < Stream[1].of
      BY <2>1, Taken DEF ConnectionInv, OrderOK
    <3>2. returned'.of = Stream[1].of /\ returned'.whole = TRUE
      BY <2>1, Taken
    <3>3. Parse(buf).is = "parsed"
      BY <2>1 DEF TakeResponse
    <3> QED BY <3>1, <3>2, <3>3
  <2>2. CASE \E n \in 1..Len(inbound) : ReadSome(n)
    <3>1. returned' = returned /\ Parse(buf).is = "incomplete"
      BY <2>2 DEF ReadSome
    <3> QED BY <3>1
  <2>3. CASE WriteFails \/ ParseFails \/ ReadEof
    <3>1. returned'.how = "error" /\ buf' = buf /\ newest' = newest
      BY <2>3 DEF WriteFails, ParseFails, ReadEof, Ends
    <3> QED BY <3>1
  <2>4. CASE \/ Send \/ Written \/ DropWhileWaiting \/ ReplyGarbage \/ Misread \/ Close
             \/ \E some \in BOOLEAN : DropWhileWriting(some)
             \/ \E k \in 0..MaxBody : Reply(k)
    <3>1. returned' = returned /\ buf' = buf /\ newest' = newest
      BY <2>4 DEF Send, Written, DropWhileWaiting, ReplyGarbage, Misread, Close,
                  DropWhileWriting, Reply
    <3> QED BY <3>1
  <2> QED BY <2>1, <2>2, <2>3, <2>4 DEF RtspNext
<1> QED BY <1>1, <1>2, <1>3, PTL DEF RtspSpec, AnswersInOrder

-----------------------------------------------------------------------------
(* The file server, for any connections, file sizes and Range headers.       *)

\* A header has a first range; the ends of a range are numbers, empty or not numbers.
LEMMA RangeType ==
    ASSUME NEW h \in RangeHeader
    PROVE  LET r == First(h) IN
             /\ r.from \in Nat \cup {Empty, Bad} /\ r.to \in Nat \cup {Empty, Bad}
             /\ r.dash \in BOOLEAN /\ (~r.dash => r.from = Empty /\ r.to = Empty)
<1>1. h.ranges \in Seq(ByteRange) /\ h.ranges # <<>>
  BY DEF RangeHeader
<1>2. h.ranges[1] \in ByteRange
  BY <1>1
<1> HIDE <1>1
<1>3. \A r \in ByteRange :
        /\ r.from \in Nat \cup {Empty, Bad} /\ r.to \in Nat \cup {Empty, Bad}
        /\ r.dash \in BOOLEAN /\ (~r.dash => r.from = Empty /\ r.to = Empty)
  BY DEF ByteRange, End
<1> QED BY <1>2, <1>3 DEF First

\* A range that is parsed is well-formed, lies in the file, and is what was asked for.
LEMMA ParsedIsWanted ==
    ASSUME NEW h \in RangeHeader, NEW total \in Nat, ParseRange(h, total) # NoRange
    PROVE  LET p == ParseRange(h, total) IN
             /\ Asks(h)
             /\ p.first \in Nat /\ p.last \in Nat /\ p.first <= p.last /\ p.last < total
             /\ p.first .. p.last = Wanted(First(h), total)
<1> DEFINE r == First(h)
           p == Span(r, total - 1)
<1>1. /\ total # 0 /\ h.form = "bytes" /\ r.dash /\ Bad \notin {r.from, r.to}
      /\ ~(r.from = Empty /\ r.to \in {Empty, 0})
  BY DEF ParseRange
<1>2. ~(p.first > p.last \/ p.first > total - 1) /\ ParseRange(h, total) = p
  BY <1>1 DEF ParseRange
<1>0. /\ r.from \in Nat \cup {Empty, Bad} /\ r.to \in Nat \cup {Empty, Bad}
  BY RangeType
<1> HIDE DEF r
<1>3. CASE r.from = Empty
  <2>1. r.to \in Nat \ {0}
    BY <1>0, <1>1, <1>3 DEF Empty, Bad
  <2>2. p.last = total - 1 /\ p.first = IF total < r.to THEN 0 ELSE total - r.to
    BY <1>3, <2>1 DEF Span
  <2>3. p.first \in Nat /\ p.first <= p.last
    BY <1>1, <2>1, <2>2
  <2>4. p.first .. p.last = {b \in 0 .. total - 1 : b >= total - r.to}
    BY <1>1, <2>1, <2>2
  <2>5. WellFormed(r)
    BY <1>1, <1>3, <2>1 DEF WellFormed, Empty, Bad
  <2> QED BY <1>1, <1>2, <1>3, <2>2, <2>3, <2>4, <2>5 DEF Wanted, Asks, r
<1>4. CASE r.from # Empty
  <2>1. r.from \in Nat /\ r.to \in Nat \cup {Empty}
    BY <1>0, <1>1, <1>4
  <2>2. p.first = r.from /\ p.last = IF r.to = Empty THEN total - 1 ELSE Lower(r.to, total - 1)
    BY <1>4 DEF Span
  <2>3. p.last \in Int /\ p.last <= total - 1 /\ p.first <= p.last
    BY <1>1, <1>2, <2>1, <2>2 DEF Lower, Empty
  <2>4. p.first .. p.last = Wanted(r, total)
    BY <1>1, <1>4, <2>1, <2>2 DEF Wanted, Lower, Empty
  <2>5. ~(r.to # Empty /\ r.from > r.to)
    BY <2>1, <2>2, <2>3, <1>1 DEF Lower, Empty
  <2>6. WellFormed(r)
    BY <1>1, <1>4, <2>5 DEF WellFormed
  <2> QED BY <1>1, <1>2, <2>1, <2>2, <2>3, <2>4, <2>6 DEF Asks, r
<1> QED BY <1>3, <1>4

\* A well-formed range of a file that is not empty is parsed or is unsatisfiable.
LEMMA NotParsed ==
    ASSUME NEW h \in RangeHeader, NEW total \in Nat, ParseRange(h, total) = NoRange, Asks(h)
    PROVE  total = 0 \/ Unsatisfiable(h, total)
<1> SUFFICES ASSUME total # 0, ~Unsatisfiable(h, total) PROVE FALSE
  OBVIOUS
<1> DEFINE r == First(h)
           p == Span(r, total - 1)
<1>1. /\ h.form = "bytes" /\ r.dash /\ Bad \notin {r.from, r.to} /\ {r.from, r.to} # {Empty}
      /\ ~(r.from # Empty /\ r.to # Empty /\ r.from > r.to)
  BY DEF Asks, WellFormed
<1>0. /\ r.from \in Nat \cup {Empty, Bad} /\ r.to \in Nat \cup {Empty, Bad}
  BY RangeType
<1>4. IF r.from = Empty THEN r.to # 0 ELSE ~(r.from # Bad /\ r.from >= total)
  BY <1>1 DEF Unsatisfiable
<1>5. ASSUME ~(r.from = Empty /\ r.to \in {Empty, 0}),
             ~(p.first > p.last \/ p.first > total - 1)
      PROVE  ParseRange(h, total) = p
  BY <1>1, <1>5 DEF ParseRange
<1> HIDE DEF r
<1>2. CASE r.from = Empty
  <2>1. r.to \in Nat \ {0}
    BY <1>0, <1>1, <1>2, <1>4
  <2>2. p.last = total - 1 /\ p.first = IF total < r.to THEN 0 ELSE total - r.to
    BY <1>2, <2>1 DEF Span
  <2>3. ~(p.first > p.last \/ p.first > total - 1) /\ p.last # -1
    BY <2>1, <2>2
  <2>4. ParseRange(h, total) = p
    BY <1>2, <1>5, <2>1, <2>3 DEF Empty
  <2> QED BY <2>3, <2>4 DEF NoRange
<1>3. CASE r.from # Empty
  <2>1. r.from \in Nat /\ r.to \in Nat \cup {Empty} /\ r.from < total
    BY <1>0, <1>1, <1>3, <1>4
  <2>2. p.first = r.from /\ p.last = IF r.to = Empty THEN total - 1 ELSE Lower(r.to, total - 1)
    BY <1>3 DEF Span
  <2>3. p.last \in Nat /\ ~(p.first > p.last \/ p.first > total - 1)
    BY <1>1, <1>3, <2>1, <2>2 DEF Lower, Empty
  <2>4. ParseRange(h, total) = p
    BY <1>3, <1>5, <2>3
  <2> QED BY <2>3, <2>4 DEF NoRange
<1> QED BY <1>2, <1>3

\* A request with the fields of a response filled in.
Denied(q, total) == [q EXCEPT !.at = "ended", !.status = 416, !.total = total]
Filled(q, at, total, status, first, length) ==
    [q EXCEPT !.at = at, !.total = total, !.status = status, !.first = first,
              !.length = length]

\* A request stays one when the fields of a response are filled in.
LEMMA FilledIn ==
    ASSUME NEW q \in Request, NEW at \in {"body", "ended"}, NEW total \in Int,
           NEW status \in {200, 206, 416}, NEW first \in Int, NEW length \in Int
    PROVE  Denied(q, total) \in Request /\ Filled(q, at, total, status, first, length) \in Request
<1> DEFINE b == [q EXCEPT !.at = "ended"]
           c == [b EXCEPT !.status = 416]
           d == [q EXCEPT !.at = at]
           e == [d EXCEPT !.total = total]
           f == [e EXCEPT !.status = status]
           g == [f EXCEPT !.first = first]
<1>1. b \in Request /\ d \in Request
  BY DEF Request
<1> HIDE DEF b, d
<1>2. c \in Request /\ e \in Request
  BY <1>1 DEF Request
<1> HIDE DEF c, e
<1>3. [c EXCEPT !.total = total] \in Request /\ f \in Request
  BY <1>2 DEF Request
<1> HIDE DEF f
<1>4. g \in Request
  BY <1>3 DEF Request
<1> HIDE DEF g
<1>5. [g EXCEPT !.length = length] \in Request
  BY <1>4 DEF Request
<1> QED BY <1>3, <1>5 DEF Denied, Filled, g, f, e, d, c, b

\* The headers of a response are those of RFC 7233, and its body lies in the file.
LEMMA AnswerIsOK ==
    ASSUME NEW q \in Request, q.at = "opened", ResponseOK(q), NEW total \in Nat
    PROVE  LET a == Answer(q, total) IN
             /\ a \in Request /\ a.at \in {"body", "ended"} /\ AnswerOK(a)
             /\ a.sent = 0 /\ a.head = q.head /\ ~a.shrunk /\ ~a.failed
             /\ a.length \in Nat /\ a.first \in Nat
             /\ a.status \in {200, 206} => a.first + a.length <= total /\ a.total = total
             /\ a.status \in {200, 206, 416}
             /\ a.status = 416 => a.at = "ended"
             /\ a.at = "body" => ~a.head /\ a.status \in {200, 206}
             /\ a.at = "ended" => a.head \/ a.status = 416
<1> DEFINE p == ParseRange(q.range, total)
           a == Answer(q, total)
<1>1. q.range \in RangeHeader /\ q.status = 0 /\ q.sent = 0 /\ q.length = 0 /\ q.first = 0
      /\ ~q.shrunk /\ ~q.failed /\ q.head \in BOOLEAN
  BY DEF Request, ResponseOK
<1>2. NoRange.first = 0 /\ NoRange.last = -1
  BY DEF NoRange
<1>3. CASE p = NoRange /\ Unsatisfiable(q.range, total)
  <2>1. a = [q EXCEPT !.at = "ended", !.status = 416, !.total = total]
    BY <1>3 DEF Answer
  <2>2. q.range.form = "bytes" /\ ~Satisfiable(First(q.range), total)
    <3>1. q.range.form = "bytes"
      BY <1>3 DEF Unsatisfiable
    <3>2. First(q.range).from # Empty => First(q.range).from >= total
      BY <1>3 DEF Unsatisfiable
    <3>3. First(q.range).from = Empty => First(q.range).to = 0
      BY <1>3 DEF Unsatisfiable
    <3>4. First(q.range).from # Empty => First(q.range).from \in Nat
      BY <1>1, <1>3, RangeType DEF Unsatisfiable, Empty, Bad
    <3> HIDE DEF p, a
    <3> QED BY <3>1, <3>2, <3>3, <3>4 DEF Satisfiable
  <2>3. a \in Request
    <3>1. Denied(q, total) \in Request
      BY FilledIn
    <3>2. a = Denied(q, total)
      BY <2>1 DEF Denied
    <3> QED BY <3>1, <3>2
  <2>4. a.at = "ended" /\ a.status = 416 /\ a.total = total /\ a.sent = 0 /\ a.shrunk = q.shrunk
        /\ a.failed = q.failed /\ a.head = q.head /\ a.length = 0 /\ a.first = 0 /\ a.range = q.range
    BY <1>1, <2>1 DEF Request
  <2> QED BY <1>1, <2>2, <2>3, <2>4 DEF AnswerOK
<1>4. CASE p = NoRange /\ ~Unsatisfiable(q.range, total)
  <2>1. a = [q EXCEPT !.at = IF q.head THEN "ended" ELSE "body", !.total = total,
                      !.status = 200, !.first = 0, !.length = total]
    BY <1>2, <1>4 DEF Answer
  <2>2. a \in Request
    <3> DEFINE at == IF q.head THEN "ended" ELSE "body"
    <3>1. at \in {"body", "ended"} /\ total \in Int /\ 200 \in {200, 206, 416}
      OBVIOUS
    <3>2. 0 \in Int /\ total \in Int
      BY <1>1
    <3> HIDE DEF at
    <3>3. Filled(q, at, total, 200, 0, total) \in Request
      BY <3>1, <3>2, FilledIn
    <3>4. a = Filled(q, at, total, 200, 0, total)
      BY <2>1 DEF at, Filled
    <3> QED BY <3>3, <3>4
  <2>3. a.status = 200 /\ a.total = total /\ a.sent = 0 /\ a.shrunk = q.shrunk
        /\ a.failed = q.failed /\ a.head = q.head /\ a.length = total /\ a.first = 0 /\ a.range = q.range
        /\ a.at = IF q.head THEN "ended" ELSE "body"
    BY <1>1, <2>1 DEF Request
  <2>4. Asks(q.range) => total = 0 /\ Satisfiable(First(q.range), 0)
    <3> SUFFICES ASSUME Asks(q.range) PROVE total = 0 /\ Satisfiable(First(q.range), 0)
      OBVIOUS
    <3>1. total = 0
      BY <1>1, <1>4, NotParsed
    <3>2. Satisfiable(First(q.range), 0)
      BY <1>1, <1>4, <3>1, RangeType DEF Unsatisfiable, Satisfiable, Asks, WellFormed, Empty, Bad
    <3> QED BY <3>1, <3>2
  <2> QED BY <1>1, <2>2, <2>3, <2>4 DEF AnswerOK
<1>5. CASE p # NoRange
  <2>1. a = [q EXCEPT !.at = IF q.head THEN "ended" ELSE "body", !.total = total,
                      !.status = 206, !.first = p.first, !.length = p.last - p.first + 1]
    BY <1>5 DEF Answer
  <2>2. /\ Asks(q.range)
        /\ p.first \in Nat /\ p.last \in Nat /\ p.first <= p.last /\ p.last < total
        /\ p.first .. p.last = Wanted(First(q.range), total)
    BY <1>1, <1>5, ParsedIsWanted
  <2> HIDE DEF p
  <2>3. a \in Request
    <3> DEFINE at == IF q.head THEN "ended" ELSE "body"
    <3>1. at \in {"body", "ended"} /\ total \in Int /\ 206 \in {200, 206, 416}
      OBVIOUS
    <3>2. p.first \in Int /\ p.last - p.first + 1 \in Int
      BY <2>2
    <3> HIDE DEF at
    <3>3. Filled(q, at, total, 206, p.first, p.last - p.first + 1) \in Request
      BY <3>1, <3>2, FilledIn
    <3>4. a = Filled(q, at, total, 206, p.first, p.last - p.first + 1)
      BY <2>1 DEF at, Filled
    <3> QED BY <3>3, <3>4
  <2>4. a.status = 206 /\ a.total = total /\ a.sent = 0 /\ a.shrunk = q.shrunk
        /\ a.failed = q.failed /\ a.head = q.head /\ a.length = p.last - p.first + 1 /\ a.first = p.first
        /\ a.range = q.range /\ a.at = IF q.head THEN "ended" ELSE "body"
    BY <1>1, <2>1 DEF Request
  <2>5. a.length > 0 /\ a.first + a.length - 1 = p.last
    BY <2>2, <2>4
  <2>6. AnswerOK(a)
    BY <2>2, <2>4, <2>5 DEF AnswerOK
  <2> QED BY <1>1, <2>2, <2>3, <2>4, <2>5, <2>6
<1> QED BY <1>3, <1>4, <1>5

-----------------------------------------------------------------------------
\* The invariant holds again when one request becomes another that is well formed.
LEMMA OneChanges ==
    ASSUME MediaInv, NEW c \in Connection, NEW q \in Request,
           req' = [req EXCEPT ![c] = q], UNCHANGED fileAndServer,
           ResponseOK(q), AnswerOK(q), BodyOK(q),
           server \in {"up", "stopping"} \/ q.at \in {"none", "ended"}
    PROVE  MediaInv'
<1>1. req \in [Connection -> Request]
  BY DEF MediaInv, MediaTypeOK
<1>2. \A d \in Connection : req'[d] = IF d = c THEN q ELSE req[d]
  BY <1>1
<1>0. linked' = linked /\ size' = size /\ server' = server
  BY DEF fileAndServer
<1>3. MediaTypeOK'
  BY <1>0, <1>1 DEF MediaInv, MediaTypeOK
<1>4. \A d \in Connection : ResponseOK(req'[d])
  BY <1>2 DEF MediaInv
<1>5. \A d \in Connection : ResponseOK(req[d])'
  BY <1>0, <1>4 DEF ResponseOK
<1>6. FirstRangeAsRfc' /\ BodyIsTheRange'
  BY <1>2 DEF MediaInv, FirstRangeAsRfc, BodyIsTheRange
<1>7. StoppedIsQuiet'
  BY <1>0, <1>2 DEF MediaInv, StoppedIsQuiet, Open
<1> QED BY <1>3, <1>5, <1>6, <1>7 DEF MediaInv

\* Nothing is disturbed where no request changes, the size stays, and a server that
\* comes to rest serves nobody.
LEMMA NoneChanges ==
    ASSUME MediaInv, UNCHANGED <<size, req>>, linked' \in BOOLEAN,
           server' \in {"off", "up", "stopping", "stopped"},
           server' \in {"off", "stopped"} => \A c \in Connection : ~Open(c)
    PROVE  MediaInv'
BY DEF MediaInv, MediaTypeOK, FirstRangeAsRfc, BodyIsTheRange, StoppedIsQuiet, Open, ResponseOK

-----------------------------------------------------------------------------
\* A connection that asks for nothing has a request of the right type.
LEMMA NoRequestType == NoRequest \in Request
<1>1. <<[dash |-> FALSE, from |-> Empty, to |-> Empty]>> \in Seq(ByteRange) \ {<<>>}
  BY DEF ByteRange
<1>2. NoRangeHeader \in RangeHeader
  BY <1>1 DEF NoRangeHeader, RangeHeader
<1> QED BY <1>2 DEF NoRequest, Request

\* Nothing has been asked in the initial state.
LEMMA InitOK == MediaInit => MediaInv
<1> SUFFICES ASSUME MediaInit PROVE MediaInv
  OBVIOUS
<1>1. NoRequest \in Request
  BY NoRequestType DEF NoRequest
<1>2. \A c \in Connection : req[c] = NoRequest
  BY DEF MediaInit
<1>3. ResponseOK(NoRequest) /\ AnswerOK(NoRequest) /\ BodyOK(NoRequest)
  BY DEF NoRequest, ResponseOK, AnswerOK, BodyOK
<1>4. NoRequest.at = "none"
  BY DEF NoRequest
<1>5. MediaTypeOK
  BY <1>1 DEF MediaInit, MediaTypeOK
<1>6. StoppedIsQuiet
  BY <1>2, <1>4 DEF StoppedIsQuiet, Open
<1> QED BY <1>2, <1>3, <1>5, <1>6 DEF MediaInv, FirstRangeAsRfc, BodyIsTheRange

\* Asking starts from a clean request.
LEMMA AskOK ==
    ASSUME MediaInv, NEW c \in Connection, NEW h \in RangeHeader, NEW head \in BOOLEAN,
           Ask(c, h, head)
    PROVE  MediaInv'
<1> DEFINE q == [NoRequest EXCEPT !.at = "asked", !.range = h, !.head = head]
           a == [NoRequest EXCEPT !.at = "asked"]
           b == [a EXCEPT !.range = h]
           d == [b EXCEPT !.head = head]
<1>1. /\ a \in Request /\ a.at = "asked" /\ a.status = 0 /\ a.sent = 0 /\ a.length = 0
      /\ a.first = 0 /\ ~a.shrunk /\ ~a.failed
  <2>1. /\ NoRequest \in Request /\ NoRequest.status = 0 /\ NoRequest.sent = 0
        /\ NoRequest.length = 0 /\ NoRequest.first = 0 /\ ~NoRequest.shrunk
        /\ ~NoRequest.failed
    BY NoRequestType DEF NoRequest
  <2> QED BY <2>1 DEF Request
<1>2. q = d
  OBVIOUS
<1> HIDE DEF a, q
<1>3. /\ b \in Request /\ b.at = "asked" /\ b.status = 0 /\ b.sent = 0 /\ b.length = 0
      /\ b.first = 0 /\ ~b.shrunk /\ ~b.failed
  BY <1>1 DEF Request
<1> HIDE DEF b
<1>4. /\ d \in Request /\ d.at = "asked" /\ d.status = 0 /\ d.sent = 0 /\ d.length = 0
      /\ d.first = 0 /\ ~d.shrunk /\ ~d.failed
  BY <1>3 DEF Request
<1> HIDE DEF d
<1>5. ResponseOK(q) /\ AnswerOK(q) /\ BodyOK(q)
  BY <1>2, <1>4 DEF ResponseOK, AnswerOK, BodyOK
<1>6. req' = [req EXCEPT ![c] = q] /\ UNCHANGED fileAndServer /\ server = "up"
  BY DEF Ask, q
<1> QED BY <1>2, <1>4, <1>5, <1>6, OneChanges

\* A file that is opened has no answer yet.
LEMMA OpenFileOK ==
    ASSUME MediaInv, NEW c \in Connection, OpenFile(c)
    PROVE  MediaInv'
<1>1. req[c] \in Request /\ ResponseOK(req[c]) /\ AnswerOK(req[c]) /\ BodyOK(req[c])
      /\ req[c].at = "asked"
  BY DEF MediaInv, MediaTypeOK, FirstRangeAsRfc, BodyIsTheRange, OpenFile
<1>2. server \in {"up", "stopping"}
  BY <1>1 DEF MediaInv, MediaTypeOK, StoppedIsQuiet, Open
<1> DEFINE q == [req[c] EXCEPT !.at = "opened"]
<1>3. q \in Request
  BY <1>1 DEF Request
<1>4. ResponseOK(q) /\ AnswerOK(q) /\ BodyOK(q)
  BY <1>1 DEF Request, ResponseOK, AnswerOK, BodyOK
<1>5. req' = [req EXCEPT ![c] = q] /\ UNCHANGED fileAndServer
  BY DEF OpenFile
<1> HIDE DEF q
<1> QED BY <1>2, <1>3, <1>4, <1>5, OneChanges

\* A 404 and a 500 announce nothing.
LEMMA FailsOK ==
    ASSUME MediaInv, NEW c \in Connection, OpenFails(c) \/ MetadataFails(c)
    PROVE  MediaInv'
<1>1. req[c] \in Request /\ ResponseOK(req[c]) /\ req[c].at \in {"asked", "opened"}
  BY DEF MediaInv, MediaTypeOK, OpenFails, MetadataFails
<1>2. /\ UNCHANGED fileAndServer
      /\ \/ req' = [req EXCEPT ![c] = [[req[c] EXCEPT !.at = "ended"] EXCEPT !.status = 404]]
         \/ req' = [req EXCEPT ![c] = [[req[c] EXCEPT !.at = "ended"] EXCEPT !.status = 500]]
  BY DEF OpenFails, MetadataFails
<1>7. PICK s \in {404, 500} :
        req' = [req EXCEPT ![c] = [[req[c] EXCEPT !.at = "ended"] EXCEPT !.status = s]]
  BY <1>2
<1> DEFINE e == [req[c] EXCEPT !.at = "ended"]
           q == [e EXCEPT !.status = s]
<1>3. e \in Request /\ e.at = "ended" /\ e.length = 0 /\ e.sent = 0
  BY <1>1 DEF Request, ResponseOK
<1>4. req' = [req EXCEPT ![c] = q]
  BY <1>7
<1> HIDE DEF e
<1>5. q \in Request /\ q.at = "ended" /\ q.status = s /\ q.length = 0 /\ q.sent = 0
  BY <1>3 DEF Request
<1> HIDE DEF q
<1>6. ResponseOK(q) /\ AnswerOK(q) /\ BodyOK(q)
  BY <1>5 DEF ResponseOK, AnswerOK, BodyOK
<1> QED BY <1>2, <1>4, <1>5, <1>6, OneChanges

\* The headers are the answer to the range, and the file has what they announce.
LEMMA RespondOK ==
    ASSUME MediaInv, NEW c \in Connection, Respond(c)
    PROVE  MediaInv'
<1>1. req[c] \in Request /\ ResponseOK(req[c]) /\ req[c].at = "opened" /\ size \in Nat
  BY MediaServerAssumption DEF MediaInv, MediaTypeOK, Respond
<1>2. server \in {"up", "stopping"}
  BY <1>1 DEF MediaInv, MediaTypeOK, StoppedIsQuiet, Open
<1> DEFINE a == Answer(req[c], size)
<1>3. /\ a \in Request /\ a.at \in {"body", "ended"} /\ AnswerOK(a)
      /\ a.sent = 0 /\ ~a.shrunk /\ ~a.failed /\ a.length \in Nat /\ a.first \in Nat
      /\ a.status \in {200, 206} => a.first + a.length <= size /\ a.total = size
      /\ a.at = "body" => ~a.head /\ a.status \in {200, 206}
      /\ a.at = "ended" => a.head \/ a.status = 416
  BY <1>1, AnswerIsOK
<1>4. req' = [req EXCEPT ![c] = a] /\ UNCHANGED fileAndServer
  BY DEF Respond
<1> HIDE DEF a
<1>5. ResponseOK(a) /\ BodyOK(a)
  BY <1>3 DEF ResponseOK, BodyOK
<1> QED BY <1>2, <1>3, <1>4, <1>5, OneChanges

\* A response may be marked as failed.
LEMMA Marked ==
    ASSUME NEW r \in Request, NEW b \in BOOLEAN
    PROVE  [r EXCEPT !.failed = b] \in Request
BY DEF Request

\* A response may be marked as failed and ended.
LEMMA FailedIn ==
    ASSUME NEW a \in Request
    PROVE  LET q == [[a EXCEPT !.at = "ended"] EXCEPT !.failed = TRUE] IN
             /\ q \in Request /\ q.at = "ended" /\ q.failed /\ q.sent = a.sent
             /\ q.length = a.length /\ q.first = a.first /\ q.total = a.total
             /\ q.status = a.status /\ q.range = a.range
<1> DEFINE e == [a EXCEPT !.at = "ended"]
           q == [e EXCEPT !.failed = TRUE]
<1>1. e \in Request
  BY DEF Request
<1>2. /\ e.at = "ended" /\ e.sent = a.sent /\ e.length = a.length /\ e.first = a.first
      /\ e.total = a.total /\ e.status = a.status /\ e.range = a.range
  BY DEF Request
<1> HIDE DEF e
<1>7. TRUE \in BOOLEAN
  OBVIOUS
<1>5. q \in Request
  BY <1>1, <1>7, Marked
<1>6. q.failed = TRUE
  BY <1>1 DEF Request
<1>3. q \in Request /\ q.failed
  BY <1>5, <1>6
<1>4. /\ q.at = e.at /\ q.sent = e.sent /\ q.length = e.length /\ q.first = e.first
      /\ q.total = e.total /\ q.status = e.status /\ q.range = e.range
  BY <1>1 DEF Request
<1> QED BY <1>2, <1>3, <1>4 DEF e

\* The headers of a range that cannot be sought are the same, and no body follows.
LEMMA SeekFailsOK ==
    ASSUME MediaInv, NEW c \in Connection, SeekFails(c)
    PROVE  MediaInv'
<1>1. req[c] \in Request /\ ResponseOK(req[c]) /\ req[c].at = "opened" /\ size \in Nat
  BY MediaServerAssumption DEF MediaInv, MediaTypeOK, SeekFails
<1> DEFINE a == Answer(req[c], size)
           q == [[a EXCEPT !.at = "ended"] EXCEPT !.failed = TRUE]
<1>2. /\ a \in Request /\ AnswerOK(a) /\ a.sent = 0 /\ a.length \in Nat /\ a.first \in Nat
      /\ a.status \in {200, 206} => a.first + a.length <= size /\ a.total = size
  BY <1>1, AnswerIsOK
<1>3. a.status = 206 /\ req' = [req EXCEPT ![c] = q] /\ UNCHANGED fileAndServer
  BY DEF SeekFails
<1>4. /\ q \in Request /\ q.at = "ended" /\ q.failed /\ q.sent = a.sent
      /\ q.length = a.length /\ q.first = a.first /\ q.total = a.total
      /\ q.status = a.status /\ q.range = a.range
  BY <1>2, FailedIn
<1> HIDE DEF a, q
<1>6. ResponseOK(q) /\ BodyOK(q)
  BY <1>2, <1>3, <1>4 DEF ResponseOK, BodyOK
<1>7. AnswerOK(q)
  BY <1>2, <1>4 DEF AnswerOK
<1> QED BY <1>3, <1>4, <1>6, <1>7, OneChanges

\* A byte more stays within the range.
LEMMA ReadOK ==
    ASSUME MediaInv, NEW c \in Connection, Read(c)
    PROVE  MediaInv'
<1>1. req[c] \in Request /\ ResponseOK(req[c]) /\ AnswerOK(req[c]) /\ BodyOK(req[c])
      /\ req[c].at = "body" /\ req[c].sent < req[c].length
  BY DEF MediaInv, MediaTypeOK, FirstRangeAsRfc, BodyIsTheRange, Read
<1>2. server \in {"up", "stopping"}
  BY <1>1 DEF MediaInv, MediaTypeOK, StoppedIsQuiet, Open
<1> DEFINE q == [req[c] EXCEPT !.sent = req[c].sent + 1]
<1>3. q \in Request
  BY <1>1 DEF Request
<1>4. ResponseOK(q) /\ AnswerOK(q) /\ BodyOK(q)
  BY <1>1 DEF Request, ResponseOK, AnswerOK, BodyOK
<1>5. req' = [req EXCEPT ![c] = q] /\ UNCHANGED fileAndServer
  BY DEF Read
<1> HIDE DEF q
<1> QED BY <1>2, <1>3, <1>4, <1>5, OneChanges

\* A body that ends at its length or at the end of the file was sent whole, unless the
\* file shrank under it.
LEMMA BodyEndsOK ==
    ASSUME MediaInv, NEW c \in Connection, BodyEnds(c)
    PROVE  MediaInv'
<1>1. req[c] \in Request /\ ResponseOK(req[c]) /\ AnswerOK(req[c]) /\ BodyOK(req[c])
      /\ req[c].at = "body" /\ size \in Nat
      /\ (req[c].sent = req[c].length \/ req[c].first + req[c].sent >= size)
  BY MediaServerAssumption DEF MediaInv, MediaTypeOK, FirstRangeAsRfc, BodyIsTheRange, BodyEnds
<1> DEFINE q == [req[c] EXCEPT !.at = "ended"]
<1>2. q \in Request
  BY <1>1 DEF Request
<1>3. ~req[c].shrunk => req[c].sent = req[c].length
  BY <1>1 DEF Request, ResponseOK, BodyOK
<1>4. ResponseOK(q) /\ AnswerOK(q) /\ BodyOK(q)
  BY <1>1, <1>3 DEF Request, ResponseOK, AnswerOK, BodyOK
<1>5. req' = [req EXCEPT ![c] = q] /\ UNCHANGED fileAndServer /\ q.at = "ended"
  BY <1>1 DEF BodyEnds, Request
<1> HIDE DEF q
<1> QED BY <1>2, <1>4, <1>5, OneChanges

\* A body whose file cannot be read ends where it is.
LEMMA ReadFailsOK ==
    ASSUME MediaInv, NEW c \in Connection, ReadFails(c)
    PROVE  MediaInv'
<1>1. req[c] \in Request /\ ResponseOK(req[c]) /\ AnswerOK(req[c]) /\ BodyOK(req[c])
      /\ req[c].at = "body"
  BY DEF MediaInv, MediaTypeOK, FirstRangeAsRfc, BodyIsTheRange, ReadFails
<1> DEFINE q == [[req[c] EXCEPT !.at = "ended"] EXCEPT !.failed = TRUE]
<1>2. req' = [req EXCEPT ![c] = q] /\ UNCHANGED fileAndServer
  BY DEF ReadFails
<1>4. /\ q \in Request /\ q.at = "ended" /\ q.failed /\ q.sent = req[c].sent
      /\ q.length = req[c].length /\ q.first = req[c].first /\ q.total = req[c].total
      /\ q.status = req[c].status /\ q.range = req[c].range
  BY <1>1, FailedIn
<1> HIDE DEF q
<1>5. ResponseOK(q) /\ BodyOK(q)
  BY <1>1, <1>4 DEF ResponseOK, BodyOK
<1>6. AnswerOK(q)
  BY <1>1, <1>4 DEF AnswerOK
<1> QED BY <1>2, <1>4, <1>5, <1>6, OneChanges

\* A connection that is closed leaves no request.
LEMMA HangUpOK ==
    ASSUME MediaInv, NEW c \in Connection, HangUp(c)
    PROVE  MediaInv'
<1>1. NoRequest \in Request /\ NoRequest.at = "none"
  BY NoRequestType DEF NoRequest
<1>2. ResponseOK(NoRequest) /\ AnswerOK(NoRequest) /\ BodyOK(NoRequest)
  BY DEF NoRequest, ResponseOK, AnswerOK, BodyOK
<1>3. req' = [req EXCEPT ![c] = NoRequest] /\ UNCHANGED fileAndServer
  BY DEF HangUp
<1> QED BY <1>1, <1>2, <1>3, OneChanges

\* A file that grows still has what was announced; one that shrinks marks the bodies.
LEMMA FileChangesOK ==
    ASSUME MediaInv, NEW n \in 0..MaxSize, FileChanges(n)
    PROVE  MediaInv'
<1>1. size \in Nat /\ n \in Nat /\ size' = n /\ UNCHANGED <<linked, server>>
  BY MediaServerAssumption DEF MediaInv, MediaTypeOK, FileChanges
<1>2. ASSUME NEW c \in Connection
      PROVE  /\ req'[c] \in Request /\ req'[c].at = req[c].at
             /\ ResponseOK(req[c])' /\ AnswerOK(req'[c]) /\ BodyOK(req'[c])
  <2> DEFINE z == req[c].shrunk \/ (req[c].at = "body" /\ n < size)
             q == [req[c] EXCEPT !.shrunk = z]
  <2>1. req[c] \in Request /\ ResponseOK(req[c]) /\ AnswerOK(req[c]) /\ BodyOK(req[c])
    BY DEF MediaInv, MediaTypeOK, FirstRangeAsRfc, BodyIsTheRange
  <2>2. req'[c] = q
    BY DEF FileChanges
  <2>3. q \in Request
    <3>1. z \in BOOLEAN
      OBVIOUS
    <3> HIDE DEF z
    <3> QED BY <2>1, <3>1 DEF Request
  <2>4. /\ q.at = req[c].at /\ q.status = req[c].status /\ q.head = req[c].head
        /\ q.total = req[c].total /\ q.range = req[c].range /\ q.first = req[c].first
        /\ q.length = req[c].length /\ q.sent = req[c].sent
    BY <2>1 DEF Request
  <2>9. q.failed = req[c].failed
    BY <2>1 DEF Request
  <2>5. q.shrunk <=> (req[c].shrunk \/ (req[c].at = "body" /\ n < size))
    BY <2>1 DEF Request
  <2> HIDE DEF q
  <2>6. AnswerOK(q) /\ BodyOK(q)
    BY <2>1, <2>4, <2>5, <2>9 DEF AnswerOK, BodyOK
  <2>7. req[c].first \in Int /\ req[c].length \in Int
    BY <2>1 DEF Request
  <2>8. ResponseOK(req[c])'
    BY <1>1, <2>1, <2>2, <2>4, <2>5, <2>7, <2>9 DEF ResponseOK
  <2> QED BY <2>2, <2>3, <2>4, <2>6, <2>8
<1>3. MediaTypeOK'
  BY <1>1, <1>2 DEF MediaInv, MediaTypeOK, FileChanges
<1>4. StoppedIsQuiet'
  BY <1>1, <1>2 DEF MediaInv, StoppedIsQuiet, Open
<1> QED BY <1>2, <1>3, <1>4 DEF MediaInv, FirstRangeAsRfc, BodyIsTheRange

\* Another file is put at the path while nobody is reading the old one.
LEMMA FileCreatedOK ==
    ASSUME MediaInv, NEW n \in 0..MaxSize, FileCreated(n)
    PROVE  MediaInv'
<1>1. UNCHANGED <<req, server>> /\ size' = n /\ linked' = TRUE
  BY DEF FileCreated
<1>2. \A c \in Connection : ResponseOK(req[c])'
  BY <1>1 DEF FileCreated, MediaInv, ResponseOK
<1>3. MediaTypeOK'
  BY <1>1 DEF MediaInv, MediaTypeOK
<1>4. FirstRangeAsRfc' /\ BodyIsTheRange' /\ StoppedIsQuiet'
  BY <1>1 DEF MediaInv, FirstRangeAsRfc, BodyIsTheRange, StoppedIsQuiet, Open
<1> QED BY <1>2, <1>3, <1>4 DEF MediaInv

\* Every step keeps the invariant.
LEMMA StepOK == MediaInv /\ [MediaNext]_mediaVars => MediaInv'
<1> SUFFICES ASSUME MediaInv, [MediaNext]_mediaVars PROVE MediaInv'
  OBVIOUS
<1>1. CASE StartServer
  BY <1>1, NoneChanges DEF StartServer, MediaInv, MediaTypeOK
<1>2. CASE StopServer
  BY <1>2, NoneChanges DEF StopServer, MediaInv, MediaTypeOK
<1>3. CASE ServerDone
  BY <1>3, NoneChanges DEF ServerDone, MediaInv, MediaTypeOK
<1>4. ASSUME NEW c \in Connection, NEW h \in Header, NEW head \in BOOLEAN,
             Ask(c, h, head)
      PROVE  MediaInv'
  BY <1>4, AskOK, MediaServerAssumption
<1>5. ASSUME NEW c \in Connection,
             \/ OpenFile(c) \/ OpenFails(c) \/ Respond(c) \/ MetadataFails(c)
             \/ SeekFails(c) \/ Read(c) \/ ReadFails(c) \/ BodyEnds(c) \/ HangUp(c)
      PROVE  MediaInv'
  BY <1>5, OpenFileOK, FailsOK, RespondOK, SeekFailsOK, ReadOK, ReadFailsOK, BodyEndsOK,
     HangUpOK
<1>6. ASSUME NEW n \in 0..MaxSize, FileChanges(n) \/ FileCreated(n)
      PROVE  MediaInv'
  BY <1>6, FileChangesOK, FileCreatedOK
<1>7. CASE FileRemoved
  BY <1>7, NoneChanges DEF FileRemoved, MediaInv, MediaTypeOK, StoppedIsQuiet
<1>8. CASE UNCHANGED mediaVars
  BY <1>8, NoneChanges DEF mediaVars, MediaInv, MediaTypeOK, StoppedIsQuiet
<1> QED BY <1>1, <1>2, <1>3, <1>4, <1>5, <1>6, <1>7, <1>8 DEF MediaNext

\* The invariant of the file server: types, the shape of a response at every stage, and
\* the properties below.
THEOREM SpecMediaInv == MediaSpec => []MediaInv
<1>1. MediaInit => MediaInv
  BY InitOK
<1>2. MediaInv /\ [MediaNext]_mediaVars => MediaInv'
  BY StepOK
<1> QED BY <1>1, <1>2, PTL DEF MediaSpec

\* Status and range of every answer are those of RFC 7233 for the first range of the
\* header, for every header, list or not, and every size of the file.
THEOREM SpecFirstRangeAsRfc == MediaSpec => []FirstRangeAsRfc
<1>1. MediaInv => FirstRangeAsRfc
  BY DEF MediaInv
<1> QED BY <1>1, SpecMediaInv, PTL

\* A body lies in its range, and is whole unless the file was truncated meanwhile or a
\* seek or a read of it failed.
THEOREM SpecBodyIsTheRange == MediaSpec => []BodyIsTheRange
<1>1. MediaInv => BodyIsTheRange
  BY DEF MediaInv
<1> QED BY <1>1, SpecMediaInv, PTL

\* stop() returns only when nobody is being served.
THEOREM SpecStoppedIsQuiet == MediaSpec => []StoppedIsQuiet
<1>1. MediaInv => StoppedIsQuiet
  BY DEF MediaInv
<1> QED BY <1>1, SpecMediaInv, PTL

=============================================================================
