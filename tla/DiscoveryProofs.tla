--------------------------- MODULE DiscoveryProofs ---------------------------
(***************************************************************************)
(* The discovery service, for any addresses, TVs and time limits that      *)
(* satisfy the assumptions: what is published is the registry, stop() is   *)
(* done within a pass, and an address outlives a pass that missed it.      *)
(***************************************************************************)
EXTENDS Discovery, RegistryProofs, TLAPS

\* The limits of a pass and who may still run in it.
PassOK ==
    /\ phase \in {"top", "pass", "stopped"} /\ mdns \in {"off", "wait", "read"}
    /\ ssdp \in {"off", "search", "enrich"} /\ shutdown \in BOOLEAN
    /\ elapsed \in Nat /\ lag \in Nat /\ fetching \in Nat /\ waited \in Nat
    /\ lag <= MaxLag /\ fetching <= FetchMax /\ elapsed <= PassMax
    /\ phase # "pass" => mdns = "off" /\ ssdp = "off"
    /\ ssdp # "enrich" => fetches = {}
    /\ ssdp = "search" => elapsed <= Interval
    /\ ssdp = "enrich" => elapsed <= Interval + fetching
    /\ mdns = "read" => elapsed <= Interval + lag /\ lag <= elapsed

\* An event is about addresses and, once it is read, about a TV; so are renderers.
EventOK ==
    /\ event \in [tv: Tv \cup {None}, addresses: SUBSET Address]
    /\ mdns = "read" => event.tv \in Tv
    /\ \E S \in SUBSET V4 : renderers \in [S -> Tv \cup {None}]
    /\ fetches \subseteq {a \in DOMAIN renderers : renderers[a] # None}
    /\ at \in [Address -> Tv \cup {None}]

\* The time since stop() was called is at most that of the pass in which it was.
WaitOK ==
    /\ waited <= PassMax
    /\ phase = "pass" /\ shutdown => waited <= elapsed

\* An address seen in this pass, or in the one before, is as old as these at most.
AgeOK ==
    /\ missed \in [Address -> 0..2] /\ Tracked \subseteq Address
    /\ \A a \in Tracked :
         /\ entries[a] \in Entry
         /\ missed[a] = 0 => phase = "pass" /\ entries[a].age <= elapsed
         /\ missed[a] = 1 => entries[a].age <= PassMax + (IF phase = "pass" THEN elapsed ELSE 0)

LEMMA Limits ==
    /\ Interval \in Nat /\ FetchMax \in Nat /\ MaxLag \in Nat /\ MaxLag <= FetchMax
    /\ Ttl \in Nat /\ PassMax \in Nat /\ PassMax = Interval + FetchMax /\ 2 * PassMax <= Ttl
BY DiscoveryAssumption, RegistryAssumption DEF PassMax

\* Every step keeps the limits of the pass.
LEMMA PassStep == PassOK /\ [Next]_vars => PassOK'
<1> SUFFICES ASSUME PassOK, [Next]_vars PROVE PassOK'
  OBVIOUS
<1> USE Limits DEF PassOK
<1>1. CASE StartPass
  BY <1>1 DEF StartPass, history
<1>2. CASE Stopped
  BY <1>2 DEF Stopped, history
<1>13. CASE Stop
  BY <1>13 DEF Stop, passVars
<1>3. CASE EndPass
  BY <1>3 DEF EndPass
<1>4. ASSUME NEW t \in Tv, NEW S \in SUBSET Address, MdnsRead(t, S) PROVE PassOK'
  BY <1>4 DEF MdnsRead, history
<1>5. CASE MdnsObserve \/ MdnsEnd
  BY <1>5 DEF MdnsObserve, MdnsEnd, history
<1>6. ASSUME NEW a \in V4, NEW located \in BOOLEAN, SsdpAnswer(a, located) PROVE PassOK'
  BY <1>6 DEF SsdpAnswer
<1>7. CASE SsdpEnd \/ Enriched
  BY <1>7 DEF SsdpEnd, Enriched, history
<1>8. ASSUME NEW a \in V4, FetchFail(a) PROVE PassOK'
  BY <1>8 DEF FetchFail, history
<1>9. ASSUME NEW a \in V4, NEW fields, FetchOk(a, fields) PROVE PassOK'
  BY <1>9 DEF FetchOk
<1>10. CASE Tick
  <2>1. /\ phase = "pass" /\ elapsed' = elapsed + 1 /\ elapsed < PassMax
    BY <1>10 DEF Tick
  <2>2. /\ UNCHANGED <<phase, mdns, ssdp, fetches, shutdown>>
        /\ lag' = IF mdns = "read" THEN lag + 1 ELSE lag
        /\ fetching' = IF ssdp = "enrich" THEN fetching + 1 ELSE fetching
        /\ waited' \in Nat
    BY <1>10 DEF Tick
  <2> QED BY <1>10, <2>1, <2>2 DEF Tick
<1>11. ASSUME NEW a \in Address, NEW t \in Tv \cup {None}, TvMoves(a, t) PROVE PassOK'
  BY <1>11 DEF TvMoves, passVars
<1>12. CASE UNCHANGED vars
  BY <1>12 DEF vars, passVars, history
<1> QED BY <1>1, <1>2, <1>3, <1>4, <1>5, <1>6, <1>7, <1>8, <1>9, <1>10, <1>11, <1>12, <1>13
        DEF Next, Loop, Mdns, Ssdp

\* Time passes only while a pass runs that began before stop() was called.
LEMMA WaitStep == PassOK /\ WaitOK /\ [Next]_vars => WaitOK'
<1> SUFFICES ASSUME PassOK, WaitOK, [Next]_vars PROVE WaitOK'
  OBVIOUS
<1> USE Limits DEF PassOK, WaitOK
<1>1. CASE StartPass
  BY <1>1 DEF StartPass, history
<1>2. CASE Stopped \/ Stop
  BY <1>2 DEF Stopped, Stop, history, passVars
<1>3. CASE EndPass
  BY <1>3 DEF EndPass
<1>4. CASE Tick
  <2>1. elapsed' = elapsed + 1 /\ elapsed < PassMax /\ phase = "pass" /\ UNCHANGED <<phase, shutdown>>
    BY <1>4 DEF Tick
  <2>2. waited' = IF shutdown /\ waited <= PassMax THEN waited + 1 ELSE waited
    BY <1>4 DEF Tick
  <2> QED BY <2>1, <2>2
<1>5. CASE UNCHANGED <<phase, elapsed, shutdown, waited>>
  BY <1>5
<1>6. ASSUME Mdns \/ Ssdp \/ UNCHANGED vars \/ \E a \in Address, t \in Tv \cup {None} : TvMoves(a, t)
      PROVE  UNCHANGED <<phase, elapsed, shutdown, waited>>
  BY <1>6 DEF Mdns, Ssdp, MdnsRead, MdnsObserve, MdnsEnd, SsdpAnswer, SsdpEnd, Enriched,
              FetchFail, FetchOk, TvMoves, vars, passVars, history
<1> QED BY <1>1, <1>2, <1>3, <1>4, <1>5, <1>6 DEF Next, Loop

\* Every step keeps events and renderers what they are.
LEMMA EventStep == PassOK /\ EventOK /\ [Next]_vars => EventOK'
<1> SUFFICES ASSUME PassOK, EventOK, [Next]_vars PROVE EventOK'
  OBVIOUS
<1> USE DEF EventOK
<1>1. CASE StartPass
  <2>1. /\ mdns' = "wait" /\ renderers' = <<>> /\ fetches' = {} /\ UNCHANGED <<event, at>>
    BY <1>1 DEF StartPass
  <2>2. renderers' \in [{} -> Tv \cup {None}] /\ {} \in SUBSET V4
    BY <2>1
  <2> QED BY <2>1, <2>2
<1>2. CASE Stopped
  BY <1>2 DEF Stopped
<1>3. CASE EndPass
  BY <1>3 DEF EndPass
<1>4. CASE Stop
  BY <1>4 DEF Stop, passVars
<1>5. ASSUME NEW t \in Tv, NEW S \in SUBSET Address, MdnsRead(t, S) PROVE EventOK'
  BY <1>5 DEF MdnsRead
<1>6. CASE MdnsObserve
  BY <1>6 DEF MdnsObserve, NoEvent
<1>7. CASE MdnsEnd
  BY <1>7 DEF MdnsEnd
<1>8. ASSUME NEW a \in V4, NEW located \in BOOLEAN, SsdpAnswer(a, located) PROVE EventOK'
  <2>1. /\ at[a] # None /\ a \in Address /\ fetches = {} /\ UNCHANGED <<at, mdns, event, fetches>>
        /\ renderers' = [b \in DOMAIN renderers \cup {a} |->
                            IF b \in DOMAIN renderers THEN renderers[b]
                            ELSE IF located THEN at[a] ELSE None]
    BY <1>8 DEF SsdpAnswer, V4, PassOK
  <2>2. PICK S \in SUBSET V4 : renderers \in [S -> Tv \cup {None}]
    OBVIOUS
  <2>3. renderers' \in [S \cup {a} -> Tv \cup {None}]
    BY <2>1, <2>2
  <2> QED BY <2>1, <2>2, <2>3
<1>9. CASE SsdpEnd
  BY <1>9 DEF SsdpEnd
<1>10. CASE Enriched
  BY <1>10 DEF Enriched
<1>11. ASSUME NEW a \in V4, FetchFail(a) PROVE EventOK'
  BY <1>11 DEF FetchFail
<1>12. ASSUME NEW a \in V4, NEW fields, FetchOk(a, fields) PROVE EventOK'
  BY <1>12 DEF FetchOk
<1>13. CASE Tick
  BY <1>13 DEF Tick
<1>14. ASSUME NEW a \in Address, NEW t \in Tv \cup {None}, TvMoves(a, t) PROVE EventOK'
  BY <1>14 DEF TvMoves, passVars
<1>15. CASE UNCHANGED vars
  BY <1>15 DEF vars, passVars
<1> QED BY <1>1, <1>2, <1>3, <1>4, <1>5, <1>6, <1>7, <1>8, <1>9, <1>10, <1>11, <1>12, <1>13,
           <1>14, <1>15 DEF Next, Loop, Mdns, Ssdp

\* Answers, events and descriptions of a TV are observations.
LEMMA SightingType ==
    ASSUME NEW t \in Tv
    PROVE  /\ MdnsSighting(t) \in Observation
           /\ \A fields : SsdpSighting(t, fields) \in Observation /\ Description(t, fields) \in Observation
<1>1. \A fields : Said(t, fields) \in Facts
  BY DiscoveryAssumption DEF Said, Facts, None
<1>2. MdnsName(t) \in Identity /\ Usn(t) \in Identity
  BY DiscoveryAssumption DEF MdnsName, Usn
<1> QED BY <1>1, <1>2 DEF MdnsSighting, SsdpSighting, Description, Observation, Protocol,
                          AirPlayMirror, Dlna

\* A sighting makes its addresses as young as it is itself.
LEMMA ObserveOK ==
    ASSUME AgeOK, NEW S \in SUBSET Address, NEW o \in Observation, NEW age \in Nat,
           age <= elapsed, phase = "pass", UNCHANGED <<phase, elapsed>>, elapsed \in Nat,
           elapsed <= PassMax, Observe(S, o, age), Seen(S)
    PROVE  AgeOK'
<1>1. Tracked' = Tracked \cup S
  BY DEF Observe, Tracked
<1>2. age \in 0..(Ttl + 1)
  BY Limits
<1>4. ASSUME NEW a \in Tracked'
      PROVE  /\ entries'[a] \in Entry
             /\ entries'[a].age = (IF a \in S THEN age ELSE entries[a].age)
             /\ missed'[a] = (IF a \in S THEN 0 ELSE missed[a])
  <2>1. missed'[a] = (IF a \in S THEN 0 ELSE missed[a])
    BY <1>1 DEF AgeOK, Seen
  <2>2. CASE a \notin S
    BY <1>1, <2>1, <2>2 DEF Observe, AgeOK
  <2>3. CASE a \in S
    <3>1. PICK e \in Entry \cup {NewEntry} : entries'[a] = Merge(e, o, age)
      BY <1>1, <2>3 DEF Observe, AgeOK
    <3>2. Merge(e, o, age) \in Entry /\ Merge(e, o, age).age = age
      BY <1>2, MergeType
    <3> QED BY <2>1, <2>3, <3>1, <3>2
  <2> QED BY <2>2, <2>3
<1>5. missed' \in [Address -> 0..2]
  BY DEF AgeOK, Seen
<1>6. \A a \in Tracked' \ S : a \in Tracked
  BY <1>1
<1> QED BY <1>1, <1>4, <1>5, <1>6 DEF AgeOK

\* Every step keeps the ages.
LEMMA AgeStep == PassOK /\ EventOK /\ AgeOK /\ [Next]_vars => AgeOK'
<1> SUFFICES ASSUME PassOK, EventOK, AgeOK, [Next]_vars PROVE AgeOK'
  OBVIOUS
<1> USE Limits
<1>1. CASE StartPass
  <2>1. /\ UNCHANGED <<entries, missed>> /\ phase # "pass" /\ phase' = "pass" /\ elapsed' = 0
    BY <1>1 DEF StartPass, history
  <2> QED BY <2>1 DEF AgeOK, Tracked
<1>2. CASE EndPass
  <2>1. /\ entries' = Expired(entries) /\ phase = "pass" /\ phase' = "top" /\ elapsed \in Nat
        /\ missed' = [a \in Address |-> IF missed[a] < 2 THEN missed[a] + 1 ELSE 2]
        /\ elapsed <= PassMax
    BY <1>2 DEF EndPass, PassOK
  <2>2. Tracked' \subseteq Tracked /\ \A a \in Tracked' : entries'[a] = entries[a]
    BY <2>1 DEF Expired, Tracked
  <2>3. missed' \in [Address -> 0..2]
    BY <2>1 DEF AgeOK
  <2>4. ASSUME NEW a \in Tracked' PROVE missed'[a] # 0 /\ (missed'[a] = 1 => missed[a] = 0)
    BY <2>1, <2>2 DEF AgeOK
  <2>5. ASSUME NEW a \in Tracked'
        PROVE  entries'[a] \in Entry /\ (missed'[a] = 1 => entries'[a].age <= PassMax + 0)
    <3>1. entries[a].age \in Nat
      BY <2>2 DEF AgeOK, Entry
    <3>2. missed[a] = 0 => entries[a].age <= elapsed
      BY <2>2 DEF AgeOK
    <3> QED BY <2>1, <2>2, <2>4, <3>1, <3>2 DEF AgeOK
  <2> QED BY <2>1, <2>2, <2>3, <2>4, <2>5 DEF AgeOK
<1>3. CASE MdnsObserve
  <2>1. /\ Observe(event.addresses, MdnsSighting(event.tv), lag) /\ Seen(event.addresses)
        /\ UNCHANGED <<phase, elapsed>>
    BY <1>3 DEF MdnsObserve
  <2>2. /\ phase = "pass" /\ lag \in Nat /\ elapsed \in Nat /\ lag <= elapsed
        /\ elapsed <= PassMax
    BY <1>3 DEF MdnsObserve, PassOK
  <2>3. event.addresses \in SUBSET Address /\ event.tv \in Tv
    BY <1>3 DEF MdnsObserve, EventOK
  <2>4. MdnsSighting(event.tv) \in Observation
    BY <2>3, SightingType
  <2> QED BY <2>1, <2>2, <2>3, <2>4, ObserveOK
<1>4. ASSUME NEW a \in V4, NEW located \in BOOLEAN, SsdpAnswer(a, located) PROVE AgeOK'
  <2>1. PICK o \in Observation : Observe({a}, o, 0) /\ Seen({a}) /\ UNCHANGED <<phase, elapsed>>
    <3>1. a \in Address /\ at[a] \in Tv
      BY <1>4 DEF SsdpAnswer, V4, EventOK
    <3> QED BY <1>4, <3>1, SightingType DEF SsdpAnswer
  <2>2. /\ phase = "pass" /\ elapsed \in Nat /\ 0 \in Nat /\ 0 <= elapsed /\ {a} \in SUBSET Address
        /\ elapsed <= PassMax
    BY <1>4 DEF SsdpAnswer, PassOK, V4
  <2> QED BY <2>1, <2>2, ObserveOK
<1>5. ASSUME NEW a \in V4, NEW fields, FetchOk(a, fields) PROVE AgeOK'
  <2>1. PICK o \in Observation : Observe({a}, o, 0) /\ Seen({a}) /\ UNCHANGED <<phase, elapsed>>
    <3>1. renderers[a] \in Tv
      BY <1>5 DEF FetchOk, EventOK
    <3> QED BY <1>5, <3>1, SightingType DEF FetchOk
  <2>2. /\ phase = "pass" /\ elapsed \in Nat /\ 0 \in Nat /\ 0 <= elapsed /\ {a} \in SUBSET Address
        /\ elapsed <= PassMax
    BY <1>5 DEF FetchOk, PassOK, V4
  <2> QED BY <2>1, <2>2, ObserveOK
<1>6. CASE Tick
  <2>1. /\ entries' = Older(entries) /\ phase = "pass" /\ elapsed' = elapsed + 1
        /\ UNCHANGED <<phase, missed>> /\ elapsed \in Nat
    BY <1>6 DEF Tick, PassOK
  <2>2. Tracked' = Tracked
    BY <2>1 DEF Older, Tracked
  <2>3. ASSUME NEW a \in Tracked
        PROVE  entries'[a] \in Entry /\ entries'[a].age <= entries[a].age + 1
    <3>1. entries[a] \in Entry
      BY DEF AgeOK
    <3>2. entries'[a] = [entries[a] EXCEPT !.age = IF entries[a].age <= Ttl THEN entries[a].age + 1
                                                  ELSE entries[a].age]
      BY <2>1 DEF Older, Tracked
    <3> QED BY <3>1, <3>2 DEF Entry
  <2>4. \A a \in Tracked : entries[a].age \in Nat /\ entries'[a].age \in Nat
    BY <2>3 DEF AgeOK, Entry
  <2> QED BY <2>1, <2>2, <2>3, <2>4 DEF AgeOK
<1>7. CASE UNCHANGED <<entries, missed, phase, elapsed>>
  BY <1>7 DEF AgeOK, Tracked
<1>8. ASSUME \/ MdnsEnd \/ SsdpEnd \/ Enriched \/ UNCHANGED vars \/ Stop
             \/ \E t \in Tv : \E S \in SUBSET Address : MdnsRead(t, S)
             \/ \E a \in V4 : FetchFail(a)
             \/ \E a \in Address, t \in Tv \cup {None} : TvMoves(a, t)
      PROVE  UNCHANGED <<entries, missed, phase, elapsed>>
  BY <1>8 DEF MdnsEnd, SsdpEnd, Enriched, vars, Stop, MdnsRead, FetchFail, TvMoves,
              passVars, history
<1>9. CASE Stopped
  <2>1. UNCHANGED <<entries, missed, elapsed>> /\ phase = "top" /\ phase' = "stopped"
    BY <1>9 DEF Stopped, history
  <2> QED BY <2>1 DEF AgeOK, Tracked
<1> QED BY <1>1, <1>2, <1>3, <1>4, <1>5, <1>6, <1>7, <1>8, <1>9 DEF Next, Loop, Mdns, Ssdp

\* Whoever writes to the registry does it in a pass, whose end publishes.
LEMMA PublishedStep == PassOK /\ PublishedIsRegistry /\ [Next]_vars => PublishedIsRegistry'
<1> SUFFICES ASSUME PassOK, PublishedIsRegistry, [Next]_vars PROVE PublishedIsRegistry'
  OBVIOUS
<1>1. CASE StartPass \/ Tick
  BY <1>1 DEF StartPass, Tick, PublishedIsRegistry
<1>2. CASE EndPass
  BY <1>2 DEF EndPass, PublishedIsRegistry
<1>3. ASSUME Mdns \/ Ssdp PROVE phase = "pass" /\ phase' = "pass"
  BY <1>3 DEF Mdns, Ssdp, MdnsRead, MdnsObserve, MdnsEnd, SsdpAnswer, SsdpEnd, Enriched,
              FetchFail, FetchOk, PassOK
<1>4. ASSUME \/ Stopped \/ Stop \/ UNCHANGED vars
             \/ \E a \in Address, t \in Tv \cup {None} : TvMoves(a, t)
      PROVE  UNCHANGED <<entries, published>> /\ (phase # "pass" <=> phase' # "pass")
  BY <1>4 DEF Stopped, Stop, vars, TvMoves, passVars
<1>5. ASSUME UNCHANGED <<entries, published>>, phase # "pass" <=> phase' # "pass"
      PROVE  PublishedIsRegistry'
  <2>1. Devices(entries)' = Devices(entries)
    BY <1>5
  <2> QED BY <1>5, <2>1 DEF PublishedIsRegistry
<1> QED BY <1>1, <1>2, <1>3, <1>4, <1>5 DEF Next, Loop, PublishedIsRegistry

\* The registry is a function of its addresses, and the time since a TV moved is bounded.
ShapeOK == entries = [a \in Tracked |-> entries[a]] /\ settled \in 0..Settle

LEMMA ShapeStep == ShapeOK /\ [Next]_vars => ShapeOK'
<1> SUFFICES ASSUME ShapeOK, [Next]_vars PROVE ShapeOK'
  OBVIOUS
<1>1. Settle \in Nat
  BY DiscoveryAssumption
<1>2. ASSUME NEW S, NEW o, NEW age, Observe(S, o, age), UNCHANGED settled PROVE ShapeOK'
  BY <1>2 DEF Observe, ShapeOK, Tracked
<1>3. CASE MdnsObserve \/ (\E a \in V4, located \in BOOLEAN : SsdpAnswer(a, located))
           \/ (\E a \in V4, fields \in (SUBSET {"name", "control"}) \ {{}} : FetchOk(a, fields))
  BY <1>2, <1>3 DEF MdnsObserve, SsdpAnswer, FetchOk
<1>4. CASE EndPass
  BY <1>4 DEF EndPass, Expired, ShapeOK, Tracked
<1>5. CASE Tick
  BY <1>1, <1>5 DEF Tick, Older, ShapeOK, Tracked
<1>6. ASSUME \/ StartPass \/ Stopped \/ Stop \/ MdnsEnd \/ SsdpEnd \/ Enriched \/ UNCHANGED vars
             \/ \E t \in Tv : \E S \in SUBSET Address : MdnsRead(t, S)
             \/ \E a \in V4 : FetchFail(a)
             \/ \E a \in Address, t \in Tv \cup {None} : TvMoves(a, t)
      PROVE  UNCHANGED entries /\ (settled' = settled \/ settled' = 0)
  BY <1>6 DEF StartPass, Stopped, Stop, MdnsEnd, SsdpEnd, Enriched, MdnsRead, FetchFail,
              TvMoves, vars, history
<1>7. ASSUME UNCHANGED entries, settled' = settled \/ settled' = 0 PROVE ShapeOK'
  BY <1>1, <1>7 DEF ShapeOK, Tracked
<1> QED BY <1>3, <1>4, <1>5, <1>6, <1>7 DEF Next, Loop, Mdns, Ssdp

\* The invariants of the service say that every variable has its type.
LEMMA ServiceTypes == PassOK /\ EventOK /\ WaitOK /\ AgeOK /\ ShapeOK => TypeOK
<1> SUFFICES ASSUME PassOK, EventOK, WaitOK, AgeOK, ShapeOK PROVE TypeOK
  OBVIOUS
<1>1. EntriesOK
  <2>1. Tracked \in SUBSET Address /\ entries \in [Tracked -> Entry]
    BY DEF AgeOK, ShapeOK
  <2> QED BY <2>1 DEF EntriesOK
<1>2. /\ elapsed \in 0..PassMax /\ lag \in 0..MaxLag /\ fetching \in 0..FetchMax
      /\ waited \in 0..(PassMax + 1)
  BY Limits DEF PassOK, WaitOK
<1>3. fetches \subseteq DOMAIN renderers
  BY DEF EventOK
<1> QED BY <1>1, <1>2, <1>3 DEF TypeOK, PassOK, EventOK, AgeOK, ShapeOK

\* What the service starts with.
LEMMA InitOK == Init => PassOK /\ EventOK /\ WaitOK /\ AgeOK
<1> SUFFICES ASSUME Init PROVE PassOK /\ EventOK /\ WaitOK /\ AgeOK
  OBVIOUS
<1>1. PassOK /\ WaitOK
  <2>1. /\ phase = "top" /\ elapsed = 0 /\ mdns = "off" /\ lag = 0 /\ ssdp = "off"
        /\ fetches = {} /\ fetching = 0 /\ ~shutdown /\ waited = 0
    BY DEF Init
  <2>2. shutdown \in BOOLEAN
    BY DEF Init
  <2>3. 0 <= MaxLag /\ 0 <= FetchMax /\ 0 <= PassMax
    BY Limits
  <2>4. PassOK
    BY <2>1, <2>2, <2>3 DEF PassOK
  <2>5. WaitOK
    BY <2>1, <2>3 DEF WaitOK
  <2> QED BY <2>4, <2>5
<1>2. EventOK
  <2>1. renderers \in [{} -> Tv \cup {None}] /\ {} \in SUBSET V4
    BY DEF Init
  <2> QED BY <2>1 DEF Init, EventOK, NoEvent
<1>3. AgeOK
  <2>1. Tracked = {}
    BY DEF Init, Tracked
  <2> QED BY <2>1 DEF Init, AgeOK
<1> QED BY <1>1, <1>2, <1>3

\* The invariant of the service without what it publishes.
THEOREM SpecService == Spec => [](PassOK /\ EventOK /\ WaitOK /\ AgeOK)
<1>1. Init => PassOK /\ EventOK /\ WaitOK /\ AgeOK
  BY InitOK
<1>2. PassOK /\ EventOK /\ WaitOK /\ AgeOK /\ [Next]_vars
        => PassOK' /\ EventOK' /\ WaitOK' /\ AgeOK'
  BY PassStep, EventStep, WaitStep, AgeStep
<1> QED BY <1>1, <1>2, PTL DEF Spec

\* Every variable has its type: in particular the registry holds entries of tracked
\* addresses only, fetches are of addresses that answered, and no limit is exceeded.
THEOREM SpecTypeOK == Spec => []TypeOK
<1>1. Init => ShapeOK
  <2> SUFFICES ASSUME Init PROVE ShapeOK
    OBVIOUS
  <2>1. entries = [a \in Tracked |-> entries[a]]
    BY DEF Init, Tracked
  <2>2. settled \in 0..Settle
    BY DiscoveryAssumption DEF Init
  <2> QED BY <2>1, <2>2 DEF ShapeOK
<1> QED BY <1>1, ShapeStep, ServiceTypes, SpecService, PTL DEF Spec

\* stop() is done at most the longest pass after it was called.
THEOREM SpecStopIsBounded == Spec => []StopIsBounded
<1>1. WaitOK => StopIsBounded
  BY DEF WaitOK, StopIsBounded
<1> QED BY <1>1, SpecService, PTL

\* An address is dropped only when two passes in a row did not see it.
THEOREM SpecSurvivesAMissedPass == Spec => SurvivesAMissedPass
<1> DEFINE Survives == \A a \in Tracked \ DOMAIN entries' : missed[a] = 2
<1>1. PassOK /\ AgeOK /\ [Next]_vars => [Survives]_vars
  <2> SUFFICES ASSUME PassOK, AgeOK, Next PROVE Survives
    OBVIOUS
  <2>1. CASE EndPass
    <3> SUFFICES ASSUME NEW a \in Tracked, a \notin DOMAIN entries' PROVE missed[a] = 2
      OBVIOUS
    <3>1. entries[a].age \in Nat /\ ~(entries[a].age <= Ttl) /\ missed[a] \in 0..2
      BY <2>1 DEF EndPass, Expired, Tracked, AgeOK, Entry
    <3>2. elapsed \in Nat /\ elapsed <= PassMax
      BY DEF PassOK
    <3>3. missed[a] = 0 => entries[a].age <= elapsed
      BY DEF AgeOK
    <3>4. missed[a] = 1 => entries[a].age <= PassMax + (IF phase = "pass" THEN elapsed ELSE 0)
      BY DEF AgeOK
    <3>5. missed[a] = 1 => entries[a].age <= 2 * PassMax
      BY <3>1, <3>2, <3>4, Limits
    <3> QED BY <3>1, <3>2, <3>3, <3>5, Limits
  <2>2. ASSUME NEW S, NEW o, NEW age, Observe(S, o, age) PROVE Survives
    BY <2>2 DEF Observe, Tracked
  <2>3. CASE MdnsObserve \/ (\E a \in V4, located \in BOOLEAN : SsdpAnswer(a, located))
             \/ (\E a \in V4, fields \in (SUBSET {"name", "control"}) \ {{}} : FetchOk(a, fields))
    BY <2>2, <2>3 DEF MdnsObserve, SsdpAnswer, FetchOk
  <2>4. CASE Tick
    BY <2>4 DEF Tick, Older, Tracked
  <2>5. CASE UNCHANGED entries
    BY <2>5 DEF Tracked
  <2>6. ASSUME \/ StartPass \/ Stopped \/ Stop \/ MdnsEnd \/ SsdpEnd \/ Enriched
               \/ \E t \in Tv : \E S \in SUBSET Address : MdnsRead(t, S)
               \/ \E a \in V4 : FetchFail(a)
               \/ \E a \in Address, t \in Tv \cup {None} : TvMoves(a, t)
        PROVE  UNCHANGED entries
    BY <2>6 DEF StartPass, Stopped, Stop, MdnsEnd, SsdpEnd, Enriched, MdnsRead, FetchFail,
                TvMoves
  <2> QED BY <2>1, <2>3, <2>4, <2>5, <2>6 DEF Next, Loop, Mdns, Ssdp
<1> QED BY <1>1, SpecService, PTL DEF Spec, SurvivesAMissedPass

\* Nothing tracked is an empty list.
LEMMA NothingListed == Devices(<<>>) = <<>>
<1> DEFINE es == <<>>    S == DeviceSet(es)
<1>1. Entries(es)
  <2>1. es \in [{} -> Entry] /\ {} \in SUBSET Address
    OBVIOUS
  <2> QED BY <2>1 DEF Entries
<1>2. DOMAIN es = {}
  OBVIOUS
<1> HIDE DEF es
<1>3. S = {}
  BY <1>2 DEF DeviceSet, Groups
<1>4. Cardinality(S) = 0
  BY <1>3, FS_EmptySet
<1>5. Devices(es) \in Seq(S) /\ Len(Devices(es)) = 0
  BY <1>1, <1>4, DevicesOrdered, SortedIs DEF Devices
<1>6. Devices(es) = <<>>
  BY <1>5
<1> QED BY <1>6 DEF es

\* Between passes the published list is what the registry holds: no browser, fetch or
\* late write gets past the end of a pass.
THEOREM SpecPublishedIsRegistry == Spec => []PublishedIsRegistry
<1>1. Init => PublishedIsRegistry
  BY NothingListed DEF Init, PublishedIsRegistry
<1>2. PassOK /\ PublishedIsRegistry /\ [Next]_vars => PublishedIsRegistry'
  BY PublishedStep
<1> QED BY <1>1, <1>2, SpecService, PTL DEF Spec

\* Whatever the service finds, its groups are the components of sharing an identity and
\* its list is unambiguous, at every moment of every pass.
THEOREM SpecListsDevices == Spec => [](GroupsAreComponents /\ ListIsUnambiguous)
<1>1. TypeOK => GroupsAreComponents /\ ListIsUnambiguous
  BY Components, Unambiguous DEF TypeOK
<1> QED BY <1>1, SpecTypeOK, PTL

=============================================================================
