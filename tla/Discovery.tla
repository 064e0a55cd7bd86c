----------------------------- MODULE Discovery -----------------------------
(***************************************************************************)
(* hc-discovery's continuous service: passes of an mDNS browser and an     *)
(* SSDP search that write to one registry, the fetches of descriptions     *)
(* that end the search, expiry and publication after each pass, and stop.  *)
(* The TVs, and who holds which address, are the environment.              *)
(***************************************************************************)
EXTENDS DeviceRegistry

CONSTANTS
    Tv,           \* the TVs, numbered from 1
    Offers,       \* bound: the fields in which their answers differ from none
    Interval,     \* length of a pass's window (SCAN_INTERVAL, 3 s)
    FetchMax,     \* the longest a description fetch takes (HTTP_TIMEOUT, 3 s)
    MaxLag,       \* the longest wait for the registry's lock
    Settle        \* bound: how far settled counts

ASSUME DiscoveryAssumption ==
    /\ Tv \subseteq Value /\ Offers \subseteq Field
    /\ Interval \in Nat \ {0} /\ FetchMax \in Nat
    /\ MaxLag \in 0..FetchMax /\ Settle \in Nat
    /\ 2 * (Interval + FetchMax) <= Ttl   \* 15 s and twice 3 s and 3 s in the code
    /\ \A t \in Tv : {2 * t, 2 * t + 1} \subseteq Identity

VARIABLES
    at,          \* the TV that holds each address, or None
    phase,       \* the scan loop: "top", in a "pass", or "stopped"
    elapsed,     \* time since the pass began
    mdns,        \* the browser: "off", "wait", or "read" an event, not locked yet
    event,       \* the event read: its TV and addresses
    lag,         \* time since it was read
    ssdp,        \* the search: "off", "search", "enrich"
    renderers,   \* what SSDP saw at each address this pass: 0 if it gave no URL
    fetches,     \* the addresses whose description is being fetched
    fetching,    \* time since the fetches began
    published,   \* last, and the watch channel's value
    shutdown,    \* the stop flag
    waited,      \* history: time since stop() was called
    missed,      \* history: passes ended since each address was last seen, up to 2
    settled      \* history: time since a TV last got or left an address

passVars == <<phase, elapsed, mdns, event, lag, ssdp, renderers, fetches, fetching>>
history == <<waited, missed, settled>>
vars == <<entries, at, passVars, published, shutdown, history>>

PassMax == Interval + FetchMax
V4      == {a \in Address : AddressRank[a] \in {0, 3}}
NoEvent == [tv |-> None, addresses |-> {}]

TypeOK ==
    /\ EntriesOK
    /\ at \in [Address -> Tv \cup {None}]
    /\ phase \in {"top", "pass", "stopped"}
    /\ elapsed \in 0..PassMax
    /\ mdns \in {"off", "wait", "read"}
    /\ event \in [tv: Tv \cup {None}, addresses: SUBSET Address]
    /\ lag \in 0..MaxLag
    /\ ssdp \in {"off", "search", "enrich"}
    /\ \E S \in SUBSET V4 : renderers \in [S -> Tv \cup {None}]
    /\ fetches \subseteq DOMAIN renderers
    /\ fetching \in 0..FetchMax
    /\ shutdown \in BOOLEAN
    /\ waited \in 0..(PassMax + 1)
    /\ missed \in [Address -> 0..2]
    /\ settled \in 0..Settle

Init ==
    /\ entries = <<>> /\ published = <<>>
    /\ at \in [Address -> Tv \cup {None}]
    /\ phase = "top" /\ elapsed = 0
    /\ mdns = "off" /\ event = NoEvent /\ lag = 0
    /\ ssdp = "off" /\ renderers = <<>> /\ fetches = {} /\ fetching = 0
    /\ shutdown = FALSE /\ waited = 0
    /\ missed = [a \in Address |-> 2] /\ settled = 0

\* What the answers of a TV say; its names and URLs are told apart by its number.
Said(t, fields) == [f \in Field |-> IF f \in fields \cap Offers THEN t ELSE None]
MdnsName(t) == 2 * t
Usn(t)      == 2 * t + 1

MdnsSighting(t) ==
    [fact |-> Said(t, {"port", "name"}), identities |-> {MdnsName(t)},
     protocol |-> AirPlayMirror]
SsdpSighting(t, fields) ==
    [fact |-> Said(t, fields), identities |-> {Usn(t)}, protocol |-> Dlna]
Description(t, fields) ==
    [fact |-> Said(t, fields), identities |-> {}, protocol |-> Dlna]

Seen(S) == missed' = [a \in Address |-> IF a \in S THEN 0 ELSE missed[a]]

-----------------------------------------------------------------------------
(* The scan loop.                                                           *)

\* Mutant of StartPass: the flag is not looked at.
StartPassAlways ==
    /\ phase = "top"
    /\ phase' = "pass" /\ elapsed' = 0
    /\ mdns' = "wait" /\ ssdp' = "search"
    /\ renderers' = <<>> /\ fetches' = {}
    /\ UNCHANGED <<entries, at, event, lag, fetching, published, shutdown, history>>

StartPass ==
    /\ phase = "top" /\ ~shutdown
    /\ phase' = "pass" /\ elapsed' = 0
    /\ mdns' = "wait" /\ ssdp' = "search"
    /\ renderers' = <<>> /\ fetches' = {}
    /\ UNCHANGED <<entries, at, event, lag, fetching, published, shutdown, history>>

Stopped ==
    /\ phase = "top" /\ shutdown
    /\ phase' = "stopped"
    /\ UNCHANGED <<entries, at, elapsed, mdns, event, lag, ssdp, renderers, fetches,
                   fetching, published, shutdown, history>>

\* Mutant of EndPass: the list is made before the old entries are dropped.
EndPassStale ==
    /\ phase = "pass" /\ mdns = "off" /\ ssdp = "off"
    /\ phase' = "top"
    /\ entries' = Expired(entries) /\ published' = Devices(entries)
    /\ missed' = [a \in Address |-> IF missed[a] < 2 THEN missed[a] + 1 ELSE 2]
    /\ UNCHANGED <<at, elapsed, mdns, event, lag, ssdp, renderers, fetches, fetching,
                   shutdown, waited, settled>>

\* Both browsers are done: expire and list under one lock, publish a new list.
EndPass ==
    /\ phase = "pass" /\ mdns = "off" /\ ssdp = "off"
    /\ phase' = "top"
    /\ entries' = Expired(entries) /\ published' = Devices(entries')
    /\ missed' = [a \in Address |-> IF missed[a] < 2 THEN missed[a] + 1 ELSE 2]
    /\ UNCHANGED <<at, elapsed, mdns, event, lag, ssdp, renderers, fetches, fetching,
                   shutdown, waited, settled>>

Stop ==
    /\ ~shutdown
    /\ shutdown' = TRUE /\ waited' = 0
    /\ UNCHANGED <<entries, at, passVars, published, missed, settled>>

-----------------------------------------------------------------------------
(* The mDNS browser.  The time of a sighting is read before the lock.       *)

MdnsRead(t, S) ==
    /\ mdns = "wait" /\ elapsed < Interval
    /\ S # {} /\ \A a \in S : at[a] = t
    /\ mdns' = "read" /\ event' = [tv |-> t, addresses |-> S] /\ lag' = 0
    /\ UNCHANGED <<entries, at, phase, elapsed, ssdp, renderers, fetches, fetching,
                   published, shutdown, history>>

MdnsObserve ==
    /\ mdns = "read"
    /\ Observe(event.addresses, MdnsSighting(event.tv), lag)
    /\ Seen(event.addresses)
    /\ mdns' = "wait" /\ event' = NoEvent /\ lag' = 0
    /\ UNCHANGED <<at, phase, elapsed, ssdp, renderers, fetches, fetching,
                   published, shutdown, waited, settled>>

\* The window is over, or the daemon failed.
MdnsEnd ==
    /\ mdns = "wait"
    /\ mdns' = "off"
    /\ UNCHANGED <<entries, at, phase, elapsed, event, lag, ssdp, renderers, fetches,
                   fetching, published, shutdown, history>>

-----------------------------------------------------------------------------
(* The SSDP search, on an IPv4 socket, and the fetches that end it.         *)

\* The first answer of an address decides whether, and where, to fetch.
SsdpAnswer(a, located) ==
    LET t == at[a] IN
    /\ ssdp = "search" /\ elapsed < Interval /\ t # None
    /\ Observe({a}, SsdpSighting(t, IF located THEN {"location", "port"} ELSE {}), 0)
    /\ Seen({a})
    /\ renderers' = [b \in DOMAIN renderers \cup {a} |->
                       IF b \in DOMAIN renderers THEN renderers[b]
                       ELSE IF located THEN t ELSE None]
    /\ UNCHANGED <<at, phase, elapsed, mdns, event, lag, ssdp, fetches, fetching,
                   published, shutdown, waited, settled>>

\* The window is over, or the socket failed.
SsdpEnd ==
    /\ ssdp = "search"
    /\ ssdp' = "enrich" /\ fetching' = 0
    /\ fetches' = {a \in DOMAIN renderers : renderers[a] # None}
    /\ UNCHANGED <<entries, at, phase, elapsed, mdns, event, lag, renderers,
                   published, shutdown, history>>

\* A description came, with a name, a control URL, or both.
FetchOk(a, fields) ==
    /\ a \in fetches /\ at[a] = renderers[a]
    /\ fetches' = fetches \ {a}
    /\ Observe({a}, Description(renderers[a], fields), 0)
    /\ Seen({a})
    /\ UNCHANGED <<at, phase, elapsed, mdns, event, lag, ssdp, renderers, fetching,
                   published, shutdown, waited, settled>>

\* None came in time, or it said neither.
FetchFail(a) ==
    /\ a \in fetches
    /\ fetches' = fetches \ {a}
    /\ UNCHANGED <<entries, at, phase, elapsed, mdns, event, lag, ssdp, renderers,
                   fetching, published, shutdown, history>>

Enriched ==
    /\ ssdp = "enrich" /\ fetches = {}
    /\ ssdp' = "off"
    /\ UNCHANGED <<entries, at, phase, elapsed, mdns, event, lag, renderers, fetches,
                   fetching, published, shutdown, history>>

-----------------------------------------------------------------------------
(* Time and TVs.                                                            *)

\* Mutant of Tick: fetches have no time limit.
TickNoTimeout ==
    /\ phase = "pass"
    /\ mdns = "wait" \/ ssdp = "search" => elapsed < Interval
    /\ mdns = "read" => lag < MaxLag
    /\ ssdp = "enrich" => fetches # {}
    /\ mdns # "off" \/ ssdp # "off"
    /\ entries' = Older(entries)
    /\ elapsed' = elapsed + 1
    /\ lag' = IF mdns = "read" THEN lag + 1 ELSE lag
    /\ fetching' = IF ssdp = "enrich" THEN fetching + 1 ELSE fetching
    /\ waited' = IF shutdown /\ waited <= PassMax THEN waited + 1 ELSE waited
    /\ settled' = IF settled < Settle THEN settled + 1 ELSE settled
    /\ UNCHANGED <<at, phase, mdns, event, ssdp, renderers, fetches, published,
                   shutdown, missed>>

\* Time passes during a pass, as long as nobody's time limit is over.
Tick ==
    /\ phase = "pass"
    /\ mdns = "wait" \/ ssdp = "search" => elapsed < Interval
    /\ mdns = "read" => lag < MaxLag
    /\ ssdp = "enrich" => fetches # {} /\ fetching < FetchMax
    /\ mdns # "off" \/ ssdp # "off"
    /\ entries' = Older(entries)
    /\ elapsed' = elapsed + 1
    /\ lag' = IF mdns = "read" THEN lag + 1 ELSE lag
    /\ fetching' = IF ssdp = "enrich" THEN fetching + 1 ELSE fetching
    /\ waited' = IF shutdown /\ waited <= PassMax THEN waited + 1 ELSE waited
    /\ settled' = IF settled < Settle THEN settled + 1 ELSE settled
    /\ UNCHANGED <<at, phase, mdns, event, ssdp, renderers, fetches, published,
                   shutdown, missed>>

\* A TV is switched on or off, or the router gives addresses out anew.
TvMoves(a, t) ==
    /\ at[a] # t
    /\ at' = [at EXCEPT ![a] = t] /\ settled' = 0
    /\ UNCHANGED <<entries, passVars, published, shutdown, waited, missed>>

-----------------------------------------------------------------------------

Loop == StartPass \/ Stopped \/ EndPass

Mdns == (\E t \in Tv : \E S \in SUBSET Address : MdnsRead(t, S)) \/ MdnsObserve \/ MdnsEnd

Ssdp ==
    \/ \E a \in V4, located \in BOOLEAN : SsdpAnswer(a, located)
    \/ SsdpEnd \/ Enriched
    \/ \E a \in V4 : FetchFail(a)
    \/ \E a \in V4 : \E fields \in (SUBSET {"name", "control"}) \ {{}} : FetchOk(a, fields)

Next ==
    \/ Loop \/ Mdns \/ Ssdp \/ Stop \/ Tick
    \/ \E a \in Address, t \in Tv \cup {None} : TvMoves(a, t)

Spec == Init /\ [][Next]_vars

\* The steps of Loop by what they do to phase, which no other step changes: whether the
\* loop can go on does not depend on the list that it publishes.
LoopMoves ==
    /\ phase = "top" \/ (phase = "pass" /\ mdns = "off" /\ ssdp = "off")
    /\ phase' \in {"top", "pass", "stopped"} \ {phase}

\* Time passes and the tasks run; nobody has to answer, move or stop.
Fairness ==
    /\ WF_phase(LoopMoves) /\ SF_vars(Tick)
    /\ WF_vars(MdnsObserve) /\ WF_vars(MdnsEnd /\ elapsed >= Interval)
    /\ WF_vars(SsdpEnd /\ elapsed >= Interval) /\ WF_vars(Enriched)
    /\ \A a \in V4 : WF_vars(FetchFail(a) /\ fetching >= FetchMax)

FairSpec == Spec /\ Fairness

-----------------------------------------------------------------------------
(* Properties.                                                              *)

\* Between passes the published list is what the registry holds: every write of
\* a browser or of a fetch happens before the pass is expired and listed.
PublishedIsRegistry == phase # "pass" => published = Devices(entries)

\* A TV that is missed by a whole pass is not lost: an address leaves the
\* registry only when two passes in a row did not see it, although a sighting
\* may be dated before the registry was locked.
SurvivesAMissedPass ==
    [][\A a \in Tracked \ DOMAIN entries' : missed[a] = 2]_vars

\* "Stop scanning and wait for the background task to finish (bounded by one
\* pass)": the loop is gone at most the longest pass after stop() was called.
StopIsBounded == phase # "stopped" => waited <= PassMax

\* An address that nobody answers at any more leaves the list.
GoneIsDropped ==
    \A a \in Address :
        <>[](at[a] = None /\ ~shutdown) => <>[](\A i \in DOMAIN published :
                                                 published[i].address # a)

\* The registry's test: "distinct_devices_are_not_coalesced".  When every TV has
\* kept its addresses for more than the TTL, two addresses that answered in the
\* last two passes are joined only if the same TV holds them.
DistinctTvsStayApart ==
    settled > Ttl =>
        \A a, b \in Tracked :
            (/\ missed[a] < 2 /\ missed[b] < 2
             /\ None \notin {at[a], at[b]} /\ Related(a, b)) => at[a] = at[b]

=============================================================================
