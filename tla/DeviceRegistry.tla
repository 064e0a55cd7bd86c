--------------------------- MODULE DeviceRegistry ---------------------------
(***************************************************************************)
(* hc-discovery's registry.rs: what has been seen at each network address, *)
(* how long ago, and the list of devices it amounts to, in which addresses *)
(* that share an identity are one device.                                  *)
(*                                                                         *)
(* Strings and addresses are numbers in the order the code compares them;  *)
(* a protocol is its preference rank; the age of an entry, now - last_seen *)
(* in the code, counts up to the first value beyond the TTL.               *)
(***************************************************************************)
EXTENDS Integers, Sequences, FiniteSets

CONSTANTS
    Address,      \* network addresses, in the order of IpAddr
    AddressRank,  \* address_rank of each: IPv4 0, IPv6 1, link-local 2, loopback 3
    Printed,      \* place of each address in the order of printed addresses
    Identity,     \* mDNS instance names and SSDP USNs
    Value,        \* names, ports and URLs; 0 stands for none and for empty
    UnknownName,  \* place of "Unknown device (...)" among the names
    Ttl

ASSUME RegistryAssumption ==
    /\ Address \subseteq Nat \ {0} /\ IsFiniteSet(Address)
    /\ AddressRank \in [Address -> 0..3]
    /\ Printed \in [Address -> Nat]
    /\ Identity \subseteq Nat /\ IsFiniteSet(Identity)
    /\ Value \subseteq Nat \ {0}
    /\ UnknownName \in Nat \ Value
    /\ Ttl \in Nat

VARIABLE entries   \* a function from the tracked addresses

None     == 0
Field    == {"port", "name", "control", "location"}
Facts    == [Field -> Value \cup {None}]
Protocol == 0..4
AirPlayMirror == 0
Dlna          == 4

Entry == [fact: Facts, identities: SUBSET Identity,
          protocols: (SUBSET Protocol) \ {{}}, age: 0..(Ttl + 1)]

\* One sighting; it carries at most one identity.
Observation == [fact: Facts, identities: SUBSET Identity, protocol: Protocol]

Tracked == DOMAIN entries

EntriesOK == \E S \in SUBSET Address : entries \in [S -> Entry]

-----------------------------------------------------------------------------
(* observe, expire and the passing of time.                                 *)

NewEntry == [fact |-> [f \in Field |-> None], identities |-> {},
             protocols |-> {}, age |-> 0]

\* Mutant of Merge: only the first sighting sets last_seen.
MergeKeepsAge(e, o, age) ==
    [fact       |-> [f \in Field |-> IF e.fact[f] = None THEN o.fact[f] ELSE e.fact[f]],
     identities |-> e.identities \cup o.identities,
     protocols  |-> e.protocols \cup {o.protocol},
     age        |-> e.age]

\* Mutant of Merge: a response without an identity adds the empty one.
MergeEmptyIdentity(e, o, age) ==
    [fact       |-> [f \in Field |-> IF e.fact[f] = None THEN o.fact[f] ELSE e.fact[f]],
     identities |-> e.identities \cup (IF o.identities = {} THEN {None} ELSE o.identities),
     protocols  |-> e.protocols \cup {o.protocol},
     age        |-> age]

\* The first fact of each kind is kept; identities and protocols accumulate.
Merge(e, o, age) ==
    [fact       |-> [f \in Field |-> IF e.fact[f] = None THEN o.fact[f] ELSE e.fact[f]],
     identities |-> e.identities \cup o.identities,
     protocols  |-> e.protocols \cup {o.protocol},
     age        |-> age]

\* observe(o, now) for every address of S under one lock, now being age ago.
Observe(S, o, age) ==
    entries' = [a \in Tracked \cup S |->
                  IF a \notin S THEN entries[a]
                  ELSE Merge(IF a \in Tracked THEN entries[a] ELSE NewEntry, o, age)]

\* Mutant of Expired: nothing is ever too old.
NeverExpired(es) == es

Expired(es) == [a \in {b \in DOMAIN es : es[b].age <= Ttl} |-> es[a]]

Older(es) == [a \in DOMAIN es |->
                [es[a] EXCEPT !.age = IF @ <= Ttl THEN @ + 1 ELSE @]]

-----------------------------------------------------------------------------
(* devices(): union-find over the addresses, then one device per group.     *)

\* The elements of S in the order of the pairs in before: n - 1 come before the n-th.
\* (A definition to reason from, which SetToSortSeq has not: TLC sorts for it.)
Sorted(S, before) ==
    [n \in 1 .. Cardinality(S) |->
        CHOOSE x \in S : Cardinality({y \in S : <<y, x>> \in before}) = n - 1]

Least(S) == CHOOSE x \in S : \A y \in S : x <= y

\* The root of a in the parent array.
Find(parent, a) ==
    LET root[x \in DOMAIN parent] == IF parent[x] = x THEN x ELSE root[parent[x]]
    IN root[a]

\* Mutant of Union: a's parent changes, not the parent of a's root.
UnionNotRoot(uf, a, id) ==
    IF uf.owner[id] = None THEN [uf EXCEPT !.owner[id] = a]
    ELSE [uf EXCEPT !.parent[a] = Find(uf.parent, uf.owner[id])]

\* The first address with identity id owns it; a later one joins its group.
Union(uf, a, id) ==
    IF uf.owner[id] = None THEN [uf EXCEPT !.owner[id] = a]
    ELSE [uf EXCEPT !.parent[Find(uf.parent, a)] = Find(uf.parent, uf.owner[id])]

\* Every address with each of its identities, in the order of both.
LinkSet(es)   == {l \in (DOMAIN es) \X Identity : l[2] \in es[l[1]].identities}
LinkBefore(S) == {p \in S \X S : \/ p[1][1] < p[2][1]
                                 \/ p[1][1] = p[2][1] /\ p[1][2] < p[2][2]}
Links(es)     == Sorted(LinkSet(es), LinkBefore(LinkSet(es)))

\* Nobody has joined anybody.
Alone(es) == [parent |-> [a \in DOMAIN es |-> a], owner |-> [id \in Identity |-> None]]

\* Union-find after each number of links.
Joined(es) ==
    LET links == Links(es)
        uf[n \in 0 .. Len(links)] ==
            IF n = 0 THEN Alone(es) ELSE Union(uf[n - 1], links[n][1], links[n][2])
    IN uf

\* The parent array after all of them.
Parents(es) == Joined(es)[Len(Links(es))].parent

Groups(es) ==
    LET parent == Parents(es) IN
    {{b \in DOMAIN es : Find(parent, b) = Find(parent, a)} : a \in DOMAIN es}

Primary(g) == CHOOSE a \in g : \A b \in g :
    \/ AddressRank[a] < AddressRank[b]
    \/ AddressRank[a] = AddressRank[b] /\ a <= b

\* Mutant of DeviceId: the name stands for the device.
DeviceIdByName(es, g) == <<"name", es[Least(g)].fact["name"]>>

\* The least identity known of the group, or its address.
DeviceId(es, g) ==
    LET ids == UNION {es[a].identities : a \in g} IN
    IF ids = {} THEN <<"address", Primary(g)>> ELSE <<"identity", Least(ids)>>

\* merge_group: the port is the primary address's, any other fact the first known.
MergeGroup(es, g) ==
    LET with(f)  == {a \in g : es[a].fact[f] # None}
        first(f) == IF with(f) = {} THEN None ELSE es[Least(with(f))].fact[f]
    IN [id        |-> DeviceId(es, g),
        address   |-> Primary(g),
        protocols |-> UNION {es[a].protocols : a \in g},
        fact      |-> [f \in Field |->
                         IF f = "port" THEN es[Primary(g)].fact[f] ELSE first(f)]]

\* The list's order: best protocol, then name, then address.
NameKey(d) == IF d.fact["name"] = None THEN <<UnknownName, Printed[d.address]>>
              ELSE <<d.fact["name"], 0>>
NameLess(k, l) == k[1] < l[1] \/ (k[1] = l[1] /\ k[2] < l[2])

DeviceLess(d, e) ==
    \/ Least(d.protocols) < Least(e.protocols)
    \/ /\ Least(d.protocols) = Least(e.protocols)
       /\ \/ NameLess(NameKey(d), NameKey(e))
          \/ NameKey(d) = NameKey(e) /\ d.address < e.address

DeviceSet(es)   == {MergeGroup(es, g) : g \in Groups(es)}
DeviceBefore(S) == {p \in S \X S : DeviceLess(p[1], p[2])}
Devices(es)     == Sorted(DeviceSet(es), DeviceBefore(DeviceSet(es)))

-----------------------------------------------------------------------------
(* Properties.                                                              *)

Related(a, b) == entries[a].identities \cap entries[b].identities # {}

\* The list "coalesces addresses that share any stable identity into one
\* device": its groups are exactly the connected components of sharing an
\* identity, whatever the order in which union-find meets the addresses.
GroupsAreComponents ==
    LET groups == Groups(entries) IN
    /\ UNION groups = Tracked
    /\ \A g \in groups, h \in groups : g # h =>
         \A a \in g, b \in h : a # b /\ ~Related(a, b)
    /\ \A g \in groups : \A S \in (SUBSET g) \ {{}, g} :
         \E a \in S, b \in g \ S : Related(a, b)

\* A command names a device by its id alone, so no two listed devices may
\* share one; and the list, built from a hash map, has one possible order.
ListIsUnambiguous ==
    LET list == Devices(entries) IN
    \A i, j \in DOMAIN list : i < j =>
        /\ list[i].id # list[j].id
        /\ DeviceLess(list[i], list[j]) /\ ~DeviceLess(list[j], list[i])

=============================================================================
