--------------------------- MODULE RegistryProofs ---------------------------
(***************************************************************************)
(* The list of devices, for any entries: union-find over the sorted links  *)
(* gives the connected components of sharing an identity, and the list     *)
(* has one order and no two devices with one id.  What a recursive         *)
(* function computes is proved by induction over sets of numbers, which    *)
(* needs no operator parameter.                                            *)
(***************************************************************************)
EXTENDS DeviceRegistry, FiniteSetTheorems, TLAPS

-----------------------------------------------------------------------------
(* Numbers: induction without an operator, and least elements.               *)

\* Induction, for a set: without its least element a set of numbers up to m would be
\* mapped one to one into less than itself by taking 1 away.
LEMMA SetInduction ==
    ASSUME NEW S, 0 \in S, \A n \in Nat : n \in S => n + 1 \in S
    PROVE  Nat \subseteq S
<1> SUFFICES ASSUME NEW m \in Nat, m \notin S PROVE FALSE
  OBVIOUS
<1> DEFINE T == (0 .. m) \ S    U == T \ {m}    f == [x \in T |-> x - 1]
<1>1. IsFiniteSet(T)
  <2>1. IsFiniteSet(0 .. m)
    BY FS_Interval
  <2>2. T \in SUBSET (0 .. m)
    OBVIOUS
  <2> HIDE DEF T
  <2> QED BY <2>1, <2>2, FS_Subset
<1>2. m \in T
  OBVIOUS
<1>3. \A x \in T : x \in Nat /\ x - 1 \in U
  <2> SUFFICES ASSUME NEW x \in T PROVE x \in Nat /\ x - 1 \in U
    OBVIOUS
  <2>1. x \in 0 .. m /\ x \notin S /\ x # 0
    OBVIOUS
  <2>2. x - 1 \in Nat /\ (x - 1) + 1 = x /\ x - 1 \in 0 .. m /\ x - 1 # m
    BY <2>1
  <2>3. x - 1 \notin S
    BY <2>1, <2>2
  <2> QED BY <2>1, <2>2, <2>3
<1>4. f \in [T -> U]
  BY <1>3
<1> HIDE DEF T
<1>5. IsFiniteSet(U) /\ Cardinality(U) = Cardinality(T) - 1 /\ Cardinality(T) \in Nat
  BY <1>1, <1>2, FS_RemoveElement, FS_CardinalityType
<1>6. Cardinality(U) < Cardinality(T)
  BY <1>5
<1> HIDE DEF U
<1>7. PICK x, y \in T : x # y /\ f[x] = f[y]
  <2> HIDE DEF f
  <2> QED BY <1>1, <1>4, <1>5, <1>6, FS_PigeonHole
<1> QED BY <1>3, <1>7

\* A set of numbers that is not empty has a least one.
LEMMA LeastIs ==
    ASSUME NEW S \in SUBSET Nat, S # {}
    PROVE  Least(S) \in S /\ \A y \in S : Least(S) <= y
<1> DEFINE T == {n \in Nat : \A k \in S : n <= k}
<1>1. \E x \in S : \A y \in S : x <= y
  <2> SUFFICES ASSUME \A x \in S : \E y \in S : y < x PROVE FALSE
    OBVIOUS
  <2>1. 0 \in T
    OBVIOUS
  <2>2. \A n \in Nat : n \in T => n + 1 \in T
    <3> SUFFICES ASSUME NEW n \in Nat, n \in T, NEW k \in S PROVE n + 1 <= k
      OBVIOUS
    <3>1. PICK j \in S : j < k
      OBVIOUS
    <3>2. n <= j
      OBVIOUS
    <3> QED BY <3>1, <3>2
  <2> HIDE DEF T
  <2>3. Nat \subseteq T
    BY <2>1, <2>2, SetInduction
  <2>4. PICK s \in S : TRUE
    OBVIOUS
  <2>5. s + 1 \in T
    BY <2>3
  <2>6. s + 1 <= s
    BY <2>5 DEF T
  <2> QED BY <2>6
<1> QED BY <1>1 DEF Least

-----------------------------------------------------------------------------
(* Sorting.                                                                  *)

\* before orders S: no two alike, nothing before itself.
Orders(before, S) ==
    /\ \A x \in S : <<x, x>> \notin before
    /\ \A x, y \in S : x # y => <<x, y>> \in before \/ <<y, x>> \in before
    /\ \A x, y, z \in S : <<x, y>> \in before /\ <<y, z>> \in before => <<x, z>> \in before

Below(S, before, x) == {y \in S : <<y, x>> \in before}

\* How many elements come before one says which it is.
LEMMA Ranks ==
    ASSUME NEW S, IsFiniteSet(S), NEW before, Orders(before, S)
    PROVE  /\ Cardinality(S) \in Nat
           /\ \A x \in S : Cardinality(Below(S, before, x)) \in 0 .. Cardinality(S) - 1
           /\ \A x, y \in S : <<x, y>> \in before =>
                Cardinality(Below(S, before, x)) < Cardinality(Below(S, before, y))
<1> DEFINE B(x) == Below(S, before, x)
<1>1. \A x \in S : B(x) \in SUBSET S /\ x \notin B(x)
  BY DEF Below, Orders
<1>2. \A x \in S : IsFiniteSet(B(x)) /\ Cardinality(B(x)) \in Nat
  <2> TAKE x \in S
  <2> DEFINE b == B(x)
  <2>1. b \in SUBSET S
    BY <1>1
  <2> HIDE DEF b
  <2>2. IsFiniteSet(b) /\ Cardinality(b) \in Nat
    BY <2>1, FS_Subset, FS_CardinalityType
  <2> QED BY <2>2 DEF b
<1>3. ASSUME NEW x \in S, NEW W \in SUBSET S, x \notin B(x), B(x) \cup {x} \subseteq W
      PROVE  Cardinality(B(x)) + 1 <= Cardinality(W)
  <2> DEFINE b == B(x)    c == b \cup {x}
  <2>1. x \notin b /\ c \in SUBSET W /\ IsFiniteSet(b) /\ Cardinality(b) \in Nat
    BY <1>2, <1>3
  <2> HIDE DEF b
  <2>2. IsFiniteSet(W)
    BY <1>3, FS_Subset
  <2>3. Cardinality(c) = Cardinality(b) + 1
    BY <2>1, FS_AddElement
  <2>4. Cardinality(c) <= Cardinality(W)
    <3> HIDE DEF c
    <3> QED BY <2>1, <2>2, FS_Subset
  <2> QED BY <2>3, <2>4 DEF b
<1>4. Cardinality(S) \in Nat
  BY FS_CardinalityType
<1>5. \A x \in S : Cardinality(B(x)) \in 0 .. Cardinality(S) - 1
  <2> TAKE x \in S
  <2>1. Cardinality(B(x)) + 1 <= Cardinality(S)
    BY <1>1, <1>3
  <2> QED BY <1>2, <1>4, <2>1
<1>6. \A x, y \in S : <<x, y>> \in before => Cardinality(B(x)) < Cardinality(B(y))
  <2> SUFFICES ASSUME NEW x \in S, NEW y \in S, <<x, y>> \in before
               PROVE  Cardinality(B(x)) < Cardinality(B(y))
    OBVIOUS
  <2>1. B(x) \cup {x} \subseteq B(y) /\ B(y) \in SUBSET S /\ x \notin B(x)
    BY <1>1 DEF Below, Orders
  <2> HIDE DEF B
  <2>2. Cardinality(B(x)) + 1 <= Cardinality(B(y))
    BY <1>3, <2>1
  <2> QED BY <1>2, <2>2
<1> QED BY <1>4, <1>5, <1>6

\* Sorted has each element once, and in order.
LEMMA SortedIs ==
    ASSUME NEW S, IsFiniteSet(S), NEW before, Orders(before, S)
    PROVE  /\ Sorted(S, before) \in Seq(S)
           /\ Len(Sorted(S, before)) = Cardinality(S)
           /\ \A x \in S : \E n \in 1 .. Cardinality(S) : Sorted(S, before)[n] = x
           /\ \A i, j \in 1 .. Cardinality(S) : i < j =>
                <<Sorted(S, before)[i], Sorted(S, before)[j]>> \in before
<1> DEFINE N == Cardinality(S)    T == 0 .. N - 1    s == Sorted(S, before)
           rank == [x \in S |-> Cardinality(Below(S, before, x))]
<1>1. /\ N \in Nat /\ rank \in [S -> T]
      /\ \A x, y \in S : <<x, y>> \in before => rank[x] < rank[y]
  BY Ranks
<1>2. /\ DOMAIN s = 1 .. N
      /\ \A n \in 1 .. N : s[n] = CHOOSE x \in S : Cardinality({y \in S : <<y, x>> \in before}) = n - 1
      /\ \A x \in S : rank[x] = Cardinality({y \in S : <<y, x>> \in before})
      /\ s = [n \in 1 .. N |-> s[n]]
  <2>1. \A x \in S : rank[x] = Cardinality({y \in S : <<y, x>> \in before})
    BY DEF Below
  <2> DEFINE e(n) == CHOOSE x \in S : Cardinality({y \in S : <<y, x>> \in before}) = n - 1
  <2>2. s = [n \in 1 .. N |-> e(n)]
    BY DEF Sorted
  <2> HIDE DEF s, rank, N, e
  <2>3. DOMAIN s = 1 .. N /\ (\A n \in 1 .. N : s[n] = e(n)) /\ s = [n \in 1 .. N |-> s[n]]
    BY <2>2
  <2> QED BY <2>1, <2>3 DEF e
<1> HIDE DEF N, s, rank
<1>3. \A x, y \in S : rank[x] = rank[y] => x = y
  <2> SUFFICES ASSUME NEW x \in S, NEW y \in S, rank[x] = rank[y], x # y PROVE FALSE
    OBVIOUS
  <2>1. <<x, y>> \in before \/ <<y, x>> \in before
    BY DEF Orders
  <2>2. rank[x] < rank[y] \/ rank[y] < rank[x]
    BY <1>1, <2>1
  <2>3. rank[x] \in Int
    BY <1>1
  <2> QED BY <2>2, <2>3
<1>4. IsFiniteSet(T) /\ Cardinality(T) = N
  BY <1>1, FS_Interval
<1>5. \A k \in T : \E x \in S : rank[x] = k
  <2> HIDE DEF T
  <2>1. rank \in Injection(S, T)
    BY <1>1, <1>3 DEF Injection, IsInjective
  <2>2. rank \in Surjection(S, T)
    BY <1>4, <2>1, FS_Injection DEF N
  <2> QED BY <2>2 DEF Surjection
<1>6. \A n \in 1 .. N : s[n] \in S /\ rank[s[n]] = n - 1
  <2> TAKE n \in 1 .. N
  <2>1. n - 1 \in T
    BY <1>1
  <2>2. \E x \in S : rank[x] = n - 1
    BY <1>5, <2>1
  <2> QED BY <1>2, <2>2
<1>7. s \in Seq(S) /\ Len(s) = N
  BY <1>1, <1>2, <1>6
<1>8. \A x \in S : \E n \in 1 .. N : s[n] = x
  <2> TAKE x \in S
  <2>1. rank[x] + 1 \in 1 .. N /\ (rank[x] + 1) - 1 = rank[x]
    BY <1>1
  <2> QED BY <1>3, <1>6, <2>1
<1>9. \A i, j \in 1 .. N : i < j => <<s[i], s[j]>> \in before
  <2> SUFFICES ASSUME NEW i \in 1 .. N, NEW j \in 1 .. N, i < j
               PROVE  <<s[i], s[j]>> \in before
    OBVIOUS
  <2>1. s[i] \in S /\ s[j] \in S /\ rank[s[i]] < rank[s[j]] /\ rank[s[i]] \in T
    BY <1>1, <1>6
  <2>2. s[i] # s[j] /\ ~(rank[s[j]] < rank[s[i]])
    BY <1>1, <1>6
  <2> QED BY <1>1, <2>1, <2>2 DEF Orders
<1> QED BY <1>7, <1>8, <1>9 DEF N, s

-----------------------------------------------------------------------------
(* Union-find: the parent array is a forest.                                 *)

\* The parent array is a forest: root is the root of each address, and depth falls on
\* the way to it.
Forest(parent, root, depth) ==
    /\ root \in [DOMAIN parent -> DOMAIN parent] /\ depth \in [DOMAIN parent -> Nat]
    /\ parent \in [DOMAIN parent -> DOMAIN parent]
    /\ \A x \in DOMAIN parent : root[x] = (IF parent[x] = x THEN x ELSE root[parent[x]])
    /\ \A x \in DOMAIN parent : parent[x] # x => depth[parent[x]] < depth[x]

\* What holds of an address if it holds of its parent holds of all.
LEMMA ForestInduction ==
    ASSUME NEW parent, NEW root, NEW depth, Forest(parent, root, depth), NEW S,
           \A x \in DOMAIN parent : parent[x] = x \/ parent[x] \in S => x \in S
    PROVE  DOMAIN parent \subseteq S
<1> DEFINE D == DOMAIN parent    T == {n \in Nat : \A x \in D : depth[x] < n => x \in S}
<1>1. 0 \in T
  BY DEF Forest
<1>2. ASSUME NEW n \in Nat, \A x \in D : depth[x] < n => x \in S, NEW x \in D, depth[x] < n + 1
      PROVE  x \in S
  <2>1. CASE parent[x] = x
    BY <2>1
  <2>2. CASE parent[x] # x
    <3>1. parent[x] \in D /\ depth[parent[x]] < depth[x]
      BY <2>2 DEF Forest
    <3>2. depth[parent[x]] \in Nat /\ depth[x] \in Nat
      BY <3>1 DEF Forest
    <3>3. depth[parent[x]] < n
      BY <1>2, <3>1, <3>2
    <3> QED BY <1>2, <3>1, <3>3
  <2> QED BY <2>1, <2>2
<1>3. Nat \subseteq T
  <2>1. \A n \in Nat : n \in T => n + 1 \in T
    BY <1>2
  <2> HIDE DEF T
  <2> QED BY <1>1, <2>1, SetInduction
<1> HIDE DEF T
<1> SUFFICES ASSUME NEW x \in D PROVE x \in S
  OBVIOUS
<1>4. depth[x] \in Nat
  BY DEF Forest
<1>5. depth[x] + 1 \in T /\ depth[x] < depth[x] + 1
  BY <1>3, <1>4
<1> QED BY <1>5 DEF T

\* Find finds the root.
LEMMA FindIs ==
    ASSUME NEW parent, NEW root, NEW depth, Forest(parent, root, depth)
    PROVE  \A a \in DOMAIN parent : Find(parent, a) = root[a]
<1> DEFINE D == DOMAIN parent
           Solves(g) == g = [x \in D |-> IF parent[x] = x THEN x ELSE g[parent[x]]]
           r == CHOOSE g : Solves(g)
           S == {x \in D : r[x] = root[x]}
<1>1. Solves(root)
  BY DEF Forest
<1>2. Solves(r)
  <2> HIDE DEF Solves
  <2> QED BY <1>1
<1>3. \A x \in D : r[x] = IF parent[x] = x THEN x ELSE r[parent[x]]
  <2> HIDE DEF r
  <2> QED BY <1>2
<1>4. \A a \in D : Find(parent, a) = r[a]
  BY DEF Find
<1> HIDE DEF r
<1>5. \A x \in D : parent[x] = x \/ parent[x] \in S => x \in S
  BY <1>3 DEF Forest
<1>6. D \subseteq S
  <2> HIDE DEF S
  <2> QED BY <1>5, ForestInduction
<1> QED BY <1>4, <1>6

\* A root is its own parent and its own root.
LEMMA RootIsRoot ==
    ASSUME NEW parent, NEW root, NEW depth, Forest(parent, root, depth)
    PROVE  \A a \in DOMAIN parent : parent[root[a]] = root[a] /\ root[root[a]] = root[a]
<1> DEFINE D == DOMAIN parent    S == {x \in D : parent[root[x]] = root[x]}
<1>1. \A x \in D : parent[x] = x \/ parent[x] \in S => x \in S
  BY DEF Forest
<1>2. D \subseteq S
  <2> HIDE DEF S
  <2> QED BY <1>1, ForestInduction
<1> QED BY <1>2 DEF Forest

\* With a's root hung below b's the parents are a forest, in which a's tree has b's root.
CanJoin(parent, root, a, b) ==
    \E after, below :
      /\ Forest([parent EXCEPT ![root[a]] = root[b]], after, below)
      /\ \A x \in DOMAIN parent : after[x] = (IF root[x] = root[a] THEN root[b] ELSE root[x])

LEMMA JoinTrees ==
    ASSUME NEW parent, NEW root, NEW depth, Forest(parent, root, depth),
           NEW a \in DOMAIN parent, NEW b \in DOMAIN parent
    PROVE  CanJoin(parent, root, a, b)
<1> DEFINE D == DOMAIN parent    joined == [parent EXCEPT ![root[a]] = root[b]]
           after == [x \in D |-> IF root[x] = root[a] THEN root[b] ELSE root[x]]
           below == [x \in D |-> IF root[x] = root[a] THEN depth[x] + depth[root[b]] + 1
                                 ELSE depth[x]]
<1>1. /\ root \in [D -> D] /\ depth \in [D -> Nat] /\ parent = [x \in D |-> parent[x]]
      /\ \A x \in D : /\ parent[x] \in D
                      /\ root[x] = (IF parent[x] = x THEN x ELSE root[parent[x]])
                      /\ parent[x] # x => depth[parent[x]] < depth[x]
                      /\ parent[root[x]] = root[x] /\ root[root[x]] = root[x]
  BY RootIsRoot DEF Forest
<1>2. /\ DOMAIN joined = D /\ joined \in [D -> D]
      /\ \A x \in D : joined[x] = (IF x = root[a] THEN root[b] ELSE parent[x])
  BY <1>1
<1>3. CASE root[a] = root[b]
  <2> HIDE DEF joined
  <2>1. \A x \in D : joined[x] = parent[x]
    BY <1>1, <1>2, <1>3
  <2>2. Forest(joined, root, depth)
    BY <1>1, <1>2, <2>1 DEF Forest
  <2>3. \A x \in D : root[x] = (IF root[x] = root[a] THEN root[b] ELSE root[x])
    BY <1>3
  <2> QED BY <2>2, <2>3 DEF joined, CanJoin
<1>4. CASE root[a] # root[b]
  <2>1. /\ after \in [D -> D] /\ below \in [D -> Nat]
        /\ \A x \in D : root[x] = root[a] =>
             after[x] = root[b] /\ below[x] = depth[x] + depth[root[b]] + 1
        /\ \A x \in D : root[x] # root[a] => after[x] = root[x] /\ below[x] = depth[x]
    BY <1>1
  <2> HIDE DEF joined, after, below
  <2>2. ASSUME NEW x \in D
        PROVE  /\ after[x] = (IF joined[x] = x THEN x ELSE after[joined[x]])
               /\ joined[x] # x => below[joined[x]] < below[x]
    <3>1. CASE x = root[a]
      <4>1. /\ joined[x] = root[b] /\ root[x] = root[a] /\ root[root[b]] = root[b]
            /\ root[b] \in D /\ root[b] # x
        BY <1>1, <1>2, <1>4, <3>1
      <4>2. after[x] = root[b] /\ after[root[b]] = root[b]
        BY <1>4, <2>1, <4>1
      <4>3. below[root[b]] = depth[root[b]] /\ below[x] = depth[x] + depth[root[b]] + 1
        BY <1>4, <2>1, <4>1
      <4>4. depth[root[b]] \in Nat /\ depth[x] \in Nat
        BY <1>1, <4>1
      <4> QED BY <4>1, <4>2, <4>3, <4>4
    <3>2. CASE x # root[a] /\ parent[x] = x
      <4>1. joined[x] = x /\ root[x] = x
        BY <1>1, <1>2, <3>2
      <4> QED BY <2>1, <3>2, <4>1
    <3>3. CASE x # root[a] /\ parent[x] # x
      <4>1. joined[x] = parent[x] /\ parent[x] \in D /\ root[parent[x]] = root[x]
        BY <1>1, <1>2, <3>3
      <4>2. /\ depth[parent[x]] < depth[x] /\ depth[parent[x]] \in Nat /\ depth[x] \in Nat
            /\ depth[root[b]] \in Nat
        BY <1>1, <3>3, <4>1
      <4>3. CASE root[x] = root[a]
        BY <2>1, <3>3, <4>1, <4>2, <4>3
      <4>4. CASE root[x] # root[a]
        BY <2>1, <3>3, <4>1, <4>2, <4>4
      <4> QED BY <4>3, <4>4
    <3> QED BY <3>1, <3>2, <3>3
  <2>3. Forest(joined, after, below)
    BY <1>2, <2>1, <2>2 DEF Forest
  <2>4. \A x \in D : after[x] = (IF root[x] = root[a] THEN root[b] ELSE root[x])
    BY <2>1
  <2> QED BY <2>3, <2>4 DEF joined, CanJoin
<1> QED BY <1>3, <1>4

-----------------------------------------------------------------------------
(* Its links, one after another.                                             *)

Entries(es) == \E S \in SUBSET Address : es \in [S -> Entry]

\* S has whoever shares an identity with one of it.
Closed(es, S) ==
    \A x \in S, y \in DOMAIN es : es[x].identities \cap es[y].identities # {} => y \in S

\* Union-find after the links in done: an identity's owner has it, whoever was linked
\* by it has the owner's root, and one root never joins what sharing does not.
Serves(es, uf, done, root) ==
    /\ \A id \in Identity : uf.owner[id] # None =>
         uf.owner[id] \in DOMAIN es /\ id \in es[uf.owner[id]].identities
    /\ \A l \in done : uf.owner[l[2]] # None /\ root[uf.owner[l[2]]] = root[l[1]]
    /\ \A S \in SUBSET DOMAIN es : Closed(es, S) =>
         \A x \in S, y \in DOMAIN es : root[x] = root[y] => y \in S

Good(es, uf, done) ==
    /\ uf = [parent |-> uf.parent, owner |-> uf.owner]
    /\ DOMAIN uf.parent = DOMAIN es /\ DOMAIN uf.owner = Identity
    /\ \E root, depth : Forest(uf.parent, root, depth) /\ Serves(es, uf, done, root)

LEMMA AloneIsGood ==
    ASSUME NEW es, Entries(es)
    PROVE  Good(es, Alone(es), {})
<1> DEFINE D == DOMAIN es    root == [x \in D |-> x]    depth == [x \in D |-> 0]
<1>1. Forest(Alone(es).parent, root, depth)
  BY DEF Forest, Alone
<1>2. Serves(es, Alone(es), {}, root)
  BY DEF Serves, Alone
<1> QED BY <1>1, <1>2 DEF Good, Alone

LEMMA UnionIsGood ==
    ASSUME NEW es, Entries(es), NEW uf, NEW done \in SUBSET LinkSet(es), Good(es, uf, done),
           NEW l \in LinkSet(es)
    PROVE  Good(es, Union(uf, l[1], l[2]), done \cup {l})
<1> DEFINE D == DOMAIN es    a == l[1]    id == l[2]    o == uf.owner[id]
           p == uf.parent    new == Union(uf, a, id)
<1>1. /\ a \in D /\ id \in Identity /\ id \in es[a].identities /\ None \notin D
      /\ \A m \in done : m[1] \in D /\ m[2] \in Identity
  BY RegistryAssumption DEF LinkSet, Entries, None
<1>2. /\ uf = [parent |-> p, owner |-> uf.owner]
      /\ DOMAIN p = D /\ DOMAIN uf.owner = Identity
  BY DEF Good
<1>3. PICK root, depth : Forest(p, root, depth) /\ Serves(es, uf, done, root)
  BY DEF Good
<1>4. CASE o = None
  <2>1. /\ new.parent = p /\ DOMAIN new.owner = Identity
        /\ new = [parent |-> new.parent, owner |-> new.owner]
        /\ \A i \in Identity : new.owner[i] = (IF i = id THEN a ELSE uf.owner[i])
    BY <1>1, <1>2, <1>4 DEF Union
  <2> HIDE DEF new
  <2>2. \A m \in done : m[2] # id
    BY <1>3, <1>4 DEF Serves
  <2>3. Serves(es, new, done \cup {l}, root)
    BY <1>1, <1>3, <2>1, <2>2 DEF Serves
  <2> QED BY <1>2, <1>3, <2>1, <2>3 DEF Good, new
<1>5. CASE o # None
  <2>1. o \in D /\ id \in es[o].identities
    BY <1>1, <1>3, <1>5 DEF Serves
  <2>2. Find(p, a) = root[a] /\ Find(p, o) = root[o]
    BY <1>1, <1>2, <1>3, <2>1, FindIs
  <2> DEFINE joined == [p EXCEPT ![root[a]] = root[o]]
  <2>3. new.owner = uf.owner /\ new.parent = joined /\ new = [parent |-> new.parent, owner |-> new.owner]
    BY <1>2, <1>5, <2>2 DEF Union
  <2>4. PICK after, below :
          /\ Forest(joined, after, below)
          /\ \A x \in D : after[x] = (IF root[x] = root[a] THEN root[o] ELSE root[x])
    <3>1. DOMAIN p = D /\ a \in DOMAIN p /\ o \in DOMAIN p /\ Forest(p, root, depth)
      BY <1>1, <1>2, <1>3, <2>1
    <3> HIDE DEF p, a, o, D
    <3>2. CanJoin(p, root, a, o)
      BY <3>1, JoinTrees
    <3> QED BY <3>1, <3>2 DEF CanJoin, joined
  <2>5. DOMAIN joined = D
    BY <1>2
  <2> HIDE DEF joined, new
  <2>6. \A m \in done \cup {l} : new.owner[m[2]] # None /\ after[new.owner[m[2]]] = after[m[1]]
    <3>1. TAKE m \in done \cup {l}
    <3>2. CASE m = l
      BY <1>1, <1>5, <2>1, <2>3, <2>4, <3>2
    <3>3. CASE m \in done
      <4>1. uf.owner[m[2]] # None /\ root[uf.owner[m[2]]] = root[m[1]]
        BY <1>3, <3>3 DEF Serves
      <4>2. uf.owner[m[2]] \in D /\ m[1] \in D
        BY <1>1, <1>3, <3>3, <4>1 DEF Serves
      <4> QED BY <2>3, <2>4, <4>1, <4>2
    <3> QED BY <3>2, <3>3
  <2>7. ASSUME NEW S \in SUBSET D, Closed(es, S), NEW x \in S, NEW y \in D, after[x] = after[y]
        PROVE  y \in S
    <3>1. a \in S <=> o \in S
      BY <1>1, <2>1, <2>7 DEF Closed
    <3>2. \A u \in S, v \in D : root[u] = root[v] => v \in S
      BY <1>3, <2>7 DEF Serves
    <3> QED BY <1>1, <2>1, <2>4, <2>7, <3>1, <3>2
  <2>8. Serves(es, new, done \cup {l}, after)
    <3>1. \A i \in Identity : new.owner[i] # None =>
            new.owner[i] \in D /\ i \in es[new.owner[i]].identities
      BY <1>3, <2>3 DEF Serves
    <3>2. \A S \in SUBSET D : Closed(es, S) => \A x \in S, y \in D : after[x] = after[y] => y \in S
      BY <2>7
    <3> QED BY <2>6, <3>1, <3>2 DEF Serves
  <2> QED BY <1>2, <2>3, <2>4, <2>5, <2>8 DEF Good, new
<1> QED BY <1>4, <1>5

\* The links are finitely many, and in one order.
LEMMA LinksAre ==
    ASSUME NEW es, Entries(es)
    PROVE  /\ Links(es) \in Seq(LinkSet(es))
           /\ \A l \in LinkSet(es) : \E n \in 1 .. Len(Links(es)) : Links(es)[n] = l
<1> DEFINE L == LinkSet(es)
<1>1. IsFiniteSet(L)
  <2>1. IsFiniteSet(Address \X Identity)
    BY RegistryAssumption, FS_Product
  <2>2. L \in SUBSET (Address \X Identity)
    BY DEF LinkSet, Entries
  <2> HIDE DEF L
  <2> QED BY <2>1, <2>2, FS_Subset
<1>2. \A l \in L : l = <<l[1], l[2]>> /\ l[1] \in Int /\ l[2] \in Int
  <2> TAKE l \in L
  <2> DEFINE D == DOMAIN es
  <2>1. D \subseteq Int /\ Identity \subseteq Int
    BY RegistryAssumption DEF Entries
  <2>2. l \in D \X Identity
    BY DEF LinkSet
  <2> HIDE DEF D, L
  <2>3. PICK d \in D, id \in Identity : l = <<d, id>>
    BY <2>2
  <2> QED BY <2>1, <2>3
<1> HIDE DEF L
<1>3. \A l, m \in L : <<l, m>> \in LinkBefore(L) <=> l[1] < m[1] \/ (l[1] = m[1] /\ l[2] < m[2])
  <2> TAKE l \in L, m \in L
  <2> DEFINE q == <<l, m>>
  <2>1. q \in LinkBefore(L) <=> q[1][1] < q[2][1] \/ (q[1][1] = q[2][1] /\ q[1][2] < q[2][2])
    BY DEF LinkBefore
  <2> QED BY <2>1
<1>4. Orders(LinkBefore(L), L)
  <2>1. \A x \in L : <<x, x>> \notin LinkBefore(L)
    BY <1>2, <1>3
  <2>2. \A x, y \in L : x # y => <<x, y>> \in LinkBefore(L) \/ <<y, x>> \in LinkBefore(L)
    BY <1>2, <1>3
  <2>3. \A x, y, z \in L : <<x, y>> \in LinkBefore(L) /\ <<y, z>> \in LinkBefore(L)
          => <<x, z>> \in LinkBefore(L)
    BY <1>2, <1>3
  <2> QED BY <2>1, <2>2, <2>3 DEF Orders
<1> QED BY <1>1, <1>4, SortedIs DEF Links, L

\* Union-find goes from one link to the next.
LEMMA JoinedIs ==
    ASSUME NEW es, Entries(es)
    PROVE  /\ Joined(es)[0] = Alone(es)
           /\ \A n \in 1 .. Len(Links(es)) :
                Joined(es)[n] = Union(Joined(es)[n - 1], Links(es)[n][1], Links(es)[n][2])
<1> DEFINE k == Links(es)    N == Len(k)
           step(g, n) == IF n = 0 THEN Alone(es) ELSE Union(g[n - 1], k[n][1], k[n][2])
           Solves(g, m) == g = [n \in 0 .. m |-> step(g, n)]
           S == {m \in Nat : \E g : Solves(g, m)}
           uf == CHOOSE g : Solves(g, N)
<1>1. 0 \in S
  <2> DEFINE g == [n \in 0 .. 0 |-> Alone(es)]
  <2>1. Solves(g, 0)
    OBVIOUS
  <2> QED BY <2>1
<1>2. ASSUME NEW m \in Nat, m \in S PROVE m + 1 \in S
  <2>1. PICK g : Solves(g, m)
    BY <1>2
  <2> DEFINE h == [n \in 0 .. m + 1 |-> IF n <= m THEN g[n] ELSE step(g, n)]
  <2>2. \A n \in 0 .. m : g[n] = step(g, n)
    <3> HIDE DEF step
    <3> QED BY <2>1
  <2>3. \A n \in 0 .. m + 1 : h[n] = step(h, n)
    <3> TAKE n \in 0 .. m + 1
    <3>1. n # 0 => n - 1 \in 0 .. m + 1 /\ h[n - 1] = g[n - 1]
      OBVIOUS
    <3>2. step(h, n) = step(g, n)
      <4> HIDE DEF h
      <4> QED BY <3>1
    <3> HIDE DEF step
    <3> QED BY <2>2, <3>2
  <2>4. Solves(h, m + 1)
    <3> DEFINE e(n) == IF n <= m THEN g[n] ELSE step(g, n)
    <3>1. h = [n \in 0 .. m + 1 |-> e(n)] /\ \A n \in 0 .. m + 1 : e(n) = step(h, n)
      BY <2>3
    <3> HIDE DEF e, step, h
    <3> QED BY <3>1
  <2> HIDE DEF Solves
  <2> QED BY <2>4
<1>3. N \in Nat
  BY LinksAre
<1>4. N \in S
  <2> HIDE DEF S
  <2> QED BY <1>1, <1>2, <1>3, SetInduction
<1>5. Solves(uf, N)
  <2> HIDE DEF Solves
  <2> QED BY <1>4
<1>6. Joined(es) = uf
  BY DEF Joined
<1> HIDE DEF uf
<1>7. \A n \in 0 .. N : uf[n] = step(uf, n)
  <2> HIDE DEF step
  <2> QED BY <1>5
<1> HIDE DEF k, N
<1>8. uf[0] = Alone(es) /\ \A n \in 1 .. N : uf[n] = Union(uf[n - 1], k[n][1], k[n][2])
  BY <1>3, <1>7
<1> QED BY <1>6, <1>8 DEF k, N

\* In the end every link has been followed.
LEMMA AllJoined ==
    ASSUME NEW es, Entries(es)
    PROVE  Good(es, Joined(es)[Len(Links(es))], LinkSet(es))
<1> DEFINE L == LinkSet(es)    k == Links(es)    N == Len(k)    u == Joined(es)
           Done(n) == {k[m] : m \in 1 .. n}
           S == {n \in Nat : n <= N => Good(es, u[n], Done(n))}
<1>1. /\ k \in Seq(L) /\ N \in Nat /\ \A l \in L : \E n \in 1 .. N : k[n] = l
      /\ \A n \in 1 .. N : k[n] \in L
  BY LinksAre
<1>2. u[0] = Alone(es) /\ \A n \in 1 .. N : u[n] = Union(u[n - 1], k[n][1], k[n][2])
  BY JoinedIs
<1> HIDE DEF L, k, N, u
<1>3. 0 \in S
  <2>1. Done(0) = {}
    OBVIOUS
  <2> QED BY <1>2, <2>1, AloneIsGood
<1>4. ASSUME NEW n \in Nat, n \in S PROVE n + 1 \in S
  <2> SUFFICES ASSUME n + 1 <= N PROVE Good(es, u[n + 1], Done(n + 1))
    OBVIOUS
  <2>1. n + 1 \in 1 .. N /\ (n + 1) - 1 = n /\ n <= N
    BY <1>1
  <2>2. Good(es, u[n], Done(n)) /\ u[n + 1] = Union(u[n], k[n + 1][1], k[n + 1][2])
    BY <1>2, <1>4, <2>1
  <2>3. Done(n + 1) = Done(n) \cup {k[n + 1]}
    OBVIOUS
  <2>4. Done(n) \in SUBSET L /\ k[n + 1] \in L
    BY <1>1, <2>1
  <2> DEFINE d == Done(n)    v == u[n]    l == k[n + 1]
  <2> HIDE DEF d, v, l
  <2>5. Good(es, Union(v, l[1], l[2]), d \cup {l})
    BY <2>2, <2>4, UnionIsGood DEF d, v, l, L
  <2> QED BY <2>2, <2>3, <2>5 DEF d, v, l
<1> HIDE DEF S
<1>5. N \in S
  BY <1>1, <1>3, <1>4, SetInduction
<1>6. Done(N) = L
  BY <1>1
<1>7. Good(es, u[N], Done(N))
  <2> HIDE DEF Done
  <2> QED BY <1>1, <1>5 DEF S
<1> QED BY <1>6, <1>7 DEF L, k, N, u

\* Which addresses are one device: root decides, and it follows from what is shared.
Decides(es, root) ==
    /\ Groups(es) = {{b \in DOMAIN es : root[b] = root[a]} : a \in DOMAIN es}
    /\ \A a, b \in DOMAIN es : es[a].identities \cap es[b].identities # {} => root[a] = root[b]
    /\ \A S \in SUBSET DOMAIN es : Closed(es, S) =>
         \A a \in S, b \in DOMAIN es : root[a] = root[b] => b \in S

LEMMA RootDecides ==
    ASSUME NEW es, Entries(es)
    PROVE  \E root : Decides(es, root)
<1> DEFINE D == DOMAIN es    uf == Joined(es)[Len(Links(es))]    p == Parents(es)
<1>1. Good(es, uf, LinkSet(es)) /\ uf.parent = p
  BY AllJoined DEF Parents
<1>2. PICK root, depth : Forest(p, root, depth) /\ Serves(es, uf, LinkSet(es), root)
  BY <1>1 DEF Good
<1>3. DOMAIN p = D
  BY <1>1 DEF Good
<1>4. \A a \in D : Find(p, a) = root[a]
  BY <1>2, <1>3, FindIs
<1> HIDE DEF p, uf
<1>5. Groups(es) = {{b \in D : Find(p, b) = Find(p, a)} : a \in D}
  BY DEF Groups, p
<1>6. Groups(es) = {{b \in D : root[b] = root[a]} : a \in D}
  BY <1>4, <1>5
<1>7. ASSUME NEW a \in D, NEW b \in D, es[a].identities \cap es[b].identities # {}
      PROVE  root[a] = root[b]
  <2>1. PICK id : id \in es[a].identities /\ id \in es[b].identities
    BY <1>7
  <2>2. es[a].identities \subseteq Identity
    BY DEF Entries, Entry
  <2>3. <<a, id>> \in LinkSet(es) /\ <<b, id>> \in LinkSet(es)
    BY <2>1, <2>2 DEF LinkSet
  <2>4. \A l \in LinkSet(es) : root[uf.owner[l[2]]] = root[l[1]]
    BY <1>2 DEF Serves
  <2>5. root[uf.owner[<<a, id>>[2]]] = root[<<a, id>>[1]] /\ root[uf.owner[<<b, id>>[2]]] = root[<<b, id>>[1]]
    BY <2>3, <2>4
  <2> QED BY <2>5
<1> QED BY <1>2, <1>6, <1>7 DEF Decides, Serves

\* GroupsAreComponents, of any entries.
LEMMA Components == EntriesOK => GroupsAreComponents
<1> SUFFICES ASSUME EntriesOK PROVE GroupsAreComponents
  OBVIOUS
<1> DEFINE D == Tracked
<1>1. Entries(entries)
  BY DEF EntriesOK, Entries
<1>2. PICK root : Decides(entries, root)
  BY <1>1, RootDecides
<1> DEFINE G(a) == {b \in D : root[b] = root[a]}
<1>3. /\ Groups(entries) = {G(a) : a \in D}
      /\ \A a, b \in D : Related(a, b) => root[a] = root[b]
      /\ \A S \in SUBSET D : Closed(entries, S) =>
           \A a \in S, b \in D : root[a] = root[b] => b \in S
  BY <1>2 DEF Decides, Related, Tracked
<1>4. UNION Groups(entries) = Tracked
  BY <1>3
<1>5. \A g \in Groups(entries), h \in Groups(entries) : g # h =>
        \A a \in g, b \in h : a # b /\ ~Related(a, b)
  <2> SUFFICES ASSUME NEW g \in Groups(entries), NEW h \in Groups(entries), g # h,
                      NEW a \in g, NEW b \in h
               PROVE  a # b /\ ~Related(a, b)
    OBVIOUS
  <2>1. PICK c, d \in D : g = G(c) /\ h = G(d)
    BY <1>3
  <2>2. a \in D /\ b \in D /\ root[a] = root[c] /\ root[b] = root[d] /\ root[c] # root[d]
    BY <2>1
  <2> QED BY <1>3, <2>2
<1>6. ASSUME NEW g \in Groups(entries), NEW S \in (SUBSET g) \ {{}, g}
      PROVE  \E a \in S, b \in g \ S : Related(a, b)
  <2> SUFFICES ASSUME \A a \in S, b \in g \ S : ~Related(a, b) PROVE FALSE
    OBVIOUS
  <2>1. PICK c \in D : g = G(c)
    BY <1>3
  <2>2. S \subseteq g /\ S # {} /\ S # g
    BY <1>6
  <2>3. Closed(entries, S)
    BY <1>3, <2>1, <2>2 DEF Closed, Related, Tracked
  <2>4. g \subseteq S
    BY <1>3, <2>1, <2>2, <2>3
  <2> QED BY <2>2, <2>4
<1> QED BY <1>4, <1>5, <1>6 DEF GroupsAreComponents

-----------------------------------------------------------------------------
(* The list.                                                                 *)

\* A group has one primary address, of its own.
LEMMA PrimaryIs ==
    ASSUME NEW g \in SUBSET Address, g # {}
    PROVE  Primary(g) \in g
<1> DEFINE R == {AddressRank[a] : a \in g}    r == Least(R)
           T == {a \in g : AddressRank[a] = r}    p == Least(T)
<1>1. R \in SUBSET Nat /\ R # {}
  <2>1. \A a \in g : AddressRank[a] \in Nat
    BY RegistryAssumption
  <2>2. PICK a \in g : TRUE
    OBVIOUS
  <2> QED BY <2>1, <2>2
<1>2. r \in R /\ \A n \in R : r <= n
  <2> HIDE DEF R
  <2> QED BY <1>1, LeastIs
<1> HIDE DEF r
<1>3. T \in SUBSET Nat /\ T # {}
  BY <1>2, RegistryAssumption
<1>4. p \in T /\ \A a \in T : p <= a
  <2> HIDE DEF T
  <2> QED BY <1>3, LeastIs
<1> HIDE DEF p
<1>5. \A b \in g : AddressRank[p] < AddressRank[b] \/ (AddressRank[p] = AddressRank[b] /\ p <= b)
  <2> TAKE b \in g
  <2>1. r <= AddressRank[b] /\ AddressRank[p] = r
    BY <1>2, <1>4
  <2>2. AddressRank[b] \in Nat /\ r \in Nat
    BY <1>1, <1>2, RegistryAssumption
  <2>3. AddressRank[b] = r => p <= b
    BY <1>4
  <2> QED BY <2>1, <2>2, <2>3
<1>6. p \in g
  BY <1>4
<1> QED BY <1>5, <1>6 DEF Primary

\* What groups are to the list: not empty, apart, and with no identity in common.
LEMMA GroupsApart ==
    ASSUME NEW es, Entries(es)
    PROVE  /\ \A g \in Groups(es) : g \in SUBSET DOMAIN es /\ g # {} /\ g \in SUBSET Address
           /\ \A g, h \in Groups(es) : g # h => \A a \in g, b \in h :
                a # b /\ es[a].identities \cap es[b].identities = {}
<1> DEFINE D == DOMAIN es
<1>1. PICK root : Decides(es, root)
  BY RootDecides
<1>2. D \subseteq Address
  BY DEF Entries
<1>3. /\ \A g \in Groups(es) : \E a \in D : g = {b \in D : root[b] = root[a]}
      /\ \A a, b \in D : es[a].identities \cap es[b].identities # {} => root[a] = root[b]
  BY <1>1 DEF Decides
<1>4. \A g \in Groups(es) : g \in SUBSET D /\ g # {}
  BY <1>3
<1>5. ASSUME NEW g \in Groups(es), NEW h \in Groups(es), g # h, NEW a \in g, NEW b \in h
      PROVE  a # b /\ es[a].identities \cap es[b].identities = {}
  <2>1. PICK c, d \in D : g = {x \in D : root[x] = root[c]} /\ h = {x \in D : root[x] = root[d]}
    BY <1>3
  <2>2. a \in D /\ b \in D /\ root[a] = root[c] /\ root[b] = root[d] /\ root[c] # root[d]
    BY <1>5, <2>1
  <2> QED BY <1>3, <2>2
<1> QED BY <1>2, <1>4, <1>5

\* The device of a group, as far as the list compares it.
LEMMA DeviceOf ==
    ASSUME NEW es, Entries(es), NEW g \in SUBSET DOMAIN es, g # {}
    PROVE  LET d == MergeGroup(es, g) IN
           /\ d.address = Primary(g) /\ d.address \in g /\ d.id = DeviceId(es, g)
           /\ Least(d.protocols) \in Nat
           /\ NameKey(d)[1] \in Nat /\ NameKey(d)[2] \in Nat
           /\ NameKey(d) = <<NameKey(d)[1], NameKey(d)[2]>>
<1> DEFINE d == MergeGroup(es, g)    P == UNION {es[a].protocols : a \in g}
           W == {a \in g : es[a].fact["name"] # None}
           n == IF W = {} THEN None ELSE es[Least(W)].fact["name"]
<1>1. g \in SUBSET Address /\ \A a \in g : es[a] \in Entry
  BY DEF Entries
<1>2. d.address = Primary(g) /\ d.id = DeviceId(es, g) /\ d.protocols = P /\ d.fact["name"] = n
  BY DEF MergeGroup, Field
<1> HIDE DEF d
<1>3. Primary(g) \in g
  BY <1>1, PrimaryIs
<1>4. Least(P) \in Nat
  <2>1. P \in SUBSET Nat /\ P # {}
    BY <1>1 DEF Entry, Protocol
  <2> HIDE DEF P
  <2> QED BY <2>1, LeastIs
<1>5. n \in Nat
  <2>1. \A a \in g : es[a].fact["name"] \in Nat
    <3> TAKE a \in g
    <3>1. es[a].fact \in [Field -> Value \cup {None}]
      BY <1>1 DEF Entry, Facts
    <3>2. es[a].fact["name"] \in Value \cup {None}
      BY <3>1 DEF Field
    <3>3. Value \cup {None} \subseteq Nat
      BY RegistryAssumption DEF None
    <3> QED BY <3>2, <3>3
  <2>2. W \in SUBSET Nat
    BY <1>1, RegistryAssumption
  <2>3. CASE W # {}
    <3>1. Least(W) \in W
      <4> HIDE DEF W
      <4> QED BY <2>2, <2>3, LeastIs
    <3> QED BY <2>1, <2>3, <3>1
  <2>4. CASE W = {}
    BY <2>4 DEF None
  <2> QED BY <2>3, <2>4
<1> HIDE DEF n, P
<1>6. UnknownName \in Nat /\ Printed[d.address] \in Nat
  BY <1>1, <1>2, <1>3, RegistryAssumption
<1>7. NameKey(d)[1] \in Nat /\ NameKey(d)[2] \in Nat /\ NameKey(d) = <<NameKey(d)[1], NameKey(d)[2]>>
  BY <1>2, <1>5, <1>6 DEF NameKey
<1> QED BY <1>2, <1>3, <1>4, <1>7 DEF d

\* Devices of different groups differ in what the list compares last, the address.
LEMMA DevicesOrdered ==
    ASSUME NEW es, Entries(es)
    PROVE  /\ IsFiniteSet(DeviceSet(es))
           /\ Orders(DeviceBefore(DeviceSet(es)), DeviceSet(es))
<1> DEFINE S == DeviceSet(es)    before == DeviceBefore(S)
           P(d) == Least(d.protocols)    K(d) == NameKey(d)[1]    Q(d) == NameKey(d)[2]
<1>1. \A d \in S : \E g \in Groups(es) : d = MergeGroup(es, g)
  BY DEF DeviceSet
<1>2. \A d \in S : \E g \in Groups(es) : d = MergeGroup(es, g) /\ d.address \in g
  BY <1>1, GroupsApart, DeviceOf
<1>3. \A d \in S : /\ d.address \in Address /\ d.address \in Nat
                   /\ P(d) \in Nat /\ K(d) \in Nat /\ Q(d) \in Nat
                   /\ NameKey(d) = <<K(d), Q(d)>>
  BY <1>1, GroupsApart, DeviceOf, RegistryAssumption
<1>4. \A d, e \in S : d.address = e.address => d = e
  BY <1>2, GroupsApart
<1> HIDE DEF S
<1>5. IsFiniteSet(S)
  <2> DEFINE f == [d \in S |-> d.address]
  <2>1. f \in Injection(S, Address)
    BY <1>3, <1>4 DEF Injection, IsInjective
  <2> HIDE DEF f
  <2> QED BY <2>1, FS_Injection, RegistryAssumption
<1>6. \A d, e \in S : <<d, e>> \in before <=>
        P(d) < P(e) \/ (P(d) = P(e) /\ (K(d) < K(e) \/ (K(d) = K(e) /\ Q(d) < Q(e))
                           \/ (K(d) = K(e) /\ Q(d) = Q(e) /\ d.address < e.address)))
  <2> TAKE d \in S, e \in S
  <2> DEFINE q == <<d, e>>
  <2>1. q \in before <=> DeviceLess(q[1], q[2])
    BY DEF DeviceBefore
  <2>2. NameKey(d) = NameKey(e) <=> K(d) = K(e) /\ Q(d) = Q(e)
    BY <1>3
  <2> QED BY <1>3, <2>1, <2>2 DEF DeviceLess, NameLess
<1> HIDE DEF before, P, K, Q
<1>7. \A d \in S : <<d, d>> \notin before
  BY <1>3, <1>6
<1>8. \A d, e \in S : d # e => <<d, e>> \in before \/ <<e, d>> \in before
  BY <1>3, <1>4, <1>6
<1>9. \A d, e, f \in S : <<d, e>> \in before /\ <<e, f>> \in before => <<d, f>> \in before
  BY <1>3, <1>6
<1> QED BY <1>5, <1>7, <1>8, <1>9 DEF Orders, before, S

\* ListIsUnambiguous, of any entries.
LEMMA Unambiguous == EntriesOK => ListIsUnambiguous
<1> SUFFICES ASSUME EntriesOK PROVE ListIsUnambiguous
  OBVIOUS
<1> DEFINE es == entries    S == DeviceSet(es)    before == DeviceBefore(S)    list == Devices(es)
<1>1. Entries(es)
  BY DEF EntriesOK, Entries
<1> HIDE DEF es
<1>2. IsFiniteSet(S) /\ Orders(before, S)
  BY <1>1, DevicesOrdered
<1>3. /\ list \in Seq(S) /\ Len(list) = Cardinality(S)
      /\ \A i, j \in 1 .. Cardinality(S) : i < j => <<list[i], list[j]>> \in before
  BY <1>2, SortedIs DEF Devices
<1> HIDE DEF list
<1> SUFFICES ASSUME NEW i \in DOMAIN list, NEW j \in DOMAIN list, i < j
             PROVE  /\ list[i].id # list[j].id
                    /\ DeviceLess(list[i], list[j]) /\ ~DeviceLess(list[j], list[i])
  BY DEF ListIsUnambiguous, es, list
<1> DEFINE d == list[i]    e == list[j]
<1>4. d \in S /\ e \in S /\ <<d, e>> \in before
  BY <1>3
<1> HIDE DEF d, e, S
<1>5. <<e, d>> \notin before /\ d # e
  BY <1>2, <1>4 DEF Orders
<1>6. DeviceLess(d, e) /\ ~DeviceLess(e, d)
  <2> DEFINE p == <<d, e>>    q == <<e, d>>
  <2>1. p \in before <=> DeviceLess(p[1], p[2])
    BY <1>4 DEF DeviceBefore
  <2>2. q \in before <=> DeviceLess(q[1], q[2])
    BY <1>4 DEF DeviceBefore
  <2> QED BY <1>4, <1>5, <2>1, <2>2
<1>7. PICK g, h \in Groups(es) : d = MergeGroup(es, g) /\ e = MergeGroup(es, h)
  BY <1>4 DEF DeviceSet, S
<1>8. /\ g # h /\ g \in SUBSET DOMAIN es /\ g # {} /\ h \in SUBSET DOMAIN es /\ h # {}
      /\ \A a \in g, b \in h : a # b /\ es[a].identities \cap es[b].identities = {}
  BY <1>1, <1>5, <1>7, GroupsApart
<1>9. /\ d.id = DeviceId(es, g) /\ Primary(g) \in g
      /\ e.id = DeviceId(es, h) /\ Primary(h) \in h
  BY <1>1, <1>7, <1>8, DeviceOf
<1>10. d.id # e.id
  <2> DEFINE I(k) == UNION {es[a].identities : a \in k}
  <2>1. \A a \in DOMAIN es : es[a].identities \in SUBSET Nat
    BY <1>1, RegistryAssumption DEF Entries, Entry
  <2>2. I(g) \cap I(h) = {} /\ I(g) \in SUBSET Nat /\ I(h) \in SUBSET Nat
    BY <1>8, <2>1
  <2>3. /\ DeviceId(es, g) = (IF I(g) = {} THEN <<"address", Primary(g)>> ELSE <<"identity", Least(I(g))>>)
        /\ DeviceId(es, h) = (IF I(h) = {} THEN <<"address", Primary(h)>> ELSE <<"identity", Least(I(h))>>)
    BY DEF DeviceId
  <2> HIDE DEF I
  <2>4. (I(g) # {} => Least(I(g)) \in I(g)) /\ (I(h) # {} => Least(I(h)) \in I(h))
    BY <2>2, LeastIs
  <2>5. Primary(g) # Primary(h)
    BY <1>8, <1>9
  <2> QED BY <1>9, <2>2, <2>3, <2>4, <2>5
<1> QED BY <1>6, <1>10 DEF d, e

-----------------------------------------------------------------------------
(* Every sequence of calls.                                                 *)

\* Merging an observation into an entry, or into a new one, gives an entry of its age.
LEMMA MergeType ==
    ASSUME NEW e \in Entry \cup {NewEntry}, NEW o \in Observation, NEW age \in 0..(Ttl + 1)
    PROVE  Merge(e, o, age) \in Entry /\ Merge(e, o, age).age = age
<1>1. /\ e.fact \in Facts /\ e.identities \in SUBSET Identity /\ e.protocols \in SUBSET Protocol
  BY DEF Entry, NewEntry, Facts
<1>2. [f \in Field |-> IF e.fact[f] = None THEN o.fact[f] ELSE e.fact[f]] \in Facts
  BY <1>1 DEF Observation, Facts
<1>3. /\ e.identities \cup o.identities \in SUBSET Identity
      /\ e.protocols \cup {o.protocol} \in (SUBSET Protocol) \ {{}}
  BY <1>1 DEF Observation
<1> QED BY <1>2, <1>3 DEF Merge, Entry

\* The registry under every sequence of calls with any observations.
Calls == INSTANCE RegistryCalls WITH Sighting <- Observation

LEMMA CallTypes == EntriesOK /\ [Calls!Next]_entries => EntriesOK'
<1> SUFFICES ASSUME EntriesOK, [Calls!Next]_entries PROVE EntriesOK'
  OBVIOUS
<1>1. PICK S \in SUBSET Address : entries \in [S -> Entry]
  BY DEF EntriesOK
<1>2. Calls!Tracked = S /\ Ttl \in Nat
  BY <1>1, RegistryAssumption DEF Calls!Tracked
<1>3. ASSUME NEW a \in Address, NEW o \in Observation, Calls!See(a, o) PROVE EntriesOK'
  <2>1. entries' = [b \in S \cup {a} |-> IF b \notin {a} THEN entries[b]
                                       ELSE Merge(IF b \in S THEN entries[b] ELSE NewEntry, o, 0)]
    BY <1>2, <1>3 DEF Calls!See, Calls!Observe, Calls!Merge, Merge, Calls!NewEntry, NewEntry,
                      Calls!Field, Field, Calls!None, None
  <2>2. Merge(IF a \in S THEN entries[a] ELSE NewEntry, o, 0) \in Entry
    <3> DEFINE e == IF a \in S THEN entries[a] ELSE NewEntry
    <3>1. e \in Entry \cup {NewEntry} /\ 0 \in 0 .. Ttl + 1
      BY <1>1, <1>2
    <3> HIDE DEF e
    <3>2. Merge(e, o, 0) \in Entry
      BY <3>1, MergeType
    <3> QED BY <3>2 DEF e
  <2>3. entries' \in [S \cup {a} -> Entry] /\ S \cup {a} \in SUBSET Address
    BY <1>1, <2>1, <2>2
  <2> QED BY <2>3 DEF EntriesOK
<1>4. CASE Calls!Expire
  <2>1. entries' \in [{b \in S : entries[b].age <= Ttl} -> Entry]
    BY <1>1, <1>2, <1>4 DEF Calls!Expire, Calls!Expired
  <2> QED BY <2>1 DEF EntriesOK
<1>5. CASE Calls!Tick
  <2>1. \A e \in Entry : [e EXCEPT !.age = IF @ <= Ttl THEN @ + 1 ELSE @] \in Entry
    BY <1>2 DEF Entry
  <2>2. entries' \in [S -> Entry]
    BY <1>1, <1>2, <1>5, <2>1 DEF Calls!Tick, Calls!Older
  <2> QED BY <2>2 DEF EntriesOK
<1>6. CASE UNCHANGED entries
  BY <1>6 DEF EntriesOK
<1> QED BY <1>3, <1>4, <1>5, <1>6 DEF Calls!Next

\* Whatever is observed, aged and expired, in any order: the registry keeps its type.
THEOREM CallsEntriesOK == Calls!Spec => []EntriesOK
<1>1. Calls!Init => EntriesOK
  <2> SUFFICES ASSUME entries = <<>> PROVE EntriesOK
    BY DEF Calls!Init
  <2>1. entries \in [{} -> Entry] /\ {} \in SUBSET Address
    OBVIOUS
  <2> QED BY <2>1 DEF EntriesOK
<1> QED BY <1>1, CallTypes, PTL DEF Calls!Spec

\* devices() coalesces the addresses that share an identity, directly or through others,
\* and no more, after every sequence of observe, expire and the passing of time.
THEOREM CallsGroups == Calls!Spec => []GroupsAreComponents
  BY CallsEntriesOK, Components, PTL

\* The list of devices has one order and no id twice, after every sequence of calls.
THEOREM CallsList == Calls!Spec => []ListIsUnambiguous
  BY CallsEntriesOK, Unambiguous, PTL

=============================================================================
