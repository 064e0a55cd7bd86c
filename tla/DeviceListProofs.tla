-------------------------- MODULE DeviceListProofs --------------------------
(* Theorems about DeviceList, for every set of devices and every number of  *)
(* published lists.                                                         *)
EXTENDS DeviceList, FiniteSetTheorems, TLAPS

LEMMA EmptyIsList == <<>> \in Lists
<1>1. Cardinality(Device) \in Nat
  BY ListAssumption, FS_CardinalityType
<1>2. <<>> \in [1..0 -> Device] /\ 0 \in 0..Cardinality(Device)
  BY <1>1
<1>3. \A i, j \in DOMAIN <<>> : <<>>[i] = <<>>[j] => i = j
  OBVIOUS
<1>. QED BY <1>2, <1>3 DEF Lists

\* A list is a sequence of devices, so each of its rows is a device.
LEMMA RowIsDevice ==
    ASSUME NEW list \in Lists, NEW i \in 0..(Len(list) - 1)
    PROVE  /\ Row(list, i) \in Device /\ Row(list, i) = list[i + 1]
           /\ i \in NoRow..(Cardinality(Device) - 1)
<1>1. PICK n \in 0..Cardinality(Device) : list \in [1..n -> Device]
  BY DEF Lists
<1>2. Cardinality(Device) \in Nat
  BY ListAssumption, FS_CardinalityType
<1>3. list \in Seq(Device) /\ Len(list) = n
  BY <1>1, <1>2
<1>. QED BY <1>1, <1>2, <1>3 DEF Row, NoRow

LEMMA TypeInit == Init => TypeOK
<1> SUFFICES ASSUME Init PROVE TypeOK
  OBVIOUS
<1>1. posted \in Seq(Lists)
  BY DEF Init
<1>2. <<>> = published /\ <<>> = snapshot /\ <<>> = shown
  BY DEF Init
<1>3. published \in Lists /\ snapshot \in Lists /\ shown \in Lists
  BY <1>2, EmptyIsList, Zenon
<1>4. updates \in 0..MaxUpdates
  BY ListAssumption DEF Init
<1>6. unseen \in BOOLEAN /\ scanning \in BOOLEAN
  BY Zenon DEF Init
<1>7. selected \in NoRow..(Cardinality(Device) - 1)
  <2>1. Cardinality(Device) \in Nat
    BY ListAssumption, FS_CardinalityType
  <2>. QED BY <2>1 DEF Init, NoRow
<1>5. choice \in Device \cup {NoDevice} /\ target \in Device \cup {NoDevice}
  BY DEF Init
<1>8. rt \in {"idle", "stored", "serving"} /\ commands \in 0..MaxCommands
  BY ListAssumption DEF Init
<1>. QED BY <1>1, <1>3, <1>4, <1>5, <1>6, <1>7, <1>8 DEF TypeOK

LEMMA TypeStep == TypeOK /\ [Next]_vars => TypeOK'
<1> SUFFICES ASSUME TypeOK, [Next]_vars PROVE TypeOK'
  OBVIOUS
<1> USE ListAssumption DEF TypeOK, discovery, runtime, window
<1>1. CASE \E list \in Lists : Publish(list)
  BY <1>1 DEF Publish
<1>2. CASE RtPost
  <2>1. posted' \in Seq(Lists)
    BY <1>2 DEF RtPost
  <2>. QED BY <1>2, <2>1 DEF RtPost
<1>3. CASE UiDevices
  <2>1. posted' \in Seq(Lists) /\ Head(posted) \in Lists
    BY <1>3 DEF UiDevices
  <2>. QED BY <1>3, <2>1 DEF UiDevices
<1>4. CASE \E i \in 0..Cardinality(Device) : UiSelect(i)
  <2>1. PICK i : UiSelect(i)
    BY <1>4
  <2>2. i \in 0..(Len(shown) - 1)
    BY <2>1 DEF UiSelect
  <2>3. Row(shown, i) \in Device /\ i \in NoRow..(Cardinality(Device) - 1)
    BY <2>2, RowIsDevice
  <2>. QED BY <2>1, <2>3 DEF UiSelect
<1>5. CASE UiPress
  <2>1. selected \in 0..(Len(snapshot) - 1)
    BY <1>5 DEF UiPress
  <2>2. snapshot[selected + 1] \in Device
    BY <2>1, RowIsDevice
  <2>. QED BY <1>5, <2>2 DEF UiPress, Send
<1>6. CASE UiStop \/ UiRescan
  <2>1. CASE UiStop
    <3>1. commands' \in 0..MaxCommands /\ rt' = rt
      BY <2>1 DEF UiStop, Send
    <3>. QED BY <2>1, <3>1 DEF UiStop
  <2>. QED BY <1>6, <2>1 DEF UiRescan
<1>7. CASE RtStore
  BY <1>7 DEF RtStore
<1>8. CASE RtServe \/ RtServed
  <2>1. UNCHANGED <<discovery, snapshot, posted, window>> /\ rt' \in {"idle", "serving"}
    BY <1>8 DEF RtServe, RtServed
  <2>2. commands' \in 0..MaxCommands
    BY <1>8 DEF RtServe, RtServed
  <2>. QED BY <2>1, <2>2
<1>9. CASE UNCHANGED vars
  BY <1>9 DEF vars
<1>. QED BY <1>1, <1>2, <1>3, <1>4, <1>5, <1>6, <1>7, <1>8, <1>9 DEF Next

\* Every variable keeps its type in every reachable state.
THEOREM SpecTypeOK == Spec => []TypeOK
BY TypeInit, TypeStep, PTL DEF Spec

LEMMA FollowStep == TypeOK /\ WindowFollowsSnapshot /\ [Next]_vars => WindowFollowsSnapshot'
<1> SUFFICES ASSUME TypeOK, WindowFollowsSnapshot, [Next]_vars
             PROVE  WindowFollowsSnapshot'
  OBVIOUS
<1> USE DEF WindowFollowsSnapshot, OnScreenSoon, discovery, runtime, window
<1>0. posted \in Seq(Lists)
  BY DEF TypeOK
<1>1. CASE RtPost
  <2>1. posted' = Append(posted, snapshot) /\ snapshot' = snapshot /\ snapshot \in Lists
    BY <1>1 DEF RtPost, TypeOK
  <2> HIDE DEF discovery, runtime, window
  <2>2. posted' # <<>> /\ posted'[Len(posted')] = snapshot
    BY <1>0, <2>1
  <2>. QED BY <2>1, <2>2
<1>2. CASE UiDevices /\ rt # "stored"
  <2>1. posted # <<>> /\ posted' = Tail(posted) /\ shown' = Head(posted)
        /\ snapshot' = snapshot /\ rt' = rt /\ rt # "stored"
    BY <1>2 DEF UiDevices
  <2>2. Len(posted) \in Nat /\ Len(posted) # 0
    BY <1>0, <2>1
  <2>3. CASE Len(posted) = 1
    BY <1>0, <2>1, <2>3
  <2>4. CASE Len(posted) # 1
    <3>1. /\ Len(posted') = Len(posted) - 1
          /\ \A i \in 1..(Len(posted) - 1) : posted'[i] = posted[i + 1]
      BY <1>0, <2>1, <2>2
    <3>2. Len(posted) > 1 /\ Len(posted) - 1 \in 1..(Len(posted) - 1)
      <4> DEFINE n == Len(posted)
      <4>1. n \in Nat /\ n # 0 /\ n # 1
        BY <2>2, <2>4
      <4>. HIDE DEF n
      <4>2. n > 1 /\ n - 1 \in 1..(n - 1)
        BY <4>1
      <4>. QED BY <4>2 DEF n
    <3>3. posted'[Len(posted')] = posted[Len(posted)] /\ posted' # <<>>
      BY <2>2, <3>1, <3>2
    <3>. QED BY <2>1, <3>3
  <2>. QED BY <2>3, <2>4
<1>3. CASE UNCHANGED <<posted, shown, snapshot>> /\ (rt = "stored" => rt' = "stored")
  BY <1>3
<1>4. CASE rt' = "stored"
  BY <1>4
<1>5. CASE UiDevices /\ rt = "stored"
  BY <1>5 DEF UiDevices
<1>. QED BY <1>1, <1>2, <1>3, <1>4, <1>5
         DEF Next, Publish, RtStore, RtServe, RtServed, UiSelect, UiPress, UiStop, Send,
             UiRescan, vars

\* The window shows the snapshot, or will once the queued closures have run, unless the
\* runtime has stored a newer one that it has yet to post.
THEOREM SpecWindowFollowsSnapshot == Spec => []WindowFollowsSnapshot
<1>1. Init => WindowFollowsSnapshot
  BY DEF Init, WindowFollowsSnapshot, OnScreenSoon
<1>. QED BY <1>1, FollowStep, SpecTypeOK, PTL DEF Spec

\* With no list stored or posted on its way to the window, a press means the highlighted
\* row.
THEOREM SpecPressMeansHighlighted == Spec => PressMeansHighlighted
<1>1. TypeOK /\ WindowFollowsSnapshot /\ [Next]_vars =>
        [target' # target /\ target' # NoDevice /\ posted = <<>> /\ rt # "stored"
           => target' = Highlighted]_vars
  <2> SUFFICES ASSUME TypeOK, WindowFollowsSnapshot, [Next]_vars,
                      target' # target, target' # NoDevice, posted = <<>>, rt # "stored"
               PROVE  target' = Highlighted
    OBVIOUS
  <2>1. UiPress
    BY DEF Next, Publish, RtStore, RtPost, RtServe, RtServed, UiDevices, UiSelect, UiStop,
           UiRescan, vars, discovery, runtime, window
  <2>2. shown = snapshot
    BY DEF WindowFollowsSnapshot, OnScreenSoon
  <2>. QED BY <2>1, <2>2, RowIsDevice DEF UiPress, Highlighted, Row
<1>. QED BY <1>1, SpecTypeOK, SpecWindowFollowsSnapshot, PTL DEF Spec, PressMeansHighlighted

=============================================================================
