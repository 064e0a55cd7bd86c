----------------------------- MODULE DeviceList -----------------------------
(***************************************************************************)
(* How the discovered devices reach the window of hc-app, and which device *)
(* a press of a cast button means.  Discovery publishes a list on a watch  *)
(* channel; the runtime, when it serves no command, stores it as the       *)
(* shared snapshot and then posts it to the event loop for display; the    *)
(* window keeps the clicked ROW, and a press resolves that row in the      *)
(* SNAPSHOT.  The window's thread may act between any two of these steps.  *)
(***************************************************************************)
EXTENDS Integers, Sequences, FiniteSets

CONSTANTS
    Device,      \* the devices discovery may list
    NoDevice,    \* no press, no click yet
    MaxUpdates,  \* bound: how many lists discovery publishes
    MaxCommands  \* bound: commands that wait for the runtime at once

ASSUME ListAssumption ==
    /\ NoDevice \notin Device /\ IsFiniteSet(Device)
    /\ MaxUpdates \in Nat /\ MaxCommands \in Nat

VARIABLES
    published,   \* the value of discovery's watch channel
    unseen,      \* the runtime's receiver has not seen that value yet
    updates,     \* how many lists were published
    snapshot,    \* the Arc<Mutex<Vec<Device>>> shared with the window
    rt,          \* the runtime: "idle" in select!, "stored" a list that it has yet to
                 \* post, or "serving" a command
    commands,    \* how many commands wait for it
    posted,      \* set_devices closures queued on the event loop
    shown,       \* the devices property: the rows on screen
    scanning,    \* the scanning property
    selected,    \* the selected property: a row, -1 for none
    choice,      \* history: the device whose row was clicked last
    target       \* the device of the press since that click, or NoDevice

discovery == <<published, unseen, updates>>
runtime   == <<rt, commands>>
window    == <<shown, scanning, selected, choice, target>>
vars      == <<discovery, snapshot, runtime, posted, window>>

\* Lists hold each device once, in any order: the registry sorts by protocol,
\* name and address, and a device's name changes when it is learnt.
Lists == {l \in UNION {[1..n -> Device] : n \in 0..Cardinality(Device)} :
            \A i, j \in DOMAIN l : l[i] = l[j] => i = j}

NoRow == -1
Row(list, i)  == IF i \in 0..(Len(list) - 1) THEN list[i + 1] ELSE NoDevice
Highlighted   == Row(shown, selected)

TypeOK ==
    /\ published \in Lists /\ snapshot \in Lists /\ shown \in Lists
    /\ unseen \in BOOLEAN /\ scanning \in BOOLEAN
    /\ updates \in 0..MaxUpdates
    /\ posted \in Seq(Lists)
    /\ rt \in {"idle", "stored", "serving"} /\ commands \in 0..MaxCommands
    /\ selected \in NoRow..(Cardinality(Device) - 1)
    /\ choice \in Device \cup {NoDevice}
    /\ target \in Device \cup {NoDevice}

Init ==
    /\ published = <<>> /\ unseen = FALSE /\ updates = 0
    /\ snapshot = <<>> /\ rt = "idle" /\ commands = 0
    /\ posted = <<>> /\ shown = <<>>
    /\ scanning = TRUE /\ selected = NoRow
    /\ choice = NoDevice /\ target = NoDevice

\* The scan loop publishes when the registry's list differs from the last one.
Publish(list) ==
    /\ updates < MaxUpdates /\ list # published
    /\ published' = list /\ unseen' = TRUE /\ updates' = updates + 1
    /\ UNCHANGED <<snapshot, runtime, posted, window>>

-----------------------------------------------------------------------------
(* The runtime's loop.  Its select! polls the two branches in random order. *)

\* The changed() branch: the newest list becomes the snapshot, under its own lock.
\* The runtime may have missed others.
RtStore ==
    /\ rt = "idle" /\ unseen
    /\ unseen' = FALSE /\ snapshot' = published /\ rt' = "stored"
    /\ UNCHANGED <<published, updates, commands, posted, window>>

\* Mutant of RtPost: a closure is posted only if none is queued.
RtPostCoalesced ==
    /\ rt = "stored" /\ rt' = "idle"
    /\ posted' = IF posted = <<>> THEN <<snapshot>> ELSE posted
    /\ UNCHANGED <<discovery, snapshot, commands, window>>

\* Then the same list is posted to the event loop.
RtPost ==
    /\ rt = "stored" /\ rt' = "idle"
    /\ posted' = Append(posted, snapshot)
    /\ UNCHANGED <<discovery, snapshot, commands, window>>

\* The recv() branch: a teardown and a start, which CastControl has in detail.
RtServe ==
    /\ rt = "idle" /\ commands > 0
    /\ rt' = "serving" /\ commands' = commands - 1
    /\ UNCHANGED <<discovery, snapshot, posted, window>>

RtServed ==
    /\ rt = "serving" /\ rt' = "idle"
    /\ UNCHANGED <<discovery, snapshot, commands, posted, window>>

-----------------------------------------------------------------------------
(* The window's thread.                                                     *)

\* The event loop runs the closure; the selected row stays what it was.
UiDevices ==
    /\ posted # <<>>
    /\ posted' = Tail(posted)
    /\ shown' = Head(posted) /\ scanning' = FALSE
    /\ UNCHANGED <<discovery, snapshot, runtime, selected, choice, target>>

UiSelect(i) ==
    /\ i \in 0..(Len(shown) - 1)
    /\ selected' = i
    /\ choice' = Row(shown, i) /\ target' = NoDevice
    /\ UNCHANGED <<discovery, snapshot, runtime, posted, shown, scanning>>

Send == commands < MaxCommands /\ commands' = commands + 1 /\ UNCHANGED rt

\* Mutant of UiPress: the row is taken as counted from one.
UiPressFromOne ==
    /\ selected \in 1..Len(snapshot) /\ Send
    /\ target' = snapshot[selected]
    /\ UNCHANGED <<discovery, snapshot, posted, shown, scanning, selected, choice>>

\* Mirror, file or link: selected_device(), whose device's id the command gets.
\* A row the snapshot does not have is ignored.
UiPress ==
    /\ selected \in 0..(Len(snapshot) - 1) /\ Send
    /\ target' = snapshot[selected + 1]
    /\ UNCHANGED <<discovery, snapshot, posted, shown, scanning, selected, choice>>

UiStop == Send /\ UNCHANGED <<discovery, snapshot, posted, window>>

UiRescan ==
    /\ scanning' = TRUE
    /\ UNCHANGED <<discovery, snapshot, runtime, posted, shown, selected, choice, target>>

Next ==
    \/ \E list \in Lists : Publish(list)
    \/ RtStore \/ RtPost \/ RtServe \/ RtServed
    \/ UiDevices
    \/ \E i \in 0..Cardinality(Device) : UiSelect(i)
    \/ UiPress \/ UiStop \/ UiRescan

Spec == Init /\ [][Next]_vars

\* The runtime and the event loop are scheduled, and select! does not take recv() for
\* ever; the user and discovery are free.  A command that is served comes to its end:
\* CastControl has what that takes of the renderers.
FairSpec ==
    /\ Spec /\ SF_vars(RtStore) /\ WF_vars(RtPost) /\ WF_vars(RtServed)
    /\ WF_vars(UiDevices)

-----------------------------------------------------------------------------
(* Properties.                                                              *)

\* The list that is on screen once the queued closures have run.
OnScreenSoon == IF posted = <<>> THEN shown ELSE posted[Len(posted)]

\* The window is behind the snapshot only by the closures that are queued, the last of
\* which shows exactly the snapshot, and by the one the runtime is about to post.
WindowFollowsSnapshot == rt # "stored" => OnScreenSoon = snapshot

\* With no list on its way to the window, stored or posted, a press means the
\* highlighted row; how many lists came and went in between does not matter.
PressMeansHighlighted ==
    [][target' # target /\ target' # NoDevice /\ posted = <<>> /\ rt # "stored"
         => target' = Highlighted]_vars

\* The newest list ends up on screen, however many were published and however many
\* commands were served meanwhile.
ListArrives == <>[](shown = published)

\* README.md: "pick your TV from the list. Press Cast": a press means the device
\* whose row the user clicked.
PressMeansPicked == target # NoDevice => target = choice

=============================================================================
