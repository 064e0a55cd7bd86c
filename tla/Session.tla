------------------------------ MODULE Session ------------------------------
(***************************************************************************)
(* hc-core's session state machine.  Any caller may report any event in    *)
(* any order; an event that the current state does not accept changes      *)
(* nothing.  Error carries its reason.                                     *)
(***************************************************************************)
EXTENDS Integers

CONSTANT Reason   \* why a session fails

NoReason == "none"
ASSUME SessionAssumption == NoReason \notin Reason

VARIABLES
    session,      \* the state, with the reason if it is Error
    reached       \* history: what has happened since the session was last Idle

sessionVars == <<session, reached>>

State == {"Idle", "Discovering", "DeviceSelected", "Negotiating", "Connecting", "Streaming",
          "Degraded", "Reconnecting", "Stopping", "Error"}
Event == {"StartDiscovery", "DeviceChosen", "BeginNegotiate", "CapsNegotiated", "Connected",
          "Congested", "Recovered", "ConnectionLost", "Stop", "Stopped", "Failed"}

In(s)     == [state |-> s, reason |-> NoReason]
Refused   == [state |-> "refused", reason |-> NoReason]

\* Where the arrows of a session that goes well lead, and those of a bad connection.
Arrow == { <<"Idle", "StartDiscovery", "Discovering">>,
           <<"Discovering", "DeviceChosen", "DeviceSelected">>,
           <<"DeviceSelected", "BeginNegotiate", "Negotiating">>,
           <<"Negotiating", "CapsNegotiated", "Connecting">>,
           <<"Connecting", "Connected", "Streaming">>,
           <<"Reconnecting", "Connected", "Streaming">>,
           <<"Streaming", "Congested", "Degraded">>,
           <<"Degraded", "Recovered", "Streaming">>,
           <<"Streaming", "ConnectionLost", "Reconnecting">>,
           <<"Degraded", "ConnectionLost", "Reconnecting">>,
           <<"Stopping", "Stopped", "Idle">> }

\* Mutant of NextOf: the reason is lost.
NextOfReasonless(s, e, why) ==
    IF \E a \in Arrow : a[1] = s.state /\ a[2] = e
    THEN In((CHOOSE a \in Arrow : a[1] = s.state /\ a[2] = e)[3])
    ELSE IF e = "Stop" /\ s.state # "Idle" THEN In("Stopping")
    ELSE IF e = "Failed" THEN In("Error")
    ELSE Refused

\* Mutant of NextOf: a failure that is over keeps its connection.
NextOfResumable(s, e, why) ==
    IF \E a \in Arrow : a[1] = s.state /\ a[2] = e
    THEN In((CHOOSE a \in Arrow : a[1] = s.state /\ a[2] = e)[3])
    ELSE IF e = "Connected" /\ s.state = "Error" THEN In("Streaming")
    ELSE IF e = "Stop" /\ s.state # "Idle" THEN In("Stopping")
    ELSE IF e = "Failed" THEN [state |-> "Error", reason |-> why]
    ELSE Refused

NextOf(s, e, why) ==
    IF \E a \in Arrow : a[1] = s.state /\ a[2] = e
    THEN In((CHOOSE a \in Arrow : a[1] = s.state /\ a[2] = e)[3])
    ELSE IF e = "Stop" /\ s.state # "Idle" THEN In("Stopping")
    ELSE IF e = "Failed" THEN [state |-> "Error", reason |-> why]
    ELSE Refused

SessionInit == session = In("Idle") /\ reached = {}

Report(e, why) ==
    LET n == NextOf(session, e, why) IN
    /\ n # Refused
    /\ session' = n
    /\ reached' = IF n.state = "Idle" THEN {} ELSE reached \cup {n.state}

SessionNext == \E e \in Event, why \in Reason : Report(e, why)
SessionSpec == SessionInit /\ [][SessionNext]_sessionVars

-----------------------------------------------------------------------------
(* Properties.                                                              *)

SessionTypeOK ==
    /\ session \in [state: State, reason: Reason \cup {NoReason}]
    /\ session.reason # NoReason <=> session.state = "Error"
    /\ reached \subseteq State \ {"Idle"}

Live == {"Streaming", "Degraded", "Reconnecting"}

\* Whatever order events are reported in, a session that streams has found, chosen
\* and negotiated with a device and connected to it since it was last idle, and none
\* that failed or is being stopped streams again before it has been idle.
NoStreamUnprepared ==
    session.state \in Live =>
        /\ {"Discovering", "DeviceSelected", "Negotiating", "Connecting"} \subseteq reached
        /\ reached \cap {"Stopping", "Error"} = {}

\* How far a session is, as long as it has neither failed nor been stopped.
Prepared ==
    /\ session.state = "Idle" => reached = {}
    /\ session.state \notin {"Stopping", "Error"} => reached \cap {"Stopping", "Error"} = {}
    /\ session.state \in {"Discovering", "DeviceSelected", "Negotiating", "Connecting"}
         => {"Discovering", session.state} \subseteq reached
    /\ session.state \in {"Negotiating", "Connecting"} => "DeviceSelected" \in reached
    /\ session.state = "Connecting" => "Negotiating" \in reached

\* What the proofs need to know of every state.
SessionInv == SessionTypeOK /\ Prepared /\ NoStreamUnprepared

=============================================================================
