---------------------------- MODULE Description ----------------------------
(***************************************************************************)
(* hc-net's device description parser, as the XML reader drives it: one    *)
(* action per event.  Services may follow one another or be nested, the    *)
(* elements that hold text have no children, and the document may be cut   *)
(* off or malformed anywhere.  A reference such as &amp; is an event of    *)
(* its own between two texts, as are comments and other elements.          *)
(***************************************************************************)
EXTENDS Integers, SequencesExt

CONSTANTS
    Text,        \* the texts that occur, Space and Avt among them
    Space,       \* a text of white space
    Avt,         \* a text that contains "AVTransport"
    MaxServices, \* bound: services in a document
    MaxTexts     \* bound: texts and references in an element

ASSUME DescriptionAssumption ==
    /\ Space \in Text /\ Avt \in Text /\ Space # Avt
    /\ MaxServices \in Nat /\ MaxTexts \in Nat

Leaf == {"friendlyName", "serviceType", "controlURL"}

VARIABLES
    open,        \* the service elements that are open, innermost last
    leaf,        \* the element with text that is open, or "none"
    services,    \* history: whether each service says AVTransport, and its control URL
    closed,      \* history: services that the document closed, in this order
    field,       \* the field that texts go to
    inService, svcType, svcCtrl,  \* the service that is being read
    desc,        \* the result: friendly name and control URL
    reading      \* the end of the document, or an error, has not been reached

descVars == <<open, leaf, services, closed, field, inService, svcType,
              svcCtrl, desc, reading>>

-----------------------------------------------------------------------------
(* What the document says, as a conforming reader has it.                    *)

Trimmed(t) == IF t = Space THEN <<>> ELSE <<t>>

NewService == [avt |-> FALSE, url |-> <<>>, refs |-> 0]

\* A text t of the element that is open, in the innermost service.
SaysWith(t) ==
    IF open = <<>> THEN services
    ELSE IF leaf = "controlURL" THEN [services EXCEPT ![Last(open)].url = @ \o Trimmed(t)]
    ELSE IF leaf = "serviceType" THEN [services EXCEPT ![Last(open)].avt = @ \/ t = Avt]
    ELSE services

\* A reference; the URL is what the texts between the references say.
SaysReference ==
    IF open # <<>> /\ leaf = "controlURL" THEN [services EXCEPT ![Last(open)].refs = @ + 1]
    ELSE services

Room == leaf = "controlURL" /\ open # <<>> =>
            Len(services[Last(open)].url) + services[Last(open)].refs < MaxTexts

DescInit ==
    /\ open = <<>> /\ leaf = "none" /\ services = <<>> /\ closed = <<>>
    /\ field = "none" /\ inService = FALSE /\ svcType = FALSE /\ svcCtrl = <<>>
    /\ desc = [friendly |-> <<>>, control |-> <<>>]
    /\ reading = TRUE

\* Mutant of StartService: what the service before left is kept.
StartServiceKeeping ==
    /\ reading /\ leaf = "none" /\ Len(services) < MaxServices
    /\ services' = Append(services, NewService)
    /\ open' = Append(open, Len(services) + 1)
    /\ inService' = TRUE
    /\ UNCHANGED <<leaf, closed, field, svcType, svcCtrl, desc, reading>>

StartService ==
    /\ reading /\ leaf = "none" /\ Len(services) < MaxServices
    /\ services' = Append(services, NewService)
    /\ open' = Append(open, Len(services) + 1)
    /\ inService' = TRUE /\ svcType' = FALSE /\ svcCtrl' = <<>>
    /\ UNCHANGED <<leaf, closed, field, desc, reading>>

StartLeaf(e) ==
    /\ reading /\ leaf = "none"
    /\ leaf' = e
    /\ field' = IF e = "friendlyName" \/ inService THEN e ELSE field
    /\ UNCHANGED <<open, services, closed, inService, svcType, svcCtrl, desc, reading>>

GetText(t) ==
    /\ reading /\ leaf # "none" /\ Room
    /\ services' = SaysWith(t)
    /\ desc' = IF field = "friendlyName" /\ desc.friendly = <<>>
               THEN [desc EXCEPT !.friendly = Trimmed(t)] ELSE desc
    /\ svcType' = (svcType \/ (field = "serviceType" /\ t = Avt))
    /\ svcCtrl' = IF field = "controlURL" THEN svcCtrl \o Trimmed(t) ELSE svcCtrl
    /\ UNCHANGED <<open, leaf, closed, field, inService, reading>>

\* Mutant of GetReference: a reference is taken for text as it stands.
GetReferenceRaw ==
    /\ reading /\ leaf # "none" /\ Room
    /\ services' = SaysReference
    /\ svcCtrl' = IF field = "controlURL" THEN Append(svcCtrl, Avt) ELSE svcCtrl
    /\ UNCHANGED <<open, leaf, closed, field, inService, svcType, desc, reading>>

\* A reference is none of the events that the parser looks at.
GetReference ==
    /\ reading /\ leaf # "none" /\ Room
    /\ services' = SaysReference
    /\ UNCHANGED <<open, leaf, closed, field, inService, svcType, svcCtrl,
                   desc, reading>>

EndLeaf ==
    /\ reading /\ leaf # "none"
    /\ leaf' = "none" /\ field' = "none"
    /\ UNCHANGED <<open, services, closed, inService, svcType, svcCtrl, desc, reading>>

EndService ==
    /\ reading /\ leaf = "none" /\ open # <<>>
    /\ desc' = IF inService /\ svcType /\ desc.control = <<>> /\ svcCtrl # <<>>
               THEN [desc EXCEPT !.control = svcCtrl] ELSE desc
    /\ inService' = FALSE
    /\ open' = Front(open) /\ closed' = Append(closed, Last(open))
    /\ UNCHANGED <<leaf, services, field, svcType, svcCtrl, reading>>

\* The document ends, be it in the middle of an element, or stops being XML.
EndDocument ==
    /\ reading /\ reading' = FALSE
    /\ UNCHANGED <<open, leaf, services, closed, field, inService, svcType,
                   svcCtrl, desc>>

DescNext ==
    \/ StartService \/ \E e \in Leaf : StartLeaf(e)
    \/ \E t \in Text : GetText(t)
    \/ GetReference \/ EndLeaf \/ EndService \/ EndDocument

DescSpec == DescInit /\ [][DescNext]_descVars

-----------------------------------------------------------------------------
(* Properties.                                                              *)

DescTypeOK ==
    /\ services \in Seq([avt: BOOLEAN, url: Seq(Text), refs: Nat])
    /\ open \in Seq(DOMAIN services) /\ closed \in Seq(DOMAIN services)
    /\ leaf \in Leaf \cup {"none"} /\ field \in Leaf \cup {"none"}
    /\ inService \in BOOLEAN /\ svcType \in BOOLEAN /\ reading \in BOOLEAN
    /\ svcCtrl \in Seq(Text)
    /\ desc \in [friendly: Seq(Text), control: Seq(Text)]

\* Every service is open or closed, and those that are open contain one another.
NestingOK ==
    /\ \A i, j \in DOMAIN open : i < j => open[i] < open[j]
    /\ \A n \in DOMAIN services :
         (\E i \in DOMAIN open : open[i] = n) <=> ~\E k \in DOMAIN closed : closed[k] = n

\* The parser reads a service exactly as long as none began or ended within it.
ReadingOK ==
    /\ inService <=> open # <<>> /\ Last(open) = Len(services)
    /\ field = IF leaf = "friendlyName" \/ inService THEN leaf ELSE "none"
    /\ inService => /\ svcType = services[Last(open)].avt
                    /\ svcCtrl = services[Last(open)].url

\* Services that were closed, say AVTransport, have a URL and contain no service.
Candidate(k) ==
    /\ services[closed[k]].avt /\ services[closed[k]].url # <<>>
    /\ \A j \in 1 .. k - 1 : closed[j] < closed[k]
Candidates == {k \in DOMAIN closed : Candidate(k)}

\* "controlURL of the AVTransport service": whatever comes before, after or around
\* it, wherever the document breaks off, the control URL is that of the first
\* service that says AVTransport, never of one that does not or is not complete;
\* and there is none only if there is no such service.  References in it are lost.
ControlIsTheServices ==
    IF Candidates = {} THEN desc.control = <<>>
    ELSE \E k \in Candidates : /\ \A j \in Candidates : k <= j
                              /\ desc.control = services[closed[k]].url

DescInv == DescTypeOK /\ NestingOK /\ ReadingOK /\ ControlIsTheServices

=============================================================================
