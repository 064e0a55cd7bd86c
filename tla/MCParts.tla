------------------------------ MODULE MCParts ------------------------------
(* Components that keep to themselves, checked in one run: a behaviour picks  *)
(* one of them at the start, and only that one moves.                         *)
EXTENDS RegistryCalls, MpegTs, MediaServer, Rtsp, Description, Session, Frames, TLC

VARIABLE part

\* The registry: four addresses, two of them IPv4, so that a chain of shared
\* identities may join all of them.
MCRank    == (1 :> 0) @@ (2 :> 0) @@ (3 :> 2) @@ (4 :> 1)
MCPrinted == (1 :> 2) @@ (2 :> 1) @@ (3 :> 3) @@ (4 :> 4)

\* USNs 1 and 2 without a name, the mDNS name 3 with one, and a response that
\* carries no USN at all.
MCSighting ==
    {[fact |-> [f \in Field |-> None], identities |-> ids, protocol |-> Dlna]
        : ids \in {{}, {1}, {2}}}
    \cup {[fact |-> [f \in Field |-> IF f = "name" THEN 1 ELSE None],
           identities |-> {3}, protocol |-> AirPlayMirror]}

\* The muxer: an empty unit, one that just fits or needs one byte of stuffing beside
\* the clock reference or without it, and two packets and a bit.  Seventeen packets
\* bring a counter back to where it was.  Stamps differ in every bit that is cut.
MCUnit ==
    { [length |-> 0,    stamp |-> {}],
      [length |-> 162,  stamp |-> 0..32],
      [length |-> 169,  stamp |-> {b \in 0..40 : b % 2 = 0}],
      [length |-> 345,  stamp |-> {b \in 0..40 : b % 3 = 0}],
      [length |-> 346,  stamp |-> {32, 35, 7, 15, 22, 30}],
      [length |-> 3100, stamp |-> {0, 6, 14, 21, 29}] }

\* Range headers: every one with a single range whose ends are at most one past the
\* longest file, and lists whose second range asks for what the first does not.
MCEnd    == 0 .. MaxSize + 1 \cup {Empty, Bad}
NoDash   == First(NoRangeHeader)
MCRanges == {<<NoDash>>} \cup {<<[dash |-> TRUE, from |-> f, to |-> t]>> : f, t \in MCEnd}
MCSecond == [dash |-> TRUE, from |-> 0, to |-> 0]
MCLists  == {<<[dash |-> TRUE, from |-> f, to |-> Empty], MCSecond>> : f \in {1, MaxSize + 1}}
       \cup {<<NoDash, MCSecond>>, <<MCSecond, NoDash>>}
MCHeader == {NoRangeHeader, [NoRangeHeader EXCEPT !.form = "other"]}
       \cup [form: {"bytes"}, ranges: MCRanges \cup MCLists]

PartsInit ==
    /\ part \in {"registry", "mux", "media", "rtsp", "description", "session", "frames"}
    /\ Init /\ MuxInit /\ MediaInit /\ RtspInit /\ DescInit /\ SessionInit /\ FramesInit
    /\ part # "media"  => linked /\ size = 0
    /\ part # "frames" => shot.width + shot.height + target.width + target.height = 0

\* All variables but part.
Rest == <<entries, muxVars, mediaVars, rtspVars, descVars, sessionVars, frameVars>>

PartsNext ==
    /\ UNCHANGED part
    /\ \/ /\ part = "registry" /\ Next
          /\ UNCHANGED <<muxVars, mediaVars, rtspVars, descVars, sessionVars, frameVars>>
       \/ /\ part = "mux" /\ MuxNext
          /\ UNCHANGED <<entries, mediaVars, rtspVars, descVars, sessionVars, frameVars>>
       \/ /\ part = "media" /\ MediaNext
          /\ UNCHANGED <<entries, muxVars, rtspVars, descVars, sessionVars, frameVars>>
       \/ /\ part = "rtsp" /\ RtspNext
          /\ UNCHANGED <<entries, muxVars, mediaVars, descVars, sessionVars, frameVars>>
       \/ /\ part = "description" /\ DescNext
          /\ UNCHANGED <<entries, muxVars, mediaVars, rtspVars, sessionVars, frameVars>>
       \/ /\ part = "session" /\ SessionNext
          /\ UNCHANGED <<entries, muxVars, mediaVars, rtspVars, descVars, frameVars>>
       \/ /\ part = "frames" /\ FramesNext
          /\ UNCHANGED <<entries, muxVars, mediaVars, rtspVars, descVars, sessionVars>>

PartsSpec == PartsInit /\ [][PartsNext]_<<part, Rest>>

\* What each component keeps in every state: the registry's type, and of the other
\* six the inductive invariants their proofs rest on.
PartsInv ==
    /\ TypeOK /\ MuxInv /\ MediaInv /\ RtspInv /\ DescInv /\ SessionInv /\ FramesInv

=============================================================================
