----------------------------- MODULE MCDiscovery -----------------------------
(* Instances of Discovery for TLC: an IPv4 address and an IPv6 link-local    *)
(* one; two global IPv6 ones, where only mDNS answers.                       *)
EXTENDS Discovery, TLC

BothV6    == (1 :> 1) @@ (2 :> 1)
V4AndLink == (1 :> 0) @@ (2 :> 2)
MCPrinted == (1 :> 2) @@ (2 :> 1)

=============================================================================
