--------------------------- MODULE RegistryCalls ---------------------------
(***************************************************************************)
(* The registry alone, under every sequence of calls: sightings at any     *)
(* address in any order, time passing, and expiry at any moment.           *)
(***************************************************************************)
EXTENDS DeviceRegistry

CONSTANT Sighting   \* bound: the observations that are tried

ASSUME SightingAssumption == Sighting \subseteq Observation

TypeOK == EntriesOK

Init == entries = <<>>

See(a, o) == Observe({a}, o, 0)
Expire    == entries' = Expired(entries)
Tick      == entries' = Older(entries)

Next == (\E a \in Address, o \in Sighting : See(a, o)) \/ Expire \/ Tick

Spec == Init /\ [][Next]_entries

=============================================================================
