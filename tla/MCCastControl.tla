--------------------------- MODULE MCCastControl ---------------------------
(* Instances of CastControl for TLC. *)
EXTENDS CastControl, TLC

\* Renderers are interchangeable: no safety property names one.
DeviceSymmetry == Permutations(Device)

=============================================================================
