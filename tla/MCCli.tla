------------------------------- MODULE MCCli -------------------------------
(* Instances of Cli for TLC. *)
EXTENDS Cli, TLC

\* A little less than two ticks, which Media Foundation's units bring down to none; nine
\* ticks exactly; and back, to before the first frame or not.
MCSteps == {22222, 100000, -50000}

=============================================================================
