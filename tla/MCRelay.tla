------------------------------ MODULE MCRelay ------------------------------
(***************************************************************************)
(* Instances of Relay for TLC.                                             *)
(***************************************************************************)
EXTENDS Relay

CONSTANTS i1, i2, m1, m2

\* Every expiry is reached before the clock stops.
ASSUME BoundsReachExpiry == LastArrival + Ttl + Bucket <= MaxClock

=============================================================================
