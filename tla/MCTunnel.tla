------------------------------- MODULE MCTunnel -------------------------------
(* Instances of Tunnel for TLC. *)
EXTENDS Tunnel

CONSTANTS m1, m2

ThreeConns == 1 .. 3
TwoConns   == 1 .. 2
=============================================================================
