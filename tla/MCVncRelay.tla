------------------------------ MODULE MCVncRelay ------------------------------
(* An instance of VncRelay for TLC. *)
EXTENDS VncRelay
=============================================================================
