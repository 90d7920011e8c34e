----------------------------- MODULE MCDeviceJobs -----------------------------
(* Instances of DeviceJobs for TLC. *)
EXTENDS DeviceJobs

CONSTANTS j1, j2, j3

TwoCalls    == 1 .. 2
ThreeCalls  == 1 .. 3
ThreeJobs   == {<<j1, j2, j3>>}
OneEach     == {<<j1, j2>>}     \* two jobs, one frame each
OneTwice    == {<<j1, j1>>}     \* one job, dispatched again at HELLO
EachOrTwice == OneEach \cup OneTwice

Events(d, r, f, c, n) ==
    [drops |-> d, restarts |-> r, faults |-> f, cancels |-> c, events |-> n]

AnyOne     == {Events(1, 1, 1, 1, 1)}
AnyTwo     == {Events(1, 1, 1, 1, 2)}
OneDrop    == {Events(1, 0, 0, 0, 1)}
TwoCancels == {Events(0, 0, 0, 2, 2)}
Quiet      == {Events(0, 0, 0, 0, 0)}
=============================================================================
