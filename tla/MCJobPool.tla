------------------------------ MODULE MCJobPool ------------------------------
(* Instances of JobPool for TLC. *)
EXTENDS JobPool, TLC

CONSTANTS a1, a2, d1, u1, t1, t2

OneJob    == {1}
TwoJobs   == {1, 2}

OneOwner  == [j \in Jobs |-> u1]
OneDevice == [a \in Agents |-> d1]

Symmetry == Permutations(Threads) \cup Permutations(Agents)

\* the unconditional invariants need no state beyond the first race
NoFaultYet == faults = {}

\* no agent changes between idle and busy behind the allocator's back
StatusFollowsOwner ==
    \A a \in Agents : agents[a].status = "busy" <=> agents[a].job # NoJob

\* the device stays connected and the gateway does not crash
AlwaysUp == up = Devices
=============================================================================
