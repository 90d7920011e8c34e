------------------------------ MODULE AgentLease ------------------------------
(***************************************************************************)
(* What the allocator promises the rest of the gateway: an agent is leased *)
(* to one job, the lease ends before the next one begins, and it is never  *)
(* handed from one job to another. The promise binds until the allocator   *)
(* has raced (JobPool names the four ways it can).                         *)
(***************************************************************************)

CONSTANTS Agents, Jobs

VARIABLES
    leases,   \* pairs <<agent, job>>
    raced     \* the promise no longer binds

Leased(a) == \E j \in Jobs : <<a, j>> \in leases

Init == leases = {} /\ raced = FALSE

\* Allocator.Allocate and dequeueNext: only an agent nobody holds
Take(a, j) == ~Leased(a) /\ leases' = leases \cup {<<a, j>>}

\* a release, a cancel, a result; expiry and a crash end several leases at once
Give == leases' \subseteq leases

Next ==
    \/ /\ ~raced /\ ~raced'
       /\ Give \/ \E a \in Agents, j \in Jobs : Take(a, j)
    \/ /\ raced'
       /\ leases' \subseteq Agents \X Jobs

Spec == Init /\ [][Next]_<<leases, raced>>
=============================================================================
