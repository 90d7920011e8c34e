------------------------------ MODULE AgentPool ------------------------------
(***************************************************************************)
(* The agents of one device: the gateway's rows, which admins and every    *)
(* HELLO create, promote, delete and drain statement by statement, the     *)
(* device's own rows, and the AGENT_STATUS reports that overwrite the      *)
(* gateway's.                                                              *)
(*                                                                         *)
(* The jobs are here as far as they hold agents, with every Release of an  *)
(* agent: by results that come twice or late, by cancels and STATE_SYNC.   *)
(* Left to JobPool: the statements of Allocate and of a cancel, requeueing *)
(* and sending a dispatch again, deadlines, a restart of the gateway; to   *)
(* Tunnel: frames to the device out of order or twice. Agents that the     *)
(* device makes on its own are unknown to the gateway and left out.        *)
(***************************************************************************)
EXTENDS Integers, Sequences, FiniteSets, FiniteSetsExt, Functions

CONSTANTS
    Agents,      \* agent ids, in the order NewUUID draws them
    Jobs,
    Sizes,       \* sizes an admin asks for
    DeviceSize,  \* IAGENT_POOL_SIZE of the device
    Budgets      \* bounds: connections lost, device restarts, health checks, monitor
                 \* samples and progress, pool sizes set, agents drained or deleted, cancels

Events == {"drops", "restarts", "checks", "sizes", "removals", "cancels"}

ASSUME AgentPoolConstantsOK ==
    /\ Agents \subseteq Nat \ {0} /\ Sizes \subseteq Nat \ {0} /\ DeviceSize \in Nat \ {0}
    /\ \E largest \in Sizes : \A n \in Sizes : n <= largest
    /\ Jobs \subseteq Nat
    /\ Budgets \subseteq [Events -> Nat]

VARIABLES
    row,    \* the agents table
    job,    \* the jobs: how far, and jobs.agent_id
    run,    \* the jobs on the device
    dev,    \* the device's agents table
    boot,   \* hello_extras, built once when the device starts
    link,   \* the device is connected
    down,   \* AGENT_CREATE, AGENT_ACTION and JOB_DISPATCH frames
    up,     \* frames of the device, kept by the outbox until they are acknowledged
    call,   \* EnsurePoolSize for an admin, HELLO and STATE_SYNC, DrainAgent
    left,   \* events still allowed
    loose   \* history: jobs whose agent was released under them, or that were
            \* made running again after their end

frames == <<down, up>>
device == <<run, dev, boot>>
vars   == <<row, job, device, link, frames, call, left, loose>>

-----------------------------------------------------------------------------
NoAgent  == 0
Reported == {"creating", "idle", "busy", "unhealthy", "failed", "drained"}
Row      == [st : {"unborn", "gone"} \cup Reported, port : Nat, old : BOOLEAN,
             user : BOOLEAN]     \* older than the grace period; user_id is set
Job      == [st : {"new", "held", "active", "unlinked", "over"}, agent : Agents \cup {NoAgent}, named : BOOLEAN]
Down     == [type : {"create", "drain"}, agent : Agents] \cup [type : {"dispatch"}, job : Jobs]
Up       == [type : {"status"}, agent : Agents, st : Reported]
              \cup [type : {"running", "result"}, job : Jobs]  \* JOB_ACCEPTED and JOB_PROGRESS are "running"
Callers  == {"admin", "hello", "drain"}
Call     == [pc : {"idle", "count", "loop", "reconcile", "sync", "fail", "delete", "null", "clear",
                   "again", "mark"},
             size : Nat, i : Nat, todo : SUBSET Agents, stale : SUBSET Agents, deleted : BOOLEAN,
             jobs : SUBSET Jobs]
Held     == {"held", "active"}

Exists(a)  == row[a].st \notin {"unborn", "gone"}
Existing   == {a \in Agents : Exists(a)}
Unborn     == {a \in Agents : row[a].st = "unborn"}

\* CountByDevice
Counted == Cardinality({a \in Existing : row[a].st \notin {"failed", "drained"}})

\* jobs.agent_id references agents.id, also from jobs that are over
Referenced(a) == \E j \in Jobs : job[j].named /\ job[j].agent = a

AtRest       == [pc |-> "idle", size |-> 0, i |-> 0, todo |-> {}, stale |-> {}, deleted |-> FALSE,
                 jobs |-> {}]
Goto(c, l)   == call' = [call EXCEPT ![c].pc = l]

\* the frame after the HELLO is the STATE_SYNC
Return(c)    == call' = [call EXCEPT ![c] = IF c = "hello" THEN [AtRest EXCEPT !.pc = "sync"] ELSE AtRest]
Ensure(c, n) == call' = [call EXCEPT ![c] = [AtRest EXCEPT !.pc = "count", !.size = n]]
Spend(what)  == left[what] > 0 /\ left' = [left EXCEPT ![what] = @ - 1]

\* Hub.SendFrame, whose error is ignored: offline, or a full outbound queue
Send(f)      == down' = down \/ (link /\ down' = Append(down, f))
UpdateStatus(a, s) == row' = IF Exists(a) THEN [row EXCEPT ![a].st = s] ELSE row

\* DELETE FROM agents, which the foreign key may refuse
Delete(a) == row' = IF Exists(a) /\ ~Referenced(a) THEN [row EXCEPT ![a].st = "gone"] ELSE row

\* the job is over, and the agents in freed are released, whomever they serve
Finish(j, freed) ==
    /\ job' = [job EXCEPT ![j].st = "over"]
    /\ row' = [a \in Agents |-> IF a \in freed /\ Exists(a) THEN [row[a] EXCEPT !.st = "idle", !.user = FALSE]
                                                          ELSE row[a]]
    /\ loose' = loose \cup {i \in Jobs \ {j} : job[i].st \in Held /\ job[i].agent \in freed}

\* the agent the job's row names, if any
AgentOf(j) == {a \in Agents : job[j].named /\ job[j].agent = a}

-----------------------------------------------------------------------------
(* Growing the pool. *)

SetPoolSize(n) ==
    /\ call["admin"].pc = "idle" /\ Spend("sizes") /\ Ensure("admin", n)
    /\ UNCHANGED <<row, job, device, link, frames, loose>>

Count(c) ==
    /\ call[c].pc = "count"
    /\ IF Counted >= call[c].size THEN Return(c)
       ELSE call' = [call EXCEPT ![c].pc = "loop", ![c].i = Counted]
    /\ UNCHANGED <<row, job, device, link, frames, left, loose>>

\* variant: the schema has no UNIQUE (device_id, port)
PortTakenNever(i) == FALSE

\* UNIQUE (device_id, port); rows that are not counted keep their ports
PortTaken(i) == \E a \in Existing : row[a].port = i

\* one round of EnsurePoolSize: the port comes from the loop's index, and the
\* frame is lost when the device is offline; the ids are a bound
CreateNext(c) ==
    /\ call[c].pc = "loop"
    /\ IF PortTaken(call[c].i) \/ Unborn = {}
       THEN Return(c) /\ UNCHANGED <<row, down>>
       ELSE /\ LET a == Min(Unborn) IN
                 /\ row' = [row EXCEPT ![a] = [@ EXCEPT !.st = "creating", !.port = call[c].i]]
                 /\ Send([type |-> "create", agent |-> a])
            /\ IF call[c].i + 1 = call[c].size THEN Return(c) ELSE call' = [call EXCEPT ![c].i = @ + 1]
    /\ UNCHANGED <<job, device, link, up, left, loose>>

\* two minutes pass
GrowOld(a) ==
    /\ row[a].st = "creating" /\ ~row[a].old /\ row' = [row EXCEPT ![a].old = TRUE]
    /\ UNCHANGED <<job, device, link, frames, call, left, loose>>

-----------------------------------------------------------------------------
(* ReconcilePool, on the agents that were read when it began. *)

\* an idle agent the HELLO does not list, or one that is creating for too long
Stale == {a \in Existing \ boot : (row[a].st = "idle") \/ (row[a].st = "creating" /\ row[a].old)}

\* the device connects; its HELLO lists what it had when it started; size is the
\* number of rows that were read
Hello ==
    /\ ~link /\ call["hello"].pc = "idle" /\ link' = TRUE
    /\ call' = [call EXCEPT !["hello"] = [AtRest EXCEPT !.pc = "reconcile",
                              !.size = Cardinality(Existing), !.stale = Stale,
                              !.todo = {a \in boot : row[a].st = "creating"}]]
    /\ UNCHANGED <<row, job, device, frames, left, loose>>

Promote(a) ==
    /\ a \in call["hello"].todo /\ a = Min(call["hello"].todo)
    /\ UpdateStatus(a, "idle")
    /\ call' = [call EXCEPT !["hello"].todo = @ \ {a}]
    /\ UNCHANGED <<job, device, link, frames, left, loose>>

DeleteStale(a) ==
    /\ call["hello"].todo = {} /\ a \in call["hello"].stale /\ a = Min(call["hello"].stale)
    /\ Delete(a)
    /\ call' = [call EXCEPT !["hello"].stale = @ \ {a},
                            !["hello"].deleted = @ \/ row'[a].st = "gone"]
    /\ UNCHANGED <<job, device, link, frames, left, loose>>

\* as many agents as there were are made again, or one when there is none
Deleted ==
    /\ call["hello"].pc = "reconcile" /\ call["hello"].todo = {} /\ call["hello"].stale = {}
    /\ IF call["hello"].deleted THEN Ensure("hello", call["hello"].size)
       ELSE IF Counted = 0 THEN Ensure("hello", 1) ELSE Return("hello")
    /\ UNCHANGED <<row, job, device, link, frames, left, loose>>

\* OnStateSync: the list the device sends is empty; a job that was active for two
\* minutes when its agent's jobs were read is failed
ListLost ==
    /\ call["hello"].pc = "sync"
    /\ \E lost \in SUBSET {j \in Jobs : job[j].st = "active" /\ job[j].named} :
         call' = [call EXCEPT !["hello"] = IF lost = {} THEN AtRest
                                           ELSE [AtRest EXCEPT !.pc = "fail", !.jobs = lost]]
    /\ UNCHANGED <<row, job, device, link, frames, left, loose>>

\* the job and the agent are written whatever became of them since
FailLost(j) ==
    /\ call["hello"].pc = "fail" /\ j \in call["hello"].jobs
    /\ Finish(j, {job[j].agent})
    /\ call' = [call EXCEPT !["hello"] = IF call["hello"].jobs = {j} THEN AtRest
                                         ELSE [call["hello"] EXCEPT !.jobs = @ \ {j}]]
    /\ UNCHANGED <<device, link, frames, left>>

-----------------------------------------------------------------------------
(* Removing agents. *)

\* GetByID and the AGENT_ACTION frame; the agent is in todo
DrainAgent(a) ==
    /\ call["drain"].pc = "idle" /\ Exists(a) /\ Spend("removals")
    /\ Send([type |-> "drain", agent |-> a])
    /\ call' = [call EXCEPT !["drain"] = [AtRest EXCEPT !.todo = {a},
                   !.pc = IF row[a].st \in {"idle", "failed"} THEN "delete" ELSE "mark"]]
    /\ UNCHANGED <<row, job, device, link, up, loose>>

DrainDelete(a) ==
    /\ call["drain"].pc \in {"delete", "again"} /\ a \in call["drain"].todo
    /\ Delete(a)
    /\ IF call["drain"].pc = "delete" /\ Exists(a) /\ Referenced(a) THEN Goto("drain", "null")
                                                                   ELSE Return("drain")
    /\ UNCHANGED <<job, device, link, frames, left, loose>>

\* nullTerminalJobsForAgent refuses when a job is not over
NullTerminalJobs(a) ==
    /\ call["drain"].pc = "null" /\ a \in call["drain"].todo
    /\ LET named == {j \in Jobs : a \in AgentOf(j)} IN
       IF named = {} THEN Goto("drain", "again")
       ELSE IF \A j \in named : job[j].st = "over"
       THEN call' = [call EXCEPT !["drain"].pc = "clear", !["drain"].jobs = named]
       ELSE Return("drain")
    /\ UNCHANGED <<row, job, device, link, frames, left, loose>>

\* one of the jobs that were over when they were listed
ClearAgent(j) ==
    /\ call["drain"].pc = "clear" /\ j \in call["drain"].jobs
    /\ job' = [job EXCEPT ![j].named = FALSE]
    /\ call' = [call EXCEPT !["drain"].jobs = @ \ {j},
                            !["drain"].pc = IF call["drain"].jobs = {j} THEN "again" ELSE "clear"]
    /\ UNCHANGED <<row, device, link, frames, left, loose>>

\* a busy agent is marked; nothing looks at the mark when its job ends
DrainMark(a) ==
    /\ call["drain"].pc = "mark" /\ a \in call["drain"].todo
    /\ UpdateStatus(a, "failed") /\ Return("drain")
    /\ UNCHANGED <<job, device, link, frames, left, loose>>

\* handleAdminDeleteAgent
AdminDelete(a) == /\ Exists(a) /\ Spend("removals") /\ Delete(a)
                  /\ UNCHANGED <<job, device, link, frames, call, loose>>

-----------------------------------------------------------------------------
(* Jobs. *)

\* variant: FindIdle looks at the status only
Idle(a) == row[a].st = "idle"

\* FindIdle: a report may have made a held agent idle, hence user_id IS NULL
Free(a) == row[a].st = "idle" /\ ~row[a].user

\* the jobs are submitted in the order of their numbers
Allocate(j, a) ==
    /\ job[j].st = "new" /\ Free(a) /\ \A i \in Jobs : job[i].st = "new" => i >= j
    /\ row' = [row EXCEPT ![a].st = "busy", ![a].user = TRUE]
    /\ job' = [job EXCEPT ![j].st = "held", ![j].agent = a]
    /\ UNCHANGED <<device, link, frames, call, left, loose>>

\* SetAgent, whose error nobody reads, and JOB_DISPATCH
SetAgent(j) ==
    /\ job[j].st = "held"
    /\ job' = [job EXCEPT ![j].st = IF Exists(job[j].agent) THEN "active" ELSE "unlinked",
                          ![j].named = Exists(job[j].agent)]
    /\ Send([type |-> "dispatch", job |-> j])
    /\ UNCHANGED <<row, device, link, up, call, left, loose>>

\* handleCancelJob; the device ends the job in its own time
Cancel(j) ==
    /\ job[j].st \in {"active", "unlinked"} /\ Spend("cancels")
    /\ Finish(j, AgentOf(j))
    /\ UNCHANGED <<device, link, frames, call>>

-----------------------------------------------------------------------------
(* The device. *)

Status(a, s) == [type |-> "status", agent |-> a, st |-> s]
Report(a, s) == up' = Append(up, Status(a, s))

\* _handle_agent_create, _handle_agent_action, and the dispatcher's first statements
DeviceReads ==
    /\ link /\ down # <<>> /\ down' = Tail(down)
    /\ LET f == Head(down) IN
       \/ /\ f.type = "create" /\ Report(f.agent, "idle")
          /\ dev' = IF dev[f.agent] = "none" THEN [dev EXCEPT ![f.agent] = "idle"] ELSE dev
          /\ UNCHANGED run
       \/ /\ f.type = "drain" /\ Report(f.agent, "drained")
          /\ dev' = [dev EXCEPT ![f.agent] = "none"]
          /\ UNCHANGED run
       \/ /\ f.type = "dispatch" /\ run' = [run EXCEPT ![f.job] = "runs"]
          /\ dev' = IF dev[job[f.job].agent] = "none" THEN dev
                    ELSE [dev EXCEPT ![job[f.job].agent] = "busy"]
          /\ up' = Append(up, [type |-> "running", job |-> f.job])
    /\ UNCHANGED <<row, job, boot, link, call, left, loose>>

\* a JOB_PROGRESS says that the job is running
Progress(j) ==
    /\ run[j] = "runs" /\ Spend("checks")
    /\ up' = Append(up, [type |-> "running", job |-> j])
    /\ UNCHANGED <<row, job, device, link, down, call, loose>>

\* JOB_RESULT, or JOB_REJECTED when the agent is not on the device, whatever the
\* gateway has made of the job by now
JobEnds(j) ==
    LET a == job[j].agent IN
    /\ run[j] = "runs" /\ run' = [run EXCEPT ![j] = "ended"]
    /\ dev' = IF dev[a] = "none" THEN dev ELSE [dev EXCEPT ![a] = "idle"]
    /\ \E status \in {<<Status(a, "idle")>>} \cup IF dev[a] = "none" THEN {<<>>} ELSE {} :
         up' = up \o <<[type |-> "result", job |-> j]>> \o status
    /\ UNCHANGED <<row, job, boot, link, down, call, left, loose>>

\* health_check: unhealthy and restarted, given up, or recovered to idle
HealthCheck(a) ==
    /\ dev[a] \notin {"none", "creating"} /\ Spend("checks")
    /\ dev' \in {[dev EXCEPT ![a] = s] : s \in
                   {"unhealthy", "failed"} \cup IF dev[a] = "unhealthy" THEN {"idle"} ELSE {}}
    /\ UNCHANGED <<row, job, run, boot, link, frames, call, loose>>

\* the monitor reports the row it read
Sample(a) == /\ dev[a] # "none" /\ Spend("checks") /\ Report(a, dev[a])
             /\ UNCHANGED <<row, job, device, link, down, call, loose>>

\* the frames that the lost connection was given are lost, the others are passed on
\* to the next one, if there was time
LoseFrames(k) == down' = SubSeq(down, k + 1, Len(down))

\* the device's process was killed while it made the agent
HalfMade(a) == link /\ down # <<>> /\ dev[a] = "none" /\ Head(down) = [type |-> "create", agent |-> a]

\* reconcile and ensure_pool: busy agents become idle, and those beyond the
\* configured size, which the device's own agents share, are removed; the jobs'
\* tasks are gone
Restart ==
    /\ Spend("restarts") /\ link' = FALSE
    /\ LET idle == {a \in Agents : dev[a] \in {"idle", "busy"}} IN
       \E kept \in SUBSET idle, half \in SUBSET {a \in Agents : HalfMade(a)}, k \in 0 .. Len(down) :
         /\ Cardinality(kept) <= DeviceSize
         /\ half # {} => k > 0
         /\ dev' = [a \in Agents |-> IF a \in half THEN "creating" ELSE IF a \in kept THEN "idle"
                                     ELSE IF a \in idle THEN "none" ELSE dev[a]]
         /\ LoseFrames(k)
    /\ boot' = {a \in Agents : dev'[a] # "none"}
    /\ run' = [j \in Jobs |-> IF run[j] = "runs" THEN "ended" ELSE run[j]]
    /\ UNCHANGED <<row, job, up, call, loose>>

Drop == /\ link /\ Spend("drops") /\ link' = FALSE
        /\ \E k \in 0 .. Len(down) : LoseFrames(k)
        /\ UNCHANGED <<row, job, device, up, call, loose>>

-----------------------------------------------------------------------------
(* Reports. *)

\* variant: only agents that are not being created are updated
OnAgentStatusLate(a, s) == row' = IF Exists(a) /\ row[a].st # "creating" THEN [row EXCEPT ![a].st = s] ELSE row

\* the reported status is stored over whatever the row says
OnAgentStatus(a, s) == UpdateStatus(a, s)

\* the status is stored over whatever the job's row says
OnJobRunning(j) ==
    /\ job' = IF job[j].st = "over" THEN [job EXCEPT ![j].st = "active"] ELSE job
    /\ loose' = IF job[j].st = "over" THEN loose \cup {j} ELSE loose

\* OnJobResult and OnJobRejected do not look at the job's status either
OnJobResult(j) == Finish(j, AgentOf(j))

\* the read loop, which also runs ReconcilePool and OnStateSync; when the connection
\* is lost before the ACK, the outbox sends the frame again
GatewayReads ==
    /\ link /\ up # <<>> /\ call["hello"].pc = "idle"
    /\ \/ up' = Tail(up) /\ UNCHANGED <<link, left, down>>
       \/ /\ Spend("drops") /\ link' = FALSE /\ UNCHANGED up
          /\ \E k \in 0 .. Len(down) : LoseFrames(k)
    /\ LET f == Head(up) IN
       \/ f.type = "status" /\ OnAgentStatus(f.agent, f.st) /\ UNCHANGED <<job, loose>>
       \/ f.type = "running" /\ OnJobRunning(f.job) /\ UNCHANGED row
       \/ f.type = "result" /\ OnJobResult(f.job)
    /\ UNCHANGED <<device, call>>

-----------------------------------------------------------------------------
Init ==
    /\ row = [a \in Agents |-> [st |-> "unborn", port |-> 0, old |-> FALSE, user |-> FALSE]]
    /\ job = [j \in Jobs |-> [st |-> "new", agent |-> NoAgent, named |-> FALSE]]
    /\ run = [j \in Jobs |-> "no"] /\ dev = [a \in Agents |-> "none"] /\ boot = {} /\ link = FALSE
    /\ down = <<>> /\ up = <<>> /\ call = [c \in Callers |-> AtRest]
    /\ left \in Budgets /\ loose = {}

Next ==
    \/ \E n \in Sizes : SetPoolSize(n)
    \/ \E c \in Callers : Count(c) \/ CreateNext(c)
    \/ Hello \/ Deleted \/ ListLost
    \/ \E a \in Agents :
         \/ GrowOld(a) \/ Promote(a) \/ DeleteStale(a)
         \/ DrainAgent(a) \/ DrainDelete(a) \/ NullTerminalJobs(a) \/ DrainMark(a) \/ AdminDelete(a)
         \/ HealthCheck(a) \/ Sample(a)
         \/ \E j \in Jobs : Allocate(j, a)
    \/ \E j \in Jobs :
         \/ FailLost(j) \/ ClearAgent(j) \/ SetAgent(j) \/ Cancel(j) \/ JobEnds(j) \/ Progress(j)
    \/ DeviceReads \/ Restart \/ Drop \/ GatewayReads

\* the handlers of a HELLO and of the STATE_SYNC behind it
HelloSteps ==
    \/ Count("hello") \/ CreateNext("hello") \/ Deleted \/ ListLost
    \/ \E a \in Agents : Promote(a) \/ DeleteStale(a)
    \/ \E j \in Jobs : FailLost(j)

\* the read loops, and a device that dials again
Fairness == WF_vars(Hello) /\ WF_vars(HelloSteps) /\ WF_vars(DeviceReads) /\ WF_vars(GatewayReads)

Spec     == Init /\ [][Next]_vars
FairSpec == Spec /\ Fairness

-----------------------------------------------------------------------------
(* Properties. *)

\* Rows, jobs, frames and calls have their types.
TypeOK ==
    /\ row \in [Agents -> Row] /\ job \in [Jobs -> Job] /\ loose \subseteq Jobs
    /\ run \in [Jobs -> {"no", "runs", "ended"}]
    /\ dev \in [Agents -> {"none", "creating", "idle", "busy", "unhealthy", "failed"}]
    /\ boot \subseteq Agents /\ link \in BOOLEAN
    /\ \A i \in DOMAIN down : down[i] \in Down
    /\ \A i \in DOMAIN up : up[i] \in Up
    /\ \A c \in Callers : call[c] \in Call

\* However an admin's SetPoolSize and a HELLO's ReconcilePool interleave, both
\* counting and then creating, the device never has more rows than the largest
\* size asked for (EnsurePoolSize and UNIQUE (device_id, port)).
PoolBounded == Cardinality(Existing) <= Max(Sizes)

\* The rows a device has are well formed and within its size (EnsurePoolSize).
PoolSound == TypeOK /\ PoolBounded

\* An agent serves one job at a time, although a report sampled before the
\* allocation makes its row idle again (OnAgentStatus, FindIdle). Excepted are the
\* jobs in loose: the gateway itself released their agent for another job, by a
\* second result or a late one, or made them running again after their end.
AgentServesOne ==
    \A i, j \in Jobs \ loose : i # j /\ {job[i].st, job[j].st} \subseteq Held => job[i].agent # job[j].agent

\* No drain, delete or reconciliation removes the agent of a job that is not
\* over, once the job's row names it (nullTerminalJobsForAgent, the foreign key);
\* ClearAgent may meet a job that was made running again since it was listed.
ActiveJobKeepsAgent ==
    \A j \in Jobs \ loose : job[j].st = "active" => Exists(job[j].agent)

\* A job keeps its agent, for itself, until it is over or the gateway releases the
\* agent: through stale reports, drains, deletes, reconciliations and lost
\* connections (OnAgentStatus, Drain, Delete, ReconcilePool).
JobKeepsAgent == AgentServesOne /\ ActiveJobKeepsAgent

\* An agent that the device has made does not stay in creating at the gateway,
\* though its report waits for a connection, comes twice, or races the HELLO of
\* the next connection (_handle_agent_create, OnAgentStatus, ReconcilePool); unless
\* the device dies while it makes one, and goes on to report that as creating.
CreateAnswered ==
    [](\A a \in Agents : dev[a] # "creating")
      => <>[](\A a \in Agents : dev[a] # "none" => row[a].st # "creating")

\* allocator.go:346 says of the agents ReconcilePool deletes that "the device no
\* longer reports" them, because their containers were destroyed or the device
\* was restarted: an agent it deletes is not on the device.
DeletedAgentsAreGone ==
    [][\A a \in Agents : DeleteStale(a) /\ Exists(a) /\ ~Exists(a)' => dev[a] = "none"]_vars

\* allocator.go:479 says of a busy agent that is drained that "it will be removed
\* after job completion": its row does not become idle again.
DrainedNotReused ==
    [][\A a \in Agents : row[a].st \in {"failed", "drained"} /\ dev[a] = "none"
                           => row'[a].st # "idle"]_vars
=============================================================================
