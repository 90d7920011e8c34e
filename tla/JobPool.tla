------------------------------- MODULE JobPool -------------------------------
(***************************************************************************)
(* The gateway's job queue and agent pool: the jobs and agents tables, the *)
(* goroutines that move them (submit, dequeue, cancel, the tunnel's frame  *)
(* handlers, the expiry ticker) and the crash of the gateway process.      *)
(*                                                                         *)
(* Every SQL statement of store/jobs.go and store/agents.go runs in its    *)
(* own implicit transaction, so one statement is one step here and any     *)
(* other goroutine may run between two statements of a handler.            *)
(***************************************************************************)
EXTENDS Integers, FiniteSets

CONSTANTS
    Jobs,        \* job ids; UUIDv7, so the order of the ids is created_at order
    Agents,      \* rows of the agents table
    Devices,     \* devices of the fleet
    Users,       \* customers
    Threads,     \* goroutines of the gateway that may run at once
    NoJob,       \* NULL in agents.job_id (and agents.user_id, set together)
    NoAgent,     \* NULL in jobs.agent_id (and jobs.device_id, set together)
    OwnerOf,     \* jobs.user_id
    DeviceOf,    \* agents.device_id
    MaxQueue,    \* IAGENT_MAX_QUEUED_PER_USER; 0 disables the cap
    RedispatchAge,  \* 15 s, 2 min and 5 min after started_at, in ticks
    GraceAge,
    TimeoutAge,
    Results,     \* terminal statuses that devices report
    MaxWake      \* bound on started-but-not-yet-run dequeue goroutines

ASSUME ConstantsOK ==
    /\ Jobs \subseteq Nat
    /\ NoJob \notin Jobs
    /\ NoAgent \notin Agents
    /\ OwnerOf \in [Jobs -> Users]
    /\ DeviceOf \in [Agents -> Devices]
    /\ MaxQueue \in Nat
    /\ {RedispatchAge, GraceAge, TimeoutAge} \subseteq Nat
    /\ 0 < RedispatchAge /\ RedispatchAge <= GraceAge /\ GraceAge <= TimeoutAge
    /\ Results \subseteq {"succeeded", "failed", "cancelled"}
    /\ MaxWake \in Nat \ {0}

VARIABLES
    jobs,        \* the jobs table
    agents,      \* the agents table
    thr,         \* program counter and locals of each goroutine
    wake,        \* dequeueNext goroutines spawned and not yet running
    up,          \* devices with an open tunnel connection
    sent,        \* jobs whose JOB_DISPATCH may (still or again) reach a device
    faults       \* history: the stale reads and writes that have happened

tables == <<jobs, agents>>
vars   == <<jobs, agents, thr, wake, up, sent, faults>>

-----------------------------------------------------------------------------
(* The rows *)

Terminal  == {"succeeded", "failed", "cancelled"}
\* "overdue" is the status queued with queue_expires_at in the past: the column
\* is written whenever the status becomes queued and read only while it is
Active    == {"pending", "queued", "overdue", "dispatched", "running"}
JobStatus == {"none"} \cup Active \cup Terminal

\* ticks since started_at, counted up to the last deadline; -1 is NULL
NotStarted == -1
Fresh      == 0
Ages       == NotStarted .. TimeoutAge

\* creating, unhealthy and failed behave as "busy" here: FindIdle only asks
\* whether the status is idle
AgentStatus == {"idle", "busy"}

JobRow   == [status : JobStatus, agent : Agents \cup {NoAgent}, age : Ages]
AgentRow == [status : AgentStatus, job : Jobs \cup {NoJob}]

Exists(j)     == jobs[j].status # "none"
IsTerminal(j) == jobs[j].status \in Terminal
IsActive(j)   == jobs[j].status \in Active

\* store/agents.go FindIdle: idle and user_id IS NULL
FreeAgents == {a \in Agents : agents[a].status = "idle" /\ agents[a].job = NoJob}

\* store/jobs.go DequeueNext: queued and queue_expires_at in the future
Waiting == {j \in Jobs : jobs[j].status = "queued"}

InQueue(j) == jobs[j].status \in {"queued", "overdue"}

QueuedBy(u) == {j \in Jobs : InQueue(j) /\ OwnerOf[j] = u}

Dispatched(j) == j \in sent

-----------------------------------------------------------------------------
(* The goroutines *)

Labels == {"idle", "count", "find", "enqueue", "claim", "set", "send",
           "unclaim", "clear", "requeue", "pick", "cancel", "load", "release",
           "sync", "syncfail"}

Thread == [pc : Labels, op : {"none", "submit", "dequeue", "cancel", "result", "sync"},
           job : Jobs \cup {NoJob}, agent : Agents \cup {NoAgent},
           rest : SUBSET Agents, todo : SUBSET Jobs]

AtRest == [pc |-> "idle", op |-> "none", job |-> NoJob, agent |-> NoAgent,
           rest |-> {}, todo |-> {}]

At(t, label)      == thr[t].pc = label
Goto(t, label)    == thr' = [thr EXCEPT ![t].pc = label]
Finish(t)         == thr' = [thr EXCEPT ![t] = AtRest]
Start(t, op, label, j, a) ==
    /\ At(t, "idle")
    /\ thr' = [thr EXCEPT ![t] = [AtRest EXCEPT !.op = op, !.pc = label,
                                                !.job = j, !.agent = a]]

\* dequeueNext loops; a submit handler returns
NextRound(t) ==
    thr' = [thr EXCEPT ![t] = IF thr[t].op = "dequeue"
                              THEN [AtRest EXCEPT !.op = "dequeue", !.pc = "pick"]
                              ELSE AtRest]

\* `go a.dequeueNext(...)`
Spawn == wake' = IF wake < MaxWake THEN wake + 1 ELSE wake

-----------------------------------------------------------------------------
(* Statements of the stores *)

UpdateStatus(j, s) == jobs' = [jobs EXCEPT ![j].status = s]

\* variant: the CASE that keeps a terminal status out of UpdateProgress is lost
UpdateProgressAny(j, s) == jobs' = [jobs EXCEPT ![j].status = s]

UpdateProgress(j, s) ==
    jobs' = [jobs EXCEPT ![j].status = IF s \in Terminal THEN @ ELSE s]

UpdateResult(j, s) == jobs' = [jobs EXCEPT ![j].status = s]

\* variant: started_at is not set
SetAgentNoStart(j, a) ==
    jobs' = [jobs EXCEPT ![j].status = "dispatched", ![j].agent = a]

SetAgent(j, a) ==
    jobs' = [jobs EXCEPT ![j].status = "dispatched", ![j].agent = a, ![j].age = Fresh]

ClearAgent(j) == jobs' = [jobs EXCEPT ![j].agent = NoAgent]

Allocate(a, j) == agents' = [agents EXCEPT ![a] = [status |-> "busy", job |-> j]]

ReleaseRow(a) == agents' = [agents EXCEPT ![a] = [status |-> "idle", job |-> NoJob]]

\* the rows of ExpireQueued and of ExpireDispatched
Stale(j) == \/ jobs[j].status = "overdue"
            \/ jobs[j].status = "dispatched" /\ jobs[j].age = TimeoutAge

\* variant: only ExpireDispatched
ExpireDispatchedOnly ==
    jobs' = [j \in Jobs |->
               IF jobs[j].status = "dispatched" /\ jobs[j].age = TimeoutAge
               THEN [jobs[j] EXCEPT !.status = "failed"] ELSE jobs[j]]

\* the two updates touch different rows, so their order is immaterial
ExpireStale ==
    jobs' = [j \in Jobs |->
               IF Stale(j) THEN [jobs[j] EXCEPT !.status = "failed"] ELSE jobs[j]]

-----------------------------------------------------------------------------
(* History: who is entitled to an agent, and when a write ignores it *)

\* the handler has given up on the dispatch and is undoing it
RollingBack(j, a) ==
    \E t \in Threads : /\ thr[t].pc \in {"unclaim", "clear"}
                       /\ thr[t].job = j /\ thr[t].agent = a

\* the row says that job j, not finished, is on agent a
Holds(j, a) == IsActive(j) /\ jobs[j].agent = a /\ ~RollingBack(j, a)

\* goroutine t has marked agent a busy and is about to record it in the job row
Claiming(t, a) == At(t, "set") /\ thr[t].agent = a

Note(fault, happened) == faults' = IF happened THEN faults \cup {fault} ELSE faults

InUse(a, self) == \/ \E j \in Jobs : Holds(j, a)
                  \/ \E t \in Threads \ {self} : Claiming(t, a)

-----------------------------------------------------------------------------
(* POST /jobs *)

\* the handler up to Jobs.Create; ids are handed out in order
Submit(t, j) ==
    /\ jobs[j].status = "none"
    /\ \A k \in Jobs : k < j => Exists(k)
    /\ jobs' = [jobs EXCEPT ![j].status = "pending"]
    /\ Start(t, "submit", "count", j, NoAgent)
    /\ UNCHANGED <<agents, wake, up, sent, faults>>

\* CountQueuedByUser; ErrQueueFull answers 429 and leaves the row as it is
CheckCap(t) ==
    /\ At(t, "count")
    /\ IF MaxQueue > 0 /\ Cardinality(QueuedBy(OwnerOf[thr[t].job])) >= MaxQueue
       THEN Finish(t) ELSE Goto(t, "find")
    /\ UNCHANGED <<tables, wake, up, sent, faults>>

\* FindIdle, in Allocate and in dequeueNext; SKIP LOCKED may pass over the
\* oldest row, so any free agent may be returned
FindIdle(t) ==
    /\ At(t, "find")
    /\ \/ \E a \in FreeAgents :
             thr' = [thr EXCEPT ![t].pc = "claim", ![t].agent = a]
       \/ /\ FreeAgents = {}
          /\ IF thr[t].op = "submit" THEN Goto(t, "enqueue") ELSE Finish(t)
    /\ UNCHANGED <<tables, wake, up, sent, faults>>

\* nothing idle: the submit handler answers 202
Enqueue(t) ==
    /\ At(t, "enqueue")
    /\ UpdateStatus(thr[t].job, "queued")
    /\ Note("revived", IsTerminal(thr[t].job))
    /\ Finish(t)
    /\ UNCHANGED <<agents, wake, up, sent>>

\* agents.Allocate: unconditional, it overwrites whatever the row says now
Claim(t) ==
    /\ At(t, "claim")
    /\ Allocate(thr[t].agent, thr[t].job)
    /\ Note("doubleClaim", agents[thr[t].agent].job # NoJob)
    /\ Goto(t, "set")
    /\ UNCHANGED <<jobs, wake, up, sent>>

RecordAgent(t) ==
    /\ At(t, "set")
    /\ SetAgent(thr[t].job, thr[t].agent)
    /\ Goto(t, "send")
    /\ UNCHANGED <<agents, wake, up, sent, faults>>

\* Hub.SendFrame. It fails when the device is offline, and also when the
\* outbound queue is full; in that case the frame is already tracked and the
\* retransmitter may still deliver it.
Dispatch(t) ==
    /\ At(t, "send")
    /\ \/ /\ DeviceOf[thr[t].agent] \in up
          /\ sent' = sent \cup {thr[t].job}
          /\ NextRound(t) \/ Goto(t, "unclaim")
       \/ /\ DeviceOf[thr[t].agent] \notin up
          /\ Goto(t, "unclaim")
          /\ UNCHANGED sent
    /\ UNCHANGED <<tables, wake, up, faults>>

\* variant: the rollback forgets ClearAgent
UnclaimOnly(t) ==
    /\ At(t, "unclaim")
    /\ ReleaseRow(thr[t].agent)
    /\ Note("staleRelease", InUse(thr[t].agent, t))
    /\ IF thr[t].op = "submit" THEN Spawn ELSE UNCHANGED wake
    /\ Goto(t, "requeue")
    /\ UNCHANGED <<jobs, up, sent>>

\* the submit handler goes through Allocator.Release, which spawns a dequeue;
\* dequeueNext releases the row only
Unclaim(t) ==
    /\ At(t, "unclaim")
    /\ ReleaseRow(thr[t].agent)
    /\ Note("staleRelease", InUse(thr[t].agent, t))
    /\ IF thr[t].op = "submit" THEN Spawn ELSE UNCHANGED wake
    /\ Goto(t, "clear")
    /\ UNCHANGED <<jobs, up, sent>>

ClearJob(t) ==
    /\ At(t, "clear")
    /\ ClearAgent(thr[t].job)
    /\ Goto(t, "requeue")
    /\ UNCHANGED <<agents, wake, up, sent, faults>>

Requeue(t) ==
    /\ At(t, "requeue")
    /\ UpdateStatus(thr[t].job, "queued")
    /\ Note("revived", IsTerminal(thr[t].job))
    /\ NextRound(t)
    /\ UNCHANGED <<agents, wake, up, sent>>

-----------------------------------------------------------------------------
(* dequeueNext *)

StartDequeue(t) ==
    /\ wake > 0
    /\ wake' = wake - 1
    /\ ExpireStale
    /\ Start(t, "dequeue", "pick", NoJob, NoAgent)
    /\ UNCHANGED <<agents, up, sent, faults>>

\* DequeueNext orders by created_at (user_tier is never set by submit), but SKIP
\* LOCKED passes over a row that another statement is writing just then, so any
\* waiting job may be returned. The row lock ends with the statement.
PickJob(t) ==
    /\ At(t, "pick")
    /\ \/ /\ Waiting = {}
          /\ Finish(t)
       \/ \E j \in Waiting :
             thr' = [thr EXCEPT ![t].pc = "find", ![t].job = j, ![t].agent = NoAgent]
    /\ UNCHANGED <<tables, wake, up, sent, faults>>

\* the 30 s ticker; it does not dequeue
ExpiryTick ==
    /\ ExpireStale
    /\ UNCHANGED <<agents, thr, wake, up, sent, faults>>

-----------------------------------------------------------------------------
(* POST /jobs/{id}/cancel *)

\* GetByID and the IsTerminal check; the agent read here is used at the end
ReadForCancel(t, j) ==
    /\ IsActive(j)
    /\ Start(t, "cancel", "cancel", j, jobs[j].agent)
    /\ UNCHANGED <<tables, wake, up, sent, faults>>

\* Jobs.Cancel updates only a non-terminal row and fails otherwise; JOB_CANCEL
\* goes to the device of the agent that was read
CancelJob(t) ==
    /\ At(t, "cancel")
    /\ IF IsTerminal(thr[t].job)
       THEN Finish(t) /\ UNCHANGED jobs
       ELSE /\ jobs' = [jobs EXCEPT ![thr[t].job].status = "cancelled"]
            /\ IF thr[t].agent = NoAgent THEN Finish(t) ELSE Goto(t, "release")
    /\ UNCHANGED <<agents, wake, up, sent, faults>>

\* Allocator.Release of the agent the handler holds in a local variable
Release(t) ==
    /\ At(t, "release")
    /\ ReleaseRow(thr[t].agent)
    /\ Note("staleRelease", InUse(thr[t].agent, t))
    /\ Spawn
    /\ IF thr[t].op = "sync" THEN Goto(t, "syncfail") ELSE Finish(t)
    /\ UNCHANGED <<jobs, up, sent>>

-----------------------------------------------------------------------------
(* Frames from a device. A frame about a job can arrive at any time once its *)
(* dispatch was sent, more than once and in any order: the device's outbox   *)
(* sends every unacknowledged frame again after a reconnect, and the         *)
(* gateway's msg_id filter lives with the connection.                        *)

JobAccepted(j) ==
    /\ Dispatched(j)
    /\ UpdateStatus(j, "running")
    /\ Note("revived", IsTerminal(j))
    /\ UNCHANGED <<agents, thr, wake, up, sent>>

JobProgress(j, s) ==
    /\ Dispatched(j)
    /\ UpdateProgress(j, s)
    /\ Note("revived", IsTerminal(j) /\ s \notin Terminal)
    /\ UNCHANGED <<agents, thr, wake, up, sent>>

\* JOB_RESULT, and JOB_REJECTED as a failed result: UpdateResult first
JobResult(t, j, s) ==
    /\ Dispatched(j)
    /\ UpdateResult(j, s)
    /\ Start(t, "result", "load", j, NoAgent)
    /\ UNCHANGED <<agents, wake, up, sent, faults>>

\* variant: the nil check of job.AgentID is lost
LoadAgentUnchecked(t) ==
    /\ At(t, "load")
    /\ thr' = [thr EXCEPT ![t].pc = "release", ![t].agent = jobs[thr[t].job].agent]
    /\ UNCHANGED <<tables, wake, up, sent, faults>>

\* then GetByID, to learn which agent to release
LoadAgent(t) ==
    /\ At(t, "load")
    /\ LET a == jobs[thr[t].job].agent
       IN  IF a = NoAgent THEN Finish(t)
           ELSE thr' = [thr EXCEPT ![t].pc = "release", ![t].agent = a]
    /\ UNCHANGED <<tables, wake, up, sent, faults>>

\* STATE_SYNC: the device's client always reports an empty list of jobs
StateSync(t, d) ==
    /\ d \in up
    /\ At(t, "idle")
    /\ thr' = [thr EXCEPT ![t] = [AtRest EXCEPT !.op = "sync", !.pc = "sync",
                                     !.rest = {a \in Agents : DeviceOf[a] = d}]]
    /\ UNCHANGED <<tables, wake, up, sent, faults>>

\* ListByAgent, without the jobs inside the grace period
Unsynced(a) == {j \in Jobs : /\ jobs[j].agent = a /\ IsActive(j)
                             /\ jobs[j].age \notin Fresh .. GraceAge - 1}

SyncAgent(t) ==
    /\ At(t, "sync")
    /\ \/ /\ thr[t].rest = {}
          /\ Finish(t)
       \/ \E a \in thr[t].rest :
            thr' = [thr EXCEPT ![t] =
              [thr[t] EXCEPT !.pc = "syncfail", !.agent = a,
                        !.rest = thr[t].rest \ {a}, !.todo = Unsynced(a)]]
    /\ UNCHANGED <<tables, wake, up, sent, faults>>

SyncFailJob(t) ==
    /\ At(t, "syncfail")
    /\ \/ /\ thr[t].todo = {}
          /\ thr' = [thr EXCEPT ![t].pc = "sync", ![t].job = NoJob, ![t].agent = NoAgent]
          /\ UNCHANGED jobs
       \/ \E j \in thr[t].todo :
          /\ UpdateResult(j, "failed")
          /\ thr' = [thr EXCEPT ![t].pc = "release", ![t].job = j, ![t].todo = @ \ {j}]
    /\ UNCHANGED <<agents, wake, up, sent, faults>>

\* variant: a report of idle frees the row, owner and all
ReportAgentFrees(a, s) ==
    /\ IF s = "idle" THEN ReleaseRow(a)
       ELSE agents' = [agents EXCEPT ![a].status = s]
    /\ UNCHANGED <<jobs, thr, wake, up, sent, faults>>

\* AGENT_STATUS: the device's own view, written over the allocation status
ReportAgent(a, s) ==
    /\ agents' = [agents EXCEPT ![a].status = s]
    /\ UNCHANGED <<jobs, thr, wake, up, sent, faults>>

\* HELLO, ReconcilePool when no agent row is deleted: it wakes the queue and
\* sends again the dispatches still unanswered after 15 s; each send may fail
Hello(d) ==
    /\ d \in up
    /\ Spawn
    /\ \E again \in SUBSET {j \in Jobs : /\ jobs[j].status = "dispatched"
                                         /\ jobs[j].agent # NoAgent
                                         /\ DeviceOf[jobs[j].agent] = d
                                         /\ jobs[j].age >= RedispatchAge} :
          sent' = sent \cup again
    /\ UNCHANGED <<tables, thr, up, faults>>

-----------------------------------------------------------------------------
(* The administrator, the tunnel, the clock and the process *)

ForceRelease(a) ==
    /\ ReleaseRow(a)
    /\ Note("staleRelease", \/ \E j \in Jobs : Holds(j, a)
                            \/ \E t \in Threads : Claiming(t, a))
    /\ Spawn
    /\ UNCHANGED <<jobs, thr, up, sent>>

Connect(d)    == /\ up' = up \cup {d}
                 /\ UNCHANGED <<tables, thr, wake, sent, faults>>
Disconnect(d) == /\ up' = up \ {d}
                 /\ UNCHANGED <<tables, thr, wake, sent, faults>>

QueueTTLEnds(j) ==
    /\ j \in Waiting
    /\ jobs' = [jobs EXCEPT ![j].status = "overdue"]
    /\ UNCHANGED <<agents, thr, wake, up, sent, faults>>

DispatchAges(j) ==
    /\ \/ jobs[j].status = "dispatched" /\ jobs[j].age \in Fresh .. TimeoutAge - 1
       \/ jobs[j].status = "running" /\ jobs[j].age \in Fresh .. GraceAge - 1
    /\ jobs' = [jobs EXCEPT ![j].age = @ + 1]
    /\ UNCHANGED <<agents, thr, wake, up, sent, faults>>

\* the goroutines and the connections are gone, the tables stay; a rollback
\* that had started is never finished
Crash ==
    /\ thr' = [t \in Threads |-> AtRest]
    /\ wake' = 0
    /\ up' = {}
    /\ Note("crashedRollback", \E t \in Threads : thr[t].pc \in {"unclaim", "clear"})
    /\ UNCHANGED <<tables, sent>>

-----------------------------------------------------------------------------
Init ==
    /\ jobs = [j \in Jobs |-> [status |-> "none", agent |-> NoAgent, age |-> NotStarted]]
    /\ agents = [a \in Agents |-> [status |-> "idle", job |-> NoJob]]
    /\ thr = [t \in Threads |-> AtRest]
    /\ wake = 0
    /\ up = Devices
    /\ sent = {}
    /\ faults = {}

\* the next statement of a goroutine that is in the middle of a handler
Step(t) ==
    \/ CheckCap(t)    \/ FindIdle(t)  \/ Enqueue(t)   \/ Claim(t)
    \/ RecordAgent(t) \/ Dispatch(t)  \/ Unclaim(t)   \/ ClearJob(t)
    \/ Requeue(t)     \/ PickJob(t)   \/ CancelJob(t) \/ Release(t)
    \/ LoadAgent(t)   \/ SyncAgent(t) \/ SyncFailJob(t)

Begin(t) ==
    \/ \E j \in Jobs : Submit(t, j) \/ ReadForCancel(t, j)
    \/ \E j \in Jobs, s \in Results : JobResult(t, j, s)
    \/ \E d \in Devices : StateSync(t, d)

Frame ==
    \/ \E j \in Jobs : JobAccepted(j)
    \/ \E j \in Jobs, s \in {"running"} \cup Results : JobProgress(j, s)
    \/ \E a \in Agents, s \in AgentStatus : ReportAgent(a, s)
    \/ \E d \in Devices : Hello(d)

Environment ==
    \/ \E a \in Agents : ForceRelease(a)
    \/ \E d \in Devices : Connect(d) \/ Disconnect(d)
    \/ \E j \in Jobs : QueueTTLEnds(j) \/ DispatchAges(j)
    \/ Crash

Next ==
    \/ \E t \in Threads : Step(t) \/ Begin(t) \/ StartDequeue(t)
    \/ ExpiryTick
    \/ Frame
    \/ Environment

Spec == Init /\ [][Next]_vars

\* goroutines are scheduled, the ticker ticks and time passes; nothing is
\* assumed of devices, customers or administrators
Fairness ==
    /\ \A t \in Threads : WF_vars(Step(t)) /\ WF_vars(StartDequeue(t))
    /\ WF_vars(ExpiryTick)
    /\ \A j \in Jobs : WF_vars(QueueTTLEnds(j)) /\ WF_vars(DispatchAges(j))

FairSpec == Spec /\ Fairness

-----------------------------------------------------------------------------
(* Properties *)

\* labels at which a goroutine dereferences its job, its agent
UsesJob   == {"count", "find", "enqueue", "claim", "set", "send", "unclaim",
              "clear", "requeue", "cancel", "load"}
UsesAgent == {"claim", "set", "send", "unclaim", "clear", "release", "syncfail"}

Ready(r) == /\ r.pc \in UsesJob => r.job \in Jobs
            /\ r.pc \in UsesAgent => r.agent \in Agents

\* Every row and every goroutine has the shape the Go structs give it, and no
\* goroutine reaches a statement with the job or the agent it needs still nil.
TypeOK ==
    /\ jobs \in [Jobs -> JobRow]
    /\ agents \in [Agents -> AgentRow]
    /\ thr \in [Threads -> Thread]
    /\ \A t \in Threads : Ready(thr[t])
    /\ wake \in 0 .. MaxWake
    /\ up \subseteq Devices
    /\ sent \subseteq Jobs
    /\ faults \subseteq {"doubleClaim", "staleRelease", "revived", "crashedRollback"}

\* Two unfinished jobs are never on the same agent.
Exclusive ==
    \A a \in Agents : \A j, k \in Jobs : Holds(j, a) /\ Holds(k, a) => j = k

\* An agent serves one job at a time unless one of four things has happened:
\* Allocate overwrote an owner (stale FindIdle), Release freed an agent that
\* was in use (stale agent id), a frame or a late UPDATE took a finished job
\* back to an unfinished status, or the gateway died between the Release and
\* the ClearAgent of a failed dispatch. Expiry, requeueing, STATE_SYNC,
\* AGENT_STATUS and every other crash cannot double-book an agent by themselves.
ExclusiveUnlessRaced == faults = {} => Exclusive

\* The inductive strengthening: an entitled job or goroutine owns the row.
Owned ==
    /\ \A j \in Jobs, a \in Agents : Holds(j, a) => agents[a].job = j
    /\ \A t \in Threads : At(t, "set") => agents[thr[t].agent].job = thr[t].job

Ownership == faults = {} => Owned

\* Refinement: the pairs of AgentLease are the entitled jobs and the goroutines
\* between agents.Allocate and jobs.SetAgent.
Leases == {p \in Agents \X Jobs :
             \/ Holds(p[2], p[1])
             \/ \E t \in Threads : Claiming(t, p[1]) /\ thr[t].job = p[2]}

Lease == INSTANCE AgentLease WITH leases <- Leases, raced <- faults # {}

\* The tables and goroutines implement AgentLease: as long as no race has been
\* recorded, only a claim of an agent that nobody holds starts a lease, and no
\* statement of any handler moves an agent from one job to another, not even a
\* rollback, a redispatch or a second goroutine working on the same job.
KeepsLeases == Lease!Spec

\* A JOB_DISPATCH frame exists only for a job whose row has had its agent and
\* started_at recorded (SetAgent precedes SendFrame). An answer that races back
\* therefore finds an agent to release, and STATE_SYNC finds a grace period: it
\* treats a NULL started_at as no grace at all.
DispatchIsRecorded == \A j \in sent : jobs[j].age # NotStarted

\* When a job with an agent finishes, the same step leaves a goroutine that
\* goes on to look at that job and release its agent, with two exceptions: the
\* expiry updates, and a cancel that read the row before the agent was set.
\* (Even a QUEUE_TIMEOUT may hit a row with an agent: two goroutines dequeue the
\* same job, one requeues it while the other records its agent.)
FinishedIsReleased ==
    [][ \A j \in Jobs :
          (IsActive(j) /\ jobs'[j].status \in Terminal /\ jobs[j].agent # NoAgent) =>
             \/ \E t \in Threads : /\ thr'[t].pc \in {"load", "release"}
                                   /\ thr'[t].job = j
             \/ Stale(j)
             \/ \E t \in Threads : /\ At(t, "cancel")
                                   /\ thr[t].job = j /\ thr[t].agent = NoAgent
      ]_vars

\* A queued job does not stay in the queue for ever: it is dispatched, cancelled
\* or expired, even if no agent ever becomes free.
QueuedLeavesQueue ==
    \A j \in Jobs : InQueue(j) ~> ~InQueue(j)

-----------------------------------------------------------------------------
(* What the documents say and the code does not do *)

\* docs/spec/01-architecture.md: "the allocator never dispatches two jobs to
\* the same agent while it is BUSY". FindIdle and Allocate are two statements.
NeverAllocatesBusy ==
    [][ \A t \in Threads :
          At(t, "claim") /\ thr'[t].pc = "set" =>
             agents[thr[t].agent].job = NoJob ]_vars

\* docs/spec/01-architecture.md: "Terminal triggers file cleanup and agent
\* release". A dispatch timeout fails the job and keeps the agent busy.
TerminalReleasesAgent ==
    \A j \in Jobs, a \in Agents :
       (IsTerminal(j) /\ agents[a].job = j) ~> ~(IsTerminal(j) /\ agents[a].job = j)

\* docs/spec/02-cloud-gateway.md, Wake-up mechanism: "Repeat until no queued job
\* or no idle agent". With nothing in flight and every device online, no job
\* waits beside a free agent.
NoLostWakeUp ==
    ((\A t \in Threads : At(t, "idle")) /\ wake = 0 /\ up = Devices) =>
        (Waiting = {} \/ FreeAgents = {})
=============================================================================
