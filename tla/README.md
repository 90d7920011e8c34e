# oneClickAgent in TLA+

oneClickAgent runs browser agents for customers on devices that customers or an
operator own. A **gateway** (Go, PostgreSQL) takes jobs over HTTP and gives each
to an idle agent; a **device** program (Python, SQLite) keeps one WebSocket
tunnel to the gateway and a pool of agent containers; an **agent** (Python, one
container each) runs one job at a time with a coding tool, the *brain*, behind a
browser. This directory holds the TLA+ specifications of that control flow, the
instances TLC checks and the theorems TLAPS proves. Paths below are relative to
`src/`; `gateway/internal/` is written `gw/`, `device/iagent_device/` is `dev/`,
`agent/iagent_agent/` is `agent/`.

1. [Inventory](#1-inventory)
2. [Plan](#2-plan)
3. [JobPool](#3-jobpool-the-queue-and-the-agents-table)
4. [Tunnel](#4-tunnel-the-hub-and-its-connections)
5. [DeviceJobs](#5-devicejobs-a-job-on-its-device)
6. [AgentPool](#6-agentpool-rows-and-containers)
7. [FileTransfer](#7-filetransfer-inputs-and-outputs-of-jobs)
8. [VncRelay](#8-vncrelay-a-users-view-of-the-agents-browser)
9. [SkillDispatch](#9-skilldispatch-a-skill-on-the-fleet)
10. [WebEvents](#10-webevents-live-events)
11. [WebAccess](#11-webaccess-sessions-and-submissions)
12. [Runs](#12-runs)
13. [Proofs](#13-proofs)
14. [Findings](#14-findings)
15. [Not modelled](#15-not-modelled)

## 1. Inventory

| Component | State it keeps | Operations | Talks to | What is hard |
|---|---|---|---|---|
| **job allocation and lifecycle** `gw/pool/allocator.go`, `gw/httpapi/jobs_handler.go`, `gw/store/{jobs,agents}.go`, frame handlers in `gateway/cmd/gateway/main.go` | tables `jobs` (status, agent, `started_at`, queue deadline) and `agents` (status, job) | submit, dequeue, cancel, JOB_ACCEPTED / PROGRESS / RESULT / REJECTED, STATE_SYNC, AGENT_STATUS, HELLO redispatch, expiry tick, forced release | tunnel hub (frames), HTTP, PostgreSQL | every SQL statement is a transaction of its own, handlers hold rows in locals between them; the gateway may stop between two; wake-ups are goroutines |
| **device tunnel hub** `gw/tunnel/hub.go`, `gw/tunnel/device_conn.go` | device → connection map, AckTracker and outbound queue per connection, registry, `devices.status` | Register (with supersede and migration), Unregister, Close, CloseDevice, SendFrame, pumps, retransmitter, ACK | devices, allocator, file and VNC relays | teardown of an old connection against registration of the next; locks; frames retransmitted, given up or stranded |
| **device tunnel client and outbox** `dev/tunnel/client.py`, `dev/tunnel/outbox.py` | socket, msg_id filter, SQLite outbox | dial, HELLO, read loop, `enqueue_and_send`, flush on reconnect, ACK | hub, dispatcher | reconnects and restarts; a send that raises after the frame is persisted |
| **device job dispatcher** `dev/jobs/dispatcher.py` | tables `jobs`, `agents` of the device, one task per dispatched frame | handle dispatch, poll progress, report, handle cancel | agent HTTP API, outbox | a task per frame shares rows with the others; exceptions at each await |
| **agent job executor** `agent/runtime/executor.py`, `agent/server.py` | the single current record and its task | submit, run, cancel, status | brain, browser | the record outlives the job by ten seconds; cancel against the next submit |
| **agent pool reconciliation** `gw/pool/allocator.go` (EnsurePoolSize, ReconcilePool, DrainAgent), `dev/docker/*`, `dev/monitor/*` | `agents` rows and containers | create, delete, drain, reconcile at HELLO and at boot, health checks | hub, Docker | two inventories that change at both ends |
| **VNC session relay** `gw/vncrelay/relay.go`, `gw/httpapi/vnc_handler.go`, `dev/vncbridge/bridge.py` | session map: status, token, two sockets | create, ready, error, bind browser/device, pump, close, reap | browser, device | two sockets bind in either order; late VNC_OPENED; reuse with a new token |
| **file relay** `gw/relay/relay.go`, `dev/files/{stager,puller}.py` | file rows, open uploads, transfer windows | stage, push, ack, pull begin/chunk/end, cleanup | hub, jobs | chunks out of order, window and ack timeouts, cleanup against transfer |
| **authentication and sessions** `gw/auth/*`, `gw/httpapi/auth_handler.go`, `gw/store/tokens.go` | refresh tokens, users | login, refresh, logout | HTTP | rotation is find, revoke, issue in three statements |
| **idempotency and rate limits** `gw/httpapi/{idempotency,middleware}.go` | key → response cache, token buckets | look up, run, store | HTTP | check-then-act |
| **device enrolment and administration** `gw/httpapi/{devices,admin}_handler.go` | `devices`, orgs, audit rows | enrol, rotate token, list | hub | token rotation closes a live tunnel |
| **web event fan-out** `gw/pubsub/pubsub.go`, `gw/httpapi/ws_handler.go` | subscribers with buffered channels | subscribe, publish, unsubscribe | browser | replaced subscriber, full buffer |
| **skill vault and dispatch** `gw/skillvault/*`, `dev/skills/*` | archives, installed versions | upload, install in chunks | hub | as the file relay |
| **credential vault and relay** `gw/credvault/*`, `dev/creds/relay.py` | encrypted logins | inject, wait | hub | a wait with a timeout |
| **agent browser, VNC stack, brain adapters** `agent/browser/*`, `agent/adapter/*` | subprocesses | start, stop | OS | external I/O |
| **mocks, schema, configuration, observability, web, deployment** | – | – | – | no control of their own |

What makes each of them correct:

* **job allocation**: an agent serves one unfinished job at a time; a finished
  job leads to the release of its agent; no queued job waits for ever or beside
  a free agent; nothing is sent to a device before it is on record.
* **hub**: frames go to the connection that is open; an accepted frame is never
  silently forgotten; a superseded connection is closed; presence agrees with
  the connections.
* **tunnel client, dispatcher, executor**: a frame is handled once; an accepted
  job gets exactly one truthful result that reaches the gateway; one brain runs
  in a container; the agent's row is released.
* **pool reconciliation**: rows and containers converge; a fresh agent is not
  deleted by an old inventory.
* **VNC relay**: one pair of pumps per session; a closed session stays closed; a
  token admits to the session it was made for.
* **file relay**: a file that arrives is the file that was sent; cleanup does
  not remove what a running job needs.
* **refresh tokens, idempotency**: a token or a key is used up once.
* **fan-out**: a publisher never blocks, nobody sends on a closed channel.

Every hazard found while reading is in `PROJECT.json` under `hazards`, at the
line where it bites, with the properties below that would catch it. Where the code
does go wrong a property cannot catch it: it excepts the case by the name of a
history variable, and the hazard has a note that says so and names the run by hand
that shows it, if there is one.

## 2. Plan

In the order of importance. All ten modules are written, and each is covered by a
module of theorems (section 13).

| Module | Of | Composes with |
|---|---|---|
| **JobPool** | queue, allocator, frame handlers and expiry over the two tables | implements **AgentLease**, the abstract promise of the allocator |
| **Tunnel** | hub and connections against a device that reconnects | – |
| **DeviceJobs** | dispatcher tasks, executor, outbox and tunnel of one agent | JobPool's device, which may send any frame, is more general than this one |
| **AgentPool** | agent rows against containers: sizes, HELLOs, drains, deletes, reports | takes JobPool's Allocate as one step |
| **FileTransfer** | input files pushed, output files pulled, the result after them | a dispatched job of JobPool, the outbox of DeviceJobs |
| **VncRelay** | browser sessions, sockets, pumps and the device's bridge | the end of a job stops the agent's stack |
| **SkillDispatch** | catalog, artifacts, fleet install, the devices' caches | – |
| **WebEvents** | broker, forwarders and writers of browsers | – |
| **WebAccess** | refresh tokens, idempotency cache, job limiter | – |

Still worth doing, in this order: acknowledgement and handling of a frame as two steps
with a crash between them in Tunnel; statements that fail in JobPool.

Modules are written to be proved about: parameters are CONSTANTS with a named
assumption, an action is one critical section, statement or stretch between two
awaits, no module declares a RECURSIVE operator. Where events are bounded the
bound is a constant `Budgets`, a set of combinations of which `Init` chooses one:
`left` counts down, and nothing but the guard of an event reads it (VncRelay has one
number, `budget`, and `MaxEvents`; SkillDispatch also keeps the number of enrolled
devices there, which no step changes).

A definition with the comment `variant:` above an action is the same step with a
plausible mistake in it. Variants take no part in `Next`; they name the mistakes
that the properties are known to detect (`mutants` in `PROJECT.json`).

## 3. JobPool: the queue and the agents table

| Variable | Code |
|---|---|
| `jobs[j]` | row of `jobs`: `status`, `agent_id` (and `device_id`, set together), ticks since `started_at` |
| `agents[a]` | row of `agents`: `status` (anything but idle is `busy`), `job_id` (and `user_id`, set together) |
| `thr[t]` | a goroutine inside a handler: its next statement and the locals it holds |
| `wake` | `go a.dequeueNext(...)` that have been spawned and not yet run |
| `up` | devices with an open tunnel |
| `sent` | jobs whose JOB_DISPATCH is or may again be on its way |
| `faults` | history only, read by no action: which stale reads or writes have occurred |

One SQL statement is one step, because every statement of `gw/store` runs in its
own implicit transaction (`FindIdle`'s `FOR UPDATE SKIP LOCKED` included: its lock
ends with the statement). Labels of `thr[t].pc` are the statements still to run:
submit is `count`, `find`, `enqueue` or `claim`, `set`, `send`, and on a failed
send `unclaim`, `clear`, `requeue`; dequeueNext is `pick`, `find`, `claim`, ...; a
result is `load`, `release`; a cancel is `cancel`, `release`; STATE_SYNC is `sync`,
`syncfail`, `release`. The handler's first statement is the action that starts it.

*Frames* about a job may arrive at any time once its dispatch was sent, in any
order and any number of times: the device's outbox sends every unacknowledged
frame again and the gateway's msg_id filter belongs to one connection. This is
the most general device; DeviceJobs shows which frames the real one sends.

*Crash* drops goroutines, spawned dequeues and connections, and keeps both tables.

**The four races.** The code can double-book an agent. `faults` records the four
ways, at the step where a statement overwrites what it did not read:

* `doubleClaim` – `agents.Allocate` on a row that already has a job;
* `staleRelease` – `Release` of an agent somebody else is entitled to by now;
* `revived` – an unconditional UPDATE puts a finished job back to unfinished;
* `crashedRollback` – the gateway stops between the release and the `ClearAgent`
  of a failed dispatch.

`ExclusiveUnlessRaced` says that nothing else can: not expiry, requeueing,
STATE_SYNC, an AGENT_STATUS out of turn, a redispatch or any other crash. A
reader who repairs one of the four (say, by a condition in `Allocate`) can
remove it from the list and see whether the theorem still holds.

**Abstractions.** Statements do not fail. `SKIP LOCKED` may pass over a locked
row, so FindIdle returns any free agent and DequeueNext any waiting job
(`PickJob`), but neither reports "none" while there is one. The two expiry UPDATEs touch disjoint rows and are one step. `overdue` is
the status `queued` after its deadline. HELLO's redispatch loop is one step that
sends any subset. Agents are neither created nor deleted (AgentPool). Tier order
is left out, since nothing writes `user_tier`; ids are ordered like
`created_at`. Clocks are the three deadlines after `started_at`, counted in
ticks, `DispatchAges` moves one job at a time.

**Properties.** `TypeOK`; `Ownership`, the inductive core (the row of an agent
names the unfinished job, or the goroutine, that is entitled to it, until a
race); `ExclusiveUnlessRaced`; `DispatchIsRecorded` (SetAgent precedes SendFrame,
so an answer that races back finds an agent to release and STATE_SYNC finds a
grace period); `FinishedIsReleased`, an action property with two exceptions that
the code has: expiry, and a cancel that read the row before the agent was set;
`QueuedLeavesQueue`, liveness.

**AgentLease** is what the rest of the gateway may rely on, without goroutines,
statements, queues or frames: a set of leases `<<agent, job>>`, `Take` of an agent
nobody holds, `Give` of any number of leases back. JobPool implements it through
the mapping *lease = agent and unfinished job that `Holds` it, or the goroutine
between Allocate and SetAgent* and *raced = some `faults` is TRUE*; `KeepsLeases` is
the property, checked in `jobpool_races` and proved as `LeasesKept`. Its step
obligation is stronger than `ExclusiveUnlessRaced`: a lease also never moves from
one job to another within a step, and nothing gains one but Allocate and
dequeueNext.

**Fairness** (`FairSpec`): the Go scheduler runs goroutines (`Step`,
`StartDequeue`), the 30 s ticker ticks (`ExpiryTick`) and time passes
(`QueueTTLEnds`, `DispatchAges`). Nothing is assumed of devices, customers,
administrators, connections.

## 4. Tunnel: the hub and its connections

| Variable | Code |
|---|---|
| `slot` | `Hub.devices[deviceID]` |
| `conn[c]` | a `DeviceConn` and its goroutines: next statement of Register (`reg`) and of Close (`close`), the connection it supersedes, HELLO handling, AckTracker (retries so far per frame), outbound channel |
| `send[m]` | the SendFrame call for frame `m`: lookup, closed check, track, enqueue |
| `admin` | the CloseDevice call of a token rotation |
| `registry`, `status` | node registry entry, `devices.status` |
| `dev` | the device's current connection, its msg_id filter, how often it handled a frame |
| `wire`, `acks` | frames written to a socket and not read, ACKs on the way back |
| `history` | history only: acknowledged and stranded frames; whether a teardown overlapped a registration (`overlap`) and whether a HELLO handler outlived its connection (`late`) |

Critical sections of `Hub.mu` are single steps; `CloseDevice` keeps the mutex from
`CloseDevice` to `CloseDeviceReturns`, so every other user of the mutex is guarded
by `HubUnlocked`. `Register` is five steps (map, migrate, close the old one,
wait for its teardown if this goroutine won it, registry), `Close` three (unmap,
registry, OnDisconnect), `SendFrame` four. Between any two the device may hang
up, dial again or restart. `CheckLiveness` closes the connection in the map on
behalf of a registry entry that an earlier one left, while it is still in Register.

**Abstractions.** Close's CompareAndSwap and the closing of the socket are one
step. RetransmitReady and the offer to the queue, and RemoveFailed, are one
step per frame; the backoff is not timed, any tracked frame may be due. Bytes in
flight on a closed socket are lost. The device receives and acknowledges in one
step; only a process restart empties its filter (10 000 entries are more than
the model sends). The durable outbox of the device is in DeviceJobs. `CloseAll`, at
the gateway's shutdown, has the shape of CloseDevice and is left out.

**Properties.** `Routable` (an open registered connection is the one SendFrame
finds, or is about to be closed by its successor; an old teardown never unmaps a
newer connection); `AcceptedIsTracked` (an accepted frame is acknowledged, still
tracked where somebody will look, or stranded in one of the three ways the code
has); `HandledOnce`; `StatusAgrees` (registry and `devices.status` agree with the
hub when nothing is in progress, with three exceptions that the code has and
`history` names: a device that reconnects during the teardown of its last
connection, a connection that the liveness checker closes in its Register, and a
HELLO handler that outlives its connection); `ReplacedIsClosed`, liveness.

**Fairness**: goroutines of Register, Teardown and CloseDevice that can take a
step do. Devices, networks, pumps and callers owe nothing.

## 5. DeviceJobs: a job on its device

One agent, its device and as much of the gateway as decides which frames arrive.

| Variable | Code |
|---|---|
| `row`, `jrow` | SQLite: `agents.job_id`, `jobs.status` |
| `disp[c]` | the asyncio task of `handle_job_dispatch` for frame `c`, consecutive failed polls, the status it is about to report |
| `reader` | the read loop: free, or awaiting `handle_job_cancel` |
| `exec` | `JobExecutor._current` and the `cancel()` calls in progress |
| `task[c]` | the `_run` task and record of a submitted job |
| `link`, `outbox`, `down` | tunnel up; unacknowledged frames in SQLite; frames from the gateway not yet read |
| `gw` | the gateway's status of each job, the agent's job, and the job each frame is about |
| `left` | how many drops, restarts, faults and cancels may still happen |
| `history` | history only: runs started and finished, successes reported, and `odd`: the unusual events so far and the overtakings below |

Device and agent are one event loop each; a step is what a task does between two
awaits. A dispatcher goes `start` (rows and JOB_ACCEPTED) → `waiting` (files,
credentials) → `posted` (POST /jobs answered) → `polling` → `pulled` (outputs) →
`cleanup` → `done`; `failing` is the except clause, `dead` an exception or early return
that skips the release, `lost` the end of the process. A send raises while the
tunnel is down, after the frame is in the outbox; what that does depends on the
try statement it is in, which is why `Accept`, `Started`, `PollFinished`, `Report`,
`Fail` and `Cleanup` differ.

**Abstractions.** Local HTTP calls are prompt, one step at the executor. The ten
seconds a finished record is kept are longer than a dispatcher's local steps and
than `Retention` polls. JOB_PROGRESS and AGENT_STATUS are not kept in `outbox`: only
whether their send raises matters here, their effect on the gateway is in JobPool.
An ACK is lost only together with its connection. Frames to the device are read
in order on a connection; any part of them, in any order, survives a lost
connection (the AckTracker is a Go map). The fifteen seconds before a redispatch
are not timed. The skill refusal (422) has the outcome of a 409. The agent
container itself does not restart. The hour's end (`PollTimesOut`) may come at any
poll.

**Properties.** `TruthfulSuccess` (a reported success was earned by this job's own
run, though the executor has one record that changes hands); `OneBrain` (one run
at a time, and no run clears another's record, on one connection); `SuccessKept` (on an undisturbed device a success is not recorded as a
failure: the record outlives the next poll); `RowNamesLiveJob` (the agent row is
released, except by the two early exits); `AcceptedReports` (an accepted job gets
a result, whatever the agent does, unless the device process ends);
`ResultArrives` (a result in the outbox reaches the gateway).

*What one brain at a time rests on.* A cancel frees the executor at once and the task
goes on for ten seconds. What hides this is the read loop, which awaits the cancel
and does not see the next JOB_DISPATCH before. That takes an order of frames, which
three events break, and `history.odd` names them: a lost connection (`drop`); a cancel
that the device reads while the job's own dispatcher has yet to post it (`early`: the
cancel finds nothing to wait for, and two frames are handled at once); and a cancel or
a result for a job that no longer has the agent, on behalf of which the gateway frees
it (`stale`). `OneJobAtATime`, in a run by hand, states what the documents say without
the last two and fails. `clobber` is a run that clears the record of another.

**Fairness**: event loops run ready tasks, the hour ends, the tunnel comes back
and carries what is written to it. The brain need not finish, and no gateway
action, frame delivery to the device, drop or fault need happen.

## 6. AgentPool: rows and containers

| Variable | Code |
|---|---|
| `row[a]` | row of `agents` at the gateway: status, port, older than the two minutes of grace, `user_id` set |
| `job[j]` | a job as far as it holds an agent: `new`, `held` (after Allocate), `active` (row and frame), `unlinked` (SetAgent found no agent), `over`; `named` is `jobs.agent_id` |
| `run[j]` | the job on the device: not there, running, ended |
| `dev[a]`, `boot` | the device's `agents` table; the list its HELLO carries, built once at start (`hello_extras`) |
| `link`, `down`, `up` | the tunnel; frames to the device; what the outbox sends until it is acknowledged |
| `call` | three callers: EnsurePoolSize for an admin, ReconcilePool of a HELLO with OnStateSync behind it, DrainAgent |
| `left` | `Budgets` |
| `loose` | history only: jobs whose agent the gateway released for another job, or that were made running again after their end |

`Count` and `CreateNext` are EnsurePoolSize round by round: an admin's and a HELLO's
call may count the same rows and create the same ports, which `UNIQUE (device_id,
port)` refuses (`PortTaken`). `Hello` takes the rows ReconcilePool read, `Promote`,
`DeleteStale` and `Deleted` are its loops; `ListLost` and `FailLost` are those of the
STATE_SYNC that follows a HELLO. `DrainAgent` reads, `DrainDelete`, `NullTerminalJobs`
with `ClearAgent` for each job it lists, `DrainMark` write. `GatewayReads` is the read
loop, which also runs ReconcilePool and OnStateSync, hence its guard; a connection that
is lost before the ACK makes the outbox send the frame again. `OnAgentStatus` stores
what is reported.

*Who releases an agent.* Every JOB_RESULT does (`OnJobResult`), the second of a job and
the one after a cancel or a STATE_SYNC included, and so do `Cancel` and `FailLost`
(`Finish`): none compares the agent's job, and the results not even the status of their
own. One of them may free the agent under the next job. `loose` names that job, and `JobKeepsAgent` speaks of the
others.

**Abstractions.** The sizes that are asked for have a largest one (an assumption on
the constant, since an administrator may ask for any). Allocator.Allocate and a cancel
are one step each (JobPool has the races inside them); jobs are submitted in the order
of their numbers, and not queued again. Agents that the device makes for itself when it
starts have ids the gateway does not know, and are left out. A frame for a device that
is offline, or whose queue is full, may not be sent; of those on their way any number, the
oldest first, are lost with a connection or a process (`LoseFrames`), which is what is
left of the cases of Tunnel.

**Properties.** `PoolSound` = types and `PoolBounded`: however callers interleave, the
device never has more rows than the largest size asked for. `JobKeepsAgent` =
`AgentServesOne` (a stale report of `idle` makes a row idle under a job; the allocator
must not take it) and `ActiveJobKeepsAgent` (no drain, delete or reconciliation
removes the row of an active job's agent, though each reads first), both for the jobs
that are not `loose`. `CreateAnswered`, liveness: an agent that the device has made
leaves `creating` at the gateway in the end, however its report is delayed, repeated or
raced by a HELLO. An AGENT_CREATE that is lost makes no agent, and its row is what the
next HELLO deletes, once it is two minutes old; an agent the device was making when it
was killed stays `creating` there, is reported so for ever (`HalfMade`), and is
excepted. `DeletedAgentsAreGone` is a finding.

**Fairness**: the two read loops, the handlers of a HELLO and of its STATE_SYNC, and a
device that dials again. Admins, their requests, jobs, health checks and the clock owe
nothing.

## 7. FileTransfer: inputs and outputs of jobs

| Variable | Code |
|---|---|
| `file[f]` | row of `files` and whether the staged file is on disk |
| `job[j]`, `push[j]` | the submit handler's place; chunks whose goroutine has yet to send |
| `down`, `buf`, `inputs` | frames to the device; `FileStager._bufs`; the file in a job's workspace |
| `pull[j]` | `FilePuller._send_file`: attempt, next frame, answers heard |
| `link`, `out`, `flush`, `done` | tunnel; frames sent on this connection; frames the outbox sends again; frames handled whose ACK may be lost |
| `gbuf`, `rows` | `pullBufs` of the gateway; how often an output was registered |

A file's content is the sequence of its chunk numbers and its SHA-256 is right when
that is `1 .. N`. `SendChunk` is a goroutine of its own for each chunk, so they arrive
in any order and mixed with those of another push of the same file (two jobs share
the input). On the way back `PullSend` sends BEGIN, chunks, END with the outbox;
`PullFails` is a timeout or a refusal and starts the next attempt, until the third;
`PullTimesOut` is `PULL_OUTPUTS_TIMEOUT`, the sixty seconds after which the dispatcher
cancels the puller, in the middle of an attempt, and sends the result (`Result`). `Drop`
and `Reconnect` make the outbox send again what was not acknowledged; of the gateway's
frames any number may be lost with the connection. SendFrame refuses (`Refused`) when
the device is offline or its queue is full, and in the second case the frame may still
be delivered: without BEGIN, a chunk or END the push fails (`failing`) and the job
starts without its input. The device's handler sends JOB_ACCEPTED outside its try
statement: on a dead socket it ends there, and the job is `stuck`.

**Properties.** `StagedWasWhole`: what is recorded `staged_device` was whole in the
workspace. `ResultAfterOutputs`: on a connection that lasts, a job is over only after
its output is registered, whatever answers are lost, unless the puller gave up after
three attempts or was cancelled after sixty seconds.
`TransferSound` = types and `RegisteredPerBegin`: a replayed END registers nothing.
`OutputsEnd`, liveness: a job that the device has started is reported whatever is lost.
It does not speak of a `stuck` job, nor of one whose JOB_DISPATCH was lost, for which
the gateway's dispatch timeout is there (JobPool).

**Abstractions.** A dispatch that is refused leaves the job waiting for another, since
JobPool has the rollback. `N` is below the eight chunks in flight, so the window never closes.
One input per job, one output archive per job. Uploads, quotas and listings are left
out. **Fairness**: the goroutines of both programs, and a device that dials again;
nothing of `PULL_OUTPUTS_TIMEOUT`, which the puller does not need to end.

## 8. VncRelay: a user's view of the agent's browser

| Variable | Code |
|---|---|
| `sess[s]` | `Relay.sessions`: status, token, `readyCh`/`readyErr`, both sockets, running pumps |
| `act` | bind handlers between storing their socket and `maybeActivate` |
| `req[o]` | POST `/jobs/{id}/vnc` requests |
| `bridge[s]` | the device's row, handler and `_bridge` task: `starting` (handle_vnc_open awaits vnc_start), `created` (the task has not taken its first step), `dialing`, `up`, `stopping` and `cancelled` (its finally block awaits vnc_stop, by itself or after a VNC_CLOSE), `ended`, `lost` |
| `down`, `up` | VNC_OPEN / VNC_CLOSE and VNC_OPENED / VNC_CLOSE frames |
| `stack`, `job` | the agent's X and VNC server; the job |
| `budget` | how many opens, losses and closes may still happen |

Names that WebEvents has too carry a prefix (`VncInit`, `VncNext`, `vncVars`), because
one module of theorems extends both.

`MarkReady` and `MaybeActivate` store a status without comparing it, which revives a
closed session; `revived` records where. Each binder that finds both sockets starts
two pumps, so four can run. An open request creates the session in one step (`Open`)
and reads its status again in the next (`SendOpen`). A bridge ends through `_bridge`'s
finally block, which stops the stack (`Stops`); decoding the empty 204 answer then
raises before VNC_CLOSE is sent. A VNC_CLOSE cancels the task wherever it is
(`Cancels`): before its first step no finally block runs, and during vnc_stop the call
is cut off; these, and a vnc_stop that fails, leave the bridge `lost`. The device's read
loop awaits handle_vnc_open, so a VNC_CLOSE is read before that first step exactly when
it was waiting behind its VNC_OPEN.

**Properties.** `RegistrySound` = types and `DeadSocketNoticed` (a live session with a
dead socket has a pump, or a binder about to start one, that will close it).
`OneSessionPerJob`: a job has one session that is not closed, unless a closed one was
revived. `SessionsEnd`, liveness: in the end every session is closed and no pump
runs, revived or not. `StackStops`, liveness: from a bridge that has a task the stack is
stopped, or all bridges are over and one of them is `lost`; while another bridge goes
on, or none is lost, it is stopped.

**Fairness**: both processes' schedulers, the reaper's ticker, and every TTL passes.
Customers owe nothing.

## 9. SkillDispatch: a skill on the fleet

| Variable | Code |
|---|---|
| `skill`, `granted`, `sha` | rows of `skills`, `skill_grants`, `skill_versions` |
| `file[v]` | the artifact on disk, and what one who reads it sees |
| `row[d]` | `device_skills` of the gateway |
| `call[c]` | HTTP requests: the next statement, and for an install the device, the chunk it reads and those a goroutine has yet to send |
| `link`, `down` | tunnels |
| `cut` | history only: devices whose connection was lost, or for which a dispatch met an error |
| `buf[d]`, `cache[d]` | `SkillManager._dispatch_bufs`; the device's skill and its artifact |

Publishing is four steps (create the file, which empties one that is there; copy;
insert; set latest); when the insert is refused the file is removed although it may
be that of the row that is there. An install goes through the devices in order, and
for each reads the version, writes the row, opens the artifact and streams it, each
chunk in a goroutine; with no device listed it does nothing. The upload is copied
chunk by chunk, and an error removes the artifact (`Copy`). A send is refused
(`Refused`) when the device is offline or its queue is full, in which case the frame
may yet be delivered; after a refused chunk no END is sent (`SendEnd`), and a read
error ends the dispatch at once, with its goroutines still running (`ReadError`). A
lost connection takes any number of frames with it; a reconnect sends the others in any
order (a bijection onto the old positions).

**Properties.** `CachedIsPublished`: a device caches only what was published as that
version, whatever dispatches interleave, chunks are reordered, or artifact is
published again while it is read. `CatalogSound` = types, `WantedIsPublished` and
`LatestIsPublished`: rows name versions that are there, though every handler reads
before it writes. `BuffersEnd`, liveness: a transfer ends on a device that is not `cut`,
although the artifact was emptied, removed or written under the reader. On one that is
`cut` the device keeps its buffer for ever: nothing but an END or the next BEGIN
empties it.

**Abstractions.** A device's SKILL_STATE is handled in the step that sends it, because
it changes nothing (finding by hand below). Per-agent skills are left out.
**Fairness**: the handlers that have begun, the tunnels and the devices' read loops.

## 10. WebEvents: live events

| Variable | Code |
|---|---|
| `subs`, `chans` | `Broker.subs`; every channel made, its queue, open or closed, and whether its forwarder runs |
| `conn[c]` | a browser's read pump, write pump, subscription count and dispatch channel |
| `n` | events published |

The broker's operations hold its lock and are one step. `Subscribe` with an id that
is there replaces the channel and leaves it open, with its forwarder (`replaced`);
a client may name its own topic, which it was subscribed to on connecting. Publishers
hold the lock for reading, so two publications may overlap; they are one step each,
because for one browser they come one after the other and no property compares two
browsers.
`OnUnsubscribe` lowers the count also for a topic that was not subscribed (`stray`).
Writing takes two steps, since the read pump writes acknowledgements and pongs itself.

**Properties.** `BrokerSound` = types, `RegisteredIsOpen` (nobody publishes to a closed
channel, which would end the gateway), `ScopedStays` (an event for a user is on its
way to that user only), `CapKept` (the cap of subscriptions, for a browser that
unsubscribes only what it has). `WrittenInOrder`: two forwarders for one topic do not
write an event twice, and the events of a topic that was subscribed once are written in
the order they were published. Of a topic that was subscribed again they are not, even
after an unsubscribe: what the old channel still holds is forwarded beside the new one
(`ws_handler.go:157`). `ForwardersEnd`, liveness: after a browser is gone its
forwarders end, but for those of replaced channels.

**Fairness**: read and write pumps and forwarders. Browsers owe nothing.

## 11. WebAccess: sessions and submissions

| Variable | Code |
|---|---|
| `users`, `tokens` | rows of `users` and `refresh_tokens` (family, revoked, expired) |
| `call[c]` | requests: the next statement or critical section |
| `stamps`, `cache`, `now` | the limiter's time stamps, the idempotency cache, the clock in ticks |
| `forked`, `ended`, `late`, `passed`, `done`, `shared`, `unkept` | history only |

A refresh is find, revoke, issue; a logout or the reuse of a revoked token revokes the
family in one statement. The idempotency cache is read before the limiter and the
handler and written after them. The handler refuses, fails, or inserts the row of the
job (`Handle`); then it allocates (`Allocate`), which may fail too, with a 500 that the
cache does not keep, and the row stays. `Restart` of the gateway empties the cache and
the limiter, which are in its memory, and ends the requests.

**Properties.** `SessionTokens` = `OneLiveToken` and `EndedStaysEnded`: a session has at
most one token to refresh and none after it ended, unless two refreshes found the
same token (`forked`) or one was between its statements when the family was revoked
(`late`): these two overlaps, and no others, break it. `CreatedOnce`: a key creates no
second job within the day of the first, unless two requests brought it at once
(`shared`), or the answer of the first was not kept (`unkept`): the allocation failed
after the row was inserted, or the gateway restarted.
`LimiterSound` = types and `RateKept`: the limit holds in every window, whatever the
sweep removes, while the gateway runs.

All of it is safety: a request ends by itself, and nothing waits for another.

## 12. Runs

Twelve runs; `tlc -workers 2 -config <cfg> <module>`. Each takes less than two minutes.

| Run (cfg) | Instance | Shows |
|---|---|---|
| `jobpool_races` (`MCJobPool_races`) | 2 jobs of one user, 1 agent, 2 goroutines, queue cap 1, deadlines merged; up to the first race, device online | the safety properties and the refinement of AgentLease hold through every interleaving of two handlers |
| `jobpool_live` (`MCJobPool_live`) | 1 job, 2 agents, 1 goroutine, the three deadlines apart, crashes and disconnects | a queued job leaves the queue |
| `tunnel_hub` (`MCTunnel_hub`) | 2 connections, 1 frame, queue of 1, 1 retry | the five invariants and `ReplacedIsClosed` |
| `tunnel_rotate` (`MCTunnel_rotate`) | the same without retries | *violation*: a token rotation never returns |
| `device_jobs` (`MCDeviceJobs_jobs`) | 2 jobs on one agent, one frame each, or 1 job in two frames; any one of a lost connection, a restart, a fault of the agent, a cancel | the five invariants and the two liveness properties |
| `agent_pool` (`MCAgentPool_pool`) | 3 agent ids, 2 jobs; pool set to 2 beside one drop, removal, check or cancel; or a pool of 1 with a restart and a check, or a removal and a cancel | the invariants and `CreateAnswered` |
| `pool_hello` (`MCAgentPool_hello`) | the same with one drop | *violation*: an agent on the device is deleted |
| `file_transfer` (`MCFileTransfer_transfer`) | 2 jobs that share an input of 2 chunks with a refused send and a deletion; or 1 job with an output of 2 chunks, a lost connection, a lost answer or the sixty seconds | the three invariants and `OutputsEnd` |
| `vnc_relay` (`MCVncRelay_relay`) | 2 sessions, 2 open requests, one failure, forgotten agent or user's close | the two invariants, `SessionsEnd`, `StackStops` |
| `skill_dispatch` (`MCSkillDispatch_fleet`) | 2 versions, 2 uploads, 2 chunks, 2 requests at once on 1 or 2 devices; eight combinations of publications, installs, actions, edits, lost connections and errors | the two invariants and `BuffersEnd` |
| `web_events` (`MCWebEvents_events`) | 1 or 2 browsers, 3 topics, channels of 2 and 1, cap 3; five combinations | the two invariants and `ForwardersEnd` |
| `web_access` (`MCWebAccess_access`) | 2 accounts, 1 key, 2 requests at once; sessions, or submissions over 3 ticks, each also with a restart | the three invariants |

The other configurations in this directory are for running by hand. Each but
`MCDeviceJobs_again` and `MCDeviceJobs_cancels` violates the one property it names, which states what a document
or a comment says:

| cfg | What TLC shows |
|---|---|
| `MCJobPool_busy` | `NeverAllocatesBusy`: two submissions read the same idle agent and both allocate it (`docs/spec/01-architecture.md:249`) |
| `MCJobPool_timeout` | `TerminalReleasesAgent`: the dispatch timeout fails a job and keeps its agent busy (`01-architecture.md:195`) |
| `MCJobPool_wakeup` | `NoLostWakeUp`: a failed submit wakes the queue before it puts its job back (`02-cloud-gateway.md:187`) |
| `MCDeviceJobs_busy` | `RunningIsAccepted`: a 409 of the executor is taken for an acceptance (`03-local-device.md:85`) |
| `MCDeviceJobs_buffered` | `ResultsBuffered`: a job that ends while the tunnel is down is reported as failed (`01-architecture.md:240`) |
| `MCDeviceJobs_twice` | `RunsOnce`: a redispatch has a new msg_id and runs again (`08-auth-security.md:72`) |
| `MCDeviceJobs_again` | passes: with any two unusual events two dispatchers of one job report truthfully and leave no row behind |
| `MCDeviceJobs_cancels` | passes: with two cancels of two jobs the four invariants of safety hold |
| `MCDeviceJobs_brains` | `OneJobAtATime`: with two cancels and three jobs two runs overlap on one connection (`04-agent-container.md:10`) |
| `MCAgentPool_drain` | `DrainedNotReused`: a drained busy agent is idle again after its job (`allocator.go:479`, `07-api.md:57`) |
| `MCFileTransfer_inputs` | `InputsComplete`: a queued job is dispatched without its input files (`03-local-device.md:81`) |
| `MCVncRelay_retry` | `RetryKeepsBridge`: a second open draws a new token, and the first bridge is refused (`relay.go:82`) |
| `MCSkillDispatch_state` | `InstallEnds`: SKILL_STATE has no scope, so a row stays in `installing` (`01-architecture.md:122`) |
| `MCWebEvents_cap` | `Capped`: unsubscribing what was not subscribed makes room beyond the cap (`07-api.md:287`) |
| `MCWebEvents_writers` | `OneWriter`: the read pump's pong and the write pump write at once |
| `MCWebAccess_race` | `EndedIsEnded`: a refresh under way adds a live token to a session that was logged out (`08-auth-security.md:23`) |
| `MCWebAccess_wait` | `WaitingHelps`: the idempotency cache keeps a 429 for 24 hours (`middleware.go:417`) |

**Bounds and why they are enough.**

* *JobPool*. Every race in the code is between two goroutines and one agent; a
  third job or agent adds rows that no handler relates to the first two (the
  theorems of section 13 lift the invariants to any number). One agent makes every
  allocation contended. `MaxWake = 1`: dequeue goroutines are interchangeable, and
  one that has not started yet does nothing another does not do. `races` merges
  the three deadlines (`RedispatchAge = GraceAge = TimeoutAge = 1`), `live` keeps them
  apart. `NoFaultYet` cuts the search at the first race, after which the
  conditional invariants and the refinement say nothing; `TypeOK`,
  `DispatchIsRecorded` and `FinishedIsReleased` hold beyond it too, by proof.
  `AlwaysUp` leaves disconnects to `live` and to the proofs; SendFrame's other
  failure, the full queue, is in `races`. Symmetry of threads and agents is used in
  safety runs only.
* *Tunnel*. Supersede, migration and late teardown relate a connection to its
  predecessor: two connections have all of them (a third, superseded while it
  still migrates, is covered by the theorems). One frame meets a queue of one
  that its own retransmission fills. One retry separates "retransmitted" from
  "given up".
* *DeviceJobs*. Two frames are needed for a record or a row to change hands; a
  third brings no new pair. `Assignments` has both cases, the frames of two jobs and
  two frames of one job, which HELLO sends after a lost connection. `MaxFailures = 2` stands for 5 and `Retention = 2` for the
  polls in ten seconds: what matters is that a failure is not yet the last one,
  and that a finished record survives a failed poll. `MaxEvents` bounds how many
  unusual events a behaviour has, of whichever kind.
* *AgentPool*. Two rows of a pool of two, and a third id for what a reconciliation
  makes after it deleted one. One event of a kind beside the admin's call: the
  three callers already overlap with each other, with two jobs and with frames. Two
  jobs on one agent are what a second or late release needs; with a drop the first
  result comes twice.
* *FileTransfer*. Two chunks can be swapped, mixed and lost in part. Two jobs share
  a file; the retries are two, so that an attempt is not yet the last one. One lost
  connection loses any number of frames, one fault is a lost answer, a refused send
  or the end of the sixty seconds.
  `MaxReplay = 4` is BEGIN, both chunks and END handled with their ACKs lost.
* *VncRelay*. A second session exists only after the first was closed, so two show
  a revived one beside its successor; two opens draw two tokens. One VNC_CLOSE behind
  its VNC_OPEN is what cancels a task before its first step.
* *SkillDispatch*. Two requests, two versions and two uploads are what a mixture of
  dispatches or a publication under a reader needs; two devices only to go on to
  the next one. One error is a read, a write or a queue that is full.
* *WebEvents*. Channels of two and one are full after three events; a cap of three
  leaves room for the connection's own topic and two more.
* *WebAccess*. Two requests overlap in every pair of statements; a third refresh or
  login follows them. Ticks: a window of two, a TTL of three. One restart falls
  between any two statements.

Deadlock is checked in JobPool only: in the others a finite supply of connections,
frames, requests and events ends, and an idle system may stop.

## 13. Proofs

`JobPoolProofs` EXTENDS JobPool and proves, for any finite or infinite sets of jobs,
agents, devices, users and goroutines, from `ConstantsOK` alone:

| Theorem | Statement |
|---|---|
| `TypeCorrect` | `Spec => []TypeOK` |
| `OwnershipHolds` | `Spec => []Ownership` |
| `ExclusiveHolds` | `Spec => []ExclusiveUnlessRaced` |
| `DispatchRecorded` | `Spec => []DispatchIsRecorded` |
| `FinishedReleased` | `Spec => FinishedIsReleased` |
| `LeasesKept` | `Spec => KeepsLeases` (JobPool implements AgentLease) |

*Type correctness* is inductive as it stands because it says which goroutine has
a job and an agent in its locals (`Ready`): `Claim`, `Release` and the others index
the tables with them. It is proved conjunct by conjunct (`JobsOK`, ...), each
statement of the stores having a lemma of its own.

*Exclusivity* is not inductive: two rows that name one agent are prevented by what
the agent's row says. `OwnInv == TypeOK /\ Unborn /\ Ownership` is. `Owned` says that
an entitled job, or a goroutine between Allocate and SetAgent, is the one the agent
row names; `Unborn`, that a job that does not exist holds no agent, is needed when
a submit creates the row. Most steps leave all agent rows as they are and give
nobody an entitlement: `Undisturbed` and `NothingGained` state that, and one lemma
preserves `Owned` for all of them. What is left is the steps that write an agent
row (`Claim`, `Unclaim`, `Release`, `ForceRelease`, `ReportAgent`) or a job's agent
(`RecordAgent`, `ClearJob`), and `Crash`, which takes a rolling-back goroutine away.

*Recording before sending* needs `Recorded`: a goroutine at `send` has set its job's
`started_at`. No statement clears it.

*Release after finishing* is an action property proved from `TypeOK` alone: of the
steps that make a job terminal, the result handlers and the cancel go on to
`load` or `release`, and the others are the exceptions the property names.

*The refinement* uses `OwnInv` again. The same split into quiet steps and steps that
write an agent row gives the mapped step: a quiet step leaves the leases of
unfinished jobs alone or ends some (`QuietLeases`; `StepQuiet`, `BeginQuiet` and
`OtherQuiet` say which steps are quiet), `Claim` takes the lease of an agent that
`OwnInv` says nobody held (`ClaimTakes`), `RecordAgent` passes it from the goroutine
to the row of the same job and `ClearJob` gives it back (`RecordAndClearGive`), and
a step that sets a fault maps to the disjunct that promises nothing (`NextLease`).

`TunnelProofs` EXTENDS Tunnel and proves, for any number of connections, any finite
set of frames (msg_ids in one process's memory), any queue capacity of at least
one and any number of retries, from `TunnelConstantsOK`:

| Theorem | Statement |
|---|---|
| `TypeCorrect` | `Spec => []TypeOK` |
| `RoutableHolds` | `Spec => []Routable` |
| `HandledOnceHolds` | `Spec => []HandledOnce` |
| `AcceptedHolds` | `Spec => []AcceptedIsTracked` |
| `StatusHolds` | `Spec => []StatusAgrees` |
| `RotationNeverReturns` | `Spec => [][admin.pc = "closing" => admin'.pc = "closing"]_vars` |

*Type correctness* contains the bound on the outbound queue: `QueueOps` shows that
an offer, a read and a migration each stay within the channel's capacity.

*Routing* is inductive beside the types. `RoutingCases` separates the steps that
touch neither the map nor a connection's place in Register or Close (`Steady`) from
those that do, and `RoutableStep` takes these one by one: the witness for a
connection that has just been replaced is the goroutine that replaced it, and it
stays the witness until it has closed its predecessor.

*Single handling* needs the filter: a frame that is not in it was not handled.

*Accepted frames* are not covered by an inductive invariant as the property
stands, because a frame is promised at `sent` and can be lost before. `Tracking`
asks for it from the moment the frame is tracked; `Slots` (the map names a
registered connection, no connection supersedes itself) is needed when frames
migrate, so that the connection that takes them over is not the one that loses
them. `SafeStep` follows one frame through every step: it stays pending
(`StillPending`), moves to the successor, or is settled, and what is settled
stays so (`SettledStep`).

*Agreement of the status* is about moments when nothing is under way, so the
invariant (`Agree`) has to follow every registration and teardown from the first
statement to the last: whoever is being registered is in the map (`Registers`), one
connection leaves at a time (`OneLeaves`), it is the one the connection in the map
supersedes or was the last (`LeavesInTurn`), what is in the map and served is
registered, and online once its HELLO is handled (`Arrives`), and with nobody there
the device is offline (`NobodyThere`). All of it holds while `InTurn`: no overlap (of a
reconnect with a teardown, or of the liveness checker with a Register), no late HELLO,
no CloseDevice that hangs.

*RotationNeverReturns* is the finding of section 14 without a bound: `Births` says
that a connection CloseDevice has closed is about to be unmapped, for which its
teardown needs the mutex that CloseDevice holds.

`DeviceJobsProofs`, from `DeviceJobsConstantsOK` (any jobs, frames, assignments of
frames to jobs, budgets):

| Theorem | Statement |
|---|---|
| `TypeCorrect` | `Spec => []TypeOK` |
| `SuccessIsTruthful` | `Spec => []TruthfulSuccess` |
| `RowIsReleased` | `Spec => []RowNamesLiveJob` |
| `OneBrainRuns` | `Spec => []OneBrain` |
| `SuccessIsKept` | `Spec => []SuccessKept` |

*Types* say that a dispatcher which pulls outputs has seen a terminal status
(`DispOK`). *A truthful success* needs `Earned` of the dispatchers, the records and the
reports together: a status is copied from one to the next. *The released row* needs
`Known`: a job whose frame or cancel is on its way is known to the gateway, so it is
not dispatched for the first time once more.

*One brain* is the hard one. `Alone` says what is meant, beside the read loop: a task
that is not over has the record, and while the read loop is in a cancel no frame
waits to be posted. That needs the order of the frames (`InOrder`): each job has one
frame, which is in the queue until it is read; its cancel comes after it; a job that
the device has not posted has the agent or its cancel is on the way (`Holds`); between
another job's cancel and the frame of this one the cancel of this one comes first
(`Apart`); a result is about a job that was posted (`Posted`). Both hold while the
device is `Settled`, that is, without the events section 5 lists.

*A kept success* follows one frame without any unusual event (`Healthy`): its record
is there while its dispatcher polls, and the dispatcher has not looked at it since the
run ended.

`AgentPoolProofs`, from `AgentPoolConstantsOK` (any agents, jobs and sizes with a
largest one; the ids may be infinitely many, since `Existing` is proved finite):

| Theorem | Statement |
|---|---|
| `PoolHolds` | `Spec => []PoolSound` |
| `AgentsServe` | `Spec => []JobKeepsAgent` |

*The bound of the pool* counts rows, and no step counts all of them. `Ports` replaces
the count: the port of a row is below the largest size and no two rows share one, so
the rows are mapped one to one into the ports. `Asked` keeps the index of a loop below
the size it was called with. *An agent serves one job* rests on `Serving`: the row of
an agent that serves a job that is not `loose` has its `user_id` set for as long as there
is a row, which is what FindIdle asks for; from SetAgent on the job's row names the
agent, and the foreign key refuses every DELETE of it. A release does not look whom the
agent serves, so each `Finish` is followed for the jobs it makes `loose` and for the
others. `Sent`: frames, the device's jobs and the lists of callers are about jobs that
were given an agent. `Cleared`: a job that nullTerminalJobsForAgent listed is over when
its ClearAgent comes, or was made running again and is `loose`.

`FileTransferProofs`, from `FileTransferConstantsOK` (any files, jobs, chunks, retries):

| Theorem | Statement |
|---|---|
| `TransfersHold` | `Spec => []TransferSound` |
| `StagedFilesWereWhole` | `Spec => []StagedWasWhole` |
| `OutputsComeFirst` | `Spec => []ResultAfterOutputs` |

*Registrations* are paid for by BEGINs (`Paid`): an open buffer still owes one. *Staged
files*: the open file of an id is what is in the workspace (`Opened`), an
acknowledgement anywhere in the outbox, sent or to be sent again, is of a file that was
placed (`Told`), and so is a row that says so (`Placed`). *Outputs first* is about the
queue of frames and not about any one state of the puller: on a connection that was
never lost, behind the last BEGIN of a job every chunk lands (it is in the gateway's
buffer, or in the queue behind the BEGIN), one END comes after them and the result after
the END (`Streams`, with `Arrives` for an attempt under way and `Ends` for one that is
over). A frame that is appended and a frame that is taken from the front each have a
lemma; an attempt that fails begins a new stream behind the old one. The sixty seconds
end a stream anywhere (`StreamsTimeOut`): `Pulling` says that a puller that has used its
retries is over, and of such a job the property promises nothing. `Dispatched`: one
JOB_DISPATCH is on its way for a job at most, so that a job is started, and pulled, once.

`SkillDispatchProofs`, from `SkillDispatchConstantsOK` (any devices, versions, uploads,
requests and chunks):

| Theorem | Statement |
|---|---|
| `CatalogHoldsTogether` | `Spec => []CatalogSound` |
| `CacheIsPublished` | `Spec => []CachedIsPublished` |

*The catalog* reads and writes in separate statements, so `Requests` says what a request
still knows of the rows it read (`Knows`): the versions stay while the skill exists
(`Kept`). *The cache*: `Said(v, of)` is what a request, a BEGIN, a buffer or a cached
artifact says of a version, namely the hash in its row, as long as the skill exists;
`Told` follows it from the row through the frames to the cache, where the hash of what
was assembled is compared with it.

`BrowserSocketsProofs` extends the two modules about sockets of browsers, WebEvents and
VncRelay; they share no variable, and the theorems are about one `Spec` or the other.
From `WebEventsConstantsOK` (any connections, topics, users, sizes of channels and number
of events):

| Theorem | Statement |
|---|---|
| `BrokerIsSound` | `Spec => []BrokerSound` |
| `EventsWrittenInOrder` | `Spec => []WrittenInOrder` |

`Wired`: what the map names is an open channel of that connection and topic. `Flow`: an
event is in one channel of a connection, in its dispatch channel, or written
(`OnTheWay`), and meant for that browser (`Addressed`). `Counts`: the subscriptions are
no more than the count, for a browser that unsubscribes only what it has. *The order* has
an invariant of its own beside these, `Ordered`: a channel holds events of its topic, the
oldest first (`ChannelsUpward`), and for a topic that was subscribed once what is written
is older than what the dispatch channel holds, and that older than what waits in the
channel (`InOrder`). A published event is the newest, and the forwarder and the write
pump each take the oldest to the end of the next queue.

From `VncRelayConstantsOK` (any sessions, open requests and number of failures):

| Theorem | Statement |
|---|---|
| `VncRegistryIsSound` | `VncSpec => []RegistrySound` |
| `JobHasOneSession` | `VncSpec => [](OneSessionPerJob /\ OneNotRevived)` |
| `RelaySocketsHeld` | `VncSpec => [](PumpsOfBinders /\ DeviceSocketHeld)` |
| `TokenAdmitsToItsSession` | `VncSpec => []TokenIsForOneSession` |

`DeadSocketNoticed` is not inductive: that a dead socket has a pump or a binder must be
known before it dies. `BinderOrPump` says it of any two sockets, and `PumpsBounded` counts
the running pumps together with those that binders may still start, so that the bound
of four holds when a late bind starts two more. `OneNotRevived` speaks of the sessions that were
never revived, also when others were; `OneSessionPerJob`, which is void from the first
revival on, is its consequence. `FramesKnown`, `RequestsKnown` and `BridgesKnown`: only
sessions that CreateSession made are spoken of, so that a late frame finds a row. Most
steps close sessions, take pumps away and give no session a socket, and one lemma
(`Withers`) serves them all. *Tokens* have a second invariant: a token in a frame, a
session or a bridge was drawn by a request for that session (`VncTokens`), and a request
draws one once. That two requests never draw the same token is how tokens are modelled
(32 random bytes, `vncrelay/relay.go:405`), not a result.

`WebAccessProofs`, from `WebAccessConstantsOK` and `NoneIsNoEntry` (any accounts, keys,
requests, limits, windows and budgets):

| Theorem | Statement |
|---|---|
| `SessionsRotate` | `Spec => []SessionTokens` |
| `RateIsLimited` | `Spec => []LimiterSound` |
| `KeyCreatesOnce` | `Spec => []CreatedOnce` |

*Sessions* count, beside the live tokens of a family, the refreshes between their
statements (`Once`: either a live token, which one refresh may be about to revoke, or
one refresh about to issue the next), and for a session that ended there is neither
(`Over`). *The limit*: the stamps that are kept are the last of all that passed, and
those dropped are out of the window (`LastOnes`), so that of any `MaxPerMin + 1`
submissions in a row the last is a window after the first (`Spaced`); that the sweep
keeps a suffix of an ascending sequence is a lemma. *One job for a key*: a creation whose
answer is kept is answered from the cache, or is older than the TTL, or its request is
about to allocate or to store (`Answered`).

Of all of these TLC has checked the inductive invariant, too, on the instance of the
module's run (where one quantifies over all positions of a queue, or all numbers,
over those that the queue has).

**Only model-checked.** All liveness (`QueuedLeavesQueue`, `ReplacedIsClosed`, `AcceptedReports`, `ResultArrives`,
`CreateAnswered`, `OutputsEnd`, `SessionsEnd`, `StackStops`, `BuffersEnd`,
`ForwardersEnd`): fairness and ENABLED are outside what the prover handles, as are
induction over data and recursive operators, of which the models have none. `Budgets` bounds the events of a behaviour for TLC; the theorems hold for
every budget.

## 14. Findings

The checked runs have two, each a property that states what a document or comment
says; the quotations and lines are in `PROJECT.json`.

| Run | The document | The code |
|---|---|---|
| `tunnel_rotate` | a revoked token closes the tunnel | CloseDevice locks `Hub.mu` twice and hangs |
| `pool_hello` | reconciliation deletes agents the device no longer has | the HELLO of a reconnect carries the list built when the device started, so agents created since are deleted while their containers run |

Those of section 12's second table can be run by hand. Read off the code while
modelling, and not stated as a property:

* *Jobs*: a result that the outbox sends again, or one after a cancel or a STATE_SYNC,
  releases its agent once more, whichever job it has by then (`main.go:171-187`, `loose`
  in AgentPool); a submission whose Allocate fails, or whose user's queue is full, leaves
  its row in `pending`, and a retry with its Idempotency-Key after a 500 makes another
  (`jobs_handler.go:64-87`); a dequeued job whose device is offline is taken again at
  once, by the same loop, before any younger one (`allocator.go:170`).
* *Tunnel*: the liveness checker can close a connection that is still in its Register,
  which enters the registry after its Unregister has left it (`hub.go:493`).
* *Pool*: a device that is killed while it makes an agent lists it as `creating` in every
  HELLO and never finishes it; ReconcilePool promotes it to idle, and each report of the monitor
  makes it `creating` again. Nothing retries an agent in its grace period, which the comment in
  `gw/pool/allocator.go` leaves to ReconcilePool; a job that is over keeps its
  `agent_id`, so the foreign key stops the deletion of a stale idle agent.
* *VNC*: a VNC_CLOSE read right behind its VNC_OPEN cancels the bridge before its first
  step, and the stack stays up (`bridge.py:127`); `vncStore.Create` has no caller, so the status request answers `closed`
  always; the cap of sessions per user (`docs/spec/02-cloud-gateway.md:325`) is not
  enforced; a bind without comparison can start four pumps where the document says two.
* *Files*: `DELETE /files/{id}` does not ask for active jobs and leaves the file on
  disk (`07-api.md:122`); OnFileAck stores `staged_device` over `purged`; cleanup purges
  an input that another job needs; `FileRepo.create` writes `staged_device` at BEGIN, so
  `count_pending` is always zero; `staged_device` does not name a job, so a second job
  never gets a shared file; an outage longer than the retries, or a transfer longer than
  sixty seconds, loses outputs silently; a JOB_ACCEPTED on a dead socket ends the handler
  outside its try statement, and the job is not reported (`dispatcher.py:74`).
* *Skills*: `SyncSkills` and `install_skills_on_new_agent` have no caller; publishing a
  version again empties its artifact and then removes it; an edit writes back the whole
  row it read; a fleet delete leaves the gateway's row, which then blocks the deletion
  of the skill; OnSkillDispatchAck only logs, so a dispatch that failed its hash is not
  repeated.
* *Events*: a client may subscribe any topic (`07-api.md:229` wants a check); the
  dispatch channel is never closed, so the write pump's goroutine stays.
* *Skill dispatch*: a refused chunk or a read error ends a dispatch without its END, and
  the device keeps the buffer (`dispatch.go:149-158`).
* *Credentials*: `set_browser_state` decodes the agent's empty 204 answer
  (`dev/agentclient/client.py:95`), so every push is answered with an error and the
  dispatcher waits its whole 30 seconds; two credentials of one job overwrite one
  `storage_state.json`; a repeated CRED_CAPTURE makes a second row.

## 15. Not modelled

* **Credential vault and relay**: encryption, and one push with one answer, which in
  this code is always an error (above). Its wait is an await of DeviceJobs.
* **Within modelled components**: JOB_QUERY_ACK, statements that fail, the device's
  restart of unhealthy containers, uploads and downloads, per-agent skills, the global
  and login limiters (they count as the job limiter does), JWT issuance and key
  rotation (RotateKey and DeleteExpired have no caller), listings and the administrator's
  single statements. `components` in `PROJECT.json` says so for each part; none is called
  complete.
* Browser, X server and brain are subprocesses; to DeviceJobs a run ends as it likes
  or never. Mocks, configuration, logging, the notification channel, the web
  application and the deployment files keep no state that several actors change.
