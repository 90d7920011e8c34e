------------------------------ MODULE DeviceJobs ------------------------------
(***************************************************************************)
(* A job on its device: the dispatcher task of each JOB_DISPATCH frame,    *)
(* the executor inside one agent container, the durable outbox and the     *)
(* tunnel, and as much of the gateway as decides which frames are sent.    *)
(*                                                                         *)
(* The device process and the agent process are one asyncio loop each: a   *)
(* step here is what a task does between two awaits. Local HTTP calls are  *)
(* one step at the executor. An await of a send raises when the socket is  *)
(* dead, after the frame has been written to the outbox.                   *)
(***************************************************************************)
EXTENDS Integers, Sequences, FiniteSets

CONSTANTS
    Jobs,
    Calls,        \* JOB_DISPATCH frames, in the order their msg_ids are made
    Assignments,  \* which job each frame is about, one of these in each behaviour;
                  \* HELLO may dispatch a job again
    NoJob, NoCall,
    MaxFailures,  \* consecutive failed polls before a dispatcher gives up (5)
    Retention,    \* polls that fit into the 10 s a finished record is kept
    Budgets       \* bounds: drops, restarts, faults and cancels, and all of them together

ASSUME DeviceJobsConstantsOK ==
    /\ Calls \subseteq Nat
    /\ NoCall \notin Calls /\ NoJob \notin Jobs
    /\ Assignments \subseteq [Calls -> Jobs]
    /\ MaxFailures \in Nat \ {0} /\ Retention \in Nat \ {0}
    /\ Budgets \subseteq [{"drops", "restarts", "faults", "cancels", "events"} -> Nat]

VARIABLES
    row,      \* agents.job_id of the agent's row in the device's SQLite
    jrow,     \* jobs.status in the device's SQLite
    disp,     \* the task of handle_job_dispatch for each frame
    reader,   \* the tunnel's read loop: free, or awaiting handle_job_cancel
    exec,     \* the executor: _current, and the cancel() calls in progress
    task,     \* the _run task and the record of each submitted job
    link,     \* the tunnel is connected
    outbox,   \* unacknowledged frames in SQLite; .sent: on the present socket
    down,     \* frames from the gateway that the read loop has not read yet
    gw,       \* the gateway's rows: the status of each job, the agent's job; and
              \* the job of each frame
    left,     \* events still allowed
    history   \* runs started and finished, successes reported, unusual events

device  == <<row, jrow, disp, reader>>
agent   == <<exec, task>>
tunnel  == <<link, outbox, down>>
vars    == <<device, agent, tunnel, gw, left, history>>

-----------------------------------------------------------------------------
Terminal == {"succeeded", "failed", "cancelled"}

\* labels of a dispatcher; "dead" ends by an exception or an early return,
\* "lost" with the device process
Live      == {"start", "waiting", "posted", "polling", "pulled", "failing", "cleanup"}
DispState == {"unsent", "sent", "done", "dead", "lost"} \cup Live
TaskState == {"none", "created", "running", "sleeping", "done"}

Dispatcher == [pc : DispState, failures : 0 .. MaxFailures - 1,
               says : {"nothing"} \cup Terminal]
RunTask    == [pc : TaskState, status : {"running"} \cup Terminal, looks : 0 .. Retention]
Entry      == [job : Jobs, says : {"running"} \cup Terminal, sent : BOOLEAN]
Frame      == [call : Calls] \cup [cancel : Jobs]

\* variant: JOB_CANCEL is handled off the read loop, like JOB_DISPATCH
ReaderNeverWaits == TRUE

ReaderFree == reader.job = NoJob

\* JobDispatchPayload.job_id
JobOf(c) == gw.of[c]

\* executor.py busy; cancel_event is set exactly while a cancel() is in progress
Busy == exec.cur # NoCall /\ exec.cur \notin exec.cancels

\* GET /jobs/{id} finds the record of job j
Knows(j) == exec.cur # NoCall /\ JobOf(exec.cur) = j

\* the write to SQLite and the attempt to send
Persist(q, j, says) == Append(q, [job |-> j, says |-> says, sent |-> link])

Unsend(q) == [i \in DOMAIN q |-> [q[i] EXCEPT !.sent = FALSE]]
Resend(q) == [i \in DOMAIN q |-> [q[i] EXCEPT !.sent = TRUE]]
Without(q, i) == SubSeq(q, 1, i - 1) \o SubSeq(q, i + 1, Len(q))

\* the gateway's tracker gives frames up or carries them over to the next
\* connection in the order of a Go map
Survivors(q) ==
    UNION {{[i \in 1 .. n |-> q[f[i]]] :
              f \in {g \in [1 .. n -> DOMAIN q] : \A x, y \in 1 .. n : g[x] = g[y] => x = y}} :
           n \in 0 .. Len(q)}

Spend(what)  == /\ left[what] > 0 /\ left.events > 0
                /\ left' = [left EXCEPT ![what] = @ - 1, !.events = @ - 1]
Odd(what)    == history' = [history EXCEPT !.odd = @ \cup what]
\* one connection so far
Unbroken     == history.odd \cap {"drop", "restart"} = {}
SetDisp(c, label) == disp' = [disp EXCEPT ![c].pc = label]

-----------------------------------------------------------------------------
(* The gateway *)

\* a submit or dequeueNext: the agent's row is free and the device online
Dispatch(c) ==
    /\ link /\ gw.agent = NoJob
    /\ gw.status[JobOf(c)] = "none"
    /\ \A d \in Calls : d < c /\ JobOf(d) = JobOf(c) => disp[d].pc # "unsent"
    /\ gw' = [gw EXCEPT !.agent = JobOf(c), !.status[JobOf(c)] = "dispatched"]
    /\ SetDisp(c, "sent")
    /\ down' = Append(down, [call |-> c])
    /\ UNCHANGED <<row, jrow, reader, agent, link, outbox, left, history>>

\* HELLO: a job not yet reported accepted is dispatched again, in a new frame
Redispatch(c) ==
    /\ link /\ ~Unbroken
    /\ gw.status[JobOf(c)] = "dispatched"
    /\ disp[c].pc = "unsent"
    /\ SetDisp(c, "sent")
    /\ down' = Append(down, [call |-> c])
    /\ UNCHANGED <<row, jrow, reader, agent, link, outbox, gw, left, history>>

\* the agent is freed on behalf of job j while another job has it
Stale(j) == IF gw.agent \in {j, NoJob} THEN {} ELSE {"stale"}

\* POST /jobs/{id}/cancel: the agent is free at once; JOB_CANCEL is sent if it can be
CancelJob(j) ==
    /\ gw.status[j] \in {"dispatched", "running"} /\ Spend("cancels")
    /\ gw' = [gw EXCEPT !.agent = NoJob, !.status[j] = "cancelled"]
    /\ down' = IF link THEN Append(down, [cancel |-> j]) ELSE down
    /\ Odd({"cancel"} \cup Stale(j))
    /\ UNCHANGED <<device, agent, link, outbox>>

\* JOB_ACCEPTED, JOB_RESULT and JOB_REJECTED (a failed result), in the order they
\* were sent
Handled(i, drop) ==
    /\ link /\ outbox[i].sent
    /\ \A k \in 1 .. i - 1 : ~outbox[k].sent
    /\ LET e == outbox[i]
       IN  gw' = [gw EXCEPT !.status[e.job] = e.says,
                            !.agent = IF e.says \in Terminal THEN NoJob ELSE @]
           /\ Odd(drop \cup (IF e.says \in Terminal THEN Stale(e.job) ELSE {}))

\* the ACK removes the frame from the outbox
Deliver(i) ==
    /\ Handled(i, {})
    /\ outbox' = Without(outbox, i)
    /\ UNCHANGED <<device, agent, link, down, left>>

\* the ACK is lost with the connection
DeliverAndDrop(i) ==
    /\ Handled(i, {"drop"}) /\ Spend("drops")
    /\ link' = FALSE
    /\ outbox' = Unsend(outbox)
    /\ down' \in Survivors(down)
    /\ UNCHANGED <<device, agent>>

-----------------------------------------------------------------------------
(* The tunnel and the device process *)

Drop ==
    /\ link /\ Spend("drops") /\ Odd({"drop"})
    /\ link' = FALSE
    /\ outbox' = Unsend(outbox)
    /\ down' \in Survivors(down)
    /\ UNCHANGED <<device, agent, gw>>

\* variant: the outbox is not flushed
ReconnectOnly ==
    /\ ~link /\ ReaderFree
    /\ link' = TRUE
    /\ UNCHANGED <<device, agent, outbox, down, gw, left, history>>

\* the last read loop has returned; HELLO, then everything unacknowledged
Reconnect ==
    /\ ~link /\ ReaderFree
    /\ link' = TRUE
    /\ outbox' = Resend(outbox)
    /\ UNCHANGED <<device, agent, down, gw, left, history>>

\* the tasks are gone, the agent containers are not; boot recycles a busy row
Restart ==
    /\ Spend("restarts") /\ Odd({"restart"})
    /\ disp' = [c \in Calls |-> IF disp[c].pc \in Live THEN [disp[c] EXCEPT !.pc = "lost"]
                                ELSE disp[c]]
    /\ reader' = [job |-> NoJob, call |-> NoCall]
    /\ row' = NoJob
    /\ link' = FALSE
    /\ outbox' = Unsend(outbox)
    /\ down' \in Survivors(down)
    /\ UNCHANGED <<jrow, agent, gw>>

-----------------------------------------------------------------------------
(* JobDispatcher.handle_job_dispatch and _poll_progress *)

\* JOB_DISPATCH is handed to a background task
ReadDispatch(c) ==
    /\ link /\ ReaderFree
    /\ down # <<>> /\ Head(down) = [call |-> c]
    /\ down' = Tail(down)
    /\ SetDisp(c, "start")
    /\ UNCHANGED <<row, jrow, reader, agent, link, outbox, gw, left, history>>

\* the rows, then JOB_ACCEPTED, which is outside the try statement
Accept(c) ==
    /\ disp[c].pc = "start"
    /\ jrow' = [jrow EXCEPT ![JobOf(c)] = "queued"]
    /\ row' = JobOf(c)
    /\ outbox' = Persist(outbox, JobOf(c), "running")
    /\ SetDisp(c, IF link THEN "waiting" ELSE "dead")
    /\ UNCHANGED <<reader, agent, link, down, gw, left, history>>

\* get_client finds no port: JOB_REJECTED and an early return
Unreachable(c) ==
    /\ disp[c].pc = "waiting" /\ Spend("faults") /\ Odd({"fault"})
    /\ outbox' = Persist(outbox, JobOf(c), "failed")
    /\ SetDisp(c, "dead")
    /\ UNCHANGED <<row, jrow, reader, agent, link, down, gw>>

\* files and credentials are there, or their time is over: POST /jobs
Post(c) ==
    /\ disp[c].pc = "waiting" /\ ~Busy
    /\ exec' = [exec EXCEPT !.cur = c]
    /\ task' = [task EXCEPT ![c].pc = "created"]
    /\ SetDisp(c, "posted")
    /\ UNCHANGED <<row, jrow, reader, tunnel, gw, left, history>>

\* 409 BUSY; create_job parses the body and does not look at the status code
Refused(c) ==
    /\ disp[c].pc = "waiting" /\ Busy
    /\ SetDisp(c, "posted")
    /\ UNCHANGED <<row, jrow, reader, agent, tunnel, gw, left, history>>

\* no answer, or the wait for a credential raised
PostFails(c) ==
    /\ disp[c].pc = "waiting" /\ Spend("faults") /\ Odd({"fault"})
    /\ SetDisp(c, "failing")
    /\ UNCHANGED <<row, jrow, reader, agent, tunnel, gw>>

\* the row says running, then JOB_PROGRESS
Started(c) ==
    /\ disp[c].pc = "posted"
    /\ jrow' = [jrow EXCEPT ![JobOf(c)] = "running"]
    /\ SetDisp(c, IF link THEN "polling" ELSE "failing")
    /\ UNCHANGED <<row, reader, agent, tunnel, gw, left, history>>

\* the except clause of the poll loop, with q the outbox up to there: the last
\* failure reports the job as failed, and a send that raises there leaves the loop
PollFails(c, q) ==
    IF disp[c].failures + 1 < MaxFailures
    THEN /\ disp' = [disp EXCEPT ![c].failures = @ + 1, ![c].pc = "polling"]
         /\ outbox' = q
         /\ UNCHANGED jrow
    ELSE /\ disp' = [disp EXCEPT ![c].failures = 0,
                                 ![c].pc = IF link THEN "cleanup" ELSE "failing"]
         /\ outbox' = Persist(q, JobOf(c), "failed")
         /\ jrow' = [jrow EXCEPT ![JobOf(c)] = "failed"]

\* a terminal status is sent as JOB_PROGRESS before anything else is done with it
PollFinished(c, says) ==
    IF link
    THEN /\ disp' = [disp EXCEPT ![c].pc = "pulled", ![c].says = says]
         /\ jrow' = [jrow EXCEPT ![JobOf(c)] = says]
         /\ UNCHANGED outbox
    ELSE PollFails(c, outbox)

\* a change of the percentage is sent, which fails while the tunnel is down
PollRunning(c) ==
    \/ /\ disp' = [disp EXCEPT ![c].failures = 0]
       /\ UNCHANGED <<jrow, outbox>>
    \/ ~link /\ PollFails(c, outbox)

\* variant: GET /jobs/{id} answers with the current record whatever the id is
PollAny(c) ==
    /\ disp[c].pc = "polling" /\ exec.cur # NoCall
    /\ LET r == task[exec.cur]
       IN  /\ task' = [task EXCEPT ![exec.cur].looks =
                         IF r.pc = "sleeping" /\ r.looks < Retention THEN @ + 1 ELSE @]
           /\ IF r.status \in Terminal THEN PollFinished(c, r.status) ELSE PollRunning(c)
    /\ UNCHANGED <<row, reader, exec, link, down, gw, left, history>>

Poll(c) ==
    /\ disp[c].pc = "polling" /\ Knows(JobOf(c))
    /\ LET r == task[exec.cur]
       IN  /\ task' = [task EXCEPT ![exec.cur].looks =
                         IF r.pc = "sleeping" /\ r.looks < Retention THEN @ + 1 ELSE @]
           /\ IF r.status \in Terminal THEN PollFinished(c, r.status) ELSE PollRunning(c)
    /\ UNCHANGED <<row, reader, exec, link, down, gw, left, history>>

\* 404, which raise_for_status turns into an exception
PollNotFound(c) ==
    /\ disp[c].pc = "polling" /\ ~Knows(JobOf(c))
    /\ PollFails(c, outbox)
    /\ UNCHANGED <<row, reader, agent, link, down, gw, left, history>>

\* the hour is over
PollTimesOut(c) ==
    /\ disp[c].pc = "polling"
    /\ jrow' = [jrow EXCEPT ![JobOf(c)] = "failed"]
    /\ outbox' = Persist(outbox, JobOf(c), "failed")
    /\ SetDisp(c, IF link THEN "cleanup" ELSE "failing")
    /\ Odd({"late"})
    /\ UNCHANGED <<row, reader, agent, link, down, gw, left>>

\* the outputs are pulled or given up: JOB_RESULT, inside the poll loop's try
Report(c) ==
    /\ disp[c].pc = "pulled"
    /\ LET q == Persist(outbox, JobOf(c), disp[c].says)
       IN  IF link THEN /\ SetDisp(c, "cleanup")
                        /\ outbox' = q
                        /\ UNCHANGED jrow
                   ELSE PollFails(c, q)
    /\ history' = IF disp[c].says = "succeeded"
                  THEN [history EXCEPT !.reported = @ \cup {JobOf(c)}] ELSE history
    /\ UNCHANGED <<row, reader, agent, link, down, gw, left>>

\* variant: the failure is not reported
FailSilently(c) ==
    /\ disp[c].pc = "failing"
    /\ jrow' = [jrow EXCEPT ![JobOf(c)] = "failed"]
    /\ SetDisp(c, "cleanup")
    /\ UNCHANGED <<row, reader, agent, tunnel, gw, left, history>>

\* except Exception; the finally clause runs whether or not this send raises
Fail(c) ==
    /\ disp[c].pc = "failing"
    /\ jrow' = [jrow EXCEPT ![JobOf(c)] = "failed"]
    /\ outbox' = Persist(outbox, JobOf(c), "failed")
    /\ SetDisp(c, "cleanup")
    /\ UNCHANGED <<row, reader, agent, link, down, gw, left, history>>

\* variant: the agent row is not released
CleanupKeeps(c) ==
    /\ disp[c].pc = "cleanup"
    /\ SetDisp(c, IF link THEN "done" ELSE "dead")
    /\ UNCHANGED <<row, jrow, reader, agent, tunnel, gw, left, history>>

\* FILE_PURGED, which may raise; then the agent's row is released, whatever job
\* it names by now, and AGENT_STATUS idle is sent
Cleanup(c) ==
    /\ disp[c].pc = "cleanup"
    /\ row' = IF link THEN NoJob ELSE row
    /\ SetDisp(c, IF link THEN "done" ELSE "dead")
    /\ UNCHANGED <<jrow, reader, agent, tunnel, gw, left, history>>

-----------------------------------------------------------------------------
(* JobDispatcher.handle_job_cancel, which the read loop awaits *)

CancelDone(j) ==
    /\ jrow' = [jrow EXCEPT ![j] = "cancelled"]
    /\ row' = NoJob

\* variant: a task that ends clears its record's status
InterruptedTwice(r) == [r EXCEPT !.pc = "done", !.status = "none"]

\* executor.cancel: the event is set; the running task stops at its await and
\* goes to sleep, a task that is asleep or not yet started ends at once
Interrupted(r) ==
    CASE r.pc = "created"  -> [r EXCEPT !.pc = "done"]
      [] r.pc = "running"  -> [r EXCEPT !.pc = "sleeping", !.status = "cancelled"]
      [] r.pc = "sleeping" -> [r EXCEPT !.pc = "done"]
      [] OTHER             -> r

\* early: the job's own dispatcher has yet to post it, and will
ReadCancel(j) ==
    /\ link /\ ReaderFree
    /\ down # <<>> /\ Head(down) = [cancel |-> j]
    /\ down' = Tail(down)
    /\ \/ /\ jrow[j] # "none" /\ Knows(j)
          /\ exec' = [exec EXCEPT !.cancels = @ \cup {exec.cur}]
          /\ task' = [task EXCEPT ![exec.cur] = Interrupted(@)]
          /\ reader' = [job |-> j, call |-> exec.cur]
          /\ UNCHANGED <<row, jrow>>
       \/ /\ jrow[j] # "none" /\ ~Knows(j)
          /\ CancelDone(j)
          /\ UNCHANGED <<reader, agent>>
       \/ /\ jrow[j] = "none"
          /\ UNCHANGED <<row, jrow, reader, agent>>
    /\ Odd(IF \E c \in Calls : JobOf(c) = j /\ disp[c].pc \in {"start", "waiting"}
           THEN {"early"} ELSE {})
    /\ UNCHANGED <<disp, link, outbox, gw, left>>

\* the end of the run of frame c drops the record, and that is another's
Clobber(c) == Odd(IF exec.cur \in {c, NoCall} THEN {} ELSE {"clobber"})

\* `await self._task` is over: the present record, if there is one, is marked
\* cancelled and dropped; the device's handler goes on, if it still waits
CancelReturns(c) ==
    /\ c \in exec.cancels /\ task[c].pc = "done"
    /\ exec' = [cur |-> NoCall, cancels |-> exec.cancels \ {c}]
    /\ task' = IF exec.cur = NoCall THEN task
               ELSE [task EXCEPT ![exec.cur].status = "cancelled"]
    /\ Clobber(c)
    /\ IF reader.call = c
       THEN CancelDone(reader.job) /\ reader' = [job |-> NoJob, call |-> NoCall]
       ELSE UNCHANGED <<row, jrow, reader>>
    /\ UNCHANGED <<disp, tunnel, gw, left>>

-----------------------------------------------------------------------------
(* JobExecutor._run *)

StartRun(c) ==
    /\ task[c].pc = "created"
    /\ task' = [task EXCEPT ![c].pc = "running"]
    /\ history' = [history EXCEPT !.ran = @ \cup {c}]
    /\ UNCHANGED <<device, exec, tunnel, gw, left>>

\* check_quota raises before the try statement: the task is over, the record
\* stays, and its status stays what it was
QuotaFails(c) ==
    /\ task[c].pc = "created" /\ Spend("faults") /\ Odd({"fault"})
    /\ task' = [task EXCEPT ![c].pc = "done"]
    /\ UNCHANGED <<device, exec, tunnel, gw>>

BrainEnds(c, status) ==
    /\ task[c].pc = "running"
    /\ task' = [task EXCEPT ![c].pc = "sleeping", ![c].status = status]
    /\ history' = IF status = "succeeded"
                  THEN [history EXCEPT !.finished = @ \cup {JobOf(c)}] ELSE history
    /\ UNCHANGED <<device, exec, tunnel, gw, left>>

\* the ten seconds are longer than the local steps of a dispatcher and than
\* Retention polls
Slept(c) ==
    \A d \in Calls :
        /\ disp[d].pc \notin {"start", "posted", "cleanup"}
        /\ disp[d].pc = "polling" /\ JobOf(d) = JobOf(c) => task[c].looks = Retention

\* variant: the record is dropped as soon as the task ends
ClearAtOnce(c) ==
    /\ task[c].pc = "sleeping"
    /\ task' = [task EXCEPT ![c].pc = "done"]
    /\ exec' = [exec EXCEPT !.cur = NoCall]
    /\ Clobber(c)
    /\ UNCHANGED <<device, tunnel, gw, left>>

\* _current = None, whichever record it is by now
Clear(c) ==
    /\ task[c].pc = "sleeping" /\ Slept(c)
    /\ task' = [task EXCEPT ![c].pc = "done"]
    /\ exec' = [exec EXCEPT !.cur = NoCall]
    /\ Clobber(c)
    /\ UNCHANGED <<device, tunnel, gw, left>>

-----------------------------------------------------------------------------
Init ==
    /\ row = NoJob
    /\ jrow = [j \in Jobs |-> "none"]
    /\ disp = [c \in Calls |-> [pc |-> "unsent", failures |-> 0, says |-> "nothing"]]
    /\ reader = [job |-> NoJob, call |-> NoCall]
    /\ exec = [cur |-> NoCall, cancels |-> {}]
    /\ task = [c \in Calls |-> [pc |-> "none", status |-> "running", looks |-> 0]]
    /\ link = TRUE
    /\ outbox = <<>> /\ down = <<>>
    /\ gw \in [status : {[j \in Jobs |-> "none"]}, agent : {NoJob}, of : Assignments]
    /\ left \in Budgets
    /\ history = [ran |-> {}, finished |-> {}, reported |-> {}, odd |-> {}]

Gateway == \/ \E c \in Calls : Dispatch(c) \/ Redispatch(c)
           \/ \E j \in Jobs : CancelJob(j)

\* what a dispatcher does of its own accord
Handle(c) == \/ Accept(c) \/ Post(c) \/ Refused(c) \/ Started(c) \/ Poll(c)
             \/ PollNotFound(c) \/ Report(c) \/ Fail(c) \/ Cleanup(c)

Run(c) == StartRun(c) \/ Clear(c) \/ CancelReturns(c)

DeliverNext == \E i \in 1 .. Len(outbox) : Deliver(i)

Next ==
    \/ Gateway \/ DeliverNext \/ \E i \in 1 .. Len(outbox) : DeliverAndDrop(i)
    \/ Drop \/ Reconnect \/ Restart
    \/ \E c \in Calls : Handle(c) \/ Run(c) \/ ReadDispatch(c) \/ PollTimesOut(c)
    \/ \E c \in Calls : Unreachable(c) \/ PostFails(c) \/ QuotaFails(c)
    \/ \E c \in Calls, s \in {"succeeded", "failed"} : BrainEnds(c, s)
    \/ \E j \in Jobs : ReadCancel(j)

Spec == Init /\ [][Next]_vars

\* tasks are scheduled, the hour ends, the tunnel comes back and carries what
\* was written to it; nothing is assumed of the brain
Fairness ==
    /\ \A c \in Calls : WF_vars(Handle(c)) /\ WF_vars(Run(c)) /\ WF_vars(PollTimesOut(c))
    /\ WF_vars(Reconnect) /\ WF_vars(DeliverNext)

FairSpec == Spec /\ Fairness

-----------------------------------------------------------------------------
(* Properties *)

\* Rows, tasks and queues have the shapes of the code.
TypeOK ==
    /\ row \in Jobs \cup {NoJob}
    /\ jrow \in [Jobs -> {"none", "queued", "running"} \cup Terminal]
    /\ disp \in [Calls -> Dispatcher]
    /\ reader \in [job : Jobs \cup {NoJob}, call : Calls \cup {NoCall}]
    /\ reader.job # NoJob <=> reader.call # NoCall
    /\ exec \in [cur : Calls \cup {NoCall}, cancels : SUBSET Calls]
    /\ task \in [Calls -> RunTask]
    /\ link \in BOOLEAN
    /\ outbox \in Seq(Entry)
    /\ down \in Seq(Frame)
    /\ gw.agent \in Jobs \cup {NoJob} /\ gw.of \in Assignments
    /\ gw.status \in [Jobs -> {"none", "dispatched", "running"} \cup Terminal]

Running(c) == task[c].pc = "running"

\* A success that is reported was earned: the brain finished this job, however
\* the executor's single record has changed hands in between.
TruthfulSuccess == history.reported \subseteq history.finished

\* On one connection, an agent runs one brain at a time and the end of a run never
\* drops the record of another, even though a cancelled job makes the executor
\* free ten seconds too early: the read loop, which awaits the cancel, does not
\* see the next JOB_DISPATCH before those are over. It is lost when a job is
\* cancelled before its dispatcher has posted it, and when the gateway frees the
\* agent on behalf of a job that no longer has it: then two frames are handled at
\* once.
OneBrain ==
    history.odd \cap {"drop", "restart", "early", "stale"} = {} =>
        /\ "clobber" \notin history.odd
        /\ \A c, d \in Calls : Running(c) /\ Running(d) => c = d

\* A job whose brain succeeded is recorded as failed only after the tunnel was
\* lost, a fault, a cancel, the hour's end, a restart or a dropped record: the
\* finished record is kept long enough for the poll loop to see it.
SuccessKept == history.odd = {} => \A j \in history.finished : jrow[j] # "failed"

\* The agent's row is not left with a job nobody works on, except by a dispatcher
\* that an exception or a missing agent ended before its release.
RowNamesLiveJob ==
    row # NoJob => \E c \in Calls : JobOf(c) = row /\ disp[c].pc \in Live \cup {"dead"}

\* Once JOB_ACCEPTED is out, the job gets a result, whatever the agent does: it
\* refuses, vanishes, or never finishes. Only the end of the device process
\* breaks this promise.
HasResult(j) == \/ \E i \in DOMAIN outbox : outbox[i].job = j /\ outbox[i].says \in Terminal
                \/ gw.status[j] \in Terminal
AcceptedReports ==
    \A c \in Calls :
        disp[c].pc = "waiting" ~> (HasResult(JobOf(c)) \/ disp[c].pc = "lost")

\* A result in the outbox reaches the gateway, through lost connections and a
\* restart of the device.
ResultArrives ==
    \A j \in Jobs :
        HasResult(j) ~> gw.status[j] \in Terminal

-----------------------------------------------------------------------------
(* What the documents say and the code does not do *)

\* docs/spec/03-local-device.md: "on accept: status DISPATCHED -> RUNNING". A
\* refusal of the executor is taken for its acceptance, and an executor refuses
\* for ten seconds after every job.
RunningIsAccepted ==
    history.odd = {} => \A c \in Calls : disp[c].pc = "polling" =>
        \E d \in Calls : JobOf(d) = JobOf(c) /\ task[d].pc # "none"

\* docs/spec/01-architecture.md: "jobs continue locally; results buffered in
\* SQLite and flushed on reconnect".
ResultsBuffered ==
    history.odd \subseteq {"drop"} => \A j \in history.finished : jrow[j] # "failed"

\* docs/spec/04-agent-container.md: "Execute exactly one job at a time". Two cancels
\* break it without any failure: the second run is started while the first one is
\* being cancelled, loses its record to it, and a third is started beside it.
OneJobAtATime == Unbroken => \A c, d \in Calls : Running(c) /\ Running(d) => c = d

\* docs/spec/08-auth-security.md: "At-least-once + idempotency prevents
\* replay-induced double execution".
RunsOnce == \A c, d \in history.ran : JobOf(c) = JobOf(d) => c = d
=============================================================================
