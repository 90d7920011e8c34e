----------------------------- MODULE FileTransfer -----------------------------
(***************************************************************************)
(* The files of jobs that run on one device: the gateway pushes an input  *)
(* file in chunks, the device appends what comes and starts the job, and   *)
(* its output comes back in chunks through the durable outbox, before the  *)
(* result. One input file per job, which two jobs may share; one output    *)
(* archive per job.                                                        *)
(*                                                                         *)
(* The content of a file is the sequence of its chunk numbers, and its     *)
(* SHA-256 is right exactly when that is 1 .. N in order.                  *)
(*                                                                         *)
(* A dispatch that cannot be sent queues the job again, and a result whose *)
(* send raises is followed by another poll: JobPool and DeviceJobs have    *)
(* those rounds; here the job waits to be dispatched, and is pulled once.  *)
(***************************************************************************)
EXTENDS Integers, Sequences, SequencesExt, FiniteSets

CONSTANTS
    Files,
    Jobs,        \* numbered in the order of their submits
    Input,       \* the file_ids of each submit
    N,           \* chunks of a file; fewer than MaxChunksInFlight (8)
    Retries,     \* MAX_RETRIES of the puller (3)
    NoJob,
    Budgets,     \* bounds, one combination for each behaviour: connections lost,
                 \* sends and answers lost, files deleted or aged, submits, and
                 \* jobs that leave something in their output directory
    MaxReplay    \* bound: frames handled whose acknowledgement may be lost

ASSUME FileTransferConstantsOK ==
    /\ Input \in [Jobs -> Files] /\ N \in Nat \ {0} /\ Retries \in Nat \ {0}
    /\ Jobs \subseteq Nat /\ NoJob \notin Jobs
    /\ Budgets \subseteq [{"drops", "faults", "purges", "submits", "pulls"} -> Nat]
    /\ MaxReplay \in Nat

VARIABLES
    file,    \* files rows of the gateway, and whether the staged file exists
    job,     \* how far the job is
    push,    \* PushFile of each job: the goroutines that have a chunk to send
    down,    \* frames on their way to the device
    buf,     \* FileStager._bufs: whose BEGIN came last, and what was appended
    inputs,  \* the input file in each job's workspace on the device
    pull,    \* FilePuller._send_file of each job
    link,    \* the device's tunnel is up
    out,     \* frames sent on the present connection, not yet handled
    flush,   \* frames that Outbox.flush sends again, beside the new ones
    done,    \* the last frames handled on the present connection
    gbuf,    \* pullBufs: the chunks received since the BEGIN
    rows,    \* how often the output of a job was registered
    left,    \* faults still allowed
    history  \* files that were whole on the device, BEGINs taken of each job,
             \* whether a connection was lost

gateway   == <<file, push, gbuf, rows>>
device    == <<buf, inputs, pull>>
toGateway == <<link, out, flush, done>>
vars      == <<gateway, job, down, device, toGateway, left, history>>

-----------------------------------------------------------------------------
Chunks == 1 .. N
Whole(content) == content = [i \in Chunks |-> i]

File   == [status : {"none", "staged_cloud", "staged_device", "purged"}, disk : BOOLEAN]
Buffer == [job : Jobs \cup {NoJob}, got : Seq(Chunks)]
NoBuf  == [job |-> NoJob, got |-> <<>>]
Pulled == [open : BOOLEAN, got : SUBSET Chunks]
Plain(types)  == [type : types, job : Jobs]
Chunk  == [type : {"chunk"}, job : Jobs, i : Chunks]
Down   == Plain({"begin", "end", "dispatch"}) \cup Chunk
Ack    == [type : {"ack"}, file : Files, ok : BOOLEAN]
Out    == Plain({"begin", "end", "result"}) \cup Chunk \cup Ack

\* stuck: the dispatch handler of the device ended before it ran the job
Progress == {"new", "pushing", "failing", "pushed", "dispatched", "stuck", "started",
             "finished", "over"}

\* an attempt of the puller: the next frame, and what it heard of each chunk
Pull    == [try : 0 .. Retries, next : 0 .. N + 2, heard : [Chunks -> {"nothing", "ok", "error"}]]
Silence == [i \in Chunks |-> "nothing"]
Over(p) == p.next = N + 2
Started(p) == p.next > 0 \/ p.try > 0
GivenUp(p) == [p EXCEPT !.try = Retries, !.next = N + 2]

Spend(what) == left[what] > 0 /\ left' = [left EXCEPT ![what] = @ - 1]

\* SendFrame reports an error: the device is offline, or its outbound queue is
\* full, in which case the frame is tracked and the retransmitter delivers it
Refused(frame) == Spend("faults") /\ down' \in {down, Append(down, frame)}

\* Outbox.enqueue_and_send: written to SQLite in any case, sent when connected
Sent(frame) == IF link THEN out' = Append(out, frame) /\ UNCHANGED flush
                       ELSE flush' = Append(flush, frame) /\ UNCHANGED out

-----------------------------------------------------------------------------
(* Inputs: the gateway. *)

\* StageFile; one that fails leaves neither file nor row
Upload(f) ==
    /\ file[f].status = "none"
    /\ file' = [file EXCEPT ![f] = [status |-> "staged_cloud", disk |-> TRUE]]
    /\ UNCHANGED <<push, gbuf, rows, job, down, device, toGateway, left, history>>

\* PushFile as far as its goroutines: nothing for a file that some device has,
\* an error for one that is gone, else FILE_PUSH_BEGIN, without which it is over
PushFile(j) ==
    LET f == Input[j]
        begin == [type |-> "begin", job |-> j]
    IN  IF file[f].status = "staged_device" \/ ~file[f].disk
        THEN job' = [job EXCEPT ![j] = "pushed"] /\ Spend("submits") /\ UNCHANGED <<push, down>>
        ELSE \/ /\ job' = [job EXCEPT ![j] = "pushing"]
                /\ push' = [push EXCEPT ![j] = Chunks]
                /\ down' = Append(down, begin) /\ Spend("submits")
             \/ /\ job' = [job EXCEPT ![j] = "pushed"] /\ UNCHANGED push
                /\ down' \in {down, Append(down, begin)}
                /\ left.submits > 0 /\ left.faults > 0
                /\ left' = [left EXCEPT !.submits = @ - 1, !.faults = @ - 1]

Submitted(j) == /\ job[j] = "new" /\ file[Input[j]].status # "none"
                /\ \A i \in Jobs : i < j => job[i] # "new"

\* a submit that found an agent pushes before it dispatches
Submit(j) ==
    /\ Submitted(j) /\ PushFile(j)
    /\ UNCHANGED <<file, gbuf, rows, device, toGateway, history>>

\* dequeueNext dispatches a queued job and pushes none of its files
DequeueNext(j) ==
    /\ Submitted(j) /\ job' = [job EXCEPT ![j] = "pushed"] /\ Spend("submits")
    /\ UNCHANGED <<gateway, down, device, toGateway, history>>

\* one of the goroutines PushFile has started, in any order; a send that fails
\* makes PushFile give up without an END
SendChunk(j, i) ==
    /\ i \in push[j] /\ push' = [push EXCEPT ![j] = @ \ {i}]
    /\ \/ /\ down' = Append(down, [type |-> "chunk", job |-> j, i |-> i])
          /\ UNCHANGED <<job, left>>
       \/ /\ job' = [job EXCEPT ![j] = "failing"]
          /\ Refused([type |-> "chunk", job |-> j, i |-> i])
    /\ UNCHANGED <<file, gbuf, rows, device, toGateway, history>>

\* after wg.Wait: FILE_PUSH_END, unless a chunk could not be sent
SendEnd(j) ==
    /\ job[j] \in {"pushing", "failing"} /\ push[j] = {}
    /\ job' = [job EXCEPT ![j] = "pushed"]
    /\ \/ job[j] = "failing" /\ UNCHANGED <<down, left>>
       \/ /\ job[j] = "pushing" /\ down' = Append(down, [type |-> "end", job |-> j])
          /\ UNCHANGED left
       \/ job[j] = "pushing" /\ Refused([type |-> "end", job |-> j])
    /\ UNCHANGED <<gateway, device, toGateway, history>>

\* JOB_DISPATCH follows, whatever PushJobInputs returned
Dispatch(j) ==
    /\ job[j] = "pushed" /\ job' = [job EXCEPT ![j] = "dispatched"]
    /\ down' = Append(down, [type |-> "dispatch", job |-> j])
    /\ UNCHANGED <<gateway, device, toGateway, left, history>>

\* handleDeleteFile: the row only, whatever job may still want the file
DeleteFile(f) ==
    /\ file[f].status # "none" /\ Spend("purges")
    /\ file' = [file EXCEPT ![f].status = "purged"]
    /\ UNCHANGED <<push, gbuf, rows, job, down, device, toGateway, history>>

\* CleanupStagedFiles: files past their retention that no device has
CleanupStaged ==
    /\ Spend("purges")
    /\ file' = [f \in Files |-> IF file[f].status # "staged_cloud" THEN file[f]
                                ELSE [status |-> "purged", disk |-> FALSE]]
    /\ UNCHANGED <<push, gbuf, rows, job, down, device, toGateway, history>>

-----------------------------------------------------------------------------
(* Inputs: the device, one frame at a time. *)

\* variant: the chunks are counted
Counted(b) == Len(b.got) = N

\* handle_end reports the file as staged exactly when its hash is right
Verified(b) == Whole(b.got)

\* handle_begin: the file is opened anew, the buffer of its id replaced
HandleBegin(j) ==
    /\ buf' = [buf EXCEPT ![Input[j]] = [job |-> j, got |-> <<>>]]
    /\ inputs' = [inputs EXCEPT ![j] = <<>>]
    /\ UNCHANGED <<job, out, flush, left, history>>

\* the job's workspace was removed, under the open file if there is one
Wiped(j) == job[j] \in {"finished", "over"}

\* handle_chunk appends, whatever its number, to the file that is open
HandleChunk(f, i) ==
    LET b == buf[f] IN
    /\ IF b = NoBuf THEN UNCHANGED <<buf, inputs>>
       ELSE /\ buf' = [buf EXCEPT ![f].got = Append(@, i)]
            /\ inputs' = IF Wiped(b.job) THEN inputs ELSE [inputs EXCEPT ![b.job] = Append(b.got, i)]
    /\ UNCHANGED <<job, out, flush, left, history>>

HandleEnd(f) ==
    /\ buf' = [buf EXCEPT ![f] = NoBuf]
    /\ IF buf[f] = NoBuf THEN UNCHANGED <<out, flush, history>>
       ELSE /\ Sent([type |-> "ack", file |-> f, ok |-> Verified(buf[f])])
            /\ history' = IF Whole(inputs[buf[f].job]) \/ Wiped(buf[f].job)
                          THEN [history EXCEPT !.placed = @ \cup {f}] ELSE history
    /\ UNCHANGED <<job, inputs, left>>

\* JOB_ACCEPTED is sent outside the try statement: a send that raises there ends
\* the handler, with no result and no cleanup; so does an agent not known;
\* the dispatcher's look at count_pending always finds 0: BEGIN already made
\* the row staged_device, so nothing is waited for
HandleDispatch(j) ==
    /\ \/ job' = [job EXCEPT ![j] = "started"] /\ UNCHANGED left
       \/ job' = [job EXCEPT ![j] = "stuck"] /\ Spend("faults")
    /\ UNCHANGED <<buf, inputs, out, flush, history>>

DeviceReads ==
    /\ link /\ down # <<>> /\ down' = Tail(down)
    /\ LET d == Head(down) IN
       \/ d.type = "begin"    /\ HandleBegin(d.job)
       \/ d.type = "chunk"    /\ HandleChunk(Input[d.job], d.i)
       \/ d.type = "end"      /\ HandleEnd(Input[d.job])
       \/ d.type = "dispatch" /\ HandleDispatch(d.job)
    /\ UNCHANGED <<gateway, pull, link, done>>

-----------------------------------------------------------------------------
(* Outputs: the device. *)

\* the attempt raised: it starts again at BEGIN, or the file is given up
Again(p) == IF p.try + 1 = Retries THEN GivenUp(p)
            ELSE [try |-> p.try + 1, next |-> 0, heard |-> Silence]

\* a frame was sent: what comes after it
Onward(p) == [p EXCEPT !.next = @ + 1]

\* the next frame of _send_file_once
Frame(j) ==
    LET n == pull[j].next IN
    IF n = 0 THEN [type |-> "begin", job |-> j]
    ELSE IF n <= N THEN [type |-> "chunk", job |-> j, i |-> n]
    ELSE [type |-> "end", job |-> j]

\* END waits for an answer to every chunk; a send on a dead socket raises after
\* the frame was written to the outbox
PullSend(j) ==
    /\ job[j] = "started" /\ ~Over(pull[j])
    /\ pull[j].next = N + 1 => \A i \in Chunks : pull[j].heard[i] = "ok"
    /\ Sent(Frame(j))
    /\ pull' = [pull EXCEPT ![j] = IF link THEN Onward(@) ELSE Again(@)]
    /\ IF Started(pull[j]) THEN UNCHANGED left ELSE Spend("pulls")
    /\ UNCHANGED <<gateway, job, down, buf, inputs, link, done, history>>

\* variant: wait without CHUNK_ACK_TIMEOUT
PullRefused(j) ==
    /\ job[j] = "started" /\ pull[j].next = N + 1
    /\ \E i \in Chunks : pull[j].heard[i] = "error"
    /\ pull' = [pull EXCEPT ![j] = Again(@)]
    /\ UNCHANGED <<gateway, job, down, buf, inputs, toGateway, left, history>>

\* an answer says ERROR, or is later than CHUNK_ACK_TIMEOUT
PullFails(j) ==
    /\ job[j] = "started" /\ pull[j].next = N + 1
    /\ \E i \in Chunks : pull[j].heard[i] # "ok"
    /\ pull' = [pull EXCEPT ![j] = Again(@)]
    /\ UNCHANGED <<gateway, job, down, buf, inputs, toGateway, left, history>>

\* PULL_OUTPUTS_TIMEOUT: wait_for cancels the puller wherever it is
PullTimesOut(j) ==
    /\ job[j] = "started" /\ Started(pull[j]) /\ ~Over(pull[j])
    /\ pull' = [pull EXCEPT ![j] = GivenUp(@)]
    /\ UNCHANGED <<gateway, job, down, buf, inputs, toGateway, left, history>>

\* variant: the result does not wait for the puller
ResultFirst(j) ==
    /\ job[j] = "started"
    /\ Sent([type |-> "result", job |-> j])
    /\ job' = [job EXCEPT ![j] = "finished"]
    /\ inputs' = [inputs EXCEPT ![j] = <<>>]
    /\ UNCHANGED <<gateway, down, buf, pull, link, done, left, history>>

\* JOB_RESULT, when pull_outputs has returned, has found no outputs or was
\* cancelled; the workspace is wiped
Result(j) ==
    /\ job[j] = "started" /\ (Over(pull[j]) \/ ~Started(pull[j]))
    /\ Sent([type |-> "result", job |-> j])
    /\ job' = [job EXCEPT ![j] = "finished"]
    /\ inputs' = [inputs EXCEPT ![j] = <<>>]
    /\ UNCHANGED <<gateway, down, buf, pull, link, done, left, history>>

-----------------------------------------------------------------------------
(* The tunnel, as Tunnel.tla has it in full. *)

\* the connection is lost: at the reconnect the device sends again what was not
\* handled, and what was handled last and whose acknowledgement was lost; the
\* gateway sends its pending frames in the order of a Go map, of which it is
\* enough here that one frame may overtake the others; or the oldest were given
\* up, and all of them when the old connection was unregistered before
Drop ==
    /\ link /\ Spend("drops") /\ link' = FALSE /\ history' = [history EXCEPT !.lost = TRUE]
    /\ \E k \in 1 .. Len(done) + 1 : flush' = SubSeq(done, k, Len(done)) \o out \o flush
    /\ out' = <<>> /\ done' = <<>>
    /\ \/ \E i \in 2 .. Len(down) : down' = <<down[i]>> \o RemoveAt(down, i)
       \/ \E k \in 1 .. Len(down) + 1 : down' = SubSeq(down, k, Len(down))
    /\ UNCHANGED <<gateway, job, device>>

Reconnect == /\ ~link /\ link' = TRUE
             /\ UNCHANGED <<gateway, job, down, device, out, flush, done, left, history>>

-----------------------------------------------------------------------------
(* Outputs: the gateway. *)

\* FILE_PULL_ACK reaches the attempt that waits, if it sent those chunks
Hear(j, is, what) ==
    pull' = [pull EXCEPT ![j].heard =
               [i \in Chunks |-> IF i \in is /\ i < pull[j].next THEN what ELSE @[i]]]

\* the archive's own row gets another id than the one that is linked, so the
\* look for an output of that name never finds it
OnFilePullBegin(j) ==
    /\ gbuf' = [gbuf EXCEPT ![j] = [open |-> TRUE, got |-> {}]]
    /\ history' = [history EXCEPT !.begins[j] = @ + 1]
    /\ UNCHANGED <<pull, rows, left>>

\* the answer may be lost
OnFilePullChunk(j, i) ==
    /\ gbuf' = IF gbuf[j].open THEN [gbuf EXCEPT ![j].got = @ \cup {i}] ELSE gbuf
    /\ \/ /\ IF gbuf[j].open THEN Hear(j, {i}, "ok") ELSE Hear(j, Chunks, "error")
          /\ UNCHANGED left
       \/ Spend("faults") /\ UNCHANGED pull
    /\ UNCHANGED <<rows, history>>

\* the archive's members, each a file row and a link to the job
Registered(j) == [rows EXCEPT ![j] = @ + 1]

\* complete: every chunk was received since the BEGIN
Complete(b) == b.open /\ b.got = Chunks

\* variant: the buffer is kept until the next BEGIN
OnFilePullEndKeeps(j) ==
    /\ rows' = IF Complete(gbuf[j]) THEN Registered(j) ELSE rows
    /\ Hear(j, Chunks, IF Complete(gbuf[j]) THEN "ok" ELSE "error")
    /\ UNCHANGED <<gbuf, left, history>>

\* the archive and its members are registered as outputs, or the END refused
OnFilePullEnd(j) ==
    /\ gbuf' = [gbuf EXCEPT ![j] = [open |-> FALSE, got |-> {}]]
    /\ rows' = IF Complete(gbuf[j]) THEN Registered(j) ELSE rows
    /\ Hear(j, Chunks, IF Complete(gbuf[j]) THEN "ok" ELSE "error")
    /\ UNCHANGED <<left, history>>

\* the row's status is stored, even over purged
OnFileAck(f, ok) ==
    /\ file' = IF ok THEN [file EXCEPT ![f].status = "staged_device"] ELSE file
    /\ UNCHANGED <<job, pull, gbuf, rows, left, history>>

\* CleanupJobFiles purges the inputs of the job, whoever else links to them
CleanupJobFiles(j) == file' = [file EXCEPT ![Input[j]] = [status |-> "purged", disk |-> FALSE]]

OnJobResult(j) == /\ job' = [job EXCEPT ![j] = "over"]
                  /\ CleanupJobFiles(j)
                  /\ UNCHANGED <<pull, gbuf, rows, left, history>>

Handle(f) ==
    \/ f.type = "ack" /\ OnFileAck(f.file, f.ok)
    \/ f.type = "result" /\ OnJobResult(f.job)
    \/ f.type = "begin" /\ OnFilePullBegin(f.job) /\ UNCHANGED <<file, job>>
    \/ f.type = "chunk" /\ OnFilePullChunk(f.job, f.i) /\ UNCHANGED <<file, job>>
    \/ f.type = "end" /\ OnFilePullEnd(f.job) /\ UNCHANGED <<file, job>>

Handled(f) == LET log == Append(done, f)
              IN  SubSeq(log, IF Len(log) > MaxReplay THEN 2 ELSE 1, Len(log))

\* either the next frame of the connection or the next one sent again
GatewayReads ==
    /\ link
    /\ \E f \in {q[1] : q \in {out, flush} \ {<<>>}} :
         /\ Handle(f) /\ done' = Handled(f)
         /\ \/ out # <<>> /\ f = Head(out) /\ out' = Tail(out) /\ UNCHANGED flush
            \/ flush # <<>> /\ f = Head(flush) /\ flush' = Tail(flush) /\ UNCHANGED out
    /\ UNCHANGED <<push, down, buf, inputs, link>>

-----------------------------------------------------------------------------
Init ==
    /\ file = [f \in Files |-> [status |-> "none", disk |-> FALSE]]
    /\ job = [j \in Jobs |-> "new"] /\ push = [j \in Jobs |-> {}] /\ down = <<>>
    /\ buf = [f \in Files |-> NoBuf] /\ inputs = [j \in Jobs |-> <<>>]
    /\ pull = [j \in Jobs |-> [try |-> 0, next |-> 0, heard |-> Silence]]
    /\ link = TRUE /\ out = <<>> /\ flush = <<>> /\ done = <<>>
    /\ gbuf = [j \in Jobs |-> [open |-> FALSE, got |-> {}]] /\ rows = [j \in Jobs |-> 0]
    /\ left \in Budgets
    /\ history = [placed |-> {}, begins |-> [j \in Jobs |-> 0], lost |-> FALSE]

Next ==
    \/ \E j \in Jobs :
         \/ Submit(j) \/ DequeueNext(j) \/ SendEnd(j) \/ Dispatch(j)
         \/ \E i \in Chunks : SendChunk(j, i)
         \/ PullSend(j) \/ PullFails(j) \/ PullTimesOut(j) \/ Result(j)
    \/ \E f \in Files : Upload(f) \/ DeleteFile(f)
    \/ CleanupStaged \/ DeviceReads \/ Drop \/ Reconnect \/ GatewayReads

\* the goroutines of both programs, and a device that dials again; nothing of
\* PULL_OUTPUTS_TIMEOUT, which the puller does not need
Fairness ==
    /\ WF_vars(Reconnect) /\ WF_vars(DeviceReads) /\ WF_vars(GatewayReads)
    /\ \A j \in Jobs :
         /\ WF_vars(SendEnd(j)) /\ WF_vars(Dispatch(j)) /\ WF_vars(\E i \in Chunks : SendChunk(j, i))
         /\ WF_vars(PullSend(j)) /\ WF_vars(PullFails(j)) /\ WF_vars(Result(j))

Spec     == Init /\ [][Next]_vars
FairSpec == Spec /\ Fairness

-----------------------------------------------------------------------------
(* Properties. *)

\* The files, buffers, attempts and frames of both sides have their types.
TypeOK ==
    /\ file \in [Files -> File] /\ job \in [Jobs -> Progress]
    /\ push \in [Jobs -> SUBSET Chunks] /\ \A i \in DOMAIN down : down[i] \in Down
    /\ \A f \in Files : buf[f] \in Buffer
    /\ \A j \in Jobs : inputs[j] \in Seq(Chunks)
    /\ pull \in [Jobs -> Pull] /\ link \in BOOLEAN
    /\ \A q \in {out, flush, done} : \A i \in DOMAIN q : q[i] \in Out
    /\ gbuf \in [Jobs -> Pulled] /\ rows \in [Jobs -> Nat]

\* Chunks may reach the device in any order, twice over from two pushes of one
\* file, and mixed: a file is never recorded as staged_device that was not whole
\* in the workspace of a job, one that was over by then excepted (handle_end's
\* hash, OnFileAck).
StagedWasWhole == \A f \in Files : file[f].status = "staged_device" => f \in history.placed

\* On a connection that lasts, a job is over only after its output was
\* registered, whatever answers were lost and attempts repeated, unless the file
\* was given up after three attempts or sixty seconds (pull_outputs before
\* JOB_RESULT, OnFilePullEnd).
ResultAfterOutputs ==
    \A j \in Jobs : job[j] = "over" /\ Started(pull[j]) /\ pull[j].try < Retries /\ ~history.lost
                       => rows[j] = 1

\* An END that is sent again registers nothing: outputs are registered once for
\* each BEGIN (OnFilePullEnd forgets the buffer before it looks at it).
RegisteredPerBegin == \A j \in Jobs : rows[j] <= history.begins[j]

\* Buffers, attempts and registrations agree, although both ends repeat frames.
TransferSound == TypeOK /\ RegisteredPerBegin

\* In the end no job is left that the device has started and not reported,
\* whatever is lost: the puller is not blocked by an answer that does not come
\* (CHUNK_ACK_TIMEOUT, MAX_RETRIES), nor the result by a lost connection (outbox).
OutputsEnd == <>[](\A j \in Jobs : job[j] \notin {"started", "finished"})

\* 03-local-device.md:81 has the device "ensure referenced files staged (await
\* FILE_PUSH_* completion)": no job starts without its whole input.
InputsComplete == \A j \in Jobs : job[j] = "started" => Whole(inputs[j])
=============================================================================
