-------------------------- MODULE FileTransferProofs --------------------------
(***************************************************************************)
(* What is proved of the files of jobs on a device, for every number of    *)
(* files, jobs and chunks, every number of attempts and any number of lost *)
(* connections, sends and answers.                                         *)
(***************************************************************************)
EXTENDS FileTransfer, SequenceTheorems, TLAPS

-----------------------------------------------------------------------------
(* Queues                                                                  *)

LEMMA QueueOps ==
  ASSUME NEW S, NEW q \in Seq(S)
  PROVE  /\ DOMAIN q = 1 .. Len(q) /\ Len(q) \in Nat
         /\ \A i \in DOMAIN q : q[i] \in S
         /\ \A x \in S : /\ Append(q, x) \in Seq(S)
                         /\ DOMAIN Append(q, x) = DOMAIN q \cup {Len(q) + 1}
                         /\ \A i \in DOMAIN q : Append(q, x)[i] = q[i]
                         /\ Append(q, x)[Len(q) + 1] = x
         /\ q # << >> => /\ Head(q) \in S /\ Tail(q) \in Seq(S) /\ Head(q) = q[1] /\ 1 \in DOMAIN q
                         /\ \A i \in DOMAIN Tail(q) : i + 1 \in DOMAIN q /\ i \in Nat /\ i + 1 # 1
                                                      /\ Tail(q)[i] = q[i + 1]
<1>1. DOMAIN q = 1 .. Len(q) /\ Len(q) \in Nat
  BY LenProperties
<1>2. \A i \in DOMAIN q : q[i] \in S
  BY <1>1, ElementOfSeq
<1>3. ASSUME NEW x \in S
      PROVE  /\ Append(q, x) \in Seq(S)
             /\ DOMAIN Append(q, x) = DOMAIN q \cup {Len(q) + 1}
             /\ \A i \in DOMAIN q : Append(q, x)[i] = q[i]
             /\ Append(q, x)[Len(q) + 1] = x
  <2> DEFINE z == Append(q, x)
  <2>1. /\ z \in Seq(S) /\ Len(z) = Len(q) + 1
        /\ (\A i \in 1 .. Len(q) : z[i] = q[i]) /\ z[Len(q) + 1] = x
    BY AppendProperties
  <2> HIDE DEF z
  <2>2. DOMAIN z = 1 .. Len(z)
    BY <2>1, LenProperties
  <2> QED
    BY <1>1, <2>1, <2>2 DEF z
<1>4. ASSUME q # << >>
      PROVE  /\ Head(q) \in S /\ Tail(q) \in Seq(S) /\ Head(q) = q[1] /\ 1 \in DOMAIN q
             /\ \A i \in DOMAIN Tail(q) : i + 1 \in DOMAIN q /\ i \in Nat /\ i + 1 # 1
                                          /\ Tail(q)[i] = q[i + 1]
  <2> DEFINE z == Tail(q)
  <2>0. Len(q) > 0
    BY <1>1, <1>4, EmptySeq
  <2>1. /\ z \in Seq(S) /\ Len(z) = Len(q) - 1
        /\ (\A i \in 1 .. Len(z) : z[i] = q[i + 1]) /\ Head(q) = q[1]
    BY <1>4, HeadTailProperties
  <2> HIDE DEF z
  <2>2. DOMAIN z = 1 .. Len(z)
    BY <2>1, LenProperties
  <2>3. 1 \in DOMAIN q
    BY <1>1, <2>0
  <2> QED
    BY <1>1, <1>2, <2>0, <2>1, <2>2, <2>3 DEF z
<1> QED
  BY <1>1, <1>2, <1>3, <1>4

\* A part of a queue, and two queues in a row, hold what these held.
LEMMA PartOps ==
  ASSUME NEW S, NEW q \in Seq(S), NEW k \in Nat \ {0}, NEW n \in Nat, n <= Len(q)
  PROVE  /\ SubSeq(q, k, n) \in Seq(S)
         /\ Len(SubSeq(q, k, n)) = IF k <= n THEN n - k + 1 ELSE 0
         /\ \A i \in DOMAIN SubSeq(q, k, n) :
              /\ i \in Nat \ {0} /\ k + i - 1 \in DOMAIN q /\ k + i - 1 <= n
              /\ SubSeq(q, k, n)[i] = q[k + i - 1]
<1> DEFINE z == SubSeq(q, k, n)
<1>1. DOMAIN q = 1 .. Len(q) /\ Len(q) \in Nat /\ \A i \in DOMAIN q : q[i] \in S
  BY QueueOps
<1>2. \A i \in k .. n : q[i] \in S
  BY <1>1
<1>3. /\ z \in Seq(S)
      /\ Len(z) = IF k <= n THEN n - k + 1 ELSE 0
      /\ \A i \in 1 .. n - k + 1 : z[i] = q[k + i - 1]
  BY <1>2, SubSeqProperties
<1> HIDE DEF z
<1>4. DOMAIN z = 1 .. Len(z)
  BY <1>3, LenProperties
<1>5. ASSUME NEW i \in DOMAIN z
      PROVE  i \in Nat \ {0} /\ k + i - 1 \in DOMAIN q /\ k + i - 1 <= n /\ z[i] = q[k + i - 1]
  <2>1. k <= n
    BY <1>3, <1>4, <1>5
  <2>2. i \in 1 .. n - k + 1
    BY <1>3, <1>4, <1>5, <2>1
  <2> QED
    BY <1>1, <1>3, <2>1, <2>2
<1> QED
  BY <1>3, <1>5 DEF z

LEMMA RowOps ==
  ASSUME NEW S, NEW p \in Seq(S), NEW q \in Seq(S)
  PROVE  /\ p \o q \in Seq(S)
         /\ \A i \in DOMAIN (p \o q) :
              \/ i \in DOMAIN p /\ (p \o q)[i] = p[i]
              \/ i \notin DOMAIN p /\ i - Len(p) \in DOMAIN q /\ (p \o q)[i] = q[i - Len(p)]
<1> DEFINE z == p \o q
<1>1. /\ z \in Seq(S) /\ Len(z) = Len(p) + Len(q)
      /\ \A i \in 1 .. Len(p) + Len(q) : z[i] = IF i <= Len(p) THEN p[i] ELSE q[i - Len(p)]
  BY ConcatProperties
<1> HIDE DEF z
<1>2. /\ DOMAIN z = 1 .. Len(z) /\ DOMAIN p = 1 .. Len(p) /\ DOMAIN q = 1 .. Len(q)
      /\ Len(p) \in Nat /\ Len(q) \in Nat
  BY <1>1, LenProperties
<1>3. ASSUME NEW i \in DOMAIN z
      PROVE  \/ i \in DOMAIN p /\ z[i] = p[i]
             \/ i \notin DOMAIN p /\ i - Len(p) \in DOMAIN q /\ z[i] = q[i - Len(p)]
  <2>1. i \in 1 .. Len(p) + Len(q)
    BY <1>1, <1>2, <1>3
  <2>2. CASE i <= Len(p)
    BY <1>1, <1>2, <2>1, <2>2
  <2>3. CASE ~(i <= Len(p))
    BY <1>1, <1>2, <2>1, <2>3
  <2> QED
    BY <2>2, <2>3
<1> QED
  BY <1>1, <1>3 DEF z

-----------------------------------------------------------------------------
(* The inductive invariant                                                 *)

History == [placed : SUBSET Files, begins : [Jobs -> Nat], lost : BOOLEAN]

Types ==
  /\ file \in [Files -> File] /\ job \in [Jobs -> Progress]
  /\ push \in [Jobs -> SUBSET Chunks] /\ down \in Seq(Down)
  /\ buf \in [Files -> Buffer] /\ inputs \in [Jobs -> Seq(Chunks)]
  /\ pull \in [Jobs -> Pull] /\ link \in BOOLEAN
  /\ out \in Seq(Out) /\ flush \in Seq(Out) /\ done \in Seq(Out)
  /\ gbuf \in [Jobs -> Pulled] /\ rows \in [Jobs -> Nat]
  /\ history \in History

\* The open file of an id is in the workspace of the job it was opened for,
\* until that job is over.
Opened ==
  \A f \in Files : buf[f] # NoBuf =>
    /\ buf[f].job \in Jobs /\ Input[buf[f].job] = f
    /\ inputs[buf[f].job] = buf[f].got \/ Wiped(buf[f].job)

\* Chunks are sent while PushFile runs, and a job is dispatched in one frame.
Pushing == \A j \in Jobs : push[j] # {} => job[j] \in {"pushing", "failing"}
IsDispatch(f, j) == f.type = "dispatch" /\ f.job = j
Dispatched ==
  \A j \in Jobs : \A i \in DOMAIN down : IsDispatch(down[i], j) =>
    job[j] = "dispatched" /\ \A k \in DOMAIN down : IsDispatch(down[k], j) => k = i

\* Every frame of the outbox says what is so: a file was placed, a job ended.
Truthful(f, placed, jobs) ==
  /\ f.type = "ack" /\ f.ok => f.file \in placed
  /\ f.type = "result" => jobs[f.job] \in {"finished", "over"}
Told ==
  \A q \in {out, flush, done} : \A i \in DOMAIN q : Truthful(q[i], history.placed, job)
Placed == \A f \in Files : file[f].status = "staged_device" => f \in history.placed

\* a buffer that is open has its own BEGIN to pay for the next registration
Paid == \A j \in Jobs : rows[j] + (IF gbuf[j].open THEN 1 ELSE 0) <= history.begins[j]

\* What the queue q of a job's frames will do to the gateway's buffer g.
IsBegin(f, j)    == f.type = "begin" /\ f.job = j
IsChunk(f, j, i) == f.type = "chunk" /\ f.job = j /\ f.i = i
IsEnd(f, j)      == f.type = "end" /\ f.job = j
IsResult(f, j)   == f.type = "result" /\ f.job = j

NoBegin(q, j)  == \A k \in DOMAIN q : ~IsBegin(q[k], j)
NoEnd(q, j)    == \A k \in DOMAIN q : ~IsEnd(q[k], j)
Opens(q, j, g) == g.open \/ ~NoBegin(q, j)
Lands(q, j, g, i) ==
  \/ i \in g.got /\ NoBegin(q, j)
  \/ \E k \in DOMAIN q : /\ IsChunk(q[k], j, i)
                         /\ \A m \in DOMAIN q : IsBegin(q[m], j) => m < k
Arrives(q, j, g, n) == n > 0 => Opens(q, j, g) /\ \A i \in Chunks : i < n => Lands(q, j, g, i)

\* the one END, which comes after all that it closes and before the result
Ends(q, j) ==
  \E e \in DOMAIN q : /\ IsEnd(q[e], j)
                      /\ \A m \in DOMAIN q : /\ IsEnd(q[m], j) => m = e
                                             /\ IsBegin(q[m], j) => m < e
                                             /\ \A i \in Chunks : IsChunk(q[m], j, i) => m < e
                                             /\ IsResult(q[m], j) => m > e

\* an attempt of a puller that has not given up
Stream(q, j, g, r, p, st) ==
  p.try < Retries =>
    IF Over(p) THEN \/ r = 1 /\ NoEnd(q, j)
                    \/ r = 0 /\ st # "over" /\ Arrives(q, j, g, p.next) /\ Ends(q, j)
    ELSE r = 0 /\ NoEnd(q, j) /\ Arrives(q, j, g, p.next)

Streams ==
  ~history.lost => link /\ flush = <<>> /\
    \A j \in Jobs : Stream(out, j, gbuf[j], rows[j], pull[j], job[j])

\* a puller that has given up is over, and a job that has ended waits for none
Pulling ==
  \A j \in Jobs : /\ pull[j].try = Retries => Over(pull[j])
                  /\ Wiped(j) => Over(pull[j]) \/ ~Started(pull[j])

Inv == /\ Types /\ Opened /\ Pushing /\ Dispatched /\ Told /\ Placed /\ Paid
       /\ Pulling /\ Streams

LEMMA InitInv == Init => Inv
<1> SUFFICES ASSUME Init PROVE Inv
  OBVIOUS
<1>0. /\ N \in Nat \ {0} /\ Retries \in Nat \ {0} /\ NoJob \notin Jobs
      /\ \A S : <<>> \in Seq(S) /\ DOMAIN <<>> = {}
  <2>1. \A S : <<>> \in Seq(S)
    BY EmptySeq
  <2>2. DOMAIN <<>> = {}
    OBVIOUS
  <2> QED
    BY <2>1, <2>2, FileTransferConstantsOK
<1>1. Types
  <2>1. file \in [Files -> File] /\ job \in [Jobs -> Progress] /\ push \in [Jobs -> SUBSET Chunks]
    BY DEF Init, File, Progress
  <2>2. buf \in [Files -> Buffer] /\ inputs \in [Jobs -> Seq(Chunks)]
    BY <1>0 DEF Init, Buffer, NoBuf
  <2>3. pull \in [Jobs -> Pull] /\ gbuf \in [Jobs -> Pulled] /\ rows \in [Jobs -> Nat]
    BY <1>0 DEF Init, Pull, Pulled, Silence
  <2>4. history \in History
    BY DEF Init, History
  <2>5. /\ down \in Seq(Down) /\ out \in Seq(Out) /\ flush \in Seq(Out) /\ done \in Seq(Out)
        /\ link \in BOOLEAN
    BY <1>0 DEF Init
  <2> QED
    BY <2>1, <2>2, <2>3, <2>4, <2>5 DEF Types
<1>2. Opened /\ Pushing /\ Placed
  BY DEF Init, Opened, Pushing, Placed
<1>3. Dispatched /\ Told
  BY <1>0 DEF Init, Dispatched, Told
<1>4. Paid /\ Pulling
  BY <1>0 DEF Init, Paid, Pulling, Over, Started, Wiped
<1>5. Streams
  <2>1. link /\ flush = <<>>
    BY DEF Init
  <2>2. ASSUME NEW j \in Jobs PROVE Stream(out, j, gbuf[j], rows[j], pull[j], job[j])
    <3>1. ~Over(pull[j]) /\ rows[j] = 0 /\ pull[j].next = 0
      BY <1>0 DEF Init, Over
    <3>2. NoEnd(out, j)
      BY <1>0 DEF Init, NoEnd
    <3> QED
      BY <3>1, <3>2 DEF Stream, Arrives
  <2> QED
    BY <2>1, <2>2 DEF Streams
<1> QED
  BY <1>1, <1>2, <1>3, <1>4, <1>5 DEF Inv

-----------------------------------------------------------------------------
(* What a step reads and what it makes of a job                            *)

LEMMA FrameKinds ==
  /\ \A d \in Down : /\ d.type \in {"begin", "chunk", "end", "dispatch"} /\ d.job \in Jobs
                     /\ d.type = "chunk" => d.i \in Chunks
  /\ \A f \in Out : /\ f.type \in {"begin", "chunk", "end", "result", "ack"}
                    /\ f.type # "ack" => f.job \in Jobs
                    /\ f.type = "chunk" => f.i \in Chunks
                    /\ f.type = "ack" => f.file \in Files /\ f.ok \in BOOLEAN
  /\ \A j \in Jobs : /\ \A t \in {"begin", "end", "dispatch"} : [type |-> t, job |-> j] \in Down
                     /\ \A t \in {"begin", "end", "result"} : [type |-> t, job |-> j] \in Out
                     /\ \A i \in Chunks : /\ [type |-> "chunk", job |-> j, i |-> i] \in Down
                                          /\ [type |-> "chunk", job |-> j, i |-> i] \in Out
  /\ \A f \in Files : \A b \in BOOLEAN : [type |-> "ack", file |-> f, ok |-> b] \in Out
  BY DEF Down, Out, Plain, Chunk, Ack

\* one frame of the device's tunnel, and what is left of it
LEMMA DeviceStep ==
  ASSUME Types, DeviceReads
  PROVE  \E d \in Down :
           /\ d = Head(down) /\ d = down[1] /\ 1 \in DOMAIN down /\ d.job \in Jobs
           /\ down' = Tail(down) /\ down' \in Seq(Down)
           /\ \/ d.type = "begin"    /\ HandleBegin(d.job)
              \/ d.type = "chunk"    /\ d.i \in Chunks /\ HandleChunk(Input[d.job], d.i)
              \/ d.type = "end"      /\ HandleEnd(Input[d.job])
              \/ d.type = "dispatch" /\ HandleDispatch(d.job)
           /\ UNCHANGED <<gateway, pull, link, done>>
<1>1. down \in Seq(Down) /\ down # <<>>
  BY DEF Types, DeviceReads
<1>2. Head(down) \in Down /\ Tail(down) \in Seq(Down) /\ Head(down) = down[1] /\ 1 \in DOMAIN down
  BY <1>1, QueueOps
<1> QED
  BY <1>2, FrameKinds DEF DeviceReads

\* one frame of the outbox, from either end, and what is left of it
LEMMA FrameStep ==
  ASSUME Types, GatewayReads
  PROVE  \E f \in Out :
           /\ Handle(f) /\ done' = Handled(f)
           /\ \/ /\ out # <<>> /\ f = Head(out) /\ f = out[1] /\ 1 \in DOMAIN out
                 /\ out' = Tail(out) /\ out' \in Seq(Out) /\ flush' = flush
              \/ /\ flush # <<>> /\ f = Head(flush) /\ f = flush[1] /\ 1 \in DOMAIN flush
                 /\ flush' = Tail(flush) /\ flush' \in Seq(Out) /\ out' = out
           /\ UNCHANGED <<push, down, buf, inputs, link>>
<1>1. out \in Seq(Out) /\ flush \in Seq(Out)
  BY DEF Types
<1>2. \A q \in Seq(Out) : q # <<>> =>
        Head(q) \in Out /\ Tail(q) \in Seq(Out) /\ Head(q) = q[1] /\ 1 \in DOMAIN q
  BY QueueOps
<1>3. PICK f : /\ Handle(f) /\ done' = Handled(f)
               /\ \/ out # <<>> /\ f = Head(out) /\ out' = Tail(out) /\ UNCHANGED flush
                  \/ flush # <<>> /\ f = Head(flush) /\ flush' = Tail(flush) /\ UNCHANGED out
  BY DEF GatewayReads
<1>4. UNCHANGED <<push, down, buf, inputs, link>>
  BY DEF GatewayReads
<1>5. f \in Out
  BY <1>1, <1>2, <1>3
<1> QED
  BY <1>1, <1>2, <1>3, <1>4, <1>5

\* the frame that is handled says what is so
LEMMA FrameTruthful ==
  ASSUME Types, Told, GatewayReads
  PROVE  \E f \in Out :
           /\ Handle(f) /\ done' = Handled(f) /\ Truthful(f, history.placed, job)
           /\ UNCHANGED <<push, down, buf, inputs, link>>
<1>1. PICK f \in Out :
        /\ Handle(f) /\ done' = Handled(f)
        /\ \/ f = out[1] /\ 1 \in DOMAIN out
           \/ f = flush[1] /\ 1 \in DOMAIN flush
        /\ UNCHANGED <<push, down, buf, inputs, link>>
  BY FrameStep
<1>2. Truthful(f, history.placed, job)
  BY <1>1 DEF Told
<1> QED
  BY <1>1, <1>2

\* the ways of a job
Moves(old, new) ==
  \/ old = "new" /\ new \in {"pushing", "pushed"}
  \/ old \in {"pushing", "failing"} /\ new \in {"failing", "pushed"}
  \/ old = "pushed" /\ new = "dispatched"
  \/ old = "dispatched" /\ new \in {"started", "stuck"}
  \/ old = "started" /\ new = "finished"
  \/ old \in {"finished", "over"} /\ new = "over"

Move(j, new) == Moves(job[j], new) /\ job' = [job EXCEPT ![j] = new]

LEMMA JobSteps ==
  ASSUME Types, Pushing, Dispatched, Told, Next
  PROVE  job' = job \/ \E j \in Jobs : \E new \in Progress : Move(j, new)
<1> USE DEF Move, Moves, Progress
<1>1. ASSUME NEW j \in Jobs, Submit(j) \/ DequeueNext(j)
      PROVE  \E new \in Progress : Move(j, new)
  BY <1>1 DEF Submit, DequeueNext, Submitted, PushFile
<1>2. ASSUME NEW j \in Jobs, SendEnd(j) \/ Dispatch(j)
      PROVE  \E new \in Progress : Move(j, new)
  BY <1>2 DEF SendEnd, Dispatch
<1>3. ASSUME NEW j \in Jobs, NEW i \in Chunks, SendChunk(j, i)
      PROVE  job' = job \/ \E new \in Progress : Move(j, new)
  BY <1>3 DEF SendChunk, Pushing
<1>4. ASSUME NEW j \in Jobs, PullSend(j) \/ PullFails(j) \/ PullTimesOut(j)
      PROVE  job' = job
  BY <1>4 DEF PullSend, PullFails, PullTimesOut
<1>5. ASSUME NEW j \in Jobs, Result(j)
      PROVE  \E new \in Progress : Move(j, new)
  BY <1>5 DEF Result
<1>6. ASSUME NEW f \in Files, Upload(f) \/ DeleteFile(f)
      PROVE  job' = job
  BY <1>6 DEF Upload, DeleteFile
<1>7. CASE DeviceReads
  <2>1. PICK d \in Down :
          /\ d = down[1] /\ 1 \in DOMAIN down /\ d.job \in Jobs
          /\ \/ d.type = "begin"    /\ HandleBegin(d.job)
             \/ d.type = "chunk"    /\ HandleChunk(Input[d.job], d.i)
             \/ d.type = "end"      /\ HandleEnd(Input[d.job])
             \/ d.type = "dispatch" /\ HandleDispatch(d.job)
    BY <1>7, DeviceStep
  <2>2. CASE d.type = "dispatch"
    <3>1. job[d.job] = "dispatched"
      BY <2>1, <2>2 DEF Dispatched, IsDispatch
    <3>2. \E new \in {"started", "stuck"} : job' = [job EXCEPT ![d.job] = new]
      BY <2>1, <2>2 DEF HandleDispatch
    <3> QED
      BY <2>1, <3>1, <3>2
  <2>3. CASE d.type # "dispatch"
    BY <2>1, <2>3 DEF HandleBegin, HandleChunk, HandleEnd
  <2> QED
    BY <2>2, <2>3
<1>8. CASE GatewayReads
  <2>1. PICK f \in Out : Handle(f) /\ Truthful(f, history.placed, job)
    BY <1>8, FrameTruthful
  <2>2. CASE f.type = "result"
    <3>1. f.job \in Jobs /\ job[f.job] \in {"finished", "over"}
      BY <2>1, <2>2, FrameKinds DEF Truthful
    <3>2. job' = [job EXCEPT ![f.job] = "over"]
      BY <2>1, <2>2 DEF Handle, OnJobResult
    <3> QED
      BY <3>1, <3>2
  <2>3. CASE f.type # "result"
    BY <2>1, <2>3 DEF Handle, OnFileAck
  <2> QED
    BY <2>2, <2>3
<1>9. CASE CleanupStaged \/ Drop \/ Reconnect
  BY <1>9 DEF CleanupStaged, Drop, Reconnect
<1> QED
  BY <1>1, <1>2, <1>3, <1>4, <1>5, <1>6, <1>7, <1>8, <1>9 DEF Next

LEMMA JobKept ==
  ASSUME Types, Pushing, Dispatched, Told, Next
  PROVE  job' \in [Jobs -> Progress] /\ \A j \in Jobs : Wiped(j) => Wiped(j)'
<1>1. job' = job \/ \E j \in Jobs : \E new \in Progress : Move(j, new)
  BY JobSteps
<1> QED
  BY <1>1 DEF Move, Moves, Types, Wiped

-----------------------------------------------------------------------------
(* Types                                                                   *)

LEMMA SentHolds ==
  ASSUME Types, NEW f \in Out, Sent(f)
  PROVE  /\ out' \in Seq(Out) /\ flush' \in Seq(Out)
         /\ \/ out' = Append(out, f) /\ flush' = flush
            \/ flush' = Append(flush, f) /\ out' = out
         /\ link => out' = Append(out, f) /\ flush' = flush
<1>1. out \in Seq(Out) /\ flush \in Seq(Out)
  BY DEF Types
<1>2. Append(out, f) \in Seq(Out) /\ Append(flush, f) \in Seq(Out)
  BY <1>1, QueueOps
<1>3. CASE link
  BY <1>1, <1>2, <1>3 DEF Sent
<1>4. CASE ~link
  BY <1>1, <1>2, <1>4 DEF Sent
<1> QED
  BY <1>3, <1>4

LEMMA LoggedHolds ==
  ASSUME Types, NEW f \in Out
  PROVE  /\ Handled(f) \in Seq(Out)
         /\ \A i \in DOMAIN Handled(f) : Handled(f)[i] = f \/ \E k \in DOMAIN done : Handled(f)[i] = done[k]
<1> DEFINE log == Append(done, f)
           k   == IF Len(log) > MaxReplay THEN 2 ELSE 1
<1>1. done \in Seq(Out)
  BY DEF Types
<1>2. /\ log \in Seq(Out) /\ Len(log) \in Nat
      /\ \A i \in DOMAIN log : log[i] = f \/ \E m \in DOMAIN done : log[i] = done[m]
  <2>1. log \in Seq(Out) /\ DOMAIN log = DOMAIN done \cup {Len(done) + 1}
        /\ (\A i \in DOMAIN done : log[i] = done[i]) /\ log[Len(done) + 1] = f
    BY <1>1, QueueOps
  <2> HIDE DEF log
  <2> QED
    BY <2>1, QueueOps
<1>3. k \in Nat \ {0} /\ Handled(f) = SubSeq(log, k, Len(log))
  BY DEF Handled
<1> HIDE DEF log, k
<1>4. /\ SubSeq(log, k, Len(log)) \in Seq(Out)
      /\ \A i \in DOMAIN SubSeq(log, k, Len(log)) :
           k + i - 1 \in DOMAIN log /\ SubSeq(log, k, Len(log))[i] = log[k + i - 1]
  BY <1>2, <1>3, PartOps
<1> QED
  BY <1>2, <1>3, <1>4

\* A lost connection leaves frames that were there, and none of them twice on
\* the way to the device.
LEMMA DropHolds ==
  ASSUME Types, Drop
  PROVE  /\ flush' \in Seq(Out) /\ out' = <<>> /\ done' = <<>>
         /\ \A i \in DOMAIN flush' : \E q \in {out, flush, done} : \E k \in DOMAIN q : flush'[i] = q[k]
         /\ down' \in Seq(Down)
         /\ \E from \in [DOMAIN down' -> DOMAIN down] :
              /\ \A i \in DOMAIN down' : down'[i] = down[from[i]]
              /\ \A i, k \in DOMAIN down' : from[i] = from[k] => i = k
<1>0. /\ out \in Seq(Out) /\ flush \in Seq(Out) /\ done \in Seq(Out) /\ down \in Seq(Down)
      /\ out' = <<>> /\ done' = <<>>
  BY DEF Types, Drop
<1>1. /\ flush' \in Seq(Out)
      /\ \A i \in DOMAIN flush' : \E q \in {out, flush, done} : \E k \in DOMAIN q : flush'[i] = q[k]
  <2>1. PICK k : k \in 1 .. Len(done) + 1 /\ flush' = SubSeq(done, k, Len(done)) \o out \o flush
    BY DEF Drop
  <2>2. PICK z : z = SubSeq(done, k, Len(done))
    OBVIOUS
  <2>3. k \in Nat \ {0} /\ Len(done) \in Nat
    BY <1>0, <2>1, QueueOps
  <2>4. z \in Seq(Out) /\ \A i \in DOMAIN z : \E m \in DOMAIN done : z[i] = done[m]
    <3>1. /\ SubSeq(done, k, Len(done)) \in Seq(Out)
          /\ \A i \in DOMAIN SubSeq(done, k, Len(done)) :
               k + i - 1 \in DOMAIN done /\ SubSeq(done, k, Len(done))[i] = done[k + i - 1]
      BY <1>0, <2>3, PartOps
    <3> QED
      BY <2>2, <3>1
  <2>5. PICK y : y = z \o out
    OBVIOUS
  <2>6. /\ y \in Seq(Out)
        /\ \A i \in DOMAIN y : \/ \E m \in DOMAIN z : y[i] = z[m]
                               \/ \E m \in DOMAIN out : y[i] = out[m]
    BY <1>0, <2>4, <2>5, RowOps
  <2>7. flush' = y \o flush
    BY <2>1, <2>2, <2>5
  <2>8. /\ flush' \in Seq(Out)
        /\ \A i \in DOMAIN flush' : \/ \E m \in DOMAIN y : flush'[i] = y[m]
                                    \/ \E m \in DOMAIN flush : flush'[i] = flush[m]
    BY <1>0, <2>6, <2>7, RowOps, SMTT(30)
  <2>9. \A i \in DOMAIN y : \/ \E m \in DOMAIN done : y[i] = done[m]
                            \/ \E m \in DOMAIN out : y[i] = out[m]
    BY <2>4, <2>6
  <2>10. \A i \in DOMAIN flush' : \/ \E m \in DOMAIN done : flush'[i] = done[m]
                                  \/ \E m \in DOMAIN out : flush'[i] = out[m]
                                  \/ \E m \in DOMAIN flush : flush'[i] = flush[m]
    BY <2>8, <2>9
  <2> QED
    BY <2>8, <2>10
<1>2. ASSUME NEW n \in 1 .. Len(down) + 1, down' = SubSeq(down, n, Len(down))
      PROVE  /\ down' \in Seq(Down)
             /\ \E from \in [DOMAIN down' -> DOMAIN down] :
                  /\ \A i \in DOMAIN down' : down'[i] = down[from[i]]
                  /\ \A i, k \in DOMAIN down' : from[i] = from[k] => i = k
  <2>1. Len(down) \in Nat /\ n \in Nat \ {0}
    BY <1>0, <1>2, QueueOps
  <2>2. /\ down' \in Seq(Down)
        /\ \A i \in DOMAIN down' : /\ i \in Nat \ {0} /\ n + i - 1 \in DOMAIN down
                                   /\ down'[i] = down[n + i - 1]
    <3>1. /\ SubSeq(down, n, Len(down)) \in Seq(Down)
          /\ \A i \in DOMAIN SubSeq(down, n, Len(down)) :
               /\ i \in Nat \ {0} /\ n + i - 1 \in DOMAIN down
               /\ SubSeq(down, n, Len(down))[i] = down[n + i - 1]
      BY <1>0, <2>1, PartOps
    <3> QED
      BY <1>2, <3>1
  <2>3. PICK from : from = [i \in DOMAIN down' |-> n + i - 1]
    OBVIOUS
  <2>4. from \in [DOMAIN down' -> DOMAIN down] /\ \A i \in DOMAIN down' : down'[i] = down[from[i]]
    BY <2>2, <2>3
  <2>5. \A i, k \in DOMAIN down' : from[i] = from[k] => i = k
    BY <2>1, <2>2, <2>3
  <2> QED
    BY <2>2, <2>4, <2>5
<1>3. ASSUME NEW n \in 2 .. Len(down), down' = <<down[n]>> \o RemoveAt(down, n)
      PROVE  /\ down' \in Seq(Down)
             /\ \E from \in [DOMAIN down' -> DOMAIN down] :
                  /\ \A i \in DOMAIN down' : down'[i] = down[from[i]]
                  /\ \A i, k \in DOMAIN down' : from[i] = from[k] => i = k
  <2>0. DOMAIN down = 1 .. Len(down) /\ Len(down) \in Nat /\ n \in DOMAIN down /\ down[n] \in Down
    BY <1>0, <1>3, QueueOps
  <2>1. PICK a : a = SubSeq(down, 1, n - 1)
    OBVIOUS
  <2>2. PICK b : b = SubSeq(down, n + 1, Len(down))
    OBVIOUS
  <2>3. /\ a \in Seq(Down) /\ Len(a) = n - 1
        /\ \A i \in DOMAIN a : i \in DOMAIN down /\ i <= n - 1 /\ a[i] = down[i]
    <3>1. n - 1 \in Nat /\ n - 1 <= Len(down) /\ 1 <= n - 1
      BY <2>0
    <3>2. /\ a \in Seq(Down) /\ Len(a) = IF 1 <= n - 1 THEN n - 1 - 1 + 1 ELSE 0
          /\ \A i \in DOMAIN a : /\ i \in Nat \ {0} /\ 1 + i - 1 \in DOMAIN down
                                 /\ 1 + i - 1 <= n - 1 /\ a[i] = down[1 + i - 1]
      BY <1>0, <2>1, <3>1, PartOps
    <3>3. \A i \in Nat : 1 + i - 1 = i
      OBVIOUS
    <3>4. ASSUME NEW i \in DOMAIN a PROVE i \in DOMAIN down /\ i <= n - 1 /\ a[i] = down[i]
      <4>1. 1 + i - 1 = i
        BY <3>2, <3>3
      <4> QED
        BY <3>2, <4>1
    <3> QED
      BY <3>1, <3>2, <3>4
  <2>4. /\ b \in Seq(Down)
        /\ \A i \in DOMAIN b : i \in Nat \ {0} /\ n + i \in DOMAIN down /\ b[i] = down[n + i]
    <3>1. n + 1 \in Nat \ {0} /\ Len(down) <= Len(down)
      BY <2>0
    <3>2. /\ b \in Seq(Down)
          /\ \A i \in DOMAIN b : /\ i \in Nat \ {0} /\ n + 1 + i - 1 \in DOMAIN down
                                 /\ b[i] = down[n + 1 + i - 1]
      BY <1>0, <2>0, <2>2, <3>1, PartOps, SMTT(30)
    <3>3. ASSUME NEW i \in DOMAIN b PROVE i \in Nat \ {0} /\ n + i \in DOMAIN down /\ b[i] = down[n + i]
      <4>1. n + 1 + i - 1 = n + i
        BY <2>0, <3>2
      <4> QED
        BY <3>2, <4>1
    <3> QED
      BY <3>2, <3>3
  <2>5. PICK r : r = a \o b
    OBVIOUS
  <2>6. /\ r \in Seq(Down)
        /\ \A i \in DOMAIN r : \/ i \in DOMAIN a /\ r[i] = a[i]
                               \/ i - (n - 1) \in DOMAIN b /\ i \notin DOMAIN a /\ r[i] = b[i - (n - 1)]
    BY <2>3, <2>4, <2>5, RowOps
  <2>7. PICK h : h = <<down[n]>>
    OBVIOUS
  <2>8. h \in Seq(Down) /\ Len(h) = 1 /\ DOMAIN h = {1} /\ h[1] = down[n]
    BY <2>0, <2>7
  <2>9. down' = h \o r
    BY <1>3, <2>1, <2>2, <2>5, <2>7 DEF RemoveAt
  <2>10. /\ down' \in Seq(Down)
         /\ \A i \in DOMAIN down' : \/ i \in DOMAIN h /\ down'[i] = h[i]
                                    \/ i \notin DOMAIN h /\ i - 1 \in DOMAIN r /\ down'[i] = r[i - 1]
    <3>1. /\ h \o r \in Seq(Down)
          /\ \A i \in DOMAIN (h \o r) :
               \/ i \in DOMAIN h /\ (h \o r)[i] = h[i]
               \/ i \notin DOMAIN h /\ i - Len(h) \in DOMAIN r /\ (h \o r)[i] = r[i - Len(h)]
      BY <2>6, <2>8, RowOps
    <3> QED
      BY <2>8, <2>9, <3>1
  <2>11. PICK from : from = [i \in DOMAIN down' |-> IF i = 1 THEN n ELSE IF i <= n THEN i - 1 ELSE i]
    OBVIOUS
  <2>12. ASSUME NEW i \in DOMAIN down'
         PROVE  /\ i \in Nat \ {0} /\ from[i] \in DOMAIN down /\ down'[i] = down[from[i]]
    <3>0. i \in Nat \ {0} /\ n \in Nat
      BY <2>0, <2>10, QueueOps
    <3>1. CASE i = 1
      BY <2>0, <2>8, <2>10, <2>11, <3>0, <3>1
    <3>2. CASE i # 1
      <4>1. i - 1 \in DOMAIN r /\ down'[i] = r[i - 1]
        BY <2>8, <2>10, <3>2
      <4>2. CASE i - 1 \in DOMAIN a
        <5>1. down'[i] = down[i - 1] /\ i - 1 \in DOMAIN down /\ i <= n
          BY <2>3, <2>6, <3>0, <4>1, <4>2
        <5> QED
          BY <2>11, <3>0, <3>2, <5>1
      <4>3. CASE i - 1 \notin DOMAIN a
        <5>1. (i - 1) - (n - 1) \in DOMAIN b /\ down'[i] = b[(i - 1) - (n - 1)]
          BY <2>6, <4>1, <4>3
        <5>2. (i - 1) - (n - 1) = i - n /\ n + (i - n) = i
          BY <3>0
        <5>3. i - n \in Nat \ {0} /\ i \in DOMAIN down /\ down'[i] = down[i]
          <6>1. i - n \in DOMAIN b /\ down'[i] = b[i - n]
            BY <5>1, <5>2
          <6>2. i - n \in Nat \ {0} /\ n + (i - n) \in DOMAIN down /\ b[i - n] = down[n + (i - n)]
            BY <2>4, <6>1
          <6> QED
            BY <5>2, <6>1, <6>2
        <5> QED
          BY <2>11, <3>0, <3>2, <5>3
      <4> QED
        BY <4>2, <4>3
    <3> QED
      BY <3>1, <3>2
  <2>13. \A i, k \in DOMAIN down' : from[i] = from[k] => i = k
    <3>1. DOMAIN down' \subseteq Nat \ {0} /\ n \in Nat
      BY <2>0, <2>12
    <3> QED
      BY <2>11, <3>1
  <2> QED
    BY <2>10, <2>11, <2>12, <2>13, ZenonT(60)
<1> QED
  BY <1>0, <1>1, <1>2, <1>3 DEF Drop

LEMMA FileWritten ==
  ASSUME Types, NEW f \in Files
  PROVE  /\ \A r \in File : [file EXCEPT ![f] = r] \in [Files -> File]
         /\ \A s \in {"purged", "staged_device"} : [file EXCEPT ![f].status = s] \in [Files -> File]
<1>1. file \in [Files -> File]
  BY DEF Types
<1>2. \A r \in File : [file EXCEPT ![f] = r] \in [Files -> File]
  BY <1>1
<1>3. ASSUME NEW s \in {"purged", "staged_device"}
      PROVE  [file EXCEPT ![f].status = s] \in [Files -> File]
  <2>1. file[f] \in File
    BY <1>1
  <2>2. [file[f] EXCEPT !.status = s] \in File
    BY <2>1 DEF File
  <2>3. [file EXCEPT ![f].status = s] = [file EXCEPT ![f] = [file[f] EXCEPT !.status = s]]
    BY <1>1
  <2> QED
    BY <1>2, <2>2, <2>3
<1> QED
  BY <1>2, <1>3

LEMMA FilesHold ==
  ASSUME Types, Next
  PROVE  file' \in [Files -> File] /\ push' \in [Jobs -> SUBSET Chunks]
<1>0. file \in [Files -> File] /\ push \in [Jobs -> SUBSET Chunks] /\ Input \in [Jobs -> Files]
  BY FileTransferConstantsOK DEF Types
<1>1. ASSUME NEW j \in Jobs, Submit(j)
      PROVE  file' = file /\ push' \in [Jobs -> SUBSET Chunks]
  BY <1>0, <1>1 DEF Submit, PushFile
<1>2. ASSUME NEW j \in Jobs, NEW i \in Chunks, SendChunk(j, i)
      PROVE  file' = file /\ push' \in [Jobs -> SUBSET Chunks]
  BY <1>0, <1>2 DEF SendChunk
<1>3. ASSUME NEW j \in Jobs,
             \/ DequeueNext(j) \/ SendEnd(j) \/ Dispatch(j) \/ PullSend(j) \/ PullFails(j) \/ PullTimesOut(j) \/ Result(j)
      PROVE  file' = file /\ push' = push
  BY <1>3 DEF DequeueNext, SendEnd, Dispatch, PullSend, PullFails, PullTimesOut, Result, gateway
<1>4. ASSUME NEW f \in Files, Upload(f) \/ DeleteFile(f)
      PROVE  file' \in [Files -> File] /\ push' = push
  <2>1. [status |-> "staged_cloud", disk |-> TRUE] \in File
    BY DEF File
  <2> QED
    BY <1>4, <2>1, FileWritten DEF Upload, DeleteFile
<1>5. CASE CleanupStaged
  BY <1>0, <1>5 DEF CleanupStaged, File
<1>6. CASE DeviceReads \/ Drop \/ Reconnect
  BY <1>0, <1>6 DEF DeviceReads, Drop, Reconnect, gateway
<1>7. CASE GatewayReads
  <2>1. PICK f \in Out : Handle(f) /\ push' = push
    BY <1>7, FrameStep
  <2>2. CASE f.type = "ack"
    <3>1. f.file \in Files /\ OnFileAck(f.file, f.ok)
      BY <2>1, <2>2, FrameKinds DEF Handle
    <3> QED
      BY <1>0, <2>1, <3>1, FileWritten DEF OnFileAck
  <2>3. CASE f.type = "result"
    <3>1. f.job \in Jobs /\ CleanupJobFiles(f.job)
      BY <2>1, <2>3, FrameKinds DEF Handle, OnJobResult
    <3>2. [status |-> "purged", disk |-> FALSE] \in File /\ Input[f.job] \in Files
      BY <1>0, <3>1 DEF File
    <3> QED
      BY <2>1, <3>1, <3>2, FileWritten, <1>0 DEF CleanupJobFiles
  <2>4. CASE f.type \notin {"ack", "result"}
    BY <1>0, <2>1, <2>4 DEF Handle
  <2> QED
    BY <2>2, <2>3, <2>4
<1> QED
  BY <1>0, <1>1, <1>2, <1>3, <1>4, <1>5, <1>6, <1>7 DEF Next

LEMMA DownHolds ==
  ASSUME Types, Next
  PROVE  down' \in Seq(Down)
<1>0. down \in Seq(Down) /\ \A d \in Down : Append(down, d) \in Seq(Down)
  BY QueueOps DEF Types
<1>1. ASSUME NEW j \in Jobs,
             Submit(j) \/ DequeueNext(j) \/ SendEnd(j) \/ Dispatch(j) \/ PullSend(j) \/ PullFails(j) \/ PullTimesOut(j) \/ Result(j)
      PROVE  down' \in Seq(Down)
  <2>1. /\ [type |-> "begin", job |-> j] \in Down /\ [type |-> "end", job |-> j] \in Down
        /\ [type |-> "dispatch", job |-> j] \in Down
    BY FrameKinds
  <2> QED
    BY <1>0, <1>1, <2>1
    DEF Submit, PushFile, DequeueNext, SendEnd, Dispatch, PullSend, PullFails, PullTimesOut, Result, Refused
<1>2. ASSUME NEW j \in Jobs, NEW i \in Chunks, SendChunk(j, i)
      PROVE  down' \in Seq(Down)
  <2>1. [type |-> "chunk", job |-> j, i |-> i] \in Down
    BY FrameKinds
  <2> QED
    BY <1>0, <1>2, <2>1 DEF SendChunk, Refused
<1>3. ASSUME NEW f \in Files, Upload(f) \/ DeleteFile(f)
      PROVE  down' \in Seq(Down)
  BY <1>0, <1>3 DEF Upload, DeleteFile
<1>4. CASE CleanupStaged \/ Reconnect \/ GatewayReads
  BY <1>0, <1>4 DEF CleanupStaged, Reconnect, GatewayReads
<1>5. CASE DeviceReads
  BY <1>5, DeviceStep
<1>6. CASE Drop
  BY <1>6, DropHolds
<1> QED
  BY <1>1, <1>2, <1>3, <1>4, <1>5, <1>6 DEF Next

LEMMA DeviceHolds ==
  ASSUME Types, Next
  PROVE  buf' \in [Files -> Buffer] /\ inputs' \in [Jobs -> Seq(Chunks)]
<1>0. /\ buf \in [Files -> Buffer] /\ inputs \in [Jobs -> Seq(Chunks)] /\ Input \in [Jobs -> Files]
      /\ <<>> \in Seq(Chunks)
  BY FileTransferConstantsOK, EmptySeq DEF Types
<1>1. CASE DeviceReads
  <2>1. PICK d \in Down :
          /\ d.job \in Jobs
          /\ \/ d.type = "begin"    /\ HandleBegin(d.job)
             \/ d.type = "chunk"    /\ d.i \in Chunks /\ HandleChunk(Input[d.job], d.i)
             \/ d.type = "end"      /\ HandleEnd(Input[d.job])
             \/ d.type = "dispatch" /\ HandleDispatch(d.job)
    BY <1>1, DeviceStep
  <2>2. CASE d.type = "begin"
    <3>1. Input[d.job] \in Files /\ [job |-> d.job, got |-> <<>>] \in Buffer
      BY <1>0, <2>1 DEF Buffer
    <3> QED
      BY <1>0, <2>1, <2>2, <3>1, ZenonT(60) DEF HandleBegin
  <2>3. CASE d.type = "chunk"
    <3>1. PICK f \in Files : f = Input[d.job]
      BY <1>0, <2>1
    <3>2. HandleChunk(f, d.i) /\ d.i \in Chunks
      BY <2>1, <2>3, <3>1
    <3>3. buf[f] \in Buffer
      BY <1>0
    <3>4. PICK g \in Seq(Chunks) : g = Append(buf[f].got, d.i)
      BY <3>2, <3>3, QueueOps DEF Buffer
    <3>5. CASE buf[f] = NoBuf
      BY <1>0, <3>2, <3>5 DEF HandleChunk
    <3>6. CASE buf[f] # NoBuf
      <4>1. buf' = [buf EXCEPT ![f].got = g]
        BY <3>2, <3>4, <3>6 DEF HandleChunk
      <4>2. inputs' = inputs \/ inputs' = [inputs EXCEPT ![buf[f].job] = g]
        BY <3>2, <3>4, <3>6 DEF HandleChunk
      <4> QED
        BY <1>0, <3>3, <4>1, <4>2 DEF Buffer
    <3> QED
      BY <3>5, <3>6
  <2>4. CASE d.type = "end"
    <3>1. Input[d.job] \in Files /\ NoBuf \in Buffer
      BY <1>0, <2>1 DEF Buffer, NoBuf
    <3> QED
      BY <1>0, <2>1, <2>4, <3>1 DEF HandleEnd
  <2>5. CASE d.type = "dispatch"
    BY <1>0, <2>1, <2>5 DEF HandleDispatch
  <2> QED
    BY <2>1, <2>2, <2>3, <2>4, <2>5
<1>2. ASSUME NEW j \in Jobs, Result(j)
      PROVE  buf' = buf /\ inputs' \in [Jobs -> Seq(Chunks)]
  BY <1>0, <1>2 DEF Result
<1>3. ASSUME NEW j \in Jobs,
             Submit(j) \/ DequeueNext(j) \/ SendEnd(j) \/ Dispatch(j) \/ PullSend(j) \/ PullFails(j) \/ PullTimesOut(j)
      PROVE  buf' = buf /\ inputs' = inputs
  BY <1>3 DEF Submit, DequeueNext, SendEnd, Dispatch, PullSend, PullFails, PullTimesOut, device
<1>4. ASSUME NEW j \in Jobs, NEW i \in Chunks, SendChunk(j, i)
      PROVE  buf' = buf /\ inputs' = inputs
  BY <1>4 DEF SendChunk, device
<1>5. ASSUME NEW f \in Files, Upload(f) \/ DeleteFile(f)
      PROVE  buf' = buf /\ inputs' = inputs
  BY <1>5 DEF Upload, DeleteFile, device
<1>6. CASE CleanupStaged \/ Drop \/ Reconnect \/ GatewayReads
  BY <1>0, <1>6 DEF CleanupStaged, Drop, Reconnect, GatewayReads, device
<1> QED
  BY <1>0, <1>1, <1>2, <1>3, <1>4, <1>5, <1>6 DEF Next

LEMMA GivenUpHolds ==
  ASSUME NEW p \in Pull
  PROVE  /\ GivenUp(p) \in Pull /\ GivenUp(p).try = Retries
         /\ Over(GivenUp(p)) /\ Started(GivenUp(p)) /\ ~(GivenUp(p).try < Retries)
<1>1. N \in Nat \ {0} /\ Retries \in Nat \ {0} /\ p.heard \in [Chunks -> {"nothing", "ok", "error"}]
  BY FileTransferConstantsOK DEF Pull
<1>2. GivenUp(p) = [try |-> Retries, next |-> N + 2, heard |-> p.heard]
  <2>1. GivenUp(p) = [p EXCEPT !.try = Retries, !.next = N + 2]
    BY DEF GivenUp
  <2> QED
    BY <2>1 DEF Pull
<1>3. Retries \in 0 .. Retries /\ N + 2 \in 0 .. N + 2 /\ Retries > 0
  BY <1>1
<1> QED
  BY <1>1, <1>2, <1>3 DEF Pull, Over, Started

LEMMA AgainHolds ==
  ASSUME NEW p \in Pull, ~Over(p), p.try # Retries
  PROVE  /\ Again(p) \in Pull
         /\ Again(p).try = Retries => Over(Again(p))
         /\ Again(p).try < Retries => Again(p).next = 0
         /\ Started(Again(p)) /\ p.try < Retries
<1>0. /\ N \in Nat \ {0} /\ Retries \in Nat \ {0}
      /\ p.try \in 0 .. Retries /\ p.next \in 0 .. N + 2 /\ p.heard \in [Chunks -> {"nothing", "ok", "error"}]
  BY FileTransferConstantsOK DEF Pull
<1>1. p.try < Retries
  BY <1>0
<1>2. CASE p.try + 1 = Retries
  <2>1. Again(p) = [p EXCEPT !.try = Retries, !.next = N + 2]
    BY <1>2 DEF Again, GivenUp
  <2>2. Again(p) = [try |-> Retries, next |-> N + 2, heard |-> p.heard]
    BY <2>1 DEF Pull
  <2>3. Retries \in 0 .. Retries /\ N + 2 \in 0 .. N + 2
    BY <1>0
  <2> QED
    BY <1>0, <1>1, <2>2, <2>3 DEF Pull, Over, Started
<1>3. CASE p.try + 1 # Retries
  <2>1. Again(p) = [try |-> p.try + 1, next |-> 0, heard |-> Silence]
    BY <1>3 DEF Again
  <2>2. p.try + 1 \in 0 .. Retries /\ 0 \in 0 .. N + 2 /\ p.try + 1 > 0
    BY <1>0, <1>1, <1>3
  <2>3. Silence \in [Chunks -> {"nothing", "ok", "error"}]
    BY DEF Silence
  <2> QED
    BY <1>0, <1>1, <1>3, <2>1, <2>2, <2>3 DEF Pull, Started
<1> QED
  BY <1>2, <1>3

\* an answer changes what the attempt has heard and nothing else
SameAttempt == \A j \in Jobs : pull'[j].try = pull[j].try /\ pull'[j].next = pull[j].next

LEMMA HearHolds ==
  ASSUME Types, NEW j \in Jobs, NEW is, NEW what \in {"ok", "error"}, Hear(j, is, what)
  PROVE  pull' \in [Jobs -> Pull] /\ SameAttempt
<1>0. pull \in [Jobs -> Pull]
  BY DEF Types
<1>1. PICK h : h = [i \in Chunks |-> IF i \in is /\ i < pull[j].next THEN what ELSE pull[j].heard[i]]
  OBVIOUS
<1>2. h \in [Chunks -> {"nothing", "ok", "error"}]
  BY <1>0, <1>1 DEF Pull
<1>3. pull' = [pull EXCEPT ![j].heard = h]
  BY <1>1 DEF Hear
<1>4. PICK p : p = [pull[j] EXCEPT !.heard = h]
  OBVIOUS
<1>5. p \in Pull /\ p.try = pull[j].try /\ p.next = pull[j].next
  BY <1>0, <1>2, <1>4 DEF Pull
<1>6. pull' = [pull EXCEPT ![j] = p]
  BY <1>0, <1>3, <1>4
<1> QED
  BY <1>0, <1>5, <1>6 DEF SameAttempt

\* what the gateway makes of a frame leaves the attempts and their counts
LEMMA GatewayHears ==
  ASSUME Types, NEW f \in Out, Handle(f)
  PROVE  pull' \in [Jobs -> Pull] /\ SameAttempt
<1>0. pull \in [Jobs -> Pull]
  BY DEF Types
<1>a. ASSUME pull' = pull PROVE pull' \in [Jobs -> Pull] /\ SameAttempt
  BY <1>0, <1>a DEF SameAttempt
<1>1. CASE f.type \in {"ack", "result", "begin"}
  BY <1>1, <1>a DEF Handle, OnFileAck, OnJobResult, OnFilePullBegin
<1>2. CASE f.type = "chunk"
  <2>1. f.job \in Jobs /\ OnFilePullChunk(f.job, f.i)
    BY <1>2, FrameKinds DEF Handle
  <2>2. CASE Hear(f.job, {f.i}, "ok")
    BY <2>1, <2>2, HearHolds
  <2>3. CASE Hear(f.job, Chunks, "error")
    BY <2>1, <2>3, HearHolds
  <2> QED
    BY <1>a, <2>1, <2>2, <2>3 DEF OnFilePullChunk
<1>3. CASE f.type = "end"
  <2>1. f.job \in Jobs /\ OnFilePullEnd(f.job)
    BY <1>3, FrameKinds DEF Handle
  <2>2. \E what \in {"ok", "error"} : Hear(f.job, Chunks, what)
    BY <2>1 DEF OnFilePullEnd
  <2> QED
    BY <2>1, <2>2, HearHolds
<1> QED
  BY <1>1, <1>2, <1>3, FrameKinds

\* the puller of one job
LEMMA PullStep ==
  ASSUME Types, Pulling, NEW j \in Jobs, PullSend(j) \/ PullFails(j) \/ PullTimesOut(j)
  PROVE  \E p \in Pull :
           /\ pull' = [pull EXCEPT ![j] = p] /\ Started(p) /\ (p.try = Retries => Over(p))
           /\ p.try < Retries =>
                /\ pull[j].try < Retries /\ ~Over(pull[j])
                /\ p.next = 0 \/ (link /\ p.next = pull[j].next + 1 /\ PullSend(j))
<1>0. pull[j] \in Pull /\ ~Over(pull[j]) /\ N \in Nat /\ pull[j].next \in 0 .. N + 2 /\ Retries \in Nat
  BY FileTransferConstantsOK DEF Types, Pull, PullSend, PullFails, PullTimesOut, Over
<1>1. pull[j].try # Retries
  BY <1>0 DEF Pulling
<1>2. pull[j].try < Retries
  BY <1>0, <1>1 DEF Pull
<1>3. CASE pull' = [pull EXCEPT ![j] = Again(pull[j])]
  BY <1>0, <1>1, <1>2, <1>3, AgainHolds
<1>4. CASE pull' = [pull EXCEPT ![j] = Onward(pull[j])] /\ link /\ PullSend(j)
  <2>1. PICK p : p = Onward(pull[j])
    OBVIOUS
  <2>2. p.next = pull[j].next + 1 /\ p.try = pull[j].try /\ p.heard = pull[j].heard
    BY <1>0, <2>1 DEF Pull, Onward
  <2>3. pull[j].next + 1 \in 0 .. N + 2 /\ pull[j].next + 1 > 0
    BY <1>0 DEF Over
  <2>4. p \in Pull
    BY <1>0, <2>1, <2>3 DEF Pull, Onward
  <2>5. Started(p)
    BY <2>2, <2>3 DEF Started
  <2> QED
    BY <1>0, <1>1, <1>2, <1>4, <2>1, <2>2, <2>4, <2>5
<1>5. CASE PullFails(j)
  <2>1. pull' = [pull EXCEPT ![j] = Again(pull[j])]
    BY <1>5 DEF PullFails
  <2> QED
    BY <1>3, <2>1
<1>8. CASE PullTimesOut(j)
  <2>1. pull' = [pull EXCEPT ![j] = GivenUp(pull[j])]
    BY <1>8 DEF PullTimesOut
  <2> QED
    BY <1>0, <2>1, GivenUpHolds
<1>6. CASE PullSend(j) /\ link
  <2>1. pull' = [pull EXCEPT ![j] = Onward(pull[j])]
    BY <1>6 DEF PullSend
  <2> QED
    BY <1>4, <1>6, <2>1
<1>7. CASE PullSend(j) /\ ~link
  <2>1. pull' = [pull EXCEPT ![j] = Again(pull[j])]
    BY <1>7 DEF PullSend
  <2> QED
    BY <1>3, <2>1
<1> QED
  BY <1>5, <1>6, <1>7, <1>8

LEMMA PullersHold ==
  ASSUME Types, Pulling, Next
  PROVE  pull' \in [Jobs -> Pull] /\ link' \in BOOLEAN
<1>0. pull \in [Jobs -> Pull] /\ link \in BOOLEAN
  BY DEF Types
<1>1. ASSUME NEW j \in Jobs, PullSend(j) \/ PullFails(j) \/ PullTimesOut(j)
      PROVE  pull' \in [Jobs -> Pull] /\ link' = link
  <2>1. pull' \in [Jobs -> Pull]
    BY <1>0, <1>1, PullStep
  <2> QED
    BY <1>1, <2>1 DEF PullSend, PullFails, PullTimesOut, toGateway
<1>2. ASSUME NEW j \in Jobs,
             Submit(j) \/ DequeueNext(j) \/ SendEnd(j) \/ Dispatch(j) \/ Result(j)
      PROVE  pull' = pull /\ link' = link
  BY <1>2 DEF Submit, DequeueNext, SendEnd, Dispatch, Result, device, toGateway
<1>3. ASSUME NEW j \in Jobs, NEW i \in Chunks, SendChunk(j, i)
      PROVE  pull' = pull /\ link' = link
  BY <1>3 DEF SendChunk, device, toGateway
<1>4. ASSUME NEW f \in Files, Upload(f) \/ DeleteFile(f)
      PROVE  pull' = pull /\ link' = link
  BY <1>4 DEF Upload, DeleteFile, device, toGateway
<1>5. CASE GatewayReads
  <2>1. PICK f \in Out : Handle(f) /\ link' = link
    BY <1>5, FrameStep
  <2> QED
    BY <1>0, <2>1, GatewayHears
<1>6. CASE CleanupStaged \/ DeviceReads \/ Drop \/ Reconnect
  BY <1>0, <1>6 DEF CleanupStaged, DeviceReads, Drop, Reconnect, device, toGateway
<1> QED
  BY <1>0, <1>1, <1>2, <1>3, <1>4, <1>5, <1>6 DEF Next

-----------------------------------------------------------------------------
(* The outbox says what is so                                              *)

Holds(q, f) == \E i \in DOMAIN q : q[i] = f
InOutbox(f) == Holds(out, f) \/ Holds(flush, f) \/ Holds(done, f)
Framed ==
  /\ out' \in Seq(Out) /\ flush' \in Seq(Out) /\ done' \in Seq(Out)
  /\ \A f : InOutbox(f)' => InOutbox(f) \/ Truthful(f, history'.placed, job')

LEMMA SentIsFramed ==
  ASSUME Types, NEW f \in Out, Sent(f), done' = done, Truthful(f, history'.placed, job')
  PROVE  Framed
<1>0. out \in Seq(Out) /\ flush \in Seq(Out) /\ done \in Seq(Out)
  BY DEF Types
<1>1. \A q \in Seq(Out) : \A g : Holds(Append(q, f), g) => Holds(q, g) \/ g = f
  <2> SUFFICES ASSUME NEW q \in Seq(Out), NEW g, Holds(Append(q, f), g)
               PROVE  Holds(q, g) \/ g = f
    OBVIOUS
  <2>1. PICK z : z = Append(q, f)
    OBVIOUS
  <2>2. /\ DOMAIN z = DOMAIN q \cup {Len(q) + 1}
        /\ \A i \in DOMAIN q : z[i] = q[i]
        /\ z[Len(q) + 1] = f
    BY <2>1, QueueOps
  <2>3. PICK i \in DOMAIN z : z[i] = g
    BY <2>1 DEF Holds
  <2> QED
    BY <2>2, <2>3 DEF Holds
<1>2. out' \in Seq(Out) /\ flush' \in Seq(Out) /\ done' \in Seq(Out)
  BY <1>0, SentHolds
<1>3. \/ out' = Append(out, f) /\ flush' = flush
      \/ flush' = Append(flush, f) /\ out' = out
  BY SentHolds
<1>4. ASSUME NEW g, InOutbox(g)' PROVE InOutbox(g) \/ g = f
  <2>1. Holds(out', g) \/ Holds(flush', g) \/ Holds(done', g)
    BY <1>4 DEF InOutbox, Holds
  <2>2. CASE out' = Append(out, f) /\ flush' = flush
    BY <1>0, <1>1, <2>1, <2>2 DEF InOutbox
  <2>3. CASE flush' = Append(flush, f) /\ out' = out
    BY <1>0, <1>1, <2>1, <2>3 DEF InOutbox
  <2> QED
    BY <1>3, <2>2, <2>3
<1> QED
  BY <1>2, <1>4 DEF Framed

LEMMA NothingSent ==
  ASSUME Types, UNCHANGED <<out, flush, done>>
  PROVE  Framed
  BY DEF Types, Framed, InOutbox, Holds

LEMMA FrameNext ==
  ASSUME Types, NEW j \in Jobs, ~Over(pull[j])
  PROVE  Frame(j) \in Out /\ Frame(j).type \in {"begin", "chunk", "end"} /\ Frame(j).job = j
<1>0. N \in Nat /\ pull[j].next \in 0 .. N + 2
  BY FileTransferConstantsOK DEF Types, Pull
<1>1. CASE pull[j].next = 0
  BY <1>1, FrameKinds DEF Frame
<1>2. CASE pull[j].next # 0 /\ pull[j].next <= N
  <2>1. pull[j].next \in Chunks
    BY <1>0, <1>2 DEF Chunks
  <2> QED
    BY <1>2, <2>1, FrameKinds DEF Frame
<1>3. CASE pull[j].next # 0 /\ ~(pull[j].next <= N)
  BY <1>3, FrameKinds DEF Frame
<1> QED
  BY <1>1, <1>2, <1>3

LEMMA AckIsTruthful ==
  ASSUME Types, Opened, NEW f \in Files, buf[f] # NoBuf,
         history' = IF Whole(inputs[buf[f].job]) \/ Wiped(buf[f].job)
                    THEN [history EXCEPT !.placed = @ \cup {f}] ELSE history
  PROVE  Verified(buf[f]) => f \in history'.placed
<1> SUFFICES ASSUME Whole(buf[f].got) PROVE f \in history'.placed
  BY DEF Verified
<1>1. Whole(inputs[buf[f].job]) \/ Wiped(buf[f].job)
  BY DEF Opened
<1>2. history' = [history EXCEPT !.placed = history.placed \cup {f}] /\ history \in History
  BY <1>1 DEF Types
<1> QED
  BY <1>2 DEF History

LEMMA DeviceFrames ==
  ASSUME Types, Opened, DeviceReads
  PROVE  Framed
<1>1. PICK d \in Down :
        /\ d.job \in Jobs
        /\ \/ d.type = "begin"    /\ HandleBegin(d.job)
           \/ d.type = "chunk"    /\ HandleChunk(Input[d.job], d.i)
           \/ d.type = "end"      /\ HandleEnd(Input[d.job])
           \/ d.type = "dispatch" /\ HandleDispatch(d.job)
        /\ done' = done
  BY DeviceStep
<1>2. PICK f \in Files : f = Input[d.job]
  BY <1>1, FileTransferConstantsOK
<1>3. CASE d.type = "end" /\ buf[f] # NoBuf
  <2>1. PICK b \in BOOLEAN : b <=> Verified(buf[f])
    OBVIOUS
  <2>2. PICK a : a = [type |-> "ack", file |-> f, ok |-> Verified(buf[f])]
    OBVIOUS
  <2>3. Sent(a)
    BY <1>1, <1>2, <1>3, <2>2 DEF HandleEnd
  <2>4. Verified(buf[f]) \in BOOLEAN
    BY DEF Verified, Whole
  <2>5. a \in Out /\ a.type = "ack" /\ a.file = f /\ a.ok = Verified(buf[f])
    BY <2>2, <2>4, FrameKinds
  <2>6. Verified(buf[f]) => f \in history'.placed
    BY <1>1, <1>2, <1>3, AckIsTruthful DEF HandleEnd
  <2>7. Truthful(a, history'.placed, job')
    BY <2>5, <2>6 DEF Truthful
  <2> QED
    BY <1>1, <2>3, <2>5, <2>7, SentIsFramed
<1>4. CASE ~(d.type = "end" /\ buf[f] # NoBuf)
  <2>1. out' = out /\ flush' = flush
    BY <1>1, <1>2, <1>4 DEF HandleBegin, HandleChunk, HandleEnd, HandleDispatch
  <2> QED
    BY <1>1, <2>1, NothingSent
<1> QED
  BY <1>3, <1>4

LEMMA GatewayFrames ==
  ASSUME Types, GatewayReads
  PROVE  Framed
<1>0. out \in Seq(Out) /\ flush \in Seq(Out) /\ done \in Seq(Out)
  BY DEF Types
<1>1. PICK f \in Out :
        /\ done' = Handled(f)
        /\ \/ /\ f = out[1] /\ 1 \in DOMAIN out /\ out # <<>>
              /\ out' = Tail(out) /\ out' \in Seq(Out) /\ flush' = flush
           \/ /\ f = flush[1] /\ 1 \in DOMAIN flush /\ flush # <<>>
              /\ flush' = Tail(flush) /\ flush' \in Seq(Out) /\ out' = out
  BY FrameStep
<1>2. InOutbox(f)
  BY <1>1 DEF InOutbox, Holds
<1>3. done' \in Seq(Out) /\ \A g : Holds(done', g) => g = f \/ Holds(done, g)
  <2>1. /\ Handled(f) \in Seq(Out)
        /\ \A i \in DOMAIN Handled(f) : Handled(f)[i] = f \/ \E k \in DOMAIN done : Handled(f)[i] = done[k]
    BY LoggedHolds
  <2> QED
    BY <1>1, <2>1 DEF Holds
<1>4. ASSUME NEW q \in Seq(Out), q # <<>>, NEW g, Holds(Tail(q), g) PROVE Holds(q, g)
  <2>1. PICK z : z = Tail(q)
    OBVIOUS
  <2>2. \A i \in DOMAIN z : i + 1 \in DOMAIN q /\ z[i] = q[i + 1]
    BY <1>4, <2>1, QueueOps
  <2>3. PICK i \in DOMAIN z : z[i] = g
    BY <1>4, <2>1 DEF Holds
  <2> QED
    BY <2>2, <2>3 DEF Holds
<1>5. ASSUME NEW g, InOutbox(g)' PROVE InOutbox(g)
  <2>1. Holds(out', g) \/ Holds(flush', g) \/ Holds(done', g)
    BY <1>5 DEF InOutbox, Holds
  <2>2. CASE Holds(done', g)
    BY <1>2, <1>3, <2>2 DEF InOutbox
  <2>3. CASE Holds(out', g)
    <3>1. CASE out' = out
      BY <2>3, <3>1 DEF InOutbox
    <3>2. CASE out # <<>> /\ out' = Tail(out)
      <4>1. Holds(Tail(out), g)
        BY <2>3, <3>2
      <4>2. Holds(out, g)
        BY <1>0, <1>4, <3>2, <4>1
      <4> QED
        BY <4>2 DEF InOutbox
    <3> QED
      BY <1>1, <3>1, <3>2
  <2>4. CASE Holds(flush', g)
    <3>1. CASE flush' = flush
      BY <2>4, <3>1 DEF InOutbox
    <3>2. CASE flush # <<>> /\ flush' = Tail(flush)
      <4>1. Holds(Tail(flush), g)
        BY <2>4, <3>2
      <4>2. Holds(flush, g)
        BY <1>0, <1>4, <3>2, <4>1
      <4> QED
        BY <4>2 DEF InOutbox
    <3> QED
      BY <1>1, <3>1, <3>2
  <2> QED
    BY <2>1, <2>2, <2>3, <2>4
<1> QED
  BY <1>0, <1>1, <1>3, <1>5 DEF Framed

LEMMA DropFrames ==
  ASSUME Types, Drop
  PROVE  Framed
<1>1. /\ flush' \in Seq(Out) /\ out' = <<>> /\ done' = <<>>
      /\ \A i \in DOMAIN flush' : \E q \in {out, flush, done} : \E k \in DOMAIN q : flush'[i] = q[k]
  BY DropHolds
<1>2. <<>> \in Seq(Out) /\ DOMAIN <<>> = {}
  BY EmptySeq
<1>3. ASSUME NEW g, InOutbox(g)' PROVE InOutbox(g)
  <2>1. PICK i \in DOMAIN flush' : flush'[i] = g
    BY <1>1, <1>2, <1>3 DEF InOutbox, Holds
  <2>2. PICK q \in {out, flush, done} : \E k \in DOMAIN q : flush'[i] = q[k]
    BY <1>1, <2>1
  <2> QED
    BY <2>1, <2>2 DEF InOutbox, Holds
<1> QED
  BY <1>1, <1>2, <1>3 DEF Framed

LEMMA FramesHold ==
  ASSUME Types, Opened, Next
  PROVE  Framed
<1>1. ASSUME NEW j \in Jobs, PullSend(j) PROVE Framed
  <2>1. Frame(j) \in Out /\ Frame(j).type \in {"begin", "chunk", "end"}
    BY <1>1, FrameNext DEF PullSend
  <2>2. Sent(Frame(j)) /\ done' = done
    BY <1>1 DEF PullSend
  <2>3. Truthful(Frame(j), history'.placed, job')
    BY <2>1 DEF Truthful
  <2> QED
    BY <2>1, <2>2, <2>3, SentIsFramed
<1>2. ASSUME NEW j \in Jobs, Result(j) PROVE Framed
  <2>1. PICK r : r = [type |-> "result", job |-> j]
    OBVIOUS
  <2>2. r \in Out /\ r.type = "result" /\ r.job = j
    BY <2>1, FrameKinds
  <2>3. Sent(r) /\ done' = done /\ job' = [job EXCEPT ![j] = "finished"]
    BY <1>2, <2>1 DEF Result
  <2>4. Truthful(r, history'.placed, job')
    BY <2>2, <2>3 DEF Truthful, Types
  <2> QED
    BY <2>2, <2>3, <2>4, SentIsFramed
<1>3. ASSUME NEW j \in Jobs,
             Submit(j) \/ DequeueNext(j) \/ SendEnd(j) \/ Dispatch(j) \/ PullFails(j) \/ PullTimesOut(j)
      PROVE  Framed
  BY <1>3, NothingSent DEF Submit, DequeueNext, SendEnd, Dispatch, PullFails, PullTimesOut, toGateway
<1>4. ASSUME NEW j \in Jobs, NEW i \in Chunks, SendChunk(j, i)
      PROVE  Framed
  BY <1>4, NothingSent DEF SendChunk, toGateway
<1>5. ASSUME NEW f \in Files, Upload(f) \/ DeleteFile(f)
      PROVE  Framed
  BY <1>5, NothingSent DEF Upload, DeleteFile, toGateway
<1>6. CASE CleanupStaged \/ Reconnect
  BY <1>6, NothingSent DEF CleanupStaged, Reconnect, toGateway
<1> QED
  BY <1>1, <1>2, <1>3, <1>4, <1>5, <1>6, DeviceFrames, GatewayFrames, DropFrames DEF Next

\* what was placed stays so, and only the device places
LEMMA HistoryHolds ==
  ASSUME Types, Next
  PROVE  /\ history' \in History /\ history.placed \subseteq history'.placed
         /\ history.lost => history'.lost
<1>0. history \in History
  BY DEF Types
<1>1. CASE history' = history
  BY <1>0, <1>1
<1>2. CASE DeviceReads
  <2>1. PICK d \in Down :
          /\ d.job \in Jobs
          /\ HandleBegin(d.job) \/ HandleChunk(Input[d.job], d.i) \/ HandleEnd(Input[d.job]) \/ HandleDispatch(d.job)
    BY <1>2, DeviceStep
  <2>2. Input[d.job] \in Files
    BY <2>1, FileTransferConstantsOK
  <2>3. history' = history \/ history' = [history EXCEPT !.placed = history.placed \cup {Input[d.job]}]
    BY <2>1 DEF HandleBegin, HandleChunk, HandleEnd, HandleDispatch
  <2> QED
    BY <1>0, <2>2, <2>3 DEF History
<1>3. CASE GatewayReads
  <2>1. PICK f \in Out : Handle(f)
    BY <1>3, FrameStep
  <2>2. CASE f.type = "begin"
    <3>1. f.job \in Jobs /\ history' = [history EXCEPT !.begins[f.job] = history.begins[f.job] + 1]
      BY <2>1, <2>2, FrameKinds DEF Handle, OnFilePullBegin
    <3>2. history.begins[f.job] + 1 \in Nat
      BY <1>0, <3>1 DEF History
    <3> QED
      BY <1>0, <3>1, <3>2 DEF History
  <2>3. CASE f.type # "begin"
    BY <1>1, <2>1, <2>3 DEF Handle, OnFileAck, OnJobResult, OnFilePullChunk, OnFilePullEnd
  <2> QED
    BY <2>2, <2>3
<1>4. CASE Drop
  BY <1>0, <1>4 DEF Drop, History
<1>5. ASSUME NEW j \in Jobs,
             \/ Submit(j) \/ DequeueNext(j) \/ SendEnd(j) \/ Dispatch(j)
             \/ PullSend(j) \/ PullFails(j) \/ PullTimesOut(j) \/ Result(j)
      PROVE  history' = history
  BY <1>5 DEF Submit, DequeueNext, SendEnd, Dispatch, PullSend, PullFails, PullTimesOut, Result
<1>6. ASSUME NEW j \in Jobs, NEW i \in Chunks, SendChunk(j, i)
      PROVE  history' = history
  BY <1>6 DEF SendChunk
<1>7. ASSUME NEW f \in Files, Upload(f) \/ DeleteFile(f)
      PROVE  history' = history
  BY <1>7 DEF Upload, DeleteFile
<1>8. CASE CleanupStaged \/ Reconnect
  BY <1>1, <1>8 DEF CleanupStaged, Reconnect
<1> QED
  BY <1>1, <1>2, <1>3, <1>4, <1>5, <1>6, <1>7, <1>8 DEF Next

LEMMA ToldHolds ==
  ASSUME Types, Opened, Pushing, Dispatched, Told, Next
  PROVE  Told'
<1>1. Framed
  BY FramesHold
<1>2. history.placed \subseteq history'.placed /\ \A j \in Jobs : Wiped(j) => Wiped(j)'
  BY HistoryHolds, JobKept
<1>3. ASSUME NEW f, InOutbox(f) PROVE Truthful(f, history'.placed, job')
  <2>1. Truthful(f, history.placed, job) /\ f \in Out
    <3>1. PICK q \in {out, flush, done} : \E i \in DOMAIN q : q[i] = f
      BY <1>3 DEF InOutbox, Holds
    <3>2. q \in Seq(Out)
      BY DEF Types
    <3> QED
      BY <3>1, <3>2, QueueOps DEF Told
  <2> QED
    BY <1>2, <2>1, FrameKinds DEF Truthful, Wiped
<1>4. ASSUME NEW q \in {out', flush', done'}, NEW i \in DOMAIN q
      PROVE  Truthful(q[i], history'.placed, job')
  <2>1. PICK f : f = q[i]
    OBVIOUS
  <2>2. InOutbox(f)'
    BY <2>1 DEF InOutbox, Holds
  <2> QED
    BY <1>1, <1>3, <2>1, <2>2 DEF Framed
<1> QED
  BY <1>4 DEF Told

-----------------------------------------------------------------------------
(* Inputs                                                                  *)

\* A file's row becomes staged_device only on an answer that says so.
LEMMA PlacedHolds ==
  ASSUME Types, Told, Placed, Next
  PROVE  Placed'
<1>0. file \in [Files -> File] /\ history.placed \subseteq history'.placed /\ Input \in [Jobs -> Files]
  BY HistoryHolds, FileTransferConstantsOK DEF Types
<1>a. ASSUME \A f \in Files : file'[f].status = "staged_device" =>
               file[f].status = "staged_device" \/ f \in history.placed
      PROVE  Placed'
  BY <1>0, <1>a DEF Placed
<1>1. CASE file' = file
  BY <1>1, <1>a
<1>2. ASSUME NEW f \in Files, Upload(f) \/ DeleteFile(f)
      PROVE  Placed'
  BY <1>0, <1>2, <1>a DEF Upload, DeleteFile, File
<1>3. CASE CleanupStaged
  BY <1>0, <1>3, <1>a DEF CleanupStaged
<1>4. CASE GatewayReads
  <2>1. PICK f \in Out : Handle(f) /\ Truthful(f, history.placed, job)
    BY <1>4, FrameTruthful
  <2>2. CASE f.type = "ack"
    <3>1. f.file \in Files /\ f.ok \in BOOLEAN /\ OnFileAck(f.file, f.ok)
      BY <2>1, <2>2, FrameKinds DEF Handle
    <3>2. CASE f.ok
      <4>1. file' = [file EXCEPT ![f.file].status = "staged_device"] /\ f.file \in history.placed
        BY <2>1, <2>2, <3>1, <3>2 DEF OnFileAck, Truthful
      <4> QED
        BY <1>0, <1>a, <3>1, <4>1
    <3>3. CASE ~f.ok
      BY <1>1, <3>1, <3>3 DEF OnFileAck
    <3> QED
      BY <3>1, <3>2, <3>3
  <2>3. CASE f.type = "result"
    <3>1. f.job \in Jobs /\ file' = [file EXCEPT ![Input[f.job]] = [status |-> "purged", disk |-> FALSE]]
      BY <2>1, <2>3, FrameKinds DEF Handle, OnJobResult, CleanupJobFiles
    <3> QED
      BY <1>0, <1>a, <3>1
  <2>4. CASE f.type \notin {"ack", "result"}
    BY <1>1, <2>1, <2>4 DEF Handle
  <2> QED
    BY <2>2, <2>3, <2>4
<1>5. ASSUME NEW j \in Jobs,
             \/ Submit(j) \/ DequeueNext(j) \/ SendEnd(j) \/ Dispatch(j)
             \/ PullSend(j) \/ PullFails(j) \/ PullTimesOut(j) \/ Result(j)
      PROVE  file' = file
  BY <1>5 DEF Submit, DequeueNext, SendEnd, Dispatch, PullSend, PullFails, PullTimesOut, Result, gateway
<1>6. ASSUME NEW j \in Jobs, NEW i \in Chunks, SendChunk(j, i)
      PROVE  file' = file
  BY <1>6 DEF SendChunk
<1>7. CASE DeviceReads \/ Drop \/ Reconnect
  BY <1>1, <1>7 DEF DeviceReads, Drop, Reconnect, gateway
<1> QED
  BY <1>1, <1>2, <1>3, <1>4, <1>5, <1>6, <1>7 DEF Next

LEMMA OpenedHolds ==
  ASSUME Types, Opened, Pushing, Dispatched, Told, Next
  PROVE  Opened'
<1>0. /\ buf \in [Files -> Buffer] /\ inputs \in [Jobs -> Seq(Chunks)] /\ Input \in [Jobs -> Files]
      /\ NoJob \notin Jobs
      /\ \A j \in Jobs : Wiped(j) => job'[j] \in {"finished", "over"}
  <2>1. \A j \in Jobs : Wiped(j) => Wiped(j)'
    BY JobKept
  <2> QED
    BY <2>1, FileTransferConstantsOK DEF Types, Wiped
<1>a. ASSUME UNCHANGED <<buf, inputs>> PROVE Opened'
  BY <1>0, <1>a DEF Opened, Wiped
<1>1. CASE DeviceReads
  <2>1. PICK d \in Down :
          /\ d.job \in Jobs
          /\ \/ d.type = "begin"    /\ HandleBegin(d.job)
             \/ d.type = "chunk"    /\ d.i \in Chunks /\ HandleChunk(Input[d.job], d.i)
             \/ d.type = "end"      /\ HandleEnd(Input[d.job])
             \/ d.type = "dispatch" /\ HandleDispatch(d.job)
    BY <1>1, DeviceStep
  <2>2. PICK f \in Files : f = Input[d.job]
    BY <1>0, <2>1
  <2>3. CASE d.type = "begin"
    <3>1. PICK b : b = [job |-> d.job, got |-> <<>>]
      OBVIOUS
    <3>2. buf' = [buf EXCEPT ![f] = b] /\ inputs' = [inputs EXCEPT ![d.job] = <<>>]
      BY <2>1, <2>2, <2>3, <3>1 DEF HandleBegin
    <3>3. ASSUME NEW g \in Files, buf'[g] # NoBuf
          PROVE  /\ buf'[g].job \in Jobs /\ Input[buf'[g].job] = g
                 /\ inputs'[buf'[g].job] = buf'[g].got \/ job'[buf'[g].job] \in {"finished", "over"}
      <4>1. CASE g = f
        <5>1. buf'[g] = b /\ inputs'[d.job] = <<>> /\ b.job = d.job /\ b.got = <<>>
          BY <1>0, <2>1, <3>1, <3>2, <4>1
        <5> QED
          BY <2>1, <2>2, <4>1, <5>1
      <4>2. CASE g # f
        <5>1. buf'[g] = buf[g]
          BY <1>0, <3>2, <4>2
        <5>2. /\ buf[g].job \in Jobs /\ Input[buf[g].job] = g
              /\ inputs[buf[g].job] = buf[g].got \/ Wiped(buf[g].job)
          BY <3>3, <5>1 DEF Opened
        <5>3. buf[g].job # d.job
          BY <2>2, <4>2, <5>2
        <5>4. inputs'[buf[g].job] = inputs[buf[g].job]
          BY <1>0, <3>2, <5>2, <5>3
        <5> QED
          BY <1>0, <5>1, <5>2, <5>4
      <4> QED
        BY <4>1, <4>2
    <3> QED
      BY <3>3 DEF Opened, Wiped
  <2>4. CASE d.type = "chunk" /\ buf[f] # NoBuf
    <3>1. PICK b : b = buf[f]
      OBVIOUS
    <3>2. b.job \in Jobs /\ Input[b.job] = f /\ (inputs[b.job] = b.got \/ Wiped(b.job))
      BY <2>4, <3>1 DEF Opened
    <3>3. PICK g : g = Append(b.got, d.i)
      OBVIOUS
    <3>4. buf' = [buf EXCEPT ![f].got = g] /\ job' = job
          /\ inputs' = IF Wiped(b.job) THEN inputs ELSE [inputs EXCEPT ![b.job] = g]
      BY <2>1, <2>2, <2>4, <3>1, <3>3 DEF HandleChunk
    <3>5. buf'[f].job = b.job /\ buf'[f].got = g /\ \A h \in Files \ {f} : buf'[h] = buf[h]
      BY <1>0, <3>1, <3>4 DEF Buffer
    <3>6. ASSUME NEW h \in Files, buf'[h] # NoBuf
          PROVE  /\ buf'[h].job \in Jobs /\ Input[buf'[h].job] = h
                 /\ inputs'[buf'[h].job] = buf'[h].got \/ job'[buf'[h].job] \in {"finished", "over"}
      <4>1. CASE h = f
        <5>1. Wiped(b.job) \/ inputs'[b.job] = g
          BY <1>0, <3>2, <3>4
        <5> QED
          BY <1>0, <3>2, <3>5, <4>1, <5>1
      <4>2. CASE h # f
        <5>1. buf'[h] = buf[h]
          BY <3>5, <4>2
        <5>2. /\ buf[h].job \in Jobs /\ Input[buf[h].job] = h
              /\ inputs[buf[h].job] = buf[h].got \/ Wiped(buf[h].job)
          BY <3>6, <5>1 DEF Opened
        <5>3. buf[h].job # b.job
          BY <3>2, <4>2, <5>2
        <5>4. inputs'[buf[h].job] = inputs[buf[h].job]
          BY <1>0, <3>4, <5>2, <5>3
        <5> QED
          BY <1>0, <5>1, <5>2, <5>4
      <4> QED
        BY <4>1, <4>2
    <3> QED
      BY <3>6 DEF Opened, Wiped
  <2>5. CASE d.type = "chunk" /\ buf[f] = NoBuf
    BY <1>a, <2>1, <2>2, <2>5 DEF HandleChunk
  <2>6. CASE d.type = "end"
    <3>1. buf' = [buf EXCEPT ![f] = NoBuf] /\ inputs' = inputs
      BY <2>1, <2>2, <2>6 DEF HandleEnd
    <3>2. ASSUME NEW h \in Files, buf'[h] # NoBuf PROVE buf'[h] = buf[h]
      BY <1>0, <3>1, <3>2
    <3> QED
      BY <1>0, <3>1, <3>2 DEF Opened, Wiped
  <2>7. CASE d.type = "dispatch"
    BY <1>a, <2>1, <2>7 DEF HandleDispatch
  <2> QED
    BY <2>1, <2>3, <2>4, <2>5, <2>6, <2>7
<1>2. ASSUME NEW j \in Jobs, Result(j) PROVE Opened'
  <2>1. buf' = buf /\ inputs' = [inputs EXCEPT ![j] = <<>>] /\ job'[j] = "finished"
    BY <1>2 DEF Result, Types
  <2>2. ASSUME NEW f \in Files, buf'[f] # NoBuf
        PROVE  /\ buf'[f].job \in Jobs /\ Input[buf'[f].job] = f
               /\ inputs'[buf'[f].job] = buf'[f].got \/ job'[buf'[f].job] \in {"finished", "over"}
    <3>1. PICK b : b = buf[f]
      OBVIOUS
    <3>2. b.job \in Jobs /\ Input[b.job] = f /\ (inputs[b.job] = b.got \/ Wiped(b.job)) /\ buf'[f] = b
      BY <2>1, <2>2, <3>1 DEF Opened
    <3>3. CASE b.job = j
      BY <2>1, <3>2, <3>3
    <3>4. CASE b.job # j
      <4>1. inputs'[b.job] = inputs[b.job]
        BY <1>0, <2>1, <3>2, <3>4
      <4> QED
        BY <1>0, <3>2, <4>1
    <3> QED
      BY <3>3, <3>4
  <2> QED
    BY <2>2 DEF Opened, Wiped
<1>3. ASSUME NEW j \in Jobs,
             Submit(j) \/ DequeueNext(j) \/ SendEnd(j) \/ Dispatch(j) \/ PullSend(j) \/ PullFails(j) \/ PullTimesOut(j)
      PROVE  buf' = buf /\ inputs' = inputs
  BY <1>3 DEF Submit, DequeueNext, SendEnd, Dispatch, PullSend, PullFails, PullTimesOut, device
<1>4. ASSUME NEW j \in Jobs, NEW i \in Chunks, SendChunk(j, i)
      PROVE  buf' = buf /\ inputs' = inputs
  BY <1>4 DEF SendChunk, device
<1>5. ASSUME NEW f \in Files, Upload(f) \/ DeleteFile(f)
      PROVE  buf' = buf /\ inputs' = inputs
  BY <1>5 DEF Upload, DeleteFile, device
<1>6. CASE CleanupStaged \/ Drop \/ Reconnect \/ GatewayReads
  BY <1>6, <1>a DEF CleanupStaged, Drop, Reconnect, GatewayReads, device
<1> QED
  BY <1>a, <1>1, <1>2, <1>3, <1>4, <1>5, <1>6 DEF Next

LEMMA PushingHolds ==
  ASSUME Types, Pushing, Dispatched, Told, Next
  PROVE  Pushing'
<1>0. job \in [Jobs -> Progress] /\ push \in [Jobs -> SUBSET Chunks]
  BY DEF Types
<1>1. ASSUME NEW j \in Jobs, Submit(j)
      PROVE  Pushing'
  <2>1. job[j] = "new" /\ push[j] = {}
    BY <1>1 DEF Submit, Submitted, Pushing
  <2>2. \/ job' = [job EXCEPT ![j] = "pushed"] /\ push' = push
        \/ job' = [job EXCEPT ![j] = "pushing"] /\ push' = [push EXCEPT ![j] = Chunks]
    BY <1>1 DEF Submit, PushFile
  <2> QED
    BY <1>0, <2>1, <2>2 DEF Pushing
<1>2. ASSUME NEW j \in Jobs, NEW i \in Chunks, SendChunk(j, i)
      PROVE  Pushing'
  <2>1. push' = [push EXCEPT ![j] = push[j] \ {i}] /\ job[j] \in {"pushing", "failing"}
    BY <1>2 DEF SendChunk, Pushing
  <2>2. job' = job \/ job' = [job EXCEPT ![j] = "failing"]
    BY <1>2 DEF SendChunk
  <2> QED
    BY <1>0, <2>1, <2>2 DEF Pushing
<1>3. ASSUME NEW j \in Jobs, SendEnd(j)
      PROVE  Pushing'
  BY <1>0, <1>3 DEF SendEnd, Pushing, gateway
<1>4. ASSUME push' = push, NEW j \in Jobs, NEW new \in Progress,
             job' = [job EXCEPT ![j] = new], job[j] \notin {"pushing", "failing"}
      PROVE  Pushing'
  BY <1>0, <1>4 DEF Pushing
<1>5. ASSUME push' = push, job' = job PROVE Pushing'
  BY <1>5 DEF Pushing
<1>6. ASSUME NEW j \in Jobs, DequeueNext(j) \/ Dispatch(j) \/ Result(j)
      PROVE  Pushing'
  BY <1>4, <1>6 DEF DequeueNext, Submitted, Dispatch, Result, gateway, Progress
<1>7. ASSUME NEW j \in Jobs, PullSend(j) \/ PullFails(j) \/ PullTimesOut(j)
      PROVE  Pushing'
  BY <1>5, <1>7 DEF PullSend, PullFails, PullTimesOut, gateway
<1>8. CASE DeviceReads \/ GatewayReads
  <2>1. push' = push
    BY <1>8 DEF DeviceReads, GatewayReads, gateway
  <2>2. job' = job \/ \E j \in Jobs : \E new \in Progress : Move(j, new)
    BY JobSteps
  <2>3. CASE job' = job
    BY <1>5, <2>1, <2>3
  <2>4. ASSUME NEW j \in Jobs, NEW new \in Progress, Move(j, new), push[j] # {}
        PROVE  job' = job
    <3>1. CASE DeviceReads
      <4>1. PICK d \in Down :
              /\ d = down[1] /\ 1 \in DOMAIN down /\ d.job \in Jobs
              /\ \/ d.type = "begin"    /\ HandleBegin(d.job)
                 \/ d.type = "chunk"    /\ HandleChunk(Input[d.job], d.i)
                 \/ d.type = "end"      /\ HandleEnd(Input[d.job])
                 \/ d.type = "dispatch" /\ HandleDispatch(d.job)
        BY <3>1, DeviceStep
      <4>2. CASE d.type = "dispatch"
        <5>1. /\ job[d.job] = "dispatched"
              /\ \E to \in {"started", "stuck"} : job' = [job EXCEPT ![d.job] = to]
          BY <4>1, <4>2 DEF Dispatched, IsDispatch, HandleDispatch
        <5>2. job[j] \in {"pushing", "failing"}
          BY <2>4 DEF Pushing
        <5>3. job'[j] = job[j]
          BY <1>0, <4>1, <5>1, <5>2
        <5>4. job' = [job EXCEPT ![j] = new]
          BY <2>4 DEF Move
        <5> QED
          BY <1>0, <5>3, <5>4
      <4>3. CASE d.type # "dispatch"
        BY <4>1, <4>3 DEF HandleBegin, HandleChunk, HandleEnd
      <4> QED
        BY <4>2, <4>3
    <3>2. CASE GatewayReads
      <4>1. PICK f \in Out : Handle(f) /\ Truthful(f, history.placed, job)
        BY <3>2, FrameTruthful
      <4>2. CASE f.type = "result"
        <5>1. f.job \in Jobs /\ job[f.job] \in {"finished", "over"} /\ job' = [job EXCEPT ![f.job] = "over"]
          BY <4>1, <4>2, FrameKinds DEF Truthful, Handle, OnJobResult
        <5>2. job[j] \in {"pushing", "failing"}
          BY <2>4 DEF Pushing
        <5>3. job'[j] = job[j]
          BY <1>0, <5>1, <5>2
        <5>4. job' = [job EXCEPT ![j] = new]
          BY <2>4 DEF Move
        <5> QED
          BY <1>0, <5>3, <5>4
      <4>3. CASE f.type # "result"
        BY <4>1, <4>3 DEF Handle, OnFileAck
      <4> QED
        BY <4>2, <4>3
    <3> QED
      BY <1>8, <3>1, <3>2
  <2>5. ASSUME NEW j \in Jobs, NEW new \in Progress, Move(j, new), push[j] = {}
        PROVE  Pushing'
    BY <1>0, <2>1, <2>5 DEF Move, Pushing
  <2> QED
    BY <2>2, <2>3, <2>4, <2>5
<1>9. CASE CleanupStaged \/ Drop \/ Reconnect
  BY <1>5, <1>9 DEF CleanupStaged, Drop, Reconnect, gateway
<1>10. ASSUME NEW f \in Files, Upload(f) \/ DeleteFile(f)
       PROVE  Pushing'
  BY <1>5, <1>10 DEF Upload, DeleteFile
<1> QED
  BY <1>1, <1>2, <1>3, <1>6, <1>7, <1>8, <1>9, <1>10 DEF Next

-----------------------------------------------------------------------------
(* One frame dispatches a job                                              *)

Unique(q, j) == \A i, k \in DOMAIN q : IsDispatch(q[i], j) /\ IsDispatch(q[k], j) => k = i
Lists(q, j)  == \E i \in DOMAIN q : IsDispatch(q[i], j)

LEMMA DispatchedAgain ==
  Dispatched <=> \A j \in Jobs : Unique(down, j) /\ (Lists(down, j) => job[j] = "dispatched")
  BY DEF Dispatched, Unique, Lists

LEMMA DispatchedGrows ==
  ASSUME Types, Dispatched, NEW d \in Down, down' = Append(down, d), NEW j \in Jobs
  PROVE  /\ ~IsDispatch(d, j) => Unique(down', j) /\ (Lists(down', j) => Lists(down, j))
         /\ ~Lists(down, j) => Unique(down', j)
<1>1. /\ DOMAIN down' = DOMAIN down \cup {Len(down) + 1}
      /\ \A i \in DOMAIN down : down'[i] = down[i]
      /\ down'[Len(down) + 1] = d
  BY QueueOps DEF Types
<1>2. Unique(down, j)
  BY DispatchedAgain
<1> QED
  BY <1>1, <1>2 DEF Unique, Lists

LEMMA DispatchedShrinks ==
  ASSUME Types, Dispatched, down # <<>>, down' = Tail(down), NEW j \in Jobs
  PROVE  /\ Unique(down', j) /\ (Lists(down', j) => Lists(down, j))
         /\ IsDispatch(down[1], j) => ~Lists(down', j)
<1>1. \A i \in DOMAIN down' : i \in Nat /\ i + 1 \in DOMAIN down /\ i + 1 # 1 /\ down'[i] = down[i + 1]
  BY QueueOps DEF Types
<1>2. Unique(down, j) /\ 1 \in DOMAIN down
  BY DispatchedAgain, QueueOps DEF Types
<1>3. ASSUME NEW i \in DOMAIN down', NEW k \in DOMAIN down',
             IsDispatch(down'[i], j), IsDispatch(down'[k], j)
      PROVE  k = i
  <2>1. i \in Nat /\ k \in Nat /\ i + 1 = k + 1
    BY <1>1, <1>2, <1>3 DEF Unique
  <2> QED
    BY <2>1
<1>4. Lists(down', j) => Lists(down, j)
  BY <1>1 DEF Lists
<1>5. IsDispatch(down[1], j) => ~Lists(down', j)
  BY <1>1, <1>2 DEF Lists, Unique
<1> QED
  BY <1>3, <1>4, <1>5 DEF Unique

LEMMA DispatchedHolds ==
  ASSUME Types, Pushing, Dispatched, Told, Next
  PROVE  Dispatched'
<1>0. /\ job \in [Jobs -> Progress] /\ job' \in [Jobs -> Progress]
      /\ \A j \in Jobs : Unique(down, j) /\ (Lists(down, j) => job[j] = "dispatched")
  BY DispatchedAgain, JobKept DEF Types
<1>a. ASSUME \A j \in Jobs : Unique(down', j) /\ (Lists(down', j) => job'[j] = "dispatched")
      PROVE  Dispatched'
  BY <1>a DEF Dispatched, Unique, Lists
<1>b. ASSUME down' = down, \A j \in Jobs : job[j] = "dispatched" => job'[j] = "dispatched"
      PROVE  Dispatched'
  BY <1>0, <1>a, <1>b
<1>c. ASSUME NEW d \in Down, d.type # "dispatch", down' = Append(down, d),
             \A j \in Jobs : job[j] = "dispatched" => job'[j] = "dispatched"
      PROVE  Dispatched'
  <2>1. \A j \in Jobs : ~IsDispatch(d, j)
    BY <1>c DEF IsDispatch
  <2> QED
    BY <1>0, <1>a, <1>c, <2>1, DispatchedGrows
<1>1. ASSUME NEW j \in Jobs, Submit(j) PROVE Dispatched'
  <2>1. PICK d : d = [type |-> "begin", job |-> j]
    OBVIOUS
  <2>2. d \in Down /\ d.type # "dispatch"
    BY <2>1, FrameKinds
  <2>3. down' = down \/ down' = Append(down, d)
    BY <1>1, <2>1 DEF Submit, PushFile
  <2>4. job[j] = "new" /\ \E new \in Progress : job' = [job EXCEPT ![j] = new]
    BY <1>1 DEF Submit, Submitted, PushFile, Progress
  <2>5. \A i \in Jobs : job[i] = "dispatched" => job'[i] = "dispatched"
    BY <1>0, <2>4
  <2> QED
    BY <1>b, <1>c, <2>2, <2>3, <2>5
<1>2. ASSUME NEW j \in Jobs, NEW i \in Chunks, SendChunk(j, i) PROVE Dispatched'
  <2>1. PICK d : d = [type |-> "chunk", job |-> j, i |-> i]
    OBVIOUS
  <2>2. d \in Down /\ d.type # "dispatch"
    BY <2>1, FrameKinds
  <2>3. down' = down \/ down' = Append(down, d)
    BY <1>2, <2>1 DEF SendChunk, Refused
  <2>4. job[j] \in {"pushing", "failing"} /\ (job' = job \/ job' = [job EXCEPT ![j] = "failing"])
    BY <1>2 DEF SendChunk, Pushing
  <2>5. \A k \in Jobs : job[k] = "dispatched" => job'[k] = "dispatched"
    BY <1>0, <2>4
  <2> QED
    BY <1>b, <1>c, <2>2, <2>3, <2>5
<1>3. ASSUME NEW j \in Jobs, SendEnd(j) PROVE Dispatched'
  <2>1. PICK d : d = [type |-> "end", job |-> j]
    OBVIOUS
  <2>2. d \in Down /\ d.type # "dispatch"
    BY <2>1, FrameKinds
  <2>3. down' = down \/ down' = Append(down, d)
    BY <1>3, <2>1 DEF SendEnd, Refused
  <2>4. job[j] \in {"pushing", "failing"} /\ job' = [job EXCEPT ![j] = "pushed"]
    BY <1>3 DEF SendEnd
  <2>5. \A k \in Jobs : job[k] = "dispatched" => job'[k] = "dispatched"
    BY <1>0, <2>4
  <2> QED
    BY <1>b, <1>c, <2>2, <2>3, <2>5
<1>4. ASSUME NEW j \in Jobs, Dispatch(j) PROVE Dispatched'
  <2>1. PICK d : d = [type |-> "dispatch", job |-> j]
    OBVIOUS
  <2>2. d \in Down /\ d.type = "dispatch" /\ d.job = j
    BY <2>1, FrameKinds
  <2>3. job[j] = "pushed" /\ job' = [job EXCEPT ![j] = "dispatched"] /\ down' = Append(down, d)
    BY <1>4, <2>1 DEF Dispatch
  <2>4. ~Lists(down, j)
    BY <1>0, <2>3
  <2>5. Unique(down', j) /\ job'[j] = "dispatched"
    BY <1>0, <2>2, <2>3, <2>4, DispatchedGrows
  <2>6. ASSUME NEW k \in Jobs, k # j
        PROVE  Unique(down', k) /\ (Lists(down', k) => job'[k] = "dispatched")
    <3>1. ~IsDispatch(d, k)
      BY <2>2, <2>6 DEF IsDispatch
    <3>2. job'[k] = job[k]
      BY <1>0, <2>3, <2>6
    <3> QED
      BY <1>0, <2>2, <2>3, <3>1, <3>2, DispatchedGrows
  <2> QED
    BY <1>a, <2>5, <2>6
<1>5. ASSUME NEW j \in Jobs,
             DequeueNext(j) \/ PullSend(j) \/ PullFails(j) \/ PullTimesOut(j) \/ Result(j)
      PROVE  Dispatched'
  <2>1. down' = down
    BY <1>5 DEF DequeueNext, PullSend, PullFails, PullTimesOut, Result
  <2>2. \/ job' = job
        \/ job[j] = "new" /\ job' = [job EXCEPT ![j] = "pushed"]
        \/ job[j] = "started" /\ job' = [job EXCEPT ![j] = "finished"]
    BY <1>5 DEF DequeueNext, Submitted, PullSend, PullFails, PullTimesOut, Result
  <2> QED
    BY <1>0, <1>b, <2>1, <2>2
<1>6. ASSUME NEW f \in Files, Upload(f) \/ DeleteFile(f)
      PROVE  Dispatched'
  BY <1>6, <1>b DEF Upload, DeleteFile
<1>7. CASE CleanupStaged \/ Reconnect
  BY <1>7, <1>b DEF CleanupStaged, Reconnect
<1>8. CASE GatewayReads
  <2>1. PICK f \in Out : Handle(f) /\ Truthful(f, history.placed, job) /\ down' = down
    BY <1>8, FrameTruthful
  <2>2. CASE f.type = "result"
    <3>1. f.job \in Jobs /\ job[f.job] \in {"finished", "over"} /\ job' = [job EXCEPT ![f.job] = "over"]
      BY <2>1, <2>2, FrameKinds DEF Truthful, Handle, OnJobResult
    <3> QED
      BY <1>0, <1>b, <2>1, <3>1
  <2>3. CASE f.type # "result"
    BY <1>b, <2>1, <2>3 DEF Handle, OnFileAck
  <2> QED
    BY <2>2, <2>3
<1>9. CASE DeviceReads
  <2>1. PICK d \in Down :
          /\ d = down[1] /\ d.job \in Jobs
          /\ down' = Tail(down)
          /\ \/ d.type = "begin"    /\ HandleBegin(d.job)
             \/ d.type = "chunk"    /\ HandleChunk(Input[d.job], d.i)
             \/ d.type = "end"      /\ HandleEnd(Input[d.job])
             \/ d.type = "dispatch" /\ HandleDispatch(d.job)
    BY <1>9, DeviceStep
  <2>2. \A j \in Jobs : /\ Unique(down', j) /\ (Lists(down', j) => Lists(down, j))
                        /\ IsDispatch(down[1], j) => ~Lists(down', j)
    BY <1>9, <2>1, DispatchedShrinks DEF DeviceReads
  <2>3. CASE d.type = "dispatch"
    <3>1. IsDispatch(down[1], d.job) /\ \E to \in Progress : job' = [job EXCEPT ![d.job] = to]
      BY <2>1, <2>3 DEF IsDispatch, HandleDispatch, Progress
    <3>2. ~Lists(down', d.job)
      BY <2>1, <2>2, <3>1
    <3>3. \A j \in Jobs : j # d.job => job'[j] = job[j]
      BY <1>0, <3>1
    <3> QED
      BY <1>0, <1>a, <2>2, <3>2, <3>3
  <2>4. CASE d.type # "dispatch"
    <3>1. job' = job
      BY <2>1, <2>4 DEF HandleBegin, HandleChunk, HandleEnd
    <3> QED
      BY <1>0, <1>a, <2>2, <3>1
  <2> QED
    BY <2>3, <2>4
<1>10. CASE Drop
  <2>1. PICK from \in [DOMAIN down' -> DOMAIN down] :
          /\ \A i \in DOMAIN down' : down'[i] = down[from[i]]
          /\ \A i, k \in DOMAIN down' : from[i] = from[k] => i = k
    BY <1>10, DropHolds
  <2>2. job' = job
    BY <1>10 DEF Drop
  <2>3. ASSUME NEW j \in Jobs
        PROVE  Unique(down', j) /\ (Lists(down', j) => Lists(down, j))
    <3>1. Unique(down, j)
      BY <1>0
    <3>2. \A i \in DOMAIN down' : from[i] \in DOMAIN down
      BY <2>1
    <3>3. Unique(down', j)
      BY <2>1, <3>1, <3>2 DEF Unique
    <3>4. Lists(down', j) => Lists(down, j)
      BY <2>1, <3>2 DEF Lists
    <3> QED
      BY <3>3, <3>4
  <2> QED
    BY <1>0, <1>a, <2>2, <2>3
<1> QED
  BY <1>1, <1>2, <1>3, <1>4, <1>5, <1>6, <1>7, <1>8, <1>9, <1>10 DEF Next

-----------------------------------------------------------------------------
(* Outputs: registrations and attempts                                     *)

NoBuffer == [open |-> FALSE, got |-> {}]

\* What a frame of a job makes of its buffer g and its registrations r.
Buffers(f, g, r, g2, r2) ==
  \/ f.type = "begin" /\ g2 = [open |-> TRUE, got |-> {}] /\ r2 = r
  \/ /\ f.type = "chunk" /\ r2 = r
     /\ g2 = IF g.open THEN [open |-> TRUE, got |-> g.got \cup {f.i}] ELSE g
  \/ f.type = "end" /\ g2 = NoBuffer /\ r2 = IF Complete(g) THEN r + 1 ELSE r

LEMMA GatewayStep ==
  ASSUME Types, NEW f \in Out, Handle(f)
  PROVE  \/ /\ f.type \in {"ack", "result"} /\ UNCHANGED <<gbuf, rows, history>>
         \/ /\ f.job \in Jobs
            /\ \E g \in Pulled : \E r \in Nat :
                 /\ Buffers(f, gbuf[f.job], rows[f.job], g, r) /\ gbuf' = [gbuf EXCEPT ![f.job] = g]
                 /\ rows' = [rows EXCEPT ![f.job] = r]
                 /\ history' = IF f.type = "begin" THEN [history EXCEPT !.begins[f.job] = @ + 1] ELSE history
            /\ UNCHANGED <<file, job>>
<1>0. gbuf \in [Jobs -> Pulled] /\ rows \in [Jobs -> Nat]
  BY DEF Types
<1>1. CASE f.type \in {"ack", "result"}
  BY <1>1 DEF Handle, OnFileAck, OnJobResult
<1>2. CASE f.type \in {"begin", "chunk", "end"}
  <2>1. PICK j \in Jobs : j = f.job
    BY <1>2, FrameKinds
  <2>2. gbuf[j] \in Pulled /\ gbuf[j].open \in BOOLEAN /\ gbuf[j].got \subseteq Chunks /\ rows[j] \in Nat
    BY <1>0 DEF Pulled
  <2>3. [gbuf EXCEPT ![j] = gbuf[j]] = gbuf /\ [rows EXCEPT ![j] = rows[j]] = rows
    BY <1>0
  <2>4. CASE f.type = "begin"
    <3>1. PICK g : g = [open |-> TRUE, got |-> {}]
      OBVIOUS
    <3>2. g \in Pulled
      BY <3>1 DEF Pulled
    <3>3. /\ gbuf' = [gbuf EXCEPT ![j] = g] /\ rows' = rows /\ UNCHANGED <<file, job>>
          /\ history' = [history EXCEPT !.begins[j] = @ + 1]
      BY <2>1, <2>4, <3>1 DEF Handle, OnFilePullBegin
    <3>4. Buffers(f, gbuf[j], rows[j], g, rows[j])
      BY <2>1, <2>4, <3>1 DEF Buffers
    <3> QED
      BY <2>1, <2>2, <2>3, <2>4, <3>2, <3>3, <3>4
  <2>5. CASE f.type = "chunk"
    <3>1. PICK g : g = IF gbuf[j].open THEN [open |-> TRUE, got |-> gbuf[j].got \cup {f.i}] ELSE gbuf[j]
      OBVIOUS
    <3>2. g \in Pulled
      <4>1. f.i \in Chunks
        BY <2>5, FrameKinds
      <4>2. CASE gbuf[j].open
        <5>1. g = [open |-> TRUE, got |-> gbuf[j].got \cup {f.i}] /\ gbuf[j].got \cup {f.i} \in SUBSET Chunks
          BY <2>2, <3>1, <4>1, <4>2
        <5> QED
          BY <5>1 DEF Pulled
      <4>3. CASE ~gbuf[j].open
        BY <2>2, <3>1, <4>3
      <4> QED
        BY <4>2, <4>3
    <3>3. OnFilePullChunk(j, f.i) /\ UNCHANGED <<file, job>>
      BY <2>1, <2>5 DEF Handle
    <3>4. gbuf' = [gbuf EXCEPT ![j] = g]
      <4>1. CASE gbuf[j].open
        <5>1. gbuf' = [gbuf EXCEPT ![j].got = @ \cup {f.i}]
          BY <3>3, <4>1 DEF OnFilePullChunk
        <5>2. g = [gbuf[j] EXCEPT !.got = gbuf[j].got \cup {f.i}]
          <6>1. PICK b \in Pulled : b = gbuf[j] /\ b.open = TRUE
            BY <2>2, <4>1
          <6>2. PICK w : w = b.got \cup {f.i}
            OBVIOUS
          <6>3. [b EXCEPT !.got = w] = [open |-> b.open, got |-> w]
            BY DEF Pulled
          <6> QED
            BY <3>1, <4>1, <6>1, <6>2, <6>3
        <5> QED
          BY <1>0, <5>1, <5>2
      <4>2. CASE ~gbuf[j].open
        BY <2>3, <3>1, <3>3, <4>2 DEF OnFilePullChunk
      <4> QED
        BY <4>1, <4>2
    <3>5. rows' = rows /\ history' = history
      BY <3>3 DEF OnFilePullChunk
    <3>6. Buffers(f, gbuf[j], rows[j], g, rows[j])
      BY <2>1, <2>5, <3>1 DEF Buffers
    <3> QED
      BY <2>1, <2>2, <2>3, <2>5, <3>2, <3>3, <3>4, <3>5, <3>6
  <2>6. CASE f.type = "end"
    <3>1. PICK r : r = IF Complete(gbuf[j]) THEN rows[j] + 1 ELSE rows[j]
      OBVIOUS
    <3>2. r \in Nat /\ NoBuffer \in Pulled
      BY <2>2, <3>1 DEF NoBuffer, Pulled
    <3>3. OnFilePullEnd(j) /\ UNCHANGED <<file, job>>
      BY <2>1, <2>6 DEF Handle
    <3>4. gbuf' = [gbuf EXCEPT ![j] = NoBuffer] /\ history' = history
      BY <3>3 DEF OnFilePullEnd, NoBuffer
    <3>5. rows' = [rows EXCEPT ![j] = r]
      <4>1. CASE Complete(gbuf[j])
        <5>1. rows' = [rows EXCEPT ![j] = rows[j] + 1]
          BY <3>3, <4>1 DEF OnFilePullEnd, Registered
        <5> QED
          BY <3>1, <4>1, <5>1
      <4>2. CASE ~Complete(gbuf[j])
        BY <2>3, <3>1, <3>3, <4>2 DEF OnFilePullEnd
      <4> QED
        BY <4>1, <4>2
    <3>6. Buffers(f, gbuf[j], rows[j], NoBuffer, r)
      BY <2>1, <2>6, <3>1 DEF Buffers
    <3> QED
      BY <2>1, <2>6, <3>2, <3>3, <3>4, <3>5, <3>6
  <2> QED
    BY <1>2, <2>4, <2>5, <2>6
<1> QED
  BY <1>1, <1>2, FrameKinds

\* the gateway's buffers are written when it reads, and only then
LEMMA OnlyGatewayBuffers ==
  ASSUME Types, Next, ~GatewayReads
  PROVE  gbuf' = gbuf /\ rows' = rows /\ history'.begins = history.begins
<1>0. history \in History
  BY DEF Types
<1>1. ASSUME NEW j \in Jobs,
             \/ Submit(j) \/ DequeueNext(j) \/ SendEnd(j) \/ Dispatch(j)
             \/ PullSend(j) \/ PullFails(j) \/ PullTimesOut(j) \/ Result(j)
      PROVE  gbuf' = gbuf /\ rows' = rows /\ history' = history
  BY <1>1 DEF Submit, DequeueNext, SendEnd, Dispatch, PullSend, PullFails, PullTimesOut, Result, gateway
<1>2. ASSUME NEW j \in Jobs, NEW i \in Chunks, SendChunk(j, i)
      PROVE  gbuf' = gbuf /\ rows' = rows /\ history' = history
  BY <1>2 DEF SendChunk
<1>3. ASSUME NEW f \in Files, Upload(f) \/ DeleteFile(f)
      PROVE  gbuf' = gbuf /\ rows' = rows /\ history' = history
  BY <1>3 DEF Upload, DeleteFile
<1>4. CASE CleanupStaged \/ Reconnect
  BY <1>4 DEF CleanupStaged, Reconnect, gateway
<1>5. CASE Drop
  BY <1>0, <1>5 DEF Drop, gateway, History
<1>6. CASE DeviceReads
  <2>1. gbuf' = gbuf /\ rows' = rows
    BY <1>6 DEF DeviceReads, gateway
  <2>2. PICK d \in Down :
          HandleBegin(d.job) \/ HandleChunk(Input[d.job], d.i) \/ HandleEnd(Input[d.job]) \/ HandleDispatch(d.job)
    BY <1>6, DeviceStep
  <2>3. history' = history \/ history' = [history EXCEPT !.placed = history.placed \cup {Input[d.job]}]
    BY <2>2 DEF HandleBegin, HandleChunk, HandleEnd, HandleDispatch
  <2> QED
    BY <1>0, <2>1, <2>3 DEF History
<1> QED
  BY <1>1, <1>2, <1>3, <1>4, <1>5, <1>6 DEF Next

LEMMA PaidHolds ==
  ASSUME Types, Paid, Next
  PROVE  gbuf' \in [Jobs -> Pulled] /\ rows' \in [Jobs -> Nat] /\ Paid'
<1>0. /\ gbuf \in [Jobs -> Pulled] /\ rows \in [Jobs -> Nat]
      /\ history \in History /\ history.begins \in [Jobs -> Nat]
  BY DEF Types, History
<1>1. CASE ~GatewayReads
  BY <1>0, <1>1, OnlyGatewayBuffers DEF Paid
<1>2. CASE GatewayReads
  <2>1. PICK f \in Out : Handle(f)
    BY <1>2, FrameStep
  <2>2. CASE UNCHANGED <<gbuf, rows, history>>
    BY <1>0, <2>2 DEF Paid
  <2>3. ASSUME f.job \in Jobs, NEW g \in Pulled, NEW r \in Nat, Buffers(f, gbuf[f.job], rows[f.job], g, r),
               gbuf' = [gbuf EXCEPT ![f.job] = g], rows' = [rows EXCEPT ![f.job] = r],
               history' = IF f.type = "begin" THEN [history EXCEPT !.begins[f.job] = @ + 1] ELSE history
        PROVE  gbuf' \in [Jobs -> Pulled] /\ rows' \in [Jobs -> Nat] /\ Paid'
    <3>1. PICK j \in Jobs : j = f.job
      BY <2>3
    <3>2. PICK b : b = history'.begins[j]
      OBVIOUS
    <3>3. /\ b = IF f.type = "begin" THEN history.begins[j] + 1 ELSE history.begins[j]
          /\ \A i \in Jobs : i # j => history'.begins[i] = history.begins[i]
      BY <1>0, <2>3, <3>1, <3>2
    <3>4. rows[j] + (IF gbuf[j].open THEN 1 ELSE 0) <= history.begins[j]
      BY DEF Paid
    <3>5. r + (IF g.open THEN 1 ELSE 0) <= b
      <4>1. rows[j] \in Nat /\ history.begins[j] \in Nat
        BY <1>0
      <4>2. CASE f.type = "begin"
        BY <2>3, <3>1, <3>3, <3>4, <4>1, <4>2 DEF Buffers
      <4>3. CASE f.type = "chunk"
        BY <2>3, <3>1, <3>3, <3>4, <4>1, <4>3 DEF Buffers
      <4>4. CASE f.type = "end"
        BY <2>3, <3>1, <3>3, <3>4, <4>1, <4>4 DEF Buffers, NoBuffer, Complete
      <4> QED
        BY <2>3, <4>2, <4>3, <4>4 DEF Buffers
    <3>6. \A i \in Jobs : /\ i = j => gbuf'[i] = g /\ rows'[i] = r
                          /\ i # j => gbuf'[i] = gbuf[i] /\ rows'[i] = rows[i]
      BY <1>0, <2>3, <3>1
    <3>7. ASSUME NEW i \in Jobs
          PROVE  rows'[i] + (IF gbuf'[i].open THEN 1 ELSE 0) <= history'.begins[i]
      <4>1. CASE i = j
        BY <3>2, <3>5, <3>6, <4>1
      <4>2. CASE i # j
        BY <3>3, <3>6, <4>2 DEF Paid
      <4> QED
        BY <4>1, <4>2
    <3> QED
      BY <1>0, <2>3, <3>7 DEF Paid
  <2> QED
    BY <2>1, <2>2, <2>3, GatewayStep
<1> QED
  BY <1>1, <1>2

LEMMA PullingHolds ==
  ASSUME Types, Pushing, Dispatched, Told, Pulling, Next
  PROVE  Pulling'
<1>0. pull \in [Jobs -> Pull] /\ job \in [Jobs -> Progress]
  BY DEF Types
<1>a. ASSUME SameAttempt, NEW S \in SUBSET Jobs, \A j \in Jobs : Wiped(j)' => Wiped(j) \/ j \in S,
             \A j \in S : Over(pull[j]) \/ ~Started(pull[j])
      PROVE  Pulling'
  <2>1. \A j \in Jobs : Wiped(j)' => Over(pull[j]) \/ ~Started(pull[j])
    BY <1>a DEF Pulling
  <2>2. \A j \in Jobs : /\ Over(pull'[j]) <=> Over(pull[j])
                        /\ Started(pull'[j]) <=> Started(pull[j])
                        /\ pull'[j].try = pull[j].try
    BY <1>a DEF SameAttempt, Over, Started
  <2> QED
    BY <2>1, <2>2 DEF Pulling
<1>b. ASSUME pull' = pull, \A j \in Jobs : Wiped(j)' => Wiped(j)
      PROVE  Pulling'
  BY <1>b DEF Pulling
<1>1. ASSUME NEW j \in Jobs, PullSend(j) \/ PullFails(j) \/ PullTimesOut(j)
      PROVE  Pulling'
  <2>1. PICK p \in Pull : pull' = [pull EXCEPT ![j] = p] /\ (p.try = Retries => Over(p))
    BY <1>1, PullStep
  <2>2. job' = job /\ ~Wiped(j)
    BY <1>1 DEF PullSend, PullFails, PullTimesOut, Wiped
  <2> QED
    BY <1>0, <2>1, <2>2 DEF Pulling, Wiped
<1>2. ASSUME NEW j \in Jobs, Result(j)
      PROVE  Pulling'
  <2>1. pull' = pull /\ job' = [job EXCEPT ![j] = "finished"] /\ (Over(pull[j]) \/ ~Started(pull[j]))
    BY <1>2 DEF Result
  <2>2. \A i \in Jobs : Wiped(i)' => Wiped(i) \/ i \in {j}
    BY <1>0, <2>1 DEF Wiped
  <2>3. SameAttempt /\ {j} \in SUBSET Jobs
    BY <2>1 DEF SameAttempt
  <2> QED
    BY <1>a, <2>1, <2>2, <2>3
<1>3. ASSUME NEW j \in Jobs, Submit(j) \/ DequeueNext(j) \/ SendEnd(j) \/ Dispatch(j)
      PROVE  Pulling'
  <2>1. pull' = pull
    BY <1>3 DEF Submit, DequeueNext, SendEnd, Dispatch, device
  <2>2. \E new \in {"pushing", "pushed", "dispatched"} : job' = [job EXCEPT ![j] = new]
    BY <1>3 DEF Submit, PushFile, DequeueNext, SendEnd, Dispatch
  <2> QED
    BY <1>0, <1>b, <2>1, <2>2 DEF Wiped
<1>4. ASSUME NEW j \in Jobs, NEW i \in Chunks, SendChunk(j, i)
      PROVE  Pulling'
  BY <1>0, <1>b, <1>4 DEF SendChunk, device, Wiped
<1>5. ASSUME NEW f \in Files, Upload(f) \/ DeleteFile(f)
      PROVE  Pulling'
  BY <1>5, <1>b DEF Upload, DeleteFile, device, Wiped
<1>6. CASE CleanupStaged \/ Drop \/ Reconnect
  BY <1>6, <1>b DEF CleanupStaged, Drop, Reconnect, device, Wiped
<1>7. CASE DeviceReads
  <2>1. PICK d \in Down :
          /\ d.job \in Jobs /\ pull' = pull
          /\ HandleBegin(d.job) \/ HandleChunk(Input[d.job], d.i) \/ HandleEnd(Input[d.job]) \/ HandleDispatch(d.job)
    BY <1>7, DeviceStep
  <2>2. job' = job \/ \E to \in {"started", "stuck"} : job' = [job EXCEPT ![d.job] = to]
    BY <2>1 DEF HandleBegin, HandleChunk, HandleEnd, HandleDispatch
  <2> QED
    BY <1>0, <1>b, <2>1, <2>2 DEF Wiped
<1>8. CASE GatewayReads
  <2>1. PICK f \in Out : Handle(f) /\ Truthful(f, history.placed, job)
    BY <1>8, FrameTruthful
  <2>2. SameAttempt
    BY <2>1, GatewayHears
  <2>3. \A j \in Jobs : Wiped(j)' => Wiped(j)
    <3>1. CASE f.type = "result"
      <4>1. f.job \in Jobs /\ job[f.job] \in {"finished", "over"} /\ job' = [job EXCEPT ![f.job] = "over"]
        BY <2>1, <3>1, FrameKinds DEF Truthful, Handle, OnJobResult
      <4> QED
        BY <1>0, <4>1 DEF Wiped
    <3>2. CASE f.type # "result"
      BY <2>1, <3>2 DEF Handle, OnFileAck, Wiped
    <3> QED
      BY <3>1, <3>2
  <2>4. {} \in SUBSET Jobs
    OBVIOUS
  <2> QED
    BY <1>a, <2>2, <2>3, <2>4
<1> QED
  BY <1>1, <1>2, <1>3, <1>4, <1>5, <1>6, <1>7, <1>8 DEF Next

-----------------------------------------------------------------------------
(* Outputs come before the result, while the connection lasts              *)

\* a frame that is none of a job's output
Foreign(f, j) == /\ ~IsBegin(f, j) /\ ~IsEnd(f, j)
                 /\ \A i \in Chunks : ~IsChunk(f, j, i)

\* A frame that is sent comes last.
LEMMA ArrivesSent ==
  ASSUME NEW q \in Seq(Out), NEW f \in Out, NEW j, NEW g, NEW n, Arrives(q, j, g, n), ~IsBegin(f, j)
  PROVE  Arrives(Append(q, f), j, g, n)
<1>1. PICK z : z = Append(q, f)
  OBVIOUS
<1>2. /\ DOMAIN z = DOMAIN q \cup {Len(q) + 1}
      /\ \A i \in DOMAIN q : z[i] = q[i]
      /\ z[Len(q) + 1] = f
  BY <1>1, QueueOps
<1>3. /\ NoBegin(z, j) <=> NoBegin(q, j)
      /\ \A m \in DOMAIN z : IsBegin(z[m], j) => m \in DOMAIN q /\ IsBegin(q[m], j)
  BY <1>2 DEF NoBegin
<1>4. Opens(q, j, g) => Opens(z, j, g)
  BY <1>3 DEF Opens
<1>5. ASSUME NEW i \in Chunks, Lands(q, j, g, i) PROVE Lands(z, j, g, i)
  <2>1. CASE i \in g.got /\ NoBegin(q, j)
    BY <1>3, <2>1 DEF Lands
  <2>2. ASSUME NEW k \in DOMAIN q, IsChunk(q[k], j, i), \A m \in DOMAIN q : IsBegin(q[m], j) => m < k
        PROVE  Lands(z, j, g, i)
    <3>1. k \in DOMAIN z /\ IsChunk(z[k], j, i) /\ \A m \in DOMAIN z : IsBegin(z[m], j) => m < k
      BY <1>2, <1>3, <2>2
    <3> QED
      BY <3>1 DEF Lands
  <2> QED
    BY <1>5, <2>1, <2>2 DEF Lands
<1> QED
  BY <1>1, <1>4, <1>5 DEF Arrives

LEMMA NoEndSent ==
  ASSUME NEW q \in Seq(Out), NEW f \in Out, NEW j, NoEnd(q, j), ~IsEnd(f, j)
  PROVE  NoEnd(Append(q, f), j)
<1>1. PICK z : z = Append(q, f)
  OBVIOUS
<1>2. /\ DOMAIN z = DOMAIN q \cup {Len(q) + 1}
      /\ \A i \in DOMAIN q : z[i] = q[i]
      /\ z[Len(q) + 1] = f
  BY <1>1, QueueOps
<1> QED
  BY <1>1, <1>2 DEF NoEnd

LEMMA EndsSent ==
  ASSUME NEW q \in Seq(Out), NEW f \in Out, NEW j, Ends(q, j), Foreign(f, j)
  PROVE  Ends(Append(q, f), j)
<1>1. PICK z : z = Append(q, f)
  OBVIOUS
<1>2. /\ DOMAIN z = DOMAIN q \cup {Len(q) + 1} /\ DOMAIN q = 1 .. Len(q) /\ Len(q) \in Nat
      /\ \A i \in DOMAIN q : z[i] = q[i]
      /\ z[Len(q) + 1] = f
  BY <1>1, QueueOps
<1>3. PICK e \in DOMAIN q : /\ IsEnd(q[e], j)
                            /\ \A m \in DOMAIN q : /\ IsEnd(q[m], j) => m = e
                                                   /\ IsBegin(q[m], j) => m < e
                                                   /\ \A i \in Chunks : IsChunk(q[m], j, i) => m < e
                                                   /\ IsResult(q[m], j) => m > e
  BY DEF Ends
<1>4. e \in DOMAIN z /\ IsEnd(z[e], j)
  BY <1>2, <1>3
<1>5. ASSUME NEW m \in DOMAIN z
      PROVE  /\ IsEnd(z[m], j) => m = e
             /\ IsBegin(z[m], j) => m < e
             /\ \A i \in Chunks : IsChunk(z[m], j, i) => m < e
             /\ IsResult(z[m], j) => m > e
  <2>1. CASE m \in DOMAIN q
    BY <1>2, <1>3, <2>1
  <2>2. CASE m = Len(q) + 1
    <3>1. z[m] = f /\ m > e
      BY <1>2, <2>2
    <3> QED
      BY <3>1 DEF Foreign
  <2> QED
    BY <1>2, <2>1, <2>2
<1> QED
  BY <1>1, <1>4, <1>5 DEF Ends

LEMMA StreamForeign ==
  ASSUME NEW q \in Seq(Out), NEW f \in Out, NEW j, NEW g, NEW r, NEW p, NEW st,
         Stream(q, j, g, r, p, st), Foreign(f, j)
  PROVE  Stream(Append(q, f), j, g, r, p, st)
<1>1. ~IsBegin(f, j) /\ ~IsEnd(f, j)
  BY DEF Foreign
<1>2. Arrives(q, j, g, p.next) => Arrives(Append(q, f), j, g, p.next)
  BY <1>1, ArrivesSent
<1>3. NoEnd(q, j) => NoEnd(Append(q, f), j)
  BY <1>1, NoEndSent
<1>4. Ends(q, j) => Ends(Append(q, f), j)
  BY EndsSent
<1> QED
  BY <1>2, <1>3, <1>4 DEF Stream

\* the puller sends its next frame
LEMMA StreamSent ==
  ASSUME Types, NEW q \in Seq(Out), NEW j \in Jobs, NEW g, NEW r, NEW p \in Pull, NEW st,
         Stream(q, j, g, r, pull[j], st), pull[j].try < Retries, ~Over(pull[j]),
         \A m \in DOMAIN q : ~IsResult(q[m], j), st # "over",
         p.next = pull[j].next + 1
  PROVE  Stream(Append(q, Frame(j)), j, g, r, p, st)
<1>0. /\ N \in Nat \ {0} /\ pull[j].next \in 0 .. N + 2 /\ pull[j].next # N + 2
      /\ DOMAIN q = 1 .. Len(q) /\ Len(q) \in Nat
  BY FileTransferConstantsOK, QueueOps DEF Types, Pull, Over
<1>1. r = 0 /\ NoEnd(q, j) /\ Arrives(q, j, g, pull[j].next)
  BY DEF Stream
<1>2. PICK f : f = Frame(j)
  OBVIOUS
<1>3. f \in Out /\ f.job = j
  BY <1>2, FrameNext
<1>4. PICK z : z = Append(q, f)
  OBVIOUS
<1>5. /\ DOMAIN z = DOMAIN q \cup {Len(q) + 1}
      /\ \A i \in DOMAIN q : z[i] = q[i]
      /\ z[Len(q) + 1] = f
  BY <1>3, <1>4, QueueOps
<1>6. CASE pull[j].next = 0
  <2>1. f.type = "begin"
    BY <1>2, <1>6 DEF Frame
  <2>2. NoEnd(z, j)
    BY <1>1, <1>3, <1>4, <2>1, NoEndSent DEF IsEnd
  <2>3. Opens(z, j, g)
    BY <1>3, <1>5, <2>1 DEF Opens, NoBegin, IsBegin
  <2>4. p.next = 1 /\ \A i \in Chunks : ~(i < p.next)
    BY <1>0, <1>6 DEF Chunks
  <2>5. Arrives(z, j, g, p.next) /\ ~Over(p)
    BY <1>0, <2>3, <2>4 DEF Arrives, Over
  <2> QED
    BY <1>1, <1>2, <1>4, <2>2, <2>5 DEF Stream
<1>7. CASE pull[j].next \in 1 .. N
  <2>1. f = [type |-> "chunk", job |-> j, i |-> pull[j].next]
    BY <1>0, <1>2, <1>7 DEF Frame
  <2>2. NoEnd(z, j)
    BY <1>1, <1>3, <1>4, <2>1, NoEndSent DEF IsEnd
  <2>3. Arrives(z, j, g, pull[j].next)
    BY <1>1, <1>3, <1>4, <2>1, ArrivesSent DEF IsBegin
  <2>4. Lands(z, j, g, pull[j].next)
    <3>1. IsChunk(z[Len(q) + 1], j, pull[j].next)
      BY <1>5, <2>1 DEF IsChunk
    <3>2. \A m \in DOMAIN z : IsBegin(z[m], j) => m < Len(q) + 1
      BY <1>0, <1>5, <2>1 DEF IsBegin
    <3> QED
      BY <1>5, <3>1, <3>2 DEF Lands
  <2>5. Arrives(z, j, g, p.next)
    <3>1. pull[j].next > 0
      BY <1>7
    <3>2. \A i \in Chunks : i < p.next => i < pull[j].next \/ i = pull[j].next
      BY <1>0 DEF Chunks
    <3> QED
      BY <2>3, <2>4, <3>1, <3>2 DEF Arrives
  <2>6. ~Over(p)
    BY <1>0, <1>7 DEF Over
  <2> QED
    BY <1>1, <1>2, <1>4, <2>2, <2>5, <2>6 DEF Stream
<1>8. CASE pull[j].next = N + 1
  <2>1. f = [type |-> "end", job |-> j]
    BY <1>0, <1>2, <1>8 DEF Frame
  <2>2. Arrives(z, j, g, pull[j].next)
    BY <1>1, <1>3, <1>4, <2>1, ArrivesSent DEF IsBegin
  <2>3. Arrives(z, j, g, p.next)
    <3>1. pull[j].next > 0
      BY <1>0, <1>8
    <3>2. \A i \in Chunks : i < pull[j].next
      BY <1>0, <1>8 DEF Chunks
    <3> QED
      BY <2>2, <3>1, <3>2 DEF Arrives
  <2>4. Ends(z, j)
    <3>1. Len(q) + 1 \in DOMAIN z /\ IsEnd(z[Len(q) + 1], j)
      BY <1>5, <2>1 DEF IsEnd
    <3>2. ASSUME NEW m \in DOMAIN z
          PROVE  /\ IsEnd(z[m], j) => m = Len(q) + 1
                 /\ IsBegin(z[m], j) => m < Len(q) + 1
                 /\ \A i \in Chunks : IsChunk(z[m], j, i) => m < Len(q) + 1
                 /\ IsResult(z[m], j) => m > Len(q) + 1
      <4>1. CASE m \in DOMAIN q
        <5>1. ~IsEnd(z[m], j) /\ ~IsResult(z[m], j)
          BY <1>1, <1>5, <4>1 DEF NoEnd
        <5> QED
          BY <1>0, <4>1, <5>1
      <4>2. CASE m = Len(q) + 1
        BY <1>5, <2>1, <4>2 DEF IsBegin, IsChunk, IsResult
      <4> QED
        BY <1>5, <4>1, <4>2
    <3> QED
      BY <3>1, <3>2 DEF Ends
  <2>5. Over(p)
    BY <1>0, <1>8 DEF Over
  <2> QED
    BY <1>1, <1>2, <1>4, <2>3, <2>4, <2>5 DEF Stream
<1> QED
  BY <1>0, <1>6, <1>7, <1>8

\* The first frame is handled.
LEMMA TailOps ==
  ASSUME NEW q \in Seq(Out), q # <<>>
  PROVE  /\ DOMAIN q \subseteq Nat \ {0} /\ 1 \in DOMAIN q
         /\ \A i \in DOMAIN Tail(q) : i \in Nat \ {0} /\ i + 1 \in DOMAIN q /\ Tail(q)[i] = q[i + 1]
         /\ \A k \in DOMAIN q : k # 1 => k - 1 \in DOMAIN Tail(q) /\ Tail(q)[k - 1] = q[k]
<1> DEFINE z == Tail(q)
<1>1. DOMAIN q = 1 .. Len(q) /\ Len(q) \in Nat /\ Len(q) > 0
  BY LenProperties, EmptySeq
<1>2. /\ z \in Seq(Out) /\ Len(z) = Len(q) - 1
      /\ \A i \in 1 .. Len(z) : z[i] = q[i + 1]
  BY HeadTailProperties
<1> HIDE DEF z
<1>3. DOMAIN z = 1 .. Len(z)
  BY <1>2, LenProperties
<1>4. ASSUME NEW i \in DOMAIN z PROVE i \in Nat \ {0} /\ i + 1 \in DOMAIN q /\ z[i] = q[i + 1]
  BY <1>1, <1>2, <1>3, <1>4
<1>5. ASSUME NEW k \in DOMAIN q, k # 1 PROVE k - 1 \in DOMAIN z /\ z[k - 1] = q[k]
  <2>1. k \in Nat /\ k - 1 \in 1 .. Len(z) /\ (k - 1) + 1 = k
    BY <1>1, <1>2, <1>5
  <2> QED
    BY <1>2, <1>3, <2>1
<1> QED
  BY <1>1, <1>4, <1>5 DEF z

LEMMA ArrivesTail ==
  ASSUME NEW q \in Seq(Out), q # <<>>, NEW j, NEW g \in Pulled, NEW n, Arrives(q, j, g, n),
         NEW g2 \in Pulled, NEW r, NEW r2,
         \/ ~IsBegin(q[1], j) /\ (\A i \in Chunks : ~IsChunk(q[1], j, i)) /\ g2 = g
         \/ q[1].job = j /\ q[1].type \in {"begin", "chunk"} /\ Buffers(q[1], g, r, g2, r2)
  PROVE  Arrives(Tail(q), j, g2, n)
<1>1. PICK z : z = Tail(q)
  OBVIOUS
<1>2. /\ DOMAIN q \subseteq Nat \ {0} /\ 1 \in DOMAIN q
      /\ \A i \in DOMAIN z : i \in Nat \ {0} /\ i + 1 \in DOMAIN q /\ z[i] = q[i + 1]
      /\ \A k \in DOMAIN q : k # 1 => k - 1 \in DOMAIN z /\ z[k - 1] = q[k]
  BY <1>1, TailOps
<1>3. NoBegin(q, j) => NoBegin(z, j) /\ ~IsBegin(q[1], j)
  BY <1>2 DEF NoBegin
<1>4. ~NoBegin(q, j) => IsBegin(q[1], j) \/ ~NoBegin(z, j)
  BY <1>2 DEF NoBegin
<1>5. ASSUME Opens(q, j, g) PROVE Opens(z, j, g2)
  <2>1. g.open \/ IsBegin(q[1], j) => g2.open
    BY DEF Buffers, IsBegin
  <2> QED
    BY <1>4, <1>5, <2>1 DEF Opens
<1>6. ASSUME NEW i \in Chunks, Opens(q, j, g), Lands(q, j, g, i) PROVE Lands(z, j, g2, i)
  <2>1. CASE i \in g.got /\ NoBegin(q, j)
    <3>1. i \in g2.got
      <4>1. ~IsBegin(q[1], j)
        BY <1>3, <2>1
      <4>2. g2 = g \/ g2 = [open |-> TRUE, got |-> g.got \cup {q[1].i}]
        BY <4>1 DEF Buffers, IsBegin
      <4> QED
        BY <2>1, <4>2
    <3> QED
      BY <1>3, <2>1, <3>1 DEF Lands
  <2>2. ASSUME NEW k \in DOMAIN q, IsChunk(q[k], j, i), \A m \in DOMAIN q : IsBegin(q[m], j) => m < k
        PROVE  Lands(z, j, g2, i)
    <3>1. CASE k = 1
      <4>1. NoBegin(q, j)
        BY <1>2, <2>2, <3>1 DEF NoBegin
      <4>2. g.open
        BY <1>6, <4>1 DEF Opens
      <4>3. q[1].type = "chunk" /\ q[1].i = i
        BY <2>2, <3>1 DEF IsChunk
      <4>4. g2 = [open |-> TRUE, got |-> g.got \cup {i}]
        BY <2>2, <3>1, <4>2, <4>3 DEF Buffers
      <4> QED
        BY <1>3, <4>1, <4>4 DEF Lands
    <3>2. CASE k # 1
      <4>1. k - 1 \in DOMAIN z /\ IsChunk(z[k - 1], j, i) /\ k \in Nat
        BY <1>2, <2>2, <3>2
      <4>2. ASSUME NEW m \in DOMAIN z, IsBegin(z[m], j) PROVE m < k - 1
        <5>1. m \in Nat /\ m + 1 < k
          BY <1>2, <2>2, <4>2
        <5> QED
          BY <4>1, <5>1
      <4> QED
        BY <4>1, <4>2 DEF Lands
    <3> QED
      BY <3>1, <3>2
  <2> QED
    BY <1>6, <2>1, <2>2 DEF Lands
<1> QED
  BY <1>1, <1>5, <1>6 DEF Arrives

LEMMA NoEndTail ==
  ASSUME NEW q \in Seq(Out), q # <<>>, NEW j, NoEnd(q, j)
  PROVE  NoEnd(Tail(q), j) /\ ~IsEnd(q[1], j)
  BY TailOps DEF NoEnd

LEMMA EndsTail ==
  ASSUME NEW q \in Seq(Out), q # <<>>, NEW j, Ends(q, j)
  PROVE  /\ ~IsResult(q[1], j)
         /\ IF IsEnd(q[1], j)
            THEN /\ NoEnd(Tail(q), j) /\ NoBegin(q, j)
                 /\ \A k \in DOMAIN q : \A i \in Chunks : ~IsChunk(q[k], j, i)
            ELSE Ends(Tail(q), j)
<1>1. PICK z : z = Tail(q)
  OBVIOUS
<1>2. /\ DOMAIN q \subseteq Nat \ {0} /\ 1 \in DOMAIN q
      /\ \A i \in DOMAIN z : i \in Nat \ {0} /\ i + 1 \in DOMAIN q /\ z[i] = q[i + 1]
      /\ \A k \in DOMAIN q : k # 1 => k - 1 \in DOMAIN z /\ z[k - 1] = q[k]
  BY <1>1, TailOps
<1>3. PICK e \in DOMAIN q : /\ IsEnd(q[e], j)
                            /\ \A m \in DOMAIN q : /\ IsEnd(q[m], j) => m = e
                                                   /\ IsBegin(q[m], j) => m < e
                                                   /\ \A i \in Chunks : IsChunk(q[m], j, i) => m < e
                                                   /\ IsResult(q[m], j) => m > e
  BY DEF Ends
<1>4. ~IsResult(q[1], j)
  BY <1>2, <1>3
<1>5. CASE IsEnd(q[1], j)
  <2>1. e = 1
    BY <1>2, <1>3, <1>5
  <2>2. NoBegin(q, j) /\ \A k \in DOMAIN q : \A i \in Chunks : ~IsChunk(q[k], j, i)
    BY <1>2, <1>3, <2>1 DEF NoBegin
  <2>3. ASSUME NEW i \in DOMAIN z PROVE ~IsEnd(z[i], j)
    <3>1. i \in Nat \ {0} /\ i + 1 \in DOMAIN q /\ i + 1 # 1
      BY <1>2
    <3> QED
      BY <1>2, <1>3, <2>1, <3>1
  <2> QED
    BY <1>1, <1>4, <1>5, <2>2, <2>3 DEF NoEnd
<1>6. CASE ~IsEnd(q[1], j)
  <2>1. e # 1 /\ e \in Nat
    BY <1>2, <1>3, <1>6
  <2>2. e - 1 \in DOMAIN z /\ IsEnd(z[e - 1], j)
    BY <1>2, <1>3, <2>1
  <2>3. ASSUME NEW m \in DOMAIN z
        PROVE  /\ IsEnd(z[m], j) => m = e - 1
               /\ IsBegin(z[m], j) => m < e - 1
               /\ \A i \in Chunks : IsChunk(z[m], j, i) => m < e - 1
               /\ IsResult(z[m], j) => m > e - 1
    <3>1. m \in Nat /\ m + 1 \in DOMAIN q /\ z[m] = q[m + 1]
      BY <1>2
    <3>2. /\ IsEnd(z[m], j) => m + 1 = e
          /\ IsBegin(z[m], j) => m + 1 < e
          /\ \A i \in Chunks : IsChunk(z[m], j, i) => m + 1 < e
          /\ IsResult(z[m], j) => m + 1 > e
      BY <1>3, <3>1
    <3>3. (m + 1 = e => m = e - 1) /\ (m + 1 < e => m < e - 1) /\ (m + 1 > e => m > e - 1)
      BY <2>1, <3>1
    <3> QED
      BY <3>2, <3>3
  <2> QED
    BY <1>1, <1>4, <1>6, <2>2, <2>3 DEF Ends
<1> QED
  BY <1>5, <1>6

\* A frame is handled: one of the job's output goes into its buffer, an END
\* that comes has all it closes, and the result is not handled before it.
LEMMA StreamTail ==
  ASSUME NEW q \in Seq(Out), q # <<>>, NEW j, NEW p \in Pull, NEW st, NEW st2,
         NEW g \in Pulled, NEW g2 \in Pulled, NEW r, NEW r2,
         Stream(q, j, g, r, p, st),
         IsResult(q[1], j) \/ st2 = st,
         \/ Foreign(q[1], j) /\ g2 = g /\ r2 = r
         \/ q[1].job = j /\ q[1].type \in {"begin", "chunk", "end"} /\ Buffers(q[1], g, r, g2, r2)
  PROVE  Stream(Tail(q), j, g2, r2, p, st2)
<1> SUFFICES ASSUME p.try < Retries PROVE Stream(Tail(q), j, g2, r2, p, st2)
  BY DEF Stream
<1>1. CASE ~IsEnd(q[1], j)
  <2>1. r2 = r
    BY <1>1 DEF Buffers, IsEnd
  <2>2. \/ ~IsBegin(q[1], j) /\ (\A i \in Chunks : ~IsChunk(q[1], j, i)) /\ g2 = g
        \/ q[1].job = j /\ q[1].type \in {"begin", "chunk"} /\ Buffers(q[1], g, r, g2, r2)
    BY <1>1 DEF Foreign, IsEnd
  <2>3. Arrives(q, j, g, p.next) => Arrives(Tail(q), j, g2, p.next)
    BY <2>2, ArrivesTail
  <2>4. NoEnd(q, j) => NoEnd(Tail(q), j)
    BY NoEndTail
  <2>5. Ends(q, j) => Ends(Tail(q), j) /\ st2 = st
    BY <1>1, EndsTail
  <2> QED
    BY <2>1, <2>3, <2>4, <2>5 DEF Stream
<1>2. CASE IsEnd(q[1], j)
  <2>1. ~NoEnd(q, j)
    BY <1>2, NoEndTail
  <2>2. Over(p) /\ r = 0 /\ Arrives(q, j, g, p.next) /\ Ends(q, j)
    BY <2>1 DEF Stream
  <2>3. /\ NoEnd(Tail(q), j) /\ NoBegin(q, j)
        /\ \A k \in DOMAIN q : \A i \in Chunks : ~IsChunk(q[k], j, i)
    BY <1>2, <2>2, EndsTail
  <2>4. p.next > 0 /\ \A i \in Chunks : i < p.next
    BY <2>2, FileTransferConstantsOK DEF Over, Chunks
  <2>5. g.open /\ \A i \in Chunks : i \in g.got
    BY <2>2, <2>3, <2>4 DEF Arrives, Opens, Lands
  <2>6. Complete(g)
    BY <2>5 DEF Complete, Pulled
  <2>7. Buffers(q[1], g, r, g2, r2) /\ q[1].type = "end"
    BY <1>2 DEF Foreign, IsEnd
  <2>8. r2 = 1
    BY <2>2, <2>6, <2>7 DEF Buffers
  <2> QED
    BY <2>2, <2>3, <2>8 DEF Stream
<1> QED
  BY <1>1, <1>2

LEMMA StreamSame ==
  ASSUME NEW q, NEW j, NEW g, NEW r, NEW p, NEW p2, NEW st, NEW st2,
         Stream(q, j, g, r, p, st), p2.try = p.try, p2.next = p.next, st2 = "over" => st = "over"
  PROVE  Stream(q, j, g, r, p2, st2)
  BY DEF Stream, Over

\* no output is sent or handled, no attempt goes on and no job gets over
LEMMA StreamsQuiet ==
  ASSUME Streams, UNCHANGED <<link, flush, out, gbuf, rows, pull>>, ~history.lost,
         \A j \in Jobs : job'[j] = "over" => job[j] = "over"
  PROVE  Streams'
<1>1. ASSUME NEW j \in Jobs PROVE Stream(out, j, gbuf[j], rows[j], pull[j], job'[j])
  BY StreamSame DEF Streams
<1> QED
  BY <1>1 DEF Streams

\* A frame is sent that is none of the output of any job.
LEMMA StreamsForeign ==
  ASSUME Types, Streams, ~history.lost, NEW f \in Out, out' = Append(out, f),
         UNCHANGED <<link, flush, gbuf, rows, pull>>, \A j \in Jobs : Foreign(f, j),
         \A j \in Jobs : job'[j] = "over" => job[j] = "over"
  PROVE  Streams'
<1>0. out \in Seq(Out)
  BY DEF Types
<1>1. ASSUME NEW j \in Jobs PROVE Stream(out', j, gbuf[j], rows[j], pull[j], job'[j])
  <2>1. Stream(out, j, gbuf[j], rows[j], pull[j], job'[j])
    BY StreamSame DEF Streams
  <2>2. Stream(Append(out, f), j, gbuf[j], rows[j], pull[j], job'[j])
    BY <1>0, <2>1, StreamForeign
  <2> QED
    BY <2>2
<1> QED
  BY <1>1 DEF Streams

LEMMA StreamsFail ==
  ASSUME Types, Pulling, Streams, ~history.lost, NEW j \in Jobs, PullFails(j)
  PROVE  Streams'
<1>0. pull \in [Jobs -> Pull] /\ N \in Nat
  BY FileTransferConstantsOK DEF Types
<1>1. /\ UNCHANGED <<link, flush, out, gbuf, rows, job>>
      /\ pull' = [pull EXCEPT ![j] = Again(pull[j])] /\ pull[j].next = N + 1
  BY <1>0 DEF PullFails, toGateway, gateway
<1>2. pull[j] \in Pull /\ ~Over(pull[j])
  BY <1>0, <1>1 DEF Over
<1>3. pull[j].try # Retries
  BY <1>2 DEF Pulling
<1>4. PICK p : p = Again(pull[j])
  OBVIOUS
<1>5. (p.try < Retries => p.next = 0) /\ pull[j].try < Retries
  BY <1>2, <1>3, <1>4, AgainHolds
<1>6. Stream(out, j, gbuf[j], rows[j], p, job[j])
  <2> SUFFICES ASSUME p.try < Retries PROVE Stream(out, j, gbuf[j], rows[j], p, job[j])
    BY DEF Stream
  <2>1. rows[j] = 0 /\ NoEnd(out, j)
    BY <1>2, <1>5 DEF Streams, Stream
  <2>2. p.next = 0 /\ ~Over(p) /\ Arrives(out, j, gbuf[j], p.next)
    BY <1>0, <1>5 DEF Over, Arrives
  <2> QED
    BY <2>1, <2>2 DEF Stream
<1>7. ASSUME NEW i \in Jobs PROVE Stream(out, i, gbuf[i], rows[i], pull'[i], job[i])
  <2>1. CASE i = j
    <3>1. pull'[i] = p
      BY <1>0, <1>1, <1>4, <2>1
    <3> QED
      BY <1>6, <2>1, <3>1
  <2>2. CASE i # j
    <3>1. pull'[i] = pull[i]
      BY <1>0, <1>1, <2>2
    <3> QED
      BY <3>1 DEF Streams
  <2> QED
    BY <2>1, <2>2
<1> QED
  BY <1>1, <1>7 DEF Streams

LEMMA StreamsTimeOut ==
  ASSUME Types, Pulling, Streams, ~history.lost, NEW j \in Jobs, PullTimesOut(j)
  PROVE  Streams'
<1>1. UNCHANGED <<link, flush, out, gbuf, rows, job>>
  BY DEF PullTimesOut, toGateway, gateway
<1>2. PICK p : p = GivenUp(pull[j])
  OBVIOUS
<1>3. pull' = [pull EXCEPT ![j] = p] /\ ~(p.try < Retries)
  BY <1>2, GivenUpHolds DEF PullTimesOut, Types
<1>4. ASSUME NEW i \in Jobs PROVE Stream(out, i, gbuf[i], rows[i], pull'[i], job[i])
  <2>1. CASE i = j
    BY <1>3, <2>1 DEF Types, Stream
  <2>2. CASE i # j
    BY <1>3, <2>2 DEF Types, Streams
  <2> QED
    BY <2>1, <2>2
<1> QED
  BY <1>1, <1>4 DEF Streams

LEMMA StreamsSend ==
  ASSUME Types, Told, Streams, ~history.lost, NEW j \in Jobs, PullSend(j)
  PROVE  Streams'
<1>1. /\ pull \in [Jobs -> Pull] /\ N \in Nat /\ out \in Seq(Out)
      /\ link /\ flush = <<>> /\ \A i \in Jobs : Stream(out, i, gbuf[i], rows[i], pull[i], job[i])
  BY FileTransferConstantsOK DEF Types, Streams
<1>2. /\ UNCHANGED <<link, gbuf, rows, job>> /\ Sent(Frame(j))
      /\ job[j] = "started" /\ ~Over(pull[j])
  BY DEF PullSend, gateway
<1>3. pull' = [pull EXCEPT ![j] = Onward(pull[j])]
  BY <1>1 DEF PullSend
<1>4. Frame(j) \in Out /\ Frame(j).type \in {"begin", "chunk", "end"} /\ Frame(j).job = j
  BY <1>2, FrameNext
<1>5. out' = Append(out, Frame(j)) /\ flush' = flush
  BY <1>1, <1>2, <1>4, SentHolds
<1>6. PICK p : p = Onward(pull[j])
  OBVIOUS
<1>7. p.next = pull[j].next + 1 /\ p.try = pull[j].try /\ p \in Pull
  <2>1. /\ pull[j].try \in 0 .. Retries /\ pull[j].next \in 0 .. N + 2
        /\ pull[j].heard \in [Chunks -> {"nothing", "ok", "error"}] /\ pull[j] \in Pull
    BY <1>1 DEF Pull
  <2>2. pull[j].next + 1 \in 0 .. N + 2
    BY <1>1, <1>2, <2>1 DEF Over
  <2> QED
    BY <1>6, <2>1, <2>2 DEF Onward, Pull
<1>8. Stream(out', j, gbuf[j], rows[j], p, job[j])
  <2>1. CASE pull[j].try < Retries
    <3>1. \A m \in DOMAIN out : ~IsResult(out[m], j)
      BY <1>2 DEF Told, Truthful, IsResult
    <3> QED
      BY <1>1, <1>2, <1>5, <1>7, <2>1, <3>1, StreamSent
  <2>2. CASE ~(pull[j].try < Retries)
    BY <1>7, <2>2 DEF Stream
  <2> QED
    BY <2>1, <2>2
<1>9. ASSUME NEW i \in Jobs PROVE Stream(out', i, gbuf[i], rows[i], pull'[i], job[i])
  <2>1. CASE i = j
    <3>1. pull'[i] = p
      BY <1>1, <1>3, <1>6, <2>1
    <3> QED
      BY <1>8, <2>1, <3>1
  <2>2. CASE i # j
    <3>1. pull'[i] = pull[i]
      BY <1>1, <1>3, <2>2
    <3>2. Foreign(Frame(j), i)
      BY <1>4, <2>2 DEF Foreign, IsBegin, IsChunk, IsEnd
    <3>3. Stream(Append(out, Frame(j)), i, gbuf[i], rows[i], pull[i], job[i])
      BY <1>1, <1>4, <3>2, StreamForeign
    <3> QED
      BY <1>5, <3>1, <3>3
  <2> QED
    BY <2>1, <2>2
<1> QED
  BY <1>1, <1>2, <1>5, <1>9 DEF Streams

LEMMA StreamsDevice ==
  ASSUME Types, Dispatched, Streams, ~history.lost, DeviceReads
  PROVE  Streams'
<1>0. job \in [Jobs -> Progress]
  BY DEF Types
<1>1. PICK d \in Down :
        /\ d.job \in Jobs
        /\ \/ d.type = "begin"    /\ HandleBegin(d.job)
           \/ d.type = "chunk"    /\ HandleChunk(Input[d.job], d.i)
           \/ d.type = "end"      /\ HandleEnd(Input[d.job])
           \/ d.type = "dispatch" /\ HandleDispatch(d.job)
        /\ UNCHANGED <<gateway, pull, link, done>>
  BY DeviceStep
<1>2. PICK f \in Files : f = Input[d.job]
  BY <1>1, FileTransferConstantsOK
<1>3. UNCHANGED <<gbuf, rows, pull, link>>
  BY <1>1 DEF gateway
<1>4. \A j \in Jobs : job'[j] = "over" => job[j] = "over"
  <2>1. job' = job \/ \E to \in {"started", "stuck"} : job' = [job EXCEPT ![d.job] = to]
    BY <1>1 DEF HandleBegin, HandleChunk, HandleEnd, HandleDispatch
  <2> QED
    BY <1>0, <1>1, <2>1
<1>5. CASE d.type = "end" /\ buf[f] # NoBuf
  <2>1. PICK a : a = [type |-> "ack", file |-> f, ok |-> Verified(buf[f])]
    OBVIOUS
  <2>2. Verified(buf[f]) \in BOOLEAN
    BY DEF Verified, Whole
  <2>3. a \in Out /\ a.type = "ack"
    BY <2>1, <2>2, FrameKinds
  <2>4. Sent(a)
    BY <1>1, <1>2, <1>5, <2>1 DEF HandleEnd
  <2>5. out' = Append(out, a) /\ flush' = flush
    BY <2>3, <2>4, SentHolds DEF Streams
  <2>6. \A j \in Jobs : Foreign(a, j)
    BY <2>3 DEF Foreign, IsBegin, IsChunk, IsEnd
  <2> QED
    BY <1>3, <1>4, <2>3, <2>5, <2>6, StreamsForeign
<1>6. CASE ~(d.type = "end" /\ buf[f] # NoBuf)
  <2>1. out' = out /\ flush' = flush
    BY <1>1, <1>2, <1>6 DEF HandleBegin, HandleChunk, HandleEnd, HandleDispatch
  <2> QED
    BY <1>3, <1>4, <2>1, StreamsQuiet
<1> QED
  BY <1>5, <1>6

LEMMA StreamsRead ==
  ASSUME Types, Streams, ~history.lost, GatewayReads
  PROVE  Streams'
<1>0. /\ pull \in [Jobs -> Pull] /\ gbuf \in [Jobs -> Pulled] /\ out \in Seq(Out) /\ job \in [Jobs -> Progress]
      /\ rows \in [Jobs -> Nat]
      /\ link /\ flush = <<>> /\ \A i \in Jobs : Stream(out, i, gbuf[i], rows[i], pull[i], job[i])
  BY DEF Types, Streams
<1>1. PICK f \in Out : /\ Handle(f) /\ out # <<>> /\ f = out[1]
                       /\ out' = Tail(out) /\ flush' = flush /\ link' = link
  BY <1>0, FrameStep
<1>2. pull' \in [Jobs -> Pull] /\ SameAttempt
  BY <1>1, GatewayHears
<1>3. ASSUME NEW j \in Jobs PROVE Stream(out', j, gbuf'[j], rows'[j], pull'[j], job'[j])
  <2>a. ASSUME NEW g2 \in Pulled, NEW r2, NEW st2, gbuf'[j] = g2, rows'[j] = r2, job'[j] = st2,
               IsResult(f, j) \/ st2 = job[j],
               \/ Foreign(f, j) /\ g2 = gbuf[j] /\ r2 = rows[j]
               \/ f.job = j /\ f.type \in {"begin", "chunk", "end"} /\ Buffers(f, gbuf[j], rows[j], g2, r2)
        PROVE  Stream(out', j, gbuf'[j], rows'[j], pull'[j], job'[j])
    <3>1. Stream(Tail(out), j, g2, r2, pull[j], st2)
      BY <1>0, <1>1, <2>a, StreamTail
    <3>2. Stream(Tail(out), j, g2, r2, pull'[j], st2)
      BY <1>2, <3>1, StreamSame DEF SameAttempt
    <3> QED
      BY <1>1, <2>a, <3>2
  <2>1. CASE f.type \in {"ack", "result"} /\ UNCHANGED <<gbuf, rows, history>>
    <3>1. Foreign(f, j)
      BY <2>1 DEF Foreign, IsBegin, IsChunk, IsEnd
    <3>2. IsResult(f, j) \/ job'[j] = job[j]
      <4>1. CASE f.type = "ack"
        BY <1>1, <4>1 DEF Handle, OnFileAck
      <4>2. CASE f.type = "result"
        <5>1. job' = [job EXCEPT ![f.job] = "over"]
          BY <1>1, <4>2 DEF Handle, OnJobResult
        <5> QED
          BY <1>0, <4>2, <5>1 DEF IsResult
      <4> QED
        BY <2>1, <4>1, <4>2
    <3> QED
      BY <1>0, <2>1, <2>a, <3>1, <3>2
  <2>2. ASSUME f.job \in Jobs, NEW g \in Pulled, NEW r \in Nat,
               Buffers(f, gbuf[f.job], rows[f.job], g, r),
               gbuf' = [gbuf EXCEPT ![f.job] = g], rows' = [rows EXCEPT ![f.job] = r], job' = job
        PROVE  Stream(out', j, gbuf'[j], rows'[j], pull'[j], job'[j])
    <3>1. f.type \in {"begin", "chunk", "end"}
      BY <2>2 DEF Buffers
    <3>2. CASE f.job = j
      <4>1. gbuf'[j] = g /\ rows'[j] = r
        BY <1>0, <2>2, <3>2
      <4> QED
        BY <2>2, <2>a, <3>1, <3>2, <4>1
    <3>3. CASE f.job # j
      <4>1. gbuf'[j] = gbuf[j] /\ rows'[j] = rows[j] /\ gbuf[j] \in Pulled
        BY <1>0, <2>2, <3>3
      <4>2. Foreign(f, j)
        BY <3>3 DEF Foreign, IsBegin, IsChunk, IsEnd
      <4> QED
        BY <2>2, <2>a, <4>1, <4>2
    <3> QED
      BY <3>2, <3>3
  <2> QED
    BY <1>1, <2>1, <2>2, GatewayStep
<1> QED
  BY <1>0, <1>1, <1>3 DEF Streams

LEMMA StreamsHold ==
  ASSUME Types, Pushing, Dispatched, Told, Pulling, Streams, Next
  PROVE  Streams'
<1> SUFFICES ASSUME ~history'.lost PROVE Streams'
  BY DEF Streams
<1>0. job \in [Jobs -> Progress] /\ ~history.lost
  BY HistoryHolds DEF Types
<1>1. ASSUME NEW j \in Jobs,
             Submit(j) \/ DequeueNext(j) \/ SendEnd(j) \/ Dispatch(j)
      PROVE  Streams'
  <2>1. UNCHANGED <<link, flush, out, gbuf, rows, pull>>
    BY <1>1 DEF Submit, DequeueNext, SendEnd, Dispatch, device, toGateway, gateway
  <2>2. \E new \in {"pushing", "pushed", "dispatched"} : job' = [job EXCEPT ![j] = new]
    BY <1>1 DEF Submit, PushFile, DequeueNext, SendEnd, Dispatch
  <2> QED
    BY <1>0, <2>1, <2>2, StreamsQuiet
<1>2. ASSUME NEW j \in Jobs, NEW i \in Chunks, SendChunk(j, i)
      PROVE  Streams'
  <2>1. UNCHANGED <<link, flush, out, gbuf, rows, pull>>
    BY <1>2 DEF SendChunk, device, toGateway
  <2>2. job' = job \/ job' = [job EXCEPT ![j] = "failing"]
    BY <1>2 DEF SendChunk
  <2> QED
    BY <1>0, <2>1, <2>2, StreamsQuiet
<1>3. ASSUME NEW j \in Jobs, Result(j)
      PROVE  Streams'
  <2>1. PICK r : r = [type |-> "result", job |-> j]
    OBVIOUS
  <2>2. r \in Out /\ r.type = "result"
    BY <2>1, FrameKinds
  <2>3. Sent(r) /\ UNCHANGED <<link, gbuf, rows, pull>> /\ job' = [job EXCEPT ![j] = "finished"]
    BY <1>3, <2>1 DEF Result, gateway
  <2>4. out' = Append(out, r) /\ flush' = flush
    BY <1>0, <2>2, <2>3, SentHolds DEF Streams
  <2>5. \A i \in Jobs : Foreign(r, i)
    BY <2>2 DEF Foreign, IsBegin, IsChunk, IsEnd
  <2> QED
    BY <1>0, <2>2, <2>3, <2>4, <2>5, StreamsForeign
<1>4. ASSUME NEW f \in Files, Upload(f) \/ DeleteFile(f)
      PROVE  Streams'
  BY <1>0, <1>4, StreamsQuiet DEF Upload, DeleteFile, device, toGateway
<1>5. CASE CleanupStaged
  BY <1>0, <1>5, StreamsQuiet DEF CleanupStaged, device, toGateway
<1>6. CASE Drop
  <2>1. history'.lost
    BY <1>6 DEF Drop, Types, History
  <2> QED
    BY <2>1
<1>7. CASE Reconnect
  BY <1>0, <1>7 DEF Reconnect, Streams
<1> QED
  BY <1>0, <1>1, <1>2, <1>3, <1>4, <1>5, <1>6, <1>7, StreamsFail, StreamsTimeOut, StreamsSend, StreamsDevice, StreamsRead
  DEF Next

-----------------------------------------------------------------------------
(* The theorems                                                            *)

LEMMA TypesHold ==
  ASSUME Types, Opened, Pushing, Dispatched, Told, Pulling, Paid, Next
  PROVE  Types'
<1>1. file' \in [Files -> File] /\ push' \in [Jobs -> SUBSET Chunks]
  BY FilesHold
<1>2. down' \in Seq(Down) /\ job' \in [Jobs -> Progress]
  BY DownHolds, JobKept
<1>3. buf' \in [Files -> Buffer] /\ inputs' \in [Jobs -> Seq(Chunks)]
  BY DeviceHolds
<1>4. pull' \in [Jobs -> Pull] /\ link' \in BOOLEAN
  BY PullersHold
<1>5. out' \in Seq(Out) /\ flush' \in Seq(Out) /\ done' \in Seq(Out)
  BY FramesHold DEF Framed
<1>6. gbuf' \in [Jobs -> Pulled] /\ rows' \in [Jobs -> Nat] /\ history' \in History
  BY PaidHolds, HistoryHolds
<1> QED
  BY <1>1, <1>2, <1>3, <1>4, <1>5, <1>6 DEF Types

LEMMA NextInv == Inv /\ [Next]_vars => Inv'
<1> SUFFICES ASSUME Inv, [Next]_vars PROVE Inv'
  OBVIOUS
<1>0. Types /\ Opened /\ Pushing /\ Dispatched /\ Told /\ Placed /\ Paid /\ Pulling /\ Streams
  BY DEF Inv
<1>1. CASE Next
  <2>1. Types' /\ Opened' /\ Pushing' /\ Dispatched'
    BY <1>0, <1>1, TypesHold, OpenedHolds, PushingHolds, DispatchedHolds
  <2>2. Told' /\ Placed' /\ Paid'
    BY <1>0, <1>1, ToldHolds, PlacedHolds, PaidHolds
  <2>3. Pulling' /\ Streams'
    BY <1>0, <1>1, PullingHolds, StreamsHold
  <2> QED
    BY <2>1, <2>2, <2>3 DEF Inv
<1>2. CASE UNCHANGED vars
  <2> USE DEF vars, gateway, device, toGateway
  <2>1. Types' /\ Pushing' /\ Paid'
    BY <1>0, <1>2 DEF Types, Pushing, Paid
  <2>2. Opened' /\ Placed'
    BY <1>0, <1>2 DEF Opened, Placed, Wiped
  <2>3. Dispatched' /\ Told'
    BY <1>0, <1>2 DEF Dispatched, Told
  <2>4. Pulling'
    BY <1>0, <1>2 DEF Pulling, Wiped
  <2>5. Streams'
    BY <1>0, <1>2 DEF Streams
  <2> QED
    BY <2>1, <2>2, <2>3, <2>4, <2>5 DEF Inv
<1> QED
  BY <1>1, <1>2

\* Files, buffers, attempts and frames keep their types, and outputs are
\* registered at most once for each BEGIN, whatever either end sends again:
\* OnFilePullEnd takes the buffer away before it looks whether it is complete,
\* so a repeated END finds none.
THEOREM TransfersHold == Spec => []TransferSound
<1>1. Inv => TransferSound
  <2> SUFFICES ASSUME Inv PROVE TransferSound
    OBVIOUS
  <2>1. Types /\ Paid
    BY DEF Inv
  <2>2. TypeOK
    <3>1. \A i \in DOMAIN down : down[i] \in Down
      BY <2>1, QueueOps DEF Types
    <3>2. \A q \in {out, flush, done} : \A i \in DOMAIN q : q[i] \in Out
      BY <2>1, QueueOps DEF Types
    <3> QED
      BY <2>1, <3>1, <3>2 DEF Types, TypeOK
  <2>3. RegisteredPerBegin
    <3>1. \A j \in Jobs : rows[j] \in Nat /\ history.begins[j] \in Nat
      BY <2>1 DEF Types, History
    <3> QED
      BY <2>1, <3>1 DEF Paid, RegisteredPerBegin
  <2> QED
    BY <2>2, <2>3 DEF TransferSound
<1> QED
  BY InitInv, NextInv, <1>1, PTL DEF Spec

\* A file is recorded as staged_device only when it was whole in a job's
\* workspace, or that job was over, however the chunks of several pushes of it
\* are mixed: the open file of an id holds what was hashed for it, and only an
\* answer that says the hash is right lets OnFileAck set the status.
THEOREM StagedFilesWereWhole == Spec => []StagedWasWhole
<1>1. Inv => StagedWasWhole
  BY DEF Inv, Placed, StagedWasWhole
<1> QED
  BY InitInv, NextInv, <1>1, PTL DEF Spec

\* On a connection that lasts a job is over only after its output was
\* registered, whatever answers are lost and however often the puller begins
\* anew: behind the last BEGIN every chunk comes before the one END, and the
\* END before the result.
THEOREM OutputsComeFirst == Spec => []ResultAfterOutputs
<1>1. Inv => ResultAfterOutputs
  <2> SUFFICES ASSUME Inv, NEW j \in Jobs, job[j] = "over", Started(pull[j]), pull[j].try < Retries,
                      ~history.lost
               PROVE  rows[j] = 1
    BY DEF ResultAfterOutputs
  <2>1. Over(pull[j])
    BY DEF Inv, Pulling, Wiped
  <2>2. Stream(out, j, gbuf[j], rows[j], pull[j], job[j])
    BY DEF Inv, Streams
  <2> QED
    BY <2>1, <2>2 DEF Stream
<1> QED
  BY InitInv, NextInv, <1>1, PTL DEF Spec
=============================================================================
