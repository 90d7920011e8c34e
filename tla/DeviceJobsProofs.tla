--------------------------- MODULE DeviceJobsProofs ---------------------------
(***************************************************************************)
(* What is proved of a job on its device, for every set of jobs, frames    *)
(* and budgets. Each invariant comes with what it needs to be inductive:   *)
(* Typed, then Earned for the success that is reported, Known for the      *)
(* agent's row, Ordered and Single for one brain at a time, and Kept for   *)
(* the success that is recorded.                                           *)
(***************************************************************************)
EXTENDS DeviceJobs, SequenceTheorems, TLAPS

USE DeviceJobsConstantsOK

LEMMA UnsendType ==
  ASSUME NEW q \in Seq(Entry)
  PROVE  /\ Unsend(q) \in Seq(Entry) /\ Len(Unsend(q)) = Len(q)
         /\ Resend(q) \in Seq(Entry) /\ Len(Resend(q)) = Len(q)
<1>1. DOMAIN q = 1 .. Len(q) /\ Len(q) \in Nat /\ \A i \in 1 .. Len(q) : q[i] \in Entry
  BY LenProperties, ElementOfSeq
<1>2. /\ Unsend(q) \in [1 .. Len(q) -> Entry]
      /\ Resend(q) \in [1 .. Len(q) -> Entry]
  BY <1>1 DEF Unsend, Resend, Entry
<1>3. \A s \in [1 .. Len(q) -> Entry] : s \in Seq(Entry) /\ Len(s) = Len(q)
  BY <1>1
<1> QED
  BY <1>2, <1>3

LEMMA SurvivorsType ==
  ASSUME NEW q \in Seq(Frame), NEW r \in Survivors(q)
  PROVE  /\ r \in Seq(Frame)
         /\ \A i \in DOMAIN r : \E k \in DOMAIN q : r[i] = q[k]
<1>1. DOMAIN q = 1 .. Len(q) /\ Len(q) \in Nat /\ \A i \in 1 .. Len(q) : q[i] \in Frame
  BY LenProperties, ElementOfSeq
<1> DEFINE Some(n) == {[i \in 1 .. n |-> q[f[i]]] :
                         f \in {g \in [1 .. n -> DOMAIN q] :
                                 \A x, y \in 1 .. n : g[x] = g[y] => x = y}}
<1>s. \E n \in 0 .. Len(q) : r \in Some(n)
  <2>1. r \in UNION {Some(n) : n \in 0 .. Len(q)}
    BY DEF Survivors
  <2> HIDE DEF Some
  <2> QED
    BY <2>1
<1>2. PICK n \in 0 .. Len(q) : \E f \in [1 .. n -> DOMAIN q] : r = [i \in 1 .. n |-> q[f[i]]]
  <2>1. PICK n \in 0 .. Len(q) : r \in Some(n)
    BY <1>s
  <2> QED
    BY <2>1
<1>f. PICK f \in [1 .. n -> DOMAIN q] : r = [i \in 1 .. n |-> q[f[i]]]
  BY <1>2
<1>3. r \in [1 .. n -> Frame] /\ n \in Nat
  BY <1>1, <1>f
<1>4. r \in Seq(Frame) /\ DOMAIN r = 1 .. n
  BY <1>3
<1> QED
  BY <1>f, <1>4

LEMMA WithoutType ==
  ASSUME NEW S, NEW q \in Seq(S), NEW i \in DOMAIN q
  PROVE  /\ Without(q, i) \in Seq(S)
         /\ \A k \in DOMAIN Without(q, i) : \E m \in DOMAIN q : Without(q, i)[k] = q[m]
<1>1. DOMAIN q = 1 .. Len(q) /\ Len(q) \in Nat /\ i \in Nat /\ i \in 1 .. Len(q)
  BY LenProperties
<1> DEFINE a == SubSeq(q, 1, i - 1)
           b == SubSeq(q, i + 1, Len(q))
<1>2. a \in Seq(S) /\ Len(a) = i - 1 /\ \A k \in 1 .. i - 1 : a[k] = q[k]
  BY <1>1, ElementOfSeq, SubSeqProperties
<1>3. b \in Seq(S) /\ Len(b) = Len(q) - i /\ \A k \in 1 .. Len(q) - i : b[k] = q[i + k]
  BY <1>1, ElementOfSeq, SubSeqProperties
<1> HIDE DEF a, b
<1>c. Len(a) + Len(b) = Len(q) - 1
  BY <1>1, <1>2, <1>3
<1>4. /\ a \o b \in Seq(S) /\ Len(a \o b) = Len(q) - 1
      /\ \A k \in 1 .. Len(q) - 1 : (a \o b)[k] = IF k <= i - 1 THEN a[k] ELSE b[k - (i - 1)]
  <2>1. /\ a \o b \in Seq(S) /\ Len(a \o b) = Len(a) + Len(b)
        /\ \A k \in 1 .. Len(a) + Len(b) : (a \o b)[k] = IF k <= Len(a) THEN a[k] ELSE b[k - Len(a)]
    <3>1. a \in Seq(S) /\ b \in Seq(S)
      BY <1>2, <1>3
    <3> QED
      BY <3>1, ConcatProperties, Zenon
  <2> QED
    BY <2>1, <1>c, <1>2
<1>5. Without(q, i) = a \o b
  BY DEF Without, a, b
<1>6. DOMAIN Without(q, i) = 1 .. Len(q) - 1
  BY <1>4, <1>5, LenProperties
<1>7. ASSUME NEW k \in 1 .. Len(q) - 1 PROVE \E m \in DOMAIN q : Without(q, i)[k] = q[m]
  <2>1. CASE k <= i - 1
    <3>0. k \in Int /\ k >= 1
      BY <1>1
    <3>1. Without(q, i)[k] = a[k] /\ k \in 1 .. i - 1
      BY <1>1, <1>4, <1>5, <2>1, <3>0
    <3>2. a[k] = q[k] /\ k \in 1 .. Len(q)
      BY <1>1, <1>2, <3>1
    <3> QED
      BY <1>1, <3>1, <3>2
  <2>2. CASE ~ k <= i - 1
    <3>1. Without(q, i)[k] = b[k - (i - 1)] /\ k - (i - 1) \in 1 .. Len(q) - i
      BY <1>1, <1>4, <1>5, <2>2
    <3>2. b[k - (i - 1)] = q[i + (k - (i - 1))] /\ i + (k - (i - 1)) \in 1 .. Len(q)
      BY <1>1, <1>3, <3>1, <2>2
    <3> QED
      BY <1>1, <3>1, <3>2
  <2> QED
    BY <2>1, <2>2
<1> QED
  BY <1>4, <1>5, <1>6, <1>7

-----------------------------------------------------------------------------
(* Type correctness                                                        *)

Says    == {"running"} \cup Terminal
RowSays == {"none", "queued"} \cup Says
GwSays  == {"none", "dispatched"} \cup Says

DispOK  == /\ disp \in [Calls -> Dispatcher]
           /\ \A c \in Calls : disp[c].pc = "pulled" => disp[c].says \in Terminal
GwOK    == gw \in [status : [Jobs -> GwSays], agent : Jobs \cup {NoJob}, of : Assignments]
ReadOK  == /\ reader \in [job : Jobs \cup {NoJob}, call : Calls \cup {NoCall}]
           /\ reader.job # NoJob <=> reader.call # NoCall
AgentOK == /\ exec \in [cur : Calls \cup {NoCall}, cancels : SUBSET Calls]
           /\ task \in [Calls -> RunTask]
Oddities == {"drop", "restart", "fault", "cancel", "late", "early", "stale", "clobber"}
HistOK  == history \in [ran : SUBSET Calls, finished : SUBSET Jobs, reported : SUBSET Jobs,
                        odd : SUBSET Oddities]
LeftOK  == left \in [{"drops", "restarts", "faults", "cancels", "events"} -> Nat]

Typed == /\ row \in Jobs \cup {NoJob}
         /\ jrow \in [Jobs -> RowSays]
         /\ DispOK /\ ReadOK /\ AgentOK
         /\ link \in BOOLEAN
         /\ outbox \in Seq(Entry) /\ down \in Seq(Frame)
         /\ GwOK /\ HistOK /\ LeftOK

LEMMA TypedIsTyped == Typed => TypeOK
  BY DEF Typed, TypeOK, DispOK, GwOK, ReadOK, AgentOK, Says, RowSays, GwSays

LEMMA JobOfType ==
  ASSUME GwOK, NEW c \in Calls
  PROVE  JobOf(c) \in Jobs
  BY DEF GwOK, JobOf

LEMMA PutDispType ==
  ASSUME DispOK, NEW c \in Calls, NEW r \in Dispatcher, disp' = [disp EXCEPT ![c] = r],
         r.pc = "pulled" => r.says \in Terminal
  PROVE  DispOK'
  BY DEF DispOK

LEMMA SetDispType ==
  ASSUME DispOK, NEW c \in Calls, NEW l \in DispState, l # "pulled", SetDisp(c, l)
  PROVE  DispOK'
  BY DEF DispOK, SetDisp, Dispatcher

LEMMA PersistType ==
  ASSUME NEW q \in Seq(Entry), NEW j \in Jobs, NEW s \in Says, link \in BOOLEAN
  PROVE  Persist(q, j, s) \in Seq(Entry)
<1>1. [job |-> j, says |-> s, sent |-> link] \in Entry
  BY DEF Entry, Says
<1> QED
  BY <1>1, AppendProperties DEF Persist

LEMMA SpendType ==
  ASSUME LeftOK, NEW w \in {"drops", "restarts", "faults", "cancels"}, Spend(w)
  PROVE  LeftOK'
<1>1. left[w] \in Nat /\ left.events \in Nat /\ left[w] > 0 /\ left.events > 0
  BY DEF LeftOK, Spend
<1>2. PICK m \in Nat, n \in Nat : m = left[w] - 1 /\ n = left.events - 1
  BY <1>1
<1>3. left' = [left EXCEPT ![w] = m, !.events = n]
  BY <1>2 DEF Spend
<1> QED
  BY <1>3 DEF LeftOK

LEMMA OddType ==
  ASSUME HistOK, NEW what, what \subseteq Oddities, Odd(what)
  PROVE  HistOK' /\ history'.odd = history.odd \cup what
         /\ \A f \in {"ran", "finished", "reported"} : history'[f] = history[f]
  BY DEF HistOK, Odd

LEMMA PollFailsType ==
  ASSUME Typed, NEW c \in Calls, NEW q \in Seq(Entry), PollFails(c, q)
  PROVE  DispOK' /\ outbox' \in Seq(Entry) /\ jrow' \in [Jobs -> RowSays]
<1>1. JobOf(c) \in Jobs
  BY JobOfType DEF Typed
<1>2. disp[c] \in Dispatcher /\ disp[c].failures \in 0 .. MaxFailures - 1
  BY DEF Typed, DispOK, Dispatcher
<1>3. CASE disp[c].failures + 1 < MaxFailures
  <2>1. disp[c].failures + 1 \in 0 .. MaxFailures - 1
    BY <1>2, <1>3
  <2>2. [disp[c] EXCEPT !.failures = disp[c].failures + 1, !.pc = "polling"] \in Dispatcher
    BY <1>2, <2>1 DEF Dispatcher, DispState, Live
  <2>3. /\ disp' = [disp EXCEPT ![c] = [disp[c] EXCEPT !.failures = disp[c].failures + 1, !.pc = "polling"]]
        /\ outbox' = q /\ jrow' = jrow
    BY <1>3 DEF PollFails
  <2> DEFINE r == [disp[c] EXCEPT !.failures = disp[c].failures + 1, !.pc = "polling"]
  <2>4. r.pc = "polling"
    BY <1>2 DEF Dispatcher
  <2> HIDE DEF r
  <2> QED
    BY <2>2, <2>3, <2>4, PutDispType DEF Typed, r
<1>4. CASE ~ (disp[c].failures + 1 < MaxFailures)
  <2>1. 0 \in 0 .. MaxFailures - 1
    OBVIOUS
  <2>2. Persist(q, JobOf(c), "failed") \in Seq(Entry)
    BY <1>1, PersistType DEF Typed, Says, Terminal
  <2> DEFINE r == [disp[c] EXCEPT !.failures = 0, !.pc = IF link THEN "cleanup" ELSE "failing"]
  <2>3. r \in Dispatcher
    BY <1>2, <2>1 DEF Dispatcher, DispState, Live
  <2>4. /\ disp' = [disp EXCEPT ![c] = r]
        /\ outbox' = Persist(q, JobOf(c), "failed")
        /\ jrow' = [jrow EXCEPT ![JobOf(c)] = "failed"]
    BY <1>4 DEF PollFails
  <2>5. r.pc # "pulled"
    BY <1>2 DEF Dispatcher
  <2> HIDE DEF r
  <2>6. DispOK'
    BY <2>3, <2>4, <2>5, PutDispType DEF Typed
  <2> QED
    BY <1>1, <2>2, <2>4, <2>6 DEF Typed, RowSays, Says, Terminal
<1> QED
  BY <1>3, <1>4

LEMMA InterruptedType ==
  ASSUME NEW r \in RunTask
  PROVE  Interrupted(r) \in RunTask
  BY DEF Interrupted, RunTask, TaskState, Terminal

LEMMA GatewayTyped ==
  ASSUME Typed, Gateway
  PROVE  Typed'
<1>1. ASSUME NEW c \in Calls, Dispatch(c) \/ Redispatch(c) PROVE Typed'
  <2>1. [call |-> c] \in Frame
    BY DEF Frame
  <2>2. Append(down, [call |-> c]) \in Seq(Frame)
    BY <2>1, AppendProperties DEF Typed
  <2>3. DispOK'
    BY <1>1, SetDispType DEF Dispatch, Redispatch, Typed, DispState
  <2>4. JobOf(c) \in Jobs
    BY JobOfType DEF Typed
  <2>5. GwOK'
    <3>1. CASE Redispatch(c)
      BY <3>1 DEF Redispatch, Typed, GwOK
    <3>2. CASE Dispatch(c)
      <4>1. gw' = [gw EXCEPT !.agent = JobOf(c), !.status = [gw.status EXCEPT ![JobOf(c)] = "dispatched"]]
        BY <3>2 DEF Dispatch
      <4> QED
        BY <2>4, <4>1 DEF Typed, GwOK, GwSays
    <3> QED
      BY <1>1, <3>1, <3>2
  <2> QED
    BY <1>1, <2>2, <2>3, <2>5
       DEF Dispatch, Redispatch, Typed, agent, ReadOK, AgentOK, HistOK, LeftOK
<1>2. ASSUME NEW j \in Jobs, CancelJob(j) PROVE Typed'
  <2>1. [cancel |-> j] \in Frame
    BY DEF Frame
  <2>2. Append(down, [cancel |-> j]) \in Seq(Frame)
    BY <2>1, AppendProperties DEF Typed
  <2>3. LeftOK'
    BY <1>2, SpendType DEF CancelJob, Typed
  <2>4. GwOK' /\ HistOK'
    BY <1>2, OddType DEF CancelJob, Typed, GwOK, GwSays, Says, Terminal, Oddities, Stale
  <2> QED
    BY <1>2, <2>2, <2>3, <2>4 DEF CancelJob, Typed, device, agent, DispOK, ReadOK, AgentOK
<1> QED
  BY <1>1, <1>2 DEF Gateway

LEMMA HandledType ==
  ASSUME Typed, NEW i \in 1 .. Len(outbox), NEW drop, drop \subseteq {"drop"}, Handled(i, drop)
  PROVE  GwOK' /\ HistOK' /\ outbox[i] \in Entry
<1>1. outbox[i] \in Entry
  BY ElementOfSeq DEF Typed
<1>2. outbox[i].job \in Jobs /\ outbox[i].says \in Says
  BY <1>1 DEF Entry, Says
<1>3. HistOK'
  BY OddType DEF Handled, Typed, Oddities, Stale
<1> QED
  BY <1>1, <1>2, <1>3 DEF Handled, Typed, GwOK, GwSays

LEMMA TunnelTyped ==
  ASSUME Typed,
         \/ \E i \in 1 .. Len(outbox) : Deliver(i) \/ DeliverAndDrop(i)
         \/ Drop \/ Reconnect \/ Restart
  PROVE  Typed'
<1>1. ASSUME NEW i \in 1 .. Len(outbox), Deliver(i) PROVE Typed'
  <2>1. Without(outbox, i) \in Seq(Entry)
    BY WithoutType, LenProperties DEF Typed
  <2>2. GwOK' /\ HistOK'
    BY <1>1, HandledType DEF Deliver
  <2> QED
    BY <1>1, <2>1, <2>2
       DEF Deliver, Typed, device, agent, DispOK, ReadOK, AgentOK, LeftOK
<1>2. Unsend(outbox) \in Seq(Entry) /\ Resend(outbox) \in Seq(Entry)
  BY UnsendType DEF Typed
<1>3. down' \in Survivors(down) => down' \in Seq(Frame)
  BY SurvivorsType DEF Typed
<1>4. ASSUME NEW i \in 1 .. Len(outbox), DeliverAndDrop(i) PROVE Typed'
  <2>1. GwOK' /\ HistOK'
    BY <1>4, HandledType DEF DeliverAndDrop
  <2>2. LeftOK'
    BY <1>4, SpendType DEF DeliverAndDrop, Typed
  <2> QED
    BY <1>2, <1>3, <1>4, <2>1, <2>2
       DEF DeliverAndDrop, Typed, device, agent, DispOK, ReadOK, AgentOK
<1>5. CASE Drop
  <2>1. LeftOK' /\ HistOK'
    BY <1>5, SpendType, OddType DEF Drop, Typed, Oddities
  <2> QED
    BY <1>2, <1>3, <1>5, <2>1
       DEF Drop, Typed, device, agent, DispOK, ReadOK, AgentOK, GwOK
<1>6. CASE Reconnect
  BY <1>2, <1>6 DEF Reconnect, Typed, device, agent, DispOK, ReadOK, AgentOK, HistOK, GwOK, LeftOK
<1>7. CASE Restart
  <2>1. LeftOK' /\ HistOK'
    BY <1>7, SpendType, OddType DEF Restart, Typed, Oddities
  <2>2. DispOK'
    <3>1. ASSUME NEW c \in Calls
          PROVE  /\ disp[c] \in Dispatcher /\ [disp[c] EXCEPT !.pc = "lost"] \in Dispatcher
                 /\ [disp[c] EXCEPT !.pc = "lost"].pc # "pulled"
      BY DEF Typed, DispOK, Dispatcher, DispState
    <3> DEFINE r(c) == IF disp[c].pc \in Live THEN [disp[c] EXCEPT !.pc = "lost"] ELSE disp[c]
    <3>2. disp' = [c \in Calls |-> r(c)]
      BY <1>7 DEF Restart
    <3>3. ASSUME NEW c \in Calls
          PROVE  r(c) \in Dispatcher /\ (r(c).pc = "pulled" => r(c).says \in Terminal)
      BY <3>1 DEF Typed, DispOK
    <3> HIDE DEF r
    <3> QED
      BY <3>2, <3>3 DEF DispOK
  <2>3. ReadOK'
    BY <1>7 DEF Restart, ReadOK
  <2> QED
    BY <1>2, <1>3, <1>7, <2>1, <2>2, <2>3 DEF Restart, Typed, agent, AgentOK, GwOK
<1> QED
  BY <1>1, <1>4, <1>5, <1>6, <1>7

LEMMA HandleTyped ==
  ASSUME Typed, NEW c \in Calls, Handle(c)
  PROVE  Typed'
<1> USE DEF Typed, device, agent, tunnel, ReadOK, HistOK, GwOK, LeftOK
<1>1. JobOf(c) \in Jobs
  BY JobOfType
<1>d. disp[c] \in Dispatcher /\ task[c] \in RunTask
  BY DEF DispOK, AgentOK
<1>2. CASE Accept(c)
  <2>1. Persist(outbox, JobOf(c), "running") \in Seq(Entry)
    BY <1>1, PersistType DEF Says
  <2>2. DispOK'
    <3>1. CASE link
      BY <1>2, <3>1, SetDispType DEF Accept, DispState, Live
    <3>2. CASE ~ link
      BY <1>2, <3>2, SetDispType DEF Accept, DispState, Live
    <3> QED
      BY <3>1, <3>2
  <2> QED
    BY <1>1, <1>2, <2>1, <2>2 DEF Accept, AgentOK, RowSays
<1>3. CASE Post(c)
  <2>1. DispOK'
    BY <1>3, SetDispType DEF Post, DispState, Live
  <2>2. AgentOK'
    <3>1. [task[c] EXCEPT !.pc = "created"] \in RunTask
      BY <1>d DEF RunTask, TaskState
    <3> QED
      BY <1>3, <3>1 DEF Post, AgentOK
  <2> QED
    BY <1>3, <2>1, <2>2 DEF Post
<1>4. CASE Refused(c)
  <2>1. DispOK'
    BY <1>4, SetDispType DEF Refused, DispState, Live
  <2> QED
    BY <1>4, <2>1 DEF Refused, AgentOK
<1>5. CASE Started(c)
  <2>1. DispOK'
    BY <1>5, SetDispType DEF Started, DispState, Live
  <2> QED
    BY <1>1, <1>5, <2>1 DEF Started, AgentOK, RowSays, Says
<1>6. CASE Poll(c)
  <2>1. exec.cur \in Calls /\ task[exec.cur] \in RunTask
    BY <1>6 DEF Poll, Knows, AgentOK
  <2>2. AgentOK'
    <3> DEFINE r == task[exec.cur]
               k == IF r.pc = "sleeping" /\ r.looks < Retention THEN r.looks + 1 ELSE r.looks
    <3>1. k \in 0 .. Retention
      BY <2>1 DEF RunTask
    <3>2. task' = [task EXCEPT ![exec.cur] = [r EXCEPT !.looks = k]] /\ exec' = exec
      BY <1>6 DEF Poll
    <3>3. [r EXCEPT !.looks = k] \in RunTask
      BY <2>1, <3>1 DEF RunTask
    <3> HIDE DEF r, k
    <3> QED
      BY <3>2, <3>3 DEF AgentOK
  <2>3. task[exec.cur].status \in {"running"} \cup Terminal
    BY <2>1 DEF RunTask
  <2>4. DispOK' /\ jrow' \in [Jobs -> RowSays] /\ outbox' \in Seq(Entry)
    <3>1. CASE PollFails(c, outbox)
      BY <3>1, PollFailsType
    <3>2. CASE ~ PollFails(c, outbox) /\ task[exec.cur].status \in Terminal
      <4>1. PollFinished(c, task[exec.cur].status)
        BY <1>6, <3>2 DEF Poll
      <4> DEFINE v == task[exec.cur].status
      <4>2. /\ disp' = [disp EXCEPT ![c].pc = "pulled", ![c].says = v]
            /\ jrow' = [jrow EXCEPT ![JobOf(c)] = v]
            /\ outbox' = outbox /\ v \in Terminal
        BY <3>2, <4>1 DEF PollFinished
      <4> HIDE DEF v
      <4> DEFINE r == [disp[c] EXCEPT !.pc = "pulled", !.says = v]
      <4>3. r \in Dispatcher /\ r.says = v
        BY <1>d, <4>2 DEF Dispatcher, DispState, Live
      <4>4. disp' = [disp EXCEPT ![c] = r]
        BY <4>2
      <4> HIDE DEF r
      <4>5. DispOK'
        BY <4>2, <4>3, <4>4, PutDispType
      <4> QED
        BY <1>1, <4>2, <4>5 DEF RowSays, Says
    <3>3. CASE ~ PollFails(c, outbox) /\ task[exec.cur].status \notin Terminal
      <4>1. PollRunning(c)
        BY <1>6, <3>3 DEF Poll
      <4>2. disp' = [disp EXCEPT ![c].failures = 0] /\ UNCHANGED <<jrow, outbox>>
        BY <3>3, <4>1 DEF PollRunning
      <4>3. 0 \in 0 .. MaxFailures - 1
        OBVIOUS
      <4>4. [disp[c] EXCEPT !.failures = 0] \in Dispatcher
        BY <1>d, <4>3 DEF Dispatcher
      <4> QED
        BY <4>2, <4>4 DEF DispOK, Dispatcher
    <3> QED
      BY <3>1, <3>2, <3>3
  <2> QED
    BY <1>6, <2>2, <2>4 DEF Poll
<1>7. CASE PollNotFound(c)
  <2>1. DispOK' /\ jrow' \in [Jobs -> RowSays] /\ outbox' \in Seq(Entry)
    BY <1>7, PollFailsType DEF PollNotFound
  <2> QED
    BY <1>7, <2>1 DEF PollNotFound, AgentOK
<1>8. CASE Report(c)
  <2>1. disp[c].says \in Terminal
    BY <1>8 DEF Report, DispOK
  <2> DEFINE q == Persist(outbox, JobOf(c), disp[c].says)
  <2>2. q \in Seq(Entry)
    BY <1>1, <2>1, PersistType DEF Says
  <2>3. DispOK' /\ jrow' \in [Jobs -> RowSays] /\ outbox' \in Seq(Entry)
    <3>1. CASE link
      <4>1. DispOK'
        BY <1>8, <3>1, SetDispType DEF Report, DispState, Live
      <4> QED
        BY <1>8, <2>2, <3>1, <4>1 DEF Report
    <3>2. CASE ~ link
      <4>1. PollFails(c, q)
        BY <1>8, <3>2 DEF Report
      <4> HIDE DEF q
      <4> QED
        BY <2>2, <4>1, PollFailsType
    <3> QED
      BY <3>1, <3>2
  <2>4. HistOK'
    BY <1>1, <1>8 DEF Report
  <2> QED
    BY <1>8, <2>3, <2>4 DEF Report, AgentOK
<1>9. CASE Fail(c)
  <2>1. Persist(outbox, JobOf(c), "failed") \in Seq(Entry)
    BY <1>1, PersistType DEF Says, Terminal
  <2>2. DispOK'
    BY <1>9, SetDispType DEF Fail, DispState, Live
  <2> QED
    BY <1>1, <1>9, <2>1, <2>2 DEF Fail, AgentOK, RowSays, Says, Terminal
<1>10. CASE Cleanup(c)
  <2>1. DispOK'
    BY <1>10, SetDispType DEF Cleanup, DispState, Live
  <2> QED
    BY <1>10, <2>1 DEF Cleanup, AgentOK
<1> QED
  BY <1>2, <1>3, <1>4, <1>5, <1>6, <1>7, <1>8, <1>9, <1>10 DEF Handle

LEMMA RunTaskMoves ==
  ASSUME NEW r \in RunTask, NEW p \in TaskState, NEW s \in Terminal
  PROVE  /\ [r EXCEPT !.pc = p] \in RunTask
         /\ [r EXCEPT !.status = s] \in RunTask
         /\ [r EXCEPT !.pc = p, !.status = s] \in RunTask
  BY DEF RunTask

LEMMA TasksTyped ==
  ASSUME Typed, NEW c \in Calls,
         \/ ReadDispatch(c) \/ PollTimesOut(c) \/ Unreachable(c) \/ PostFails(c)
         \/ QuotaFails(c) \/ StartRun(c) \/ Clear(c) \/ CancelReturns(c)
         \/ \E s \in {"succeeded", "failed"} : BrainEnds(c, s)
  PROVE  Typed'
<1> USE DEF Typed, device, agent, tunnel, ReadOK, HistOK, GwOK, LeftOK
<1>1. JobOf(c) \in Jobs
  BY JobOfType
<1>t. \A d \in Calls : disp[d] \in Dispatcher /\ task[d] \in RunTask
  BY DEF DispOK, AgentOK
<1>d. \A p \in TaskState : [task[c] EXCEPT !.pc = p] \in RunTask
  BY <1>t, RunTaskMoves DEF Terminal
<1>2. CASE ReadDispatch(c)
  <2>1. Tail(down) \in Seq(Frame)
    BY <1>2, HeadTailProperties DEF ReadDispatch
  <2>2. DispOK'
    BY <1>2, SetDispType DEF ReadDispatch, DispState, Live
  <2> QED
    BY <1>2, <2>1, <2>2 DEF ReadDispatch, AgentOK
<1>f. Persist(outbox, JobOf(c), "failed") \in Seq(Entry)
  BY <1>1, PersistType DEF Says, Terminal
<1>3. CASE PollTimesOut(c)
  <2>1. DispOK'
    <3>1. CASE link
      BY <1>3, <3>1, SetDispType DEF PollTimesOut, DispState, Live
    <3>2. CASE ~ link
      BY <1>3, <3>2, SetDispType DEF PollTimesOut, DispState, Live
    <3> QED
      BY <3>1, <3>2
  <2> QED
    BY <1>1, <1>3, <1>f, <2>1, OddType DEF PollTimesOut, AgentOK, RowSays, Says, Terminal, Oddities
<1>4. CASE Unreachable(c)
  <2>1. DispOK' /\ LeftOK' /\ HistOK'
    BY <1>4, SetDispType, SpendType, OddType DEF Unreachable, DispState, Live, Oddities
  <2> QED
    BY <1>4, <1>f, <2>1 DEF Unreachable, AgentOK
<1>5. CASE PostFails(c)
  <2>1. DispOK' /\ LeftOK' /\ HistOK'
    BY <1>5, SetDispType, SpendType, OddType DEF PostFails, DispState, Live, Oddities
  <2> QED
    BY <1>5, <2>1 DEF PostFails, AgentOK
<1>6. CASE QuotaFails(c)
  <2>1. LeftOK' /\ HistOK'
    BY <1>6, SpendType, OddType DEF QuotaFails, Oddities
  <2>2. AgentOK'
    BY <1>d, <1>6 DEF QuotaFails, AgentOK, TaskState
  <2> QED
    BY <1>6, <2>1, <2>2 DEF QuotaFails, DispOK
<1>7. CASE StartRun(c)
  <2>1. AgentOK'
    BY <1>d, <1>7 DEF StartRun, AgentOK, TaskState
  <2> QED
    BY <1>7, <2>1 DEF StartRun, DispOK
<1>8. CASE Clear(c)
  <2>1. AgentOK'
    BY <1>d, <1>8 DEF Clear, AgentOK, TaskState
  <2> QED
    BY <1>8, <2>1, OddType DEF Clear, Clobber, DispOK, Oddities
<1>9. CASE CancelReturns(c)
  <2>1. AgentOK'
    <3>1. ASSUME NEW d \in Calls PROVE [task[d] EXCEPT !.status = "cancelled"] \in RunTask
      BY <1>t, RunTaskMoves DEF TaskState, Terminal
    <3> QED
      BY <3>1, <1>9 DEF CancelReturns, AgentOK
  <2>2. reader.call = c => reader.job \in Jobs
    OBVIOUS
  <2>3. /\ row' \in Jobs \cup {NoJob} /\ jrow' \in [Jobs -> RowSays]
        /\ ReadOK'
    <3>1. CASE reader.call = c
      <4>1. /\ row' = NoJob /\ jrow' = [jrow EXCEPT ![reader.job] = "cancelled"]
            /\ reader' = [job |-> NoJob, call |-> NoCall]
        BY <1>9, <3>1 DEF CancelReturns, CancelDone
      <4> QED
        BY <2>2, <3>1, <4>1 DEF RowSays, Says, Terminal
    <3>2. CASE reader.call # c
      <4>1. row' = row /\ jrow' = jrow /\ reader' = reader
        BY <1>9, <3>2 DEF CancelReturns
      <4> QED
        BY <4>1
    <3> QED
      BY <3>1, <3>2
  <2>4. HistOK'
    BY <1>9, OddType DEF CancelReturns, Clobber, Oddities
  <2> QED
    BY <1>9, <2>1, <2>3, <2>4 DEF CancelReturns, DispOK
<1>10. ASSUME NEW s \in {"succeeded", "failed"}, BrainEnds(c, s) PROVE Typed'
  <2>1. AgentOK'
    <3>1. [task[c] EXCEPT !.pc = "sleeping", !.status = s] \in RunTask
      BY <1>t, RunTaskMoves DEF TaskState, Terminal
    <3> QED
      BY <3>1, <1>10 DEF BrainEnds, AgentOK
  <2> QED
    BY <1>1, <1>10, <2>1 DEF BrainEnds, DispOK
<1> QED
  BY <1>2, <1>3, <1>4, <1>5, <1>6, <1>7, <1>8, <1>9, <1>10

LEMMA ReadCancelTyped ==
  ASSUME Typed, NEW j \in Jobs, ReadCancel(j)
  PROVE  Typed'
<1> USE DEF Typed, HistOK, GwOK, LeftOK
<1>1. Tail(down) \in Seq(Frame)
  BY HeadTailProperties DEF ReadCancel
<1>2. AgentOK' /\ ReadOK' /\ row' \in Jobs \cup {NoJob} /\ jrow' \in [Jobs -> RowSays]
  <2>1. CASE jrow[j] # "none" /\ Knows(j)
    <3>1. exec.cur \in Calls /\ task[exec.cur] \in RunTask
      BY <2>1 DEF Knows, AgentOK
    <3>2. Interrupted(task[exec.cur]) \in RunTask
      BY <3>1, InterruptedType
    <3>3. /\ exec' = [exec EXCEPT !.cancels = @ \cup {exec.cur}]
          /\ task' = [task EXCEPT ![exec.cur] = Interrupted(task[exec.cur])]
          /\ reader' = [job |-> j, call |-> exec.cur]
          /\ UNCHANGED <<row, jrow>>
      BY <2>1 DEF ReadCancel
    <3> QED
      BY <3>1, <3>2, <3>3 DEF AgentOK, ReadOK
  <2>2. CASE jrow[j] # "none" /\ ~ Knows(j)
    BY <2>2 DEF ReadCancel, CancelDone, agent, AgentOK, ReadOK, RowSays, Says, Terminal
  <2>3. CASE jrow[j] = "none"
    BY <2>3 DEF ReadCancel, agent, AgentOK, ReadOK
  <2> QED
    BY <2>1, <2>2, <2>3
<1>3. HistOK'
  BY OddType DEF ReadCancel, Oddities
<1> QED
  BY <1>1, <1>2, <1>3 DEF ReadCancel, DispOK

LEMMA InitTyped == Init => Typed
<1> SUFFICES ASSUME Init PROVE Typed
  OBVIOUS
<1>1. <<>> \in Seq(Entry) /\ <<>> \in Seq(Frame)
  BY EmptySeq
<1>2. 0 \in 0 .. MaxFailures - 1 /\ 0 \in 0 .. Retention
  OBVIOUS
<1>3. DispOK /\ AgentOK
  BY <1>2 DEF Init, DispOK, AgentOK, Dispatcher, DispState, RunTask, TaskState
<1>4. GwOK /\ ReadOK
  BY DEF Init, GwOK, ReadOK, GwSays
<1>5. HistOK /\ LeftOK
  BY DEF Init, HistOK, LeftOK
<1> QED
  BY <1>1, <1>3, <1>4, <1>5 DEF Init, Typed, RowSays

LEMMA NextTyped == Typed /\ [Next]_vars => Typed'
<1> SUFFICES ASSUME Typed, [Next]_vars PROVE Typed'
  OBVIOUS
<1>1. CASE UNCHANGED vars
  BY <1>1 DEF vars, device, agent, tunnel, Typed, DispOK, ReadOK, AgentOK, GwOK, HistOK, LeftOK
<1>2. CASE Gateway
  BY <1>2, GatewayTyped
<1>3. CASE \/ DeliverNext \/ \E i \in 1 .. Len(outbox) : DeliverAndDrop(i)
           \/ Drop \/ Reconnect \/ Restart
  BY <1>3, TunnelTyped DEF DeliverNext
<1>4. ASSUME NEW c \in Calls, Handle(c) PROVE Typed'
  BY <1>4, HandleTyped
<1>5. ASSUME NEW c \in Calls,
             \/ Run(c) \/ ReadDispatch(c) \/ PollTimesOut(c)
             \/ Unreachable(c) \/ PostFails(c) \/ QuotaFails(c)
             \/ \E s \in {"succeeded", "failed"} : BrainEnds(c, s)
      PROVE  Typed'
  BY <1>5, TasksTyped DEF Run
<1>6. ASSUME NEW j \in Jobs, ReadCancel(j) PROVE Typed'
  BY <1>6, ReadCancelTyped
<1> QED
  BY <1>1, <1>2, <1>3, <1>4, <1>5, <1>6 DEF Next

\* Rows, tasks and queues keep the shapes of the code (dispatcher.py, executor.py,
\* client.py): a dispatcher that pulls outputs has seen a terminal status, so what
\* it reports is a result.
THEOREM TypeCorrect == Spec => []TypeOK
<1>1. Typed /\ [Next]_vars => Typed'
  BY NextTyped
<1> QED
  BY <1>1, InitTyped, TypedIsTyped, PTL DEF Spec

-----------------------------------------------------------------------------
(* What a step leaves alone                                                *)

LEMMA OfKept ==
  ASSUME Typed, [Next]_vars
  PROVE  \A c \in Calls : JobOf(c)' = JobOf(c)
<1>1. CASE UNCHANGED gw
  BY <1>1 DEF JobOf
<1>2. ASSUME NEW i \in 1 .. Len(outbox), NEW drop, Handled(i, drop) PROVE gw'.of = gw.of
  BY <1>2 DEF Handled, Typed, GwOK
<1>3. ASSUME Gateway PROVE gw'.of = gw.of
  BY <1>3 DEF Gateway, Dispatch, Redispatch, CancelJob, Typed, GwOK
<1>4. ASSUME NEW c \in Calls, Handle(c) \/ Run(c) \/ ReadDispatch(c) \/ PollTimesOut(c)
                              \/ Unreachable(c) \/ PostFails(c) \/ QuotaFails(c)
                              \/ \E s \in {"succeeded", "failed"} : BrainEnds(c, s)
      PROVE  UNCHANGED gw
  BY <1>4 DEF Handle, Run, ReadDispatch, PollTimesOut, Unreachable, PostFails, QuotaFails,
      BrainEnds, Accept, Post, Refused, Started, Poll, PollNotFound, Report, Fail, Cleanup,
      StartRun, Clear, CancelReturns
<1>5. CASE DeliverNext \/ \E i \in 1 .. Len(outbox) : DeliverAndDrop(i)
  BY <1>2, <1>5 DEF DeliverNext, Deliver, DeliverAndDrop, JobOf
<1>6. CASE Drop \/ Reconnect \/ Restart \/ \E j \in Jobs : ReadCancel(j)
  BY <1>1, <1>6 DEF Drop, Reconnect, Restart, ReadCancel
<1> QED
  BY <1>1, <1>3, <1>4, <1>5, <1>6 DEF Next, JobOf, vars

-----------------------------------------------------------------------------
(* A reported success was earned                                           *)

\* a dispatcher or a record that says "succeeded" speaks of a brain that finished
Earned == /\ \A c \in Calls : disp[c].says = "succeeded" => JobOf(c) \in history.finished
          /\ \A c \in Calls : task[c].status = "succeeded" => JobOf(c) \in history.finished
          /\ history.reported \subseteq history.finished

LEMMA EarnedKept ==
  ASSUME Typed, Earned, [Next]_vars,
         history.finished \subseteq history'.finished, history'.reported = history.reported,
         \A c \in Calls : disp'[c].says = disp[c].says,
         \A c \in Calls : task'[c].status \in {task[c].status, "cancelled"}
  PROVE  Earned'
  BY OfKept DEF Earned

\* what a dispatcher says changes at a poll only
LEMMA SetDispSays ==
  ASSUME DispOK, NEW c \in Calls, NEW l, SetDisp(c, l)
  PROVE  /\ \A d \in Calls : disp'[d].says = disp[d].says
         /\ \A d \in Calls \ {c} : disp'[d] = disp[d]
         /\ disp'[c].pc = l
  BY DEF DispOK, Dispatcher, SetDisp

LEMMA PollFailsSays ==
  ASSUME DispOK, NEW c \in Calls, NEW q, PollFails(c, q)
  PROVE  /\ \A d \in Calls : disp'[d].says = disp[d].says
         /\ \A d \in Calls \ {c} : disp'[d] = disp[d]
         /\ disp'[c].pc \in {"polling", "cleanup", "failing"}
<1>1. disp[c] \in Dispatcher
  BY DEF DispOK
<1>2. CASE disp[c].failures + 1 < MaxFailures
  BY <1>1, <1>2 DEF PollFails, DispOK, Dispatcher
<1>3. CASE ~ (disp[c].failures + 1 < MaxFailures)
  BY <1>1, <1>3 DEF PollFails, DispOK, Dispatcher
<1> QED
  BY <1>2, <1>3

LEMMA OddKeeps ==
  ASSUME HistOK, NEW what, Odd(what)
  PROVE  /\ history'.finished = history.finished /\ history'.reported = history.reported
         /\ history'.ran = history.ran /\ history'.odd = history.odd \cup what
  BY DEF HistOK, Odd

LEMMA HandleEarned ==
  ASSUME Typed, Earned, NEW c \in Calls, Handle(c)
  PROVE  Earned'
<1>0. [Next]_vars /\ DispOK /\ AgentOK /\ HistOK
  BY DEF Next, Typed
<1>1. CASE Accept(c) \/ Refused(c) \/ Started(c) \/ Fail(c) \/ Cleanup(c)
  <2>1. \E l : SetDisp(c, l)
    BY <1>1 DEF Accept, Refused, Started, Fail, Cleanup
  <2>2. UNCHANGED <<history, task>>
    BY <1>1 DEF Accept, Refused, Started, Fail, Cleanup, agent
  <2> QED
    BY <1>0, <2>1, <2>2, SetDispSays, EarnedKept
<1>2. CASE Post(c)
  <2>1. UNCHANGED history /\ SetDisp(c, "posted") /\ task' = [task EXCEPT ![c].pc = "created"]
    BY <1>2 DEF Post
  <2>2. \A d \in Calls : task'[d].status = task[d].status
    BY <1>0, <2>1 DEF AgentOK, RunTask
  <2> QED
    BY <1>0, <2>1, <2>2, SetDispSays, EarnedKept
<1>3. CASE PollNotFound(c)
  <2>1. PollFails(c, outbox) /\ UNCHANGED <<history, task>>
    BY <1>3 DEF PollNotFound, agent
  <2> QED
    BY <1>0, <2>1, PollFailsSays, EarnedKept
<1>4. CASE Report(c)
  <2>1. \A d \in Calls : disp'[d].says = disp[d].says
    BY <1>0, <1>4, SetDispSays, PollFailsSays DEF Report
  <2>2. /\ history'.finished = history.finished /\ task' = task
        /\ history'.reported = IF disp[c].says = "succeeded"
                               THEN history.reported \cup {JobOf(c)} ELSE history.reported
    BY <1>0, <1>4 DEF Report, HistOK, agent
  <2> QED
    BY <1>0, <2>1, <2>2, OfKept DEF Earned
<1>5. CASE Poll(c)
  <2>1. exec.cur \in Calls /\ JobOf(exec.cur) = JobOf(c)
    BY <1>0, <1>5 DEF Poll, Knows, AgentOK
  <2>2. \A d \in Calls : task'[d].status = task[d].status
    BY <1>0, <1>5, <2>1 DEF Poll, AgentOK, RunTask
  <2>3. ASSUME NEW d \in Calls, disp'[d].says = "succeeded"
        PROVE  JobOf(d) \in history.finished
    <3>1. CASE PollFails(c, outbox) \/ disp' = [disp EXCEPT ![c].failures = 0]
      <4>1. disp'[d].says = disp[d].says
        BY <1>0, <3>1, PollFailsSays DEF DispOK, Dispatcher
      <4> QED
        BY <2>3, <4>1 DEF Earned
    <3>2. CASE disp' = [disp EXCEPT ![c].pc = "pulled", ![c].says = task[exec.cur].status]
      <4>1. CASE d = c
        BY <1>0, <2>1, <2>3, <3>2, <4>1 DEF Earned, DispOK, Dispatcher
      <4>2. CASE d # c
        BY <1>0, <2>3, <3>2, <4>2 DEF Earned, DispOK
      <4> QED
        BY <4>1, <4>2
    <3> QED
      BY <1>5, <3>1, <3>2 DEF Poll, PollFinished, PollRunning
  <2>4. history' = history
    BY <1>5 DEF Poll
  <2> QED
    BY <1>0, <2>2, <2>3, <2>4, OfKept DEF Earned
<1> QED
  BY <1>1, <1>2, <1>3, <1>4, <1>5 DEF Handle

LEMMA NextEarned == Typed /\ Earned /\ [Next]_vars => Earned'
<1> SUFFICES ASSUME Typed, Earned, [Next]_vars PROVE Earned'
  OBVIOUS
<1>0. DispOK /\ AgentOK /\ HistOK
  BY DEF Typed
<1>1. CASE UNCHANGED <<disp, task, history>>
  BY <1>1, EarnedKept
<1>2. ASSUME NEW what, Odd(what), UNCHANGED <<disp, task>> PROVE Earned'
  BY <1>0, <1>2, OddKeeps, EarnedKept
<1>3. ASSUME Gateway PROVE Earned'
  <2>1. ASSUME NEW c \in Calls, Dispatch(c) \/ Redispatch(c) PROVE Earned'
    <3>1. UNCHANGED <<task, history>> /\ SetDisp(c, "sent")
      BY <2>1 DEF Dispatch, Redispatch, agent
    <3> QED
      BY <1>0, <3>1, SetDispSays, EarnedKept
  <2>2. ASSUME NEW j \in Jobs, CancelJob(j) PROVE Earned'
    BY <1>2, <2>2 DEF CancelJob, device, agent
  <2> QED
    BY <1>3, <2>1, <2>2 DEF Gateway
<1>4. CASE DeliverNext \/ \E i \in 1 .. Len(outbox) : DeliverAndDrop(i)
  BY <1>2, <1>4 DEF DeliverNext, Deliver, DeliverAndDrop, Handled, device, agent
<1>5. CASE Drop \/ Reconnect
  BY <1>1, <1>2, <1>5 DEF Drop, Reconnect, device, agent
<1>6. CASE Restart
  <2>1. \A c \in Calls : disp'[c].says = disp[c].says
    BY <1>0, <1>6 DEF Restart, DispOK, Dispatcher
  <2> QED
    BY <1>0, <1>6, <2>1, OddKeeps, EarnedKept DEF Restart, agent
<1>7. ASSUME NEW c \in Calls, Handle(c) PROVE Earned'
  BY <1>7, HandleEarned
<1>8. ASSUME NEW c \in Calls, ReadDispatch(c) \/ PollTimesOut(c) \/ Unreachable(c) \/ PostFails(c)
      PROVE  Earned'
  <2>1. task' = task /\ \E l : SetDisp(c, l)
    BY <1>8 DEF ReadDispatch, PollTimesOut, Unreachable, PostFails, agent
  <2>2. history' = history \/ \E what : Odd(what)
    BY <1>8 DEF ReadDispatch, PollTimesOut, Unreachable, PostFails
  <2> QED
    BY <1>0, <2>1, <2>2, SetDispSays, OddKeeps, EarnedKept
<1>9. ASSUME NEW c \in Calls, QuotaFails(c) \/ Clear(c) \/ StartRun(c) PROVE Earned'
  <2>1. disp' = disp /\ \E l : task' = [task EXCEPT ![c].pc = l]
    BY <1>9 DEF QuotaFails, Clear, StartRun, device
  <2>2. \A d \in Calls : task'[d].status = task[d].status
    BY <1>0, <2>1 DEF AgentOK, RunTask
  <2>3. history'.finished = history.finished /\ history'.reported = history.reported
    BY <1>0, <1>9, OddKeeps DEF QuotaFails, Clear, StartRun, Clobber, HistOK
  <2> QED
    BY <2>1, <2>2, <2>3, EarnedKept
<1>10. ASSUME NEW c \in Calls, CancelReturns(c) PROVE Earned'
  <2>1. \A d \in Calls : task'[d].status \in {task[d].status, "cancelled"}
    BY <1>0, <1>10 DEF CancelReturns, AgentOK, RunTask
  <2> QED
    BY <1>0, <1>10, <2>1, OddKeeps, EarnedKept DEF CancelReturns, Clobber
<1>11. ASSUME NEW c \in Calls, NEW v \in {"succeeded", "failed"}, BrainEnds(c, v) PROVE Earned'
  <2>1. \A d \in Calls : task'[d].status = IF d = c THEN v ELSE task[d].status
    BY <1>0, <1>11 DEF BrainEnds, AgentOK, RunTask
  <2>2. /\ history'.finished = IF v = "succeeded" THEN history.finished \cup {JobOf(c)}
                               ELSE history.finished
        /\ history'.reported = history.reported
    BY <1>0, <1>11 DEF BrainEnds, HistOK
  <2>3. disp' = disp
    BY <1>11 DEF BrainEnds, device
  <2> QED
    BY <2>1, <2>2, <2>3, OfKept DEF Earned
<1>12. ASSUME NEW j \in Jobs, ReadCancel(j) PROVE Earned'
  <2>1. \A d \in Calls : task'[d].status \in {task[d].status, "cancelled"}
    <3>1. CASE task' = task
      BY <3>1
    <3>2. CASE task' = [task EXCEPT ![exec.cur] = Interrupted(task[exec.cur])] /\ exec.cur \in Calls
      <4>1. Interrupted(task[exec.cur]).status \in {task[exec.cur].status, "cancelled"}
        BY <1>0, <3>2 DEF Interrupted, AgentOK, RunTask
      <4> QED
        BY <1>0, <3>2, <4>1 DEF AgentOK
    <3> QED
      BY <1>0, <1>12, <3>1, <3>2 DEF ReadCancel, Knows, AgentOK, agent
  <2> QED
    BY <1>0, <1>12, <2>1, OddKeeps, EarnedKept DEF ReadCancel
<1>13. CASE UNCHANGED vars
  BY <1>1, <1>13 DEF vars, device, agent
<1> QED
  BY <1>3, <1>4, <1>5, <1>6, <1>7, <1>8, <1>9, <1>10, <1>11, <1>12, <1>13 DEF Next, Run

\* A success that is reported was earned (_poll_progress, JobExecutor._run): what a
\* dispatcher says was copied from the record of the same job, and the record was
\* set by that job's brain.
THEOREM SuccessIsTruthful == Spec => []TruthfulSuccess
<1>1. Init => Earned
  BY DEF Init, Earned
<1>2. Earned => TruthfulSuccess
  BY DEF Earned, TruthfulSuccess
<1> QED
  BY <1>1, <1>2, InitTyped, NextTyped, NextEarned, PTL DEF Spec

-----------------------------------------------------------------------------
(* The agent's row names a job somebody works on                           *)

\* a frame about a job is sent after the gateway dispatched it
Known == /\ \A c \in Calls : disp[c].pc # "unsent" => gw.status[JobOf(c)] # "none"
         /\ \A i \in DOMAIN down, c \in Calls :
              down[i] = [call |-> c] => gw.status[JobOf(c)] # "none"
         /\ \A i \in DOMAIN down, j \in Jobs : down[i] = [cancel |-> j] => gw.status[j] # "none"

\* a job that was dispatched stays so
LEMMA StatusKept ==
  ASSUME Typed, [Next]_vars
  PROVE  \A j \in Jobs : gw.status[j] # "none" => gw'.status[j] # "none"
<1>1. CASE UNCHANGED gw
  BY <1>1
<1>2. ASSUME NEW i \in 1 .. Len(outbox), NEW drop, Handled(i, drop)
      PROVE  \A j \in Jobs : gw.status[j] # "none" => gw'.status[j] # "none"
  <2>1. outbox[i] \in Entry
    BY ElementOfSeq DEF Typed
  <2>2. outbox[i].says # "none"
    BY <2>1 DEF Entry, Terminal
  <2>3. gw'.status = [gw.status EXCEPT ![outbox[i].job] = outbox[i].says]
    BY <1>2 DEF Handled, Typed, GwOK
  <2>4. gw.status \in [Jobs -> GwSays]
    BY DEF Typed, GwOK
  <2> QED
    BY <2>2, <2>3, <2>4
<1>3. ASSUME Gateway PROVE \A j \in Jobs : gw.status[j] # "none" => gw'.status[j] # "none"
  <2>1. gw.status \in [Jobs -> GwSays]
    BY DEF Typed, GwOK
  <2>2. gw' = gw \/ \E j, v : gw'.status = [gw.status EXCEPT ![j] = v] /\ v \in {"dispatched", "cancelled"}
    BY <1>3, ZenonT(60) DEF Gateway, Dispatch, Redispatch, CancelJob, Typed, GwOK
  <2> QED
    BY <2>1, <2>2
<1>4. ASSUME NEW c \in Calls, Handle(c) \/ Run(c) \/ ReadDispatch(c) \/ PollTimesOut(c)
                              \/ Unreachable(c) \/ PostFails(c) \/ QuotaFails(c)
                              \/ \E s \in {"succeeded", "failed"} : BrainEnds(c, s)
      PROVE  UNCHANGED gw
  BY <1>4 DEF Handle, Run, ReadDispatch, PollTimesOut, Unreachable, PostFails, QuotaFails,
      BrainEnds, Accept, Post, Refused, Started, Poll, PollNotFound, Report, Fail, Cleanup,
      StartRun, Clear, CancelReturns
<1>5. CASE DeliverNext \/ \E i \in 1 .. Len(outbox) : DeliverAndDrop(i)
  BY <1>2, <1>5 DEF DeliverNext, Deliver, DeliverAndDrop
<1>6. CASE Drop \/ Reconnect \/ Restart \/ \E j \in Jobs : ReadCancel(j)
  BY <1>1, <1>6 DEF Drop, Reconnect, Restart, ReadCancel
<1> QED
  BY <1>1, <1>3, <1>4, <1>5, <1>6 DEF Next, vars

\* the frames of a queue that lost some, in whatever order
LEMMA KnownKept ==
  ASSUME Typed, Known, [Next]_vars,
         \A c \in Calls : disp'[c].pc # "unsent" => gw.status[JobOf(c)] # "none",
         \A i \in DOMAIN down' : \E k \in DOMAIN down : down'[i] = down[k]
  PROVE  Known'
<1>1. \A c \in Calls : JobOf(c)' = JobOf(c) /\ JobOf(c) \in Jobs
  BY OfKept, JobOfType DEF Typed
<1> QED
  BY <1>1, StatusKept DEF Known

LEMMA TailFrames ==
  ASSUME Typed, down # <<>>
  PROVE  /\ \A i \in DOMAIN Tail(down) : i + 1 \in DOMAIN down /\ Tail(down)[i] = down[i + 1]
         /\ 1 \in DOMAIN down /\ Head(down) = down[1]
         /\ \A i \in DOMAIN Tail(down) : i \in Nat \ {0}
<1>1. /\ Tail(down) \in Seq(Frame) /\ Len(Tail(down)) = Len(down) - 1
      /\ \A i \in 1 .. Len(Tail(down)) : Tail(down)[i] = down[i + 1]
  BY HeadTailProperties DEF Typed
<1>2. Len(down) \in Nat /\ Len(down) # 0 /\ DOMAIN down = 1 .. Len(down)
  BY EmptySeq, LenProperties DEF Typed
<1>3. DOMAIN Tail(down) = 1 .. Len(down) - 1
  BY <1>1, LenProperties
<1> QED
  BY <1>1, <1>2, <1>3

LEMMA SentKnown ==
  ASSUME Typed, Known, Gateway
  PROVE  Known'
<1>0. [Next]_vars /\ DispOK /\ \A c \in Calls : JobOf(c)' = JobOf(c) /\ JobOf(c) \in Jobs
  BY OfKept, JobOfType DEF Next, Typed
<1>1. ASSUME NEW f \in Frame, down' = Append(down, f)
      PROVE  \A i \in DOMAIN down' : down'[i] = f \/ (i \in DOMAIN down /\ down'[i] = down[i])
  <2>1. /\ Append(down, f) \in Seq(Frame) /\ Len(Append(down, f)) = Len(down) + 1
        /\ \A i \in 1 .. Len(down) : Append(down, f)[i] = down[i]
        /\ Append(down, f)[Len(down) + 1] = f
    BY AppendProperties DEF Typed
  <2>2. DOMAIN down = 1 .. Len(down) /\ Len(down) \in Nat /\ DOMAIN down' = 1 .. Len(down) + 1
    BY <1>1, <2>1, LenProperties DEF Typed
  <2> QED
    BY <1>1, <2>1, <2>2
<1>2. ASSUME NEW c \in Calls, Dispatch(c) \/ Redispatch(c) PROVE Known'
  <2>1. [call |-> c] \in Frame /\ down' = Append(down, [call |-> c]) /\ SetDisp(c, "sent")
    BY <1>2 DEF Dispatch, Redispatch, Frame
  <2>2. gw'.status[JobOf(c)] # "none"
    <3>1. CASE Dispatch(c)
      <4>1. gw'.status = [gw.status EXCEPT ![JobOf(c)] = "dispatched"]
        BY <3>1 DEF Dispatch, Typed, GwOK
      <4> QED
        BY <1>0, <4>1 DEF Typed, GwOK
    <3>2. CASE Redispatch(c)
      BY <3>2 DEF Redispatch
    <3> QED
      BY <1>2, <3>1, <3>2
  <2>3. \A d \in Calls : [call |-> d] = [call |-> c] => d = c
    OBVIOUS
  <2>4. \A j \in Jobs : [cancel |-> j] # [call |-> c]
    OBVIOUS
  <2>5. \A d \in Calls : disp'[d].pc # "unsent" => gw'.status[JobOf(d)] # "none"
    <3>1. \A d \in Calls \ {c} : disp'[d] = disp[d]
      BY <2>1, SetDispSays DEF Typed
    <3>2. ASSUME NEW d \in Calls, d # c, disp'[d].pc # "unsent" PROVE gw'.status[JobOf(d)] # "none"
      <4>1. gw.status[JobOf(d)] # "none"
        BY <3>1, <3>2 DEF Known
      <4> QED
        BY <1>0, <4>1, StatusKept
    <3> QED
      BY <1>0, <2>2, <3>2
  <2> QED
    BY <1>0, <1>1, <2>1, <2>2, <2>3, <2>4, <2>5, StatusKept DEF Known
<1>3. ASSUME NEW j \in Jobs, CancelJob(j) PROVE Known'
  <2>1. gw.status[j] # "none" /\ disp' = disp
    BY <1>3 DEF CancelJob, device
  <2>2. CASE down' = down
    BY <1>0, <2>1, <2>2, KnownKept DEF Known
  <2>3. CASE down' = Append(down, [cancel |-> j])
    <3>1. [cancel |-> j] \in Frame /\ \A c \in Calls : [cancel |-> j] # [call |-> c]
      BY DEF Frame
    <3>2. \A k \in Jobs : [cancel |-> k] = [cancel |-> j] => k = j
      OBVIOUS
    <3> QED
      BY <1>0, <1>1, <2>1, <2>3, <3>1, <3>2, StatusKept DEF Known
  <2> QED
    BY <1>3, <2>2, <2>3 DEF CancelJob
<1> QED
  BY <1>2, <1>3 DEF Gateway

LEMMA NextKnown == Typed /\ Known /\ [Next]_vars => Known'
<1> SUFFICES ASSUME Typed, Known, [Next]_vars PROVE Known'
  OBVIOUS
<1>0. DispOK /\ \A c \in Calls : disp[c].pc # "unsent" => gw.status[JobOf(c)] # "none"
  BY DEF Typed, Known
<1>1. CASE UNCHANGED <<disp, down>>
  BY <1>0, <1>1, KnownKept
<1>2. CASE Gateway
  BY <1>2, SentKnown
<1>3. ASSUME down' \in Survivors(down) PROVE \A i \in DOMAIN down' : \E k \in DOMAIN down : down'[i] = down[k]
  BY <1>3, SurvivorsType DEF Typed
<1>4. CASE DeliverNext \/ \E i \in 1 .. Len(outbox) : DeliverAndDrop(i)
  BY <1>0, <1>1, <1>3, <1>4, KnownKept DEF DeliverNext, Deliver, DeliverAndDrop, device
<1>5. CASE Drop \/ Reconnect
  BY <1>0, <1>1, <1>3, <1>5, KnownKept DEF Drop, Reconnect, device
<1>6. CASE Restart
  <2>1. \A c \in Calls : disp'[c].pc # "unsent" => disp[c].pc # "unsent"
    BY <1>0, <1>6 DEF Restart, DispOK, Live
  <2> QED
    BY <1>0, <1>3, <1>6, <2>1, KnownKept DEF Restart
<1>7. ASSUME NEW c \in Calls, ReadDispatch(c) PROVE Known'
  <2>1. \A i \in DOMAIN down' : \E k \in DOMAIN down : down'[i] = down[k]
    BY <1>7, TailFrames DEF ReadDispatch
  <2>2. gw.status[JobOf(c)] # "none"
    BY <1>7, TailFrames DEF ReadDispatch, Known
  <2> QED
    BY <1>0, <1>7, <2>1, <2>2, SetDispSays, KnownKept DEF ReadDispatch
<1>8. ASSUME NEW c \in Calls, Handle(c) \/ PollTimesOut(c) \/ Unreachable(c) \/ PostFails(c)
      PROVE  Known'
  <2>1. down' = down /\ disp[c].pc # "unsent"
    BY <1>8 DEF Handle, PollTimesOut, Unreachable, PostFails, Accept, Post, Refused, Started,
        Poll, PollNotFound, Report, Fail, Cleanup, tunnel
  <2>2. \A d \in Calls \ {c} : disp'[d] = disp[d]
    <3>1. \/ \E l : SetDisp(c, l)
          \/ \E q : PollFails(c, q)
          \/ \E r : disp' = [disp EXCEPT ![c] = r]
      BY <1>8 DEF Handle, PollTimesOut, Unreachable, PostFails, Accept, Post, Refused, Started,
          Poll, PollNotFound, PollFinished, PollRunning, Report, Fail, Cleanup
    <3> QED
      BY <1>0, <3>1, SetDispSays, PollFailsSays DEF DispOK
  <2> QED
    BY <1>0, <2>1, <2>2, KnownKept
<1>9. ASSUME NEW j \in Jobs, ReadCancel(j) PROVE Known'
  <2>1. \A i \in DOMAIN down' : \E k \in DOMAIN down : down'[i] = down[k]
    BY <1>9, TailFrames DEF ReadCancel
  <2> QED
    BY <1>0, <1>9, <2>1, KnownKept DEF ReadCancel
<1>10. ASSUME NEW c \in Calls, Run(c) \/ QuotaFails(c) \/ \E v \in {"succeeded", "failed"} : BrainEnds(c, v)
       PROVE  Known'
  BY <1>1, <1>10 DEF Run, QuotaFails, BrainEnds, StartRun, Clear, CancelReturns, device, tunnel
<1>11. CASE UNCHANGED vars
  BY <1>1, <1>11 DEF vars, device, tunnel
<1> QED
  BY <1>2, <1>4, <1>5, <1>6, <1>7, <1>8, <1>9, <1>10, <1>11 DEF Next

Working == Live \cup {"dead"}

LEMMA RowKept ==
  ASSUME Typed, RowNamesLiveJob, [Next]_vars, row' \in {row, NoJob},
         \A c \in Calls : disp[c].pc \in Working => disp'[c].pc \in Working
  PROVE  RowNamesLiveJob'
  BY OfKept DEF RowNamesLiveJob, Working

LEMMA NextRow == Typed /\ Known /\ RowNamesLiveJob /\ [Next]_vars => RowNamesLiveJob'
<1> SUFFICES ASSUME Typed, Known, RowNamesLiveJob, [Next]_vars PROVE RowNamesLiveJob'
  OBVIOUS
<1>0. DispOK
  BY DEF Typed
<1>1. CASE row' \in {row, NoJob} /\ UNCHANGED disp
  BY <1>1, RowKept
<1>2. ASSUME NEW c \in Calls, NEW l \in Working, SetDisp(c, l), row' \in {row, NoJob} PROVE RowNamesLiveJob'
  BY <1>0, <1>2, SetDispSays, RowKept
<1>3. CASE Gateway
  <2>1. ASSUME NEW c \in Calls, Dispatch(c) \/ Redispatch(c) PROVE RowNamesLiveJob'
    <3>1. SetDisp(c, "sent") /\ row' = row
      BY <2>1 DEF Dispatch, Redispatch
    <3>2. disp[c].pc = "unsent"
      BY <2>1 DEF Dispatch, Redispatch, Known
    <3>3. disp[c].pc \notin Working
      BY <3>2 DEF Working, Live
    <3> QED
      BY <1>0, <3>1, <3>3, SetDispSays, RowKept
  <2>2. ASSUME NEW j \in Jobs, CancelJob(j) PROVE RowNamesLiveJob'
    BY <1>1, <2>2 DEF CancelJob, device
  <2> QED
    BY <1>3, <2>1, <2>2 DEF Gateway
<1>4. CASE DeliverNext \/ (\E i \in 1 .. Len(outbox) : DeliverAndDrop(i)) \/ Drop \/ Reconnect
  BY <1>1, <1>4 DEF DeliverNext, Deliver, DeliverAndDrop, Drop, Reconnect, device
<1>5. CASE Restart
  BY <1>5 DEF Restart, RowNamesLiveJob
<1>6. ASSUME NEW c \in Calls, Accept(c) PROVE RowNamesLiveJob'
  <2>1. disp'[c].pc \in Working /\ row' = JobOf(c)
    BY <1>0, <1>6, SetDispSays DEF Accept, Working, Live
  <2> QED
    BY <2>1, OfKept DEF RowNamesLiveJob, Working
<1>7. ASSUME NEW c \in Calls, Cleanup(c) PROVE RowNamesLiveJob'
  <2>1. CASE link
    BY <1>7, <2>1 DEF Cleanup, RowNamesLiveJob
  <2>2. CASE ~ link
    BY <1>2, <1>7, <2>2 DEF Cleanup, Working
  <2> QED
    BY <2>1, <2>2
<1>8. ASSUME NEW c \in Calls,
             \/ Post(c) \/ Refused(c) \/ Started(c) \/ Fail(c)
             \/ ReadDispatch(c) \/ PollTimesOut(c) \/ Unreachable(c) \/ PostFails(c)
      PROVE  RowNamesLiveJob'
  BY <1>2, <1>8 DEF Post, Refused, Started, Fail, ReadDispatch, PollTimesOut, Unreachable,
      PostFails, Working, Live
<1>9. ASSUME NEW c \in Calls, Poll(c) \/ PollNotFound(c) \/ Report(c) PROVE RowNamesLiveJob'
  <2>1. row' = row /\ (disp[c].pc = "polling" \/ disp[c].pc = "pulled")
    BY <1>9 DEF Poll, PollNotFound, Report
  <2>2. \/ SetDisp(c, "cleanup")
        \/ \E q : PollFails(c, q)
        \/ \E v : disp' = [disp EXCEPT ![c].pc = "pulled", ![c].says = v]
        \/ disp[c].pc = "polling" /\ disp' = [disp EXCEPT ![c].failures = 0]
    BY <1>9 DEF Poll, PollNotFound, Report, PollFinished, PollRunning
  <2>3. disp'[c].pc \in Working /\ \A d \in Calls \ {c} : disp'[d] = disp[d]
    BY <1>0, <2>2, SetDispSays, PollFailsSays DEF DispOK, Dispatcher, Working, Live
  <2> QED
    BY <2>1, <2>3, RowKept
<1>10. ASSUME NEW c \in Calls, Run(c) \/ QuotaFails(c) \/ \E v \in {"succeeded", "failed"} : BrainEnds(c, v)
       PROVE  RowNamesLiveJob'
  BY <1>1, <1>10 DEF Run, QuotaFails, BrainEnds, StartRun, Clear, CancelReturns, CancelDone, device
<1>11. ASSUME NEW j \in Jobs, ReadCancel(j) PROVE RowNamesLiveJob'
  BY <1>1, <1>11 DEF ReadCancel, CancelDone
<1>12. CASE UNCHANGED vars
  BY <1>1, <1>12 DEF vars, device
<1> QED
  BY <1>3, <1>4, <1>5, <1>6, <1>7, <1>8, <1>9, <1>10, <1>11, <1>12 DEF Next, Handle

LEMMA InitKnown == Init => Known /\ RowNamesLiveJob
  BY DEF Init, Known, RowNamesLiveJob

\* The agent's row is never left with a job nobody works on (handle_job_dispatch,
\* handle_job_cancel, reconcile): a frame's dispatcher has not begun before the
\* gateway sends the frame, so sending one takes nobody away.
THEOREM RowIsReleased == Spec => []RowNamesLiveJob
  BY InitTyped, NextTyped, InitKnown, NextKnown, NextRow, PTL DEF Spec

-----------------------------------------------------------------------------
(* One brain at a time                                                     *)

\* nothing has happened that makes the device handle two frames at once
Settled  == history.odd \cap {"drop", "restart", "early", "stale"} = {}
Young(c) == disp[c].pc \in {"sent", "start", "waiting"}
Begun(c) == disp[c].pc \notin {"unsent", "sent", "start", "waiting"}
CallAt(p, c)   == p \in DOMAIN down /\ down[p] = [call |-> c]
CancelAt(p, j) == p \in DOMAIN down /\ down[p] = [cancel |-> j]

\* each job has one frame; a frame is in the queue exactly until it is read
OneFrame == \A c, d \in Calls : disp[c].pc # "unsent" /\ disp[d].pc # "unsent" /\ JobOf(c) = JobOf(d)
                                => c = d
InQueue  == \A c \in Calls :
              /\ \A p, q : CallAt(p, c) => (disp[c].pc = "sent" /\ (CallAt(q, c) => p = q))
              /\ disp[c].pc = "sent" => \E p : CallAt(p, c)
\* a job is cancelled after it was dispatched
CallFirst == \A c \in Calls : \A p, q : CallAt(p, c) /\ CancelAt(q, JobOf(c)) => p < q
\* a job the device has not posted has the agent, or its cancel is on the way
Holds     == \A c \in Calls : Young(c) => gw.agent = JobOf(c) \/ \E p : CancelAt(p, JobOf(c))
\* between another job's cancel and the frame of this one, or this one's cancel first
Apart     == \A c \in Calls, k \in Jobs : \A p : Young(c) /\ CancelAt(p, k) /\ k # JobOf(c) =>
               \E q : (CallAt(q, c) /\ p < q) \/ (CancelAt(q, JobOf(c)) /\ q < p)
\* a result is about a job whose dispatcher has ended or has posted it
Posted    == \A i \in DOMAIN outbox : outbox[i].says \in Terminal =>
               \E c \in Calls : JobOf(c) = outbox[i].job /\ Begun(c)
InOrder == link /\ OneFrame /\ InQueue /\ CallFirst /\ Holds /\ Apart /\ Posted
Ordered == Settled => InOrder

LEMMA OddGrows ==
  ASSUME Typed, [Next]_vars
  PROVE  history.odd \subseteq history'.odd
<1> USE DEF Typed
<1>1. CASE UNCHANGED history
  BY <1>1
<1>2. ASSUME NEW what, Odd(what) PROVE history.odd \subseteq history'.odd
  BY <1>2, OddKeeps
<1>3. CASE Gateway
  BY <1>2, <1>1, <1>3 DEF Gateway, Dispatch, Redispatch, CancelJob
<1>4. CASE \/ DeliverNext \/ \E i \in 1 .. Len(outbox) : DeliverAndDrop(i)
           \/ Drop \/ Reconnect \/ Restart
  BY <1>1, <1>2, <1>4 DEF DeliverNext, Deliver, DeliverAndDrop, Handled, Drop, Reconnect, Restart
<1>5. ASSUME NEW c \in Calls, Handle(c) PROVE history.odd \subseteq history'.odd
  BY <1>1, <1>5 DEF Handle, Accept, Post, Refused, Started, Poll, PollNotFound, Report, Fail,
      Cleanup, HistOK
<1>6. ASSUME NEW c \in Calls,
             \/ Run(c) \/ ReadDispatch(c) \/ PollTimesOut(c)
             \/ Unreachable(c) \/ PostFails(c) \/ QuotaFails(c)
             \/ \E s \in {"succeeded", "failed"} : BrainEnds(c, s)
      PROVE  history.odd \subseteq history'.odd
  BY <1>1, <1>2, <1>6 DEF Run, ReadDispatch, PollTimesOut, Unreachable, PostFails, QuotaFails,
      BrainEnds, StartRun, Clear, CancelReturns, Clobber, HistOK
<1>7. CASE \E j \in Jobs : ReadCancel(j)
  BY <1>2, <1>7 DEF ReadCancel
<1> QED
  BY <1>1, <1>3, <1>4, <1>5, <1>6, <1>7 DEF Next, vars

LEMMA AppendFrames ==
  ASSUME Typed, NEW f \in Frame, down' = Append(down, f)
  PROVE  /\ \A p : p \in DOMAIN down' <=> p \in DOMAIN down \/ p = Len(down) + 1
         /\ \A p \in DOMAIN down : p \in Int /\ p < Len(down) + 1 /\ down'[p] = down[p]
         /\ down'[Len(down) + 1] = f
<1>1. /\ Append(down, f) \in Seq(Frame) /\ Len(Append(down, f)) = Len(down) + 1
      /\ \A i \in 1 .. Len(down) : Append(down, f)[i] = down[i]
      /\ Append(down, f)[Len(down) + 1] = f
  BY AppendProperties DEF Typed
<1>2. DOMAIN down = 1 .. Len(down) /\ Len(down) \in Nat /\ DOMAIN down' = 1 .. Len(down) + 1
  BY <1>1, LenProperties DEF Typed
<1> QED
  BY <1>1, <1>2

LEMMA ShiftFrames ==
  ASSUME Typed, down # <<>>, down' = Tail(down)
  PROVE  /\ \A p \in DOMAIN down : p \in Int /\ p >= 1
         /\ \A p \in DOMAIN down' : p \in Int /\ p + 1 \in DOMAIN down /\ down'[p] = down[p + 1]
                                    /\ p + 1 > 1
         /\ \A p \in DOMAIN down : p # 1 => (p - 1 \in DOMAIN down' /\ down'[p - 1] = down[p])
         /\ 1 \in DOMAIN down /\ Head(down) = down[1]
<1>1. /\ Tail(down) \in Seq(Frame) /\ Len(Tail(down)) = Len(down) - 1
      /\ \A i \in 1 .. Len(Tail(down)) : Tail(down)[i] = down[i + 1]
  BY HeadTailProperties DEF Typed
<1>2. Len(down) \in Nat /\ Len(down) # 0 /\ DOMAIN down = 1 .. Len(down)
  BY EmptySeq, LenProperties DEF Typed
<1>3. DOMAIN Tail(down) = 1 .. Len(down) - 1
  BY <1>1, LenProperties
<1>4. ASSUME NEW p \in DOMAIN down, p # 1 PROVE p - 1 \in 1 .. Len(down) - 1 /\ (p - 1) + 1 = p
  BY <1>2, <1>4
<1> QED
  BY <1>1, <1>2, <1>3, <1>4

LEMMA FramesDiffer ==
  /\ \A c, j : [call |-> c] # [cancel |-> j]
  /\ \A c, d : [call |-> c] = [call |-> d] => c = d
  /\ \A j, k : [cancel |-> j] = [cancel |-> k] => j = k
  OBVIOUS

\* a step that leaves the frames where they are
LEMMA OrderKept ==
  ASSUME Typed, InOrder, [Next]_vars, link', UNCHANGED down,
         \A c \in Calls : disp[c].pc = "unsent" <=> disp'[c].pc = "unsent",
         \A c \in Calls : disp[c].pc = "sent" <=> disp'[c].pc = "sent",
         \A c \in Calls : Young(c)' => Young(c),
         \A c \in Calls : Begun(c) => Begun(c)',
         \A c \in Calls : gw.agent = JobOf(c) /\ Young(c) => gw'.agent = JobOf(c),
         \A i \in DOMAIN outbox' : outbox'[i].says \in Terminal =>
           \/ \E k \in DOMAIN outbox : outbox'[i].job = outbox[k].job /\ outbox[k].says \in Terminal
           \/ \E c \in Calls : JobOf(c) = outbox'[i].job /\ Begun(c)'
  PROVE  InOrder'
<1>0. \A c \in Calls : JobOf(c)' = JobOf(c)
  BY OfKept
<1>1. OneFrame'
  BY <1>0 DEF InOrder, OneFrame
<1>2. InQueue' /\ CallFirst'
  BY <1>0 DEF InOrder, InQueue, CallFirst, CallAt, CancelAt
<1>3. Holds' /\ Apart'
  BY <1>0 DEF InOrder, Holds, Apart, CallAt, CancelAt
<1>4. Posted'
  BY <1>0 DEF InOrder, Posted
<1> QED
  BY <1>1, <1>2, <1>3, <1>4 DEF InOrder

\* the dispatcher of a frame that was read moves on
LEMMA OrderMoves ==
  ASSUME Typed, InOrder, [Next]_vars, link', UNCHANGED <<down, gw>>, NEW c \in Calls,
         disp[c].pc \notin {"unsent", "sent"},
         \A d \in Calls \ {c} : disp'[d] = disp[d],
         \/ Begun(c)'
         \/ disp[c].pc = "start" /\ disp'[c].pc = "waiting",
         \A i \in DOMAIN outbox' : outbox'[i].says \in Terminal =>
           \/ \E k \in DOMAIN outbox : outbox'[i] = outbox[k]
           \/ outbox'[i].job = JobOf(c) /\ Begun(c)'
  PROVE  InOrder'
<1>1. \A d \in Calls : disp[d].pc = "unsent" <=> disp'[d].pc = "unsent"
  BY DEF Begun
<1>2. \A d \in Calls : disp[d].pc = "sent" <=> disp'[d].pc = "sent"
  BY DEF Begun
<1>3. \A d \in Calls : Young(d)' => Young(d)
  BY DEF Young, Begun
<1>4. \A d \in Calls : Begun(d) => Begun(d)'
  BY DEF Begun
<1>5. \A i \in DOMAIN outbox' : outbox'[i].says \in Terminal =>
           \/ \E k \in DOMAIN outbox : outbox'[i].job = outbox[k].job /\ outbox[k].says \in Terminal
           \/ \E d \in Calls : JobOf(d) = outbox'[i].job /\ Begun(d)'
  OBVIOUS
<1> QED
  BY <1>1, <1>2, <1>3, <1>4, <1>5, OrderKept

LEMMA PersistEntries ==
  ASSUME NEW q \in Seq(Entry), NEW j \in Jobs, NEW v \in Says, link \in BOOLEAN,
         NEW i \in DOMAIN Persist(q, j, v)
  PROVE  \/ i \in DOMAIN q /\ Persist(q, j, v)[i] = q[i]
         \/ Persist(q, j, v)[i].job = j /\ Persist(q, j, v)[i].says = v
<1>1. [job |-> j, says |-> v, sent |-> link] \in Entry
  BY DEF Entry, Says
<1>2. /\ Persist(q, j, v) \in Seq(Entry) /\ Len(Persist(q, j, v)) = Len(q) + 1
      /\ \A k \in 1 .. Len(q) : Persist(q, j, v)[k] = q[k]
      /\ Persist(q, j, v)[Len(q) + 1] = [job |-> j, says |-> v, sent |-> link]
  BY <1>1, AppendProperties DEF Persist
<1>3. DOMAIN Persist(q, j, v) = 1 .. Len(q) + 1 /\ DOMAIN q = 1 .. Len(q) /\ Len(q) \in Nat
  BY <1>2, LenProperties
<1>4. CASE i = Len(q) + 1
  BY <1>2, <1>4
<1>5. CASE i # Len(q) + 1
  <2>1. i \in 1 .. Len(q)
    BY <1>3, <1>5
  <2> QED
    BY <1>2, <1>3, <2>1
<1> QED
  BY <1>4, <1>5

LEMMA HandleOrder ==
  ASSUME Typed, InOrder, NEW c \in Calls,
         Handle(c) \/ PollTimesOut(c) \/ Unreachable(c) \/ PostFails(c)
  PROVE  InOrder'
<1>0. /\ [Next]_vars /\ DispOK /\ JobOf(c) \in Jobs /\ link /\ link \in BOOLEAN
      /\ outbox \in Seq(Entry)
  BY JobOfType DEF Next, Typed, InOrder
<1>1. link' /\ UNCHANGED <<down, gw>>
  BY <1>0 DEF Handle, PollTimesOut, Unreachable, PostFails, Accept, Post, Refused, Started,
      Poll, PollNotFound, Report, Fail, Cleanup, tunnel
<1>2. disp[c].pc \notin {"unsent", "sent"}
  BY DEF Handle, PollTimesOut, Unreachable, PostFails, Accept, Post, Refused, Started,
      Poll, PollNotFound, Report, Fail, Cleanup
<1>3. ASSUME NEW v \in Says, outbox' \in {outbox, Persist(outbox, JobOf(c), v)}, v \in Terminal => Begun(c)'
      PROVE  \A i \in DOMAIN outbox' : outbox'[i].says \in Terminal =>
               \/ \E k \in DOMAIN outbox : outbox'[i] = outbox[k]
               \/ outbox'[i].job = JobOf(c) /\ Begun(c)'
  BY <1>0, <1>3, PersistEntries
<1>4. ASSUME NEW l \in DispState, SetDisp(c, l), l \notin {"unsent", "sent", "start", "waiting"},
             NEW v \in Says, outbox' \in {outbox, Persist(outbox, JobOf(c), v)}
      PROVE  InOrder'
  <2>1. Begun(c)' /\ \A d \in Calls \ {c} : disp'[d] = disp[d]
    BY <1>0, <1>4, SetDispSays DEF Begun
  <2> QED
    BY <1>0, <1>1, <1>2, <1>3, <1>4, <2>1, OrderMoves
<1>5. CASE Accept(c)
  <2>1. SetDisp(c, "waiting") /\ disp[c].pc = "start" /\ outbox' = Persist(outbox, JobOf(c), "running")
    BY <1>0, <1>5 DEF Accept
  <2>2. disp'[c].pc = "waiting" /\ \A d \in Calls \ {c} : disp'[d] = disp[d]
    BY <1>0, <2>1, SetDispSays
  <2>3. "running" \in Says /\ "running" \notin Terminal
    BY DEF Says, Terminal
  <2> QED
    BY <1>0, <1>1, <1>2, <1>3, <2>1, <2>2, <2>3, OrderMoves
<1>6. CASE \/ Post(c) \/ Refused(c) \/ Started(c) \/ Fail(c) \/ Cleanup(c)
           \/ PollTimesOut(c) \/ Unreachable(c) \/ PostFails(c)
  <2>1. \E l \in DispState : SetDisp(c, l) /\ l \notin {"unsent", "sent", "start", "waiting"}
    BY <1>6 DEF Post, Refused, Started, Fail, Cleanup, PollTimesOut, Unreachable, PostFails,
        DispState, Live
  <2>2. \E v \in Says : outbox' \in {outbox, Persist(outbox, JobOf(c), v)}
    BY <1>6 DEF Post, Refused, Started, Fail, Cleanup, PollTimesOut, Unreachable, PostFails,
        tunnel, Says, Terminal
  <2> QED
    BY <1>4, <2>1, <2>2
<1>7. CASE Report(c)
  <2>1. SetDisp(c, "cleanup") /\ outbox' = Persist(outbox, JobOf(c), disp[c].says)
    BY <1>0, <1>7 DEF Report
  <2>2. disp[c].says \in Says /\ "cleanup" \in DispState
    BY <1>0, <1>7 DEF Report, DispOK, Says, DispState, Live
  <2> QED
    BY <1>4, <2>1, <2>2
<1>8. CASE Poll(c) \/ PollNotFound(c)
  <2>1. \/ PollFails(c, outbox)
        \/ /\ outbox' = outbox
           /\ \/ disp' = [disp EXCEPT ![c].failures = 0] /\ disp[c].pc = "polling"
              \/ \E v : disp' = [disp EXCEPT ![c].pc = "pulled", ![c].says = v]
    BY <1>8 DEF Poll, PollNotFound, PollFinished, PollRunning
  <2>2. Begun(c)' /\ \A d \in Calls \ {c} : disp'[d] = disp[d]
    <3>1. CASE PollFails(c, outbox)
      BY <1>0, <3>1, PollFailsSays DEF Begun
    <3>2. CASE ~ PollFails(c, outbox)
      BY <1>0, <2>1, <3>2 DEF Begun, DispOK, Dispatcher
    <3> QED
      BY <3>1, <3>2
  <2>3. \E v \in Says : outbox' \in {outbox, Persist(outbox, JobOf(c), v)}
    BY <2>1 DEF PollFails, Says, Terminal
  <2> QED
    BY <1>0, <1>1, <1>2, <1>3, <2>2, <2>3, OrderMoves
<1> QED
  BY <1>5, <1>6, <1>7, <1>8 DEF Handle

LEMMA DispatchOrder ==
  ASSUME Typed, Known, InOrder, NEW c \in Calls, Dispatch(c)
  PROVE  InOrder'
<1> DEFINE n == Len(down) + 1
<1>0. /\ [Next]_vars /\ DispOK /\ \A d \in Calls : JobOf(d)' = JobOf(d) /\ JobOf(d) \in Jobs
      /\ NoJob \notin Jobs /\ link' /\ outbox' = outbox
  BY OfKept, JobOfType DEF Next, Gateway, Typed, InOrder, Dispatch
<1>1. /\ [call |-> c] \in Frame /\ down' = Append(down, [call |-> c]) /\ SetDisp(c, "sent")
      /\ gw.status[JobOf(c)] = "none" /\ gw.agent = NoJob
  BY DEF Dispatch, Frame
<1>2. gw'.agent = JobOf(c)
  BY DEF Dispatch, Typed, GwOK
<1>3. /\ \A p : p \in DOMAIN down' <=> p \in DOMAIN down \/ p = n
      /\ \A p \in DOMAIN down : p \in Int /\ p < n /\ down'[p] = down[p]
      /\ down'[n] = [call |-> c]
  BY <1>1, AppendFrames
<1> HIDE DEF n
<1>4. /\ \A d \in Calls \ {c} : disp'[d] = disp[d]
      /\ disp'[c].pc = "sent" /\ disp[c].pc = "unsent"
  BY <1>0, <1>1, SetDispSays DEF Known
<1>5. \A p, d : CallAt(p, d)' <=> CallAt(p, d) \/ (p = n /\ d = c)
  BY <1>3, FramesDiffer DEF CallAt
<1>6. \A p, j : CancelAt(p, j)' <=> CancelAt(p, j)
  BY <1>3, FramesDiffer DEF CancelAt
<1>7. /\ \A p : ~ CallAt(p, c)
      /\ \A p : ~ CancelAt(p, JobOf(c))
      /\ \A d \in Calls : disp[d].pc # "unsent" => JobOf(d) # JobOf(c)
  BY <1>0, <1>1 DEF Known, CallAt, CancelAt
<1>8. OneFrame'
  BY <1>0, <1>4, <1>7 DEF InOrder, OneFrame
<1>9. InQueue'
  <2>1. \A d \in Calls : \A p, q : CallAt(p, d)' => (disp'[d].pc = "sent" /\ (CallAt(q, d)' => p = q))
    BY <1>4, <1>5, <1>7 DEF InOrder, InQueue
  <2>2. \A d \in Calls : disp'[d].pc = "sent" => \E p : CallAt(p, d)'
    BY <1>4, <1>5 DEF InOrder, InQueue
  <2> QED
    BY <2>1, <2>2 DEF InQueue
<1>10. CallFirst'
  <2>1. ASSUME NEW d \in Calls, NEW p, NEW q, CallAt(p, d)', CancelAt(q, JobOf(d))'
        PROVE  p < q
    <3>1. CancelAt(q, JobOf(d)) /\ d # c
      BY <1>0, <1>6, <1>7, <2>1
    <3> QED
      BY <1>5, <2>1, <3>1 DEF InOrder, CallFirst
  <2> QED
    BY <1>0, <2>1 DEF CallFirst
<1>11. Holds'
  BY <1>0, <1>1, <1>2, <1>4, <1>6 DEF InOrder, Holds, Young
<1>12. Apart'
  <2>1. ASSUME NEW d \in Calls, NEW k \in Jobs, NEW p, Young(d)', CancelAt(p, k)', k # JobOf(d)'
        PROVE  \E q : (CallAt(q, d)' /\ p < q) \/ (CancelAt(q, JobOf(d))' /\ q < p)
    <3>1. CancelAt(p, k)
      BY <1>6, <2>1
    <3>2. CASE d = c
      <4>1. p < n
        BY <1>3, <3>1 DEF CancelAt
      <4> QED
        BY <1>5, <3>2, <4>1
    <3>3. CASE d # c
      <4>1. Young(d) /\ k # JobOf(d)
        BY <1>0, <1>4, <2>1, <3>3 DEF Young
      <4>2. PICK q : (CallAt(q, d) /\ p < q) \/ (CancelAt(q, JobOf(d)) /\ q < p)
        BY <3>1, <4>1 DEF InOrder, Apart
      <4> QED
        BY <1>0, <1>5, <1>6, <4>2
    <3> QED
      BY <3>2, <3>3
  <2> QED
    BY <1>0, <2>1 DEF Apart
<1>13. Posted'
  BY <1>0, <1>4 DEF InOrder, Posted, Begun
<1> QED
  BY <1>0, <1>8, <1>9, <1>10, <1>11, <1>12, <1>13 DEF InOrder

LEMMA CancelOrder ==
  ASSUME Typed, InOrder, NEW j \in Jobs, CancelJob(j), Settled'
  PROVE  InOrder'
<1> DEFINE n == Len(down) + 1
<1>0. /\ [Next]_vars /\ DispOK /\ \A d \in Calls : JobOf(d)' = JobOf(d) /\ JobOf(d) \in Jobs
      /\ NoJob \notin Jobs /\ link' /\ outbox' = outbox /\ disp' = disp
  BY OfKept, JobOfType DEF Next, Gateway, Typed, InOrder, CancelJob, device
<1>1. [cancel |-> j] \in Frame /\ down' = Append(down, [cancel |-> j])
  BY DEF CancelJob, Frame, InOrder
<1>2. gw.agent \in {j, NoJob}
  <2>1. "stale" \notin history'.odd
    BY DEF Settled
  <2>2. history'.odd = history.odd \cup ({"cancel"} \cup Stale(j))
    BY OddKeeps DEF CancelJob, Typed
  <2> QED
    BY <2>1, <2>2 DEF Stale
<1>3. /\ \A p : p \in DOMAIN down' <=> p \in DOMAIN down \/ p = n
      /\ \A p \in DOMAIN down : p \in Int /\ p < n /\ down'[p] = down[p]
      /\ down'[n] = [cancel |-> j]
  BY <1>1, AppendFrames
<1> HIDE DEF n
<1>5. \A p, d : CallAt(p, d)' <=> CallAt(p, d)
  BY <1>3, FramesDiffer DEF CallAt
<1>6. \A p, k : CancelAt(p, k)' <=> CancelAt(p, k) \/ (p = n /\ k = j)
  BY <1>3, FramesDiffer DEF CancelAt
<1>7. \A p, d, k : (CallAt(p, d) => p < n) /\ (CancelAt(p, k) => p < n)
  BY <1>3 DEF CallAt, CancelAt
<1>8. OneFrame' /\ InQueue'
  BY <1>0, <1>5 DEF InOrder, OneFrame, InQueue
<1>10. CallFirst'
  <2>1. ASSUME NEW d \in Calls, NEW p, NEW q, CallAt(p, d)', CancelAt(q, JobOf(d))'
        PROVE  p < q
    BY <1>0, <1>5, <1>6, <1>7, <2>1 DEF InOrder, CallFirst
  <2> QED
    BY <1>0, <2>1 DEF CallFirst
<1>11. Holds'
  BY <1>0, <1>2, <1>6 DEF InOrder, Holds, Young
<1>12. Apart'
  <2>1. ASSUME NEW d \in Calls, NEW k \in Jobs, NEW p, Young(d)', CancelAt(p, k)', k # JobOf(d)'
        PROVE  \E q : (CallAt(q, d)' /\ p < q) \/ (CancelAt(q, JobOf(d))' /\ q < p)
    <3>0. Young(d) /\ k # JobOf(d)
      BY <1>0, <2>1 DEF Young
    <3>1. CASE CancelAt(p, k)
      BY <1>0, <1>5, <1>6, <3>0, <3>1 DEF InOrder, Apart
    <3>2. CASE p = n /\ k = j
      <4>1. PICK q : CancelAt(q, JobOf(d))
        BY <1>0, <1>2, <3>0, <3>2 DEF InOrder, Holds
      <4> QED
        BY <1>0, <1>6, <1>7, <3>2, <4>1
    <3> QED
      BY <1>6, <2>1, <3>1, <3>2
  <2> QED
    BY <1>0, <2>1 DEF Apart
<1>13. Posted'
  BY <1>0 DEF InOrder, Posted, Begun
<1> QED
  BY <1>0, <1>8, <1>10, <1>11, <1>12, <1>13 DEF InOrder

LEMMA DeliverOrder ==
  ASSUME Typed, InOrder, NEW i \in 1 .. Len(outbox), Deliver(i), Settled'
  PROVE  InOrder'
<1>0. /\ [Next]_vars /\ UNCHANGED <<disp, down, link>> /\ i \in DOMAIN outbox
      /\ \A d \in Calls : JobOf(d) \in Jobs
      /\ NoJob \notin Jobs
  BY JobOfType, LenProperties DEF Next, DeliverNext, Deliver, device, Typed
<1>1. \A k \in DOMAIN outbox' : \E m \in DOMAIN outbox : outbox'[k] = outbox[m]
  BY <1>0, WithoutType DEF Deliver, Typed
<1>2. ASSUME NEW c \in Calls, gw.agent = JobOf(c), Young(c)
      PROVE  gw'.agent = JobOf(c)
  <2>1. gw'.agent = IF outbox[i].says \in Terminal THEN NoJob ELSE gw.agent
    BY DEF Deliver, Handled, Typed, GwOK
  <2>2. CASE outbox[i].says \in Terminal
    <3>1. gw.agent = outbox[i].job
      <4>1. "stale" \notin history'.odd
        BY DEF Settled
      <4>2. history'.odd = history.odd \cup ({} \cup Stale(outbox[i].job))
        BY <2>2, OddKeeps DEF Deliver, Handled, Typed
      <4> QED
        BY <1>0, <1>2, <4>1, <4>2 DEF Stale
    <3>2. PICK d \in Calls : JobOf(d) = outbox[i].job /\ Begun(d)
      BY <1>0, <2>2 DEF InOrder, Posted
    <3>3. d = c
      BY <1>2, <3>1, <3>2 DEF InOrder, OneFrame, Young, Begun
    <3> QED
      BY <1>2, <3>2, <3>3 DEF Young, Begun
  <2> QED
    BY <1>2, <2>1, <2>2
<1> QED
  BY <1>0, <1>1, <1>2, OrderKept DEF InOrder, Young, Begun

\* the read loop takes the first frame: positions move down by one
LEMMA ReadFrames ==
  ASSUME Typed, down # <<>>, down' = Tail(down)
  PROVE  /\ \A c : \A p : CallAt(p, c)' => p \in Int /\ p >= 1 /\ CallAt(p + 1, c)
         /\ \A j : \A p : CancelAt(p, j)' => p \in Int /\ p >= 1 /\ CancelAt(p + 1, j)
         /\ \A c : \A p : CallAt(p, c) /\ p # 1 => p \in Int /\ CallAt(p - 1, c)'
         /\ \A j : \A p : CancelAt(p, j) /\ p # 1 => p \in Int /\ CancelAt(p - 1, j)'
         /\ \A c : Head(down) = [call |-> c] <=> CallAt(1, c)
         /\ \A j : Head(down) = [cancel |-> j] <=> CancelAt(1, j)
         /\ \A c : \A p : CallAt(p, c) => p \in Int /\ p >= 1
         /\ \A j : \A p : CancelAt(p, j) => p \in Int /\ p >= 1
  BY ShiftFrames DEF CallAt, CancelAt

LEMMA ReadOrder ==
  ASSUME Typed, InOrder, NEW c \in Calls, ReadDispatch(c)
  PROVE  InOrder'
<1>0. /\ [Next]_vars /\ DispOK /\ \A d \in Calls : JobOf(d)' = JobOf(d) /\ JobOf(d) \in Jobs
      /\ link' /\ outbox' = outbox /\ gw' = gw /\ down # <<>> /\ down' = Tail(down)
      /\ SetDisp(c, "start")
  BY OfKept, JobOfType DEF Next, Typed, InOrder, ReadDispatch
<1>1. CallAt(1, c) /\ disp[c].pc = "sent"
  BY <1>0, ReadFrames DEF ReadDispatch, InOrder, InQueue
<1>2. \A p, d : CallAt(p, d)' => p \in Int /\ CallAt(p + 1, d)
  BY <1>0, ReadFrames
<1>3. \A p, j : CancelAt(p, j)' => p \in Int /\ CancelAt(p + 1, j)
  BY <1>0, ReadFrames
<1>4. \A p, d : CallAt(p, d) /\ d # c => p \in Int /\ CallAt(p - 1, d)'
  BY <1>0, <1>1, FramesDiffer, ReadFrames DEF CallAt
<1>5. \A p, j : CancelAt(p, j) => p \in Int /\ p # 1 /\ CancelAt(p - 1, j)'
  BY <1>0, <1>1, FramesDiffer, ReadFrames DEF CallAt, CancelAt
<1>6. /\ \A d \in Calls \ {c} : disp'[d] = disp[d]
      /\ disp'[c].pc = "start"
  BY <1>0, SetDispSays
<1>7. OneFrame'
  BY <1>0, <1>1, <1>6 DEF InOrder, OneFrame
<1>8. InQueue'
  <2>1. ASSUME NEW d \in Calls, NEW p, CallAt(p, d)'
        PROVE  disp'[d].pc = "sent" /\ \A q : CallAt(q, d)' => p = q
    <3>1. p \in Int /\ CallAt(p + 1, d) /\ disp[d].pc = "sent"
      BY <1>2, <2>1 DEF InOrder, InQueue
    <3>2. d # c
      <4>1. d = c => p + 1 = 1
        BY <1>1, <3>1 DEF InOrder, InQueue
      <4>2. p >= 1
        BY <1>0, <2>1, ReadFrames
      <4> QED
        BY <3>1, <4>1, <4>2
    <3>3. ASSUME NEW q, CallAt(q, d)' PROVE p = q
      <4>1. q \in Int /\ CallAt(q + 1, d)
        BY <1>2, <3>3
      <4>2. p + 1 = q + 1
        BY <3>1, <4>1 DEF InOrder, InQueue
      <4> QED
        BY <3>1, <4>1, <4>2
    <3> QED
      BY <1>6, <3>1, <3>2, <3>3
  <2>2. \A d \in Calls : disp'[d].pc = "sent" => \E p : CallAt(p, d)'
    BY <1>4, <1>6 DEF InOrder, InQueue
  <2> QED
    BY <2>1, <2>2 DEF InQueue
<1>9. CallFirst'
  <2>1. ASSUME NEW d \in Calls, NEW p, NEW q, CallAt(p, d)', CancelAt(q, JobOf(d))'
        PROVE  p < q
    <3>1. p \in Int /\ q \in Int /\ CallAt(p + 1, d) /\ CancelAt(q + 1, JobOf(d))
      BY <1>0, <1>2, <1>3, <2>1
    <3>2. p + 1 < q + 1
      BY <3>1 DEF InOrder, CallFirst
    <3> QED
      BY <3>1, <3>2
  <2> QED
    BY <1>0, <2>1 DEF CallFirst
<1>10. \A d \in Calls : Young(d)' => Young(d)
  BY <1>1, <1>6 DEF Young
<1>11. Holds'
  BY <1>0, <1>5, <1>10 DEF InOrder, Holds
<1>12. Apart'
  <2>1. ASSUME NEW d \in Calls, NEW k \in Jobs, NEW p, Young(d)', CancelAt(p, k)', k # JobOf(d)'
        PROVE  \E q : (CallAt(q, d)' /\ p < q) \/ (CancelAt(q, JobOf(d))' /\ q < p)
    <3>1. Young(d) /\ k # JobOf(d) /\ p \in Int /\ CancelAt(p + 1, k) /\ p >= 1
      BY <1>0, <1>3, <1>10, <2>1, ReadFrames
    <3>2. PICK q : (CallAt(q, d) /\ p + 1 < q) \/ (CancelAt(q, JobOf(d)) /\ q < p + 1)
      BY <3>1 DEF InOrder, Apart
    <3>3. CASE CallAt(q, d) /\ p + 1 < q
      <4>1. q \in Int
        BY <1>0, <3>3, ReadFrames
      <4>2. d # c
        <5>1. d = c => q = 1
          BY <1>1, <3>3 DEF InOrder, InQueue
        <5> QED
          BY <3>1, <3>3, <5>1
      <4>3. CallAt(q - 1, d)' /\ p < q - 1
        BY <1>4, <3>1, <3>3, <4>1, <4>2
      <4> QED
        BY <4>3
    <3>4. CASE CancelAt(q, JobOf(d)) /\ q < p + 1
      <4>1. q \in Int /\ CancelAt(q - 1, JobOf(d))' /\ q - 1 < p
        BY <1>0, <1>5, <3>1, <3>4
      <4> QED
        BY <1>0, <4>1
    <3> QED
      BY <3>2, <3>3, <3>4
  <2> QED
    BY <1>0, <2>1 DEF Apart
<1>13. Posted'
  <2>1. \A d \in Calls : Begun(d) => Begun(d)'
    BY <1>1, <1>6 DEF Begun
  <2> QED
    BY <1>0, <2>1 DEF InOrder, Posted
<1> QED
  BY <1>0, <1>7, <1>8, <1>9, <1>11, <1>12, <1>13 DEF InOrder

\* when the read loop takes up a cancel, no frame waits to be posted
LEMMA CancelAlone ==
  ASSUME Typed, InOrder, NEW j \in Jobs, ReadCancel(j), Settled'
  PROVE  /\ \A c \in Calls : disp[c].pc \notin {"start", "waiting"}
         /\ \A c \in Calls : Young(c) => JobOf(c) # j
<1>0. CancelAt(1, j) /\ down # <<>> /\ down' = Tail(down)
  BY ReadFrames DEF ReadCancel
<1>1. ASSUME NEW c \in Calls, disp[c].pc \in {"start", "waiting"} PROVE JobOf(c) # j
  <2>1. "early" \notin history'.odd
    BY DEF Settled
  <2>2. JobOf(c) = j => history'.odd = history.odd \cup {"early"}
    BY <1>1, OddKeeps DEF ReadCancel, Typed
  <2> QED
    BY <2>1, <2>2
<1>2. ASSUME NEW c \in Calls, disp[c].pc = "sent" PROVE JobOf(c) # j
  <2>1. PICK p : CallAt(p, c)
    BY <1>2 DEF InOrder, InQueue
  <2>2. p \in Int /\ p >= 1
    BY <1>0, <2>1, ReadFrames
  <2>3. JobOf(c) = j => p < 1
    BY <1>0, <2>1 DEF InOrder, CallFirst
  <2> QED
    BY <2>2, <2>3
<1>3. ASSUME NEW c \in Calls, disp[c].pc \in {"start", "waiting"} PROVE FALSE
  <2>1. JobOf(c) # j
    BY <1>1, <1>3
  <2>2. PICK q : (CallAt(q, c) /\ 1 < q) \/ (CancelAt(q, JobOf(c)) /\ q < 1)
    BY <1>0, <1>3, <2>1 DEF InOrder, Apart, Young
  <2>3. CASE CallAt(q, c)
    BY <1>3, <2>3 DEF InOrder, InQueue
  <2>4. CASE CancelAt(q, JobOf(c)) /\ q < 1
    BY <1>0, <2>4, ReadFrames
  <2> QED
    BY <2>2, <2>3, <2>4
<1> QED
  BY <1>2, <1>3 DEF Young

LEMMA ReadCancelOrder ==
  ASSUME Typed, InOrder, NEW j \in Jobs, ReadCancel(j), Settled'
  PROVE  InOrder'
<1>0. /\ [Next]_vars /\ DispOK /\ \A d \in Calls : JobOf(d)' = JobOf(d) /\ JobOf(d) \in Jobs
      /\ link' /\ outbox' = outbox /\ gw' = gw /\ down # <<>> /\ down' = Tail(down)
      /\ disp' = disp
  BY OfKept, JobOfType DEF Next, Typed, InOrder, ReadCancel
<1>1. CancelAt(1, j)
  BY <1>0, ReadFrames DEF ReadCancel
<1>2. \A p, d : CallAt(p, d)' => p \in Int /\ CallAt(p + 1, d)
  BY <1>0, ReadFrames
<1>3. \A p, k : CancelAt(p, k)' => p \in Int /\ CancelAt(p + 1, k)
  BY <1>0, ReadFrames
<1>4. \A p, d : CallAt(p, d) => p \in Int /\ CallAt(p - 1, d)'
  BY <1>0, <1>1, FramesDiffer, ReadFrames DEF CallAt, CancelAt
<1>5. \A p, k : CancelAt(p, k) /\ k # j => p \in Int /\ CancelAt(p - 1, k)'
  BY <1>0, <1>1, FramesDiffer, ReadFrames DEF CancelAt
<1>6. \A d \in Calls : Young(d) => JobOf(d) # j
  BY CancelAlone
<1>7. OneFrame'
  BY <1>0 DEF InOrder, OneFrame
<1>8. InQueue'
  <2>1. ASSUME NEW d \in Calls, NEW p, CallAt(p, d)'
        PROVE  disp'[d].pc = "sent" /\ \A q : CallAt(q, d)' => p = q
    <3>1. p \in Int /\ CallAt(p + 1, d) /\ disp[d].pc = "sent"
      BY <1>2, <2>1 DEF InOrder, InQueue
    <3>3. ASSUME NEW q, CallAt(q, d)' PROVE p = q
      <4>1. q \in Int /\ CallAt(q + 1, d)
        BY <1>2, <3>3
      <4>2. p + 1 = q + 1
        BY <3>1, <4>1 DEF InOrder, InQueue
      <4> QED
        BY <3>1, <4>1, <4>2
    <3> QED
      BY <1>0, <3>1, <3>3
  <2>2. \A d \in Calls : disp'[d].pc = "sent" => \E p : CallAt(p, d)'
    BY <1>0, <1>4 DEF InOrder, InQueue
  <2> QED
    BY <2>1, <2>2 DEF InQueue
<1>9. CallFirst'
  <2>1. ASSUME NEW d \in Calls, NEW p, NEW q, CallAt(p, d)', CancelAt(q, JobOf(d))'
        PROVE  p < q
    <3>1. p \in Int /\ q \in Int /\ CallAt(p + 1, d) /\ CancelAt(q + 1, JobOf(d))
      BY <1>0, <1>2, <1>3, <2>1
    <3>2. p + 1 < q + 1
      BY <3>1 DEF InOrder, CallFirst
    <3> QED
      BY <3>1, <3>2
  <2> QED
    BY <1>0, <2>1 DEF CallFirst
<1>11. Holds'
  BY <1>0, <1>5, <1>6 DEF InOrder, Holds, Young
<1>12. Apart'
  <2>1. ASSUME NEW d \in Calls, NEW k \in Jobs, NEW p, Young(d)', CancelAt(p, k)', k # JobOf(d)'
        PROVE  \E q : (CallAt(q, d)' /\ p < q) \/ (CancelAt(q, JobOf(d))' /\ q < p)
    <3>1. Young(d) /\ k # JobOf(d) /\ p \in Int /\ CancelAt(p + 1, k)
      BY <1>0, <1>3, <2>1 DEF Young
    <3>2. PICK q : (CallAt(q, d) /\ p + 1 < q) \/ (CancelAt(q, JobOf(d)) /\ q < p + 1)
      BY <3>1 DEF InOrder, Apart
    <3>3. CASE CallAt(q, d) /\ p + 1 < q
      <4>1. q \in Int /\ CallAt(q - 1, d)' /\ p < q - 1
        BY <1>4, <3>1, <3>3
      <4> QED
        BY <4>1
    <3>4. CASE CancelAt(q, JobOf(d)) /\ q < p + 1
      <4>1. q \in Int /\ CancelAt(q - 1, JobOf(d))' /\ q - 1 < p
        BY <1>0, <1>5, <1>6, <3>1, <3>4
      <4> QED
        BY <1>0, <4>1
    <3> QED
      BY <3>2, <3>3, <3>4
  <2> QED
    BY <1>0, <2>1 DEF Apart
<1>13. Posted'
  BY <1>0 DEF InOrder, Posted, Begun
<1> QED
  BY <1>0, <1>7, <1>8, <1>9, <1>11, <1>12, <1>13 DEF InOrder

LEMMA NextOrdered == Typed /\ Known /\ Ordered /\ [Next]_vars => Ordered'
<1> SUFFICES ASSUME Typed, Known, InOrder, [Next]_vars, Settled, Settled' PROVE InOrder'
  BY OddGrows DEF Ordered, Settled
<1>1. ASSUME UNCHANGED <<disp, down, outbox, gw>>, link' PROVE InOrder'
  BY <1>1, OrderKept DEF Young, Begun
<1>2. ASSUME NEW what, Odd(what) PROVE what \cap {"drop", "restart"} = {}
  BY <1>2, OddKeeps DEF Typed, Settled
<1>3. CASE Gateway
  BY <1>3, DispatchOrder, CancelOrder DEF Gateway, Redispatch, Unbroken, Settled
<1>4. CASE DeliverNext
  BY <1>4, DeliverOrder DEF DeliverNext
<1>5. CASE (\E i \in 1 .. Len(outbox) : DeliverAndDrop(i)) \/ Drop \/ Reconnect \/ Restart
  <2>1. ASSUME NEW i \in 1 .. Len(outbox), DeliverAndDrop(i) PROVE FALSE
    <3>1. PICK more : Odd({"drop"} \cup more)
      BY <2>1 DEF DeliverAndDrop, Handled
    <3> QED
      BY <1>2, <3>1
  <2> QED
    BY <1>2, <1>5, <2>1 DEF Drop, Reconnect, Restart, InOrder
<1>6. ASSUME NEW c \in Calls, Handle(c) \/ PollTimesOut(c) \/ Unreachable(c) \/ PostFails(c)
      PROVE  InOrder'
  BY <1>6, HandleOrder
<1>7. ASSUME NEW c \in Calls, Run(c) \/ QuotaFails(c) \/ \E v \in {"succeeded", "failed"} : BrainEnds(c, v)
      PROVE  InOrder'
  BY <1>1, <1>7 DEF Run, QuotaFails, BrainEnds, StartRun, Clear, CancelReturns, device, tunnel, InOrder
<1>8. ASSUME NEW c \in Calls, ReadDispatch(c) PROVE InOrder'
  BY <1>8, ReadOrder
<1>9. ASSUME NEW j \in Jobs, ReadCancel(j) PROVE InOrder'
  BY <1>9, ReadCancelOrder
<1>10. CASE UNCHANGED vars
  BY <1>1, <1>10 DEF vars, device, tunnel, InOrder
<1> QED
  BY <1>3, <1>4, <1>5, <1>6, <1>7, <1>8, <1>9, <1>10 DEF Next

\* the executor's record is that of the only unfinished run, and the read loop
\* waits for the only cancel
Active(c) == task[c].pc \in {"created", "running", "sleeping"}
Alone == /\ \A c \in Calls : Active(c) => exec.cur = c
         /\ exec.cancels \subseteq {reader.call}
         /\ reader.call # NoCall => exec.cur \in {reader.call, NoCall}
         /\ reader.call # NoCall => \A c \in Calls : disp[c].pc \notin {"start", "waiting"}
         /\ "clobber" \notin history.odd
Single == Settled => Alone

LEMMA AloneKept ==
  ASSUME Typed, Alone, UNCHANGED <<exec, reader>>,
         \A c \in Calls : Active(c)' => Active(c),
         \A c \in Calls : disp'[c].pc \in {"start", "waiting"} =>
                            (disp[c].pc \in {"start", "waiting"} \/ reader.call = NoCall),
         "clobber" \notin history'.odd
  PROVE  Alone'
  BY DEF Alone

\* the moves of one run
LEMMA ActiveMoves ==
  ASSUME AgentOK, NEW c \in Calls, NEW l, task' = [task EXCEPT ![c].pc = l]
  PROVE  task'[c].pc = l /\ \A d \in Calls \ {c} : task'[d] = task[d]
  BY DEF AgentOK, RunTask

LEMMA HandleAlone ==
  ASSUME Typed, Alone, NEW c \in Calls, Handle(c)
  PROVE  Alone'
<1>0. DispOK /\ AgentOK /\ ReadOK /\ HistOK
  BY DEF Typed
<1>1. history'.odd = history.odd
  BY <1>0 DEF Handle, Accept, Post, Refused, Started, Poll, PollNotFound, Report, Fail,
      Cleanup, HistOK
<1>2. "clobber" \notin history'.odd
  BY <1>1 DEF Alone
<1>3. CASE Post(c)
  <2>1. /\ disp[c].pc = "waiting" /\ ~ Busy /\ exec' = [exec EXCEPT !.cur = c]
        /\ task' = [task EXCEPT ![c].pc = "created"] /\ reader' = reader /\ SetDisp(c, "posted")
    BY <1>3 DEF Post
  <2>2. reader.call = NoCall /\ NoCall \notin exec.cancels
    BY <1>0, <2>1 DEF Alone, AgentOK
  <2>3. exec.cur = NoCall
    BY <2>1, <2>2 DEF Busy, Alone
  <2>4. exec'.cur = c /\ exec'.cancels = exec.cancels
    BY <1>0, <2>1 DEF AgentOK
  <2>5. \A d \in Calls : Active(d)' => d = c
    BY <1>0, <2>1, <2>3, ActiveMoves DEF Alone, Active
  <2> QED
    BY <1>2, <2>1, <2>2, <2>4, <2>5 DEF Alone
<1>4. CASE Accept(c) \/ Refused(c) \/ Started(c) \/ PollNotFound(c) \/ Report(c) \/ Fail(c) \/ Cleanup(c)
  <2>1. UNCHANGED <<exec, task, reader>>
    BY <1>4 DEF Accept, Refused, Started, PollNotFound, Report, Fail, Cleanup, agent
  <2>2. /\ \A d \in Calls \ {c} : disp'[d] = disp[d]
        /\ disp'[c].pc \in {"start", "waiting"} => disp[c].pc = "start"
    <3>1. \/ \E l : SetDisp(c, l) /\ (l \in {"start", "waiting"} => disp[c].pc = "start")
          \/ \E q : PollFails(c, q)
      BY <1>4 DEF Accept, Refused, Started, PollNotFound, Report, Fail, Cleanup
    <3> QED
      BY <1>0, <3>1, SetDispSays, PollFailsSays
  <2> QED
    BY <1>2, <2>1, <2>2, AloneKept DEF Active
<1>5. CASE Poll(c)
  <2>1. UNCHANGED <<exec, reader>> /\ exec.cur \in Calls
    BY <1>0, <1>5 DEF Poll, Knows, AgentOK
  <2>2. \A d \in Calls : task'[d].pc = task[d].pc
    BY <1>0, <1>5, <2>1 DEF Poll, AgentOK, RunTask
  <2>3. \/ PollFails(c, outbox)
        \/ disp' = [disp EXCEPT ![c].failures = 0] /\ disp[c].pc = "polling"
        \/ \E v : disp' = [disp EXCEPT ![c].pc = "pulled", ![c].says = v]
    BY <1>5 DEF Poll, PollFinished, PollRunning
  <2>4. disp'[c].pc \notin {"start", "waiting"} /\ \A d \in Calls \ {c} : disp'[d] = disp[d]
    <3>1. CASE PollFails(c, outbox)
      BY <1>0, <3>1, PollFailsSays
    <3>2. CASE ~ PollFails(c, outbox)
      BY <1>0, <2>3, <3>2 DEF DispOK, Dispatcher
    <3> QED
      BY <3>1, <3>2
  <2> QED
    BY <1>2, <2>1, <2>2, <2>4, AloneKept DEF Active
<1> QED
  BY <1>3, <1>4, <1>5 DEF Handle

LEMMA RunAlone ==
  ASSUME Typed, Alone, NEW c \in Calls,
         Run(c) \/ QuotaFails(c) \/ \E v \in {"succeeded", "failed"} : BrainEnds(c, v)
  PROVE  Alone'
<1>0. DispOK /\ AgentOK /\ ReadOK /\ HistOK /\ NoCall \notin Calls
  BY DEF Typed
<1>1. CASE StartRun(c) \/ QuotaFails(c)
  <2>1. Active(c) /\ \E l : task' = [task EXCEPT ![c].pc = l]
    BY <1>1 DEF StartRun, QuotaFails, Active
  <2>2. \A d \in Calls : Active(d)' => Active(d)
    BY <1>0, <2>1, ActiveMoves DEF Active
  <2>3. "clobber" \notin history'.odd
    BY <1>0, <1>1, OddKeeps DEF StartRun, QuotaFails, Alone, HistOK
  <2> QED
    BY <1>1, <2>2, <2>3, AloneKept DEF StartRun, QuotaFails, device
<1>2. CASE \E v \in {"succeeded", "failed"} : BrainEnds(c, v)
  <2>1. Active(c) /\ \A d \in Calls \ {c} : task'[d] = task[d]
    BY <1>0, <1>2 DEF BrainEnds, Active, AgentOK
  <2>2. history'.odd = history.odd
    BY <1>0, <1>2 DEF BrainEnds, HistOK
  <2> QED
    BY <1>2, <2>1, <2>2, AloneKept DEF BrainEnds, device, Alone, Active
<1>3. CASE Clear(c)
  <2>1. Active(c) /\ exec.cur = c
    BY <1>3 DEF Clear, Active, Alone
  <2>2. \A d \in Calls : ~ Active(d)'
    <3>1. task'[c].pc = "done" /\ \A d \in Calls \ {c} : task'[d] = task[d]
      BY <1>0, <1>3, ActiveMoves DEF Clear
    <3>2. \A d \in Calls : Active(d) => d = c
      BY <2>1 DEF Alone
    <3> QED
      BY <3>1, <3>2 DEF Active
  <2>3. "clobber" \notin history'.odd
    <3>1. Odd({})
      BY <1>3, <2>1 DEF Clear, Clobber
    <3> QED
      BY <1>0, <3>1, OddKeeps DEF Alone
  <2>4. exec'.cur = NoCall /\ exec'.cancels = exec.cancels /\ UNCHANGED <<disp, reader>>
    BY <1>0, <1>3 DEF Clear, AgentOK, device
  <2> QED
    BY <2>2, <2>3, <2>4 DEF Alone
<1>4. CASE CancelReturns(c)
  <2>1. c \in exec.cancels /\ reader.call = c /\ exec.cur \in {c, NoCall} /\ ~ Active(c)
    BY <1>0, <1>4 DEF CancelReturns, Alone, Active
  <2>2. \A d \in Calls : ~ Active(d)
    BY <1>0, <2>1 DEF Alone
  <2>3. \A d \in Calls : ~ Active(d)'
    <3>1. \A d \in Calls : task'[d].pc = task[d].pc
      BY <1>0, <1>4 DEF CancelReturns, AgentOK, RunTask
    <3> QED
      BY <2>2, <3>1 DEF Active
  <2>4. "clobber" \notin history'.odd
    <3>1. Odd({})
      BY <1>4, <2>1 DEF CancelReturns, Clobber
    <3> QED
      BY <1>0, <3>1, OddKeeps DEF Alone
  <2>5. /\ exec'.cur = NoCall /\ exec'.cancels = exec.cancels \ {c} /\ disp' = disp
        /\ reader'.call = NoCall
    BY <1>4, <2>1 DEF CancelReturns
  <2> QED
    BY <2>1, <2>3, <2>4, <2>5 DEF Alone
<1> QED
  BY <1>1, <1>2, <1>3, <1>4 DEF Run

LEMMA ReadCancelAlone ==
  ASSUME Typed, InOrder, Alone, NEW j \in Jobs, ReadCancel(j), Settled'
  PROVE  Alone'
<1>0. DispOK /\ AgentOK /\ ReadOK /\ HistOK /\ NoCall \notin Calls
  BY DEF Typed
<1>1. \A c \in Calls : disp'[c].pc \notin {"start", "waiting"}
  BY CancelAlone DEF ReadCancel
<1>2. "clobber" \notin history'.odd
  BY <1>0, OddKeeps DEF ReadCancel, Alone
<1>3. reader.call = NoCall /\ exec.cancels = {}
  BY <1>0 DEF ReadCancel, ReaderFree, ReadOK, Alone, AgentOK
<1>4. CASE jrow[j] # "none" /\ Knows(j)
  <2>1. /\ exec' = [exec EXCEPT !.cancels = @ \cup {exec.cur}]
        /\ task' = [task EXCEPT ![exec.cur] = Interrupted(task[exec.cur])]
        /\ reader' = [job |-> j, call |-> exec.cur]
    BY <1>4 DEF ReadCancel
  <2>2. exec.cur \in Calls
    BY <1>0, <1>4 DEF Knows, AgentOK
  <2>3. exec'.cur = exec.cur /\ exec'.cancels = {exec.cur} /\ reader'.call = exec.cur
    BY <1>0, <1>3, <2>1 DEF AgentOK
  <2>4. \A c \in Calls : Active(c)' => Active(c)
    <3>1. Interrupted(task[exec.cur]).pc \in {"created", "running", "sleeping"} =>
            task[exec.cur].pc \in {"created", "running", "sleeping"}
      BY <1>0, <2>2 DEF Interrupted, AgentOK, RunTask
    <3> QED
      BY <1>0, <2>1, <2>2, <3>1 DEF Active, AgentOK
  <2> QED
    BY <1>1, <1>2, <2>3, <2>4 DEF Alone
<1>5. CASE ~ (jrow[j] # "none" /\ Knows(j))
  <2>1. UNCHANGED <<exec, task, reader>>
    BY <1>5 DEF ReadCancel, agent
  <2> QED
    BY <1>1, <1>2, <2>1, AloneKept DEF Active
<1> QED
  BY <1>4, <1>5

LEMMA NextSingle == Typed /\ Ordered /\ Single /\ [Next]_vars => Single'
<1> SUFFICES ASSUME Typed, InOrder, Alone, [Next]_vars, Settled, Settled' PROVE Alone'
  BY OddGrows DEF Ordered, Single, Settled
<1>0. DispOK /\ AgentOK /\ ReadOK /\ HistOK
  BY DEF Typed
<1>1. ASSUME UNCHANGED <<disp, exec, task, reader>>, "clobber" \notin history'.odd PROVE Alone'
  BY <1>1, AloneKept DEF Active
<1>2. ASSUME NEW what, Odd(what) PROVE what \cap {"drop", "restart"} = {}
  BY <1>2, OddKeeps DEF Typed, Settled
<1>3. ASSUME NEW what, Odd(what), "clobber" \notin what PROVE "clobber" \notin history'.odd
  BY <1>0, <1>3, OddKeeps DEF Alone
<1>4. CASE Gateway
  <2>1. ASSUME NEW c \in Calls, Dispatch(c) PROVE Alone'
    <3>1. SetDisp(c, "sent") /\ UNCHANGED <<exec, task, reader, history>>
      BY <2>1 DEF Dispatch, agent
    <3>2. \A d \in Calls : disp'[d].pc \in {"start", "waiting"} => disp[d].pc \in {"start", "waiting"}
      BY <1>0, <3>1, SetDispSays
    <3> QED
      BY <3>1, <3>2, AloneKept DEF Active, Alone
  <2>2. ASSUME NEW j \in Jobs, CancelJob(j) PROVE Alone'
    BY <1>1, <1>3, <2>2 DEF CancelJob, device, agent, Stale
  <2> QED
    BY <1>4, <2>1, <2>2 DEF Gateway, Redispatch, Unbroken, Settled
<1>5. CASE DeliverNext
  <2>1. ASSUME NEW i \in 1 .. Len(outbox), Deliver(i) PROVE Alone'
    <3>1. \E what : Odd(what) /\ "clobber" \notin what
      BY <2>1 DEF Deliver, Handled, Stale
    <3> QED
      BY <1>1, <1>3, <2>1, <3>1 DEF Deliver, device, agent
  <2> QED
    BY <1>5, <2>1 DEF DeliverNext
<1>6. CASE (\E i \in 1 .. Len(outbox) : DeliverAndDrop(i)) \/ Drop \/ Reconnect \/ Restart
  <2>1. ASSUME NEW i \in 1 .. Len(outbox), DeliverAndDrop(i) PROVE FALSE
    <3>1. PICK more : Odd({"drop"} \cup more)
      BY <2>1 DEF DeliverAndDrop, Handled
    <3> QED
      BY <1>2, <3>1
  <2> QED
    BY <1>2, <1>6, <2>1 DEF Drop, Reconnect, Restart, InOrder
<1>7. ASSUME NEW c \in Calls, Handle(c) PROVE Alone'
  BY <1>7, HandleAlone
<1>8. ASSUME NEW c \in Calls, PollTimesOut(c) \/ Unreachable(c) \/ PostFails(c) PROVE Alone'
  <2>1. /\ UNCHANGED <<exec, task, reader>>
        /\ \E l : SetDisp(c, l) /\ l \notin {"start", "waiting"}
        /\ \E what : Odd(what) /\ "clobber" \notin what
    BY <1>8 DEF PollTimesOut, Unreachable, PostFails, agent
  <2>2. \A d \in Calls : disp'[d].pc \in {"start", "waiting"} => disp[d].pc \in {"start", "waiting"}
    BY <1>0, <2>1, SetDispSays
  <2> QED
    BY <1>3, <2>1, <2>2, AloneKept DEF Active
<1>9. ASSUME NEW c \in Calls, Run(c) \/ QuotaFails(c) \/ \E v \in {"succeeded", "failed"} : BrainEnds(c, v)
      PROVE  Alone'
  BY <1>9, RunAlone
<1>10. ASSUME NEW c \in Calls, ReadDispatch(c) PROVE Alone'
  <2>1. /\ UNCHANGED <<exec, task, reader, history>> /\ SetDisp(c, "start")
        /\ reader.call = NoCall
    BY <1>0, <1>10 DEF ReadDispatch, ReaderFree, ReadOK, agent
  <2>2. \A d \in Calls \ {c} : disp'[d] = disp[d]
    BY <1>0, <2>1, SetDispSays
  <2> QED
    BY <2>1, <2>2, AloneKept DEF Active, Alone
<1>11. ASSUME NEW j \in Jobs, ReadCancel(j) PROVE Alone'
  BY <1>11, ReadCancelAlone
<1>12. CASE UNCHANGED vars
  BY <1>1, <1>12 DEF vars, device, agent, Alone
<1> QED
  BY <1>4, <1>5, <1>6, <1>7, <1>8, <1>9, <1>10, <1>11, <1>12 DEF Next

LEMMA InitOrdered == Init => Ordered /\ Single
  BY DEF Init, Ordered, InOrder, OneFrame, InQueue, CallFirst, Holds, Apart, Posted, CallAt,
      CancelAt, Young, Single, Alone, Active

\* One brain at a time (JobExecutor.create_job, cancel and _run; the read loop that
\* awaits handle_job_cancel): while the device has one connection, no cancel
\* overtakes the posting of its job and the gateway frees the agent only for the
\* job that has it, the read loop is inside a cancel exactly when no frame waits to
\* be posted, so a second run never starts beside an unfinished one.
THEOREM OneBrainRuns == Spec => []OneBrain
<1>1. Single => OneBrain
  BY DEF Single, Alone, Active, Settled, OneBrain, Running
<1> QED
  BY <1>1, InitTyped, NextTyped, InitKnown, NextKnown, InitOrdered, NextOrdered, NextSingle,
     PTL DEF Spec

-----------------------------------------------------------------------------
(* A success is kept                                                       *)

Calm == history.odd = {}
Polling(c) == disp[c].pc \in {"posted", "polling"}

\* what is known of one frame: its record is there while its dispatcher polls, not
\* yet seen terminal, and the job's row says failed only if its record does
Healthy(c) ==
    /\ disp[c].pc \notin {"failing", "dead", "lost"}
    /\ disp[c].pc \in {"unsent", "sent", "start", "waiting"} => task[c].pc = "none"
    /\ disp[c].pc = "waiting" => jrow[JobOf(c)] = "queued"
    /\ Polling(c) => task[c].looks = 0
    /\ Polling(c) /\ task[c].pc # "none" => exec.cur = c
    /\ exec.cur = c => task[c].pc # "none"
    /\ task[c].pc = "none" => task[c].looks = 0
    /\ task[c].pc \in {"none", "created", "running"} => task[c].status = "running"
    /\ task[c].pc = "sleeping" => task[c].status \in Terminal
    /\ task[c].pc # "none" /\ jrow[JobOf(c)] = "failed" => task[c].status = "failed"
    /\ JobOf(c) \in history.finished /\ disp[c].pc # "unsent" =>
         task[c].pc # "none" /\ task[c].status = "succeeded"

NoCancel == /\ \A p, j : ~ CancelAt(p, j)
            /\ exec.cancels = {} /\ ReaderFree
FinishedWasSent == \A j \in history.finished : \E c \in Calls : JobOf(c) = j /\ disp[c].pc # "unsent"
AllWell == /\ NoCancel /\ FinishedWasSent
           /\ \A c \in Calls : Healthy(c)
Kept == Calm => AllWell

\* a frame that is not touched, nor another of its job
LEMMA HealthKept ==
  ASSUME Typed, [Next]_vars, NEW c \in Calls, Healthy(c),
         disp'[c].pc = disp[c].pc, task'[c] = task[c],
         jrow'[JobOf(c)] \in {jrow[JobOf(c)], "running"}, disp[c].pc = "waiting" => jrow'[JobOf(c)] = jrow[JobOf(c)],
         (exec.cur = c) <=> (exec'.cur = c),
         JobOf(c) \in history'.finished /\ disp[c].pc # "unsent" => JobOf(c) \in history.finished
  PROVE  Healthy(c)'
<1>1. JobOf(c)' = JobOf(c)
  BY OfKept
<1> QED
  BY <1>1 DEF Healthy, Polling

LEMMA OneJobEach ==
  ASSUME InOrder, AllWell, NEW c \in Calls, NEW d \in Calls, JobOf(c) = JobOf(d),
         disp[c].pc # "unsent" \/ task[c].pc # "none" \/ exec.cur = c,
         disp[d].pc # "unsent" \/ task[d].pc # "none" \/ exec.cur = d
  PROVE  c = d
  BY DEF InOrder, OneFrame, AllWell, Healthy

\* a step of one frame's dispatcher or run
LEMMA OneFrameMoves ==
  ASSUME Typed, InOrder, AllWell, [Next]_vars, NEW c \in Calls, Healthy(c)',
         disp[c].pc # "unsent", disp'[c].pc # "unsent",
         \A d \in Calls \ {c} : disp'[d] = disp[d] /\ task'[d] = task[d],
         \A j \in Jobs \ {JobOf(c)} : jrow'[j] = jrow[j],
         exec'.cancels = exec.cancels, exec'.cur \in {exec.cur, c, NoCall},
         exec'.cur # exec.cur => exec.cur \in {c, NoCall},
         UNCHANGED <<reader, down>>,
         history.finished \subseteq history'.finished,
         history'.finished \subseteq history.finished \cup {JobOf(c)}
  PROVE  AllWell'
<1>0. \A d \in Calls : JobOf(d)' = JobOf(d) /\ JobOf(d) \in Jobs
  BY OfKept, JobOfType DEF Typed
<1>1. NoCancel'
  BY DEF AllWell, NoCancel, CancelAt, ReaderFree
<1>2. FinishedWasSent'
  <2>1. ASSUME NEW j \in history'.finished PROVE \E d \in Calls : JobOf(d) = j /\ disp'[d].pc # "unsent"
    <3>1. CASE j = JobOf(c)
      BY <3>1
    <3>2. CASE j # JobOf(c)
      BY <3>2 DEF AllWell, FinishedWasSent
    <3> QED
      BY <3>1, <3>2
  <2>2. \A j \in history'.finished : \E d \in Calls : JobOf(d)' = j /\ disp'[d].pc # "unsent"
    <3> HIDE DEF JobOf
    <3> QED
      BY <1>0, <2>1
  <2> QED
    BY <2>2 DEF FinishedWasSent
<1>3. ASSUME NEW d \in Calls, d # c, JobOf(d) # JobOf(c) PROVE Healthy(d)'
  <2>1. Healthy(d) /\ NoCall \notin Calls
    BY DEF AllWell
  <2>2. (exec.cur = d) <=> (exec'.cur = d)
    BY <1>3, <2>1
  <2> QED
    BY <1>0, <1>3, <2>1, <2>2, HealthKept
<1>4. ASSUME NEW d \in Calls, d # c, JobOf(d) = JobOf(c) PROVE Healthy(d)'
  <2>1. disp[d].pc = "unsent" /\ task[d].pc = "none" /\ exec.cur # d
    BY <1>4, OneJobEach
  <2>2. exec'.cur # d
    BY <1>4, <2>1
  <2>3. Healthy(d) /\ disp'[d] = disp[d] /\ task'[d] = task[d]
    BY <1>4 DEF AllWell
  <2> QED
    BY <1>0, <2>1, <2>2, <2>3 DEF Healthy, Polling
<1> QED
  BY <1>1, <1>2, <1>3, <1>4 DEF AllWell

LEMMA HandleWell ==
  ASSUME Typed, InOrder, Alone, AllWell, NEW c \in Calls, Handle(c)
  PROVE  AllWell'
<1>0. /\ [Next]_vars /\ DispOK /\ AgentOK /\ HistOK /\ JobOf(c) \in Jobs /\ JobOf(c)' = JobOf(c)
      /\ link /\ Healthy(c) /\ jrow \in [Jobs -> RowSays] /\ NoCall \notin Calls
  BY OfKept, JobOfType DEF Next, Typed, InOrder, AllWell
<1>1. CASE Accept(c)
  <2>1. /\ jrow' = [jrow EXCEPT ![JobOf(c)] = "queued"] /\ SetDisp(c, "waiting")
        /\ disp[c].pc = "start" /\ UNCHANGED <<exec, task, reader, down, history>>
    BY <1>0, <1>1 DEF Accept, agent
  <2>2. disp'[c].pc = "waiting" /\ \A d \in Calls \ {c} : disp'[d] = disp[d]
    BY <1>0, <2>1, SetDispSays
  <2>3. jrow'[JobOf(c)] = "queued" /\ \A j \in Jobs \ {JobOf(c)} : jrow'[j] = jrow[j]
    BY <1>0, <2>1
  <2>4. Healthy(c)'
    BY <1>0, <2>1, <2>2, <2>3 DEF Healthy, Polling
  <2> QED
    BY <1>0, <2>1, <2>2, <2>3, <2>4, OneFrameMoves
<1>2. CASE Post(c)
  <2>1. /\ disp[c].pc = "waiting" /\ ~ Busy /\ exec' = [exec EXCEPT !.cur = c]
        /\ task' = [task EXCEPT ![c].pc = "created"] /\ SetDisp(c, "posted")
        /\ UNCHANGED <<jrow, reader, down, history>>
    BY <1>2 DEF Post, tunnel
  <2>2. exec.cur = NoCall
    BY <2>1 DEF Busy, AllWell, NoCancel
  <2>3. exec'.cur = c /\ exec'.cancels = exec.cancels
    BY <1>0, <2>1 DEF AgentOK
  <2>4. disp'[c].pc = "posted" /\ \A d \in Calls \ {c} : disp'[d] = disp[d]
    BY <1>0, <2>1, SetDispSays
  <2>5. /\ task'[c].pc = "created" /\ task'[c].status = task[c].status /\ task'[c].looks = task[c].looks
        /\ \A d \in Calls \ {c} : task'[d] = task[d]
    BY <1>0, <2>1 DEF AgentOK, RunTask
  <2>6. Healthy(c)'
    BY <1>0, <2>1, <2>3, <2>4, <2>5 DEF Healthy, Polling
  <2> QED
    BY <1>0, <2>1, <2>2, <2>3, <2>4, <2>5, <2>6, OneFrameMoves
<1>3. CASE Refused(c)
  <2>1. /\ disp[c].pc = "waiting" /\ SetDisp(c, "posted")
        /\ UNCHANGED <<jrow, exec, task, reader, down, history>>
    BY <1>3 DEF Refused, tunnel, agent
  <2>2. disp'[c].pc = "posted" /\ \A d \in Calls \ {c} : disp'[d] = disp[d]
    BY <1>0, <2>1, SetDispSays
  <2>3. Healthy(c)'
    BY <1>0, <2>1, <2>2 DEF Healthy, Polling
  <2> QED
    BY <1>0, <2>1, <2>2, <2>3, OneFrameMoves
<1>4. CASE Started(c)
  <2>1. /\ disp[c].pc = "posted" /\ SetDisp(c, "polling")
        /\ jrow' = [jrow EXCEPT ![JobOf(c)] = "running"]
        /\ UNCHANGED <<exec, task, reader, down, history>>
    BY <1>0, <1>4 DEF Started, tunnel, agent
  <2>2. disp'[c].pc = "polling" /\ \A d \in Calls \ {c} : disp'[d] = disp[d]
    BY <1>0, <2>1, SetDispSays
  <2>3. jrow'[JobOf(c)] = "running" /\ \A j \in Jobs \ {JobOf(c)} : jrow'[j] = jrow[j]
    BY <1>0, <2>1
  <2>4. Healthy(c)'
    BY <1>0, <2>1, <2>2, <2>3 DEF Healthy, Polling
  <2> QED
    BY <1>0, <2>1, <2>2, <2>3, <2>4, OneFrameMoves
<1>5. CASE Report(c) \/ Cleanup(c)
  <2>1. /\ disp[c].pc \in {"pulled", "cleanup"} /\ (SetDisp(c, "cleanup") \/ SetDisp(c, "done"))
        /\ UNCHANGED <<jrow, exec, task, reader, down>> /\ history'.finished = history.finished
    BY <1>0, <1>5 DEF Report, Cleanup, tunnel, agent, HistOK
  <2>2. disp'[c].pc \in {"cleanup", "done"} /\ \A d \in Calls \ {c} : disp'[d] = disp[d]
    BY <1>0, <2>1, SetDispSays
  <2>3. Healthy(c)'
    BY <1>0, <2>1, <2>2 DEF Healthy, Polling
  <2> QED
    BY <1>0, <2>1, <2>2, <2>3, OneFrameMoves
<1>6. CASE PollNotFound(c)
  <2>1. /\ disp[c].pc = "polling" /\ ~ Knows(JobOf(c)) /\ PollFails(c, outbox)
        /\ UNCHANGED <<exec, task, reader, down, history>>
    BY <1>6 DEF PollNotFound, agent
  <2>2. task[c].pc = "none"
    BY <1>0, <2>1 DEF Healthy, Polling, Knows
  <2>3. disp'[c].pc \in {"polling", "cleanup"} /\ \A d \in Calls \ {c} : disp'[d] = disp[d]
    <3>1. disp[c] \in Dispatcher
      BY <1>0 DEF DispOK
    <3> QED
      BY <1>0, <2>1, <3>1, PollFailsSays DEF PollFails, DispOK, Dispatcher
  <2>4. \A j \in Jobs \ {JobOf(c)} : jrow'[j] = jrow[j]
    BY <1>0, <2>1 DEF PollFails
  <2>5. Healthy(c)'
    BY <1>0, <2>1, <2>2, <2>3 DEF Healthy, Polling
  <2> QED
    BY <1>0, <2>1, <2>3, <2>4, <2>5, OneFrameMoves
<1>7. CASE Poll(c)
  <2>1. exec.cur = c /\ disp[c].pc = "polling"
    <3>1. exec.cur \in Calls /\ JobOf(exec.cur) = JobOf(c) /\ disp[c].pc = "polling"
      BY <1>0, <1>7 DEF Poll, Knows, AgentOK
    <3> QED
      BY <3>1, OneJobEach
  <2> DEFINE k == IF task[c].pc = "sleeping" /\ task[c].looks < Retention THEN task[c].looks + 1
                  ELSE task[c].looks
  <2>2. /\ task' = [task EXCEPT ![c].looks = k] /\ UNCHANGED <<exec, reader, down, history>>
        /\ IF task[c].status \in Terminal THEN PollFinished(c, task[c].status) ELSE PollRunning(c)
    BY <1>7, <2>1 DEF Poll
  <2>3. /\ task'[c].pc = task[c].pc /\ task'[c].status = task[c].status /\ task'[c].looks = k
        /\ \A d \in Calls \ {c} : task'[d] = task[d]
    BY <1>0, <2>2 DEF AgentOK, RunTask
  <2>4. CASE task[c].status \in Terminal
    <3>1. /\ disp' = [disp EXCEPT ![c].pc = "pulled", ![c].says = task[c].status]
          /\ jrow' = [jrow EXCEPT ![JobOf(c)] = task[c].status]
      BY <1>0, <2>2, <2>4 DEF PollFinished
    <3>2. disp'[c].pc = "pulled" /\ \A d \in Calls \ {c} : disp'[d] = disp[d]
      BY <1>0, <3>1 DEF DispOK, Dispatcher
    <3>3. jrow'[JobOf(c)] = task[c].status /\ \A j \in Jobs \ {JobOf(c)} : jrow'[j] = jrow[j]
      BY <1>0, <3>1
    <3>4. task[c].pc # "none"
      BY <1>0, <2>1 DEF Healthy
    <3>5. Healthy(c)'
      BY <1>0, <2>1, <2>2, <2>3, <3>2, <3>3, <3>4 DEF Healthy, Polling
    <3> QED
      BY <1>0, <2>1, <2>2, <2>3, <3>2, <3>3, <3>5, OneFrameMoves
  <2>5. CASE task[c].status \notin Terminal
    <3>1. disp' = [disp EXCEPT ![c].failures = 0] /\ jrow' = jrow
      BY <1>0, <2>2, <2>5 DEF PollRunning
    <3>2. disp'[c].pc = "polling" /\ \A d \in Calls \ {c} : disp'[d] = disp[d]
      BY <1>0, <2>1, <3>1 DEF DispOK, Dispatcher
    <3>3. k = task[c].looks
      BY <1>0, <2>5 DEF Healthy
    <3> HIDE DEF k
    <3>5. Healthy(c)'
      BY <1>0, <2>1, <2>2, <2>3, <3>1, <3>2, <3>3 DEF Healthy, Polling
    <3> QED
      BY <1>0, <2>1, <2>2, <2>3, <3>1, <3>2, <3>5, OneFrameMoves
  <2> QED
    BY <2>4, <2>5
<1>8. CASE Fail(c)
  BY <1>0, <1>8 DEF Fail, Healthy
<1> QED
  BY <1>1, <1>2, <1>3, <1>4, <1>5, <1>6, <1>7, <1>8 DEF Handle

LEMMA RunWell ==
  ASSUME Typed, InOrder, Alone, AllWell, NEW c \in Calls,
         Run(c) \/ \E v \in {"succeeded", "failed"} : BrainEnds(c, v)
  PROVE  AllWell'
<1>0. /\ [Next]_vars /\ DispOK /\ AgentOK /\ HistOK /\ JobOf(c) \in Jobs /\ JobOf(c)' = JobOf(c)
      /\ link /\ Healthy(c) /\ NoCall \notin Calls
  BY OfKept, JobOfType DEF Next, Typed, InOrder, AllWell
<1>1. CASE StartRun(c)
  <2>1. /\ task[c].pc = "created" /\ task' = [task EXCEPT ![c].pc = "running"]
        /\ UNCHANGED <<disp, jrow, exec, reader, down>> /\ history'.finished = history.finished
    BY <1>0, <1>1 DEF StartRun, device, tunnel, HistOK
  <2>2. /\ task'[c].pc = "running" /\ task'[c].status = task[c].status /\ task'[c].looks = task[c].looks
        /\ \A d \in Calls \ {c} : task'[d] = task[d]
    BY <1>0, <2>1 DEF AgentOK, RunTask
  <2>3. Healthy(c)'
    BY <1>0, <2>1, <2>2 DEF Healthy, Polling
  <2>4. disp[c].pc # "unsent"
    BY <1>0, <2>1 DEF Healthy
  <2> QED
    BY <1>0, <2>1, <2>2, <2>3, <2>4, OneFrameMoves
<1>2. ASSUME NEW v \in {"succeeded", "failed"}, BrainEnds(c, v) PROVE AllWell'
  <2>1. /\ task[c].pc = "running" /\ task' = [task EXCEPT ![c].pc = "sleeping", ![c].status = v]
        /\ UNCHANGED <<disp, jrow, exec, reader, down>>
        /\ history'.finished = IF v = "succeeded" THEN history.finished \cup {JobOf(c)}
                               ELSE history.finished
    BY <1>0, <1>2 DEF BrainEnds, device, tunnel, HistOK
  <2>2. /\ task'[c].pc = "sleeping" /\ task'[c].status = v /\ task'[c].looks = task[c].looks
        /\ \A d \in Calls \ {c} : task'[d] = task[d]
    BY <1>0, <2>1 DEF AgentOK, RunTask
  <2>4. disp[c].pc # "unsent" /\ JobOf(c) \notin history.finished /\ jrow[JobOf(c)] # "failed"
    BY <1>0, <2>1 DEF Healthy
  <2>3. Healthy(c)'
    BY <1>0, <2>1, <2>2, <2>4 DEF Healthy, Polling, Terminal
  <2> QED
    BY <1>0, <2>1, <2>2, <2>3, <2>4, OneFrameMoves
<1>3. CASE Clear(c)
  <2>1. /\ task[c].pc = "sleeping" /\ task' = [task EXCEPT ![c].pc = "done"] /\ Slept(c)
        /\ exec' = [exec EXCEPT !.cur = NoCall] /\ Clobber(c)
        /\ UNCHANGED <<disp, jrow, reader, down>>
    BY <1>3 DEF Clear, device, tunnel
  <2>2. /\ task'[c].pc = "done" /\ task'[c].status = task[c].status /\ task'[c].looks = task[c].looks
        /\ \A d \in Calls \ {c} : task'[d] = task[d]
    BY <1>0, <2>1 DEF AgentOK, RunTask
  <2>3. exec.cur = c /\ exec'.cur = NoCall /\ exec'.cancels = exec.cancels
    BY <1>0, <2>1 DEF Alone, Active, AgentOK
  <2>4. disp[c].pc # "unsent" /\ ~ Polling(c)
    <3>1. disp[c].pc # "posted" /\ (disp[c].pc = "polling" => task[c].looks = Retention)
      BY <2>1 DEF Slept
    <3> QED
      BY <1>0, <2>1, <3>1 DEF Healthy, Polling
  <2>5. history'.finished = history.finished
    BY <1>0, <2>1, OddKeeps DEF Clobber
  <2>6. Healthy(c)'
    BY <1>0, <2>1, <2>2, <2>3, <2>4, <2>5 DEF Healthy, Polling
  <2> QED
    BY <1>0, <2>1, <2>2, <2>3, <2>4, <2>5, <2>6, OneFrameMoves
<1>4. CASE CancelReturns(c)
  BY <1>4 DEF CancelReturns, AllWell, NoCancel
<1> QED
  BY <1>1, <1>2, <1>3, <1>4 DEF Run

LEMMA FrameMovesWell ==
  ASSUME Typed, Known, InOrder, AllWell, NEW c \in Calls, Dispatch(c) \/ ReadDispatch(c)
  PROVE  AllWell'
<1>0. /\ [Next]_vars /\ DispOK /\ JobOf(c) \in Jobs /\ Healthy(c)
      /\ \A d \in Calls : JobOf(d)' = JobOf(d) /\ JobOf(d) \in Jobs
      /\ UNCHANGED <<jrow, exec, task, reader, history>>
  BY OfKept, JobOfType DEF Next, Gateway, Typed, AllWell, Dispatch, ReadDispatch, agent
<1>1. CASE Dispatch(c)
  <2>1. SetDisp(c, "sent") /\ gw.status[JobOf(c)] = "none" /\ down' = Append(down, [call |-> c])
    BY <1>1 DEF Dispatch
  <2>2. /\ disp'[c].pc = "sent" /\ \A d \in Calls \ {c} : disp'[d] = disp[d]
        /\ disp[c].pc = "unsent"
    BY <1>0, <2>1, SetDispSays DEF Known
  <2>3. \A d \in Calls : disp[d].pc # "unsent" => JobOf(d) # JobOf(c)
    BY <2>1 DEF Known
  <2>4. JobOf(c) \notin history.finished
    BY <2>3 DEF AllWell, FinishedWasSent
  <2>5. Healthy(c)'
    BY <1>0, <2>2, <2>4 DEF Healthy, Polling
  <2>6. \A d \in Calls \ {c} : Healthy(d)'
    BY <1>0, <2>2 DEF AllWell, Healthy, Polling
  <2>7. NoCancel'
    <3>1. [call |-> c] \in Frame
      BY DEF Frame
    <3>2. \A p, k : CancelAt(p, k)' => CancelAt(p, k)
      BY <2>1, <3>1, AppendFrames, FramesDiffer DEF CancelAt
    <3> QED
      BY <1>0, <3>2 DEF AllWell, NoCancel, ReaderFree
  <2>8. FinishedWasSent'
    BY <1>0, <2>2 DEF AllWell, FinishedWasSent
  <2> QED
    BY <2>5, <2>6, <2>7, <2>8 DEF AllWell
<1>2. CASE ReadDispatch(c)
  <2>1. SetDisp(c, "start") /\ down # <<>> /\ down' = Tail(down) /\ Head(down) = [call |-> c]
    BY <1>2 DEF ReadDispatch
  <2>2. /\ disp'[c].pc = "start" /\ \A d \in Calls \ {c} : disp'[d] = disp[d]
        /\ disp[c].pc = "sent"
    BY <1>0, <2>1, SetDispSays, ReadFrames DEF InOrder, InQueue
  <2>5. Healthy(c)'
    BY <1>0, <2>2 DEF Healthy, Polling
  <2>6. \A d \in Calls \ {c} : Healthy(d)'
    BY <1>0, <2>2 DEF AllWell, Healthy, Polling
  <2>7. NoCancel'
    BY <1>0, <2>1, ReadFrames DEF AllWell, NoCancel, ReaderFree
  <2>8. FinishedWasSent'
    BY <1>0, <2>2 DEF AllWell, FinishedWasSent
  <2> QED
    BY <2>5, <2>6, <2>7, <2>8 DEF AllWell
<1> QED
  BY <1>1, <1>2

LEMMA NextKept == Typed /\ Known /\ Ordered /\ Single /\ Kept /\ [Next]_vars => Kept'
<1> SUFFICES ASSUME Typed, Known, InOrder, Alone, AllWell, [Next]_vars, Calm, Calm' PROVE AllWell'
  BY OddGrows DEF Ordered, Single, Kept, Settled, Calm
<1>0. DispOK /\ AgentOK /\ ReadOK /\ HistOK /\ \A d \in Calls : JobOf(d)' = JobOf(d)
  BY OfKept DEF Typed
<1>1. ASSUME UNCHANGED <<disp, jrow, exec, task, reader, down>>, history'.finished = history.finished
      PROVE  AllWell'
  <2>1. NoCancel'
    BY <1>1 DEF AllWell, NoCancel, CancelAt, ReaderFree
  <2>2. FinishedWasSent'
    BY <1>0, <1>1 DEF AllWell, FinishedWasSent
  <2>3. \A c \in Calls : Healthy(c)'
    BY <1>0, <1>1 DEF AllWell, Healthy, Polling
  <2> QED
    BY <2>1, <2>2, <2>3 DEF AllWell
<1>2. ASSUME NEW what, Odd(what) PROVE what = {} /\ history'.finished = history.finished
  BY <1>0, <1>2, OddKeeps DEF Calm
<1>3. CASE Gateway
  <2>1. ASSUME NEW j \in Jobs, CancelJob(j) PROVE FALSE
    <3>1. Odd({"cancel"} \cup Stale(j))
      BY <2>1 DEF CancelJob
    <3> QED
      BY <1>2, <3>1
  <2> QED
    BY <1>3, <2>1, FrameMovesWell DEF Gateway, Redispatch, Unbroken, Calm
<1>4. CASE DeliverNext
  BY <1>1, <1>2, <1>4 DEF DeliverNext, Deliver, Handled, device, agent
<1>5. CASE (\E i \in 1 .. Len(outbox) : DeliverAndDrop(i)) \/ Drop \/ Reconnect \/ Restart
  <2>1. ASSUME NEW i \in 1 .. Len(outbox), DeliverAndDrop(i) PROVE FALSE
    <3>1. PICK more : Odd({"drop"} \cup more)
      BY <2>1 DEF DeliverAndDrop, Handled
    <3> QED
      BY <1>2, <3>1
  <2> QED
    BY <1>2, <1>5, <2>1 DEF Drop, Reconnect, Restart, InOrder
<1>6. ASSUME NEW c \in Calls, Handle(c) PROVE AllWell'
  BY <1>6, HandleWell
<1>7. ASSUME NEW c \in Calls, PollTimesOut(c) \/ Unreachable(c) \/ PostFails(c) \/ QuotaFails(c) PROVE FALSE
  BY <1>2, <1>7 DEF PollTimesOut, Unreachable, PostFails, QuotaFails
<1>8. ASSUME NEW c \in Calls, Run(c) \/ \E v \in {"succeeded", "failed"} : BrainEnds(c, v) PROVE AllWell'
  BY <1>8, RunWell
<1>9. ASSUME NEW c \in Calls, ReadDispatch(c) PROVE AllWell'
  BY <1>9, FrameMovesWell
<1>10. ASSUME NEW j \in Jobs, ReadCancel(j) PROVE FALSE
  <2>1. down # <<>> /\ down' = Tail(down) /\ Head(down) = [cancel |-> j]
    BY <1>10 DEF ReadCancel
  <2>2. CancelAt(1, j)
    BY <2>1, ReadFrames
  <2> QED
    BY <2>2 DEF AllWell, NoCancel
<1>11. CASE UNCHANGED vars
  BY <1>1, <1>11 DEF vars, device, agent, tunnel
<1> QED
  BY <1>3, <1>4, <1>5, <1>6, <1>7, <1>8, <1>9, <1>10, <1>11 DEF Next

LEMMA InitKept == Init => Kept
  BY DEF Init, Kept, AllWell, NoCancel, CancelAt, ReaderFree, FinishedWasSent, Healthy, Polling

\* A success is recorded (_poll_progress, JobExecutor._run): while nothing unusual has
\* happened, the executor keeps the record of a finished run until its dispatcher
\* has seen it, so that 404 is only answered about a job that was never run.
THEOREM SuccessIsKept == Spec => []SuccessKept
<1>1. Typed /\ Kept => SuccessKept
  BY DEF Typed, HistOK, Kept, Calm, AllWell, FinishedWasSent, Healthy, SuccessKept
<1> QED
  BY <1>1, InitTyped, NextTyped, InitKnown, NextKnown, InitOrdered, NextOrdered, NextSingle,
     InitKept, NextKept, PTL DEF Spec
=============================================================================
