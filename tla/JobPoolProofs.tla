---------------------------- MODULE JobPoolProofs ----------------------------
(* Machine-checked facts about JobPool, for every set of jobs, agents,     *)
(* devices and goroutines and every value of the deadlines.                *)
EXTENDS JobPool, TLAPS

USE ConstantsOK

-----------------------------------------------------------------------------
(* What the bookkeeping of a goroutine does to thr: which fields the other *)
(* steps of a proof may rely on.                                           *)

ThrOK  == thr \in [Threads -> Thread] /\ \A t \in Threads : Ready(thr[t])
JobsOK == jobs \in [Jobs -> JobRow]

\* replacing the locals of one goroutine by well-formed ones
LEMMA SetThread ==
  ASSUME ThrOK, NEW t \in Threads, NEW r \in Thread, Ready(r),
         thr' = [thr EXCEPT ![t] = r]
  PROVE  ThrOK'
  BY DEF ThrOK, Ready

LEMMA RestType == AtRest \in Thread /\ Ready(AtRest)
  BY DEF AtRest, Thread, Labels, Ready, UsesJob, UsesAgent

LEMMA GotoType ==
  ASSUME ThrOK, NEW t \in Threads, NEW l \in Labels, Goto(t, l),
         l \in UsesJob => thr[t].job \in Jobs,
         l \in UsesAgent => thr[t].agent \in Agents
  PROVE  ThrOK'
<1> DEFINE r == [thr[t] EXCEPT !.pc = l]
<1>1. thr[t] \in Thread
  BY DEF ThrOK
<1>2. r \in Thread /\ r.pc = l /\ r.job = thr[t].job /\ r.agent = thr[t].agent
  BY <1>1 DEF Thread
<1>3. Ready(r)
  BY <1>2 DEF Ready
<1>4. thr' = [thr EXCEPT ![t] = r]
  BY DEF Goto
<1> QED
  BY <1>2, <1>3, <1>4, SetThread

LEMMA FinishType ==
  ASSUME ThrOK, NEW t \in Threads, Finish(t)
  PROVE  ThrOK'
  BY RestType, SetThread DEF Finish

LEMMA NextRoundType ==
  ASSUME ThrOK, NEW t \in Threads, NextRound(t)
  PROVE  ThrOK'
<1> DEFINE r == [AtRest EXCEPT !.op = "dequeue", !.pc = "pick"]
<1>1. r \in Thread /\ Ready(r)
  BY DEF AtRest, Thread, Labels, Ready, UsesJob, UsesAgent
<1> QED
  BY <1>1, RestType, SetThread DEF NextRound

LEMMA StartType ==
  ASSUME ThrOK, NEW t \in Threads, NEW op, NEW l \in Labels,
         NEW j \in Jobs \cup {NoJob}, NEW a \in Agents \cup {NoAgent},
         op \in {"none", "submit", "dequeue", "cancel", "result", "sync"},
         l \in UsesJob => j \in Jobs,
         l \in UsesAgent => a \in Agents,
         Start(t, op, l, j, a)
  PROVE  ThrOK'
<1> DEFINE r == [AtRest EXCEPT !.op = op, !.pc = l, !.job = j, !.agent = a]
<1>1. r \in Thread /\ r.pc = l /\ r.job = j /\ r.agent = a
  BY DEF AtRest, Thread
<1>2. Ready(r)
  BY <1>1 DEF Ready
<1> QED
  BY <1>1, <1>2, SetThread DEF Start

-----------------------------------------------------------------------------
(* The statements of the stores keep the tables well-formed.               *)

LEMMA RowTypes ==
  ASSUME JobsOK, NEW j \in Jobs, NEW s \in JobStatus, NEW a \in Agents
  PROVE  /\ UpdateStatus(j, s) => JobsOK'
         /\ UpdateResult(j, s) => JobsOK'
         /\ UpdateProgress(j, s) => JobsOK'
         /\ SetAgent(j, a) => JobsOK'
         /\ ClearAgent(j) => JobsOK'
<1>1. Fresh \in Ages
  BY DEF Fresh, Ages, NotStarted
<1>2. "dispatched" \in JobStatus
  BY DEF JobStatus, Active
<1>3. UpdateStatus(j, s) => JobsOK'
  BY DEF UpdateStatus, JobsOK, JobRow
<1>4. UpdateResult(j, s) => JobsOK'
  BY DEF UpdateResult, JobsOK, JobRow
<1>5. UpdateProgress(j, s) => JobsOK'
  <2>1. jobs[j] \in JobRow /\ jobs[j].status \in JobStatus
    BY DEF JobsOK, JobRow
  <2>2. PICK v \in JobStatus : v = (IF s \in Terminal THEN jobs[j].status ELSE s)
    BY <2>1
  <2>3. UpdateProgress(j, s) => jobs' = [jobs EXCEPT ![j].status = v]
    BY <2>2 DEF UpdateProgress
  <2> QED
    BY <2>3 DEF JobsOK, JobRow
<1>6. SetAgent(j, a) => JobsOK'
  <2> DEFINE row == [jobs[j] EXCEPT !.status = "dispatched", !.agent = a, !.age = Fresh]
  <2>1. row \in JobRow
    BY <1>1, <1>2 DEF JobsOK, JobRow
  <2>2. SetAgent(j, a) => jobs' = [jobs EXCEPT ![j] = row]
    BY DEF SetAgent
  <2> QED
    BY <2>1, <2>2 DEF JobsOK
<1>7. ClearAgent(j) => JobsOK'
  BY DEF ClearAgent, JobsOK, JobRow
<1> QED
  BY <1>3, <1>4, <1>5, <1>6, <1>7

LEMMA ExpireType ==
  ASSUME JobsOK, ExpireStale
  PROVE  JobsOK'
<1>1. "failed" \in JobStatus
  BY DEF JobStatus, Terminal
<1> QED
  BY <1>1 DEF ExpireStale, JobsOK, JobRow

LEMMA AgentTypes ==
  ASSUME agents \in [Agents -> AgentRow], NEW a \in Agents, NEW j \in Jobs
  PROVE  /\ Allocate(a, j) => agents' \in [Agents -> AgentRow]
         /\ ReleaseRow(a) => agents' \in [Agents -> AgentRow]
  BY DEF Allocate, ReleaseRow, AgentRow, AgentStatus

LEMMA SpawnType ==
  ASSUME wake \in 0 .. MaxWake, Spawn
  PROVE  wake' \in 0 .. MaxWake
  BY DEF Spawn

Faults == {"doubleClaim", "staleRelease", "revived", "crashedRollback"}

LEMMA NoteType ==
  ASSUME faults \subseteq Faults, NEW f \in Faults, NEW b, Note(f, b)
  PROVE  faults' \subseteq Faults
  BY DEF Note

-----------------------------------------------------------------------------
(* Type correctness                                                        *)

Typed == /\ JobsOK
         /\ agents \in [Agents -> AgentRow]
         /\ ThrOK
         /\ wake \in 0 .. MaxWake
         /\ up \subseteq Devices
         /\ sent \subseteq Jobs
         /\ faults \subseteq Faults

LEMMA TypeParts == (TypeOK <=> Typed) /\ (TypeOK' <=> Typed')
  BY DEF Typed, TypeOK, JobsOK, ThrOK, Faults

LEMMA InitType == Init => TypeOK
<1> SUFFICES ASSUME Init PROVE TypeOK
  OBVIOUS
<1>1. JobsOK
  BY DEF Init, JobsOK, JobRow, JobStatus, Ages, NotStarted, Fresh
<1>2. agents \in [Agents -> AgentRow]
  BY DEF Init, AgentRow, AgentStatus
<1>3. ThrOK
  BY RestType DEF Init, ThrOK
<1> QED
  BY <1>1, <1>2, <1>3, TypeParts DEF Init, Typed

\* fields of a goroutine that is at a given label
LEMMA AtType ==
  ASSUME ThrOK, NEW t \in Threads
  PROVE  /\ thr[t] \in Thread
         /\ thr[t].agent \in Agents \cup {NoAgent}
         /\ thr[t].job \in Jobs \cup {NoJob}
         /\ thr[t].rest \subseteq Agents
         /\ thr[t].todo \subseteq Jobs
         /\ \A l \in UsesJob : At(t, l) => thr[t].job \in Jobs
         /\ \A l \in UsesAgent : At(t, l) => thr[t].agent \in Agents
  BY DEF ThrOK, Thread, Ready, At

LEMMA StepType ==
  ASSUME TypeOK, NEW t \in Threads, Step(t)
  PROVE  TypeOK'
<1> USE TypeParts DEF Typed
<1>0. /\ "queued" \in JobStatus /\ "failed" \in JobStatus /\ "cancelled" \in JobStatus
      /\ {"doubleClaim", "staleRelease", "revived"} \subseteq Faults
  BY DEF JobStatus, Active, Terminal, Faults
<1>1. CASE CheckCap(t)
  <2>1. thr[t].job \in Jobs
    BY <1>1, AtType DEF CheckCap, UsesJob
  <2>2. ThrOK'
    BY <1>1, <2>1, GotoType, FinishType DEF CheckCap, Labels, UsesAgent
  <2> QED
    BY <1>1, <2>2 DEF CheckCap, tables, JobsOK
<1>2. CASE FindIdle(t)
  <2>1. thr[t].job \in Jobs /\ thr[t] \in Thread
    BY <1>2, AtType DEF FindIdle, UsesJob
  <2>2. ASSUME NEW a \in FreeAgents, thr' = [thr EXCEPT ![t].pc = "claim", ![t].agent = a]
        PROVE  ThrOK'
    <3> DEFINE r == [thr[t] EXCEPT !.pc = "claim", !.agent = a]
    <3>1. a \in Agents
      BY DEF FreeAgents
    <3>2. r \in Thread /\ r.job = thr[t].job /\ r.agent = a
      BY <2>1, <3>1 DEF Thread, Labels
    <3>3. thr' = [thr EXCEPT ![t] = r]
      BY <2>2
    <3> QED
      BY <2>1, <3>1, <3>2, <3>3, SetThread DEF Ready
  <2>3. ThrOK'
    BY <1>2, <2>1, <2>2, GotoType, FinishType DEF FindIdle, Labels, UsesAgent
  <2> QED
    BY <1>2, <2>3 DEF FindIdle, tables, JobsOK
<1>3. CASE Enqueue(t)
  <2>1. thr[t].job \in Jobs
    BY <1>3, AtType DEF Enqueue, UsesJob
  <2>2. ThrOK'
    BY <1>3, FinishType DEF Enqueue
  <2>3. JobsOK'
    BY <1>0, <1>3, <2>1 DEF Enqueue, UpdateStatus, JobsOK, JobRow
  <2>4. faults' \subseteq Faults
    BY <1>0, <1>3, NoteType DEF Enqueue
  <2> QED
    BY <1>3, <2>2, <2>3, <2>4 DEF Enqueue
<1>4. CASE Claim(t)
  <2>1. thr[t].job \in Jobs /\ thr[t].agent \in Agents
    BY <1>4, AtType DEF Claim, UsesJob, UsesAgent
  <2>2. ThrOK'
    BY <1>4, <2>1, GotoType DEF Claim, Labels
  <2>3. agents' \in [Agents -> AgentRow]
    BY <1>4, <2>1, AgentTypes DEF Claim
  <2>4. faults' \subseteq Faults
    BY <1>0, <1>4, NoteType DEF Claim
  <2> QED
    BY <1>4, <2>2, <2>3, <2>4 DEF Claim, JobsOK
<1>5. CASE RecordAgent(t)
  <2>1. thr[t].job \in Jobs /\ thr[t].agent \in Agents
    BY <1>5, AtType DEF RecordAgent, UsesJob, UsesAgent
  <2>2. ThrOK'
    BY <1>5, <2>1, GotoType DEF RecordAgent, Labels
  <2>3. JobsOK'
    BY <1>0, <1>5, <2>1, RowTypes DEF RecordAgent
  <2> QED
    BY <1>5, <2>2, <2>3 DEF RecordAgent
<1>6. CASE Dispatch(t)
  <2>1. thr[t].job \in Jobs /\ thr[t].agent \in Agents
    BY <1>6, AtType DEF Dispatch, UsesJob, UsesAgent
  <2>2. ThrOK'
    BY <1>6, <2>1, GotoType, NextRoundType DEF Dispatch, Labels
  <2>3. sent' \subseteq Jobs
    BY <1>6, <2>1 DEF Dispatch
  <2> QED
    BY <1>6, <2>2, <2>3 DEF Dispatch, tables, JobsOK
<1>7. CASE Unclaim(t)
  <2>1. thr[t].job \in Jobs /\ thr[t].agent \in Agents
    BY <1>7, AtType DEF Unclaim, UsesJob, UsesAgent
  <2>2. ThrOK'
    BY <1>7, <2>1, GotoType DEF Unclaim, Labels
  <2>3. agents' \in [Agents -> AgentRow]
    BY <1>7, <2>1, AgentTypes DEF Unclaim
  <2>4. faults' \subseteq Faults
    BY <1>0, <1>7, NoteType DEF Unclaim
  <2>5. wake' \in 0 .. MaxWake
    BY <1>7, SpawnType DEF Unclaim
  <2> QED
    BY <1>7, <2>2, <2>3, <2>4, <2>5 DEF Unclaim, JobsOK
<1>8. CASE ClearJob(t)
  <2>1. thr[t].job \in Jobs /\ thr[t].agent \in Agents
    BY <1>8, AtType DEF ClearJob, UsesJob, UsesAgent
  <2>2. ThrOK'
    BY <1>8, <2>1, GotoType DEF ClearJob, Labels
  <2>3. JobsOK'
    BY <1>0, <1>8, <2>1, RowTypes DEF ClearJob
  <2> QED
    BY <1>8, <2>2, <2>3 DEF ClearJob
<1>9. CASE Requeue(t)
  <2>1. thr[t].job \in Jobs
    BY <1>9, AtType DEF Requeue, UsesJob
  <2>2. ThrOK'
    BY <1>9, NextRoundType DEF Requeue
  <2>3. JobsOK'
    BY <1>0, <1>9, <2>1 DEF Requeue, UpdateStatus, JobsOK, JobRow
  <2>4. faults' \subseteq Faults
    BY <1>0, <1>9, NoteType DEF Requeue
  <2> QED
    BY <1>9, <2>2, <2>3, <2>4 DEF Requeue
<1>10. CASE PickJob(t)
  <2>1. ASSUME NEW j \in Waiting,
               thr' = [thr EXCEPT ![t].pc = "find", ![t].job = j, ![t].agent = NoAgent]
        PROVE  ThrOK'
    <3> DEFINE r == [thr[t] EXCEPT !.pc = "find", !.job = j, !.agent = NoAgent]
    <3>1. j \in Jobs
      BY DEF Waiting
    <3>2. r \in Thread /\ r.job = j /\ r.pc = "find"
      BY <3>1, AtType DEF Thread, Labels
    <3>3. thr' = [thr EXCEPT ![t] = r]
      BY <2>1
    <3> QED
      BY <3>1, <3>2, <3>3, SetThread DEF Ready, UsesAgent
  <2>2. ThrOK'
    BY <1>10, <2>1, FinishType DEF PickJob
  <2> QED
    BY <1>10, <2>2 DEF PickJob, tables, JobsOK
<1>11. CASE CancelJob(t)
  <2>1. thr[t].job \in Jobs /\ thr[t].agent \in Agents \cup {NoAgent}
    BY <1>11, AtType DEF CancelJob, UsesJob
  <2>2. ThrOK'
    BY <1>11, <2>1, GotoType, FinishType DEF CancelJob, Labels, UsesJob
  <2>3. JobsOK'
    BY <1>0, <1>11, <2>1 DEF CancelJob, JobsOK, JobRow
  <2> QED
    BY <1>11, <2>2, <2>3 DEF CancelJob
<1>12. CASE Release(t)
  <2>1. thr[t].agent \in Agents
    BY <1>12, AtType DEF Release, UsesAgent
  <2>2. ThrOK'
    BY <1>12, <2>1, GotoType, FinishType DEF Release, Labels, UsesJob
  <2>3. agents' \in [Agents -> AgentRow]
    BY <1>12, <2>1 DEF Release, ReleaseRow, AgentRow, AgentStatus
  <2>4. faults' \subseteq Faults
    BY <1>0, <1>12, NoteType DEF Release
  <2>5. wake' \in 0 .. MaxWake
    BY <1>12, SpawnType DEF Release
  <2> QED
    BY <1>12, <2>2, <2>3, <2>4, <2>5 DEF Release, JobsOK
<1>13. CASE LoadAgent(t)
  <2>1. thr[t].job \in Jobs /\ thr[t] \in Thread
    BY <1>13, AtType DEF LoadAgent, UsesJob
  <2> DEFINE a == jobs[thr[t].job].agent
             r == [thr[t] EXCEPT !.pc = "release", !.agent = a]
  <2>2. ASSUME a # NoAgent, thr' = [thr EXCEPT ![t].pc = "release", ![t].agent = a]
        PROVE  ThrOK'
    <3>1. a \in Agents
      BY <2>1, <2>2 DEF JobsOK, JobRow
    <3>2. r \in Thread /\ r.agent = a /\ r.pc = "release"
      BY <2>1, <3>1 DEF Thread, Labels
    <3>3. thr' = [thr EXCEPT ![t] = r]
      BY <2>2
    <3> QED
      BY <3>1, <3>2, <3>3, SetThread DEF Ready, UsesJob
  <2>3. ThrOK'
    BY <1>13, <2>2, FinishType DEF LoadAgent
  <2> QED
    BY <1>13, <2>3 DEF LoadAgent, tables, JobsOK
<1>14. CASE SyncAgent(t)
  <2> DEFINE r(a) == [thr[t] EXCEPT !.pc = "syncfail", !.agent = a,
                                         !.rest = thr[t].rest \ {a}, !.todo = Unsynced(a)]
  <2>1. ASSUME NEW a \in thr[t].rest, thr' = [thr EXCEPT ![t] = r(a)]
        PROVE  ThrOK'
    <3>1. a \in Agents /\ thr[t] \in Thread /\ Unsynced(a) \subseteq Jobs
      BY AtType DEF Unsynced
    <3>2. r(a) \in Thread /\ r(a).agent = a /\ r(a).pc = "syncfail"
      BY <3>1 DEF Thread, Labels
    <3> QED
      BY <2>1, <3>1, <3>2, SetThread DEF Ready, UsesJob
  <2>2. ASSUME ~ Finish(t) PROVE ThrOK'
    <3>1. PICK a \in thr[t].rest :
            thr' = [thr EXCEPT ![t] =
              [thr[t] EXCEPT !.pc = "syncfail", !.agent = a,
                             !.rest = thr[t].rest \ {a}, !.todo = Unsynced(a)]]
      BY <1>14, <2>2 DEF SyncAgent
    <3>2. thr' = [thr EXCEPT ![t] = r(a)]
      BY <3>1
    <3> QED
      BY <2>1, <3>2
  <2>4. ThrOK'
    BY <2>2, FinishType
  <2> QED
    BY <1>14, <2>4 DEF SyncAgent, tables, JobsOK
<1>15. CASE SyncFailJob(t)
  <2> DEFINE done    == [thr[t] EXCEPT !.pc = "sync", !.job = NoJob, !.agent = NoAgent]
             next(j) == [thr[t] EXCEPT !.pc = "release", !.job = j, !.todo = @ \ {j}]
  <2>1. thr[t] \in Thread /\ thr[t].agent \in Agents /\ thr[t].todo \subseteq Jobs
    BY <1>15, AtType DEF SyncFailJob, UsesAgent
  <2>2. ASSUME thr' = [thr EXCEPT ![t] = done] PROVE ThrOK'
    <3>1. done \in Thread /\ done.pc = "sync"
      BY <2>1 DEF Thread, Labels
    <3> QED
      BY <2>2, <3>1, SetThread DEF Ready, UsesJob, UsesAgent
  <2>3. ASSUME NEW j \in thr[t].todo, thr' = [thr EXCEPT ![t] = next(j)] PROVE ThrOK'
    <3>1. next(j) \in Thread /\ next(j).pc = "release" /\ next(j).agent = thr[t].agent
      BY <2>1 DEF Thread, Labels
    <3> QED
      BY <2>1, <2>3, <3>1, SetThread DEF Ready, UsesJob
  <2>4. ThrOK'
    BY <1>15, <2>2, <2>3, ZenonT(60) DEF SyncFailJob
  <2>5. JobsOK'
    <3>1. ASSUME NEW j \in Jobs, UpdateResult(j, "failed") PROVE JobsOK'
      BY <1>0, <3>1 DEF UpdateResult, JobsOK, JobRow
    <3> QED
      BY <1>15, <2>1, <3>1 DEF SyncFailJob, JobsOK
  <2> QED
    BY <1>15, <2>4, <2>5 DEF SyncFailJob
<1> QED
  BY <1>1, <1>2, <1>3, <1>4, <1>5, <1>6, <1>7, <1>8, <1>9, <1>10, <1>11,
     <1>12, <1>13, <1>14, <1>15 DEF Step

LEMMA BeginType ==
  ASSUME TypeOK, NEW t \in Threads, Begin(t) \/ StartDequeue(t)
  PROVE  TypeOK'
<1> USE TypeParts DEF Typed
<1>0. /\ {"pending", "failed"} \cup Results \cup Terminal \subseteq JobStatus
      /\ NoJob \in Jobs \cup {NoJob} /\ NoAgent \in Agents \cup {NoAgent}
  BY DEF JobStatus, Active, Terminal
<1>1. ASSUME NEW j \in Jobs, Submit(t, j) PROVE TypeOK'
  <2>1. ThrOK'
    BY <1>0, <1>1, StartType DEF Submit, Labels, UsesAgent
  <2>2. JobsOK'
    BY <1>0, <1>1 DEF Submit, JobsOK, JobRow
  <2> QED
    BY <1>1, <2>1, <2>2 DEF Submit
<1>2. ASSUME NEW j \in Jobs, ReadForCancel(t, j) PROVE TypeOK'
  <2>1. jobs[j].agent \in Agents \cup {NoAgent}
    BY DEF JobsOK, JobRow
  <2>2. ThrOK'
    BY <1>2, <2>1, StartType DEF ReadForCancel, Labels, UsesAgent
  <2> QED
    BY <1>2, <2>2 DEF ReadForCancel, tables, JobsOK
<1>3. ASSUME NEW j \in Jobs, NEW s \in Results, JobResult(t, j, s) PROVE TypeOK'
  <2>1. ThrOK'
    BY <1>0, <1>3, StartType DEF JobResult, Labels, UsesAgent
  <2>2. JobsOK'
    BY <1>0, <1>3 DEF JobResult, UpdateResult, JobsOK, JobRow
  <2> QED
    BY <1>3, <2>1, <2>2 DEF JobResult
<1>4. ASSUME NEW d \in Devices, StateSync(t, d) PROVE TypeOK'
  <2> DEFINE mine == {a \in Agents : DeviceOf[a] = d}
             r    == [AtRest EXCEPT !.op = "sync", !.pc = "sync", !.rest = mine]
  <2>1. mine \subseteq Agents
    OBVIOUS
  <2>2. r \in Thread /\ r.pc = "sync"
    <3> HIDE DEF mine
    <3> QED
      BY <2>1, RestType DEF Thread, Labels
  <2>3. ThrOK'
    BY <1>4, <2>2, SetThread DEF StateSync, Ready, UsesJob, UsesAgent
  <2> QED
    BY <1>4, <2>3 DEF StateSync, tables, JobsOK
<1>5. CASE StartDequeue(t)
  <2>1. ThrOK'
    <3>1. Start(t, "dequeue", "pick", NoJob, NoAgent)
      BY <1>5 DEF StartDequeue
    <3>2. "pick" \in Labels /\ "pick" \notin UsesJob /\ "pick" \notin UsesAgent
      BY DEF Labels, UsesJob, UsesAgent
    <3> QED
      BY <1>0, <3>1, <3>2, StartType
  <2>2. JobsOK'
    BY <1>5, ExpireType DEF StartDequeue
  <2>3. wake' \in 0 .. MaxWake
    BY <1>5 DEF StartDequeue
  <2> QED
    BY <1>5, <2>1, <2>2, <2>3 DEF StartDequeue
<1> QED
  BY <1>1, <1>2, <1>3, <1>4, <1>5 DEF Begin

LEMMA OtherType ==
  ASSUME TypeOK, ExpiryTick \/ Frame \/ Environment
  PROVE  TypeOK'
<1> USE TypeParts DEF Typed
<1>0. /\ {"running", "overdue"} \cup Results \cup Terminal \subseteq JobStatus
      /\ {"staleRelease", "revived", "crashedRollback"} \subseteq Faults
  BY DEF JobStatus, Active, Terminal, Faults
<1>1. CASE ExpiryTick
  BY <1>1, ExpireType DEF ExpiryTick, ThrOK
<1>2. ASSUME NEW j \in Jobs, JobAccepted(j) PROVE TypeOK'
  <2>1. JobsOK'
    BY <1>0, <1>2 DEF JobAccepted, UpdateStatus, JobsOK, JobRow
  <2>2. faults' \subseteq Faults
    BY <1>0, <1>2, NoteType DEF JobAccepted
  <2> QED
    BY <1>2, <2>1, <2>2 DEF JobAccepted, ThrOK
<1>3. ASSUME NEW j \in Jobs, NEW s \in {"running"} \cup Results, JobProgress(j, s)
      PROVE  TypeOK'
  <2>1. jobs[j].status \in JobStatus
    BY DEF JobsOK, JobRow
  <2>2. PICK v \in JobStatus : v = (IF s \in Terminal THEN jobs[j].status ELSE s)
    BY <1>0, <2>1
  <2>3. jobs' = [jobs EXCEPT ![j].status = v]
    BY <1>3, <2>2 DEF JobProgress, UpdateProgress
  <2>4. JobsOK'
    BY <2>3 DEF JobsOK, JobRow
  <2>5. faults' \subseteq Faults
    BY <1>0, <1>3, NoteType DEF JobProgress
  <2> QED
    BY <1>3, <2>4, <2>5 DEF JobProgress, ThrOK
<1>4. ASSUME NEW a \in Agents, NEW s \in AgentStatus, ReportAgent(a, s) PROVE TypeOK'
  <2>1. agents' \in [Agents -> AgentRow]
    BY <1>4 DEF ReportAgent, AgentRow
  <2> QED
    BY <1>4, <2>1 DEF ReportAgent, JobsOK, ThrOK
<1>5. ASSUME NEW d \in Devices, Hello(d) PROVE TypeOK'
  <2>1. sent' \subseteq Jobs
    BY <1>5 DEF Hello
  <2>2. wake' \in 0 .. MaxWake
    BY <1>5, SpawnType DEF Hello
  <2> QED
    BY <1>5, <2>1, <2>2 DEF Hello, tables, JobsOK, ThrOK
<1>6. ASSUME NEW a \in Agents, ForceRelease(a) PROVE TypeOK'
  <2>1. agents' \in [Agents -> AgentRow]
    BY <1>6 DEF ForceRelease, ReleaseRow, AgentRow, AgentStatus
  <2>2. faults' \subseteq Faults
    BY <1>0, <1>6, NoteType DEF ForceRelease
  <2>3. wake' \in 0 .. MaxWake
    BY <1>6, SpawnType DEF ForceRelease
  <2> QED
    BY <1>6, <2>1, <2>2, <2>3 DEF ForceRelease, JobsOK, ThrOK
<1>7. ASSUME NEW d \in Devices, Connect(d) \/ Disconnect(d) PROVE TypeOK'
  BY <1>7 DEF Connect, Disconnect, tables, JobsOK, ThrOK
<1>8. ASSUME NEW j \in Jobs, QueueTTLEnds(j) PROVE TypeOK'
  BY <1>0, <1>8 DEF QueueTTLEnds, JobsOK, JobRow, ThrOK
<1>9. ASSUME NEW j \in Jobs, DispatchAges(j) PROVE TypeOK'
  <2>1. jobs[j].age + 1 \in Ages
    BY <1>9 DEF DispatchAges, Ages, Fresh, NotStarted
  <2>2. JobsOK'
    BY <1>9, <2>1 DEF DispatchAges, JobsOK, JobRow
  <2> QED
    BY <1>9, <2>2 DEF DispatchAges, ThrOK
<1>10. CASE Crash
  <2>1. ThrOK'
    BY <1>10, RestType DEF Crash, ThrOK
  <2>2. faults' \subseteq Faults
    BY <1>0, <1>10, NoteType DEF Crash
  <2> QED
    BY <1>10, <2>1, <2>2 DEF Crash, tables, JobsOK
<1> QED
  BY <1>1, <1>2, <1>3, <1>4, <1>5, <1>6, <1>7, <1>8, <1>9, <1>10
     DEF Frame, Environment

LEMMA NextType == TypeOK /\ [Next]_vars => TypeOK'
<1> SUFFICES ASSUME TypeOK, [Next]_vars PROVE TypeOK'
  OBVIOUS
<1>1. CASE UNCHANGED vars
  BY <1>1 DEF vars, tables, TypeOK
<1>2. CASE Next
  BY <1>2, StepType, BeginType, OtherType DEF Next
<1> QED
  BY <1>1, <1>2

\* In every reachable state the rows and the goroutines are well-formed, and no
\* handler reaches a statement with the job or the agent it needs still nil
\* (the `job.AgentID != nil` checks of main.go and jobs_handler.go).
THEOREM TypeCorrect == Spec => []TypeOK
  BY InitType, NextType, PTL DEF Spec

-----------------------------------------------------------------------------
(* Ownership                                                               *)
(*                                                                         *)
(* Owned is preserved by every step that records no fault. Most steps only *)
(* end entitlements or leave them alone (OwnedFrame); a release takes a    *)
(* row away that nobody is entitled to (OwnedRelease); Claim and           *)
(* RecordAgent create an entitlement together with the owner it needs.     *)

\* a row that was never written names no agent
Unborn == \A j \in Jobs : jobs[j].status = "none" => jobs[j].agent = NoAgent

ActiveOn(j, a) == IsActive(j) /\ jobs[j].agent = a

\* no rollback ends, and no goroutine arrives at "set"
Undisturbed ==
    \A u \in Threads :
      /\ thr[u].pc \in {"unclaim", "clear"} =>
            /\ thr'[u].pc \in {"unclaim", "clear"}
            /\ thr'[u].job = thr[u].job /\ thr'[u].agent = thr[u].agent
      /\ thr'[u].pc = "set" => thr'[u] = thr[u]

\* no job becomes entitled to an agent
NothingGained ==
    \A j \in Jobs, a \in Agents : ActiveOn(j, a)' => ActiveOn(j, a)

LEMMA HoldsKept ==
  ASSUME Undisturbed, NothingGained, NEW j \in Jobs, NEW a \in Agents, Holds(j, a)'
  PROVE  Holds(j, a)
<1>1. ActiveOn(j, a)
  BY DEF NothingGained, ActiveOn, Holds
<1>2. RollingBack(j, a) => RollingBack(j, a)'
  BY DEF Undisturbed, RollingBack
<1> QED
  BY <1>1, <1>2 DEF Holds, ActiveOn

LEMMA OwnedFrame ==
  ASSUME Owned, Undisturbed, NothingGained,
         \A a \in Agents : agents'[a].job = agents[a].job,
         ThrOK
  PROVE  Owned'
<1>1. ASSUME NEW j \in Jobs, NEW a \in Agents, Holds(j, a)' PROVE agents'[a].job = j
  BY <1>1, HoldsKept DEF Owned
<1>2. ASSUME NEW u \in Threads, thr'[u].pc = "set"
      PROVE  agents'[thr'[u].agent].job = thr'[u].job
  <2>1. thr'[u] = thr[u]
    BY <1>2 DEF Undisturbed
  <2>2. thr[u].agent \in Agents
    BY <1>2, <2>1 DEF ThrOK, Ready, UsesAgent
  <2> QED
    BY <1>2, <2>1, <2>2 DEF Owned, At
<1> QED
  BY <1>1, <1>2 DEF Owned, At

LEMMA OwnedRelease ==
  ASSUME Owned, Undisturbed, jobs' = jobs, NEW b \in Agents, ReleaseRow(b),
         agents \in [Agents -> AgentRow],
         ThrOK,
         \A j \in Jobs : ~ Holds(j, b),
         \A u \in Threads : thr'[u].pc = "set" => thr[u].agent # b
  PROVE  Owned'
<1>0. NothingGained
  BY DEF NothingGained, ActiveOn, IsActive
<1>1. ASSUME NEW j \in Jobs, NEW a \in Agents, Holds(j, a)' PROVE agents'[a].job = j
  <2>1. Holds(j, a) /\ a # b
    BY <1>0, <1>1, HoldsKept
  <2> QED
    BY <2>1 DEF ReleaseRow, Owned
<1>2. ASSUME NEW u \in Threads, thr'[u].pc = "set"
      PROVE  agents'[thr'[u].agent].job = thr'[u].job
  <2>1. thr'[u] = thr[u] /\ thr[u].agent # b
    BY <1>2 DEF Undisturbed
  <2>2. thr[u].agent \in Agents
    BY <1>2, <2>1 DEF ThrOK, Ready, UsesAgent
  <2> QED
    BY <1>2, <2>1, <2>2 DEF Owned, At, ReleaseRow
<1> QED
  BY <1>1, <1>2 DEF Owned, At

LEMMA StatusGainsNothing ==
  ASSUME JobsOK, Unborn, NEW j \in Jobs, NEW s,
         jobs' = [jobs EXCEPT ![j].status = s],
         s \in Terminal \/ ~ IsTerminal(j)
  PROVE  NothingGained
<1>1. ASSUME NEW k \in Jobs, NEW a \in Agents, ActiveOn(k, a)' PROVE ActiveOn(k, a)
  <2>1. jobs'[k].agent = jobs[k].agent /\ jobs[k].agent = a
    BY <1>1 DEF JobsOK, JobRow, ActiveOn
  <2>2. CASE k # j
    BY <1>1, <2>1, <2>2 DEF JobsOK, JobRow, ActiveOn, IsActive
  <2>3. CASE k = j
    <3>1. jobs'[j].status = s
      BY DEF JobsOK, JobRow
    <3>2. s \notin Terminal
      BY <1>1, <2>3, <3>1 DEF ActiveOn, IsActive, Active, Terminal
    <3>3. jobs[j].status \in JobStatus /\ jobs[j].status # "none"
      BY <2>1, <2>3 DEF JobsOK, JobRow, Unborn
    <3> QED
      BY <2>1, <2>3, <3>2, <3>3 DEF ActiveOn, IsActive, IsTerminal, JobStatus
  <2> QED
    BY <2>2, <2>3
<1> QED
  BY <1>1 DEF NothingGained

LEMMA ExpiryGainsNothing ==
  ASSUME ExpireStale, JobsOK
  PROVE  NothingGained
  BY DEF ExpireStale, NothingGained, ActiveOn, IsActive, Active, JobsOK, JobRow

\* a step that records nothing has met no fault
LEMMA NoteClean ==
  ASSUME faults' = {}, NEW f, NEW b \in BOOLEAN, Note(f, b)
  PROVE  faults = {} /\ ~ b
  BY DEF Note

\* goroutine t moves, the others stay where they are
OnlyMoves(t) == \A u \in Threads \ {t} : thr'[u] = thr[u]

LEMMA Moves ==
  ASSUME ThrOK, NEW t \in Threads
  PROVE  /\ \A l : Goto(t, l) => OnlyMoves(t) /\ thr'[t].pc = l
                       /\ thr'[t].job = thr[t].job /\ thr'[t].agent = thr[t].agent
         /\ Finish(t) => OnlyMoves(t) /\ thr'[t].pc = "idle"
         /\ NextRound(t) => OnlyMoves(t) /\ thr'[t].pc \in {"idle", "pick"}
         /\ \A op, l, j, a : Start(t, op, l, j, a) =>
               OnlyMoves(t) /\ thr[t].pc = "idle" /\ thr'[t].pc = l
<1>1. thr \in [Threads -> Thread] /\ thr[t] \in Thread
  BY DEF ThrOK
<1>2. ASSUME NEW l, Goto(t, l)
      PROVE  /\ OnlyMoves(t) /\ thr'[t].pc = l
             /\ thr'[t].job = thr[t].job /\ thr'[t].agent = thr[t].agent
  BY <1>1, <1>2 DEF Goto, OnlyMoves, Thread
<1>3. Finish(t) => OnlyMoves(t) /\ thr'[t].pc = "idle"
  BY <1>1 DEF Finish, OnlyMoves, AtRest
<1>4. NextRound(t) => OnlyMoves(t) /\ thr'[t].pc \in {"idle", "pick"}
  BY <1>1 DEF NextRound, OnlyMoves, AtRest
<1>5. ASSUME NEW op, NEW l, NEW j, NEW a, Start(t, op, l, j, a)
      PROVE  OnlyMoves(t) /\ thr[t].pc = "idle" /\ thr'[t].pc = l
  BY <1>1, <1>5 DEF Start, OnlyMoves, AtRest, At
<1> QED
  BY <1>2, <1>3, <1>4, <1>5

LEMMA Quiet ==
  ASSUME NEW t \in Threads, OnlyMoves(t),
         thr[t].pc \notin {"unclaim", "clear"}, thr'[t].pc # "set"
  PROVE  Undisturbed
  BY DEF OnlyMoves, Undisturbed

\* Every statement but three leaves entitlements alone or ends them.
LEMMA StepQuiet ==
  ASSUME TypeOK, Unborn, faults' = {}, NEW t \in Threads, Step(t),
         ~ Claim(t), ~ RecordAgent(t), ~ ClearJob(t)
  PROVE  Undisturbed /\ NothingGained
<1> USE TypeParts DEF Typed
<1> DEFINE j0 == thr[t].job
<1>0. jobs' = jobs => NothingGained
  BY DEF NothingGained, ActiveOn, IsActive
<1>1. CASE CheckCap(t)
  <2>1. Undisturbed
    BY <1>1, Moves, Quiet DEF CheckCap, At
  <2>2. jobs' = jobs
    BY <1>1 DEF CheckCap, tables
  <2> QED
    BY <1>0, <2>1, <2>2
<1>2. CASE FindIdle(t)
  <2>1. ASSUME NEW a, thr' = [thr EXCEPT ![t].pc = "claim", ![t].agent = a]
        PROVE  OnlyMoves(t) /\ thr'[t].pc = "claim"
    BY <2>1 DEF OnlyMoves, ThrOK, Thread
  <2>2. OnlyMoves(t) /\ thr'[t].pc \in {"claim", "enqueue", "idle"}
    BY <1>2, <2>1, Moves DEF FindIdle
  <2>3. Undisturbed
    BY <1>2, <2>2, Quiet DEF FindIdle, At
  <2>4. jobs' = jobs
    BY <1>2 DEF FindIdle, tables
  <2> QED
    BY <1>0, <2>3, <2>4
<1>3. CASE Enqueue(t)
  <2>1. Undisturbed
    BY <1>3, Moves, Quiet DEF Enqueue, At
  <2>2. j0 \in Jobs /\ ~ IsTerminal(j0)
    BY <1>3, AtType, NoteClean DEF Enqueue, UsesJob, IsTerminal
  <2>3. NothingGained
    BY <1>3, <2>2, StatusGainsNothing DEF Enqueue, UpdateStatus
  <2> QED
    BY <2>1, <2>3
<1>4. CASE Dispatch(t)
  <2>1. OnlyMoves(t) /\ thr'[t].pc \in {"idle", "pick", "unclaim"} /\ thr[t].pc = "send"
    BY <1>4, Moves DEF Dispatch, At
  <2>2. jobs' = jobs
    BY <1>4 DEF Dispatch, tables
  <2> QED
    BY <1>0, <2>1, <2>2, Quiet
<1>5. CASE Unclaim(t)
  <2>1. /\ jobs' = jobs /\ OnlyMoves(t)
        /\ thr'[t].pc = "clear" /\ thr[t].pc = "unclaim"
        /\ thr'[t].job = j0 /\ thr'[t].agent = thr[t].agent
    BY <1>5, Moves DEF Unclaim, At
  <2>2. Undisturbed
    BY <2>1 DEF OnlyMoves, Undisturbed
  <2> QED
    BY <1>0, <2>1, <2>2
<1>6. CASE Requeue(t)
  <2>1. Undisturbed
    BY <1>6, Moves, Quiet DEF Requeue, At
  <2>2. j0 \in Jobs /\ ~ IsTerminal(j0)
    BY <1>6, AtType, NoteClean DEF Requeue, UsesJob, IsTerminal
  <2>3. NothingGained
    BY <1>6, <2>2, StatusGainsNothing DEF Requeue, UpdateStatus
  <2> QED
    BY <2>1, <2>3
<1>7. CASE PickJob(t)
  <2>1. ASSUME NEW j, thr' = [thr EXCEPT ![t].pc = "find", ![t].job = j, ![t].agent = NoAgent]
        PROVE  OnlyMoves(t) /\ thr'[t].pc = "find"
    BY <2>1 DEF OnlyMoves, ThrOK, Thread
  <2>2. OnlyMoves(t) /\ thr'[t].pc \in {"find", "idle"}
    BY <1>7, <2>1, Moves DEF PickJob
  <2>3. Undisturbed
    BY <1>7, <2>2, Quiet DEF PickJob, At
  <2>4. jobs' = jobs
    BY <1>7 DEF PickJob, tables
  <2> QED
    BY <1>0, <2>3, <2>4
<1>8. CASE CancelJob(t)
  <2>1. OnlyMoves(t) /\ thr'[t].pc \in {"idle", "release"} /\ thr[t].pc = "cancel"
    BY <1>8, Moves DEF CancelJob, At
  <2>2. j0 \in Jobs
    BY <1>8, AtType DEF CancelJob, UsesJob
  <2>3. NothingGained
    <3>1. ASSUME jobs' = jobs PROVE NothingGained
      BY <1>0, <3>1
    <3>2. ASSUME jobs' = [jobs EXCEPT ![j0].status = "cancelled"] PROVE NothingGained
      BY <2>2, <3>2, StatusGainsNothing DEF Terminal
    <3> QED
      BY <1>8, <3>1, <3>2 DEF CancelJob
  <2> QED
    BY <2>1, <2>3, Quiet
<1>9. CASE Release(t)
  <2>1. /\ jobs' = jobs /\ OnlyMoves(t)
        /\ thr'[t].pc \in {"syncfail", "idle"} /\ thr[t].pc = "release"
    BY <1>9, Moves DEF Release, At
  <2> QED
    BY <1>0, <2>1, Quiet
<1>10. CASE LoadAgent(t)
  <2>1. ASSUME NEW a, thr' = [thr EXCEPT ![t].pc = "release", ![t].agent = a]
        PROVE  OnlyMoves(t) /\ thr'[t].pc = "release"
    BY <2>1 DEF OnlyMoves, ThrOK, Thread
  <2>2. OnlyMoves(t) /\ thr'[t].pc \in {"release", "idle"}
    BY <1>10, <2>1, Moves DEF LoadAgent
  <2>3. Undisturbed
    BY <1>10, <2>2, Quiet DEF LoadAgent, At
  <2>4. jobs' = jobs
    BY <1>10 DEF LoadAgent, tables
  <2> QED
    BY <1>0, <2>3, <2>4
<1>11. CASE SyncAgent(t)
  <2>1. ASSUME NEW a, thr' = [thr EXCEPT ![t] =
                        [thr[t] EXCEPT !.pc = "syncfail", !.agent = a,
                             !.rest = thr[t].rest \ {a}, !.todo = Unsynced(a)]]
        PROVE  OnlyMoves(t) /\ thr'[t].pc = "syncfail"
    BY <2>1 DEF OnlyMoves, ThrOK, Thread
  <2>2. OnlyMoves(t) /\ thr'[t].pc \in {"syncfail", "idle"}
    BY <1>11, <2>1, Moves DEF SyncAgent
  <2>3. Undisturbed
    BY <1>11, <2>2, Quiet DEF SyncAgent, At
  <2>4. jobs' = jobs
    BY <1>11 DEF SyncAgent, tables
  <2> QED
    BY <1>0, <2>3, <2>4
<1>12. CASE SyncFailJob(t)
  <2>1. ASSUME thr' = [thr EXCEPT ![t].pc = "sync", ![t].job = NoJob, ![t].agent = NoAgent]
        PROVE  OnlyMoves(t) /\ thr'[t].pc = "sync"
    BY <2>1 DEF OnlyMoves, ThrOK, Thread
  <2>2. ASSUME NEW j, thr' = [thr EXCEPT ![t].pc = "release", ![t].job = j,
                                         ![t].todo = @ \ {j}]
        PROVE  OnlyMoves(t) /\ thr'[t].pc = "release"
    BY <2>2 DEF OnlyMoves, ThrOK, Thread
  <2>3. OnlyMoves(t) /\ thr'[t].pc \in {"sync", "release"} /\ thr[t].pc = "syncfail"
    BY <1>12, <2>1, <2>2 DEF SyncFailJob, At
  <2>4. NothingGained
    <3>1. ASSUME jobs' = jobs PROVE NothingGained
      BY <1>0, <3>1
    <3>2. ASSUME NEW j \in Jobs, UpdateResult(j, "failed") PROVE NothingGained
      BY <3>2, StatusGainsNothing DEF UpdateResult, Terminal
    <3>3. thr[t].todo \subseteq Jobs
      BY AtType
    <3> QED
      BY <1>12, <3>1, <3>2, <3>3 DEF SyncFailJob
  <2> QED
    BY <2>3, <2>4, Quiet
<1> QED
  BY <1>1, <1>2, <1>3, <1>4, <1>5, <1>6, <1>7, <1>8, <1>9, <1>10, <1>11, <1>12 DEF Step

LEMMA StepOwned ==
  ASSUME TypeOK, Unborn, Owned, faults' = {}, NEW t \in Threads, Step(t)
  PROVE  Owned'
<1> USE TypeParts DEF Typed
<1> DEFINE j0 == thr[t].job
           a0 == thr[t].agent
<1>1. CASE Claim(t)
  <2>1. /\ j0 \in Jobs /\ a0 \in Agents /\ agents[a0].job = NoJob
        /\ OnlyMoves(t) /\ thr'[t].pc = "set" /\ thr'[t].job = j0 /\ thr'[t].agent = a0
        /\ jobs' = jobs /\ thr[t].pc = "claim"
    BY <1>1, AtType, NoteClean, Moves DEF Claim, UsesJob, UsesAgent, At
  <2>2. /\ agents'[a0].job = j0
        /\ \A a \in Agents : a # a0 => agents'[a] = agents[a]
    BY <1>1, <2>1 DEF Claim, Allocate
  <2>3. ASSUME NEW j \in Jobs, NEW a \in Agents, Holds(j, a)' PROVE Holds(j, a)
    <3>1. RollingBack(j, a) => RollingBack(j, a)'
      BY <2>1 DEF RollingBack, OnlyMoves
    <3> QED
      BY <2>1, <2>3, <3>1 DEF Holds, IsActive
  <2>4. ASSUME NEW j \in Jobs, NEW a \in Agents, Holds(j, a)' PROVE agents'[a].job = j
    <3>1. Holds(j, a)
      BY <2>3, <2>4
    <3>2. agents[a].job = j
      BY <3>1 DEF Owned
    <3>3. a # a0
      BY <2>1, <3>2
    <3> QED
      BY <2>2, <3>2, <3>3
  <2>5. ASSUME NEW u \in Threads, thr'[u].pc = "set"
        PROVE  agents'[thr'[u].agent].job = thr'[u].job
    <3>1. CASE u = t
      BY <2>1, <2>2, <3>1
    <3>2. CASE u # t
      <4>1. thr'[u] = thr[u] /\ At(u, "set")
        BY <2>1, <2>5, <3>2 DEF OnlyMoves, At
      <4>2. thr[u].agent \in Agents /\ thr[u].job \in Jobs
        BY <4>1, AtType DEF UsesJob, UsesAgent
      <4> QED
        BY <2>1, <2>2, <4>1, <4>2 DEF Owned
    <3> QED
      BY <3>1, <3>2
  <2> QED
    BY <2>4, <2>5 DEF Owned, At
<1>2. CASE RecordAgent(t)
  <2>1. /\ j0 \in Jobs /\ a0 \in Agents /\ agents[a0].job = j0 /\ agents' = agents
        /\ OnlyMoves(t) /\ thr'[t].pc = "send" /\ thr[t].pc = "set"
    BY <1>2, AtType, Moves DEF RecordAgent, UsesJob, UsesAgent, At, Owned
  <2>2. Undisturbed
    BY <2>1, Quiet
  <2>3. /\ jobs'[j0].agent = a0
        /\ \A j \in Jobs : j # j0 => jobs'[j] = jobs[j]
    BY <1>2, <2>1 DEF RecordAgent, SetAgent, JobsOK, JobRow
  <2>4. ASSUME NEW j \in Jobs, NEW a \in Agents, Holds(j, a)' PROVE agents'[a].job = j
    <3>1. CASE j = j0
      BY <2>1, <2>3, <2>4, <3>1 DEF Holds
    <3>2. CASE j # j0
      <4>1. RollingBack(j, a) => RollingBack(j, a)'
        BY <2>2 DEF RollingBack, Undisturbed
      <4>2. Holds(j, a)
        BY <2>3, <2>4, <3>2, <4>1 DEF Holds, IsActive
      <4> QED
        BY <2>1, <4>2 DEF Owned
    <3> QED
      BY <3>1, <3>2
  <2>5. ASSUME NEW u \in Threads, thr'[u].pc = "set"
        PROVE  agents'[thr'[u].agent].job = thr'[u].job
    BY <2>1, <2>2, <2>5 DEF Owned, At, Undisturbed
  <2> QED
    BY <2>4, <2>5 DEF Owned, At
<1>3. CASE ClearJob(t)
  <2>1. /\ j0 \in Jobs /\ agents' = agents /\ OnlyMoves(t)
        /\ thr'[t].pc = "requeue" /\ thr[t].pc = "clear"
    BY <1>3, AtType, Moves DEF ClearJob, UsesJob, At
  <2>2. /\ jobs'[j0].agent = NoAgent
        /\ \A j \in Jobs : j # j0 => jobs'[j] = jobs[j]
    BY <1>3, <2>1 DEF ClearJob, ClearAgent, JobsOK, JobRow
  <2>3. ASSUME NEW j \in Jobs, NEW a \in Agents, Holds(j, a)' PROVE agents'[a].job = j
    <3>1. j # j0
      BY <2>2, <2>3 DEF Holds
    <3>2. RollingBack(j, a) => RollingBack(j, a)'
      BY <2>1, <3>1 DEF RollingBack, OnlyMoves
    <3>3. Holds(j, a)
      BY <2>2, <2>3, <3>1, <3>2 DEF Holds, IsActive
    <3> QED
      BY <2>1, <3>3 DEF Owned
  <2>4. ASSUME NEW u \in Threads, thr'[u].pc = "set"
        PROVE  agents'[thr'[u].agent].job = thr'[u].job
    BY <2>1, <2>4 DEF Owned, At, OnlyMoves
  <2> QED
    BY <2>3, <2>4 DEF Owned, At
<1>4. CASE Unclaim(t)
  <2>1. /\ a0 \in Agents /\ ~ InUse(a0, t) /\ jobs' = jobs /\ ReleaseRow(a0)
        /\ OnlyMoves(t) /\ thr'[t].pc = "clear" /\ thr[t].pc = "unclaim"
    BY <1>4, AtType, NoteClean, Moves DEF Unclaim, UsesAgent, At, InUse
  <2>2. Undisturbed
    BY <1>4, <2>1, StepQuiet DEF Claim, RecordAgent, ClearJob, At
  <2>3. \A u \in Threads : thr'[u].pc = "set" => thr[u].agent # a0
    BY <2>1 DEF OnlyMoves, InUse, Claiming, At
  <2> QED
    BY <2>1, <2>2, <2>3, OwnedRelease DEF InUse
<1>5. CASE Release(t)
  <2>1. /\ a0 \in Agents /\ ~ InUse(a0, t) /\ jobs' = jobs /\ ReleaseRow(a0)
        /\ OnlyMoves(t) /\ thr'[t].pc \in {"syncfail", "idle"} /\ thr[t].pc = "release"
    BY <1>5, AtType, NoteClean, Moves DEF Release, UsesAgent, At, InUse
  <2>2. Undisturbed
    BY <2>1, Quiet
  <2>3. \A u \in Threads : thr'[u].pc = "set" => thr[u].agent # a0
    BY <2>1 DEF OnlyMoves, InUse, Claiming, At
  <2> QED
    BY <2>1, <2>2, <2>3, OwnedRelease DEF InUse
<1>6. CASE ~ Claim(t) /\ ~ RecordAgent(t) /\ ~ ClearJob(t) /\ ~ Unclaim(t) /\ ~ Release(t)
  <2>1. agents' = agents
    BY <1>6 DEF Step, CheckCap, FindIdle, Enqueue, Dispatch, Requeue, PickJob, CancelJob,
       LoadAgent, SyncAgent, SyncFailJob, tables
  <2> QED
    BY <1>6, <2>1, StepQuiet, OwnedFrame
<1> QED
  BY <1>1, <1>2, <1>3, <1>4, <1>5, <1>6

LEMMA BeginQuiet ==
  ASSUME TypeOK, Unborn, NEW t \in Threads,
         Begin(t) \/ StartDequeue(t)
  PROVE  Undisturbed /\ NothingGained
<1> USE TypeParts DEF Typed
<1>0. jobs' = jobs => NothingGained
  BY DEF NothingGained, ActiveOn, IsActive
<1>1. ASSUME NEW j \in Jobs, Submit(t, j) PROVE Undisturbed /\ NothingGained
  <2>1. Undisturbed
    BY <1>1, Moves, Quiet DEF Submit
  <2>2. NothingGained
    BY <1>1, StatusGainsNothing DEF Submit, IsTerminal, Terminal
  <2> QED
    BY <2>1, <2>2
<1>2. ASSUME NEW j \in Jobs, ReadForCancel(t, j) PROVE Undisturbed /\ NothingGained
  <2>1. Undisturbed
    BY <1>2, Moves, Quiet DEF ReadForCancel
  <2>2. jobs' = jobs
    BY <1>2 DEF ReadForCancel, tables
  <2> QED
    BY <1>0, <2>1, <2>2
<1>3. ASSUME NEW j \in Jobs, NEW s \in Results, JobResult(t, j, s) PROVE Undisturbed /\ NothingGained
  <2>1. Undisturbed
    BY <1>3, Moves, Quiet DEF JobResult
  <2>2. s \in Terminal
    BY DEF Terminal
  <2>3. NothingGained
    BY <1>3, <2>2, StatusGainsNothing DEF JobResult, UpdateResult
  <2> QED
    BY <2>1, <2>3
<1>4. ASSUME NEW d \in Devices, StateSync(t, d) PROVE Undisturbed /\ NothingGained
  <2>1. OnlyMoves(t) /\ thr'[t].pc = "sync" /\ thr[t].pc = "idle"
    BY <1>4 DEF StateSync, OnlyMoves, ThrOK, AtRest, At
  <2>2. jobs' = jobs
    BY <1>4 DEF StateSync, tables
  <2> QED
    BY <1>0, <2>1, <2>2, Quiet
<1>5. CASE StartDequeue(t)
  <2>1. Undisturbed
    BY <1>5, Moves, Quiet DEF StartDequeue
  <2>2. NothingGained
    BY <1>5, ExpiryGainsNothing DEF StartDequeue
  <2> QED
    BY <2>1, <2>2
<1> QED
  BY <1>1, <1>2, <1>3, <1>4, <1>5 DEF Begin

LEMMA BeginOwned ==
  ASSUME TypeOK, Unborn, Owned, NEW t \in Threads, Begin(t) \/ StartDequeue(t)
  PROVE  Owned'
<1>1. agents' = agents
  BY DEF Begin, Submit, ReadForCancel, JobResult, StateSync, StartDequeue, tables
<1> QED
  BY <1>1, BeginQuiet, OwnedFrame, TypeParts DEF Typed

LEMMA OtherQuiet ==
  ASSUME TypeOK, Unborn, faults' = {}, ExpiryTick \/ Frame \/ Environment
  PROVE  Undisturbed /\ NothingGained
<1> USE TypeParts DEF Typed
<1>0. (thr' = thr => Undisturbed) /\ (jobs' = jobs => NothingGained)
  BY DEF Undisturbed, NothingGained, ActiveOn, IsActive
<1>1. CASE ExpiryTick
  BY <1>0, <1>1, ExpiryGainsNothing DEF ExpiryTick
<1>2. ASSUME NEW j \in Jobs, JobAccepted(j) PROVE Undisturbed /\ NothingGained
  <2>1. ~ IsTerminal(j)
    BY <1>2, NoteClean DEF JobAccepted, IsTerminal
  <2>2. NothingGained
    BY <1>2, <2>1, StatusGainsNothing DEF JobAccepted, UpdateStatus
  <2> QED
    BY <1>0, <1>2, <2>2 DEF JobAccepted
<1>3. ASSUME NEW j \in Jobs, NEW s \in {"running"} \cup Results, JobProgress(j, s)
      PROVE  Undisturbed /\ NothingGained
  <2>1. ~ (IsTerminal(j) /\ s \notin Terminal)
    BY <1>3, NoteClean DEF JobProgress, IsTerminal
  <2> DEFINE v == IF s \in Terminal THEN jobs[j].status ELSE s
  <2>2. jobs' = [jobs EXCEPT ![j].status = v]
    BY <1>3 DEF JobProgress, UpdateProgress
  <2>3. v \in Terminal \/ ~ IsTerminal(j)
    BY <2>1 DEF IsTerminal
  <2> HIDE DEF v
  <2>4. NothingGained
    BY <2>2, <2>3, StatusGainsNothing
  <2> QED
    BY <1>0, <1>3, <2>4 DEF JobProgress
<1>4. ASSUME NEW a \in Agents, NEW s \in AgentStatus, ReportAgent(a, s)
      PROVE  Undisturbed /\ NothingGained
  BY <1>0, <1>4 DEF ReportAgent
<1>5. ASSUME NEW d \in Devices, Hello(d) PROVE Undisturbed /\ NothingGained
  <2>1. jobs' = jobs /\ thr' = thr
    BY <1>5 DEF Hello, tables
  <2> QED
    BY <1>0, <2>1
<1>6. ASSUME NEW a \in Agents, ForceRelease(a) PROVE Undisturbed /\ NothingGained
  BY <1>0, <1>6 DEF ForceRelease
<1>7. ASSUME NEW d \in Devices, Connect(d) \/ Disconnect(d) PROVE Undisturbed /\ NothingGained
  <2>1. jobs' = jobs /\ thr' = thr
    BY <1>7 DEF Connect, Disconnect, tables
  <2> QED
    BY <1>0, <2>1
<1>8. ASSUME NEW j \in Jobs, QueueTTLEnds(j) PROVE Undisturbed /\ NothingGained
  <2>1. NothingGained
    BY <1>8, StatusGainsNothing DEF QueueTTLEnds, Waiting, IsTerminal, Terminal
  <2> QED
    BY <1>0, <1>8, <2>1 DEF QueueTTLEnds
<1>9. ASSUME NEW j \in Jobs, DispatchAges(j) PROVE Undisturbed /\ NothingGained
  <2>1. NothingGained
    BY <1>9 DEF DispatchAges, NothingGained, ActiveOn, IsActive, JobsOK, JobRow
  <2> QED
    BY <1>0, <1>9, <2>1 DEF DispatchAges
<1>10. CASE Crash
  <2>1. /\ jobs' = jobs
        /\ \A t \in Threads : thr[t].pc \notin {"unclaim", "clear"} /\ thr'[t].pc = "idle"
    BY <1>10, NoteClean DEF Crash, tables, AtRest
  <2>2. Undisturbed
    BY <2>1 DEF Undisturbed
  <2> QED
    BY <1>0, <2>1, <2>2
<1> QED
  BY <1>1, <1>2, <1>3, <1>4, <1>5, <1>6, <1>7, <1>8, <1>9, <1>10
     DEF Frame, Environment

LEMMA OtherOwned ==
  ASSUME TypeOK, Unborn, Owned, faults' = {}, ExpiryTick \/ Frame \/ Environment
  PROVE  Owned'
<1> USE TypeParts DEF Typed
<1>0. Undisturbed /\ NothingGained
  BY OtherQuiet
<1>1. ASSUME NEW a \in Agents, ForceRelease(a) PROVE Owned'
  <2>1. /\ \A j \in Jobs : ~ Holds(j, a)
        /\ \A t \in Threads : ~ Claiming(t, a)
        /\ jobs' = jobs /\ thr' = thr /\ ReleaseRow(a)
    BY <1>1, NoteClean DEF ForceRelease
  <2>2. \A u \in Threads : thr'[u].pc = "set" => thr[u].agent # a
    BY <2>1 DEF Claiming, At
  <2> QED
    BY <1>0, <2>1, <2>2, OwnedRelease
<1>2. ASSUME NEW a \in Agents, NEW s \in AgentStatus, ReportAgent(a, s) PROVE Owned'
  <2>1. \A b \in Agents : agents'[b].job = agents[b].job
    BY <1>2 DEF ReportAgent, AgentRow
  <2> QED
    BY <1>0, <2>1, OwnedFrame
<1>3. ASSUME agents' = agents PROVE Owned'
  BY <1>0, <1>3, OwnedFrame
<1> QED
  BY <1>1, <1>2, <1>3 DEF ExpiryTick, Frame, JobAccepted, JobProgress, Hello, Environment,
     Connect, Disconnect, QueueTTLEnds, DispatchAges, Crash, tables

\* the history only grows
LEMMA FaultsGrow == [Next]_vars => faults \subseteq faults'
<1> SUFFICES ASSUME [Next]_vars PROVE faults \subseteq faults'
  OBVIOUS
<1>1. ASSUME NEW f, NEW b, Note(f, b) PROVE faults \subseteq faults'
  BY <1>1 DEF Note
<1>2. ASSUME NEW t \in Threads, Step(t) PROVE faults \subseteq faults'
  BY <1>1, <1>2 DEF Step, CheckCap, FindIdle, Enqueue, Claim, RecordAgent, Dispatch,
     Unclaim, ClearJob, Requeue, PickJob, CancelJob, Release, LoadAgent, SyncAgent,
     SyncFailJob
<1>3. ASSUME NEW t \in Threads, Begin(t) \/ StartDequeue(t) PROVE faults \subseteq faults'
  BY <1>3 DEF Begin, Submit, ReadForCancel, JobResult, StateSync, StartDequeue
<1>4. CASE Frame
  BY <1>1, <1>4 DEF Frame, JobAccepted, JobProgress, ReportAgent, Hello
<1>5. CASE Environment
  BY <1>1, <1>5 DEF Environment, ForceRelease, Connect, Disconnect, QueueTTLEnds,
     DispatchAges, Crash
<1>6. CASE ExpiryTick
  BY <1>6 DEF ExpiryTick
<1>7. CASE UNCHANGED vars
  BY <1>7 DEF vars
<1> QED
  BY <1>2, <1>3, <1>4, <1>5, <1>6, <1>7 DEF Next

\* rows are never unborn again, and started_at is never cleared
RowStep ==
    \A j \in Jobs :
      /\ jobs'[j].status = "none" =>
           jobs[j].status = "none" /\ jobs'[j].agent \in {jobs[j].agent, NoAgent}
      /\ jobs[j].age # NotStarted => jobs'[j].age # NotStarted

LEMMA StatusRow ==
  ASSUME JobsOK, NEW j \in Jobs, NEW s, s # "none",
         jobs' = [jobs EXCEPT ![j].status = s]
  PROVE  RowStep
  BY DEF RowStep, JobsOK, JobRow

LEMMA ExpiryRow ==
  ASSUME JobsOK, ExpireStale
  PROVE  RowStep
  BY DEF RowStep, JobsOK, JobRow, ExpireStale

LEMMA RowsStep == TypeOK /\ [Next]_vars => RowStep
<1> SUFFICES ASSUME TypeOK, [Next]_vars PROVE RowStep
  OBVIOUS
<1> USE TypeParts DEF Typed
<1>0. ASSUME jobs' = jobs PROVE RowStep
  BY <1>0 DEF RowStep
<1>1. ASSUME NEW t \in Threads, Step(t) PROVE RowStep
  <2>1. CASE Enqueue(t) \/ Requeue(t)
    BY <2>1, StatusRow, AtType DEF Enqueue, Requeue, UpdateStatus, UsesJob
  <2>2. CASE RecordAgent(t)
    BY <2>2, AtType DEF RecordAgent, SetAgent, RowStep, JobsOK, JobRow, UsesJob,
       Fresh, NotStarted
  <2>3. CASE ClearJob(t)
    BY <2>3, AtType DEF ClearJob, ClearAgent, RowStep, JobsOK, JobRow, UsesJob
  <2>4. CASE CancelJob(t)
    BY <1>0, <2>4, StatusRow, AtType DEF CancelJob, UsesJob
  <2>5. CASE SyncFailJob(t)
    BY <1>0, <2>5, StatusRow, AtType DEF SyncFailJob, UpdateResult
  <2>6. CASE \/ CheckCap(t) \/ FindIdle(t) \/ Claim(t) \/ Dispatch(t) \/ Unclaim(t)
             \/ PickJob(t) \/ Release(t) \/ LoadAgent(t) \/ SyncAgent(t)
    BY <1>0, <2>6 DEF CheckCap, FindIdle, Claim, Dispatch, Unclaim, PickJob, Release,
       LoadAgent, SyncAgent, tables
  <2> QED
    BY <1>1, <2>1, <2>2, <2>3, <2>4, <2>5, <2>6 DEF Step
<1>2. ASSUME NEW t \in Threads, Begin(t) \/ StartDequeue(t) PROVE RowStep
  <2>1. ASSUME NEW j \in Jobs, Submit(t, j) PROVE RowStep
    BY <2>1, StatusRow DEF Submit
  <2>2. ASSUME NEW j \in Jobs, NEW s \in Results, JobResult(t, j, s) PROVE RowStep
    BY <2>2, StatusRow DEF JobResult, UpdateResult
  <2>3. CASE StartDequeue(t)
    BY <2>3, ExpiryRow DEF StartDequeue
  <2> QED
    BY <1>0, <1>2, <2>1, <2>2, <2>3 DEF Begin, ReadForCancel, StateSync, tables
<1>3. CASE Frame
  <2>1. ASSUME NEW j \in Jobs, JobAccepted(j) PROVE RowStep
    BY <2>1, StatusRow DEF JobAccepted, UpdateStatus
  <2>2. ASSUME NEW j \in Jobs, NEW s \in {"running"} \cup Results, JobProgress(j, s)
        PROVE  RowStep
    <3>1. CASE s \in Terminal
      BY <2>2, <3>1 DEF JobProgress, UpdateProgress, RowStep, JobsOK, JobRow
    <3>2. CASE s \notin Terminal
      BY <2>2, <3>2, StatusRow DEF JobProgress, UpdateProgress
    <3> QED
      BY <3>1, <3>2
  <2> QED
    BY <1>0, <1>3, <2>1, <2>2 DEF Frame, ReportAgent, Hello, tables
<1>4. CASE Environment
  <2>1. ASSUME NEW j \in Jobs, QueueTTLEnds(j) PROVE RowStep
    BY <2>1, StatusRow DEF QueueTTLEnds
  <2>2. ASSUME NEW j \in Jobs, DispatchAges(j) PROVE RowStep
    BY <2>2 DEF DispatchAges, RowStep, JobsOK, JobRow, Ages, Fresh, NotStarted
  <2> QED
    BY <1>0, <1>4, <2>1, <2>2 DEF Environment, ForceRelease, Connect, Disconnect,
       Crash, tables
<1>5. CASE ExpiryTick
  BY <1>5, ExpiryRow DEF ExpiryTick
<1>6. CASE UNCHANGED vars
  BY <1>0, <1>6 DEF vars, tables
<1> QED
  BY <1>1, <1>2, <1>3, <1>4, <1>5, <1>6 DEF Next

OwnInv == TypeOK /\ Unborn /\ Ownership

LEMMA NextOwned == OwnInv /\ [Next]_vars => OwnInv'
<1> SUFFICES ASSUME OwnInv, [Next]_vars PROVE OwnInv'
  OBVIOUS
<1>1. TypeOK'
  BY NextType DEF OwnInv
<1>2. Unborn'
  BY RowsStep DEF OwnInv, Unborn, RowStep
<1>3. ASSUME faults' = {} PROVE Owned'
  <2>1. faults = {} /\ Owned
    BY <1>3, FaultsGrow DEF OwnInv, Ownership
  <2>2. CASE UNCHANGED vars
    BY <2>1, <2>2 DEF vars, tables, Owned, Holds, IsActive, RollingBack, At
  <2>3. CASE Next
    BY <1>3, <2>1, <2>3, StepOwned, BeginOwned, OtherOwned DEF OwnInv, Next
  <2> QED
    BY <2>2, <2>3
<1> QED
  BY <1>1, <1>2, <1>3 DEF OwnInv, Ownership

LEMMA InitOwned == Init => OwnInv
<1> SUFFICES ASSUME Init PROVE OwnInv
  OBVIOUS
<1>1. TypeOK
  BY InitType
<1>2. Unborn
  BY DEF Init, Unborn
<1>3. Owned
  BY DEF Init, Owned, Holds, IsActive, Active, At, AtRest
<1> QED
  BY <1>1, <1>2, <1>3 DEF OwnInv, Ownership

\* As long as no race has been recorded, an unfinished job that names an agent
\* is the owner of that agent's row, and so is the job of a goroutine between
\* agents.Allocate and jobs.SetAgent.
THEOREM OwnershipHolds == Spec => []Ownership
<1>1. OwnInv => Ownership
  BY DEF OwnInv
<1> QED
  BY <1>1, InitOwned, NextOwned, PTL DEF Spec

\* As long as no race has been recorded, no two unfinished jobs are on the same
\* agent (allocator.go Allocate and dequeueNext, main.go's release handlers).
THEOREM ExclusiveHolds == Spec => []ExclusiveUnlessRaced
<1>1. Ownership => ExclusiveUnlessRaced
  BY DEF Ownership, Owned, ExclusiveUnlessRaced, Exclusive
<1> QED
  BY <1>1, OwnershipHolds, PTL

-----------------------------------------------------------------------------
(* SetAgent precedes SendFrame                                             *)

Recorded ==
    /\ DispatchIsRecorded
    /\ \A t \in Threads : At(t, "send") => jobs[thr[t].job].age # NotStarted

\* a goroutine gets to "send" by RecordAgent only
ArrivesAtSend ==
    \A u \in Threads : thr'[u].pc = "send" => thr'[u] = thr[u] \/ RecordAgent(u)

LEMMA SendArrival == TypeOK /\ [Next]_vars => ArrivesAtSend
<1> SUFFICES ASSUME TypeOK, [Next]_vars PROVE ArrivesAtSend
  OBVIOUS
<1> USE TypeParts DEF Typed
<1>0. ASSUME thr' = thr PROVE ArrivesAtSend
  BY <1>0 DEF ArrivesAtSend
<1>a. ASSUME NEW t \in Threads, OnlyMoves(t), thr'[t].pc # "send" PROVE ArrivesAtSend
  BY <1>a DEF ArrivesAtSend, OnlyMoves
<1>1. ASSUME NEW t \in Threads, Step(t) PROVE ArrivesAtSend
  <2>1. CASE \/ CheckCap(t) \/ Enqueue(t) \/ Claim(t) \/ Dispatch(t) \/ Unclaim(t)
             \/ ClearJob(t) \/ Requeue(t) \/ CancelJob(t) \/ Release(t)
    BY <1>a, <2>1, Moves DEF CheckCap, Enqueue, Claim, Dispatch, Unclaim, ClearJob,
       Requeue, CancelJob, Release
  <2>2. CASE RecordAgent(t)
    BY <2>2, Moves DEF RecordAgent, ArrivesAtSend, OnlyMoves
  <2>3. CASE FindIdle(t)
    <3>1. ASSUME NEW a, thr' = [thr EXCEPT ![t].pc = "claim", ![t].agent = a]
          PROVE  OnlyMoves(t) /\ thr'[t].pc # "send"
      BY <3>1 DEF OnlyMoves, ThrOK, Thread
    <3> QED
      BY <1>a, <2>3, <3>1, Moves DEF FindIdle
  <2>4. CASE PickJob(t)
    <3>1. ASSUME NEW j, thr' = [thr EXCEPT ![t].pc = "find", ![t].job = j,
                                           ![t].agent = NoAgent]
          PROVE  OnlyMoves(t) /\ thr'[t].pc # "send"
      BY <3>1 DEF OnlyMoves, ThrOK, Thread
    <3> QED
      BY <1>a, <2>4, <3>1, Moves DEF PickJob
  <2>5. CASE LoadAgent(t)
    <3>1. ASSUME NEW a, thr' = [thr EXCEPT ![t].pc = "release", ![t].agent = a]
          PROVE  OnlyMoves(t) /\ thr'[t].pc # "send"
      BY <3>1 DEF OnlyMoves, ThrOK, Thread
    <3> QED
      BY <1>a, <2>5, <3>1, Moves DEF LoadAgent
  <2>6. CASE SyncAgent(t)
    <3>1. ASSUME NEW a, thr' = [thr EXCEPT ![t] =
                          [thr[t] EXCEPT !.pc = "syncfail", !.agent = a,
                               !.rest = thr[t].rest \ {a}, !.todo = Unsynced(a)]]
          PROVE  OnlyMoves(t) /\ thr'[t].pc # "send"
      BY <3>1 DEF OnlyMoves, ThrOK, Thread
    <3> QED
      BY <1>a, <2>6, <3>1, Moves DEF SyncAgent
  <2>7. CASE SyncFailJob(t)
    <3>1. ASSUME thr' = [thr EXCEPT ![t].pc = "sync", ![t].job = NoJob, ![t].agent = NoAgent]
          PROVE  OnlyMoves(t) /\ thr'[t].pc # "send"
      BY <3>1 DEF OnlyMoves, ThrOK, Thread
    <3>2. ASSUME NEW j, thr' = [thr EXCEPT ![t].pc = "release", ![t].job = j,
                                           ![t].todo = @ \ {j}]
          PROVE  OnlyMoves(t) /\ thr'[t].pc # "send"
      BY <3>2 DEF OnlyMoves, ThrOK, Thread
    <3> QED
      BY <1>a, <2>7, <3>1, <3>2 DEF SyncFailJob
  <2> QED
    BY <1>1, <2>1, <2>2, <2>3, <2>4, <2>5, <2>6, <2>7 DEF Step
<1>2. ASSUME NEW t \in Threads, Begin(t) \/ StartDequeue(t) PROVE ArrivesAtSend
  <2>1. ASSUME NEW d \in Devices, StateSync(t, d) PROVE ArrivesAtSend
    <3>1. OnlyMoves(t) /\ thr'[t].pc = "sync"
      BY <2>1 DEF StateSync, OnlyMoves, ThrOK, AtRest
    <3> QED
      BY <1>a, <3>1
  <2> QED
    BY <1>a, <1>2, <2>1, Moves DEF Begin, Submit, ReadForCancel, JobResult, StartDequeue
<1>3. CASE Frame \/ ExpiryTick
  BY <1>0, <1>3 DEF Frame, JobAccepted, JobProgress, ReportAgent, Hello, ExpiryTick
<1>4. CASE Environment
  <2>1. CASE Crash
    BY <2>1 DEF Crash, AtRest, ArrivesAtSend
  <2> QED
    BY <1>0, <1>4, <2>1 DEF Environment, ForceRelease, Connect, Disconnect,
       QueueTTLEnds, DispatchAges
<1>5. CASE UNCHANGED vars
  BY <1>0, <1>5 DEF vars
<1> QED
  BY <1>1, <1>2, <1>3, <1>4, <1>5 DEF Next

\* a job is marked as sent by a goroutine at "send" or by HELLO's redispatch
LEMMA Sending ==
  [Next]_vars =>
    \A j \in sent' \ sent :
       \/ \E t \in Threads : At(t, "send") /\ thr[t].job = j
       \/ jobs[j].age # NotStarted
<1> SUFFICES ASSUME [Next]_vars, NEW j \in sent' \ sent
             PROVE  \/ \E t \in Threads : At(t, "send") /\ thr[t].job = j
                    \/ jobs[j].age # NotStarted
  OBVIOUS
<1>1. ASSUME NEW t \in Threads, Step(t) PROVE At(t, "send") /\ thr[t].job = j
  BY <1>1 DEF Step, CheckCap, FindIdle, Enqueue, Claim, RecordAgent, Dispatch,
     Unclaim, ClearJob, Requeue, PickJob, CancelJob, Release, LoadAgent, SyncAgent,
     SyncFailJob
<1>2. ASSUME NEW t \in Threads, Begin(t) \/ StartDequeue(t) PROVE FALSE
  BY <1>2 DEF Begin, Submit, ReadForCancel, JobResult, StateSync, StartDequeue
<1>3. ASSUME NEW d \in Devices, Hello(d) PROVE jobs[j].age # NotStarted
  <2>1. jobs[j].age >= RedispatchAge
    BY <1>3 DEF Hello
  <2>2. RedispatchAge \in Nat /\ 0 < RedispatchAge
    BY DEF ConstantsOK
  <2> QED
    BY <2>1, <2>2 DEF NotStarted
<1>4. CASE Frame
  BY <1>3, <1>4 DEF Frame, JobAccepted, JobProgress, ReportAgent
<1>5. CASE Environment \/ ExpiryTick
  BY <1>5 DEF Environment, ForceRelease, Connect, Disconnect, QueueTTLEnds,
     DispatchAges, Crash, ExpiryTick
<1>6. CASE UNCHANGED vars
  BY <1>6 DEF vars
<1> QED
  BY <1>1, <1>2, <1>4, <1>5, <1>6 DEF Next

LEMMA NextRecorded == TypeOK /\ Recorded /\ [Next]_vars => Recorded'
<1> SUFFICES ASSUME TypeOK, Recorded, [Next]_vars PROVE Recorded'
  OBVIOUS
<1>1. RowStep /\ ArrivesAtSend /\ sent \subseteq Jobs /\ sent' \subseteq Jobs
  BY RowsStep, SendArrival, NextType DEF TypeOK
<1>2. ASSUME NEW j \in sent' PROVE jobs'[j].age # NotStarted
  <2>1. jobs[j].age # NotStarted
    BY <1>2, Sending DEF Recorded, DispatchIsRecorded
  <2> QED
    BY <1>1, <2>1 DEF RowStep
<1>3. ASSUME NEW u \in Threads, thr'[u].pc = "send"
      PROVE  jobs'[thr'[u].job].age # NotStarted
  <2>1. CASE thr'[u] = thr[u]
    <3>1. thr[u].job \in Jobs
      BY <1>3, <2>1 DEF TypeOK, Ready, UsesJob
    <3> QED
      BY <1>1, <1>3, <2>1, <3>1 DEF Recorded, At, RowStep
  <2>2. CASE RecordAgent(u)
    <3>1. thr[u].job \in Jobs /\ thr'[u].job = thr[u].job
      BY <2>2, TypeParts, AtType, Moves DEF Typed, RecordAgent, UsesJob
    <3> QED
      BY <2>2, <3>1 DEF RecordAgent, SetAgent, TypeOK, JobRow, Fresh, NotStarted
  <2> QED
    BY <1>1, <1>3, <2>1, <2>2 DEF ArrivesAtSend
<1> QED
  BY <1>2, <1>3 DEF Recorded, DispatchIsRecorded, At

\* A JOB_DISPATCH frame exists only for a job whose agent and started_at have
\* been written (jobs_handler.go and dequeueNext: SetAgent before SendFrame).
THEOREM DispatchRecorded == Spec => []DispatchIsRecorded
<1>1. Init => Recorded
  BY DEF Init, Recorded, DispatchIsRecorded, At, AtRest
<1>2. Recorded => DispatchIsRecorded
  BY DEF Recorded
<1> QED
  BY <1>1, <1>2, NextRecorded, TypeCorrect, PTL DEF Spec

-----------------------------------------------------------------------------
(* A job that ends has somebody to release its agent                       *)

\* the conclusion of FinishedIsReleased for one job
Releasing(j) ==
    \/ \E t \in Threads : thr'[t].pc \in {"load", "release"} /\ thr'[t].job = j
    \/ Stale(j)
    \/ \E t \in Threads : At(t, "cancel") /\ thr[t].job = j /\ thr[t].agent = NoAgent

Ends(j) == IsActive(j) /\ jobs'[j].status \in Terminal /\ jobs[j].agent # NoAgent

LEMMA EndsReleased ==
  ASSUME TypeOK, [Next]_vars, NEW j \in Jobs, Ends(j)
  PROVE  Releasing(j)
<1> USE TypeParts DEF Typed
<1>0. jobs'[j].status # jobs[j].status /\ jobs' # jobs
  BY DEF Ends, IsActive, Active, Terminal
<1>a. ASSUME ExpireStale PROVE Stale(j)
  BY <1>0, <1>a DEF ExpireStale
<1>b. ASSUME NEW k \in Jobs, NEW s \in JobStatus, jobs' = [jobs EXCEPT ![k].status = s]
      PROVE  k = j /\ s \in Terminal
  BY <1>0, <1>b DEF Ends, JobsOK, JobRow
<1>c. {"pending", "queued", "overdue", "dispatched", "running", "failed", "cancelled"}
        \cup Results \subseteq JobStatus
  BY DEF JobStatus, Active, Terminal
<1>1. ASSUME NEW t \in Threads, Step(t) PROVE Releasing(j)
  <2>1. CASE Enqueue(t) \/ Requeue(t)
    <3>1. thr[t].job \in Jobs /\ jobs' = [jobs EXCEPT ![thr[t].job].status = "queued"]
      BY <2>1, AtType DEF Enqueue, Requeue, UpdateStatus, UsesJob
    <3> QED
      BY <1>b, <1>c, <3>1 DEF Terminal
  <2>2. CASE RecordAgent(t) \/ ClearJob(t)
    <3>1. jobs'[j].status \in {jobs[j].status, "dispatched"}
      BY <2>2, AtType DEF RecordAgent, SetAgent, ClearJob, ClearAgent, JobsOK, JobRow, UsesJob
    <3> QED
      BY <1>0, <3>1 DEF Ends, Terminal
  <2>3. CASE CancelJob(t)
    <3>1. thr[t].job = j /\ (thr[t].agent # NoAgent => Goto(t, "release"))
      BY <1>0, <1>b, <1>c, <2>3, AtType DEF CancelJob, UsesJob
    <3> QED
      BY <2>3, <3>1, Moves DEF CancelJob, Releasing
  <2>4. CASE SyncFailJob(t)
    <3>1. PICK k \in thr[t].todo :
            /\ UpdateResult(k, "failed")
            /\ thr' = [thr EXCEPT ![t].pc = "release", ![t].job = k, ![t].todo = @ \ {k}]
      BY <1>0, <2>4 DEF SyncFailJob
    <3>2. k = j
      BY <1>b, <1>c, <3>1, AtType DEF UpdateResult
    <3>3. thr'[t].pc = "release" /\ thr'[t].job = k
      BY <3>1 DEF ThrOK, Thread
    <3> QED
      BY <3>2, <3>3 DEF Releasing
  <2>5. CASE \/ CheckCap(t) \/ FindIdle(t) \/ Claim(t) \/ Dispatch(t) \/ Unclaim(t)
             \/ PickJob(t) \/ Release(t) \/ LoadAgent(t) \/ SyncAgent(t)
    BY <1>0, <2>5 DEF CheckCap, FindIdle, Claim, Dispatch, Unclaim, PickJob, Release,
       LoadAgent, SyncAgent, tables
  <2> QED
    BY <1>1, <2>1, <2>2, <2>3, <2>4, <2>5 DEF Step
<1>2. ASSUME NEW t \in Threads, Begin(t) \/ StartDequeue(t) PROVE Releasing(j)
  <2>1. ASSUME NEW k \in Jobs, Submit(t, k) PROVE Releasing(j)
    BY <1>b, <1>c, <2>1 DEF Submit, Terminal
  <2>2. ASSUME NEW k \in Jobs, NEW s \in Results, JobResult(t, k, s) PROVE Releasing(j)
    <3>1. k = j
      BY <1>b, <1>c, <2>2 DEF JobResult, UpdateResult
    <3>2. thr'[t].pc = "load" /\ thr'[t].job = k
      BY <2>2 DEF JobResult, Start, ThrOK, AtRest
    <3> QED
      BY <3>1, <3>2 DEF Releasing
  <2>3. CASE StartDequeue(t)
    BY <1>a, <2>3 DEF StartDequeue, Releasing
  <2> QED
    BY <1>0, <1>2, <2>1, <2>2, <2>3 DEF Begin, ReadForCancel, StateSync, tables
<1>3. CASE Frame
  <2>1. ASSUME NEW k \in Jobs, JobAccepted(k) PROVE Releasing(j)
    BY <1>b, <1>c, <2>1 DEF JobAccepted, UpdateStatus, Terminal
  <2>2. ASSUME NEW k \in Jobs, NEW s \in {"running"} \cup Results, JobProgress(k, s)
        PROVE  Releasing(j)
    <3>1. CASE s \in Terminal
      BY <1>0, <2>2, <3>1 DEF JobProgress, UpdateProgress, JobsOK, JobRow
    <3>2. CASE s \notin Terminal
      BY <1>b, <1>c, <2>2, <3>2 DEF JobProgress, UpdateProgress
    <3> QED
      BY <3>1, <3>2
  <2> QED
    BY <1>0, <1>3, <2>1, <2>2 DEF Frame, ReportAgent, Hello, tables
<1>4. CASE Environment
  <2>1. ASSUME NEW k \in Jobs, QueueTTLEnds(k) PROVE Releasing(j)
    BY <1>b, <1>c, <2>1 DEF QueueTTLEnds, Terminal
  <2>2. ASSUME NEW k \in Jobs, DispatchAges(k) PROVE Releasing(j)
    BY <1>0, <2>2 DEF DispatchAges, JobsOK, JobRow
  <2> QED
    BY <1>0, <1>4, <2>1, <2>2 DEF Environment, ForceRelease, Connect, Disconnect,
       Crash, tables
<1>5. CASE ExpiryTick
  BY <1>a, <1>5 DEF ExpiryTick, Releasing
<1>6. CASE UNCHANGED vars
  BY <1>0, <1>6 DEF vars, tables
<1> QED
  BY <1>1, <1>2, <1>3, <1>4, <1>5, <1>6 DEF Next

\* When a job with an agent finishes, the same step leaves a goroutine that will
\* release that agent, except for the expiry updates and a cancel that read the
\* row before the agent was set (the handlers of main.go and handleCancelJob).
THEOREM FinishedReleased == Spec => FinishedIsReleased
<1>1. TypeOK /\ [Next]_vars =>
        [\A j \in Jobs :
          (IsActive(j) /\ jobs'[j].status \in Terminal /\ jobs[j].agent # NoAgent) =>
             \/ \E t \in Threads : /\ thr'[t].pc \in {"load", "release"}
                                   /\ thr'[t].job = j
             \/ Stale(j)
             \/ \E t \in Threads : /\ At(t, "cancel")
                                   /\ thr[t].job = j /\ thr[t].agent = NoAgent]_vars
  BY EndsReleased DEF Ends, Releasing
<1> QED
  BY <1>1, TypeCorrect, PTL DEF Spec, FinishedIsReleased
-----------------------------------------------------------------------------
(* The tables and goroutines implement AgentLease                          *)

LEMMA QuietLeases ==
  ASSUME Undisturbed, NothingGained
  PROVE  Leases' \subseteq Leases
<1>1. ASSUME NEW a \in Agents, NEW j \in Jobs, Holds(j, a)' PROVE Holds(j, a)
  BY <1>1, HoldsKept
<1>2. ASSUME NEW u \in Threads, thr'[u].pc = "set" PROVE thr'[u] = thr[u]
  BY <1>2 DEF Undisturbed
<1> QED
  BY <1>1, <1>2 DEF Leases, Claiming, At

\* a claim that records no fault takes an agent that nobody has
LEMMA ClaimTakes ==
  ASSUME TypeOK, Owned, faults' = {}, NEW t \in Threads, Claim(t)
  PROVE  Lease!Take(thr[t].agent, thr[t].job)
<1> USE TypeParts DEF Typed
<1> DEFINE j0 == thr[t].job
           a0 == thr[t].agent
<1>1. /\ j0 \in Jobs /\ a0 \in Agents /\ agents[a0].job = NoJob
      /\ OnlyMoves(t) /\ thr'[t].pc = "set" /\ thr'[t].job = j0 /\ thr'[t].agent = a0
      /\ jobs' = jobs /\ thr[t].pc = "claim"
  BY AtType, NoteClean, Moves DEF Claim, UsesJob, UsesAgent, At
<1>2. ASSUME NEW j \in Jobs, <<a0, j>> \in Leases PROVE FALSE
  <2>1. agents[a0].job = j
    BY <1>2 DEF Leases, Owned, Claiming
  <2> QED
    BY <1>1, <2>1
<1>3. ASSUME NEW j \in Jobs, NEW a \in Agents PROVE Holds(j, a)' <=> Holds(j, a)
  <2>1. RollingBack(j, a) <=> RollingBack(j, a)'
    BY <1>1 DEF RollingBack, OnlyMoves
  <2> QED
    BY <1>1, <2>1 DEF Holds, IsActive
<1>4. ASSUME NEW j \in Jobs, NEW a \in Agents
      PROVE  (\E u \in Threads : Claiming(u, a) /\ thr[u].job = j)'
               <=> \/ \E u \in Threads : Claiming(u, a) /\ thr[u].job = j
                   \/ a = a0 /\ j = j0
  BY <1>1 DEF Claiming, At, OnlyMoves
<1>5. Leases' = Leases \cup {<<a0, j0>>}
  <2> DEFINE C(p)  == \E u \in Threads : Claiming(u, p[1]) /\ thr[u].job = p[2]
             CP(p) == (\E u \in Threads : Claiming(u, p[1]) /\ thr[u].job = p[2])'
  <2>1. ASSUME NEW p \in Agents \X Jobs
        PROVE  /\ Holds(p[2], p[1])' <=> Holds(p[2], p[1])
               /\ CP(p) <=> C(p) \/ p = <<a0, j0>>
    <3>1. p[1] \in Agents /\ p[2] \in Jobs /\ (p = <<a0, j0>> <=> p[1] = a0 /\ p[2] = j0)
      OBVIOUS
    <3>2. CP(p) <=> C(p) \/ (p[1] = a0 /\ p[2] = j0)
      BY <1>4, <3>1, ZenonT(60)
    <3> QED
      BY <1>3, <3>1, <3>2
  <2>2. Leases' = {p \in Agents \X Jobs : Holds(p[2], p[1])' \/ CP(p)}
    BY DEF Leases
  <2>3. Leases = {p \in Agents \X Jobs : Holds(p[2], p[1]) \/ C(p)}
    BY DEF Leases
  <2>4. <<a0, j0>> \in Agents \X Jobs
    BY <1>1
  <2> HIDE DEF C, CP
  <2> QED
    BY <2>1, <2>2, <2>3, <2>4
<1> QED
  BY <1>2, <1>5 DEF Lease!Take, Lease!Leased

LEMMA RecordAndClearGive ==
  ASSUME TypeOK, NEW t \in Threads, RecordAgent(t) \/ ClearJob(t)
  PROVE  Leases' \subseteq Leases
<1> USE TypeParts DEF Typed
<1> DEFINE j0 == thr[t].job
           a0 == thr[t].agent
<1>1. OnlyMoves(t) /\ j0 \in Jobs /\ thr'[t].pc # "set"
  BY AtType, Moves DEF RecordAgent, ClearJob, UsesJob
<1>2. /\ jobs'[j0].agent \in {a0, NoAgent}
      /\ \A j \in Jobs : j # j0 => jobs'[j] = jobs[j]
  BY <1>1 DEF RecordAgent, SetAgent, ClearJob, ClearAgent, JobsOK, JobRow
<1>3. ASSUME NEW a \in Agents, NEW j \in Jobs, Holds(j, a)' PROVE <<a, j>> \in Leases
  <2>1. CASE j = j0
    <3>1. a = a0 /\ jobs'[j0].agent # NoAgent
      BY <1>2, <1>3, <2>1 DEF Holds
    <3>2. Claiming(t, a)
      BY <1>1, <3>1 DEF RecordAgent, ClearJob, ClearAgent, Claiming, JobsOK, JobRow
    <3> QED
      BY <2>1, <3>2 DEF Leases
  <2>2. CASE j # j0
    <3>1. RollingBack(j, a) => RollingBack(j, a)'
      BY <1>1, <2>2 DEF RollingBack, OnlyMoves
    <3>2. Holds(j, a)
      BY <1>2, <1>3, <2>2, <3>1 DEF Holds, IsActive
    <3> QED
      BY <3>2 DEF Leases
  <2> QED
    BY <2>1, <2>2
<1>4. ASSUME NEW u \in Threads, thr'[u].pc = "set" PROVE thr'[u] = thr[u]
  BY <1>1, <1>4 DEF OnlyMoves
<1> QED
  BY <1>3, <1>4 DEF Leases, Claiming, At

LEMMA NextLease == OwnInv /\ [Next]_vars => Lease!Next
<1> SUFFICES ASSUME OwnInv, [Next]_vars PROVE Lease!Next
  OBVIOUS
<1>1. CASE faults' # {}
  BY <1>1 DEF Lease!Next, Leases
<1>2. CASE faults' = {}
  <2>1. faults = {} /\ Owned
    BY <1>2, FaultsGrow DEF OwnInv, Ownership
  <2>2. ASSUME Leases' \subseteq Leases PROVE Lease!Next
    BY <1>2, <2>1, <2>2 DEF Lease!Next, Lease!Give
  <2>3. ASSUME NEW t \in Threads, Claim(t) PROVE Lease!Next
    <3>1. thr[t].agent \in Agents /\ thr[t].job \in Jobs
      BY <2>3, TypeParts, AtType DEF OwnInv, Typed, Claim, UsesJob, UsesAgent
    <3>2. Lease!Take(thr[t].agent, thr[t].job)
      BY <1>2, <2>1, <2>3, ClaimTakes DEF OwnInv
    <3> QED
      BY <1>2, <2>1, <3>1, <3>2 DEF Lease!Next
  <2>4. ASSUME NEW t \in Threads, Step(t), ~ Claim(t) PROVE Lease!Next
    BY <1>2, <2>2, <2>4, RecordAndClearGive, StepQuiet, QuietLeases DEF OwnInv
  <2>5. ASSUME NEW t \in Threads, Begin(t) \/ StartDequeue(t) PROVE Lease!Next
    BY <2>2, <2>5, BeginQuiet, QuietLeases DEF OwnInv
  <2>6. CASE ExpiryTick \/ Frame \/ Environment
    BY <1>2, <2>2, <2>6, OtherQuiet, QuietLeases DEF OwnInv
  <2>7. CASE UNCHANGED vars
    <3>1. Leases' = Leases
      BY <2>7 DEF vars, tables, Leases, Holds, IsActive, RollingBack, Claiming, At
    <3> QED
      BY <2>2, <3>1
  <2> QED
    BY <2>3, <2>4, <2>5, <2>6, <2>7 DEF Next
<1> QED
  BY <1>1, <1>2

\* The allocator, the handlers and the device's frames implement AgentLease
\* (Allocator.Allocate, dequeueNext, Release and everything that runs beside
\* them): until a race is recorded an agent is taken only when nobody has it, and
\* is never passed on from one job to another.
THEOREM LeasesKept == Spec => KeepsLeases
<1>1. Init => Lease!Init
  BY DEF Init, Lease!Init, Leases, Holds, IsActive, Active, Claiming, At, AtRest
<1>2. OwnInv /\ [Next]_vars => [Lease!Next]_<<Leases, faults # {}>>
  BY NextLease
<1> QED
  BY <1>1, <1>2, InitOwned, NextOwned, PTL DEF Spec, KeepsLeases, Lease!Spec
=============================================================================
