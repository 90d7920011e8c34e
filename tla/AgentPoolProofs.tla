--------------------------- MODULE AgentPoolProofs ---------------------------
(***************************************************************************)
(* What is proved of the agents of a device, for every number of agents,   *)
(* jobs and sizes, every size of the device's own pool and every number of *)
(* reconnections, restarts and removals.                                   *)
(***************************************************************************)
EXTENDS AgentPool, SequenceTheorems, FiniteSetTheorems, WellFoundedInduction, TLAPS

-----------------------------------------------------------------------------
(* Numbers and queues                                                      *)

LEMMA LargestSize ==
  /\ Max(Sizes) \in Nat \ {0}
  /\ \A n \in Sizes : n <= Max(Sizes)
<1>1. \E x \in Sizes : \A y \in Sizes : x >= y
  <2>1. PICK x \in Sizes : \A y \in Sizes : y <= x
    BY AgentPoolConstantsOK
  <2>2. \A y \in Sizes : x >= y
    BY <2>1, AgentPoolConstantsOK
  <2> QED
    BY <2>2
<1>2. Max(Sizes) \in Sizes /\ \A y \in Sizes : Max(Sizes) >= y
  BY <1>1 DEF Max
<1> QED
  BY <1>2, AgentPoolConstantsOK

\* the id that is drawn next
LEMMA FirstUnborn ==
  ASSUME Unborn # {}
  PROVE  Min(Unborn) \in Unborn
<1>1. Unborn \subseteq Nat
  BY AgentPoolConstantsOK DEF Unborn
<1>2. PICK x \in Unborn : \A y \in Unborn : ~ (<<y, x>> \in OpToRel(<, Nat))
  BY <1>1, NatLessThanWellFounded, WFMin
<1>3. ASSUME NEW y \in Unborn
      PROVE  x =< y
  <2>1. y \in Nat /\ x \in Nat
    BY <1>1
  <2>2. ~ (y < x)
    BY <1>2, <2>1 DEF OpToRel
  <2> QED
    BY <2>1, <2>2
<1> QED
  BY <1>3 DEF Min

LEMMA QueueOps ==
  ASSUME NEW S, NEW q \in Seq(S)
  PROVE  /\ DOMAIN q = 1 .. Len(q) /\ Len(q) \in Nat
         /\ \A i \in DOMAIN q : q[i] \in S
         /\ \A x \in S : /\ Append(q, x) \in Seq(S)
                         /\ DOMAIN Append(q, x) = DOMAIN q \cup {Len(q) + 1}
                         /\ \A i \in DOMAIN q : Append(q, x)[i] = q[i]
                         /\ Append(q, x)[Len(q) + 1] = x
         /\ q # << >> => /\ Head(q) \in S /\ Tail(q) \in Seq(S) /\ Head(q) = q[1] /\ 1 \in DOMAIN q
                         /\ \A i \in DOMAIN Tail(q) : i + 1 \in DOMAIN q /\ i \in Nat /\ i + 1 # 1
                                                      /\ Tail(q)[i] = q[i + 1]
<1>1. DOMAIN q = 1 .. Len(q) /\ Len(q) \in Nat
  BY LenProperties
<1>2. \A i \in DOMAIN q : q[i] \in S
  BY <1>1, ElementOfSeq
<1>3. ASSUME NEW x \in S
      PROVE  /\ Append(q, x) \in Seq(S)
             /\ DOMAIN Append(q, x) = DOMAIN q \cup {Len(q) + 1}
             /\ \A i \in DOMAIN q : Append(q, x)[i] = q[i]
             /\ Append(q, x)[Len(q) + 1] = x
  <2> DEFINE z == Append(q, x)
  <2>1. /\ z \in Seq(S) /\ Len(z) = Len(q) + 1
        /\ (\A i \in 1 .. Len(q) : z[i] = q[i]) /\ z[Len(q) + 1] = x
    BY AppendProperties
  <2> HIDE DEF z
  <2>2. DOMAIN z = 1 .. Len(z)
    BY <2>1, LenProperties
  <2> QED
    BY <1>1, <2>1, <2>2 DEF z
<1>4. ASSUME q # << >>
      PROVE  /\ Head(q) \in S /\ Tail(q) \in Seq(S) /\ Head(q) = q[1] /\ 1 \in DOMAIN q
             /\ \A i \in DOMAIN Tail(q) : i + 1 \in DOMAIN q /\ i \in Nat /\ i + 1 # 1
                                          /\ Tail(q)[i] = q[i + 1]
  <2> DEFINE z == Tail(q)
  <2>0. Len(q) > 0
    BY <1>1, <1>4, EmptySeq
  <2>1. /\ z \in Seq(S) /\ Len(z) = Len(q) - 1
        /\ (\A i \in 1 .. Len(z) : z[i] = q[i + 1]) /\ Head(q) = q[1]
    BY <1>4, HeadTailProperties
  <2> HIDE DEF z
  <2>2. DOMAIN z = 1 .. Len(z)
    BY <2>1, LenProperties
  <2>3. 1 \in DOMAIN q
    BY <1>1, <2>0
  <2> QED
    BY <1>1, <1>2, <2>0, <2>1, <2>2, <2>3 DEF z
<1> QED
  BY <1>1, <1>2, <1>3, <1>4

\* the end of a queue, whatever its first elements were
LEMMA QueueEnd ==
  ASSUME NEW S, NEW q \in Seq(S), NEW k \in 0 .. Len(q)
  PROVE  SubSeq(q, k + 1, Len(q)) \in Seq(S)
<1>1. Len(q) \in Nat /\ k \in Nat /\ k <= Len(q)
  BY LenProperties
<1>2. /\ k + 1 \in Int /\ Len(q) \in Int
      /\ \A i \in k + 1 .. Len(q) : q[i] \in S
  BY <1>1, ElementOfSeq
<1> QED
  BY <1>2, SubSeqProperties

LEMMA WiderQueue ==
  ASSUME NEW S, NEW T, S \subseteq T, NEW q \in Seq(S)
  PROVE  q \in Seq(T)
<1>1. q \in [1 .. Len(q) -> S] /\ Len(q) \in Nat
  BY LenProperties
<1>2. q \in [1 .. Len(q) -> T]
  BY <1>1
<1> QED
  BY <1>1, <1>2, SeqDef

-----------------------------------------------------------------------------
(* The inductive invariant                                                 *)

DevStates == {"none", "creating", "idle", "busy", "unhealthy", "failed"}
RunStates == {"no", "runs", "ended"}

Types ==
  /\ row \in [Agents -> Row] /\ IsFiniteSet(Existing)
  /\ job \in [Jobs -> Job] /\ loose \subseteq Jobs /\ run \in [Jobs -> RunStates]
  /\ dev \in [Agents -> DevStates]
  /\ boot \subseteq Agents /\ link \in BOOLEAN
  /\ call \in [Callers -> Call]

\* The rows have ports of their own, below the largest size asked for.
Ports ==
  \A a, b \in Agents : Exists(a) /\ Exists(b) =>
    /\ row[a].port < Max(Sizes)
    /\ row[a].port = row[b].port => a = b

\* No EnsurePoolSize makes more rows than that.
Asked ==
  \A c \in Callers : /\ call[c].size <= Max(Sizes)
                     /\ call[c].pc = "loop" => call[c].i < call[c].size

\* the jobs that were given an agent
Begun == {j \in Jobs : job[j].st # "new"}

DownOf(B) == [type : {"create", "drain"}, agent : Agents] \cup [type : {"dispatch"}, job : B]
UpOf(B)   == [type : {"status"}, agent : Agents, st : Reported]
               \cup [type : {"running", "result"}, job : B]

\* Frames, the device and the lists of OnStateSync name only such jobs.
Sent ==
  /\ down \in Seq(DownOf(Begun)) /\ up \in Seq(UpOf(Begun))
  /\ \A j \in Jobs : run[j] # "no" => j \in Begun
  /\ \A j \in Begun : job[j].agent \in Agents
  /\ \A c \in Callers : call[c].jobs \subseteq Begun

\* A job that was over when nullTerminalJobsForAgent listed it still is, unless it
\* was made running again.
Cleared == \A j \in call["drain"].jobs : job[j].st = "over" \/ j \in loose

\* The row of an agent that serves a job says so in its user_id for as long as
\* there is one and no Release intervened, and the job's row names it from SetAgent on.
Serving ==
  \A j \in Jobs \ loose :
    /\ job[j].st \in Held =>
         /\ row[job[j].agent].st # "unborn"
         /\ Exists(job[j].agent) => row[job[j].agent].user
    /\ job[j].st = "active" => job[j].named /\ Exists(job[j].agent)

Inv == Types /\ Ports /\ Asked /\ Sent /\ Cleared /\ Serving /\ AgentServesOne

LEMMA InitInv == Init => Inv
<1> SUFFICES ASSUME Init PROVE Inv
  OBVIOUS
<1>1. Existing = {} /\ Begun = {}
  BY DEF Init, Existing, Exists, Begun
<1>2. Types
  <2>1. call \in [Callers -> Call]
    BY DEF Init, Call, AtRest
  <2>2. row \in [Agents -> Row] /\ job \in [Jobs -> Job]
    BY DEF Init, Row, Job, NoAgent
  <2>3. IsFiniteSet(Existing)
    BY <1>1, FS_EmptySet
  <2> QED
    BY <2>1, <2>2, <2>3 DEF Init, Types, DevStates, RunStates
<1>3. Ports
  BY DEF Init, Ports, Exists
<1>4. Asked
  BY LargestSize DEF Init, Asked, AtRest
<1>5. Serving /\ AgentServesOne
  BY DEF Init, Serving, AgentServesOne, Held
<1>6. Sent /\ Cleared
  BY <1>1 DEF Init, Sent, Cleared, AtRest, Callers
<1> QED
  BY <1>2, <1>3, <1>4, <1>5, <1>6 DEF Inv

-----------------------------------------------------------------------------
(* What the statements do to the rows                                      *)

\* No statement but an INSERT makes a row exist, and none moves a port.
PortsKept ==
  \A a \in Agents : /\ row'[a].port = row[a].port
                    /\ row'[a].st \notin {"unborn", "gone"} => Exists(a)

\* Only Allocate and Release set user_id; a row that a job names is not deleted.
UsersKept ==
  \A a \in Agents : /\ row'[a].user = row[a].user
                    /\ row'[a].st = "unborn" => row[a].st = "unborn"
                    /\ row[a].st = "gone" => row'[a].st = "gone"
                    /\ row'[a].st \in {"unborn", "gone"} /\ Exists(a) => ~Referenced(a)

Written == row' \in [Agents -> Row] /\ PortsKept /\ UsersKept

LEMMA NothingWritten ==
  ASSUME Types, row' = row
  PROVE  Written
BY DEF Types, Written, PortsKept, UsersKept, Exists

LEMMA StatusWritten ==
  ASSUME Types, NEW a \in Agents, NEW s \in Reported, UpdateStatus(a, s)
  PROVE  Written
<1>1. row \in [Agents -> Row]
  BY DEF Types
<1>2. CASE ~Exists(a)
  BY <1>2, NothingWritten DEF UpdateStatus
<1>3. CASE Exists(a)
  <2>1. PICK r : r = [row[a] EXCEPT !.st = s]
    OBVIOUS
  <2>2. r \in Row /\ r.st = s /\ r.port = row[a].port /\ r.user = row[a].user
    BY <1>1, <2>1 DEF Row
  <2>3. row' = [row EXCEPT ![a] = r]
    BY <1>3, <2>1 DEF UpdateStatus
  <2>4. s \notin {"unborn", "gone"}
    BY DEF Reported
  <2> QED
    BY <1>1, <1>3, <2>2, <2>3, <2>4 DEF Written, PortsKept, UsersKept, Exists
<1> QED
  BY <1>2, <1>3

LEMMA RowDeleted ==
  ASSUME Types, NEW a \in Agents, Delete(a)
  PROVE  Written
<1>1. row \in [Agents -> Row]
  BY DEF Types
<1>2. CASE ~ (Exists(a) /\ ~Referenced(a))
  BY <1>2, NothingWritten DEF Delete
<1>3. CASE Exists(a) /\ ~Referenced(a)
  <2>1. PICK r : r = [row[a] EXCEPT !.st = "gone"]
    OBVIOUS
  <2>2. r \in Row /\ r.st = "gone" /\ r.port = row[a].port /\ r.user = row[a].user
    BY <1>1, <2>1 DEF Row
  <2>3. row' = [row EXCEPT ![a] = r]
    BY <1>3, <2>1 DEF Delete
  <2> QED
    BY <1>1, <1>3, <2>2, <2>3 DEF Written, PortsKept, UsersKept, Exists
<1> QED
  BY <1>2, <1>3

LEMMA RowGrowsOld ==
  ASSUME Types, NEW a \in Agents, GrowOld(a)
  PROVE  Written
<1>1. row \in [Agents -> Row]
  BY DEF Types
<1>2. PICK r : r = [row[a] EXCEPT !.old = TRUE]
  OBVIOUS
<1>3. r \in Row /\ r.st = row[a].st /\ r.port = row[a].port /\ r.user = row[a].user
  BY <1>1, <1>2 DEF Row
<1>4. row' = [row EXCEPT ![a] = r]
  BY <1>2 DEF GrowOld
<1> QED
  BY <1>1, <1>3, <1>4 DEF Written, PortsKept, UsersKept, Exists

-----------------------------------------------------------------------------
(* The number of rows                                                      *)

LEMMA PortsHold ==
  ASSUME Types, Ports, PortsKept
  PROVE  IsFiniteSet(Existing)' /\ Ports'
<1>1. Existing' \subseteq Existing
  BY DEF PortsKept, Existing, Exists
<1>2. IsFiniteSet(Existing')
  BY <1>1, FS_Subset DEF Types
<1>3. Ports'
  BY DEF Ports, PortsKept, Exists
<1> QED
  BY <1>2, <1>3

LEMMA RowsWithinSize ==
  ASSUME Types, Ports
  PROVE  Cardinality(Existing) \in Nat /\ Cardinality(Existing) <= Max(Sizes)
<1>1. PICK n : n = Max(Sizes) /\ n \in Nat \ {0}
  BY LargestSize
<1> DEFINE port == [a \in Existing |-> row[a].port]
           T    == 0 .. (n - 1)
<1>2. port \in Injection(Existing, T)
  BY <1>1 DEF Types, Ports, Existing, Row, Injection, IsInjective
<1>3. IsFiniteSet(T) /\ Cardinality(T) = n
  <2>1. n - 1 \in Int /\ ~ (0 > n - 1) /\ (n - 1) - 0 + 1 = n
    BY <1>1
  <2> QED
    BY <2>1, FS_Interval
<1> HIDE DEF port, T
<1>4. Cardinality(Existing) <= n
  BY <1>2, <1>3, FS_Injection
<1>5. Cardinality(Existing) \in Nat
  BY FS_CardinalityType DEF Types
<1> QED
  BY <1>1, <1>4, <1>5

LEMMA CountIsNumber ==
  ASSUME Types
  PROVE  Counted \in Nat
<1>1. IsFiniteSet({a \in Existing : row[a].st \notin {"failed", "drained"}})
  BY FS_Subset DEF Types
<1> QED
  BY <1>1, FS_CardinalityType DEF Counted
-----------------------------------------------------------------------------
(* Every step keeps the rows, the ports and the sizes                      *)

LEMMA CallChange ==
  ASSUME Types, NEW c \in Callers, NEW r \in Call, call' = [call EXCEPT ![c] = r],
         Asked, r.size <= Max(Sizes), r.pc = "loop" => r.i < r.size
  PROVE  call' \in [Callers -> Call] /\ Asked'
<1>1. \A d \in Callers : call'[d] = (IF d = c THEN r ELSE call[d])
  BY DEF Types
<1>2. call' \in [Callers -> Call]
  BY DEF Types
<1>3. Asked'
  BY <1>1, LargestSize DEF Asked
<1> QED
  BY <1>2, <1>3

LEMMA CallAtRest ==
  /\ AtRest \in Call /\ AtRest.pc = "idle" /\ AtRest.size = 0 /\ AtRest.jobs = {}
  /\ 0 <= Max(Sizes)
BY LargestSize DEF AtRest, Call

LEMMA CallReturns ==
  ASSUME Types, Asked, NEW c \in Callers, Return(c)
  PROVE  call' \in [Callers -> Call] /\ Asked'
<1>1. PICK r : r = IF c = "hello" THEN [AtRest EXCEPT !.pc = "sync"] ELSE AtRest
  OBVIOUS
<1>2. call' = [call EXCEPT ![c] = r]
  BY <1>1 DEF Return
<1>3. r \in Call /\ r.size = 0 /\ r.pc # "loop"
  BY <1>1 DEF AtRest, Call
<1> QED
  BY <1>2, <1>3, CallAtRest, CallChange

LEMMA CallEnsures ==
  ASSUME Types, Asked, NEW c \in Callers, NEW n \in Nat, n <= Max(Sizes), Ensure(c, n)
  PROVE  call' \in [Callers -> Call] /\ Asked'
<1>1. PICK r : r = [AtRest EXCEPT !.pc = "count", !.size = n]
  OBVIOUS
<1>2. r \in Call /\ r.pc = "count" /\ r.size = n
  BY <1>1 DEF AtRest, Call
<1>3. call' = [call EXCEPT ![c] = r]
  BY <1>1 DEF Ensure
<1> QED
  BY <1>2, <1>3, CallChange

\* the round of EnsurePoolSize that makes a row
Created(c, a) ==
  /\ row[a].st = "unborn" /\ ~PortTaken(call[c].i)
  /\ row' = [row EXCEPT ![a] = [@ EXCEPT !.st = "creating", !.port = call[c].i]]

LEMMA RowCreated ==
  ASSUME Types, Ports, Asked, NEW c \in Callers, call[c].pc = "loop", NEW a \in Agents, Created(c, a)
  PROVE  /\ row' \in [Agents -> Row] /\ IsFiniteSet(Existing)' /\ Ports'
         /\ UsersKept
<1>1. row \in [Agents -> Row] /\ call[c] \in Call
  BY DEF Types
<1>2. PICK i : i \in Nat /\ i = call[c].i
  BY <1>1 DEF Call
<1>3. i < Max(Sizes)
  <2>1. call[c].size \in Nat /\ call[c].size <= Max(Sizes) /\ i < call[c].size
    BY <1>1, <1>2 DEF Asked, Call
  <2> QED
    BY <1>2, <2>1, LargestSize
<1>4. PICK r : r = [row[a] EXCEPT !.st = "creating", !.port = i]
  OBVIOUS
<1>5. r \in Row /\ r.st = "creating" /\ r.port = i /\ r.user = row[a].user
  BY <1>1, <1>2, <1>4 DEF Row, Reported
<1>6. row' = [row EXCEPT ![a] = r]
  BY <1>2, <1>4 DEF Created
<1>7. \A b \in Agents : Exists(b) => row[b].port # i
  BY <1>2 DEF Created, PortTaken, Existing
<1>8. row' \in [Agents -> Row]
  BY <1>1, <1>5, <1>6
<1>9. \A b \in Agents : row'[b] = (IF b = a THEN r ELSE row[b])
  BY <1>1, <1>6
<1>10. IsFiniteSet(Existing)'
  <2>1. Existing' = Existing \cup {a}
    BY <1>5, <1>9 DEF Existing, Exists
  <2> QED
    BY <2>1, FS_AddElement DEF Types
<1>11. Ports'
  <2>1. ASSUME NEW x \in Agents, NEW y \in Agents, Exists(x)', Exists(y)'
        PROVE  row'[x].port < Max(Sizes) /\ (row'[x].port = row'[y].port => x = y)
    <3>1. (x # a => Exists(x)) /\ (y # a => Exists(y))
      BY <1>9, <2>1 DEF Exists
    <3>2. CASE x = a
      BY <1>3, <1>5, <1>7, <1>9, <3>1, <3>2
    <3>3. CASE x # a
      BY <1>3, <1>5, <1>7, <1>9, <3>1, <3>3 DEF Ports
    <3> QED
      BY <3>2, <3>3
  <2> QED
    BY <2>1 DEF Ports
<1>12. UsersKept
  BY <1>5, <1>9 DEF UsersKept, Created, Exists
<1> QED
  BY <1>8, <1>10, <1>11, <1>12

LEMMA CreateNextCreates ==
  ASSUME Types, NEW c \in Callers, CreateNext(c)
  PROVE  row' = row \/ \E a \in Agents : Created(c, a)
<1>1. CASE PortTaken(call[c].i) \/ Unborn = {}
  BY <1>1 DEF CreateNext
<1>2. CASE ~ (PortTaken(call[c].i) \/ Unborn = {})
  <2>1. Min(Unborn) \in Unborn
    BY <1>2, FirstUnborn
  <2>2. Created(c, Min(Unborn))
    BY <1>2, <2>1 DEF CreateNext, Created, Unborn
  <2> QED
    BY <2>1, <2>2 DEF Unborn
<1> QED
  BY <1>1, <1>2
\* a field of a call that is neither its size, its place nor its index
LEMMA CallField ==
  ASSUME Types, Asked, NEW c \in Callers, NEW r \in Call, call' = [call EXCEPT ![c] = r],
         r.size = call[c].size, r.pc # "loop" \/ (r.pc = call[c].pc /\ r.i = call[c].i)
  PROVE  call' \in [Callers -> Call] /\ Asked'
<1>1. r.size <= Max(Sizes) /\ (r.pc = "loop" => r.i < r.size)
  BY DEF Asked
<1> QED
  BY <1>1, CallChange

LEMMA CallsHold ==
  ASSUME Types, Ports, Asked, Next
  PROVE  call' \in [Callers -> Call] /\ Asked'
<1>0. /\ \A c \in Callers : call[c] \in Call
      /\ "admin" \in Callers /\ "hello" \in Callers /\ "drain" \in Callers
  BY DEF Types, Callers
<1>a. ASSUME call' = call PROVE call' \in [Callers -> Call] /\ Asked'
  BY <1>a DEF Types, Asked
<1>1. ASSUME NEW n \in Sizes, SetPoolSize(n) PROVE call' \in [Callers -> Call] /\ Asked'
  <2>1. n \in Nat /\ n <= Max(Sizes)
    BY LargestSize, AgentPoolConstantsOK
  <2> QED
    BY <1>0, <1>1, <2>1, CallEnsures DEF SetPoolSize
<1>2. ASSUME NEW c \in Callers, Count(c) PROVE call' \in [Callers -> Call] /\ Asked'
  <2>1. CASE Counted >= call[c].size
    BY <1>2, <2>1, CallReturns DEF Count
  <2>2. CASE ~ (Counted >= call[c].size)
    <3>1. PICK n : n = Counted
      OBVIOUS
    <3>2. n \in Nat /\ call[c].size \in Nat /\ ~ (n >= call[c].size)
      BY <1>0, <2>2, <3>1, CountIsNumber DEF Call
    <3>3. PICK r : r = [call[c] EXCEPT !.pc = "loop", !.i = n]
      OBVIOUS
    <3>4. r \in Call /\ r.pc = "loop" /\ r.i = n /\ r.size = call[c].size
      BY <1>0, <3>2, <3>3 DEF Call
    <3>5. call' = [call EXCEPT ![c].pc = "loop", ![c].i = n]
      BY <1>2, <2>2, <3>1 DEF Count
    <3>6. call' = [call EXCEPT ![c] = r]
      BY <3>3, <3>5 DEF Types
    <3>7. r.size <= Max(Sizes) /\ (r.pc = "loop" => r.i < r.size)
      BY <3>2, <3>4 DEF Asked
    <3> QED
      BY <3>4, <3>6, <3>7, CallChange
  <2> QED
    BY <2>1, <2>2
<1>3. ASSUME NEW c \in Callers, CreateNext(c) PROVE call' \in [Callers -> Call] /\ Asked'
  <2>1. CASE Return(c)
    BY <2>1, CallReturns
  <2>2. CASE ~Return(c)
    <3>1. /\ call' = [call EXCEPT ![c].i = @ + 1] /\ call[c].pc = "loop"
          /\ ~ (call[c].i + 1 = call[c].size)
      BY <1>3, <2>2 DEF CreateNext
    <3>2. /\ call[c].i \in Nat /\ call[c].size \in Nat /\ call[c].i < call[c].size
          /\ call[c].size <= Max(Sizes)
      BY <1>0, <3>1 DEF Asked, Call
    <3>3. PICK n : n \in Nat /\ n = call[c].i + 1 /\ n < call[c].size
      <4>1. call[c].i + 1 \in Nat /\ call[c].i + 1 < call[c].size
        BY <3>1, <3>2
      <4> QED
        BY <4>1
    <3>4. PICK r : r = [call[c] EXCEPT !.i = n]
      OBVIOUS
    <3>5. r \in Call /\ r.pc = "loop" /\ r.i = n /\ r.size = call[c].size
      BY <1>0, <3>1, <3>3, <3>4 DEF Call
    <3>6. call' = [call EXCEPT ![c] = r]
      BY <3>1, <3>3, <3>4 DEF Types
    <3> QED
      BY <3>2, <3>3, <3>5, <3>6, CallChange
  <2> QED
    BY <2>1, <2>2
<1>4. ASSUME Hello PROVE call' \in [Callers -> Call] /\ Asked'
  <2>1. PICK n : n = Cardinality(Existing)
    OBVIOUS
  <2>2. n \in Nat /\ n <= Max(Sizes)
    BY <2>1, RowsWithinSize
  <2>3. PICK r : r = [AtRest EXCEPT !.pc = "reconcile", !.size = n, !.stale = Stale,
                                    !.todo = {a \in boot : row[a].st = "creating"}]
    OBVIOUS
  <2>4. Stale \subseteq Agents /\ {a \in boot : row[a].st = "creating"} \subseteq Agents
    BY DEF Stale, Existing, Types
  <2>5. r \in Call /\ r.pc = "reconcile" /\ r.size = n
    BY <2>2, <2>3, <2>4 DEF AtRest, Call
  <2>6. call' = [call EXCEPT !["hello"] = r]
    BY <1>4, <2>1, <2>3 DEF Hello
  <2> QED
    BY <1>0, <2>2, <2>5, <2>6, CallChange
<1>5. ASSUME Deleted PROVE call' \in [Callers -> Call] /\ Asked'
  <2>1. call["hello"].size \in Nat /\ call["hello"].size <= Max(Sizes)
    BY <1>0 DEF Call, Asked
  <2>2. 1 \in Nat /\ 1 <= Max(Sizes)
    BY LargestSize
  <2>3. \/ Ensure("hello", call["hello"].size) \/ Ensure("hello", 1) \/ Return("hello")
    BY <1>5 DEF Deleted
  <2> QED
    BY <1>0, <2>1, <2>2, <2>3, CallEnsures, CallReturns
<1>6. ASSUME NEW a \in Agents, Promote(a) PROVE call' \in [Callers -> Call] /\ Asked'
  <2>1. PICK r : r = [call["hello"] EXCEPT !.todo = @ \ {a}]
    OBVIOUS
  <2>2. /\ r \in Call /\ r.size = call["hello"].size /\ r.pc = call["hello"].pc
        /\ r.i = call["hello"].i
    BY <1>0, <2>1 DEF Call
  <2>3. call' = [call EXCEPT !["hello"] = r]
    BY <1>0, <1>6, <2>1 DEF Promote, Types
  <2> QED
    BY <1>0, <2>2, <2>3, CallField
<1>7. ASSUME NEW a \in Agents, DeleteStale(a) PROVE call' \in [Callers -> Call] /\ Asked'
  <2>0. PICK d : d = (call["hello"].deleted \/ row'[a].st = "gone") /\ d \in BOOLEAN
    OBVIOUS
  <2>1. PICK r : r = [call["hello"] EXCEPT !.stale = @ \ {a}, !.deleted = d]
    OBVIOUS
  <2>2. /\ r \in Call /\ r.size = call["hello"].size /\ r.pc = call["hello"].pc
        /\ r.i = call["hello"].i
    BY <1>0, <2>0, <2>1 DEF Call
  <2>3. call' = [call EXCEPT !["hello"] = r]
    BY <1>0, <1>7, <2>0, <2>1 DEF DeleteStale, Types
  <2> QED
    BY <1>0, <2>2, <2>3, CallField
<1>8. ASSUME NEW a \in Agents, DrainAgent(a) PROVE call' \in [Callers -> Call] /\ Asked'
  <2>1. PICK pc : pc = (IF row[a].st \in {"idle", "failed"} THEN "delete" ELSE "mark")
    OBVIOUS
  <2>2. PICK r : r = [AtRest EXCEPT !.todo = {a}, !.pc = pc]
    OBVIOUS
  <2>3. r \in Call /\ r.pc # "loop" /\ r.size = 0
    BY <2>1, <2>2 DEF AtRest, Call
  <2>4. call' = [call EXCEPT !["drain"] = r]
    BY <1>8, <2>1, <2>2 DEF DrainAgent
  <2> QED
    BY <1>0, <2>3, <2>4, CallChange, CallAtRest
<1>9. ASSUME NEW l \in {"null", "again"}, Goto("drain", l)
      PROVE  call' \in [Callers -> Call] /\ Asked'
  <2>1. PICK r : r = [call["drain"] EXCEPT !.pc = l]
    OBVIOUS
  <2>2. r \in Call /\ r.size = call["drain"].size /\ r.pc # "loop"
    BY <1>0, <1>9, <2>1 DEF Call
  <2>3. call' = [call EXCEPT !["drain"] = r]
    BY <1>0, <1>9, <2>1 DEF Goto, Types
  <2> QED
    BY <1>0, <2>2, <2>3, CallField
<1>b. ASSUME NEW J, J \subseteq Jobs, NEW c \in Callers, NEW l \in {"fail", "clear", "again"},
             call' = [call EXCEPT ![c].pc = l, ![c].jobs = J]
      PROVE  call' \in [Callers -> Call] /\ Asked'
  <2>1. PICK r : r = [call[c] EXCEPT !.pc = l, !.jobs = J]
    OBVIOUS
  <2>2. r \in Call /\ r.size = call[c].size /\ r.pc # "loop"
    BY <1>0, <1>b, <2>1 DEF Call
  <2>3. call' = [call EXCEPT ![c] = r]
    BY <1>b, <2>1 DEF Types
  <2> QED
    BY <2>2, <2>3, CallField
<1>10. ASSUME NEW a \in Agents, DrainDelete(a) \/ NullTerminalJobs(a) \/ DrainMark(a)
       PROVE  call' \in [Callers -> Call] /\ Asked'
  <2>1. CASE Return("drain") \/ Goto("drain", "null") \/ Goto("drain", "again")
    BY <1>0, <1>9, <2>1, CallReturns
  <2>2. ASSUME NEW J, J \subseteq Jobs, call' = [call EXCEPT !["drain"].pc = "clear", !["drain"].jobs = J]
        PROVE  call' \in [Callers -> Call] /\ Asked'
    BY <1>0, <1>b, <2>2
  <2> QED
    BY <1>10, <2>1, <2>2 DEF DrainDelete, NullTerminalJobs, DrainMark
<1>11. ASSUME NEW j \in Jobs, ClearAgent(j) PROVE call' \in [Callers -> Call] /\ Asked'
  <2>0. call["drain"].jobs \subseteq Jobs
    BY <1>0 DEF Call
  <2>1. PICK J : J = call["drain"].jobs \ {j} /\ J \subseteq Jobs
    BY <2>0
  <2>2. PICK l \in {"clear", "again"} : l = IF call["drain"].jobs = {j} THEN "again" ELSE "clear"
    OBVIOUS
  <2>3. call' = [call EXCEPT !["drain"].pc = l, !["drain"].jobs = J]
    BY <1>0, <1>11, <2>1, <2>2 DEF ClearAgent, Types
  <2> QED
    BY <1>0, <1>b, <2>1, <2>3
<1>12. ASSUME ListLost PROVE call' \in [Callers -> Call] /\ Asked'
  <2>1. PICK lost \in SUBSET Jobs :
          call' = [call EXCEPT !["hello"] = IF lost = {} THEN AtRest
                                            ELSE [AtRest EXCEPT !.pc = "fail", !.jobs = lost]]
    BY <1>12 DEF ListLost
  <2>2. PICK r : r = IF lost = {} THEN AtRest ELSE [AtRest EXCEPT !.pc = "fail", !.jobs = lost]
    OBVIOUS
  <2>3. r \in Call /\ r.size = 0 /\ r.pc # "loop"
    BY <2>2 DEF AtRest, Call
  <2>4. call' = [call EXCEPT !["hello"] = r]
    BY <2>1, <2>2
  <2> QED
    BY <1>0, <2>3, <2>4, CallAtRest, CallChange
<1>13. ASSUME NEW j \in Jobs, FailLost(j) PROVE call' \in [Callers -> Call] /\ Asked'
  <2>2. PICK r : r = IF call["hello"].jobs = {j} THEN AtRest
                     ELSE [call["hello"] EXCEPT !.jobs = call["hello"].jobs \ {j}]
    OBVIOUS
  <2>3. r \in Call /\ r.size <= Max(Sizes) /\ r.pc # "loop"
    <3>1. AtRest \in Call /\ AtRest.size <= Max(Sizes) /\ AtRest.pc # "loop"
      BY CallAtRest
    <3>2. CASE call["hello"].jobs = {j}
      BY <2>2, <3>1, <3>2
    <3>3. CASE call["hello"].jobs # {j}
      <4>1. call["hello"].pc = "fail" /\ call["hello"].size <= Max(Sizes)
        BY <1>0, <1>13 DEF FailLost, Asked
      <4>2. r \in Call /\ r.size = call["hello"].size /\ r.pc = call["hello"].pc
        BY <1>0, <2>2, <3>3 DEF Call
      <4> QED
        BY <4>1, <4>2
    <3> QED
      BY <3>2, <3>3
  <2>4. call' = [call EXCEPT !["hello"] = r]
    BY <1>0, <1>13, <2>2 DEF FailLost, Types
  <2> QED
    BY <1>0, <2>3, <2>4, CallChange
<1>14. ASSUME \/ \E a \in Agents : GrowOld(a) \/ AdminDelete(a) \/ HealthCheck(a) \/ Sample(a)
              \/ \E a \in Agents, j \in Jobs : Allocate(j, a)
              \/ \E j \in Jobs : SetAgent(j) \/ Cancel(j) \/ JobEnds(j) \/ Progress(j)
              \/ DeviceReads \/ Restart \/ Drop \/ GatewayReads
       PROVE  call' \in [Callers -> Call] /\ Asked'
  <2>1. call' = call
    BY <1>14 DEF GrowOld, AdminDelete, HealthCheck, Sample, Allocate, SetAgent, Cancel, JobEnds,
                 Progress, DeviceReads, Restart, Drop, GatewayReads
  <2> QED
    BY <1>a, <2>1
<1> QED
  BY <1>1, <1>2, <1>3, <1>4, <1>5, <1>6, <1>7, <1>8, <1>10, <1>11, <1>12, <1>13, <1>14 DEF Next

\* what the lists of jobs grow by
LEMMA ListsGrow ==
  ASSUME Types, Next
  PROVE  \A c \in Callers : \A j \in call'[c].jobs :
           \/ j \in call[c].jobs
           \/ j \in Jobs /\ c = "hello" /\ job[j].st = "active"
           \/ j \in Jobs /\ c = "drain" /\ job[j].st = "over"
<1> DEFINE Grown(c) == \A j \in call'[c].jobs :
                         \/ j \in call[c].jobs
                         \/ j \in Jobs /\ c = "hello" /\ job[j].st = "active"
                         \/ j \in Jobs /\ c = "drain" /\ job[j].st = "over"
<1>0. /\ \A c \in Callers : call[c] \in Call
      /\ "admin" \in Callers /\ "hello" \in Callers /\ "drain" \in Callers
  BY DEF Types, Callers
<1>1. ASSUME NEW c \in Callers, NEW r, call' = [call EXCEPT ![c] = r], r.jobs \subseteq call[c].jobs
      PROVE  \A d \in Callers : Grown(d)
  <2>1. \A d \in Callers : call'[d] = (IF d = c THEN r ELSE call[d])
    BY <1>1 DEF Types
  <2> QED
    BY <1>1, <2>1
<1> HIDE DEF Grown
<1>a. ASSUME call' = call PROVE \A d \in Callers : Grown(d)
  BY <1>a DEF Grown
<1>2. ASSUME NEW c \in Callers, Return(c) PROVE \A d \in Callers : Grown(d)
  <2>1. PICK r : r = IF c = "hello" THEN [AtRest EXCEPT !.pc = "sync"] ELSE AtRest
    OBVIOUS
  <2>2. r.jobs = {} /\ call' = [call EXCEPT ![c] = r]
    BY <1>2, <2>1 DEF AtRest, Return
  <2> QED
    BY <1>1, <2>2
<1>3. ASSUME NEW c \in Callers, NEW n, Ensure(c, n) PROVE \A d \in Callers : Grown(d)
  <2>1. PICK r : r = [AtRest EXCEPT !.pc = "count", !.size = n]
    OBVIOUS
  <2>2. r.jobs = {} /\ call' = [call EXCEPT ![c] = r]
    BY <1>3, <2>1 DEF AtRest, Ensure
  <2> QED
    BY <1>1, <2>2
<1>4. ASSUME NEW c \in Callers, NEW l, Goto(c, l) PROVE \A d \in Callers : Grown(d)
  <2>1. PICK r : r = [call[c] EXCEPT !.pc = l]
    OBVIOUS
  <2>2. r.jobs = call[c].jobs
    BY <1>0, <2>1 DEF Call
  <2>3. call' = [call EXCEPT ![c] = r]
    BY <1>4, <2>1 DEF Goto, Types
  <2> QED
    BY <1>1, <2>2, <2>3
<1>5. ASSUME NEW n \in Sizes, SetPoolSize(n) PROVE \A d \in Callers : Grown(d)
  BY <1>0, <1>3, <1>5 DEF SetPoolSize
<1>6. ASSUME NEW c \in Callers, Count(c) PROVE \A d \in Callers : Grown(d)
  <2>1. CASE Return(c)
    BY <1>2, <2>1
  <2>2. CASE ~Return(c)
    <3>1. PICK r : r = [call[c] EXCEPT !.pc = "loop", !.i = Counted]
      OBVIOUS
    <3>2. r.jobs = call[c].jobs
      BY <1>0, <3>1 DEF Call
    <3>3. call' = [call EXCEPT ![c].pc = "loop", ![c].i = Counted]
      BY <1>6, <2>2 DEF Count
    <3>4. call' = [call EXCEPT ![c] = r]
      BY <3>1, <3>3 DEF Types
    <3> QED
      BY <1>1, <3>2, <3>4
  <2> QED
    BY <2>1, <2>2
<1>7. ASSUME NEW c \in Callers, CreateNext(c) PROVE \A d \in Callers : Grown(d)
  <2>1. CASE Return(c)
    BY <1>2, <2>1
  <2>2. CASE ~Return(c)
    <3>1. PICK r : r = [call[c] EXCEPT !.i = call[c].i + 1]
      OBVIOUS
    <3>2. r.jobs = call[c].jobs
      BY <1>0, <3>1 DEF Call
    <3>3. call' = [call EXCEPT ![c].i = @ + 1]
      BY <1>7, <2>2 DEF CreateNext
    <3>4. call' = [call EXCEPT ![c] = r]
      BY <3>1, <3>3 DEF Types
    <3> QED
      BY <1>1, <3>2, <3>4
  <2> QED
    BY <2>1, <2>2
<1>8. ASSUME Hello PROVE \A d \in Callers : Grown(d)
  <2>1. PICK r : r = [AtRest EXCEPT !.pc = "reconcile", !.size = Cardinality(Existing), !.stale = Stale,
                                    !.todo = {a \in boot : row[a].st = "creating"}]
    OBVIOUS
  <2>2. r.jobs = {} /\ call' = [call EXCEPT !["hello"] = r]
    BY <1>8, <2>1 DEF AtRest, Hello
  <2> QED
    BY <1>0, <1>1, <2>2
<1>9. ASSUME Deleted PROVE \A d \in Callers : Grown(d)
  <2>1. \/ Ensure("hello", call["hello"].size) \/ Ensure("hello", 1) \/ Return("hello")
    BY <1>9 DEF Deleted
  <2> QED
    BY <1>0, <1>2, <1>3, <2>1
<1>10. ASSUME NEW a \in Agents, Promote(a) PROVE \A d \in Callers : Grown(d)
  <2>1. PICK r : r = [call["hello"] EXCEPT !.todo = call["hello"].todo \ {a}]
    OBVIOUS
  <2>2. r.jobs = call["hello"].jobs
    BY <1>0, <2>1 DEF Call
  <2>3. call' = [call EXCEPT !["hello"] = r]
    BY <1>0, <1>10, <2>1 DEF Promote, Types
  <2> QED
    BY <1>0, <1>1, <2>2, <2>3
<1>11. ASSUME NEW a \in Agents, DeleteStale(a) PROVE \A d \in Callers : Grown(d)
  <2>0. PICK d : d = (call["hello"].deleted \/ row'[a].st = "gone")
    OBVIOUS
  <2>1. PICK r : r = [call["hello"] EXCEPT !.stale = @ \ {a}, !.deleted = d]
    OBVIOUS
  <2>2. r.jobs = call["hello"].jobs
    BY <1>0, <2>1 DEF Call
  <2>3. call' = [call EXCEPT !["hello"] = r]
    BY <1>0, <1>11, <2>0, <2>1 DEF DeleteStale, Types
  <2> QED
    BY <1>0, <1>1, <2>2, <2>3
<1>12. ASSUME NEW a \in Agents, DrainAgent(a) PROVE \A d \in Callers : Grown(d)
  <2>1. PICK pc : pc = (IF row[a].st \in {"idle", "failed"} THEN "delete" ELSE "mark")
    OBVIOUS
  <2>2. PICK r : r = [AtRest EXCEPT !.todo = {a}, !.pc = pc]
    OBVIOUS
  <2>3. r.jobs = {} /\ call' = [call EXCEPT !["drain"] = r]
    BY <1>12, <2>1, <2>2 DEF AtRest, DrainAgent
  <2> QED
    BY <1>0, <1>1, <2>3
<1>13. ASSUME NEW a \in Agents, DrainDelete(a) \/ DrainMark(a) PROVE \A d \in Callers : Grown(d)
  <2>1. Return("drain") \/ Goto("drain", "null")
    BY <1>13 DEF DrainDelete, DrainMark
  <2> QED
    BY <1>0, <1>2, <1>4, <2>1
<1>14. ASSUME NEW a \in Agents, NullTerminalJobs(a) PROVE \A d \in Callers : Grown(d)
  <2>1. CASE Return("drain") \/ Goto("drain", "again")
    BY <1>0, <1>2, <1>4, <2>1
  <2>2. CASE ~ (Return("drain") \/ Goto("drain", "again"))
    <3>1. PICK J \in SUBSET Jobs :
            /\ \A j \in J : job[j].st = "over"
            /\ call' = [call EXCEPT !["drain"].pc = "clear", !["drain"].jobs = J]
      BY <1>14, <2>2 DEF NullTerminalJobs
    <3>2. PICK r : r = [call["drain"] EXCEPT !.pc = "clear", !.jobs = J]
      OBVIOUS
    <3>3. r.jobs = J
      BY <1>0, <3>2 DEF Call
    <3>4. call' = [call EXCEPT !["drain"] = r]
      BY <1>0, <3>1, <3>2 DEF Types
    <3>5. \A d \in Callers : call'[d] = (IF d = "drain" THEN r ELSE call[d])
      BY <3>4 DEF Types
    <3> QED
      BY <3>1, <3>3, <3>5 DEF Grown
  <2> QED
    BY <2>1, <2>2
<1>15. ASSUME NEW j \in Jobs, ClearAgent(j) PROVE \A d \in Callers : Grown(d)
  <2>1. PICK l : l = IF call["drain"].jobs = {j} THEN "again" ELSE "clear"
    OBVIOUS
  <2>2. PICK r : r = [call["drain"] EXCEPT !.jobs = call["drain"].jobs \ {j}, !.pc = l]
    OBVIOUS
  <2>3. r.jobs = call["drain"].jobs \ {j}
    BY <1>0, <2>2 DEF Call
  <2>4. call' = [call EXCEPT !["drain"] = r]
    BY <1>0, <1>15, <2>1, <2>2 DEF ClearAgent, Types
  <2> QED
    BY <1>0, <1>1, <2>3, <2>4
<1>16. ASSUME ListLost PROVE \A d \in Callers : Grown(d)
  <2>1. PICK lost \in SUBSET {j \in Jobs : job[j].st = "active" /\ job[j].named} :
          call' = [call EXCEPT !["hello"] = IF lost = {} THEN AtRest
                                            ELSE [AtRest EXCEPT !.pc = "fail", !.jobs = lost]]
    BY <1>16 DEF ListLost
  <2>2. PICK r : r = IF lost = {} THEN AtRest ELSE [AtRest EXCEPT !.pc = "fail", !.jobs = lost]
    OBVIOUS
  <2>3. r.jobs = lost
    BY <2>2 DEF AtRest
  <2>4. \A d \in Callers : call'[d] = (IF d = "hello" THEN r ELSE call[d])
    BY <1>0, <2>1, <2>2 DEF Types
  <2> QED
    BY <2>1, <2>3, <2>4 DEF Grown
<1>17. ASSUME NEW j \in Jobs, FailLost(j) PROVE \A d \in Callers : Grown(d)
  <2>1. PICK r : r = IF call["hello"].jobs = {j} THEN AtRest
                     ELSE [call["hello"] EXCEPT !.jobs = call["hello"].jobs \ {j}]
    OBVIOUS
  <2>2. r.jobs \subseteq call["hello"].jobs
    <3>1. CASE call["hello"].jobs = {j}
      BY <2>1, <3>1, CallAtRest
    <3>2. CASE call["hello"].jobs # {j}
      BY <1>0, <2>1, <3>2 DEF Call
    <3> QED
      BY <3>1, <3>2
  <2>3. call' = [call EXCEPT !["hello"] = r]
    BY <1>0, <1>17, <2>1 DEF FailLost, Types
  <2> QED
    BY <1>0, <1>1, <2>2, <2>3
<1>18. ASSUME \/ \E a \in Agents : GrowOld(a) \/ AdminDelete(a) \/ HealthCheck(a) \/ Sample(a)
              \/ \E a \in Agents, j \in Jobs : Allocate(j, a)
              \/ \E j \in Jobs : SetAgent(j) \/ Cancel(j) \/ JobEnds(j) \/ Progress(j)
              \/ DeviceReads \/ Restart \/ Drop \/ GatewayReads
       PROVE  \A d \in Callers : Grown(d)
  <2>1. call' = call
    BY <1>18 DEF GrowOld, AdminDelete, HealthCheck, Sample, Allocate, SetAgent, Cancel, JobEnds,
                 Progress, DeviceReads, Restart, Drop, GatewayReads
  <2> QED
    BY <1>a, <2>1
<1>19. \A d \in Callers : Grown(d)
  BY <1>5, <1>6, <1>7, <1>8, <1>9, <1>10, <1>11, <1>12, <1>13, <1>14, <1>15, <1>16, <1>17, <1>18 DEF Next
<1> QED
  BY <1>19 DEF Grown
LEMMA RowAllocated ==
  ASSUME Types, NEW j \in Jobs, NEW a \in Agents, Allocate(j, a)
  PROVE  /\ row' \in [Agents -> Row] /\ PortsKept
         /\ row'[a].st = "busy" /\ row'[a].user
         /\ \A b \in Agents \ {a} : row'[b] = row[b]
<1>1. row \in [Agents -> Row]
  BY DEF Types
<1>2. PICK r : r = [row[a] EXCEPT !.st = "busy", !.user = TRUE]
  OBVIOUS
<1>3. r \in Row /\ r.st = "busy" /\ r.port = row[a].port /\ r.user
  BY <1>1, <1>2 DEF Row, Reported
<1>4. row' = [row EXCEPT ![a] = r]
  BY <1>1, <1>2 DEF Allocate
<1>5. Exists(a)
  BY DEF Allocate, Free, Exists
<1> QED
  BY <1>1, <1>3, <1>4, <1>5 DEF PortsKept, Exists

LEMMA RowReleased ==
  ASSUME Types, NEW j \in Jobs, NEW freed, Finish(j, freed)
  PROVE  /\ row' \in [Agents -> Row] /\ PortsKept
         /\ \A a \in Agents : a \notin freed => row'[a] = row[a]
<1>1. row \in [Agents -> Row]
  BY DEF Types
<1>2. ASSUME NEW a \in Agents
      PROVE  /\ row'[a] \in Row /\ row'[a].port = row[a].port
             /\ row'[a].st \notin {"unborn", "gone"} => Exists(a)
             /\ a \notin freed => row'[a] = row[a]
  <2>1. CASE a \in freed /\ Exists(a)
    <3>1. row'[a] = [row[a] EXCEPT !.st = "idle", !.user = FALSE]
      BY <2>1 DEF Finish
    <3>2. row'[a] \in Row /\ row'[a].port = row[a].port
      BY <1>1, <3>1 DEF Row, Reported
    <3> QED
      BY <2>1, <3>2
  <2>2. CASE ~ (a \in freed /\ Exists(a))
    BY <1>1, <2>2 DEF Finish, Exists
  <2> QED
    BY <2>1, <2>2
<1>3. row' \in [Agents -> Row]
  <2>1. \E f : row' = [a \in Agents |-> f[a]]
    <3>1. row' = [a \in Agents |-> row'[a]]
      BY DEF Finish
    <3> QED
      BY <3>1
  <2> QED
    BY <1>2, <2>1
<1> QED
  BY <1>2, <1>3 DEF PortsKept

\* the steps that change no job
Quiet ==
  \/ \E n \in Sizes : SetPoolSize(n)
  \/ \E c \in Callers : Count(c)
  \/ Hello \/ Deleted \/ ListLost
  \/ \E a \in Agents :
       \/ GrowOld(a) \/ Promote(a) \/ DeleteStale(a)
       \/ DrainAgent(a) \/ DrainDelete(a) \/ NullTerminalJobs(a) \/ DrainMark(a) \/ AdminDelete(a)
       \/ HealthCheck(a) \/ Sample(a)
  \/ \E j \in Jobs : JobEnds(j) \/ Progress(j)
  \/ DeviceReads \/ Restart \/ Drop

LEMMA StepKinds ==
  ASSUME Next
  PROVE  \/ Quiet
         \/ \E c \in Callers : CreateNext(c)
         \/ \E j \in Jobs, a \in Agents : Allocate(j, a)
         \/ \E j \in Jobs : SetAgent(j)
         \/ \E j \in Jobs : ClearAgent(j)
         \/ \E j \in Jobs : FailLost(j) \/ Cancel(j)
         \/ GatewayReads
BY DEF Next, Quiet

LEMMA QuietWrites ==
  ASSUME Types, Quiet
  PROVE  Written /\ job' = job /\ loose' = loose
<1>a. ASSUME row' = row PROVE Written
  BY <1>a, NothingWritten
<1>1. ASSUME NEW a \in Agents, GrowOld(a) PROVE Written /\ job' = job /\ loose' = loose
  BY <1>1, RowGrowsOld DEF GrowOld
<1>2. ASSUME NEW a \in Agents, Promote(a) PROVE Written /\ job' = job /\ loose' = loose
  BY <1>2, StatusWritten DEF Promote, Reported
<1>3. ASSUME NEW a \in Agents, DrainMark(a) PROVE Written /\ job' = job /\ loose' = loose
  BY <1>3, StatusWritten DEF DrainMark, Reported
<1>4. ASSUME NEW a \in Agents, DeleteStale(a) \/ DrainDelete(a) \/ AdminDelete(a)
      PROVE  Written /\ job' = job /\ loose' = loose
  BY <1>4, RowDeleted DEF DeleteStale, DrainDelete, AdminDelete
<1>5. ASSUME \/ \E n \in Sizes : SetPoolSize(n)
             \/ \E c \in Callers : Count(c)
             \/ Hello \/ Deleted \/ ListLost
             \/ \E a \in Agents : DrainAgent(a) \/ NullTerminalJobs(a) \/ HealthCheck(a) \/ Sample(a)
             \/ \E j \in Jobs : JobEnds(j) \/ Progress(j)
             \/ DeviceReads \/ Restart \/ Drop
      PROVE  row' = row /\ job' = job /\ loose' = loose
  BY <1>5 DEF SetPoolSize, Count, Hello, Deleted, ListLost, DrainAgent, NullTerminalJobs, HealthCheck,
              Sample, JobEnds, Progress, DeviceReads, Restart, Drop
<1> QED
  BY <1>a, <1>1, <1>2, <1>3, <1>4, <1>5 DEF Quiet

\* the frames of the device and what they do
LEMMA FrameRead ==
  ASSUME Types, Sent, GatewayReads
  PROVE  \E f \in UpOf(Begun) :
         \/ f.type = "status" /\ UpdateStatus(f.agent, f.st) /\ job' = job /\ loose' = loose
                              /\ f.agent \in Agents /\ f.st \in Reported
         \/ f.type = "running" /\ OnJobRunning(f.job) /\ row' = row /\ f.job \in Begun
         \/ f.type = "result" /\ OnJobResult(f.job) /\ f.job \in Begun
<1>1. up \in Seq(UpOf(Begun)) /\ up # << >>
  BY DEF Sent, GatewayReads
<1>2. PICK f \in UpOf(Begun) : f = Head(up)
  BY <1>1, QueueOps
<1>3. \/ f.type = "status" /\ OnAgentStatus(f.agent, f.st) /\ job' = job /\ loose' = loose
      \/ f.type = "running" /\ OnJobRunning(f.job) /\ row' = row
      \/ f.type = "result" /\ OnJobResult(f.job)
  BY <1>2 DEF GatewayReads
<1>4. /\ f.type = "status" => f.agent \in Agents /\ f.st \in Reported
      /\ f.type \in {"running", "result"} => f.job \in Begun
  BY DEF UpOf
<1> QED
  BY <1>3, <1>4 DEF OnAgentStatus

LEMMA RowsHold ==
  ASSUME Inv, Next
  PROVE  row' \in [Agents -> Row] /\ IsFiniteSet(Existing)' /\ Ports'
<1>0. Types /\ Ports /\ Asked /\ Sent
  BY DEF Inv
<1>a. ASSUME row' \in [Agents -> Row], PortsKept
      PROVE  row' \in [Agents -> Row] /\ IsFiniteSet(Existing)' /\ Ports'
  BY <1>0, <1>a, PortsHold
<1>b. ASSUME row' = row
      PROVE  row' \in [Agents -> Row] /\ IsFiniteSet(Existing)' /\ Ports'
  BY <1>0, <1>a, <1>b, NothingWritten DEF Written
<1>1. CASE Quiet
  BY <1>0, <1>1, <1>a, QuietWrites DEF Written
<1>2. ASSUME NEW c \in Callers, CreateNext(c)
      PROVE  row' \in [Agents -> Row] /\ IsFiniteSet(Existing)' /\ Ports'
  <2>1. ASSUME NEW a \in Agents, Created(c, a)
        PROVE  row' \in [Agents -> Row] /\ IsFiniteSet(Existing)' /\ Ports'
    BY <1>0, <1>2, <2>1, RowCreated DEF CreateNext
  <2> QED
    BY <1>0, <1>2, <1>b, <2>1, CreateNextCreates
<1>3. ASSUME NEW j \in Jobs, NEW a \in Agents, Allocate(j, a)
      PROVE  row' \in [Agents -> Row] /\ IsFiniteSet(Existing)' /\ Ports'
  BY <1>0, <1>3, <1>a, RowAllocated
<1>4. ASSUME NEW j \in Jobs, SetAgent(j) \/ ClearAgent(j)
      PROVE  row' \in [Agents -> Row] /\ IsFiniteSet(Existing)' /\ Ports'
  BY <1>4, <1>b DEF SetAgent, ClearAgent
<1>5. ASSUME NEW j \in Jobs, NEW freed, Finish(j, freed)
      PROVE  row' \in [Agents -> Row] /\ IsFiniteSet(Existing)' /\ Ports'
  BY <1>0, <1>5, <1>a, RowReleased
<1>6. ASSUME NEW j \in Jobs, FailLost(j) \/ Cancel(j)
      PROVE  row' \in [Agents -> Row] /\ IsFiniteSet(Existing)' /\ Ports'
  BY <1>5, <1>6 DEF FailLost, Cancel
<1>7. CASE GatewayReads
  <2>1. PICK f \in UpOf(Begun) :
          \/ UpdateStatus(f.agent, f.st) /\ f.agent \in Agents /\ f.st \in Reported
          \/ row' = row
          \/ OnJobResult(f.job) /\ f.job \in Begun
    BY <1>0, <1>7, FrameRead
  <2>2. CASE UpdateStatus(f.agent, f.st) /\ f.agent \in Agents /\ f.st \in Reported
    BY <1>0, <1>a, <2>2, StatusWritten DEF Written
  <2>3. CASE OnJobResult(f.job) /\ f.job \in Begun
    BY <1>5, <2>3 DEF OnJobResult, Begun
  <2> QED
    BY <1>b, <2>1, <2>2, <2>3
<1> QED
  BY <1>1, <1>2, <1>3, <1>4, <1>6, <1>7, StepKinds

-----------------------------------------------------------------------------
(* Every step keeps the types of the rest                                  *)

LEMMA FramesHold ==
  ASSUME Types, Sent, Next
  PROVE  /\ down' \in Seq(DownOf(Begun)) /\ up' \in Seq(UpOf(Begun))
         /\ \A j \in Jobs : run'[j] # "no" => j \in Begun
<1> DEFINE D == DownOf(Begun)
           U == UpOf(Begun)
           Runs == \A j \in Jobs : run'[j] # "no" => j \in Begun
<1>0. /\ down \in Seq(D) /\ up \in Seq(U)
      /\ job \in [Jobs -> Job] /\ link \in BOOLEAN /\ dev \in [Agents -> DevStates]
      /\ run \in [Jobs -> RunStates] /\ (\A j \in Jobs : run[j] # "no" => j \in Begun)
      /\ Begun \subseteq Jobs /\ (run' = run => Runs)
  BY DEF Types, Sent, Begun
<1>d. \A a \in Agents : [type |-> "create", agent |-> a] \in D /\ [type |-> "drain", agent |-> a] \in D
  BY DEF DownOf
<1>j. \A j \in Begun : [type |-> "dispatch", job |-> j] \in D
  BY DEF DownOf
<1>s. \A a \in Agents, st \in Reported : Status(a, st) \in U
  BY DEF UpOf, Status
<1>r. \A j \in Begun : [type |-> "running", job |-> j] \in U /\ [type |-> "result", job |-> j] \in U
  BY DEF UpOf
<1>f. \A f \in D : /\ f.type \in {"create", "drain"} => f.agent \in Agents
                   /\ f.type = "dispatch" => f.job \in Begun
  BY DEF DownOf
<1> HIDE DEF D, U
<1>1. ASSUME NEW f \in D, Send(f) PROVE down' \in Seq(D)
  BY <1>0, <1>1, QueueOps DEF Send
<1>2. ASSUME NEW f \in U, up' = Append(up, f) PROVE up' \in Seq(U)
  BY <1>0, <1>2, QueueOps
<1>3. ASSUME NEW k \in 0 .. Len(down), LoseFrames(k) PROVE down' \in Seq(D)
  BY <1>0, <1>3, QueueEnd DEF LoseFrames
<1>4. ASSUME NEW c \in Callers, CreateNext(c) PROVE down' \in Seq(D) /\ up' \in Seq(U) /\ Runs
  <2>1. CASE PortTaken(call[c].i) \/ Unborn = {}
    BY <1>0, <1>4, <2>1 DEF CreateNext, device
  <2>2. CASE ~ (PortTaken(call[c].i) \/ Unborn = {})
    <3>1. Min(Unborn) \in Agents
      BY <2>2, FirstUnborn DEF Unborn
    <3>2. Send([type |-> "create", agent |-> Min(Unborn)]) /\ up' = up /\ run' = run
      BY <1>4, <2>2 DEF CreateNext, device
    <3> QED
      BY <1>0, <1>1, <1>d, <3>1, <3>2
  <2> QED
    BY <2>1, <2>2
<1>5. ASSUME NEW a \in Agents, DrainAgent(a) PROVE down' \in Seq(D) /\ up' \in Seq(U) /\ Runs
  <2>1. Send([type |-> "drain", agent |-> a]) /\ up' = up /\ run' = run
    BY <1>5 DEF DrainAgent, device
  <2> QED
    BY <1>0, <1>1, <1>d, <2>1
<1>6. ASSUME NEW j \in Jobs, SetAgent(j) PROVE down' \in Seq(D) /\ up' \in Seq(U) /\ Runs
  <2>1. Send([type |-> "dispatch", job |-> j]) /\ up' = up /\ run' = run /\ j \in Begun
    BY <1>6 DEF SetAgent, Begun, device
  <2> QED
    BY <1>0, <1>1, <1>j, <2>1
<1>7. ASSUME NEW j \in Jobs, JobEnds(j) PROVE down' \in Seq(D) /\ up' \in Seq(U) /\ Runs
  <2>1. down' = down /\ run' = [run EXCEPT ![j] = "ended"] /\ j \in Begun
    BY <1>0, <1>7 DEF JobEnds
  <2>2. Runs
    BY <1>0, <2>1
  <2>3. PICK r \in U : r = [type |-> "result", job |-> j]
    BY <1>r, <2>1
  <2>4. PICK st \in U : st = Status(job[j].agent, "idle")
    BY <1>s, <2>1 DEF Sent, Reported
  <2>5. up' = up \o <<r>> \o << >> \/ up' = up \o <<r>> \o <<st>>
    BY <1>7, <2>3, <2>4 DEF JobEnds
  <2>6. PICK q : q = up \o <<r>>
    OBVIOUS
  <2>7. q \in Seq(U)
    BY <1>0, <2>6, AppendIsConcat, QueueOps
  <2>8. q \o << >> \in Seq(U) /\ q \o <<st>> \in Seq(U)
    BY <2>7, ConcatEmptySeq, AppendIsConcat, QueueOps
  <2> QED
    BY <1>0, <2>1, <2>2, <2>5, <2>6, <2>8
<1>8. ASSUME DeviceReads PROVE down' \in Seq(D) /\ up' \in Seq(U) /\ Runs
  <2>1. down # << >> /\ down' = Tail(down)
    BY <1>8 DEF DeviceReads
  <2>2. PICK f \in D : f = Head(down) /\ down' \in Seq(D)
    BY <1>0, <2>1, QueueOps
  <2>3. CASE f.type \in {"create", "drain"}
    <3>1. /\ up' = Append(up, Status(f.agent, "idle")) \/ up' = Append(up, Status(f.agent, "drained"))
          /\ run' = run
      BY <1>8, <2>2, <2>3 DEF DeviceReads, Report
    <3> QED
      BY <1>0, <1>2, <1>f, <1>s, <2>2, <2>3, <3>1 DEF Reported
  <2>4. CASE f.type = "dispatch"
    <3>1. up' = Append(up, [type |-> "running", job |-> f.job]) /\ run' = [run EXCEPT ![f.job] = "runs"]
      BY <1>8, <2>2, <2>4 DEF DeviceReads
    <3> QED
      BY <1>0, <1>2, <1>f, <1>r, <2>2, <2>4, <3>1
  <2> QED
    BY <1>8, <2>2, <2>3, <2>4 DEF DeviceReads
<1>9. ASSUME NEW a \in Agents, Sample(a) PROVE down' \in Seq(D) /\ up' \in Seq(U) /\ Runs
  <2>1. down' = down /\ run' = run /\ up' = Append(up, Status(a, dev[a])) /\ dev[a] \in Reported
    BY <1>0, <1>9 DEF Sample, Report, Reported, DevStates, device
  <2> QED
    BY <1>0, <1>2, <1>s, <2>1
<1>10. ASSUME NEW j \in Jobs, Progress(j) PROVE down' \in Seq(D) /\ up' \in Seq(U) /\ Runs
  <2>1. /\ down' = down /\ run' = run /\ j \in Begun
        /\ up' = Append(up, [type |-> "running", job |-> j])
    BY <1>0, <1>10 DEF Progress, device
  <2> QED
    BY <1>0, <1>2, <1>r, <2>1
<1>11. ASSUME GatewayReads PROVE down' \in Seq(D) /\ up' \in Seq(U) /\ Runs
  <2>1. /\ up # << >> /\ run' = run
        /\ \/ up' = Tail(up) /\ down' = down
           \/ up' = up /\ \E k \in 0 .. Len(down) : LoseFrames(k)
    BY <1>11 DEF GatewayReads, device
  <2> QED
    BY <1>0, <1>3, <2>1, QueueOps
<1>12. ASSUME Restart PROVE down' \in Seq(D) /\ up' \in Seq(U) /\ Runs
  <2>1. /\ up' = up /\ \E k \in 0 .. Len(down) : LoseFrames(k)
        /\ run' = [j \in Jobs |-> IF run[j] = "runs" THEN "ended" ELSE run[j]]
    BY <1>12 DEF Restart
  <2> QED
    BY <1>0, <1>3, <2>1
<1>13. ASSUME Drop PROVE down' \in Seq(D) /\ up' \in Seq(U) /\ Runs
  <2>1. up' = up /\ run' = run /\ \E k \in 0 .. Len(down) : LoseFrames(k)
    BY <1>13 DEF Drop, device
  <2> QED
    BY <1>0, <1>3, <2>1
<1>14. ASSUME \/ \E n \in Sizes : SetPoolSize(n)
              \/ \E c \in Callers : Count(c)
              \/ Hello \/ Deleted \/ ListLost
              \/ \E a \in Agents :
                   \/ GrowOld(a) \/ Promote(a) \/ DeleteStale(a) \/ DrainDelete(a)
                   \/ NullTerminalJobs(a) \/ DrainMark(a) \/ AdminDelete(a) \/ HealthCheck(a)
              \/ \E a \in Agents, j \in Jobs : Allocate(j, a)
              \/ \E j \in Jobs : FailLost(j) \/ ClearAgent(j) \/ Cancel(j)
       PROVE  down' \in Seq(D) /\ up' \in Seq(U) /\ Runs
  <2>1. down' = down /\ up' = up /\ run' = run
    BY <1>14 DEF SetPoolSize, Count, Hello, Deleted, ListLost, GrowOld, Promote, DeleteStale,
                 DrainDelete, NullTerminalJobs, DrainMark, AdminDelete, HealthCheck, Allocate,
                 FailLost, ClearAgent, Cancel, frames, device
  <2> QED
    BY <1>0, <2>1
<1>15. down' \in Seq(D) /\ up' \in Seq(U) /\ Runs
  BY <1>4, <1>5, <1>6, <1>7, <1>8, <1>9, <1>10, <1>11, <1>12, <1>13, <1>14 DEF Next
<1> QED
  BY <1>15 DEF D, U

LEMMA DeviceHolds ==
  ASSUME Types, Next
  PROVE  /\ dev' \in [Agents -> DevStates] /\ run' \in [Jobs -> RunStates]
         /\ boot' \subseteq Agents /\ link' \in BOOLEAN
<1>0. /\ dev \in [Agents -> DevStates] /\ run \in [Jobs -> RunStates]
      /\ boot \subseteq Agents /\ link \in BOOLEAN
      /\ \A st \in {"none", "creating", "idle", "busy", "unhealthy", "failed"} : st \in DevStates
      /\ "runs" \in RunStates /\ "ended" \in RunStates
  BY DEF Types, DevStates, RunStates
<1>1. ASSUME NEW j \in Jobs, JobEnds(j)
      PROVE  dev' \in [Agents -> DevStates] /\ run' \in [Jobs -> RunStates] /\ boot' = boot /\ link' = link
  BY <1>0, <1>1 DEF JobEnds
<1>2. ASSUME DeviceReads
      PROVE  dev' \in [Agents -> DevStates] /\ run' \in [Jobs -> RunStates] /\ boot' = boot /\ link' = link
  BY <1>0, <1>2 DEF DeviceReads
<1>3. ASSUME NEW a \in Agents, HealthCheck(a)
      PROVE  dev' \in [Agents -> DevStates] /\ run' = run /\ boot' = boot /\ link' = link
  BY <1>0, <1>3 DEF HealthCheck
<1>4. ASSUME Restart
      PROVE  /\ dev' \in [Agents -> DevStates] /\ run' \in [Jobs -> RunStates]
             /\ boot' \subseteq Agents /\ link' \in BOOLEAN
  <2>1. PICK half, kept :
          dev' = [a \in Agents |-> IF a \in half THEN "creating" ELSE IF a \in kept THEN "idle"
                                   ELSE IF a \in {b \in Agents : dev[b] \in {"idle", "busy"}} THEN "none"
                                   ELSE dev[a]]
    BY <1>4 DEF Restart
  <2>2. dev' \in [Agents -> DevStates]
    BY <1>0, <2>1
  <2>3. run' = [j \in Jobs |-> IF run[j] = "runs" THEN "ended" ELSE run[j]] /\ boot' \subseteq Agents /\ link' = FALSE
    BY <1>4 DEF Restart
  <2> QED
    BY <1>0, <2>2, <2>3
<1>5. ASSUME \/ \E n \in Sizes : SetPoolSize(n)
             \/ \E c \in Callers : Count(c) \/ CreateNext(c)
             \/ Hello \/ Deleted \/ ListLost
             \/ \E a \in Agents :
                  \/ GrowOld(a) \/ Promote(a) \/ DeleteStale(a) \/ DrainAgent(a) \/ DrainDelete(a)
                  \/ NullTerminalJobs(a) \/ DrainMark(a) \/ AdminDelete(a) \/ Sample(a)
             \/ \E a \in Agents, j \in Jobs : Allocate(j, a)
             \/ \E j \in Jobs : FailLost(j) \/ ClearAgent(j) \/ SetAgent(j) \/ Cancel(j) \/ Progress(j)
             \/ Drop \/ GatewayReads
      PROVE  dev' = dev /\ run' = run /\ boot' = boot /\ link' \in BOOLEAN
  BY <1>0, <1>5 DEF SetPoolSize, Count, CreateNext, Hello, Deleted, ListLost, GrowOld, Promote,
               DeleteStale, DrainAgent, DrainDelete, NullTerminalJobs, DrainMark, AdminDelete, Sample,
               Allocate, FailLost, ClearAgent, SetAgent, Cancel, Progress, Drop, GatewayReads, device
<1> QED
  BY <1>0, <1>1, <1>2, <1>3, <1>4, <1>5 DEF Next

-----------------------------------------------------------------------------
(* Every step keeps a job's agent                                          *)

\* No job is new again, and one that is over stays so, unless the history has it.
Onward ==
  \A j \in Jobs : /\ job[j].st # "new" => job'[j].st # "new"
                  /\ (job[j].st = "over" \/ j \in loose) => (job'[j].st = "over" \/ j \in loose')

Served ==
  /\ job' \in [Jobs -> Job] /\ loose' \subseteq Jobs
  /\ \A j \in Jobs : job'[j].st # "new" => job'[j].agent \in Agents
  /\ Serving' /\ AgentServesOne' /\ Onward

\* a job after the step, in terms of what it was
LEMMA ServedByParts ==
  ASSUME Types, Serving, AgentServesOne,
         job' \in [Jobs -> Job], loose' \subseteq Jobs, loose \subseteq loose',
         \A i \in Jobs :
           /\ job'[i].st # "new" => job'[i].agent \in Agents
           /\ job[i].st # "new" => job'[i].st # "new"
           /\ job[i].st = "over" => job'[i].st = "over" \/ i \in loose',
         \A i \in Jobs \ loose' :
           /\ job'[i].st \in Held => row'[job'[i].agent].st # "unborn"
                                     /\ (row'[job'[i].agent].st \notin {"unborn", "gone"} => row'[job'[i].agent].user)
           /\ job'[i].st = "active" => job'[i].named /\ row'[job'[i].agent].st \notin {"unborn", "gone"},
         \A i, k \in Jobs \ loose' : i # k /\ {job'[i].st, job'[k].st} \subseteq Held
                                       => job'[i].agent # job'[k].agent
  PROVE  Served
<1>1. Serving'
  BY DEF Serving, Exists
<1>2. AgentServesOne'
  BY DEF AgentServesOne
<1>3. Onward
  BY DEF Onward
<1> QED
  BY <1>1, <1>2, <1>3 DEF Served

LEMMA ServingKept ==
  ASSUME Types, Sent, Serving, AgentServesOne, UsersKept, job' = job, loose' = loose
  PROVE  Served
<1>0. \A j \in Jobs : job[j].st # "new" => job[j].agent \in Agents
  BY DEF Sent, Begun
<1>1. ASSUME NEW j \in Jobs \ loose, job[j].st \in Held
      PROVE  /\ row'[job[j].agent].st # "unborn"
             /\ Exists(job[j].agent)' => row'[job[j].agent].user
             /\ job[j].st = "active" => Exists(job[j].agent)'
  <2>1. PICK a \in Agents : a = job[j].agent
    BY <1>0, <1>1 DEF Held
  <2>2. row[a].st # "unborn" /\ (Exists(a) => row[a].user)
    BY <1>1, <2>1 DEF Serving
  <2>3. /\ row'[a].user = row[a].user
        /\ row'[a].st # "unborn"
        /\ row[a].st = "gone" => row'[a].st = "gone"
        /\ row'[a].st \in {"unborn", "gone"} /\ Exists(a) => ~Referenced(a)
    BY <2>2 DEF UsersKept
  <2>4. row'[a].st \notin {"unborn", "gone"} => Exists(a)
    BY <2>2, <2>3 DEF Exists
  <2>5. job[j].st = "active" => Exists(a) /\ Referenced(a)
    BY <2>1 DEF Serving, Referenced
  <2>6. job[j].st = "active" => row'[a].st \notin {"unborn", "gone"}
    BY <2>3, <2>5
  <2> QED
    BY <2>1, <2>2, <2>3, <2>4, <2>6 DEF Exists
<1>2. Serving'
  BY <1>1 DEF Serving, Held
<1>3. AgentServesOne' /\ Onward
  BY DEF AgentServesOne, Onward
<1> QED
  BY <1>0, <1>2, <1>3 DEF Types, Served

\* the job that a step changes, with its row
LEMMA JobWritten ==
  ASSUME Types, NEW j \in Jobs, NEW r \in Job, job' = [job EXCEPT ![j] = r]
  PROVE  /\ job' \in [Jobs -> Job] /\ job'[j] = r
         /\ \A i \in Jobs \ {j} : job'[i] = job[i]
BY DEF Types

LEMMA ServingSetAgent ==
  ASSUME Types, Sent, Serving, AgentServesOne, NEW j \in Jobs, SetAgent(j)
  PROVE  Served
<1>0. row' = row /\ loose' = loose /\ loose \subseteq Jobs /\ job[j].st = "held" /\ job \in [Jobs -> Job]
      /\ \A i \in Jobs : job[i].st # "new" => job[i].agent \in Agents
  BY DEF SetAgent, Types, Sent, Begun
<1>1. PICK e : e = Exists(job[j].agent) /\ e \in BOOLEAN
  BY DEF Exists
<1>2. PICK r : r = [job[j] EXCEPT !.st = IF e THEN "active" ELSE "unlinked", !.named = e]
  OBVIOUS
<1>3. /\ r \in Job /\ r.agent = job[j].agent /\ r.named = e
      /\ r.st = IF e THEN "active" ELSE "unlinked"
  BY <1>0, <1>1, <1>2 DEF Job
<1>4. job' = [job EXCEPT ![j] = r]
  BY <1>0, <1>1, <1>2 DEF SetAgent
<1>5. /\ job' \in [Jobs -> Job] /\ job'[j] = r
      /\ \A i \in Jobs \ {j} : job'[i] = job[i]
  BY <1>3, <1>4, JobWritten
<1>6. ASSUME NEW i \in Jobs
      PROVE  /\ job'[i].agent = job[i].agent
             /\ job'[i].st \in Held => job[i].st \in Held
             /\ job[i].st # "new" => job'[i].st # "new"
             /\ job'[i].st # "new" => job[i].st # "new"
             /\ job[i].st = "over" => job'[i].st = "over"
             /\ job'[i].st = "active" => (i = j /\ e) \/ (i # j /\ job'[i] = job[i])
  BY <1>0, <1>3, <1>5 DEF Held
<1>7. ASSUME NEW i \in Jobs \ loose
      PROVE  /\ job'[i].st \in Held => row'[job'[i].agent].st # "unborn"
                                       /\ (row'[job'[i].agent].st \notin {"unborn", "gone"} => row'[job'[i].agent].user)
             /\ job'[i].st = "active" => job'[i].named /\ row'[job'[i].agent].st \notin {"unborn", "gone"}
  <2>1. CASE i = j
    <3>1. job[j].st \in Held /\ row[job[j].agent].st # "unborn" /\ (e => row[job[j].agent].user)
      BY <1>0, <1>1, <1>7, <2>1 DEF Serving, Held
    <3>2. job'[i] = r /\ row'[r.agent] = row[job[j].agent]
      BY <1>0, <1>3, <1>5, <2>1
    <3>3. e <=> row[job[j].agent].st \notin {"unborn", "gone"}
      BY <1>1 DEF Exists
    <3> QED
      BY <1>3, <3>1, <3>2, <3>3
  <2>2. CASE i # j
    BY <1>0, <1>5, <1>7, <2>2 DEF Serving, Exists
  <2> QED
    BY <2>1, <2>2
<1>8. \A i, k \in Jobs \ loose : i # k /\ {job'[i].st, job'[k].st} \subseteq Held
                                  => job'[i].agent # job'[k].agent
  BY <1>6 DEF AgentServesOne
<1> QED
  BY <1>0, <1>5, <1>6, <1>7, <1>8, ServedByParts

LEMMA ServingCleared ==
  ASSUME Types, Sent, Cleared, Serving, AgentServesOne, NEW j \in Jobs, ClearAgent(j)
  PROVE  Served
<1>0. /\ row' = row /\ loose' = loose /\ loose \subseteq Jobs /\ job \in [Jobs -> Job]
      /\ job[j].st = "over" \/ j \in loose
      /\ \A i \in Jobs : job[i].st # "new" => job[i].agent \in Agents
  BY DEF ClearAgent, Types, Cleared, Sent, Begun
<1>1. PICK r : r = [job[j] EXCEPT !.named = FALSE]
  OBVIOUS
<1>2. r \in Job /\ r.agent = job[j].agent /\ r.st = job[j].st
  BY <1>0, <1>1 DEF Job
<1>3. job' = [job EXCEPT ![j] = r]
  BY <1>0, <1>1 DEF ClearAgent
<1>4. /\ job' \in [Jobs -> Job] /\ job'[j] = r
      /\ \A i \in Jobs \ {j} : job'[i] = job[i]
  BY <1>2, <1>3, JobWritten
<1>5. \A i \in Jobs : job'[i].st = job[i].st /\ job'[i].agent = job[i].agent
  BY <1>2, <1>4
<1>6. ASSUME NEW i \in Jobs \ loose
      PROVE  /\ job'[i].st \in Held => row'[job'[i].agent].st # "unborn"
                                       /\ (row'[job'[i].agent].st \notin {"unborn", "gone"} => row'[job'[i].agent].user)
             /\ job'[i].st = "active" => job'[i].named /\ row'[job'[i].agent].st \notin {"unborn", "gone"}
  BY <1>0, <1>4, <1>5 DEF Serving, Exists, Held
<1>7. \A i, k \in Jobs \ loose : i # k /\ {job'[i].st, job'[k].st} \subseteq Held
                                  => job'[i].agent # job'[k].agent
  BY <1>5 DEF AgentServesOne
<1> QED
  BY <1>0, <1>4, <1>5, <1>6, <1>7, ServedByParts

LEMMA ServingAllocated ==
  ASSUME Types, Sent, Serving, AgentServesOne, NEW j \in Jobs, NEW a \in Agents, Allocate(j, a)
  PROVE  Served
<1>0. /\ job \in [Jobs -> Job] /\ job[j].st = "new"
      /\ row[a].st = "idle" /\ ~row[a].user
      /\ loose' = loose /\ loose \subseteq Jobs
      /\ \A i \in Jobs : job[i].st # "new" => job[i].agent \in Agents
  BY DEF Allocate, Types, Free, Sent, Begun
<1>1. /\ row'[a].st = "busy" /\ row'[a].user
      /\ \A b \in Agents \ {a} : row'[b] = row[b]
  BY RowAllocated
<1>2. PICK r : r = [job[j] EXCEPT !.st = "held", !.agent = a]
  OBVIOUS
<1>3. r \in Job /\ r.st = "held" /\ r.agent = a
  BY <1>0, <1>2 DEF Job
<1>4. job' = [job EXCEPT ![j] = r]
  BY <1>0, <1>2 DEF Allocate
<1>5. /\ job' \in [Jobs -> Job] /\ job'[j] = r
      /\ \A i \in Jobs \ {j} : job'[i] = job[i]
  BY <1>3, <1>4, JobWritten
<1>6. \A i \in Jobs \ loose : job[i].st \in Held => job[i].agent # a
  BY <1>0 DEF Serving, Exists
<1>7. ASSUME NEW i \in Jobs \ loose
      PROVE  /\ job'[i].st \in Held => row'[job'[i].agent].st # "unborn"
                                       /\ (row'[job'[i].agent].st \notin {"unborn", "gone"} => row'[job'[i].agent].user)
             /\ job'[i].st = "active" => job'[i].named /\ row'[job'[i].agent].st \notin {"unborn", "gone"}
  <2>1. CASE i = j
    BY <1>1, <1>3, <1>5, <2>1
  <2>2. CASE i # j
    <3>1. /\ job'[i] = job[i]
          /\ job[i].st \in Held => row'[job[i].agent] = row[job[i].agent]
          /\ job[i].st = "active" => job[i].st \in Held
      BY <1>0, <1>1, <1>5, <1>6, <2>2 DEF Held
    <3> QED
      BY <3>1 DEF Serving, Exists
  <2> QED
    BY <2>1, <2>2
<1>8. ASSUME NEW i \in Jobs \ loose, NEW k \in Jobs \ loose, i # k, {job'[i].st, job'[k].st} \subseteq Held
      PROVE  job'[i].agent # job'[k].agent
  <2>1. CASE i = j
    BY <1>3, <1>5, <1>6, <1>8, <2>1
  <2>2. CASE k = j
    BY <1>3, <1>5, <1>6, <1>8, <2>2
  <2>3. CASE i # j /\ k # j
    BY <1>5, <1>8, <2>3 DEF AgentServesOne
  <2> QED
    BY <2>1, <2>2, <2>3
<1>9. \A i \in Jobs : /\ job'[i].st # "new" => job'[i].agent \in Agents
                      /\ job[i].st # "new" => job'[i].st # "new"
                      /\ job[i].st = "over" => job'[i].st = "over"
  BY <1>0, <1>3, <1>5
<1> QED
  BY <1>0, <1>5, <1>7, <1>8, <1>9, ServedByParts

\* Release, on behalf of any job: whom it hits is in the history
LEMMA ServingReleased ==
  ASSUME Types, Sent, Serving, AgentServesOne, NEW j \in Begun, NEW freed, Finish(j, freed)
  PROVE  Served
<1>0. /\ job \in [Jobs -> Job] /\ loose \subseteq Jobs /\ j \in Jobs
      /\ \A i \in Jobs : job[i].st # "new" => job[i].agent \in Agents
      /\ job[j].agent \in Agents
      /\ loose' = loose \cup {i \in Jobs \ {j} : job[i].st \in Held /\ job[i].agent \in freed}
  BY DEF Types, Sent, Begun, Finish
<1>1. PICK r : r = [job[j] EXCEPT !.st = "over"]
  OBVIOUS
<1>2. r \in Job /\ r.st = "over" /\ r.agent = job[j].agent
  BY <1>0, <1>1 DEF Job
<1>3. job' = [job EXCEPT ![j] = r]
  BY <1>0, <1>1 DEF Finish
<1>4. /\ job' \in [Jobs -> Job] /\ job'[j] = r
      /\ \A i \in Jobs \ {j} : job'[i] = job[i]
  BY <1>0, <1>2, <1>3, JobWritten
<1>5. \A i \in Jobs \ loose' : job'[i].st \in Held =>
        i # j /\ job'[i] = job[i] /\ i \notin loose /\ row'[job[i].agent] = row[job[i].agent]
  <2>1. ASSUME NEW i \in Jobs \ loose', job'[i].st \in Held
        PROVE  i # j /\ job'[i] = job[i] /\ i \notin loose /\ job[i].agent \in Agents /\ job[i].agent \notin freed
    BY <1>0, <1>2, <1>4, <2>1 DEF Held
  <2> QED
    BY <1>0, <2>1, RowReleased
<1>6. ASSUME NEW i \in Jobs \ loose'
      PROVE  /\ job'[i].st \in Held => row'[job'[i].agent].st # "unborn"
                                       /\ (row'[job'[i].agent].st \notin {"unborn", "gone"} => row'[job'[i].agent].user)
             /\ job'[i].st = "active" => job'[i].named /\ row'[job'[i].agent].st \notin {"unborn", "gone"}
  BY <1>5 DEF Serving, Exists, Held
<1>7. \A i, k \in Jobs \ loose' : i # k /\ {job'[i].st, job'[k].st} \subseteq Held
                                   => job'[i].agent # job'[k].agent
  BY <1>5 DEF AgentServesOne
<1>8. \A i \in Jobs : /\ job'[i].st # "new" => job'[i].agent \in Agents
                      /\ job[i].st # "new" => job'[i].st # "new"
                      /\ job[i].st = "over" => job'[i].st = "over"
  BY <1>0, <1>2, <1>4
<1>9. loose' \subseteq Jobs /\ loose \subseteq loose'
  BY <1>0
<1> QED
  BY <1>4, <1>6, <1>7, <1>8, <1>9, ServedByParts

LEMMA ServingRevived ==
  ASSUME Types, Sent, Serving, AgentServesOne, NEW j \in Begun, OnJobRunning(j), row' = row
  PROVE  Served
<1>0. /\ job \in [Jobs -> Job] /\ loose \subseteq Jobs /\ j \in Jobs
      /\ \A i \in Jobs : job[i].st # "new" => job[i].agent \in Agents
  BY DEF Types, Sent, Begun
<1>1. CASE job[j].st # "over"
  <2>1. job' = job /\ loose' = loose
    BY <1>1 DEF OnJobRunning
  <2>2. UsersKept
    BY NothingWritten DEF Written
  <2> QED
    BY <2>1, <2>2, ServingKept
<1>2. CASE job[j].st = "over"
  <2>1. PICK r : r = [job[j] EXCEPT !.st = "active"]
    OBVIOUS
  <2>2. r \in Job /\ r.st = "active" /\ r.agent = job[j].agent
    BY <1>0, <2>1 DEF Job
  <2>3. job' = [job EXCEPT ![j] = r] /\ loose' = loose \cup {j}
    BY <1>0, <1>2, <2>1 DEF OnJobRunning
  <2>4. /\ job' \in [Jobs -> Job] /\ job'[j] = r
        /\ \A i \in Jobs \ {j} : job'[i] = job[i]
    BY <1>0, <2>2, <2>3, JobWritten
  <2>5. \A i \in Jobs \ loose' : i # j /\ i \notin loose /\ job'[i] = job[i]
    BY <2>3, <2>4
  <2>6. ASSUME NEW i \in Jobs \ loose'
        PROVE  /\ job'[i].st \in Held => row'[job'[i].agent].st # "unborn"
                                         /\ (row'[job'[i].agent].st \notin {"unborn", "gone"} => row'[job'[i].agent].user)
               /\ job'[i].st = "active" => job'[i].named /\ row'[job'[i].agent].st \notin {"unborn", "gone"}
    BY <2>5 DEF Serving, Exists
  <2>7. \A i, k \in Jobs \ loose' : i # k /\ {job'[i].st, job'[k].st} \subseteq Held
                                     => job'[i].agent # job'[k].agent
    BY <2>5 DEF AgentServesOne
  <2>8. \A i \in Jobs : /\ job'[i].st # "new" => job'[i].agent \in Agents
                        /\ job[i].st # "new" => job'[i].st # "new"
                        /\ job[i].st = "over" => job'[i].st = "over" \/ i \in loose'
    BY <1>0, <1>2, <2>2, <2>3, <2>4
  <2>9. loose' \subseteq Jobs /\ loose \subseteq loose'
    BY <1>0, <2>3
  <2> QED
    BY <2>4, <2>6, <2>7, <2>8, <2>9, ServedByParts
<1> QED
  BY <1>1, <1>2

LEMMA ServiceHolds ==
  ASSUME Inv, Next
  PROVE  Served
<1>0. Types /\ Ports /\ Asked /\ Sent /\ Cleared /\ Serving /\ AgentServesOne
  BY DEF Inv
<1>1. CASE Quiet
  BY <1>0, <1>1, QuietWrites, ServingKept DEF Written
<1>2. ASSUME NEW c \in Callers, CreateNext(c) PROVE Served
  <2>1. UsersKept
    BY <1>0, <1>2, CreateNextCreates, RowCreated, NothingWritten DEF CreateNext, Written
  <2>2. job' = job /\ loose' = loose
    BY <1>2 DEF CreateNext
  <2> QED
    BY <1>0, <2>1, <2>2, ServingKept
<1>3. ASSUME NEW j \in Jobs, NEW a \in Agents, Allocate(j, a) PROVE Served
  BY <1>0, <1>3, ServingAllocated
<1>4. ASSUME NEW j \in Jobs, SetAgent(j) PROVE Served
  BY <1>0, <1>4, ServingSetAgent
<1>5. ASSUME NEW j \in Jobs, ClearAgent(j) PROVE Served
  BY <1>0, <1>5, ServingCleared
<1>6. ASSUME NEW j \in Jobs, FailLost(j) \/ Cancel(j) PROVE Served
  <2>1. j \in Begun
    BY <1>0, <1>6 DEF FailLost, Cancel, Sent, Begun, Callers
  <2>2. Finish(j, {job[j].agent}) \/ Finish(j, AgentOf(j))
    BY <1>6 DEF FailLost, Cancel
  <2> QED
    BY <1>0, <2>1, <2>2, ServingReleased
<1>7. CASE GatewayReads
  <2>1. PICK f \in UpOf(Begun) :
          \/ f.type = "status" /\ UpdateStatus(f.agent, f.st) /\ job' = job /\ loose' = loose
                               /\ f.agent \in Agents /\ f.st \in Reported
          \/ f.type = "running" /\ OnJobRunning(f.job) /\ row' = row /\ f.job \in Begun
          \/ f.type = "result" /\ OnJobResult(f.job) /\ f.job \in Begun
    BY <1>0, <1>7, FrameRead
  <2>2. CASE f.type = "status"
    BY <1>0, <2>1, <2>2, StatusWritten, ServingKept DEF Written
  <2>3. CASE f.type = "running"
    BY <1>0, <2>1, <2>3, ServingRevived
  <2>4. CASE f.type = "result"
    BY <1>0, <2>1, <2>4, ServingReleased DEF OnJobResult
  <2> QED
    BY <2>1, <2>2, <2>3, <2>4
<1> QED
  BY <1>1, <1>2, <1>3, <1>4, <1>5, <1>6, <1>7, StepKinds

\* the frames and the lists, by the jobs that have begun by then
LEMMA SentHolds ==
  ASSUME Inv, Next
  PROVE  Sent' /\ Cleared'
<1>0. Types /\ Sent /\ Cleared /\ Served
  BY ServiceHolds DEF Inv
<1>1. Begun \subseteq Begun'
  BY <1>0 DEF Served, Onward, Begun
<1>2. down' \in Seq(DownOf(Begun')) /\ up' \in Seq(UpOf(Begun'))
  <2>1. DownOf(Begun) \subseteq DownOf(Begun') /\ UpOf(Begun) \subseteq UpOf(Begun')
    BY <1>1 DEF DownOf, UpOf
  <2> QED
    BY <1>0, <2>1, FramesHold, WiderQueue
<1>3. \A j \in Jobs : run'[j] # "no" => j \in Begun'
  BY <1>0, <1>1, FramesHold
<1>4. \A j \in Begun' : job'[j].agent \in Agents
  BY <1>0 DEF Served, Begun
<1>5. \A c \in Callers : call'[c].jobs \subseteq Begun'
  <2>1. ASSUME NEW c \in Callers, NEW j \in call'[c].jobs
        PROVE  j \in Begun
    <3>1. j \in call[c].jobs \/ (j \in Jobs /\ job[j].st \in {"active", "over"})
      BY <1>0, ListsGrow
    <3> QED
      BY <1>0, <3>1 DEF Sent, Begun
  <2> QED
    BY <1>1, <2>1
<1>6. Cleared'
  <2>1. ASSUME NEW j \in call'["drain"].jobs
        PROVE  job'[j].st = "over" \/ j \in loose'
    <3>1. j \in call["drain"].jobs \/ (j \in Jobs /\ job[j].st = "over")
      BY <1>0, ListsGrow DEF Callers
    <3>2. j \in Jobs /\ (job[j].st = "over" \/ j \in loose)
      BY <1>0, <3>1 DEF Cleared, Sent, Begun, Callers
    <3> QED
      BY <1>0, <3>2 DEF Served, Onward
  <2> QED
    BY <2>1 DEF Cleared
<1>7. DownOf(Begun)' = DownOf(Begun') /\ UpOf(Begun)' = UpOf(Begun')
  BY DEF DownOf, UpOf
<1> QED
  BY <1>2, <1>3, <1>4, <1>5, <1>6, <1>7 DEF Sent

-----------------------------------------------------------------------------
(* Theorems                                                                *)

LEMMA NextInv == Inv /\ [Next]_vars => Inv'
<1> SUFFICES ASSUME Inv, [Next]_vars PROVE Inv'
  OBVIOUS
<1>0. Types /\ Ports /\ Asked
  BY DEF Inv
<1>1. CASE Next
  <2>0. Served
    BY <1>1, ServiceHolds
  <2>1. Types'
    BY <1>0, <1>1, <2>0, RowsHold, CallsHold, DeviceHolds DEF Types, Served
  <2>2. Ports' /\ Asked' /\ Sent' /\ Cleared' /\ Serving' /\ AgentServesOne'
    BY <1>0, <1>1, <2>0, RowsHold, CallsHold, SentHolds DEF Served
  <2> QED
    BY <2>1, <2>2 DEF Inv
<1>2. CASE UNCHANGED vars
  BY <1>2 DEF Inv, vars, frames, device, Types, Existing, Exists, Ports, Asked, Sent, Begun, DownOf, UpOf,
              Cleared, Serving, AgentServesOne
<1> QED
  BY <1>1, <1>2

\* The pool of a device stays within the largest size asked for, and its rows
\* are well formed, although EnsurePoolSize counts and creates in statements of
\* its own for an admin and a HELLO at once: the ports are indexes below that
\* size, and UNIQUE (device_id, port) keeps two rows from sharing one.
THEOREM PoolHolds == Spec => []PoolSound
<1>1. Inv => PoolSound
  <2> SUFFICES ASSUME Inv PROVE PoolSound
    OBVIOUS
  <2>1. Types /\ Ports /\ Sent
    BY DEF Inv
  <2>2. TypeOK
    <3>1. /\ \A i \in DOMAIN down : down[i] \in DownOf(Begun)
          /\ \A i \in DOMAIN up : up[i] \in UpOf(Begun)
      BY <2>1, QueueOps DEF Sent
    <3>2. DownOf(Begun) \subseteq Down /\ UpOf(Begun) \subseteq Up
      BY DEF DownOf, UpOf, Down, Up, Begun
    <3> QED
      BY <2>1, <3>1, <3>2 DEF Types, TypeOK, DevStates, RunStates
  <2>3. PoolBounded
    BY <2>1, RowsWithinSize DEF PoolBounded
  <2> QED
    BY <2>2, <2>3 DEF PoolSound
<1> QED
  BY InitInv, NextInv, <1>1, PTL DEF Spec

\* No agent serves two jobs, and none is removed under the job that names it,
\* whatever AGENT_STATUS says of it and whoever drains, deletes or reconciles,
\* unless the gateway released the agent for another job or made the job run again.
THEOREM AgentsServe == Spec => []JobKeepsAgent
<1>1. Inv => JobKeepsAgent
  <2> SUFFICES ASSUME Inv PROVE JobKeepsAgent
    OBVIOUS
  <2>1. Serving /\ AgentServesOne
    BY DEF Inv
  <2>2. ActiveJobKeepsAgent
    BY <2>1 DEF Serving, ActiveJobKeepsAgent
  <2> QED
    BY <2>1, <2>2 DEF JobKeepsAgent
<1> QED
  BY InitInv, NextInv, <1>1, PTL DEF Spec
=============================================================================
