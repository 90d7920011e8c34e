----------------------------- MODULE TunnelProofs -----------------------------
(* Machine-checked facts about Tunnel, for any number of connections and   *)
(* frames, every queue capacity and every number of retries.               *)
EXTENDS Tunnel, SequenceTheorems, FiniteSetTheorems, TLAPS

USE TunnelConstantsOK DEF TunnelConstantsOK

-----------------------------------------------------------------------------
(* Queues                                                                  *)

LEMMA QueueIsSeq ==
  ASSUME NEW q \in Queue
  PROVE  q \in Seq(Frames) /\ Len(q) \in Nat /\ Len(q) <= QueueCap
<1>1. PICK n \in 0 .. QueueCap : q \in [1 .. n -> Frames]
  BY DEF Queue
<1>2. q \in Seq(Frames) /\ Len(q) = n
  BY <1>1
<1> QED
  BY <1>2

LEMMA SeqIsQueue ==
  ASSUME NEW q \in Seq(Frames), Len(q) <= QueueCap
  PROVE  q \in Queue
<1>1. Len(q) \in 0 .. QueueCap /\ q \in [1 .. Len(q) -> Frames]
  BY LenProperties
<1> QED
  BY <1>1 DEF Queue

LEMMA QueueOps ==
  /\ <<>> \in Queue
  /\ \A q \in Queue, m \in Frames : Offer(q, m) \in Queue
  /\ \A q \in Queue : q # <<>> => Head(q) \in Frames /\ Tail(q) \in Queue
  /\ \A q \in Seq(Frames) : Fit(q) \in Queue
<1>1. <<>> \in Queue
  <2>1. <<>> \in Seq(Frames) /\ Len(<<>>) <= QueueCap
    OBVIOUS
  <2> QED
    BY <2>1, SeqIsQueue
<1>2. \A q \in Queue, m \in Frames : Offer(q, m) \in Queue
  <2> SUFFICES ASSUME NEW q \in Queue, NEW m \in Frames
               PROVE  Offer(q, m) \in Queue
    OBVIOUS
  <2>1. q \in Seq(Frames) /\ Len(q) \in Nat /\ Len(q) <= QueueCap
    BY QueueIsSeq
  <2>2. Append(q, m) \in Seq(Frames) /\ Len(Append(q, m)) = Len(q) + 1
    BY <2>1
  <2>3. CASE Len(q) < QueueCap
    <3>1. Len(Append(q, m)) <= QueueCap
      BY <2>1, <2>2, <2>3
    <3> QED
      BY <2>2, <2>3, <3>1, SeqIsQueue DEF Offer
  <2>4. CASE ~(Len(q) < QueueCap)
    BY <2>4 DEF Offer
  <2> QED
    BY <2>3, <2>4
<1>3. \A q \in Queue : q # <<>> => Head(q) \in Frames /\ Tail(q) \in Queue
  <2> SUFFICES ASSUME NEW q \in Queue, q # <<>>
               PROVE  Head(q) \in Frames /\ Tail(q) \in Queue
    OBVIOUS
  <2>1. q \in Seq(Frames) /\ Len(q) \in Nat /\ Len(q) <= QueueCap
    BY QueueIsSeq
  <2>2. Head(q) \in Frames /\ Tail(q) \in Seq(Frames) /\ Len(Tail(q)) = Len(q) - 1
    BY <2>1, HeadTailProperties
  <2>3. Len(Tail(q)) <= QueueCap
    BY <2>1, <2>2
  <2> QED
    BY <2>2, <2>3, SeqIsQueue
<1>4. \A q \in Seq(Frames) : Fit(q) \in Queue
  <2> SUFFICES ASSUME NEW q \in Seq(Frames)
               PROVE  Fit(q) \in Queue
    OBVIOUS
  <2> DEFINE n == IF Len(q) < QueueCap THEN Len(q) ELSE QueueCap
  <2>1. Len(q) \in Nat /\ n \in 0 .. Len(q) /\ n <= QueueCap
    BY LenProperties
  <2>2. \A i \in 1 .. n : q[i] \in Frames
    BY <2>1, ElementOfSeq
  <2> HIDE DEF n
  <2>3. SubSeq(q, 1, n) \in Seq(Frames) /\ Len(SubSeq(q, 1, n)) <= QueueCap
    BY <2>1, <2>2, SubSeqProperties
  <2> QED
    BY <2>3, SeqIsQueue DEF Fit, n
<1> QED
  BY <1>1, <1>2, <1>3, <1>4

LEMMA OrdersType ==
  ASSUME NEW ms \in SUBSET Frames, NEW s \in Orders(ms)
  PROVE  s \in Seq(Frames)
<1>1. IsFiniteSet(ms)
  BY FS_Subset
<1>2. Cardinality(ms) \in Nat
  BY <1>1, FS_CardinalityType
<1>3. s \in [1 .. Cardinality(ms) -> Frames]
  BY DEF Orders
<1> QED
  BY <1>2, <1>3

-----------------------------------------------------------------------------
(* Types                                                                   *)

LEMMA InitType == Init => TypeOK
<1> SUFFICES ASSUME Init
             PROVE  TypeOK
  OBVIOUS
<1>1. Untracked \in Untracked .. MaxRetries
  BY DEF Untracked
<1>2. Fresh \in Conn
  BY <1>1, QueueOps DEF Fresh, Conn, Registering, Closing
<1>3. wire \in [Conns -> Seq(Frames)]
  BY DEF Init
<1> QED
  BY <1>2, <1>3 DEF Init, TypeOK, SendCall

HistoryType == [acked : SUBSET Frames, stranded : SUBSET Frames,
                overlap : BOOLEAN, late : BOOLEAN]

LEMMA StrandType ==
  ASSUME history \in HistoryType, NEW ms \in SUBSET Frames, Strand(ms)
  PROVE  history' \in HistoryType
  BY DEF Strand, HistoryType

LEMMA PendingType ==
  ASSUME NEW c
  PROVE  Pending(c) \in SUBSET Frames
  BY DEF Pending

\* what the step of an action on a single connection may look like
LEMMA Typed ==
  ASSUME TypeOK
  PROVE  /\ conn \in [Conns -> Conn]
         /\ history \in HistoryType
         /\ wire \in [Conns -> Seq(Frames)]
         /\ slot \in Conns \cup {NoConn}
         /\ \A c \in Conns :
              /\ conn[c] \in Conn
              /\ conn[c].out \in Queue
              /\ conn[c].acks \in [Frames -> Untracked .. MaxRetries]
              /\ conn[c].old \in Conns \cup {NoConn}
  BY DEF TypeOK, HistoryType, Conn

\* a step that assigns the place of one connection in Register or in Close
LEMMA Assigned ==
  ASSUME TypeOK, NEW c \in Conns
  PROVE  /\ \A r \in Registering : [conn EXCEPT ![c].reg = r] \in [Conns -> Conn]
         /\ \A k \in Closing : [conn EXCEPT ![c].close = k] \in [Conns -> Conn]
<1>1. conn \in [Conns -> Conn]
  BY Typed
<1>2. ASSUME NEW r \in Registering, NEW k \in Closing
      PROVE  [conn[c] EXCEPT !.reg = r] \in Conn /\ [conn[c] EXCEPT !.close = k] \in Conn
  BY <1>1 DEF Conn
<1> HIDE DEF Conn
<1>3. ASSUME NEW r \in Registering PROVE [conn EXCEPT ![c].reg = r] \in [Conns -> Conn]
  BY <1>1, <1>2 DEF Closing
<1>4. ASSUME NEW k \in Closing PROVE [conn EXCEPT ![c].close = k] \in [Conns -> Conn]
  BY <1>1, <1>2 DEF Registering
<1> QED
  BY <1>3, <1>4

\* a step that does both, to a connection and to the one it supersedes
LEMMA Superseding ==
  ASSUME TypeOK, NEW e \in Conns,
         conn' = [conn EXCEPT ![e].reg = "closing", ![conn[e].old].close = "unmap"]
  PROVE  /\ conn'[e].reg \in {"closing", "registry"}
         /\ \A d \in Conns \ {e} : conn'[d].reg = conn[d].reg
         /\ \A d \in Conns : conn'[d].old = conn[d].old /\ conn'[d].acks = conn[d].acks
         /\ \A d \in Conns : conn'[d].close = "open" => conn[d].close = "open" /\ d # conn[e].old
<1>1. PICK k : k = [conn EXCEPT ![e].reg = "closing"]
  OBVIOUS
<1>2. conn' = [k EXCEPT ![conn[e].old].close = "unmap"]
  BY <1>1
<1>3. ASSUME NEW d \in Conns
      PROVE  /\ k[d].old = conn[d].old /\ k[d].acks = conn[d].acks /\ k[d].close = conn[d].close
             /\ d # e => k[d].reg = conn[d].reg
             /\ d = e => k[d].reg = "closing"
  BY <1>1, Typed DEF Conn
<1>4. k \in [Conns -> Conn]
  BY <1>1, Assigned DEF Registering
<1>5. ASSUME NEW d \in Conns
      PROVE  /\ conn'[d].old = k[d].old /\ conn'[d].acks = k[d].acks /\ conn'[d].reg = k[d].reg
             /\ conn'[d].close = "open" => k[d].close = "open" /\ d # conn[e].old
  <2>1. CASE d = conn[e].old
    <3>1. PICK r \in Conn : r = k[d]
      BY <1>4
    <3>2. conn'[d] = [r EXCEPT !.close = "unmap"]
      BY <1>2, <1>4, <2>1, <3>1
    <3>3. /\ conn'[d].old = r.old /\ conn'[d].acks = r.acks /\ conn'[d].reg = r.reg
          /\ conn'[d].close = "unmap"
      BY <3>2 DEF Conn
    <3> QED
      BY <3>1, <3>3
  <2>2. CASE d # conn[e].old
    <3>1. conn'[d] = k[d]
      BY <1>2, <1>4, <2>2
    <3> QED
      BY <2>2, <3>1
  <2> QED
    BY <2>1, <2>2
<1>6. conn'[e].reg \in {"closing", "registry"}
  BY <1>3, <1>5
<1>7. ASSUME NEW d \in Conns
      PROVE  /\ d # e => conn'[d].reg = conn[d].reg
             /\ conn'[d].old = conn[d].old /\ conn'[d].acks = conn[d].acks
             /\ conn'[d].close = "open" => conn[d].close = "open" /\ d # conn[e].old
  <2>1. /\ k[d].old = conn[d].old /\ k[d].acks = conn[d].acks /\ k[d].close = conn[d].close
        /\ d # e => k[d].reg = conn[d].reg
    BY <1>3
  <2>2. /\ conn'[d].old = k[d].old /\ conn'[d].acks = k[d].acks /\ conn'[d].reg = k[d].reg
        /\ conn'[d].close = "open" => k[d].close = "open" /\ d # conn[e].old
    BY <1>5
  <2> QED
    BY <2>1, <2>2
<1> QED
  BY <1>6, <1>7

\* the socket of a connection is closed and what is in flight is lost
LEMMA WireType ==
  ASSUME wire \in [Conns -> Seq(Frames)], NEW d
  PROVE  [wire EXCEPT ![d] = <<>>] \in [Conns -> Seq(Frames)]
<1>1. <<>> \in Seq(Frames)
  OBVIOUS
<1> QED
  BY <1>1

LEMMA RegisterType ==
  ASSUME TypeOK, NEW c \in Conns, Register(c)
  PROVE  TypeOK'
<1>1. CASE RegisterMap(c)
  <2>1. conn' = [conn EXCEPT ![c].old = slot,
                   ![c].reg = IF slot = NoConn THEN "registry" ELSE "migrate"]
    BY <1>1 DEF RegisterMap
  <2>2. conn' \in [Conns -> Conn]
    <3> DEFINE v == IF slot = NoConn THEN "registry" ELSE "migrate"
               row == [conn[c] EXCEPT !.old = slot, !.reg = v]
    <3>1. v \in Registering
      BY DEF Registering
    <3> HIDE DEF v
    <3>2. row \in Conn
      BY <3>1, Typed DEF Conn
    <3>3. conn' = [conn EXCEPT ![c] = row]
      BY <2>1 DEF v
    <3> HIDE DEF row
    <3> QED
      BY <3>2, <3>3, Typed
  <2>3. history' \in HistoryType
    BY <1>1, Typed DEF RegisterMap, HistoryType
  <2> QED
    BY <1>1, <2>2, <2>3 DEF TypeOK, RegisterMap, HistoryType
<1>2. CASE Migrate(c)
  <2> DEFINE pending == Pending(conn[c].old)
             tracked == [m \in Frames |-> IF m \in pending THEN 0 ELSE conn[c].acks[m]]
  <2>1. PICK s \in Orders(pending) :
          conn' = [conn EXCEPT ![c].reg = "close", ![c].acks = tracked,
                               ![c].out = Fit(conn[c].out \o s)]
    BY <1>2 DEF Migrate
  <2>2. tracked \in [Frames -> Untracked .. MaxRetries]
    BY Typed DEF Untracked
  <2>3. Fit(conn[c].out \o s) \in Queue
    <3>1. conn[c].out \in Seq(Frames) /\ s \in Seq(Frames)
      BY Typed, QueueIsSeq, PendingType, OrdersType
    <3>2. conn[c].out \o s \in Seq(Frames)
      BY <3>1, ConcatProperties
    <3> QED
      BY <3>2, QueueOps
  <2> HIDE DEF tracked
  <2>4. conn' \in [Conns -> Conn]
    <3> DEFINE queue == Fit(conn[c].out \o s)
               row   == [conn[c] EXCEPT !.reg = "close", !.acks = tracked, !.out = queue]
    <3>1. queue \in Queue /\ conn' = [conn EXCEPT ![c] = row]
      BY <2>1, <2>3
    <3> HIDE DEF queue
    <3>2. row \in Conn
      BY <2>2, <3>1, Typed DEF Conn, Registering
    <3> HIDE DEF row
    <3> QED
      BY <3>1, <3>2, Typed
  <2>5. history' \in HistoryType
    BY <1>2, Typed, StrandType, PendingType DEF Migrate
  <2> QED
    BY <1>2, <2>4, <2>5 DEF TypeOK, Migrate, HistoryType
<1>3. CASE Supersede(c)
  <2>1. CASE IsOpen(conn[c].old)
    <3>1. conn' = [conn EXCEPT ![c].reg = "closing", ![conn[c].old].close = "unmap"]
      BY <1>3, <2>1 DEF Supersede
    <3> DEFINE mid == [conn EXCEPT ![c].reg = "closing"]
    <3>2. mid \in [Conns -> Conn]
      BY Assigned DEF Registering
    <3>3. conn' = [mid EXCEPT ![conn[c].old].close = "unmap"]
      BY <3>1
    <3> HIDE DEF mid
    <3>4. conn' \in [Conns -> Conn]
      <4> DEFINE d == conn[c].old
      <4>1. CASE d \in Conns
        <5>1. [mid[d] EXCEPT !.close = "unmap"] \in Conn
          BY <3>2, <4>1 DEF Conn, Closing
        <5> QED
          BY <3>2, <3>3, <5>1
      <4>2. CASE d \notin Conns
        BY <3>2, <3>3, <4>2
      <4> QED
        BY <4>1, <4>2
    <3>5. wire' \in [Conns -> Seq(Frames)] /\ UNCHANGED history
      BY <1>3, <2>1, Typed, WireType DEF Supersede
    <3> QED
      BY <1>3, <3>4, <3>5 DEF TypeOK, Supersede
  <2>2. CASE ~IsOpen(conn[c].old)
    <3>1. conn' = [conn EXCEPT ![c].reg = "registry"]
      BY <1>3, <2>2 DEF Supersede
    <3>2. conn' \in [Conns -> Conn]
      BY <3>1, Assigned DEF Registering
    <3>3. history' \in HistoryType /\ UNCHANGED wire
      BY <1>3, <2>2, Typed DEF Supersede, HistoryType
    <3> QED
      BY <1>3, <3>2, <3>3 DEF TypeOK, Supersede, HistoryType
  <2> QED
    BY <2>1, <2>2
<1>4. CASE Superseded(c)
  <2>1. conn' = [conn EXCEPT ![c].reg = "registry"]
    BY <1>4 DEF Superseded
  <2>2. conn' \in [Conns -> Conn]
    BY <2>1, Assigned DEF Registering
  <2> QED
    BY <1>4, <2>2 DEF TypeOK, Superseded
<1>5. CASE RegisterNode(c)
  <2>1. conn' = [conn EXCEPT ![c].reg = "served"]
    BY <1>5 DEF RegisterNode
  <2>2. conn' \in [Conns -> Conn]
    BY <2>1, Assigned DEF Registering
  <2> QED
    BY <1>5, <2>2 DEF TypeOK, RegisterNode
<1> QED
  BY <1>1, <1>2, <1>3, <1>4, <1>5 DEF Register

LEMMA TeardownType ==
  ASSUME TypeOK, NEW c \in Conns, Teardown(c)
  PROVE  TypeOK'
<1>1. CASE Unmap(c)
  <2>1. conn' = [conn EXCEPT ![c].close = "unregister"]
    BY <1>1 DEF Unmap
  <2>2. conn' \in [Conns -> Conn]
    BY <2>1, Assigned DEF Closing
  <2>3. slot' \in Conns \cup {NoConn}
    BY <1>1 DEF TypeOK, Unmap
  <2>4. history' \in HistoryType
    BY <1>1, Typed, StrandType, PendingType DEF Unmap
  <2>5. UNCHANGED <<send, admin, registry, status, dev, wire, acks>>
    BY <1>1 DEF Unmap
  <2> QED
    BY <2>2, <2>3, <2>4, <2>5 DEF TypeOK, HistoryType
<1>2. CASE UnregisterNode(c)
  <2>1. conn' = [conn EXCEPT ![c].close = "offline"]
    BY <1>2 DEF UnregisterNode
  <2>2. conn' \in [Conns -> Conn]
    BY <2>1, Assigned DEF Closing
  <2> QED
    BY <1>2, <2>2 DEF TypeOK, UnregisterNode
<1>3. CASE MarkOffline(c)
  <2>1. conn' = [conn EXCEPT ![c].close = "closed"]
    BY <1>3 DEF MarkOffline
  <2>2. conn' \in [Conns -> Conn]
    BY <2>1, Assigned DEF Closing
  <2> QED
    BY <1>3, <2>2 DEF TypeOK, MarkOffline
<1> QED
  BY <1>1, <1>2, <1>3 DEF Teardown

\* the four steps of SendFrame move one record of send and at most one tracker
LEMMA SendType ==
  ASSUME TypeOK, NEW m \in Frames, SendFrame(m)
  PROVE  TypeOK'
<1>s. send \in [Frames -> SendCall] /\ send[m] \in SendCall
  BY DEF TypeOK
<1>f. [pc |-> "failed", conn |-> NoConn] \in SendCall
  BY DEF SendCall
<1>1. CASE Lookup(m)
  <2> DEFINE call == IF slot = NoConn THEN [pc |-> "failed", conn |-> NoConn]
                     ELSE [pc |-> "found", conn |-> slot]
  <2>1. send' = [send EXCEPT ![m] = call]
    BY <1>1 DEF Lookup
  <2>2. call \in SendCall /\ (call.pc = "found" => call.conn \in Conns)
        /\ call.pc \in {"failed", "found"}
    BY Typed DEF SendCall
  <2> HIDE DEF call
  <2>3. /\ send' \in [Frames -> SendCall]
        /\ \A n \in Frames : send'[n].pc \in {"found", "checked", "tracked"} =>
                                send'[n].conn \in Conns
    BY <1>s, <2>1, <2>2 DEF TypeOK
  <2> QED
    BY <1>1, <2>3 DEF TypeOK, Lookup
<1>2. CASE CheckClosed(m)
  <2> DEFINE call == IF IsOpen(send[m].conn) THEN [send[m] EXCEPT !.pc = "checked"]
                     ELSE [pc |-> "failed", conn |-> NoConn]
  <2>1. send' = [send EXCEPT ![m] = call] /\ send[m].conn \in Conns
    BY <1>2 DEF CheckClosed, TypeOK
  <2>2. call \in SendCall /\ (call.pc = "checked" => call.conn \in Conns)
        /\ call.pc \in {"failed", "checked"}
    BY <1>s, <2>1 DEF SendCall
  <2> HIDE DEF call
  <2>3. /\ send' \in [Frames -> SendCall]
        /\ \A n \in Frames : send'[n].pc \in {"found", "checked", "tracked"} =>
                                send'[n].conn \in Conns
    BY <1>s, <2>1, <2>2 DEF TypeOK
  <2> QED
    BY <1>2, <2>3 DEF TypeOK, CheckClosed
<1>3. CASE TrackFrame(m)
  <2> DEFINE d    == send[m].conn
             call == [send[m] EXCEPT !.pc = "tracked"]
  <2>1. send' = [send EXCEPT ![m] = call] /\ d \in Conns
    BY <1>3 DEF TrackFrame, TypeOK
  <2>2. call \in SendCall /\ call.conn = d
    BY <1>s DEF SendCall
  <2> HIDE DEF call
  <2>3. /\ send' \in [Frames -> SendCall]
        /\ \A n \in Frames : send'[n].pc \in {"found", "checked", "tracked"} =>
                                send'[n].conn \in Conns
    BY <1>s, <2>1, <2>2 DEF TypeOK
  <2>4. conn' = [conn EXCEPT ![d].acks[m] = 0] /\ 0 \in Untracked .. MaxRetries
    BY <1>3 DEF TrackFrame, Track, Untracked
  <2>5. conn' \in [Conns -> Conn]
    <3> HIDE DEF d
    <3> QED
      BY <2>1, <2>4, Typed DEF Conn
  <2>6. history' \in HistoryType
    BY <1>3, Typed, StrandType DEF TrackFrame
  <2> QED
    BY <1>3, <2>3, <2>5, <2>6 DEF TypeOK, TrackFrame, HistoryType
<1>4. CASE Enqueue(m)
  <2> DEFINE d     == send[m].conn
             queue == Offer(conn[d].out, m)
             call  == [pc |-> IF HasRoom(d) THEN "sent" ELSE "failed", conn |-> NoConn]
  <2>1. /\ send' = [send EXCEPT ![m] = call] /\ d \in Conns
        /\ conn' = [conn EXCEPT ![d].out = queue]
    BY <1>4 DEF Enqueue, TypeOK
  <2>2. call \in SendCall /\ call.pc \in {"sent", "failed"}
    BY DEF SendCall
  <2>3. queue \in Queue
    BY <2>1, Typed, QueueOps
  <2> HIDE DEF call, queue, d
  <2>4. /\ send' \in [Frames -> SendCall]
        /\ \A n \in Frames : send'[n].pc \in {"found", "checked", "tracked"} =>
                                send'[n].conn \in Conns
    BY <1>s, <2>1, <2>2 DEF TypeOK
  <2>5. conn' \in [Conns -> Conn]
    BY <2>1, <2>3, Typed DEF Conn
  <2> QED
    BY <1>4, <2>4, <2>5 DEF TypeOK, Enqueue
<1> QED
  BY <1>1, <1>2, <1>3, <1>4 DEF SendFrame

LEMMA CloseType ==
  ASSUME TypeOK,
         \/ \E c \in Conns : Close(c) \/ CheckLiveness(c)
         \/ CloseDevice \/ CloseLocked \/ CloseDeviceReturns
  PROVE  TypeOK'
<1>1. ASSUME NEW c \in Conns, Close(c) \/ CheckLiveness(c)
      PROVE  TypeOK'
  <2>1. conn' = [conn EXCEPT ![c].close = "unmap"]
    BY <1>1 DEF Close, CheckLiveness
  <2>2. conn' \in [Conns -> Conn]
    BY <2>1, Assigned DEF Closing
  <2>3. wire' \in [Conns -> Seq(Frames)]
    BY <1>1, Typed, WireType DEF Close, CheckLiveness
  <2>4. history' \in HistoryType
    BY <1>1, Typed DEF Close, CheckLiveness, HistoryType
  <2>5. UNCHANGED <<slot, send, admin, registry, status, dev, acks>>
    BY <1>1 DEF Close, CheckLiveness
  <2> QED
    BY <2>2, <2>3, <2>4, <2>5 DEF TypeOK, HistoryType
<1>2. CASE CloseDevice
  BY <1>2 DEF TypeOK, CloseDevice
<1>3. CASE CloseLocked
  <2>1. admin.conn \in Conns /\ conn' = [conn EXCEPT ![admin.conn].close = "unmap"]
    BY <1>3 DEF CloseLocked, TypeOK
  <2>2. conn' \in [Conns -> Conn]
    BY <2>1, Assigned DEF Closing
  <2>3. wire' \in [Conns -> Seq(Frames)]
    BY <1>3, Typed, WireType DEF CloseLocked
  <2>4. /\ admin' \in [pc : {"idle", "locked", "closing"}, conn : Conns \cup {NoConn}]
        /\ admin'.pc # "idle" => admin'.conn \in Conns
    BY <1>3, <2>1 DEF CloseLocked, TypeOK
  <2> QED
    BY <1>3, <2>2, <2>3, <2>4 DEF TypeOK, CloseLocked
<1>4. CASE CloseDeviceReturns
  BY <1>4 DEF TypeOK, CloseDeviceReturns
<1> QED
  BY <1>1, <1>2, <1>3, <1>4

LEMMA PumpType ==
  ASSUME TypeOK, NEW c \in Conns, Pumps(c)
  PROVE  TypeOK'
<1>1. CASE WritePump(c)
  <2>1. Head(conn[c].out) \in Frames /\ Tail(conn[c].out) \in Queue
    BY <1>1, Typed, QueueOps DEF WritePump
  <2>2. conn' \in [Conns -> Conn]
    <3> DEFINE queue == Tail(conn[c].out)
    <3>1. conn' = [conn EXCEPT ![c].out = queue] /\ queue \in Queue
      BY <1>1, <2>1 DEF WritePump
    <3> HIDE DEF queue
    <3> QED
      BY <3>1, Typed DEF Conn
  <2>3. wire' \in [Conns -> Seq(Frames)]
    <3>1. wire[c] \in Seq(Frames)
      BY Typed
    <3>2. Append(wire[c], Head(conn[c].out)) \in Seq(Frames)
      BY <2>1, <3>1, AppendProperties
    <3> QED
      BY <1>1, <3>2, Typed DEF WritePump
  <2> QED
    BY <1>1, <2>2, <2>3 DEF TypeOK, WritePump
<1>2. ASSUME NEW m \in Frames, Retransmit(c, m)
      PROVE  TypeOK'
  <2> DEFINE n     == conn[c].acks[m] + 1
             queue == Offer(conn[c].out, m)
             count == [conn[c].acks EXCEPT ![m] = n]
             row   == [conn[c] EXCEPT !.acks = count, !.out = queue]
  <2>1. n \in Untracked .. MaxRetries /\ queue \in Queue
    BY <1>2, Typed, QueueOps DEF Retransmit, Untracked
  <2>2. conn' = [conn EXCEPT ![c] = row]
    BY <1>2, Typed DEF Retransmit, Conn
  <2> HIDE DEF n, queue
  <2>3. count \in [Frames -> Untracked .. MaxRetries]
    BY <2>1, Typed
  <2> HIDE DEF count
  <2>4. row \in Conn
    BY <2>1, <2>3, Typed DEF Conn
  <2> HIDE DEF row
  <2>5. conn' \in [Conns -> Conn]
    BY <2>2, <2>4, Typed
  <2> QED
    BY <1>2, <2>5 DEF TypeOK, Retransmit
<1>3. ASSUME NEW m \in Frames, GiveUp(c, m)
      PROVE  TypeOK'
  <2>1. conn' = [conn EXCEPT ![c].acks[m] = Untracked] /\ Untracked \in Untracked .. MaxRetries
    BY <1>3 DEF GiveUp, Untracked
  <2>2. conn' \in [Conns -> Conn]
    BY <2>1, Typed DEF Conn
  <2>3. history' \in HistoryType
    BY <1>3, Typed, StrandType DEF GiveUp
  <2> QED
    BY <1>3, <2>2, <2>3 DEF TypeOK, GiveUp, HistoryType
<1>4. CASE ReadHello(c)
  <2>1. conn' = [conn EXCEPT ![c].hello = "handling"]
    BY <1>4 DEF ReadHello
  <2>2. conn' \in [Conns -> Conn]
    BY <2>1, Typed DEF Conn
  <2> QED
    BY <1>4, <2>2 DEF TypeOK, ReadHello
<1>5. CASE MarkOnline(c)
  <2>1. conn' = [conn EXCEPT ![c].hello = "done"]
    BY <1>5 DEF MarkOnline
  <2>2. conn' \in [Conns -> Conn]
    BY <2>1, Typed DEF Conn
  <2>3. history' \in HistoryType
    BY <1>5, Typed DEF MarkOnline, HistoryType
  <2> QED
    BY <1>5, <2>2, <2>3 DEF TypeOK, MarkOnline, HistoryType
<1>6. ASSUME NEW m \in Frames, ReadAck(c, m)
      PROVE  TypeOK'
  <2>1. conn' = [conn EXCEPT ![c].acks[m] = Untracked] /\ Untracked \in Untracked .. MaxRetries
    BY <1>6 DEF ReadAck, Untracked
  <2>2. conn' \in [Conns -> Conn]
    BY <2>1, Typed DEF Conn
  <2>3. history' \in HistoryType
    BY <1>6, Typed DEF ReadAck, HistoryType
  <2>4. acks' \in [Conns -> SUBSET Frames]
    BY <1>6 DEF ReadAck, TypeOK
  <2> QED
    BY <1>6, <2>2, <2>3, <2>4 DEF TypeOK, ReadAck, HistoryType
<1> QED
  BY <1>1, <1>2, <1>3, <1>4, <1>5, <1>6 DEF Pumps

DevType == [conn : Conns \cup {NoConn}, seen : SUBSET Frames, handled : [Frames -> Nat]]

LEMMA DeviceType ==
  ASSUME TypeOK, Device
  PROVE  TypeOK'
<1>d. dev \in DevType
  BY DEF TypeOK, DevType
<1>1. ASSUME NEW c \in Conns, Dial(c)
      PROVE  TypeOK'
  <2>1. conn' = [conn EXCEPT ![c].reg = "dialed"]
    BY <1>1 DEF Dial
  <2>2. conn' \in [Conns -> Conn]
    BY <2>1, Assigned DEF Registering
  <2>3. dev' \in DevType
    BY <1>d, <1>1 DEF Dial, DevType
  <2> QED
    BY <1>1, <2>2, <2>3 DEF TypeOK, Dial, DevType
<1>2. ASSUME NEW c \in Conns, Receive(c)
      PROVE  TypeOK'
  <2> DEFINE m == Head(wire[c])
  <2>1. m \in Frames /\ Tail(wire[c]) \in Seq(Frames)
    BY <1>2, Typed, HeadTailProperties DEF Receive
  <2>2. wire' \in [Conns -> Seq(Frames)]
    BY <1>2, <2>1, Typed DEF Receive
  <2>3. acks' \in [Conns -> SUBSET Frames]
    BY <1>2, <2>1 DEF Receive, TypeOK
  <2>4. dev' \in DevType
    <3>1. dev.handled[m] + 1 \in Nat
      BY <1>d, <2>1 DEF DevType
    <3>2. CASE m \in dev.seen
      BY <1>d, <1>2, <3>2 DEF Receive
    <3>3. CASE m \notin dev.seen
      <4>1. dev' = [dev EXCEPT !.seen = dev.seen \cup {m}, !.handled[m] = dev.handled[m] + 1]
        BY <1>d, <1>2, <3>3 DEF Receive, DevType
      <4> HIDE DEF m
      <4> QED
        BY <1>d, <2>1, <3>1, <4>1 DEF DevType
    <3> QED
      BY <3>2, <3>3
  <2> QED
    BY <1>2, <2>2, <2>3, <2>4 DEF TypeOK, Receive, DevType
<1>3. CASE Hangup
  <2>1. wire' \in [Conns -> Seq(Frames)]
    BY <1>3, Typed, WireType DEF Hangup
  <2>2. dev' \in DevType
    BY <1>d, <1>3 DEF Hangup, DevType
  <2> QED
    BY <1>3, <2>1, <2>2 DEF TypeOK, Hangup, DevType
<1>4. CASE Restart
  <2>1. wire' \in [Conns -> Seq(Frames)]
    BY <1>4, Typed, WireType DEF Restart
  <2>2. dev' \in DevType
    BY <1>4 DEF Restart, DevType
  <2> QED
    BY <1>4, <2>1, <2>2 DEF TypeOK, Restart, DevType
<1> QED
  BY <1>1, <1>2, <1>3, <1>4 DEF Device

LEMMA NextType ==
  ASSUME TypeOK, [Next]_vars
  PROVE  TypeOK'
<1>1. CASE Next
  BY <1>1, RegisterType, TeardownType, CloseType, PumpType, SendType, DeviceType DEF Next
<1>2. CASE UNCHANGED vars
  BY <1>2 DEF vars, TypeOK
<1> QED
  BY <1>1, <1>2

\* A queue never exceeds its channel's capacity, whatever is migrated, retried or
\* sent into it, and every SendFrame that goes on holds a connection.
THEOREM TypeCorrect == Spec => []TypeOK
  BY InitType, NextType, PTL DEF Spec

-----------------------------------------------------------------------------
(* Routing                                                                 *)

\* a step that moves no connection into or out of the map
Steady == /\ slot' = slot
          /\ \A c \in Conns : /\ conn'[c].reg = conn[c].reg
                              /\ conn'[c].old = conn[c].old
                              /\ conn'[c].close = conn[c].close

LEMMA SendSteady ==
  ASSUME TypeOK, NEW m \in Frames, SendFrame(m)
  PROVE  Steady
<1>1. CASE Lookup(m) \/ CheckClosed(m)
  BY <1>1 DEF Lookup, CheckClosed, Steady
<1>2. CASE TrackFrame(m)
  <2>1. send[m].conn \in Conns
    BY <1>2 DEF TrackFrame, TypeOK
  <2> QED
    BY <1>2, <2>1, Typed DEF TrackFrame, Track, Steady, Conn
<1>3. CASE Enqueue(m)
  BY <1>3, Typed DEF Enqueue, Steady, Conn
<1> QED
  BY <1>1, <1>2, <1>3 DEF SendFrame

LEMMA PumpSteady ==
  ASSUME TypeOK, NEW c \in Conns, Pumps(c)
  PROVE  Steady
<1>1. CASE WritePump(c)
  BY <1>1, Typed DEF WritePump, Steady, Conn
<1>2. CASE ReadHello(c)
  BY <1>2, Typed DEF ReadHello, Steady, Conn
<1>3. CASE MarkOnline(c)
  BY <1>3, Typed DEF MarkOnline, Steady, Conn
<1>4. ASSUME NEW m \in Frames, Retransmit(c, m)
      PROVE  Steady
  BY <1>4, Typed DEF Retransmit, Steady, Conn
<1>5. ASSUME NEW m \in Frames, GiveUp(c, m)
      PROVE  Steady
  BY <1>5, Typed DEF GiveUp, Steady, Conn
<1>6. ASSUME NEW m \in Frames, ReadAck(c, m)
      PROVE  Steady
  BY <1>6, Typed DEF ReadAck, Steady, Conn
<1> QED
  BY <1>1, <1>2, <1>3, <1>4, <1>5, <1>6 DEF Pumps

\* The cases of a step, for the invariants about routing.
LEMMA RoutingCases ==
  ASSUME TypeOK, [Next]_vars
  PROVE  \/ Steady
         \/ \E c \in Conns : Register(c) \/ Teardown(c) \/ Close(c) \/ CheckLiveness(c) \/ Dial(c)
         \/ CloseLocked
<1>1. CASE UNCHANGED vars
  BY <1>1 DEF vars, Steady
<1>2. CASE \E c \in Conns : Pumps(c)
  BY <1>2, PumpSteady
<1>3. CASE \E m \in Frames : SendFrame(m)
  BY <1>3, SendSteady
<1>4. CASE CloseDevice \/ CloseDeviceReturns
  BY <1>4 DEF CloseDevice, CloseDeviceReturns, Steady
<1>5. CASE Device
  BY <1>5 DEF Device, Receive, Hangup, Restart, Steady
<1> QED
  BY <1>1, <1>2, <1>3, <1>4, <1>5 DEF Next

\* SendFrame finds connection c, or its successor is on its way to closing it
Found(c) == \/ slot = c
            \/ \E d \in Conns : conn[d].old = c /\ conn[d].reg \in {"migrate", "close"}

LEMMA RoutableStep ==
  ASSUME TypeOK, Routable, [Next]_vars
  PROVE  Routable'
<1> SUFFICES ASSUME NEW c \in Conns, Mapped(c)', IsOpen(c)'
             PROVE  Found(c)'
  BY DEF Routable, Found
<1>k. ASSUME Mapped(c) /\ IsOpen(c), slot = c => slot' = c,
             \A d \in Conns : conn[d].old = c /\ conn[d].reg \in {"migrate", "close"} =>
                conn'[d].old = c /\ conn'[d].reg \in {"migrate", "close"}
      PROVE  Found(c)'
  <2>1. CASE slot = c
    BY <1>k, <2>1 DEF Found
  <2>2. ASSUME NEW d \in Conns, conn[d].old = c, conn[d].reg \in {"migrate", "close"}
        PROVE  Found(c)'
    BY <1>k, <2>2 DEF Found
  <2> QED
    BY <1>k, <2>1, <2>2 DEF Routable
<1>1. CASE Steady
  BY <1>1, <1>k DEF Steady, Mapped, IsOpen
<1>2. ASSUME NEW e \in Conns, RegisterMap(e)
      PROVE  Found(c)'
  <2>1. /\ slot' = e /\ conn[e].reg = "dialed"
        /\ \A d \in Conns \ {e} : conn'[d] = conn[d]
        /\ conn'[e].old = slot
        /\ slot # NoConn => conn'[e].reg = "migrate"
    BY <1>2, Typed DEF RegisterMap, Conn
  <2>2. CASE c = e
    BY <2>1, <2>2 DEF Found
  <2>3. CASE c # e /\ slot = c
    BY <2>1, <2>3 DEF Found
  <2>4. CASE c # e /\ slot # c
    <3>1. Mapped(c) /\ IsOpen(c)
      BY <2>1, <2>4 DEF Mapped, IsOpen
    <3> QED
      BY <1>k, <2>1, <2>4, <3>1
  <2> QED
    BY <2>2, <2>3, <2>4
<1>3. ASSUME NEW e \in Conns, Migrate(e)
      PROVE  Found(c)'
  <2>1. /\ slot' = slot /\ conn[e].reg = "migrate" /\ conn'[e].reg = "close"
        /\ \A d \in Conns \ {e} : conn'[d] = conn[d]
        /\ conn'[e].old = conn[e].old /\ conn'[e].close = conn[e].close
    <3>1. slot' = slot /\ conn[e].reg = "migrate"
      BY <1>3 DEF Migrate
    <3>2. PICK a, q : conn' = [conn EXCEPT ![e].reg = "close", ![e].acks = a, ![e].out = q]
      BY <1>3, Zenon DEF Migrate
    <3> QED
      BY <3>1, <3>2, Typed DEF Conn
  <2>2. Mapped(c) /\ IsOpen(c)
    BY <2>1 DEF Mapped, IsOpen
  <2> QED
    BY <1>k, <2>1, <2>2
<1>4. ASSUME NEW e \in Conns, Supersede(e)
      PROVE  Found(c)'
  <2>1. slot' = slot /\ conn[e].reg = "close"
    BY <1>4 DEF Supersede
  <2>2. /\ \A d \in Conns \ {e} : conn'[d].reg = conn[d].reg
        /\ \A d \in Conns : conn'[d].old = conn[d].old
        /\ IsOpen(c) /\ c # conn[e].old
    <3>1. CASE IsOpen(conn[e].old)
      <4>1. conn' = [conn EXCEPT ![e].reg = "closing", ![conn[e].old].close = "unmap"]
        BY <1>4, <3>1 DEF Supersede
      <4> QED
        BY <4>1, Superseding DEF IsOpen
    <3>2. CASE ~IsOpen(conn[e].old)
      <4>1. conn' = [conn EXCEPT ![e].reg = "registry"]
        BY <1>4, <3>2 DEF Supersede
      <4> QED
        BY <3>2, <4>1, Typed DEF IsOpen, Conn
    <3> QED
      BY <3>1, <3>2
  <2>3. Mapped(c)
    BY <2>1, <2>2 DEF Mapped
  <2> QED
    BY <1>k, <2>1, <2>2, <2>3
<1>5. ASSUME NEW e \in Conns, Superseded(e) \/ RegisterNode(e)
      PROVE  Found(c)'
  <2>1. /\ slot' = slot /\ conn[e].reg \in {"closing", "registry"}
        /\ \A d \in Conns \ {e} : conn'[d] = conn[d]
        /\ conn'[e].old = conn[e].old /\ conn'[e].close = conn[e].close
    BY <1>5, Typed DEF Superseded, RegisterNode, Conn
  <2>2. Mapped(c) /\ IsOpen(c)
    BY <2>1 DEF Mapped, IsOpen
  <2> QED
    BY <1>k, <2>1, <2>2
<1>6. ASSUME NEW e \in Conns, Close(e) \/ CheckLiveness(e) \/ Teardown(e)
      PROVE  Found(c)'
  <2>1. /\ conn'[e].close # "open"
        /\ \A d \in Conns \ {e} : conn'[d] = conn[d]
        /\ conn'[e].old = conn[e].old /\ conn'[e].reg = conn[e].reg
    <3>1. CASE Close(e) \/ CheckLiveness(e)
      BY <3>1, Typed DEF Close, CheckLiveness, Conn
    <3>2. CASE Unmap(e)
      BY <3>2, Typed DEF Unmap, Conn
    <3>3. CASE UnregisterNode(e)
      BY <3>3, Typed DEF UnregisterNode, Conn
    <3>4. CASE MarkOffline(e)
      BY <3>4, Typed DEF MarkOffline, Conn
    <3> QED
      BY <1>6, <3>1, <3>2, <3>3, <3>4 DEF Teardown
  <2>2. c # e /\ Mapped(c) /\ IsOpen(c)
    BY <2>1 DEF Mapped, IsOpen
  <2>3. slot = c => slot' = c
    BY <1>6, <2>2 DEF Close, CheckLiveness, Teardown, Unmap, UnregisterNode, MarkOffline
  <2> QED
    BY <1>k, <2>1, <2>2, <2>3
<1>7. CASE CloseLocked
  <2>1. PICK e \in Conns : e = admin.conn
    BY <1>7 DEF CloseLocked, TypeOK
  <2>2. /\ slot' = slot
        /\ conn'[e].close # "open"
        /\ \A d \in Conns \ {e} : conn'[d] = conn[d]
        /\ conn'[e].old = conn[e].old /\ conn'[e].reg = conn[e].reg
    BY <1>7, <2>1, Typed DEF CloseLocked, Conn
  <2>3. Mapped(c) /\ IsOpen(c)
    BY <2>2 DEF Mapped, IsOpen
  <2> QED
    BY <1>k, <2>2, <2>3
<1>8. ASSUME NEW e \in Conns, Dial(e)
      PROVE  Found(c)'
  <2>1. /\ slot' = slot /\ conn[e].reg = "unborn" /\ conn'[e].reg = "dialed"
        /\ \A d \in Conns \ {e} : conn'[d] = conn[d]
    BY <1>8, Typed DEF Dial, Conn
  <2>2. Mapped(c) /\ IsOpen(c)
    BY <2>1 DEF Mapped, IsOpen
  <2> QED
    BY <1>k, <2>1, <2>2
<1> QED
  BY <1>1, <1>2, <1>3, <1>4, <1>5, <1>6, <1>7, <1>8, RoutingCases DEF Register

\* SendFrame finds the connection that is open, or the one that replaces it is
\* about to close it: Unregister of an old connection never unmaps a newer one.
THEOREM RoutableHolds == Spec => []Routable
<1>1. Init => Routable
  <2> SUFFICES ASSUME Init
               PROVE  Routable
    OBVIOUS
  <2>1. \A c \in Conns : conn[c].reg = "unborn"
    BY DEF Init, Fresh
  <2> QED
    BY <2>1 DEF Routable, Mapped
<1>2. TypeOK /\ Routable /\ [Next]_vars => Routable'
  BY RoutableStep
<1> QED
  BY <1>1, <1>2, TypeCorrect, PTL DEF Spec

-----------------------------------------------------------------------------
(* The msg_id filter                                                       *)

\* what was handled is in the filter
Filter == \A m \in Frames : /\ dev.handled[m] <= 1
                            /\ m \notin dev.seen => dev.handled[m] = 0

LEMMA FilterStep ==
  ASSUME TypeOK, Filter, [Next]_vars
  PROVE  Filter'
<1>d. dev \in DevType
  BY DEF TypeOK, DevType
<1>1. ASSUME NEW c \in Conns, Receive(c)
      PROVE  Filter'
  <2> DEFINE m == Head(wire[c])
  <2>1. m \in Frames
    BY <1>1, Typed, HeadTailProperties DEF Receive
  <2>2. CASE m \in dev.seen
    BY <1>1, <2>2 DEF Receive, Filter
  <2>3. CASE m \notin dev.seen
    <3>1. dev' = [dev EXCEPT !.seen = dev.seen \cup {m}, !.handled[m] = dev.handled[m] + 1]
      BY <1>d, <1>1, <2>3 DEF Receive, DevType
    <3> HIDE DEF m
    <3>2. /\ dev'.seen = dev.seen \cup {m}
          /\ dev'.handled = [dev.handled EXCEPT ![m] = dev.handled[m] + 1]
      BY <1>d, <3>1 DEF DevType
    <3>3. dev.handled[m] = 0
      BY <2>1, <2>3 DEF Filter
    <3>4. dev.handled \in [Frames -> Nat]
      BY <1>d DEF DevType
    <3>5. dev'.handled[m] = 1 /\ \A f \in Frames \ {m} : dev'.handled[f] = dev.handled[f]
      BY <2>1, <3>2, <3>3, <3>4
    <3> QED
      BY <2>1, <3>2, <3>5 DEF Filter
  <2> QED
    BY <2>2, <2>3
<1>2. CASE Restart
  BY <1>2 DEF Restart, Filter
<1>3. CASE (\E c \in Conns : Dial(c)) \/ Hangup
  <2>1. dev'.seen = dev.seen /\ dev'.handled = dev.handled
    BY <1>d, <1>3 DEF Dial, Hangup, DevType
  <2> QED
    BY <2>1 DEF Filter
<1>4. CASE dev' = dev
  BY <1>4 DEF Filter
<1>5. ASSUME NEW c \in Conns, Register(c) \/ Teardown(c) \/ Close(c) \/ CheckLiveness(c)
      PROVE  dev' = dev
  BY <1>5 DEF Register, RegisterMap, Migrate, Supersede, Superseded, RegisterNode,
     Teardown, Unmap, UnregisterNode, MarkOffline, Close, CheckLiveness
<1>6. ASSUME NEW c \in Conns, Pumps(c)
      PROVE  dev' = dev
  BY <1>6 DEF Pumps, WritePump, ReadHello, MarkOnline, Retransmit, GiveUp, ReadAck
<1>7. ASSUME NEW m \in Frames, SendFrame(m)
      PROVE  dev' = dev
  BY <1>7 DEF SendFrame, Lookup, CheckClosed, TrackFrame, Enqueue
<1>8. ASSUME CloseDevice \/ CloseLocked \/ CloseDeviceReturns \/ UNCHANGED vars
      PROVE  dev' = dev
  BY <1>8 DEF CloseDevice, CloseLocked, CloseDeviceReturns, vars
<1> QED
  BY <1>1, <1>2, <1>3, <1>4, <1>5, <1>6, <1>7, <1>8 DEF Next, Device

\* Migrated and retransmitted copies of a frame are dropped by the device.
THEOREM HandledOnceHolds == Spec => []HandledOnce
<1>1. Init => Filter
  BY DEF Init, Filter
<1>2. TypeOK /\ Filter /\ [Next]_vars => Filter'
  BY FilterStep
<1>3. Filter => HandledOnce
  BY DEF Filter, HandledOnce
<1> QED
  BY <1>1, <1>2, <1>3, TypeCorrect, PTL DEF Spec

-----------------------------------------------------------------------------
(* Accepted frames                                                         *)

Settled(m) == m \in history.acked \cup history.stranded

\* a retransmitter or a migration will find the frame, or it is settled
Safe(m) == \/ Settled(m)
           \/ \E c \in Conns : m \in Pending(c) /\ ~Abandoned(c)

\* the map names a registered connection, and no connection supersedes itself
Slots == /\ slot # NoConn => Mapped(slot)
         /\ \A c \in Conns : conn[c].old # c

\* the strengthening: a frame is safe from the moment it is tracked
Tracking == \A m \in Frames : send[m].pc \in {"tracked", "sent"} => Safe(m)

\* a step that assigns one field of one connection leaves the others alone
LEMMA RegField ==
  ASSUME TypeOK, NEW e \in Conns, NEW v, conn' = [conn EXCEPT ![e].reg = v]
  PROVE  /\ conn'[e].reg = v
         /\ \A c \in Conns \ {e} : conn'[c].reg = conn[c].reg
         /\ \A c \in Conns : /\ conn'[c].old = conn[c].old
                             /\ conn'[c].acks = conn[c].acks
  BY Typed DEF Conn

LEMMA CloseField ==
  ASSUME TypeOK, NEW e, NEW v, conn' = [conn EXCEPT ![e].close = v]
  PROVE  \A c \in Conns : /\ conn'[c].reg = conn[c].reg
                          /\ conn'[c].old = conn[c].old
                          /\ conn'[c].acks = conn[c].acks
  BY Typed DEF Conn

\* every step of a teardown assigns the field close of a connection
LEMMA TeardownField ==
  ASSUME TypeOK, NEW e \in Conns, Close(e) \/ CheckLiveness(e) \/ Teardown(e) \/ CloseLocked
  PROVE  \A c \in Conns : /\ conn'[c].reg = conn[c].reg
                          /\ conn'[c].old = conn[c].old
                          /\ conn'[c].acks = conn[c].acks
<1>1. CASE Close(e) \/ CheckLiveness(e)
  BY <1>1, CloseField DEF Close, CheckLiveness
<1>2. CASE Unmap(e)
  BY <1>2, CloseField DEF Unmap
<1>3. CASE UnregisterNode(e)
  BY <1>3, CloseField DEF UnregisterNode
<1>4. CASE MarkOffline(e)
  BY <1>4, CloseField DEF MarkOffline
<1>5. CASE CloseLocked
  BY <1>5, CloseField DEF CloseLocked
<1> QED
  BY <1>1, <1>2, <1>3, <1>4, <1>5 DEF Teardown

LEMMA SlotsStep ==
  ASSUME TypeOK, Slots, [Next]_vars
  PROVE  Slots'
<1>s. (slot # NoConn => slot \in Conns /\ Mapped(slot)) /\ \A c \in Conns : conn[c].old # c
  BY Typed DEF Slots
<1>1. CASE Steady
  BY <1>1, <1>s DEF Steady, Slots, Mapped
<1>2. ASSUME NEW e \in Conns, RegisterMap(e)
      PROVE  Slots'
  <2>1. /\ slot' = e
        /\ \A c \in Conns \ {e} : conn'[c] = conn[c]
        /\ conn'[e].old = slot
        /\ conn'[e].reg \in {"registry", "migrate"}
        /\ conn[e].reg = "dialed"
    BY <1>2, Typed DEF RegisterMap, Conn
  <2> QED
    BY <1>s, <2>1 DEF Slots, Mapped
<1>3. ASSUME slot' \in {slot, NoConn},
             \A c \in Conns : conn'[c].old = conn[c].old /\ (Mapped(c) => Mapped(c)')
      PROVE  Slots'
  BY <1>3, <1>s DEF Slots, Mapped
<1>4. ASSUME NEW e \in Conns, Migrate(e)
      PROVE  Slots'
  <2>1. PICK a, q : conn' = [conn EXCEPT ![e].reg = "close", ![e].acks = a, ![e].out = q]
    BY <1>4 DEF Migrate
  <2>2. slot' = slot /\ conn[e].reg = "migrate"
    BY <1>4 DEF Migrate
  <2>3. \A c \in Conns : conn'[c].old = conn[c].old /\ (Mapped(c) => Mapped(c)')
    BY <2>1, <2>2, Typed DEF Mapped, Conn
  <2> QED
    BY <1>3, <2>2, <2>3
<1>5. ASSUME NEW e \in Conns, Supersede(e)
      PROVE  Slots'
  <2>1. slot' = slot /\ conn[e].reg = "close"
    BY <1>5 DEF Supersede
  <2>2. \/ conn' = [conn EXCEPT ![e].reg = "closing", ![conn[e].old].close = "unmap"]
        \/ conn' = [conn EXCEPT ![e].reg = "registry"]
    BY <1>5 DEF Supersede
  <2>3. \A c \in Conns : conn'[c].old = conn[c].old /\ (Mapped(c) => Mapped(c)')
    <3>1. CASE conn' = [conn EXCEPT ![e].reg = "closing", ![conn[e].old].close = "unmap"]
      BY <2>1, <3>1, Typed DEF Mapped, Conn
    <3>2. CASE conn' = [conn EXCEPT ![e].reg = "registry"]
      BY <2>1, <3>2, RegField DEF Mapped
    <3> QED
      BY <2>2, <3>1, <3>2
  <2> QED
    BY <1>3, <2>1, <2>3
<1>6. ASSUME NEW e \in Conns, Superseded(e) \/ RegisterNode(e)
      PROVE  Slots'
  <2>1. slot' = slot
    BY <1>6 DEF Superseded, RegisterNode
  <2>2. \A c \in Conns : conn'[c].old = conn[c].old /\ (Mapped(c) => Mapped(c)')
    <3>1. CASE Superseded(e)
      BY <3>1, RegField DEF Superseded, Mapped
    <3>2. CASE RegisterNode(e)
      BY <3>2, RegField DEF RegisterNode, Mapped
    <3> QED
      BY <1>6, <3>1, <3>2
  <2> QED
    BY <1>3, <2>1, <2>2
<1>7. ASSUME NEW e \in Conns, Close(e) \/ CheckLiveness(e) \/ Teardown(e)
      PROVE  Slots'
  <2>1. slot' \in {slot, NoConn}
    BY <1>7 DEF Close, CheckLiveness, Teardown, Unmap, UnregisterNode, MarkOffline
  <2>2. \A c \in Conns : conn'[c].old = conn[c].old /\ (Mapped(c) => Mapped(c)')
    BY <1>7, TeardownField DEF Mapped
  <2> QED
    BY <1>3, <2>1, <2>2
<1>8. CASE CloseLocked
  <2>1. slot' = slot
    BY <1>8 DEF CloseLocked
  <2>2. \A c \in Conns : conn'[c].old = conn[c].old /\ (Mapped(c) => Mapped(c)')
    BY <1>8, Typed DEF CloseLocked, Mapped, Conn
  <2> QED
    BY <1>3, <2>1, <2>2
<1>9. ASSUME NEW e \in Conns, Dial(e)
      PROVE  Slots'
  <2>1. slot' = slot /\ conn[e].reg = "unborn"
    BY <1>9 DEF Dial
  <2>2. \A c \in Conns : conn'[c].old = conn[c].old /\ (Mapped(c) => Mapped(c)')
    BY <1>9, Typed DEF Dial, Mapped, Conn
  <2> QED
    BY <1>3, <2>1, <2>2
<1> QED
  BY <1>1, <1>2, <1>4, <1>5, <1>6, <1>7, <1>8, <1>9, RoutingCases DEF Register

\* what is acknowledged or stranded stays so
LEMMA SettledStep ==
  ASSUME TypeOK, [Next]_vars, NEW m \in Frames, Settled(m)
  PROVE  Settled(m)'
<1>h. history \in HistoryType
  BY Typed
<1>0. CASE history' = history
  BY <1>0 DEF Settled
<1>1. ASSUME NEW ms, Strand(ms)
      PROVE  Settled(m)'
  BY <1>h, <1>1 DEF Strand, Settled, HistoryType
<1>2. ASSUME NEW c \in Conns, Register(c)
      PROVE  Settled(m)'
  <2>1. CASE RegisterMap(c) \/ Supersede(c)
    <3>1. history' = history \/ \E b : history' = [history EXCEPT !.overlap = b]
      BY <2>1 DEF RegisterMap, Supersede
    <3> QED
      BY <1>h, <3>1 DEF Settled, HistoryType
  <2>2. CASE Migrate(c)
    BY <1>0, <1>1, <2>2 DEF Migrate
  <2>3. CASE Superseded(c) \/ RegisterNode(c)
    BY <1>0, <2>3 DEF Superseded, RegisterNode
  <2> QED
    BY <1>2, <2>1, <2>2, <2>3 DEF Register
<1>3. ASSUME NEW c \in Conns, Teardown(c) \/ Close(c)
      PROVE  Settled(m)'
  BY <1>0, <1>1, <1>3 DEF Teardown, Close, Unmap, UnregisterNode, MarkOffline
<1>7. ASSUME NEW c \in Conns, CheckLiveness(c)
      PROVE  Settled(m)'
  BY <1>h, <1>7 DEF CheckLiveness, Settled, HistoryType
<1>4. ASSUME NEW f \in Frames, SendFrame(f)
      PROVE  Settled(m)'
  BY <1>0, <1>1, <1>4 DEF SendFrame, Lookup, CheckClosed, TrackFrame, Enqueue
<1>5. ASSUME NEW c \in Conns, Pumps(c)
      PROVE  Settled(m)'
  <2>1. CASE WritePump(c) \/ ReadHello(c)
    BY <1>0, <2>1 DEF WritePump, ReadHello
  <2>2. CASE MarkOnline(c)
    BY <1>h, <2>2 DEF MarkOnline, Settled, HistoryType
  <2>3. ASSUME NEW f \in Frames, Retransmit(c, f) \/ GiveUp(c, f)
        PROVE  Settled(m)'
    BY <1>0, <1>1, <2>3 DEF Retransmit, GiveUp
  <2>4. ASSUME NEW f \in Frames, ReadAck(c, f)
        PROVE  Settled(m)'
    BY <1>h, <2>4 DEF ReadAck, Settled, HistoryType
  <2> QED
    BY <1>5, <2>1, <2>2, <2>3, <2>4 DEF Pumps
<1>6. CASE CloseDevice \/ CloseLocked \/ CloseDeviceReturns \/ Device \/ UNCHANGED vars
  BY <1>0, <1>6 DEF CloseDevice, CloseLocked, CloseDeviceReturns, Device, Dial, Receive,
     Hangup, Restart, vars
<1> QED
  BY <1>2, <1>3, <1>4, <1>5, <1>6, <1>7 DEF Next

\* Retransmission and the counting of retries leave a frame tracked; only an
\* acknowledgement or the last retry takes it out of the tracker.
LEMMA StillPending ==
  ASSUME TypeOK, NEW m \in Frames, NEW c \in Conns, m \in Pending(c),
         \/ UNCHANGED conn
         \/ \E f \in Frames : SendFrame(f)
         \/ \E e \in Conns : Pumps(e)
  PROVE  m \in Pending(c)' \/ Settled(m)'
<1>p. conn[c].acks[m] # Untracked
  BY DEF Pending
<1>0. ASSUME conn'[c].acks[m] = conn[c].acks[m]
      PROVE  m \in Pending(c)'
  BY <1>0, <1>p DEF Pending
<1>1. ASSUME NEW f \in Frames, TrackFrame(f)
      PROVE  m \in Pending(c)'
  <2>1. send[f].conn \in Conns
    BY <1>1 DEF TrackFrame, TypeOK
  <2>2. conn'[c].acks[m] \in {0, conn[c].acks[m]}
    BY <1>1, <2>1, Typed DEF TrackFrame, Track, Conn
  <2>3. conn'[c].acks[m] # Untracked
    BY <2>2, <1>p DEF Untracked
  <2> QED
    BY <2>3 DEF Pending
<1>2. ASSUME NEW f \in Frames, Lookup(f) \/ CheckClosed(f) \/ Enqueue(f)
      PROVE  m \in Pending(c)'
  <2>1. conn'[c].acks[m] = conn[c].acks[m]
    <3>1. CASE Lookup(f) \/ CheckClosed(f)
      BY <3>1 DEF Lookup, CheckClosed
    <3>2. CASE Enqueue(f)
      BY <3>2, Typed DEF Enqueue, Conn
    <3> QED
      BY <1>2, <3>1, <3>2
  <2> QED
    BY <2>1, <1>0
<1>3. ASSUME NEW e \in Conns, WritePump(e) \/ ReadHello(e) \/ MarkOnline(e)
      PROVE  m \in Pending(c)'
  <2>1. conn'[c].acks[m] = conn[c].acks[m]
    <3>1. CASE WritePump(e)
      BY <3>1, Typed DEF WritePump, Conn
    <3>2. CASE ReadHello(e)
      BY <3>2, Typed DEF ReadHello, Conn
    <3>3. CASE MarkOnline(e)
      BY <3>3, Typed DEF MarkOnline, Conn
    <3> QED
      BY <1>3, <3>1, <3>2, <3>3
  <2> QED
    BY <2>1, <1>0
<1>4. ASSUME NEW e \in Conns, NEW f \in Frames, Retransmit(e, f)
      PROVE  m \in Pending(c)'
  <2> DEFINE n     == conn[e].acks[f] + 1
             count == [conn[e].acks EXCEPT ![f] = n]
             queue == Offer(conn[e].out, f)
             row   == [conn[e] EXCEPT !.acks = count, !.out = queue]
  <2>1. n # Untracked
    BY <1>4, Typed DEF Retransmit, Untracked
  <2>2. conn' = [conn EXCEPT ![e] = row]
    BY <1>4, Typed DEF Retransmit, Conn
  <2> HIDE DEF n, queue
  <2>3. CASE c = e
    <3>1. conn'[c].acks[m] = count[m]
      BY <2>2, <2>3, Typed DEF Conn
    <3>2. count[m] # Untracked
      BY <1>p, <2>1, <2>3, Typed
    <3> QED
      BY <3>1, <3>2 DEF Pending
  <2>4. CASE c # e
    <3>1. conn'[c] = conn[c]
      BY <2>2, <2>4, Typed
    <3> QED
      BY <3>1, <1>0
  <2> QED
    BY <2>3, <2>4
<1>5. ASSUME NEW e \in Conns, NEW f \in Frames, GiveUp(e, f)
      PROVE  m \in Pending(c)' \/ Settled(m)'
  <2>1. CASE f = m
    BY <1>5, <2>1, Typed DEF GiveUp, Strand, Settled, HistoryType
  <2>2. CASE f # m
    <3>1. conn'[c].acks[m] = conn[c].acks[m]
      BY <1>5, <2>2, Typed DEF GiveUp, Conn
    <3> QED
      BY <3>1, <1>0
  <2> QED
    BY <2>1, <2>2
<1>6. ASSUME NEW e \in Conns, NEW f \in Frames, ReadAck(e, f)
      PROVE  m \in Pending(c)' \/ Settled(m)'
  <2>1. CASE f = m
    BY <1>6, <2>1, Typed DEF ReadAck, Settled, HistoryType
  <2>2. CASE f # m
    <3>1. conn'[c].acks[m] = conn[c].acks[m]
      BY <1>6, <2>2, Typed DEF ReadAck, Conn
    <3> QED
      BY <3>1, <1>0
  <2> QED
    BY <2>1, <2>2
<1>7. CASE UNCHANGED conn
  BY <1>7, <1>0
<1> QED
  BY <1>1, <1>2, <1>3, <1>4, <1>5, <1>6, <1>7 DEF SendFrame, Pumps

\* A frame stays where it will be found: Register moves it to the connection
\* that takes over, or counts it as stranded when that one has been replaced too.
LEMMA SafeStep ==
  ASSUME TypeOK, Slots, [Next]_vars, NEW m \in Frames, Safe(m)
  PROVE  Safe(m)'
<1> SUFFICES ASSUME NEW c \in Conns, m \in Pending(c), ~Abandoned(c)
             PROVE  Safe(m)'
  BY SettledStep DEF Safe
<1>a. Mapped(c) => \/ slot = c
                   \/ \E d \in Conns : conn[d].old = c /\ conn[d].reg = "migrate"
  BY DEF Abandoned
<1>0. ASSUME m \in Pending(c)' \/ Settled(m)', ~Abandoned(c)'
      PROVE  Safe(m)'
  BY <1>0 DEF Safe
<1>1. ASSUME conn'[c].acks = conn[c].acks
      PROVE  m \in Pending(c)'
  BY <1>1 DEF Pending
<1>2. ASSUME NEW e \in Conns, RegisterMap(e)
      PROVE  Safe(m)'
  <2>1. /\ slot' = e /\ conn[e].reg = "dialed"
        /\ \A d \in Conns \ {e} : conn'[d] = conn[d]
        /\ conn'[e].old = slot /\ conn'[e].acks = conn[e].acks
        /\ slot # NoConn => conn'[e].reg = "migrate"
    BY <1>2, Typed DEF RegisterMap, Conn
  <2>2. conn'[c].acks = conn[c].acks
    BY <2>1
  <2>3. ~Abandoned(c)'
    BY <1>a, <2>1 DEF Abandoned, Mapped
  <2> QED
    BY <1>0, <1>1, <2>2, <2>3
<1>3. ASSUME NEW e \in Conns, Migrate(e)
      PROVE  Safe(m)'
  <2> DEFINE pending == Pending(conn[e].old)
             tracked == [f \in Frames |-> IF f \in pending THEN 0 ELSE conn[e].acks[f]]
  <2>1. PICK q : conn' = [conn EXCEPT ![e].reg = "close", ![e].acks = tracked, ![e].out = q]
    BY <1>3 DEF Migrate
  <2>2. /\ slot' = slot /\ conn[e].reg = "migrate"
        /\ Abandoned(e) => Strand(pending)
    BY <1>3 DEF Migrate
  <2> HIDE DEF tracked
  <2>3. /\ \A d \in Conns \ {e} : conn'[d] = conn[d]
        /\ conn'[e].reg = "close" /\ conn'[e].old = conn[e].old /\ conn'[e].acks = tracked
    BY <2>1, Typed DEF Conn
  <2>4. ASSUME NEW d \in Conns, d # conn[e].old, ~Abandoned(d)
        PROVE  ~Abandoned(d)'
    BY <2>2, <2>3, <2>4 DEF Abandoned, Mapped
  <2>5. conn[e].old # e
    BY DEF Slots
  <2>6. CASE c = conn[e].old
    <3>1. m \in Pending(e)'
      <4>1. tracked[m] = 0
        BY <2>6 DEF tracked
      <4> QED
        BY <2>3, <4>1 DEF Pending, Untracked
    <3>2. CASE Abandoned(e)
      BY <2>2, <2>6, <3>2, Typed DEF Strand, Safe, Settled, HistoryType
    <3>3. CASE ~Abandoned(e)
      BY <2>4, <2>5, <3>1, <3>3 DEF Safe
    <3> QED
      BY <3>2, <3>3
  <2>7. CASE c # conn[e].old
    <3>1. m \in Pending(c)'
      <4>1. CASE c = e
        <5>1. tracked[m] \in {0, conn[e].acks[m]} /\ conn[e].acks[m] # Untracked
          BY <4>1 DEF tracked, Pending
        <5> QED
          BY <2>3, <4>1, <5>1 DEF Pending, Untracked
      <4>2. CASE c # e
        BY <2>3, <4>2, <1>1
      <4> QED
        BY <4>1, <4>2
    <3> QED
      BY <1>0, <2>4, <2>7, <3>1
  <2> QED
    BY <2>6, <2>7
<1>4. ASSUME NEW e \in Conns, Supersede(e)
      PROVE  Safe(m)'
  <2>1. /\ slot' = slot /\ conn[e].reg = "close"
        /\ \/ conn' = [conn EXCEPT ![e].reg = "closing", ![conn[e].old].close = "unmap"]
           \/ conn' = [conn EXCEPT ![e].reg = "registry"]
    BY <1>4 DEF Supersede
  <2>2. /\ conn'[e].reg \in {"closing", "registry"}
        /\ \A d \in Conns \ {e} : conn'[d].reg = conn[d].reg
        /\ \A d \in Conns : conn'[d].old = conn[d].old /\ conn'[d].acks = conn[d].acks
    <3>1. CASE conn' = [conn EXCEPT ![e].reg = "closing", ![conn[e].old].close = "unmap"]
      BY <3>1, Superseding
    <3>2. CASE conn' = [conn EXCEPT ![e].reg = "registry"]
      BY <3>2, RegField
    <3> QED
      BY <2>1, <3>1, <3>2
  <2>3. ~Abandoned(c)'
    BY <1>a, <2>1, <2>2 DEF Abandoned, Mapped
  <2> QED
    BY <1>0, <1>1, <2>2, <2>3
<1>5. ASSUME NEW e \in Conns, Superseded(e) \/ RegisterNode(e)
      PROVE  Safe(m)'
  <2>1. /\ slot' = slot /\ conn[e].reg \in {"closing", "registry"}
        /\ conn'[e].reg \in {"registry", "served"}
        /\ \A d \in Conns \ {e} : conn'[d].reg = conn[d].reg
        /\ \A d \in Conns : conn'[d].old = conn[d].old /\ conn'[d].acks = conn[d].acks
    <3>1. CASE Superseded(e)
      BY <3>1, RegField DEF Superseded
    <3>2. CASE RegisterNode(e)
      BY <3>2, RegField DEF RegisterNode
    <3> QED
      BY <1>5, <3>1, <3>2
  <2>2. ~Abandoned(c)'
    BY <1>a, <2>1 DEF Abandoned, Mapped
  <2> QED
    BY <1>0, <1>1, <2>1, <2>2
<1>6. ASSUME NEW e \in Conns, Close(e) \/ CheckLiveness(e) \/ UnregisterNode(e) \/ MarkOffline(e) \/ CloseLocked
      PROVE  Safe(m)'
  <2>1. slot' = slot
    BY <1>6 DEF Close, CheckLiveness, UnregisterNode, MarkOffline, CloseLocked
  <2>2. \A d \in Conns : /\ conn'[d].reg = conn[d].reg
                         /\ conn'[d].old = conn[d].old
                         /\ conn'[d].acks = conn[d].acks
    BY <1>6, TeardownField DEF Teardown
  <2>3. ~Abandoned(c)'
    BY <1>a, <2>1, <2>2 DEF Abandoned, Mapped
  <2> QED
    BY <1>0, <1>1, <2>2, <2>3
<1>7. ASSUME NEW e \in Conns, Unmap(e)
      PROVE  Safe(m)'
  <2>1. \A d \in Conns : /\ conn'[d].reg = conn[d].reg
                         /\ conn'[d].old = conn[d].old
                         /\ conn'[d].acks = conn[d].acks
    BY <1>7, TeardownField DEF Teardown
  <2>2. CASE slot = e /\ c = e
    <3>1. Strand(Pending(c))
      BY <1>7, <2>2 DEF Unmap
    <3> QED
      BY <3>1, Typed DEF Strand, Safe, Settled, HistoryType
  <2>3. CASE ~(slot = e /\ c = e)
    <3>1. slot = c => slot' = c
      BY <1>7, <2>3 DEF Unmap
    <3>2. ~Abandoned(c)'
      BY <1>a, <2>1, <3>1 DEF Abandoned, Mapped
    <3> QED
      BY <1>0, <1>1, <2>1, <3>2
  <2> QED
    BY <2>2, <2>3
<1>8. ASSUME NEW e \in Conns, Dial(e)
      PROVE  Safe(m)'
  <2>1. /\ slot' = slot /\ conn[e].reg = "unborn" /\ conn'[e].reg = "dialed"
        /\ \A d \in Conns \ {e} : conn'[d].reg = conn[d].reg
        /\ \A d \in Conns : conn'[d].old = conn[d].old /\ conn'[d].acks = conn[d].acks
    BY <1>8, RegField DEF Dial
  <2>2. ~Abandoned(c)'
    BY <1>a, <2>1 DEF Abandoned, Mapped
  <2> QED
    BY <1>0, <1>1, <2>1, <2>2
<1>9. CASE \/ UNCHANGED conn
           \/ \E f \in Frames : SendFrame(f)
           \/ \E e \in Conns : Pumps(e)
  <2>1. CASE Steady
    <3>1. ~Abandoned(c)'
      BY <1>a, <2>1 DEF Steady, Abandoned, Mapped
    <3> QED
      BY <1>0, <1>9, <3>1, StillPending
  <2> QED
    BY <1>2, <1>3, <1>4, <1>5, <1>6, <1>7, <1>8, <2>1, RoutingCases DEF Register, Teardown
<1>10. CASE \/ UNCHANGED vars \/ CloseDevice \/ CloseDeviceReturns
            \/ \E e \in Conns : Receive(e)
  BY <1>9, <1>10 DEF vars, CloseDevice, CloseDeviceReturns, Receive, Hangup, Restart
<1>11. CASE Hangup \/ Restart
  BY <1>9, <1>11 DEF Hangup, Restart
<1> QED
  BY <1>2, <1>3, <1>4, <1>5, <1>6, <1>7, <1>8, <1>9, <1>10, <1>11
     DEF Next, Register, Teardown, Device

\* a SendFrame goes on only after its frame was tracked
LEMMA TrackingStep ==
  ASSUME TypeOK, Slots, Tracking, [Next]_vars
  PROVE  Tracking'
<1> SUFFICES ASSUME NEW m \in Frames, send'[m].pc \in {"tracked", "sent"}
             PROVE  Safe(m)'
  BY DEF Tracking
<1>1. CASE send[m].pc \in {"tracked", "sent"}
  BY <1>1, SafeStep DEF Tracking
<1>2. CASE send[m].pc \notin {"tracked", "sent"}
  <2>s. send \in [Frames -> SendCall]
    BY DEF TypeOK
  <2>1. send' # send
    BY <1>2
  <2>2. PICK f \in Frames : SendFrame(f)
    BY <2>1, ZenonT(60) DEF Next, vars, Register, RegisterMap, Migrate, Supersede, Superseded,
       RegisterNode, Teardown, Unmap, UnregisterNode, MarkOffline, Close, CheckLiveness, Pumps, WritePump,
       ReadHello, MarkOnline, Retransmit, GiveUp, ReadAck, CloseDevice, CloseLocked,
       CloseDeviceReturns, Device, Dial, Receive, Hangup, Restart
  <2>3. f = m
    BY <1>2, <2>2, <2>s DEF SendFrame, Lookup, CheckClosed, TrackFrame, Enqueue
  <2>4. TrackFrame(m)
    BY <1>2, <2>2, <2>3, <2>s DEF SendFrame, Lookup, CheckClosed, TrackFrame, Enqueue, SendCall
  <2>5. PICK c \in Conns : c = send[m].conn
    BY <2>4 DEF TrackFrame, TypeOK
  <2>6. conn'[c].acks[m] = 0
    BY <2>4, <2>5, Typed DEF TrackFrame, Track, Conn
  <2>7. CASE Abandoned(c)
    <3>1. Strand({m})
      BY <2>4, <2>5, <2>7 DEF TrackFrame
    <3> QED
      BY <3>1, Typed DEF Strand, Safe, Settled, HistoryType
  <2>8. CASE ~Abandoned(c)
    <3>1. Steady
      BY <2>2, SendSteady
    <3>2. ~Abandoned(c)'
      BY <2>5, <2>8, <3>1 DEF Steady, Abandoned, Mapped
    <3>3. m \in Pending(c)'
      BY <2>6 DEF Pending, Untracked
    <3> QED
      BY <2>5, <3>2, <3>3 DEF Safe
  <2> QED
    BY <2>7, <2>8
<1> QED
  BY <1>1, <1>2

\* An accepted frame is acknowledged, tracked where it will be found, or stranded
\* for one of the three reasons AcceptedIsTracked names.
THEOREM AcceptedHolds == Spec => []AcceptedIsTracked
<1>1. Init => Slots /\ Tracking
  BY DEF Init, Slots, Tracking, Fresh
<1>2. TypeOK /\ Slots /\ Tracking /\ [Next]_vars => Slots' /\ Tracking'
  BY SlotsStep, TrackingStep
<1>3. Tracking => AcceptedIsTracked
  BY DEF Tracking, Safe, Settled, AcceptedIsTracked
<1> QED
  BY <1>1, <1>2, <1>3, TypeCorrect, PTL DEF Spec

-----------------------------------------------------------------------------
(* The registry and devices.status                                         *)

\* a connection that is not yet, or no longer, any goroutine's business
Out(d)     == conn[d].reg \in {"unborn", "dialed"} \/ conn[d].close = "closed"

\* one that is not in the map and not yet closed
Leaving(d) == d # slot /\ ~Out(d)

\* no connection in the map has been registered to the end
Unserved   == slot = NoConn \/ conn[slot].reg # "served"

\* nothing happens to a connection before it is registered; and CloseDevice,
\* once it has closed the connection, holds the hub's mutex for ever
Births ==
    /\ \A d \in Conns : /\ conn[d].reg # "served" => conn[d].hello = "none"
                        /\ ~Mapped(d) => conn[d].close = "open"
                        /\ conn[d].old # NoConn => Mapped(conn[d].old)
                        /\ conn[d].reg \in {"migrate", "close", "closing"} => conn[d].old # NoConn
    /\ admin.pc # "idle" => Mapped(admin.conn)
    /\ admin.pc = "closing" => conn[admin.conn].close = "unmap"

\* the parts of the agreement: who is being registered is in the map
Registers == \A d \in Conns : conn[d].reg \in {"migrate", "close", "closing", "registry"} => d = slot

\* one connection leaves at a time
OneLeaves == \A d, e \in Conns : Leaving(d) /\ Leaving(e) => d = e

\* it is the one that the connection in the map supersedes, or left the map itself
LeavesInTurn ==
    \A d \in Conns : Leaving(d) =>
        /\ conn[d].reg = "served" /\ Unserved
        /\ slot = NoConn => conn[d].close \in {"unregister", "offline"}
        /\ slot # NoConn => d = conn[slot].old /\ conn[slot].reg \in {"migrate", "close", "closing"}
        /\ conn[d].close = "offline" => ~registry

\* what is in the map is registered and online when it is served
Arrives ==
    slot # NoConn =>
        /\ conn[slot].reg # "served" => conn[slot].close = "open"
        /\ conn[slot].reg = "closing" => conn[conn[slot].old].close # "open"
        /\ conn[slot].reg = "served" =>
             /\ conn[slot].close \in {"open", "unmap"}
             /\ conn[slot].close = "open" => registry /\ (status = "online" <=> conn[slot].hello = "done")

\* with nobody served or leaving the device is offline
NobodyThere == Unserved /\ (\A d \in Conns : ~Leaving(d)) => ~registry /\ status = "offline"

InTurn == ~history.overlap /\ ~history.late /\ admin.pc # "closing"
Parts  == Registers /\ OneLeaves /\ LeavesInTurn /\ Arrives /\ NobodyThere
Agree  == InTurn => Parts

\* what a step does to the fields of connection e, and to no other
Fields(e, r, k, h, o) ==
    /\ conn'[e].reg = r /\ conn'[e].close = k /\ conn'[e].hello = h /\ conn'[e].old = o
    /\ \A d \in Conns \ {e} : /\ conn'[d].reg = conn[d].reg /\ conn'[d].close = conn[d].close
                              /\ conn'[d].hello = conn[d].hello /\ conn'[d].old = conn[d].old

\* a step that touches the queues and the trackers only
Still ==
    /\ \A d \in Conns : /\ conn'[d].reg = conn[d].reg /\ conn'[d].close = conn[d].close
                        /\ conn'[d].hello = conn[d].hello /\ conn'[d].old = conn[d].old
    /\ UNCHANGED <<slot, registry, status>>
    /\ history'.overlap = history.overlap /\ history'.late = history.late

LEMMA RegisterFields ==
  ASSUME TypeOK, NEW e \in Conns
  PROVE  /\ RegisterMap(e) => Fields(e, IF slot = NoConn THEN "registry" ELSE "migrate",
                                     conn[e].close, conn[e].hello, slot)
         /\ Migrate(e) => Fields(e, "close", conn[e].close, conn[e].hello, conn[e].old)
         /\ Superseded(e) => Fields(e, "registry", conn[e].close, conn[e].hello, conn[e].old)
         /\ RegisterNode(e) => Fields(e, "served", conn[e].close, conn[e].hello, conn[e].old)
         /\ Dial(e) => Fields(e, "dialed", conn[e].close, conn[e].hello, conn[e].old)
         /\ ReadHello(e) => Fields(e, conn[e].reg, conn[e].close, "handling", conn[e].old)
         /\ MarkOnline(e) => Fields(e, conn[e].reg, conn[e].close, "done", conn[e].old)
         /\ Close(e) \/ CheckLiveness(e) => Fields(e, conn[e].reg, "unmap", conn[e].hello, conn[e].old)
         /\ Unmap(e) => Fields(e, conn[e].reg, "unregister", conn[e].hello, conn[e].old)
         /\ UnregisterNode(e) => Fields(e, conn[e].reg, "offline", conn[e].hello, conn[e].old)
         /\ MarkOffline(e) => Fields(e, conn[e].reg, "closed", conn[e].hello, conn[e].old)
         /\ CloseLocked /\ admin.conn = e => Fields(e, conn[e].reg, "unmap", conn[e].hello, conn[e].old)
<1>1. ASSUME RegisterMap(e)
      PROVE  Fields(e, IF slot = NoConn THEN "registry" ELSE "migrate", conn[e].close, conn[e].hello, slot)
  BY <1>1, Typed DEF RegisterMap, Fields, Conn
<1>2. ASSUME Migrate(e)
      PROVE  Fields(e, "close", conn[e].close, conn[e].hello, conn[e].old)
  <2>1. PICK a, q : conn' = [conn EXCEPT ![e].reg = "close", ![e].acks = a, ![e].out = q]
    BY <1>2, Zenon DEF Migrate
  <2> QED
    BY <2>1, Typed DEF Fields, Conn
<1>3. Superseded(e) => Fields(e, "registry", conn[e].close, conn[e].hello, conn[e].old)
  BY Typed DEF Superseded, Fields, Conn
<1>4. RegisterNode(e) => Fields(e, "served", conn[e].close, conn[e].hello, conn[e].old)
  BY Typed DEF RegisterNode, Fields, Conn
<1>5. Dial(e) => Fields(e, "dialed", conn[e].close, conn[e].hello, conn[e].old)
  BY Typed DEF Dial, Fields, Conn
<1>6. ReadHello(e) => Fields(e, conn[e].reg, conn[e].close, "handling", conn[e].old)
  BY Typed DEF ReadHello, Fields, Conn
<1>7. MarkOnline(e) => Fields(e, conn[e].reg, conn[e].close, "done", conn[e].old)
  BY Typed DEF MarkOnline, Fields, Conn
<1>8. Close(e) \/ CheckLiveness(e) => Fields(e, conn[e].reg, "unmap", conn[e].hello, conn[e].old)
  BY Typed DEF Close, CheckLiveness, Fields, Conn
<1>9. Unmap(e) => Fields(e, conn[e].reg, "unregister", conn[e].hello, conn[e].old)
  BY Typed DEF Unmap, Fields, Conn
<1>10. UnregisterNode(e) => Fields(e, conn[e].reg, "offline", conn[e].hello, conn[e].old)
  BY Typed DEF UnregisterNode, Fields, Conn
<1>11. MarkOffline(e) => Fields(e, conn[e].reg, "closed", conn[e].hello, conn[e].old)
  BY Typed DEF MarkOffline, Fields, Conn
<1>12. CloseLocked /\ admin.conn = e => Fields(e, conn[e].reg, "unmap", conn[e].hello, conn[e].old)
  BY Typed DEF CloseLocked, Fields, Conn
<1> QED
  BY <1>1, <1>2, <1>3, <1>4, <1>5, <1>6, <1>7, <1>8, <1>9, <1>10, <1>11, <1>12

LEMMA StillSteps ==
  ASSUME TypeOK,
         \/ \E m \in Frames : SendFrame(m)
         \/ \E c \in Conns : WritePump(c) \/ \E m \in Frames : Retransmit(c, m) \/ GiveUp(c, m) \/ ReadAck(c, m)
         \/ \E c \in Conns : Receive(c)
         \/ Hangup \/ Restart \/ CloseDevice \/ CloseDeviceReturns \/ UNCHANGED vars
  PROVE  Still
<1>h. history \in HistoryType
  BY Typed
<1>1. ASSUME NEW m \in Frames, SendFrame(m)
      PROVE  Still
  <2>1. CASE Lookup(m) \/ CheckClosed(m)
    BY <2>1 DEF Lookup, CheckClosed, Still
  <2>2. CASE TrackFrame(m)
    <3>1. send[m].conn \in Conns
      BY <2>2 DEF TrackFrame, TypeOK
    <3> QED
      BY <1>h, <2>2, <3>1, Typed DEF TrackFrame, Track, Strand, Still, Conn, HistoryType
  <2>3. CASE Enqueue(m)
    BY <2>3, Typed DEF Enqueue, Still, Conn
  <2> QED
    BY <1>1, <2>1, <2>2, <2>3 DEF SendFrame
<1>2. ASSUME NEW c \in Conns, WritePump(c)
      PROVE  Still
  BY <1>2, Typed DEF WritePump, Still, Conn
<1>3. ASSUME NEW c \in Conns, NEW m \in Frames, Retransmit(c, m)
      PROVE  Still
  BY <1>3, Typed DEF Retransmit, Still, Conn
<1>4. ASSUME NEW c \in Conns, NEW m \in Frames, GiveUp(c, m)
      PROVE  Still
  BY <1>4, <1>h, Typed DEF GiveUp, Strand, Still, Conn, HistoryType
<1>5. ASSUME NEW c \in Conns, NEW m \in Frames, ReadAck(c, m)
      PROVE  Still
  BY <1>5, <1>h, Typed DEF ReadAck, Still, Conn, HistoryType
<1>6. ASSUME (\E c \in Conns : Receive(c)) \/ Hangup \/ Restart \/ CloseDevice \/ CloseDeviceReturns \/ UNCHANGED vars
      PROVE  Still
  BY <1>6 DEF Receive, Hangup, Restart, CloseDevice, CloseDeviceReturns, vars, Still
<1> QED
  BY <1>1, <1>2, <1>3, <1>4, <1>5, <1>6

\* who holds the hub's mutex changes in the steps of CloseDevice only
LEMMA AdminStays ==
  ASSUME [Next]_vars, ~CloseDevice, ~CloseLocked, ~CloseDeviceReturns
  PROVE  admin' = admin
BY ZenonT(60) DEF Next, Register, RegisterMap, Migrate, Supersede, Superseded, RegisterNode, Teardown, Unmap,
       UnregisterNode, MarkOffline, Close, CheckLiveness, Pumps, WritePump, ReadHello, MarkOnline, Retransmit, GiveUp, ReadAck,
       SendFrame, Lookup, CheckClosed, TrackFrame, Enqueue, Device, Dial, Receive, Hangup, Restart, vars

\* A step touches queues and trackers only, or one connection, or supersedes.
LEMMA AgreementCases ==
  ASSUME TypeOK, [Next]_vars
  PROVE  \/ Still
         \/ \E c \in Conns : \/ Register(c) \/ Teardown(c) \/ Close(c) \/ CheckLiveness(c) \/ Dial(c)
                             \/ ReadHello(c) \/ MarkOnline(c)
         \/ CloseLocked
BY StillSteps DEF Next, Pumps, Device

\* Supersede closes the old connection, or goes on when it is closed already
LEMMA SupersedeFields ==
  ASSUME TypeOK, Slots, NEW e \in Conns, Supersede(e), NEW o, o = conn[e].old
  PROVE  /\ ~IsOpen(o) => /\ Fields(e, "registry", conn[e].close, conn[e].hello, o)
                          /\ history'.overlap = (history.overlap \/ conn[o].close # "closed")
                          /\ history'.late = history.late
         /\ IsOpen(o) => /\ o # e /\ UNCHANGED history
                         /\ conn'[e].reg = "closing" /\ conn'[e].close = conn[e].close
                         /\ o \in Conns => conn'[o].reg = conn[o].reg /\ conn'[o].close = "unmap"
                         /\ \A d \in Conns : conn'[d].hello = conn[d].hello /\ conn'[d].old = conn[d].old
                         /\ \A d \in Conns \ {e, o} : conn'[d].reg = conn[d].reg /\ conn'[d].close = conn[d].close
<1>1. o # e /\ history \in HistoryType
  BY Typed DEF Slots
<1>2. CASE IsOpen(o)
  <2>1. conn' = [conn EXCEPT ![e].reg = "closing", ![o].close = "unmap"] /\ UNCHANGED history
    BY <1>2 DEF Supersede
  <2> QED
    BY <1>1, <1>2, <2>1, Typed DEF Conn
<1>3. CASE ~IsOpen(o)
  <2>1. /\ conn' = [conn EXCEPT ![e].reg = "registry"]
        /\ history' = [history EXCEPT !.overlap = @ \/ conn[o].close # "closed"]
    BY <1>3 DEF Supersede
  <2>2. Fields(e, "registry", conn[e].close, conn[e].hello, o)
    BY <2>1, Typed DEF Fields, Conn
  <2>3. history'.overlap = (history.overlap \/ conn[o].close # "closed") /\ history'.late = history.late
    BY <1>1, <2>1 DEF HistoryType
  <2> QED
    BY <1>3, <2>2, <2>3
<1> QED
  BY <1>2, <1>3

LEMMA BirthsStep ==
  ASSUME TypeOK, Slots, Births, [Next]_vars
  PROVE  Births'
<1>t. /\ slot # NoConn => slot \in Conns /\ Mapped(slot)
      /\ admin.pc # "idle" => admin.conn \in Conns
      /\ \A d \in Conns : conn[d].old # NoConn => conn[d].old \in Conns
  BY Typed DEF Slots, TypeOK, Conn
<1>1. CASE Still
  <2>1. \A d \in Conns : Mapped(d)' = Mapped(d)
    BY <1>1 DEF Still, Mapped
  <2>2. admin' = admin \/ (admin'.pc = "idle") \/ (admin'.pc = "locked" /\ admin'.conn = slot /\ slot # NoConn)
        \/ CloseLocked
    BY AdminStays DEF CloseDevice, CloseDeviceReturns
  <2>3. ~CloseLocked
    <3>1. SUFFICES ASSUME CloseLocked PROVE FALSE
      OBVIOUS
    <3>2. PICK c \in Conns : c = admin.conn
      BY <1>t, <3>1 DEF CloseLocked
    <3>3. conn'[c].close = "unmap" /\ conn[c].close = "open"
      BY <3>1, <3>2, RegisterFields DEF Fields, CloseLocked, IsOpen
    <3> QED
      BY <1>1, <3>3 DEF Still
  <2>4. \A d \in Conns : Mapped(d) => conn'[d].reg \notin {"unborn", "dialed"}
    BY <2>1 DEF Mapped
  <2>5. ASSUME NEW d \in Conns, conn'[d].old # NoConn
        PROVE  conn'[conn'[d].old].reg \notin {"unborn", "dialed"}
    <3>1. PICK p : p = conn'[d].old
      OBVIOUS
    <3>2. p \in Conns /\ Mapped(p)
      BY <1>1, <1>t, <2>5, <3>1 DEF Births, Still
    <3> QED
      BY <2>4, <3>1, <3>2
  <2>6. ASSUME NEW d \in Conns
        PROVE  /\ conn'[d].reg # "served" => conn'[d].hello = "none"
               /\ conn'[d].reg \in {"unborn", "dialed"} => conn'[d].close = "open"
               /\ conn'[d].reg \in {"migrate", "close", "closing"} => conn'[d].old # NoConn
    BY <1>1 DEF Births, Still, Mapped
  <2>7. /\ admin'.pc # "idle" => conn'[admin'.conn].reg \notin {"unborn", "dialed"}
        /\ admin'.pc = "closing" => conn'[admin'.conn].close = "unmap"
    <3>1. CASE admin' = admin
      <4>1. admin.pc # "idle" => conn'[admin.conn].reg \notin {"unborn", "dialed"}
        BY <1>t, <2>4 DEF Births
      <4>2. admin.pc = "closing" => conn'[admin.conn].close = "unmap"
        BY <1>1, <1>t DEF Births, Still
      <4> QED
        BY <3>1, <4>1, <4>2
    <3>2. CASE admin' # admin
      BY <1>t, <2>2, <2>3, <2>4, <3>2
    <3> QED
      BY <3>1, <3>2
  <2> QED
    BY <2>5, <2>6, <2>7 DEF Births, Mapped
\* a step of one connection that is mapped, or becomes so before anything else happens to it
<1>2. ASSUME NEW e \in Conns, NEW r, NEW k, NEW h, NEW o, Fields(e, r, k, h, o),
             r # "served" => h = "none", r \in {"unborn", "dialed"} => k = "open" /\ ~Mapped(e),
             o = conn[e].old \/ (o # NoConn => o \in Conns /\ Mapped(o)),
             r \in {"migrate", "close", "closing"} => o # NoConn,
             admin.pc = "closing" /\ admin.conn = e => k = "unmap",
             admin' = admin
      PROVE  Births'
  <2>1. \A d \in Conns : Mapped(d) => Mapped(d)'
    BY <1>2 DEF Fields, Mapped
  <2>2. \A d \in Conns \ {e} : Mapped(d)' = Mapped(d)
    BY <1>2 DEF Fields, Mapped
  <2>3. ~Mapped(e)' => k = "open"
    BY <1>2 DEF Fields, Mapped
  <2>4. \A d \in Conns : Mapped(d) => conn'[d].reg \notin {"unborn", "dialed"}
    BY <2>1 DEF Mapped
  <2>5. ASSUME NEW d \in Conns, conn'[d].old # NoConn
        PROVE  conn'[conn'[d].old].reg \notin {"unborn", "dialed"}
    <3>1. PICK p : p = conn'[d].old
      OBVIOUS
    <3>2. p \in Conns /\ Mapped(p)
      BY <1>2, <1>t, <2>5, <3>1 DEF Births, Fields
    <3> QED
      BY <2>4, <3>1, <3>2
  <2>6. ASSUME NEW d \in Conns
        PROVE  /\ conn'[d].reg # "served" => conn'[d].hello = "none"
               /\ conn'[d].reg \in {"unborn", "dialed"} => conn'[d].close = "open"
               /\ conn'[d].reg \in {"migrate", "close", "closing"} => conn'[d].old # NoConn
    BY <1>2, <2>2, <2>3 DEF Births, Fields, Mapped
  <2>7. admin.pc # "idle" => conn'[admin.conn].reg \notin {"unborn", "dialed"}
    BY <1>t, <2>4 DEF Births
  <2>8. admin.pc = "closing" => conn'[admin.conn].close = "unmap"
    BY <1>2, <1>t DEF Births, Fields
  <2> QED
    BY <1>2, <2>5, <2>6, <2>7, <2>8 DEF Births, Mapped
<1>3. ASSUME NEW e \in Conns, RegisterMap(e)
      PROVE  Births'
  <2>1. admin' = admin /\ conn[e].reg = "dialed" /\ admin.pc = "idle"
    BY <1>3 DEF RegisterMap, HubUnlocked
  <2>2. Fields(e, IF slot = NoConn THEN "registry" ELSE "migrate", conn[e].close, conn[e].hello, slot)
    BY <1>3, RegisterFields
  <2>3. conn[e].hello = "none"
    BY <2>1 DEF Births
  <2>4. (IF slot = NoConn THEN "registry" ELSE "migrate") \notin {"unborn", "dialed", "served"}
    OBVIOUS
  <2> QED
    BY <1>2, <1>t, <2>1, <2>2, <2>3, <2>4
<1>4. ASSUME NEW e \in Conns, Migrate(e) \/ Superseded(e) \/ RegisterNode(e)
      PROVE  Births'
  <2>1. admin' = admin /\ conn[e].reg \in {"migrate", "closing", "registry"}
    BY <1>4 DEF Migrate, Superseded, RegisterNode
  <2>2. PICK r : /\ r \in {"close", "registry", "served"}
                 /\ Fields(e, r, conn[e].close, conn[e].hello, conn[e].old)
                 /\ r = "close" => conn[e].reg = "migrate"
    <3>1. CASE Migrate(e)
      BY <3>1, RegisterFields DEF Migrate
    <3>2. CASE Superseded(e) \/ RegisterNode(e)
      BY <3>2, RegisterFields
    <3> QED
      BY <1>4, <3>1, <3>2
  <2>3. conn[e].hello = "none"
    BY <2>1 DEF Births
  <2>4. admin.pc = "closing" /\ admin.conn = e => conn[e].close = "unmap"
    BY DEF Births
  <2>5. conn[e].reg = "migrate" => conn[e].old # NoConn
    BY DEF Births
  <2>6. r \notin {"unborn", "dialed"} /\ (r \in {"migrate", "close", "closing"} => conn[e].old # NoConn)
    BY <2>2, <2>5
  <2> QED
    BY <1>2, <2>1, <2>2, <2>3, <2>4, <2>6
<1>5. ASSUME NEW e \in Conns, Dial(e)
      PROVE  Births'
  <2>1. admin' = admin /\ conn[e].reg = "unborn" /\ ~Mapped(e)
    BY <1>5 DEF Dial, Mapped
  <2>2. Fields(e, "dialed", conn[e].close, conn[e].hello, conn[e].old)
    BY <1>5, RegisterFields
  <2>3. conn[e].hello = "none" /\ conn[e].close = "open"
    BY <2>1 DEF Births
  <2>4. admin.pc = "closing" /\ admin.conn = e => conn[e].close = "unmap"
    BY DEF Births
  <2> QED
    BY <1>2, <2>1, <2>2, <2>3, <2>4
<1>6. ASSUME NEW e \in Conns, ReadHello(e) \/ MarkOnline(e)
      PROVE  Births'
  <2>1. admin' = admin /\ (conn[e].hello # "none" \/ conn[e].reg = "served")
    BY <1>6 DEF ReadHello, MarkOnline, Served
  <2>2. conn[e].reg = "served" /\ admin' = admin
    BY <1>6, <2>1 DEF Births, ReadHello, MarkOnline
  <2>3. PICK h : Fields(e, conn[e].reg, conn[e].close, h, conn[e].old)
    BY <1>6, RegisterFields
  <2>4. admin.pc = "closing" /\ admin.conn = e => conn[e].close = "unmap"
    BY DEF Births
  <2> QED
    BY <1>2, <2>2, <2>3, <2>4
<1>7. ASSUME NEW e \in Conns, Close(e) \/ CheckLiveness(e) \/ Teardown(e)
      PROVE  Births'
  <2>1. /\ admin' = admin /\ (conn[e].close # "open" \/ Mapped(e))
        /\ conn[e].close = "unmap" => admin.pc = "idle"
        /\ Close(e) \/ CheckLiveness(e) => conn[e].close = "open"
    BY <1>7 DEF Close, CheckLiveness, Served, Mapped, IsOpen, Teardown, Unmap, UnregisterNode, MarkOffline, HubUnlocked
  <2>2. PICK k : Fields(e, conn[e].reg, k, conn[e].hello, conn[e].old)
    BY <1>7, RegisterFields DEF Teardown
  <2>3. Mapped(e)
    BY <2>1 DEF Births, Mapped
  <2>4. ~ (admin.pc = "closing" /\ admin.conn = e)
    BY <1>7, <2>1 DEF Births, Teardown, Unmap, UnregisterNode, MarkOffline
  <2>5. /\ conn[e].reg \notin {"unborn", "dialed"} /\ (conn[e].reg # "served" => conn[e].hello = "none")
        /\ conn[e].reg \in {"migrate", "close", "closing"} => conn[e].old # NoConn
    BY <2>3 DEF Births, Mapped
  <2> QED
    BY <1>2, <2>1, <2>2, <2>4, <2>5
<1>8. CASE CloseLocked
  <2>1. PICK e \in Conns : e = admin.conn
    BY <1>8, <1>t DEF CloseLocked
  <2>2. Fields(e, conn[e].reg, "unmap", conn[e].hello, conn[e].old)
    BY <1>8, <2>1, RegisterFields
  <2>3. Mapped(e) /\ admin'.conn = e /\ admin'.pc = "closing"
    BY <1>8, <2>1 DEF CloseLocked, Births, TypeOK
  <2>4. \A d \in Conns : Mapped(d)' = Mapped(d)
    BY <2>2 DEF Fields, Mapped
  <2>5. \A d \in Conns : Mapped(d) => conn'[d].reg \notin {"unborn", "dialed"}
    BY <2>4 DEF Mapped
  <2>6. ASSUME NEW d \in Conns, conn'[d].old # NoConn
        PROVE  conn'[conn'[d].old].reg \notin {"unborn", "dialed"}
    <3>1. PICK p : p = conn'[d].old
      OBVIOUS
    <3>2. p \in Conns /\ Mapped(p)
      BY <1>t, <2>2, <2>6, <3>1 DEF Births, Fields
    <3> QED
      BY <2>5, <3>1, <3>2
  <2>7. ASSUME NEW d \in Conns
        PROVE  /\ conn'[d].reg # "served" => conn'[d].hello = "none"
               /\ conn'[d].reg \in {"unborn", "dialed"} => conn'[d].close = "open"
               /\ conn'[d].reg \in {"migrate", "close", "closing"} => conn'[d].old # NoConn
    BY <2>2, <2>3 DEF Births, Fields, Mapped
  <2>8. conn'[admin'.conn].reg \notin {"unborn", "dialed"} /\ conn'[admin'.conn].close = "unmap"
    BY <2>2, <2>3, <2>5 DEF Fields
  <2> QED
    BY <2>6, <2>7, <2>8 DEF Births, Mapped
<1>9. ASSUME NEW e \in Conns, Supersede(e)
      PROVE  Births'
  <2>1. conn[e].reg = "close" /\ admin' = admin
    BY <1>9 DEF Supersede
  <2>2. PICK o : o = conn[e].old
    OBVIOUS
  <2>3. CASE Fields(e, "registry", conn[e].close, conn[e].hello, o)
    <3>1. conn[e].hello = "none" /\ (admin.pc = "closing" /\ admin.conn = e => conn[e].close = "unmap")
      BY <2>1 DEF Births
    <3>2. Fields(e, "registry", conn[e].close, conn[e].hello, conn[e].old)
      BY <2>2, <2>3
    <3>3. "registry" \notin {"unborn", "dialed"}
      OBVIOUS
    <3> QED
      BY <1>2, <2>1, <3>1, <3>2, <3>3
  <2>4. CASE ~ Fields(e, "registry", conn[e].close, conn[e].hello, o)
    <3>1. /\ IsOpen(o) /\ o # e
          /\ conn'[e].reg = "closing" /\ conn'[e].close = conn[e].close
          /\ o \in Conns => conn'[o].reg = conn[o].reg /\ conn'[o].close = "unmap"
          /\ \A d \in Conns : conn'[d].hello = conn[d].hello /\ conn'[d].old = conn[d].old
          /\ \A d \in Conns \ {e, o} : conn'[d].reg = conn[d].reg /\ conn'[d].close = conn[d].close
      BY <1>9, <2>2, <2>4, SupersedeFields
    <3>2. o \in Conns => Mapped(o)
      BY <1>t, <2>2 DEF Births
    <3>3. \A d \in Conns : Mapped(d)' = Mapped(d)
      BY <2>1, <3>1 DEF Mapped
    <3>4. conn[e].hello = "none"
      BY <2>1 DEF Births
    <3>5. \A d \in Conns : Mapped(d) => conn'[d].reg \notin {"unborn", "dialed"}
      BY <3>3 DEF Mapped
    <3>6. ASSUME NEW d \in Conns, conn'[d].old # NoConn
          PROVE  conn'[conn'[d].old].reg \notin {"unborn", "dialed"}
      <4>1. PICK p : p = conn'[d].old
        OBVIOUS
      <4>2. p \in Conns /\ Mapped(p)
        BY <1>t, <3>1, <3>6, <4>1 DEF Births
      <4> QED
        BY <3>5, <4>1, <4>2
    <3>7. ASSUME NEW d \in Conns
          PROVE  /\ conn'[d].reg # "served" => conn'[d].hello = "none"
                 /\ conn'[d].reg \in {"unborn", "dialed"} => conn'[d].close = "open"
                 /\ conn'[d].reg \in {"migrate", "close", "closing"} => conn'[d].old # NoConn
      BY <2>1, <3>1, <3>2, <3>4 DEF Births, Mapped
    <3>8. admin.pc # "idle" => conn'[admin.conn].reg \notin {"unborn", "dialed"}
      BY <1>t, <3>5 DEF Births
    <3>9. admin.pc = "closing" => conn'[admin.conn].close = "unmap"
      BY <1>t, <3>1 DEF Births, IsOpen
    <3> QED
      BY <2>1, <3>6, <3>7, <3>8, <3>9 DEF Births, Mapped
  <2> QED
    BY <2>3, <2>4
<1> QED
  BY <1>1, <1>3, <1>4, <1>5, <1>6, <1>7, <1>8, <1>9, AgreementCases DEF Register

\* CloseDevice waits for a teardown that waits for the mutex it holds
LEMMA ClosingStays ==
  ASSUME TypeOK, Births, [Next]_vars, admin.pc = "closing"
  PROVE  admin'.pc = "closing"
<1>1. ~CloseDevice /\ ~CloseLocked
  BY DEF CloseDevice, CloseLocked
<1>2. ~CloseDeviceReturns
  BY DEF CloseDeviceReturns, Births
<1> QED
  BY <1>1, <1>2, AdminStays

LEMMA InTurnBefore ==
  ASSUME TypeOK, Slots, Births, [Next]_vars, InTurn'
  PROVE  InTurn
<1>h. history \in HistoryType
  BY Typed
<1>1. admin.pc # "closing"
  BY ClosingStays DEF InTurn
<1>2. (history.overlap => history'.overlap) /\ (history.late => history'.late)
  <2>1. CASE Still
    BY <2>1 DEF Still
  <2>2. ASSUME NEW e \in Conns, RegisterMap(e) PROVE (history.overlap => history'.overlap) /\ (history.late => history'.late)
    BY <1>h, <2>2 DEF RegisterMap, HistoryType
  <2>3. ASSUME NEW ms, Strand(ms) PROVE (history.overlap => history'.overlap) /\ (history.late => history'.late)
    BY <1>h, <2>3 DEF Strand, HistoryType
  <2>4. ASSUME NEW e \in Conns, Migrate(e) \/ Unmap(e)
        PROVE  (history.overlap => history'.overlap) /\ (history.late => history'.late)
    BY <2>3, <2>4 DEF Migrate, Unmap
  <2>5. ASSUME NEW e \in Conns, Supersede(e) PROVE (history.overlap => history'.overlap) /\ (history.late => history'.late)
    BY <2>5, SupersedeFields
  <2>6. ASSUME NEW e \in Conns, MarkOnline(e) PROVE (history.overlap => history'.overlap) /\ (history.late => history'.late)
    BY <1>h, <2>6 DEF MarkOnline, HistoryType
  <2>7. ASSUME NEW e \in Conns, \/ Superseded(e) \/ RegisterNode(e) \/ UnregisterNode(e) \/ MarkOffline(e)
                                \/ Close(e) \/ Dial(e) \/ ReadHello(e) \/ CloseLocked
        PROVE  (history.overlap => history'.overlap) /\ (history.late => history'.late)
    BY <2>7 DEF Superseded, RegisterNode, UnregisterNode, MarkOffline, Close, Dial, ReadHello, CloseLocked
  <2>8. CASE CloseLocked
    BY <2>8 DEF CloseLocked
  <2>9. ASSUME NEW e \in Conns, CheckLiveness(e) PROVE (history.overlap => history'.overlap) /\ (history.late => history'.late)
    BY <1>h, <2>9 DEF CheckLiveness, HistoryType
  <2> QED
    BY <2>1, <2>2, <2>4, <2>5, <2>6, <2>7, <2>8, <2>9, AgreementCases DEF Register, Teardown
<1> QED
  BY <1>1, <1>2 DEF InTurn

LEMMA AgreeRegister ==
  ASSUME TypeOK, Slots, Births, Parts, NEW e \in Conns, Register(e), InTurn'
  PROVE  Parts'
<1>h. history \in HistoryType
  BY Typed
<1>t. /\ slot # NoConn => slot \in Conns /\ Mapped(slot)
      /\ \A d \in Conns : conn[d].old # d /\ (conn[d].old # NoConn => conn[d].old \in Conns /\ Mapped(conn[d].old))
      /\ NoConn \notin Conns
  BY Typed, TunnelConstantsOK DEF Slots, Conn, Births
<1>1. CASE RegisterMap(e)
  <2>1. /\ conn[e].reg = "dialed" /\ conn[e].close = "open" /\ conn[e].hello = "none" /\ Out(e)
        /\ slot' = e /\ UNCHANGED <<registry, status>> /\ slot # e
    BY <1>1, <1>t DEF RegisterMap, Births, Mapped, Out
  <2>2. \A d \in Conns \ {e} : /\ conn[d].close \in {"open", "closed"}
                               /\ conn[d].reg \notin {"migrate", "close", "closing", "registry"}
    <3>1. ~Overlaps(e)
      BY <1>1, <1>h DEF RegisterMap, InTurn, HistoryType
    <3> QED
      BY <3>1 DEF Overlaps
  <2>3. Fields(e, IF slot = NoConn THEN "registry" ELSE "migrate", "open", "none", slot)
    BY <1>1, <2>1, RegisterFields
  <2>4. \A d \in Conns \ {e} : Out(d)' = Out(d)
    BY <2>3 DEF Fields, Out
  <2>5. \A d \in Conns : Leaving(d) => FALSE
    <3>1. ASSUME NEW d \in Conns, Leaving(d) PROVE FALSE
      <4>1. d # e /\ d # slot
        BY <2>1, <3>1 DEF Leaving
      <4>2. conn[d].reg = "served" /\ Unserved /\ (slot = NoConn => conn[d].close \in {"unregister", "offline"})
            /\ (slot # NoConn => conn[slot].reg \in {"migrate", "close", "closing"})
        BY <3>1 DEF Parts, LeavesInTurn
      <4> QED
        BY <1>t, <2>1, <2>2, <4>1, <4>2
    <3> QED
      BY <3>1
  <2>6. CASE slot = NoConn
    <3>1. \A d \in Conns : ~Leaving(d)'
      BY <2>1, <2>4, <2>5, <2>6 DEF Leaving
    <3>2. ~registry /\ status = "offline"
      BY <2>5, <2>6 DEF Parts, NobodyThere, Unserved
    <3>3. conn'[e].reg = "registry" /\ conn'[e].close = "open"
      BY <2>3, <2>6 DEF Fields
    <3> QED
      BY <2>1, <2>2, <2>3, <3>1, <3>2, <3>3 DEF Parts, Registers, OneLeaves, LeavesInTurn, Arrives, NobodyThere, Fields
  <2>7. CASE slot # NoConn
    <3>1. PICK o \in Conns : o = slot
      BY <1>t, <2>7
    <3>2. conn[o].reg = "served" /\ conn[o].close \in {"open", "closed"} /\ o # e
      <4>1. Mapped(o) /\ o # e /\ conn[o] \in Conn
        BY <1>t, <2>1, <3>1, Typed
      <4> QED
        BY <2>2, <4>1 DEF Mapped, Conn, Registering
    <3>3. conn[o].close = "open"
      BY <3>1, <3>2, <2>7 DEF Parts, Arrives
    <3>4. conn'[e].reg = "migrate" /\ conn'[e].close = "open" /\ conn'[e].old = o
          /\ conn'[o].reg = "served" /\ conn'[o].close = "open"
      BY <2>3, <2>7, <3>1, <3>2, <3>3 DEF Fields
    <3>5. \A d \in Conns : Leaving(d)' => d = o
      BY <2>1, <2>4, <2>5, <3>1 DEF Leaving
    <3>6. Leaving(o)'
      BY <2>1, <3>2, <3>4 DEF Leaving, Out
    <3> QED
      BY <1>t, <2>1, <2>2, <2>3, <3>1, <3>4, <3>5, <3>6
         DEF Parts, Registers, OneLeaves, LeavesInTurn, Arrives, NobodyThere, Unserved, Fields
  <2> QED
    BY <2>6, <2>7
\* the statements of Register between the map and the registry: who leaves stays the same
<1>k. ASSUME NEW r, Fields(e, r, conn[e].close, conn[e].hello, conn[e].old),
             r = "close" \/ (r = "registry" /\ conn[conn[e].old].close = "closed"),
             conn[e].reg \in {"migrate", "close", "closing"}, UNCHANGED <<slot, registry, status>>
      PROVE  Parts'
  <2>1. slot = e /\ conn[e].close = "open" /\ Unserved
    BY <1>k, <1>t DEF Parts, Registers, Arrives, Unserved
  <2>2. \A d \in Conns : Leaving(d)' = Leaving(d)
    BY <1>k, <2>1 DEF Fields, Leaving, Out
  <2>3. Registers' /\ OneLeaves'
    BY <1>k, <2>1, <2>2 DEF Parts, Registers, OneLeaves, Fields
  <2>4. ASSUME NEW d \in Conns, Leaving(d)
        PROVE  /\ conn'[d].reg = "served" /\ d = conn'[e].old /\ r = "close"
               /\ conn'[d].close = "offline" => ~registry'
    <3>1. conn[d].reg = "served" /\ d = conn[e].old /\ (conn[d].close = "offline" => ~registry) /\ d # e
      BY <1>t, <2>1, <2>4 DEF Parts, LeavesInTurn, Leaving
    <3>2. conn[d].close # "closed"
      BY <2>4 DEF Leaving, Out
    <3> QED
      BY <1>k, <3>1, <3>2 DEF Fields
  <2>5. LeavesInTurn'
    BY <1>k, <1>t, <2>1, <2>2, <2>4 DEF LeavesInTurn, Unserved, Fields
  <2>6. Arrives'
    BY <1>k, <2>1 DEF Arrives, Fields
  <2>7. NobodyThere'
    BY <1>k, <2>1, <2>2 DEF Parts, NobodyThere
  <2> QED
    BY <2>3, <2>5, <2>6, <2>7 DEF Parts
<1>2. CASE Migrate(e)
  BY <1>2, <1>k, RegisterFields DEF Migrate
<1>3. CASE Superseded(e)
  BY <1>3, <1>k, RegisterFields DEF Superseded
<1>4. CASE Supersede(e)
  <2>1. conn[e].reg = "close" /\ UNCHANGED <<slot, registry, status>>
    BY <1>4 DEF Supersede
  <2>2. PICK o \in Conns : o = conn[e].old /\ o # e /\ Mapped(o)
    BY <1>t, <2>1 DEF Births
  <2>3. CASE ~IsOpen(o)
    <3>1. Fields(e, "registry", conn[e].close, conn[e].hello, conn[e].old) /\ history'.overlap = (history.overlap \/ conn[o].close # "closed")
      BY <1>4, <2>2, <2>3, SupersedeFields
    <3>2. conn[o].close = "closed"
      BY <3>1 DEF InTurn
    <3> QED
      BY <1>k, <2>1, <2>2, <3>1, <3>2
  <2>4. CASE IsOpen(o)
    <3>1. /\ conn'[e].reg = "closing" /\ conn'[e].close = conn[e].close
          /\ conn'[o].reg = conn[o].reg /\ conn'[o].close = "unmap"
          /\ \A d \in Conns : conn'[d].hello = conn[d].hello /\ conn'[d].old = conn[d].old
          /\ \A d \in Conns \ {e, o} : conn'[d].reg = conn[d].reg /\ conn'[d].close = conn[d].close
      <4>1. o = conn[e].old /\ o \in Conns
        BY <2>2
      <4>2. /\ conn'[e].reg = "closing" /\ conn'[e].close = conn[e].close
            /\ o \in Conns => conn'[o].reg = conn[o].reg /\ conn'[o].close = "unmap"
            /\ \A d \in Conns : conn'[d].hello = conn[d].hello /\ conn'[d].old = conn[d].old
            /\ \A d \in Conns \ {e, o} : conn'[d].reg = conn[d].reg /\ conn'[d].close = conn[d].close
        BY <1>4, <2>4, <4>1, SupersedeFields
      <4> QED
        BY <4>1, <4>2
    <3>2. slot = e /\ conn[e].close = "open" /\ Unserved
      BY <1>t, <2>1 DEF Parts, Registers, Arrives, Unserved
    <3>3. Leaving(o) /\ conn[o].reg = "served"
      <4>1. Leaving(o)
        BY <2>2, <2>4, <3>2 DEF Leaving, Out, Mapped, IsOpen
      <4> QED
        BY <4>1 DEF Parts, LeavesInTurn
    <3>4. Leaving(o)' /\ \A d \in Conns : Leaving(d)' => d = o
      <4>1. \A d \in Conns : Leaving(d) => d = o
        BY <3>3 DEF Parts, OneLeaves
      <4>2. Leaving(o)'
        BY <2>1, <2>2, <3>1, <3>2, <3>3 DEF Leaving, Out
      <4>3. \A d \in Conns \ {e, o} : Leaving(d)' => Leaving(d)
        BY <2>1, <3>1 DEF Leaving, Out
      <4>4. ~Leaving(e)'
        BY <2>1, <3>2 DEF Leaving
      <4> QED
        BY <4>1, <4>2, <4>3, <4>4
    <3>5. Registers' /\ OneLeaves' /\ NobodyThere'
      BY <2>1, <2>2, <3>1, <3>2, <3>3, <3>4 DEF Parts, Registers, OneLeaves, NobodyThere
    <3>6. LeavesInTurn' /\ Arrives'
      BY <1>t, <2>1, <2>2, <3>1, <3>2, <3>3, <3>4 DEF LeavesInTurn, Arrives, Unserved
    <3> QED
      BY <3>5, <3>6 DEF Parts
  <2> QED
    BY <2>3, <2>4
<1>5. CASE RegisterNode(e)
  <2>1. conn[e].reg = "registry" /\ UNCHANGED <<slot, status>> /\ registry' = TRUE
    BY <1>5 DEF RegisterNode
  <2>2. Fields(e, "served", conn[e].close, conn[e].hello, conn[e].old)
    BY <1>5, RegisterFields
  <2>3. slot = e /\ conn[e].close = "open" /\ Unserved /\ conn[e].hello = "none"
    BY <1>t, <2>1 DEF Parts, Registers, Arrives, Unserved, Births
  <2>4. \A d \in Conns : ~Leaving(d)
    BY <1>t, <2>1, <2>3 DEF Parts, LeavesInTurn
  <2>5. status = "offline"
    BY <2>3, <2>4 DEF Parts, NobodyThere
  <2>6. \A d \in Conns : ~Leaving(d)'
    BY <2>1, <2>2, <2>3, <2>4 DEF Leaving, Out, Fields
  <2> QED
    BY <1>t, <2>1, <2>2, <2>3, <2>5, <2>6
       DEF Parts, Registers, OneLeaves, LeavesInTurn, Arrives, NobodyThere, Unserved, Fields
<1> QED
  BY <1>1, <1>2, <1>3, <1>4, <1>5 DEF Register

LEMMA AgreeClose ==
  ASSUME TypeOK, Slots, Births, Parts, NEW e \in Conns, Close(e) \/ Teardown(e)
  PROVE  Parts'
<1>t. /\ slot # NoConn => slot \in Conns /\ Mapped(slot)
      /\ \A d \in Conns : conn[d].old # NoConn => conn[d].old \in Conns
      /\ NoConn \notin Conns
  BY Typed, TunnelConstantsOK DEF Slots, Conn
<1>m. conn[e].close # "closed" => Leaving(e) \/ slot = e \/ ~Mapped(e)
  BY DEF Leaving, Out, Mapped
<1>1. CASE Close(e)
  <2>1. conn[e].reg = "served" /\ conn[e].close = "open" /\ UNCHANGED <<slot, registry, status>>
    BY <1>1 DEF Close, Served, IsOpen
  <2>2. Fields(e, conn[e].reg, "unmap", conn[e].hello, conn[e].old)
    BY <1>1, RegisterFields
  <2>3. \A d \in Conns : Leaving(d)' = Leaving(d)
    BY <2>1, <2>2 DEF Fields, Leaving, Out
  <2>4. Registers' /\ OneLeaves' /\ NobodyThere'
    BY <1>t, <2>1, <2>2, <2>3 DEF Parts, Registers, OneLeaves, NobodyThere, Fields, Unserved
  <2>5. LeavesInTurn'
    <3>1. ASSUME NEW d \in Conns, Leaving(d)
          PROVE  conn'[d].close = conn[d].close \/ (d = e /\ slot # NoConn)
      BY <2>1, <2>2, <3>1 DEF Fields, Parts, LeavesInTurn
    <3> QED
      BY <1>t, <2>1, <2>2, <2>3, <3>1, ZenonT(60) DEF Parts, LeavesInTurn, Fields, Unserved
  <2>6. Arrives'
    <3>1. slot = e => conn'[slot].close = "unmap"
      BY <2>2 DEF Fields
    <3>2. \A d \in Conns : conn[d].close # "open" => conn'[d].close # "open"
      BY <2>2 DEF Fields
    <3>3. slot # NoConn /\ conn[slot].reg = "closing" => conn[slot].old \in Conns
      BY <1>t DEF Births
    <3> QED
      BY <1>t, <2>1, <2>2, <3>1, <3>2, <3>3 DEF Parts, Arrives, Fields
  <2> QED
    BY <2>4, <2>5, <2>6 DEF Parts
<1>2. CASE Unmap(e)
  <2>1. conn[e].close = "unmap" /\ UNCHANGED <<registry, status>> /\ slot' = IF slot = e THEN NoConn ELSE slot
    BY <1>2 DEF Unmap
  <2>2. Fields(e, conn[e].reg, "unregister", conn[e].hello, conn[e].old)
    BY <1>2, RegisterFields
  <2>3. Mapped(e)
    BY <2>1 DEF Births
  <2>4. CASE slot = e
    <3>1. conn[e].reg = "served" /\ slot' = NoConn /\ slot # NoConn
      BY <1>t, <2>1, <2>4 DEF Parts, Arrives
    <3>2. \A d \in Conns : ~Leaving(d)
      BY <2>4, <3>1 DEF Parts, LeavesInTurn, Unserved
    <3>3. \A d \in Conns : Leaving(d)' => d = e
      BY <2>2, <2>4, <3>1, <3>2 DEF Leaving, Out, Fields
    <3>4. Leaving(e)'
      BY <1>t, <2>2, <3>1 DEF Leaving, Out, Fields
    <3>5. \A d \in Conns : conn'[d].reg = conn[d].reg
      BY <2>2 DEF Fields
    <3>6. Registers'
      BY <2>4, <3>1, <3>5 DEF Parts, Registers
    <3>7. LeavesInTurn'
      BY <2>2, <3>1, <3>3 DEF LeavesInTurn, Fields, Unserved
    <3> QED
      BY <3>1, <3>3, <3>4, <3>6, <3>7 DEF Parts, OneLeaves, Arrives, NobodyThere
  <2>5. CASE slot # e
    <3>1. Leaving(e) /\ slot' = slot
      BY <1>m, <2>1, <2>3, <2>5
    <3>2. slot # NoConn /\ Unserved /\ e = conn[slot].old
      BY <2>1, <3>1 DEF Parts, LeavesInTurn
    <3>3. \A d \in Conns : Leaving(d)' = Leaving(d)
      BY <2>1, <2>2, <3>1 DEF Fields, Leaving, Out
    <3>4. Registers' /\ OneLeaves' /\ NobodyThere'
      BY <1>t, <2>1, <2>2, <3>1, <3>3 DEF Parts, Registers, OneLeaves, NobodyThere, Fields, Unserved
    <3>5. LeavesInTurn'
      BY <1>t, <2>1, <2>2, <3>1, <3>2, <3>3, ZenonT(60) DEF Parts, LeavesInTurn, Fields, Unserved
    <3>6. Arrives'
      BY <1>t, <2>1, <2>2, <2>5, <3>1, <3>2, ZenonT(60) DEF Parts, Arrives, Fields, Unserved
    <3> QED
      BY <3>4, <3>5, <3>6 DEF Parts
  <2> QED
    BY <2>4, <2>5
\* from here the connection is leaving
<1>l. ASSUME conn[e].close \in {"unregister", "offline"}
      PROVE  /\ Leaving(e) /\ Unserved /\ conn[e].reg = "served" /\ slot # e
             /\ slot # NoConn => e = conn[slot].old
  <2>1. Mapped(e)
    BY <1>l DEF Births
  <2>2. slot # e
    BY <1>l, <1>t DEF Parts, Arrives
  <2> QED
    BY <1>l, <1>m, <2>1, <2>2 DEF Parts, LeavesInTurn
<1>3. CASE UnregisterNode(e)
  <2>1. conn[e].close = "unregister" /\ UNCHANGED <<slot, status>> /\ registry' = FALSE
    BY <1>3 DEF UnregisterNode
  <2>2. Fields(e, conn[e].reg, "offline", conn[e].hello, conn[e].old)
    BY <1>3, RegisterFields
  <2>3. \A d \in Conns : Leaving(d)' = Leaving(d)
    BY <2>1, <2>2 DEF Fields, Leaving, Out
  <2>4. Registers' /\ OneLeaves' /\ NobodyThere'
    BY <1>l, <2>1, <2>2, <2>3 DEF Parts, Registers, OneLeaves, NobodyThere, Fields
  <2>5. LeavesInTurn'
    BY <1>t, <1>l, <2>1, <2>2, <2>3 DEF Parts, LeavesInTurn, Fields, Unserved
  <2>6. Arrives'
    BY <1>t, <1>l, <2>1, <2>2 DEF Parts, Arrives, Fields, Unserved
  <2> QED
    BY <2>4, <2>5, <2>6 DEF Parts
<1>4. CASE MarkOffline(e)
  <2>1. conn[e].close = "offline" /\ UNCHANGED <<slot, registry>> /\ status' = "offline"
    BY <1>4 DEF MarkOffline
  <2>2. Fields(e, conn[e].reg, "closed", conn[e].hello, conn[e].old)
    BY <1>4, RegisterFields
  <2>3. \A d \in Conns : ~Leaving(d)'
    <3>1. \A d \in Conns : Leaving(d) => d = e
      BY <1>l, <2>1 DEF Parts, OneLeaves
    <3> QED
      BY <2>1, <2>2, <3>1 DEF Fields, Leaving, Out
  <2>4. ~registry
    BY <1>l, <2>1 DEF Parts, LeavesInTurn
  <2>5. Registers'
    BY <2>1, <2>2 DEF Parts, Registers, Fields
  <2>6. Arrives'
    BY <1>t, <1>l, <2>1, <2>2 DEF Parts, Arrives, Fields, Unserved
  <2> QED
    BY <2>1, <2>3, <2>4, <2>5, <2>6 DEF Parts, OneLeaves, LeavesInTurn, NobodyThere
<1> QED
  BY <1>1, <1>2, <1>3, <1>4 DEF Teardown

LEMMA AgreeDevice ==
  ASSUME TypeOK, Slots, Births, Parts, NEW e \in Conns, Dial(e) \/ ReadHello(e) \/ MarkOnline(e), InTurn'
  PROVE  Parts'
<1>t. /\ slot # NoConn => slot \in Conns /\ Mapped(slot)
      /\ NoConn \notin Conns /\ history \in HistoryType
  BY Typed, TunnelConstantsOK DEF Slots
<1>1. CASE Dial(e)
  <2>1. conn[e].reg = "unborn" /\ UNCHANGED <<slot, registry, status>> /\ slot # e
    BY <1>1, <1>t DEF Dial, Mapped
  <2>2. Fields(e, "dialed", conn[e].close, conn[e].hello, conn[e].old)
    BY <1>1, RegisterFields
  <2>3. \A d \in Conns : Leaving(d)' = Leaving(d)
    BY <2>1, <2>2 DEF Fields, Leaving, Out
  <2>4. Registers' /\ OneLeaves' /\ NobodyThere'
    BY <1>t, <2>1, <2>2, <2>3 DEF Parts, Registers, OneLeaves, NobodyThere, Fields, Unserved
  <2>5. LeavesInTurn'
    BY <1>t, <2>1, <2>2, <2>3, ZenonT(60) DEF Parts, LeavesInTurn, Fields, Unserved
  <2>6. \A d \in Conns : conn'[d].close = conn[d].close
    BY <2>2 DEF Fields
  <2>7. Arrives'
    <3>1. slot # NoConn /\ conn[slot].reg = "closing" => conn[slot].old \in Conns
      BY <1>t, Typed DEF Births, Conn
    <3> QED
      BY <1>t, <2>1, <2>2, <2>6, <3>1 DEF Parts, Arrives, Fields
  <2> QED
    BY <2>4, <2>5, <2>7 DEF Parts
<1>2. ASSUME NEW h, Fields(e, conn[e].reg, conn[e].close, h, conn[e].old), UNCHANGED <<slot, registry>>,
             Leaving(e) \/ slot = e,
             slot # e => status' = status \/ Unserved,
             slot = e => conn[e].reg = "served" /\ (conn[e].close = "open" => (status' = "online" <=> h = "done")),
             Unserved /\ (\A d \in Conns : ~Leaving(d)) => status' = status
      PROVE  Parts'
  <2>1. \A d \in Conns : /\ conn'[d].reg = conn[d].reg /\ conn'[d].close = conn[d].close /\ conn'[d].old = conn[d].old
                         /\ d # e => conn'[d].hello = conn[d].hello
    BY <1>2 DEF Fields
  <2>2. \A d \in Conns : Leaving(d)' = Leaving(d)
    BY <1>2, <2>1 DEF Leaving, Out
  <2>3. Registers' /\ OneLeaves' /\ NobodyThere'
    BY <1>t, <1>2, <2>1, <2>2 DEF Parts, Registers, OneLeaves, NobodyThere, Unserved
  <2>4. LeavesInTurn'
    BY <1>t, <1>2, <2>1, <2>2, ZenonT(60) DEF Parts, LeavesInTurn, Unserved
  <2>5. Arrives'
    <3>1. slot # NoConn /\ conn[slot].reg = "closing" => conn[slot].old \in Conns
      BY <1>t, Typed DEF Births, Conn
    <3>2. CASE slot = e
      <4>1. h = conn'[e].hello
        BY <1>2 DEF Fields
      <4> QED
        BY <1>t, <1>2, <2>1, <3>1, <3>2, <4>1 DEF Parts, Arrives
    <3>3. CASE slot # e
      <4>1. Unserved
        BY <1>2, <3>3 DEF Parts, LeavesInTurn
      <4> QED
        BY <1>t, <1>2, <2>1, <3>1, <3>3, <4>1 DEF Parts, Arrives, Unserved
    <3> QED
      BY <3>2, <3>3
  <2> QED
    BY <2>3, <2>4, <2>5 DEF Parts
<1>3. CASE ReadHello(e)
  <2>1. conn[e].reg = "served" /\ conn[e].close = "open" /\ conn[e].hello = "none" /\ UNCHANGED <<slot, registry, status>>
    BY <1>3 DEF ReadHello, Served, IsOpen
  <2>2. Leaving(e) \/ slot = e
    BY <2>1 DEF Leaving, Out
  <2>3. Fields(e, conn[e].reg, conn[e].close, "handling", conn[e].old)
    BY <1>3, RegisterFields
  <2>4. slot = e => status # "online"
    BY <1>t, <2>1 DEF Parts, Arrives
  <2> QED
    BY <1>2, <2>1, <2>2, <2>3, <2>4
<1>4. CASE MarkOnline(e)
  <2>1. conn[e].hello = "handling" /\ UNCHANGED <<slot, registry>> /\ status' = "online"
    BY <1>4 DEF MarkOnline
  <2>2. conn[e].close # "closed"
    <3>1. history'.late = (history.late \/ conn[e].close = "closed")
      BY <1>4, <1>t DEF MarkOnline, HistoryType
    <3> QED
      BY <3>1 DEF InTurn
  <2>3. conn[e].reg = "served"
    BY <2>1 DEF Births
  <2>4. Leaving(e) \/ slot = e
    BY <2>2, <2>3 DEF Leaving, Out
  <2>5. Fields(e, conn[e].reg, conn[e].close, "done", conn[e].old)
    BY <1>4, RegisterFields
  <2>6. slot # e => Unserved
    BY <2>4 DEF Parts, LeavesInTurn
  <2>7. ~ (Unserved /\ (\A d \in Conns : ~Leaving(d)))
    BY <1>t, <2>3, <2>4 DEF Unserved
  <2> QED
    BY <1>2, <2>1, <2>3, <2>4, <2>5, <2>6, <2>7
<1> QED
  BY <1>1, <1>3, <1>4

LEMMA AgreeStep ==
  ASSUME TypeOK, Slots, Births, Agree, [Next]_vars
  PROVE  Agree'
<1> SUFFICES ASSUME InTurn' PROVE Parts'
  BY DEF Agree
<1>1. Parts
  BY InTurnBefore DEF Agree
<1>2. CASE Still
  <2>1. \A d \in Conns : Leaving(d)' = Leaving(d)
    BY <1>2 DEF Still, Leaving, Out
  <2>2. slot # NoConn => slot \in Conns
    BY Typed
  <2>3. slot # NoConn /\ conn[slot].reg = "closing" => conn[slot].old \in Conns
    BY <2>2, Typed DEF Births, Conn
  <2>4. Registers' /\ OneLeaves' /\ NobodyThere'
    BY <1>1, <1>2, <2>1, <2>2 DEF Still, Parts, Registers, OneLeaves, NobodyThere, Unserved
  <2>5. LeavesInTurn'
    BY <1>1, <1>2, <2>1, <2>2, ZenonT(60) DEF Still, Parts, LeavesInTurn, Unserved
  <2>6. Arrives'
    BY <1>1, <1>2, <2>2, <2>3 DEF Still, Parts, Arrives
  <2> QED
    BY <2>4, <2>5, <2>6 DEF Parts
<1>3. ~CloseLocked
  BY DEF CloseLocked, InTurn, TypeOK
<1>4. ASSUME NEW e \in Conns PROVE ~CheckLiveness(e)
  BY Typed DEF CheckLiveness, InTurn, HistoryType
<1> QED
  BY <1>1, <1>2, <1>3, <1>4, AgreementCases, AgreeRegister, AgreeClose, AgreeDevice

LEMMA AgreementInit == Init => Births /\ Agree
<1> SUFFICES ASSUME Init PROVE Births /\ Agree
  OBVIOUS
<1>1. \A d \in Conns : /\ conn[d].reg = "unborn" /\ conn[d].close = "open" /\ conn[d].hello = "none"
                       /\ conn[d].old = NoConn
  BY DEF Init, Fresh
<1>2. slot = NoConn /\ admin.pc = "idle" /\ ~registry /\ status = "offline"
  BY DEF Init
<1>3. Births
  BY <1>1, <1>2 DEF Births
<1>4. \A d \in Conns : ~Leaving(d)
  BY <1>1 DEF Leaving, Out
<1> QED
  BY <1>1, <1>2, <1>3, <1>4 DEF Agree, Parts, Registers, OneLeaves, LeavesInTurn, Arrives, NobodyThere

LEMMA AgreementHolds == Spec => [](TypeOK /\ Slots /\ Births /\ Agree)
<1>1. Init => Slots
  BY DEF Init, Slots, Fresh
<1>2. Init => TypeOK /\ Slots /\ Births /\ Agree
  BY <1>1, InitType, AgreementInit
<1>3. TypeOK /\ Slots /\ Births /\ Agree /\ [Next]_vars => (TypeOK /\ Slots /\ Births /\ Agree)'
  BY NextType, SlotsStep, BirthsStep, AgreeStep
<1> QED
  BY <1>2, <1>3, PTL DEF Spec

\* With no Register, Close, CloseDevice or OnHello under way, the registry and
\* devices.status agree with Hub.devices, unless a device had reconnected before
\* the Unregister of its last connection was through, the liveness checker had
\* closed a connection in its Register, or an OnHello had outlived the teardown of
\* its own connection.
THEOREM StatusHolds == Spec => []StatusAgrees
<1>1. TypeOK /\ Slots /\ Births /\ Agree => StatusAgrees
  <2> SUFFICES ASSUME TypeOK, Slots, Births, Agree, Quiet, ~history.overlap, ~history.late
               PROVE  (registry <=> slot # NoConn) /\ (status = "online" <=> (slot # NoConn /\ conn[slot].hello = "done"))
    BY DEF StatusAgrees
  <2>1. Parts
    BY DEF Agree, InTurn, Quiet
  <2>2. \A d \in Conns : ~Leaving(d)
    <3>1. ASSUME NEW d \in Conns, Leaving(d) PROVE FALSE
      <4>1. /\ conn[d].close = "open" /\ slot # NoConn /\ conn[slot].reg \in {"migrate", "close", "closing"}
        BY <3>1, <2>1 DEF Quiet, Parts, LeavesInTurn, Leaving, Out
      <4> QED
        BY <4>1, Typed DEF Quiet
    <3> QED
      BY <3>1
  <2>3. CASE slot = NoConn
    BY <2>1, <2>2, <2>3 DEF Parts, NobodyThere, Unserved
  <2>4. CASE slot # NoConn
    <3>1. slot \in Conns
      BY <2>4, Typed
    <3>2. conn[slot].reg \in {"unborn", "dialed", "served"} /\ conn[slot].close \in {"open", "closed"}
      BY <3>1 DEF Quiet
    <3>3. CASE conn[slot].reg = "served"
      BY <2>1, <2>4, <3>2, <3>3 DEF Parts, Arrives
    <3>4. conn[slot].reg = "served"
      BY <2>4, <3>2 DEF Slots, Mapped
    <3> QED
      BY <3>3, <3>4
  <2> QED
    BY <2>3, <2>4
<1> QED
  BY <1>1, AgreementHolds, PTL

\* Once CloseDevice has closed the connection it never returns: the teardown
\* its Close runs waits in Unregister for Hub.mu, which CloseDevice holds.
THEOREM RotationNeverReturns == Spec => [][admin.pc = "closing" => admin'.pc = "closing"]_vars
<1>1. TypeOK /\ Births /\ [Next]_vars => [admin.pc = "closing" => admin'.pc = "closing"]_vars
  BY ClosingStays
<1> QED
  BY <1>1, AgreementHolds, PTL DEF Spec
=============================================================================
