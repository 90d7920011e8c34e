-------------------------------- MODULE Tunnel --------------------------------
(***************************************************************************)
(* The gateway's end of one device's tunnel: the hub that maps the device  *)
(* to its current connection, the life of a connection (Register, the      *)
(* pumps, Close, Unregister), the frames tracked for acknowledgement, and  *)
(* the device's end as far as the gateway can observe it (dial, HELLO,     *)
(* ACK, the msg_id filter, a lost connection, a restart).                  *)
(*                                                                         *)
(* The critical sections of Hub.mu are single steps, except the one of     *)
(* CloseDevice, which closes the connection while it holds the lock.       *)
(* CloseAll does the same when the gateway shuts down and is left out.     *)
(***************************************************************************)
EXTENDS Integers, Sequences, FiniteSets

CONSTANTS
    Conns,        \* connection instances; the device dials them in this order
    Frames,       \* msg_ids of frames the gateway sends, one SendFrame each
    MaxRetries,   \* model.AckRetransmitMaxRetries
    QueueCap,     \* capacity of DeviceConn.outbound
    NoConn        \* no entry in Hub.devices

ASSUME TunnelConstantsOK ==
    /\ Conns \subseteq Nat
    /\ NoConn \notin Conns
    /\ IsFiniteSet(Frames)
    /\ MaxRetries \in Nat
    /\ QueueCap \in Nat \ {0}

VARIABLES
    slot,        \* Hub.devices[deviceID]
    conn,        \* the gateway's connection objects and their goroutines
    send,        \* the SendFrame call of each frame
    admin,       \* the CloseDevice call of a token rotation
    registry,    \* InMemoryRegistry has an entry for the device
    status,      \* devices.status
    dev,         \* the device: its current connection, what it has processed
    wire,        \* frames written to the socket of a connection and not yet read
    acks,        \* ACK frames the device has written to the socket
    history      \* what was acknowledged, what was given up and which races occurred

vars == <<slot, conn, send, admin, registry, status, dev, wire, acks, history>>

-----------------------------------------------------------------------------
(* Connections *)

\* the goroutine of handleTunnel, in Hub.Register
Registering == {"unborn", "dialed", "migrate", "close", "closing", "registry", "served"}

\* whichever goroutine won the CompareAndSwap of DeviceConn.Close
Closing == {"open", "unmap", "unregister", "offline", "closed"}

Untracked == -1

\* a buffered channel
Queue == UNION {[1 .. n -> Frames] : n \in 0 .. QueueCap}

Conn == [reg : Registering,                 \* next statement of Register
         old : Conns \cup {NoConn},         \* the connection it supersedes
         close : Closing,                   \* next statement of Close
         hello : {"none", "handling", "done"},
         acks : [Frames -> Untracked .. MaxRetries],  \* AckTracker: retries so far
         out : Queue]

Fresh == [reg |-> "unborn", old |-> NoConn, close |-> "open", hello |-> "none",
          acks |-> [m \in Frames |-> Untracked], out |-> <<>>]

IsOpen(c)     == conn[c].close = "open"
Served(c)     == conn[c].reg = "served" /\ IsOpen(c)
Mapped(c)     == conn[c].reg \notin {"unborn", "dialed"}
Pending(c)    == {m \in Frames : conn[c].acks[m] # Untracked}
HasRoom(c)    == Len(conn[c].out) < QueueCap

\* connection c is out of the map and its tracker will not be looked at again
Abandoned(c)  == /\ Mapped(c)
                 /\ slot # c
                 /\ \A d \in Conns : conn[d].old = c => conn[d].reg # "migrate"

\* variant: the capacity of the channel is not checked
OfferAlways(q, m) == Append(q, m)

\* a non-blocking send on the outbound channel
Offer(q, m)   == IF Len(q) < QueueCap THEN Append(q, m) ELSE q

\* offering one frame after the other keeps those that fit
Fit(q)        == SubSeq(q, 1, IF Len(q) < QueueCap THEN Len(q) ELSE QueueCap)

Track(c, m)   == conn' = [conn EXCEPT ![c].acks[m] = 0]

\* the order in which a Go map yields the pending frames is arbitrary
Orders(ms)    == {s \in [1 .. Cardinality(ms) -> ms] :
                    \A i, j \in DOMAIN s : s[i] = s[j] => i = j}

\* frames that nothing will send again
Strand(ms)    == history' = [history EXCEPT !.stranded = @ \cup ms]

-----------------------------------------------------------------------------
(* Hub.Register *)

\* the hub's mutex: only CloseDevice keeps it from one step to the next
HubUnlocked == admin.pc = "idle"

\* a device that reconnects before the teardown of its last connection, or the
\* registration of another, is complete
Overlaps(c) == \E d \in Conns \ {c} :
                  \/ conn[d].close \notin {"open", "closed"}
                  \/ conn[d].reg \in {"migrate", "close", "closing", "registry"}

\* the critical section: the new connection takes the slot
RegisterMap(c) ==
    /\ conn[c].reg = "dialed"
    /\ HubUnlocked
    /\ slot' = c
    /\ conn' = [conn EXCEPT ![c].old = slot,
                            ![c].reg = IF slot = NoConn THEN "registry" ELSE "migrate"]
    /\ history' = [history EXCEPT !.overlap = @ \/ Overlaps(c)]
    /\ UNCHANGED <<send, admin, registry, status, dev, wire, acks>>

\* variant: the frames are queued on the new connection and not tracked there
MigrateUntracked(c) ==
    /\ conn[c].reg = "migrate"
    /\ \E s \in Orders(Pending(conn[c].old)) :
          conn' = [conn EXCEPT ![c].reg = "close", ![c].out = Fit(conn[c].out \o s)]
    /\ UNCHANGED <<slot, send, admin, registry, status, dev, wire, acks, history>>

\* pending frames of the superseded connection are tracked on the new one and
\* offered to its queue; what does not fit is left to the retransmitter
Migrate(c) ==
    /\ conn[c].reg = "migrate"
    /\ LET pending == Pending(conn[c].old)
       IN  /\ \E s \in Orders(pending) :
                conn' = [conn EXCEPT
                  ![c].reg = "close",
                  ![c].acks = [m \in Frames |-> IF m \in pending THEN 0
                                                ELSE conn[c].acks[m]],
                  ![c].out = Fit(conn[c].out \o s)]
           /\ IF Abandoned(c) THEN Strand(pending) ELSE UNCHANGED history
    /\ UNCHANGED <<slot, send, admin, registry, status, dev, wire, acks>>

\* variant: the superseded connection is left open
SupersedeKeeps(c) ==
    /\ conn[c].reg = "close"
    /\ conn' = [conn EXCEPT ![c].reg = "registry"]
    /\ UNCHANGED <<slot, send, admin, registry, status, dev, wire, acks, history>>

\* supersede.Close(4002): this goroutine runs the teardown if it wins the
\* CompareAndSwap, and goes on at once if another has won it
Supersede(c) ==
    /\ conn[c].reg = "close"
    /\ IF IsOpen(conn[c].old)
       THEN /\ conn' = [conn EXCEPT ![c].reg = "closing", ![conn[c].old].close = "unmap"]
            /\ wire' = [wire EXCEPT ![conn[c].old] = <<>>]
            /\ UNCHANGED history
       ELSE /\ conn' = [conn EXCEPT ![c].reg = "registry"]
            /\ history' = [history EXCEPT
                             !.overlap = @ \/ conn[conn[c].old].close # "closed"]
            /\ UNCHANGED wire
    /\ UNCHANGED <<slot, send, admin, registry, status, dev, acks>>

Superseded(c) ==
    /\ conn[c].reg = "closing"
    /\ conn[conn[c].old].close = "closed"
    /\ conn' = [conn EXCEPT ![c].reg = "registry"]
    /\ UNCHANGED <<slot, send, admin, registry, status, dev, wire, acks, history>>

\* registry.Register; then the pumps and the retransmitter are started
RegisterNode(c) ==
    /\ conn[c].reg = "registry"
    /\ registry' = TRUE
    /\ conn' = [conn EXCEPT ![c].reg = "served"]
    /\ UNCHANGED <<slot, send, admin, status, dev, wire, acks, history>>

-----------------------------------------------------------------------------
(* DeviceConn.Close and Hub.Unregister *)

\* a read error, the 30 s read deadline, a failed ping or write, the HELLO
\* timeout or the token watcher: all call Close, and the first one proceeds.
\* What is in flight on the closed socket is lost.
Close(c) ==
    /\ Served(c)
    /\ conn' = [conn EXCEPT ![c].close = "unmap"]
    /\ wire' = [wire EXCEPT ![c] = <<>>]
    /\ UNCHANGED <<slot, send, admin, registry, status, dev, acks, history>>

\* checkLiveness closes what the map holds for a stale entry of the registry,
\* which may be a connection still in Register when an earlier one left the entry
CheckLiveness(c) ==
    /\ Mapped(c)
    /\ conn[c].reg # "served"
    /\ IsOpen(c)
    /\ \E d \in Conns : d < c /\ conn[d].reg = "served"
    /\ conn' = [conn EXCEPT ![c].close = "unmap"]
    /\ wire' = [wire EXCEPT ![c] = <<>>]
    /\ history' = [history EXCEPT !.overlap = TRUE]
    /\ UNCHANGED <<slot, send, admin, registry, status, dev, acks>>

\* variant: the entry is deleted whichever connection it names
UnmapAny(c) ==
    /\ conn[c].close = "unmap"
    /\ HubUnlocked
    /\ slot' = NoConn
    /\ IF slot = c THEN Strand(Pending(c)) ELSE UNCHANGED history
    /\ conn' = [conn EXCEPT ![c].close = "unregister"]
    /\ UNCHANGED <<send, admin, registry, status, dev, wire, acks>>

\* the critical section of Unregister: only this connection's own entry goes.
\* There is no successor to migrate to, so its tracked frames are stranded.
Unmap(c) ==
    /\ conn[c].close = "unmap"
    /\ HubUnlocked
    /\ IF slot = c THEN slot' = NoConn /\ Strand(Pending(c))
                   ELSE UNCHANGED <<slot, history>>
    /\ conn' = [conn EXCEPT ![c].close = "unregister"]
    /\ UNCHANGED <<send, admin, registry, status, dev, wire, acks>>

\* registry.Unregister is unconditional
UnregisterNode(c) ==
    /\ conn[c].close = "unregister"
    /\ registry' = FALSE
    /\ conn' = [conn EXCEPT ![c].close = "offline"]
    /\ UNCHANGED <<slot, send, admin, status, dev, wire, acks, history>>

\* variant: OnDisconnect is not called
MarkOfflineNot(c) ==
    /\ conn[c].close = "offline"
    /\ conn' = [conn EXCEPT ![c].close = "closed"]
    /\ UNCHANGED <<slot, send, admin, registry, status, dev, wire, acks, history>>

\* and so is OnDisconnect
MarkOffline(c) ==
    /\ conn[c].close = "offline"
    /\ status' = "offline"
    /\ conn' = [conn EXCEPT ![c].close = "closed"]
    /\ UNCHANGED <<slot, send, admin, registry, dev, wire, acks, history>>

\* POST /devices/{id}/rotate-token: CloseDevice takes the hub's mutex
CloseDevice ==
    /\ admin.pc = "idle"
    /\ slot # NoConn
    /\ admin' = [pc |-> "locked", conn |-> slot]
    /\ UNCHANGED <<slot, conn, send, registry, status, dev, wire, acks, history>>

\* and calls Close, which goes on to Unregister if it wins the CompareAndSwap
CloseLocked ==
    /\ admin.pc = "locked"
    /\ IsOpen(admin.conn)
    /\ conn' = [conn EXCEPT ![admin.conn].close = "unmap"]
    /\ wire' = [wire EXCEPT ![admin.conn] = <<>>]
    /\ admin' = [admin EXCEPT !.pc = "closing"]
    /\ UNCHANGED <<slot, send, registry, status, dev, acks, history>>

\* Close returns at once to a caller that lost the CompareAndSwap, and after the
\* teardown to the one that won it
CloseDeviceReturns ==
    /\ admin.pc # "idle"
    /\ conn[admin.conn].close \in IF admin.pc = "locked" THEN Closing \ {"open"}
                                                         ELSE {"closed"}
    /\ admin' = [pc |-> "idle", conn |-> NoConn]
    /\ UNCHANGED <<slot, conn, send, registry, status, dev, wire, acks, history>>

-----------------------------------------------------------------------------
(* Hub.SendFrame: four steps, and the connection may change between any two *)

Lookup(m) ==
    /\ send[m].pc = "none"
    /\ HubUnlocked
    /\ send' = [send EXCEPT ![m] = IF slot = NoConn THEN [pc |-> "failed", conn |-> NoConn]
                                   ELSE [pc |-> "found", conn |-> slot]]
    /\ UNCHANGED <<slot, conn, admin, registry, status, dev, wire, acks, history>>

CheckClosed(m) ==
    /\ send[m].pc = "found"
    /\ send' = [send EXCEPT ![m] = IF IsOpen(send[m].conn) THEN [@ EXCEPT !.pc = "checked"]
                                   ELSE [pc |-> "failed", conn |-> NoConn]]
    /\ UNCHANGED <<slot, conn, admin, registry, status, dev, wire, acks, history>>

TrackFrame(m) ==
    /\ send[m].pc = "checked"
    /\ Track(send[m].conn, m)
    /\ send' = [send EXCEPT ![m].pc = "tracked"]
    /\ IF Abandoned(send[m].conn) THEN Strand({m}) ELSE UNCHANGED history
    /\ UNCHANGED <<slot, admin, registry, status, dev, wire, acks>>

\* a full queue is an error to the caller, although the frame stays tracked
Enqueue(m) ==
    /\ send[m].pc = "tracked"
    /\ LET c == send[m].conn
       IN  /\ conn' = [conn EXCEPT ![c].out = Offer(conn[c].out, m)]
           /\ send' = [send EXCEPT ![m] = [pc |-> IF HasRoom(c) THEN "sent" ELSE "failed",
                                          conn |-> NoConn]]
    /\ UNCHANGED <<slot, admin, registry, status, dev, wire, acks, history>>

-----------------------------------------------------------------------------
(* The goroutines of a connection *)

\* StartWritePump; a frame for a socket the device has left is not read
WritePump(c) ==
    /\ Served(c)
    /\ conn[c].out # <<>>
    /\ wire' = IF dev.conn = c THEN [wire EXCEPT ![c] = Append(@, Head(conn[c].out))]
               ELSE wire
    /\ conn' = [conn EXCEPT ![c].out = Tail(conn[c].out)]
    /\ UNCHANGED <<slot, send, admin, registry, status, dev, acks, history>>

\* StartRetransmitter, for a frame whose backoff has elapsed
Retransmit(c, m) ==
    /\ Served(c)
    /\ conn[c].acks[m] \in 0 .. MaxRetries - 1
    /\ conn' = [conn EXCEPT ![c].acks[m] = conn[c].acks[m] + 1,
                            ![c].out = Offer(conn[c].out, m)]
    /\ UNCHANGED <<slot, send, admin, registry, status, dev, wire, acks, history>>

GiveUp(c, m) ==
    /\ Served(c)
    /\ conn[c].acks[m] = MaxRetries
    /\ conn' = [conn EXCEPT ![c].acks[m] = Untracked]
    /\ Strand({m})
    /\ UNCHANGED <<slot, send, admin, registry, status, dev, wire, acks>>

\* StartReadPump: HELLO is the first frame on the socket
ReadHello(c) ==
    /\ Served(c)
    /\ conn[c].hello = "none"
    /\ conn' = [conn EXCEPT ![c].hello = "handling"]
    /\ UNCHANGED <<slot, send, admin, registry, status, dev, wire, acks, history>>

\* OnHello writes the status, however long ago the connection was closed
MarkOnline(c) ==
    /\ conn[c].hello = "handling"
    /\ status' = "online"
    /\ conn' = [conn EXCEPT ![c].hello = "done"]
    /\ history' = [history EXCEPT !.late = @ \/ conn[c].close = "closed"]
    /\ UNCHANGED <<slot, send, admin, registry, dev, wire, acks>>

ReadAck(c, m) ==
    /\ Served(c)
    /\ conn[c].hello = "done"
    /\ m \in acks[c]
    /\ acks' = [acks EXCEPT ![c] = @ \ {m}]
    /\ conn' = [conn EXCEPT ![c].acks[m] = Untracked]
    /\ history' = [history EXCEPT !.acked = @ \cup {m}]
    /\ UNCHANGED <<slot, send, admin, registry, status, dev, wire>>

-----------------------------------------------------------------------------
(* The device *)

\* TunnelClient.run: one connection at a time, the next when the last has ended
Dial(c) ==
    /\ dev.conn = NoConn
    /\ conn[c].reg = "unborn"
    /\ \A d \in Conns : d < c => conn[d].reg # "unborn"
    /\ dev' = [dev EXCEPT !.conn = c]
    /\ conn' = [conn EXCEPT ![c].reg = "dialed"]
    /\ UNCHANGED <<slot, send, admin, registry, status, wire, acks, history>>

\* the network, or the device's own ping timeout; the gateway may not know yet
Hangup ==
    /\ dev.conn # NoConn
    /\ dev' = [dev EXCEPT !.conn = NoConn]
    /\ wire' = [wire EXCEPT ![dev.conn] = <<>>]
    /\ UNCHANGED <<slot, conn, send, admin, registry, status, acks, history>>

\* the process starts again with an empty msg_id filter
Restart ==
    /\ dev.conn # NoConn
    /\ dev' = [conn |-> NoConn, seen |-> {}, handled |-> [m \in Frames |-> 0]]
    /\ wire' = [wire EXCEPT ![dev.conn] = <<>>]
    /\ UNCHANGED <<slot, conn, send, admin, registry, status, acks, history>>

\* variant: the msg_id is not remembered
ReceiveForgets(c) ==
    /\ dev.conn = c
    /\ wire[c] # <<>>
    /\ LET m == Head(wire[c])
       IN  /\ acks' = [acks EXCEPT ![c] = @ \cup {m}]
           /\ dev' = IF m \in dev.seen THEN dev
                     ELSE [dev EXCEPT !.handled[m] = @ + 1]
    /\ wire' = [wire EXCEPT ![c] = Tail(wire[c])]
    /\ UNCHANGED <<slot, conn, send, admin, registry, status, history>>

\* _handle_frame: acknowledge, drop what was seen before, handle the rest. The
\* filter is emptied at 10000 msg_ids, more than are modelled.
Receive(c) ==
    /\ dev.conn = c
    /\ wire[c] # <<>>
    /\ LET m == Head(wire[c])
       IN  /\ acks' = [acks EXCEPT ![c] = @ \cup {m}]
           /\ dev' = IF m \in dev.seen THEN dev
                     ELSE [dev EXCEPT !.seen = @ \cup {m}, !.handled[m] = @ + 1]
    /\ wire' = [wire EXCEPT ![c] = Tail(wire[c])]
    /\ UNCHANGED <<slot, conn, send, admin, registry, status, history>>

-----------------------------------------------------------------------------
Init ==
    /\ slot = NoConn
    /\ conn = [c \in Conns |-> Fresh]
    /\ send = [m \in Frames |-> [pc |-> "none", conn |-> NoConn]]
    /\ admin = [pc |-> "idle", conn |-> NoConn]
    /\ registry = FALSE
    /\ status = "offline"
    /\ dev = [conn |-> NoConn, seen |-> {}, handled |-> [m \in Frames |-> 0]]
    /\ wire = [c \in Conns |-> <<>>]
    /\ acks = [c \in Conns |-> {}]
    /\ history = [acked |-> {}, stranded |-> {}, overlap |-> FALSE, late |-> FALSE]

\* the goroutine of handleTunnel
Register(c) == \/ RegisterMap(c) \/ Migrate(c) \/ Supersede(c) \/ Superseded(c)
               \/ RegisterNode(c)

\* the goroutine that won Close
Teardown(c) == Unmap(c) \/ UnregisterNode(c) \/ MarkOffline(c)

SendFrame(m) == Lookup(m) \/ CheckClosed(m) \/ TrackFrame(m) \/ Enqueue(m)

Pumps(c) == \/ WritePump(c) \/ ReadHello(c) \/ MarkOnline(c)
            \/ \E m \in Frames : Retransmit(c, m) \/ GiveUp(c, m) \/ ReadAck(c, m)

Device == \/ \E c \in Conns : Dial(c) \/ Receive(c)
          \/ Hangup \/ Restart

Next == \/ \E c \in Conns : Register(c) \/ Teardown(c) \/ Close(c) \/ CheckLiveness(c) \/ Pumps(c)
        \/ \E m \in Frames : SendFrame(m)
        \/ CloseDevice \/ CloseLocked \/ CloseDeviceReturns
        \/ Device

Spec == Init /\ [][Next]_vars

\* goroutines that can go on do; devices, networks and callers owe nothing
Fairness == /\ \A c \in Conns : WF_vars(Register(c)) /\ WF_vars(Teardown(c))
            /\ WF_vars(CloseLocked) /\ WF_vars(CloseDeviceReturns)

FairSpec == Spec /\ Fairness

-----------------------------------------------------------------------------
(* Properties *)

SendCall == [pc : {"none", "found", "checked", "tracked", "sent", "failed"},
             conn : Conns \cup {NoConn}]

\* Values have the types of the Go structs. A queue never exceeds the channel's
\* capacity and a SendFrame that goes on holds a connection.
TypeOK ==
    /\ slot \in Conns \cup {NoConn}
    /\ conn \in [Conns -> Conn]
    /\ send \in [Frames -> SendCall]
    /\ \A m \in Frames : send[m].pc \in {"found", "checked", "tracked"} =>
                            send[m].conn \in Conns
    /\ admin \in [pc : {"idle", "locked", "closing"}, conn : Conns \cup {NoConn}]
    /\ admin.pc # "idle" => admin.conn \in Conns
    /\ registry \in BOOLEAN
    /\ status \in {"online", "offline"}
    /\ dev \in [conn : Conns \cup {NoConn}, seen : SUBSET Frames,
               handled : [Frames -> Nat]]
    /\ wire \in [Conns -> Seq(Frames)]
    /\ acks \in [Conns -> SUBSET Frames]
    /\ history \in [acked : SUBSET Frames, stranded : SUBSET Frames,
                   overlap : BOOLEAN, late : BOOLEAN]

\* A registered connection that is open is the one SendFrame finds, or the
\* goroutine that replaced it in the map is still on its way to closing it. An
\* old connection's teardown never takes a newer connection out of the map.
Routable ==
    \A c \in Conns : Mapped(c) /\ IsOpen(c) =>
        \/ slot = c
        \/ \E d \in Conns : conn[d].old = c /\ conn[d].reg \in {"migrate", "close"}

\* A frame that SendFrame has accepted is acknowledged, or still tracked where a
\* retransmitter or a migration will find it, unless it was stranded: retried
\* MaxRetries times in vain, tracked on a connection that left the map without
\* a successor, or tracked on a connection whose pending frames had already
\* been taken over.
AcceptedIsTracked ==
    \A m \in Frames :
        (send[m].pc = "sent" /\ m \notin history.acked \cup history.stranded) =>
            \E c \in Conns : m \in Pending(c) /\ ~Abandoned(c)

\* Migration and retransmission deliver a frame any number of times; a device
\* process handles it once.
HandledOnce == \A m \in Frames : dev.handled[m] <= 1

\* When nothing is in progress, the registry and devices.status agree with the
\* hub, unless a device reconnected during the teardown of its last connection
\* (whose Unregister then marks the new one offline), the liveness checker closed
\* a connection in its Register (which then enters the registry after its
\* Unregister), or a HELLO handler outlived
\* the teardown of its own connection (and marks a device without one online).
Quiet == /\ admin.pc = "idle"
         /\ \A c \in Conns : /\ conn[c].reg \in {"unborn", "dialed", "served"}
                             /\ conn[c].close \in {"open", "closed"}
                             /\ conn[c].hello # "handling"

StatusAgrees ==
    (Quiet /\ ~history.overlap /\ ~history.late) =>
        /\ registry <=> slot # NoConn
        /\ status = "online" <=> (slot # NoConn /\ conn[slot].hello = "done")

\* A connection that is replaced in the map is closed, even when the hub's
\* mutex is never released again.
ReplacedIsClosed ==
    \A c \in Conns : (Mapped(c) /\ slot # c) ~> ~IsOpen(c)

-----------------------------------------------------------------------------
(* What the documents say and the code does not do *)

\* docs/spec/08-auth-security.md: "revoked tokens close the live tunnel with
\* 4005". Close calls Unregister, which waits for the mutex CloseDevice holds.
RotationCompletes == admin.pc = "locked" ~> admin.pc = "idle"
=============================================================================
