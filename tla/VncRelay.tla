------------------------------- MODULE VncRelay -------------------------------
(***************************************************************************)
(* The browser sessions of one running job: the gateway's registry of     *)
(* sessions and their two sockets, the requests that open and close them,  *)
(* and the device's bridge between the relay and the agent's VNC stack.    *)
(*                                                                         *)
(* A session id is used once on the device, because the row it makes there *)
(* has it as primary key; a token is named by the request that drew it.    *)
(* The device's read loop awaits handle_vnc_open, so it reads one frame at *)
(* a time. CloseSession is one step: a socket bound between its status and *)
(* its lock is closed like one that was bound before.                      *)
(***************************************************************************)
EXTENDS Integers, Sequences, FiniteSets, FiniteSetsExt

CONSTANTS
    Sessions,   \* session ids, in the order CreateSession draws them
    Opens,      \* POST /jobs/{id}/vnc requests, in the order they arrive
    MaxEvents   \* bound: failed starts, stops, sends and waits, forgotten agents, the
                \* job's end, and times a user closes the session or the tab, together

ASSUME VncRelayConstantsOK ==
    /\ Sessions \subseteq Nat /\ Opens \subseteq Nat \ {0}
    /\ MaxEvents \in Nat

VARIABLES
    job,     \* jobs.status of the job: running or over
    sess,    \* Relay.sessions
    act,     \* bind handlers that have stored a socket and not yet looked
    req,     \* the open requests: waiting in WaitReady, or answered
    bridge,  \* the device's row, handler and _bridge task of each session
    down,    \* VNC_OPEN and VNC_CLOSE frames the device has not read
    up,      \* VNC_OPENED and VNC_CLOSE frames the gateway has not read
    stack,   \* the agent runs its X server and VNC server
    budget,  \* events still allowed
    revived  \* history: sessions that went from closed to another status

gateway == <<sess, act, revived>>
device  == <<bridge, stack>>
vncVars == <<job, gateway, req, device, down, up, budget>>

-----------------------------------------------------------------------------
Status  == {"none", "pending", "ready", "active", "closed"}
Socket  == {"none", "open", "dead"}
Session == [st : Status, token : Opens \cup {0}, ready : {"no", "ok", "error"},
            browser : Socket, device : Socket, pumps : 0 .. 4]
Request == [pc : {"new", "created", "waiting", "answered", "failed"}, s : Sessions \cup {0}]

\* created: the task exists and has not taken its first step; stopping and
\* cancelled: its finally block awaits vnc_stop, still listed in _sessions or
\* popped by handle_vnc_close; ended: over; lost: over, and no vnc_stop of it
\* was completed
Bridge  == [pc : {"none", "starting", "created", "dialing", "up", "stopping", "cancelled",
                  "ended", "lost"},
            token : Opens \cup {0}]
Frame   == [type : {"open"}, s : Sessions, token : Opens] \cup [type : {"close"}, s : Sessions]
Answer  == [type : {"ready", "error", "close"}, s : Sessions]

Alive(s)     == sess[s].st \in {"pending", "ready", "active"}
LiveSessions == {s \in Sessions : Alive(s)}
Fresh        == {s \in Sessions : sess[s].st = "none"}

\* variant: only a session that is active is used again
CreateActive ==
    LET active == {s \in LiveSessions : sess[s].st = "active"}
    IN  IF active # {} THEN active ELSE IF Fresh # {} THEN {Min(Fresh)} ELSE {}

\* the session CreateSession returns: one of the job's that is not closed
CreateSession == IF LiveSessions # {} THEN LiveSessions ELSE IF Fresh # {} THEN {Min(Fresh)} ELSE {}

Shut(socket) == IF socket = "open" THEN "dead" ELSE socket

\* the sessions after CloseSession(s); a closed one is left as it is
Closed(s) == IF ~Alive(s) THEN sess
             ELSE [sess EXCEPT ![s].st = "closed", ![s].browser = Shut(@), ![s].device = Shut(@)]

Happens == budget > 0 /\ budget' = budget - 1

-----------------------------------------------------------------------------
(* Requests. *)

\* handleOpenVNC as far as CreateSession
Open(o) ==
    /\ req[o].pc = "new" /\ job = "running"
    /\ \A p \in Opens : p < o => req[p].pc # "new"
    /\ \E s \in CreateSession :
         /\ sess' = [sess EXCEPT ![s].token = o, ![s].st = IF @ = "none" THEN "pending" ELSE @]
         /\ req' = [req EXCEPT ![o] = [pc |-> "created", s |-> s]]
    /\ UNCHANGED <<job, act, revived, device, down, up, budget>>

\* the status is read again: a session that is not pending is answered at once,
\* whatever became of it; a failed SendFrame is not reported
SendOpen(o) ==
    /\ req[o].pc = "created"
    /\ IF sess[req[o].s].st = "pending"
       THEN /\ req' = [req EXCEPT ![o].pc = "waiting"]
            /\ \/ /\ down' = Append(down, [type |-> "open", s |-> req[o].s, token |-> o])
                  /\ UNCHANGED budget
               \/ Happens /\ UNCHANGED down
       ELSE req' = [req EXCEPT ![o].pc = "answered"] /\ UNCHANGED <<down, budget>>
    /\ UNCHANGED <<job, gateway, device, up>>

\* WaitReady returns, or its 40 s are over: the session stays as it is
Wait(o) ==
    /\ req[o].pc = "waiting"
    /\ \/ /\ sess[req[o].s].ready = "ok" /\ req' = [req EXCEPT ![o].pc = "answered"]
          /\ UNCHANGED budget
       \/ /\ sess[req[o].s].ready = "error" /\ req' = [req EXCEPT ![o].pc = "failed"]
          /\ UNCHANGED budget
       \/ /\ sess[req[o].s].ready = "no" /\ req' = [req EXCEPT ![o].pc = "failed"]
          /\ Happens
    /\ UNCHANGED <<job, gateway, device, down, up>>

\* handleCloseVNC, by whoever knows the session id
UserClose(s) ==
    /\ sess[s].st # "none" /\ Happens
    /\ down' = Append(down, [type |-> "close", s |-> s])
    /\ sess' = Closed(s)
    /\ UNCHANGED <<job, act, revived, req, device, up>>

\* handleVNCBrowserSocket takes the token of the session, or its owner's JWT
Known(s) == \E o \in Opens : req[o].pc = "answered" /\ req[o].s = s

\* the session's status is not looked at
BindBrowser(s) ==
    /\ Known(s) /\ sess[s].browser = "none"
    /\ sess' = [sess EXCEPT ![s].browser = "open"]
    /\ act' = act \cup {<<s, "browser">>}
    /\ UNCHANGED <<job, req, device, down, up, budget, revived>>

BrowserLeaves(s) ==
    /\ sess[s].browser = "open" /\ Happens
    /\ sess' = [sess EXCEPT ![s].browser = "dead"]
    /\ UNCHANGED <<job, act, revived, req, device, down, up>>

\* maybeActivate, the second half of both binds: each binder that finds both
\* sockets starts two pumps
MaybeActivate(s, side) ==
    /\ <<s, side>> \in act
    /\ act' = act \ {<<s, side>>}
    /\ IF sess[s].browser # "none" /\ sess[s].device # "none"
       THEN /\ sess' = [sess EXCEPT ![s].st = "active", ![s].pumps = @ + 2]
            /\ revived' = IF sess[s].st = "closed" THEN revived \cup {s} ELSE revived
       ELSE UNCHANGED <<sess, revived>>
    /\ UNCHANGED <<job, req, device, down, up, budget>>

\* variant: pump returns without closing the session
PumpReturns(s) ==
    /\ sess[s].pumps > 0
    /\ sess[s].st = "closed" \/ "dead" \in {sess[s].browser, sess[s].device}
    /\ sess' = [sess EXCEPT ![s].pumps = @ - 1]
    /\ UNCHANGED <<job, act, revived, req, device, down, up, budget>>

\* pump: a socket fails, or the status is closed; the deferred CloseSession
PumpEnds(s) ==
    /\ sess[s].pumps > 0
    /\ sess[s].st = "closed" \/ "dead" \in {sess[s].browser, sess[s].device}
    /\ sess' = [Closed(s) EXCEPT ![s].pumps = @ - 1]
    /\ UNCHANGED <<job, act, revived, req, device, down, up, budget>>

\* variant: only active sessions are looked at
ReapActive(s) == /\ sess[s].st = "active" /\ sess' = Closed(s)
                 /\ UNCHANGED <<job, act, revived, req, device, down, up, budget>>

\* the ticker's reap; maxTTL, or idleTTL of an active one, may have passed
Reap(s) == /\ Alive(s) /\ sess' = Closed(s)
           /\ UNCHANGED <<job, act, revived, req, device, down, up, budget>>

\* the status is stored, not compared; whoever closes readyCh first decides
MarkReady(s) ==
    /\ sess' = [sess EXCEPT ![s].st = "ready", ![s].ready = IF @ = "no" THEN "ok" ELSE @]
    /\ revived' = IF sess[s].st = "closed" THEN revived \cup {s} ELSE revived

\* a waiter that is late finds readyErr even if readyCh was closed before
MarkError(s) == sess' = [Closed(s) EXCEPT ![s].ready = "error"] /\ UNCHANGED revived

\* OnVNCOpened and OnVNCClose
Receive ==
    /\ up # <<>> /\ up' = Tail(up)
    /\ LET f == Head(up) IN
       \/ f.type = "ready" /\ MarkReady(f.s)
       \/ f.type = "error" /\ MarkError(f.s)
       \/ f.type = "close" /\ sess' = Closed(f.s) /\ UNCHANGED revived
    /\ UNCHANGED <<job, act, req, device, down, budget>>

\* the job ends, the executor's _teardown stops the stack; nothing tells the
\* relay or the bridge
JobEnds == /\ job = "running" /\ job' = "over" /\ stack' = FALSE /\ Happens
           /\ UNCHANGED <<gateway, req, bridge, down, up>>

-----------------------------------------------------------------------------
(* The device. *)

Reading == \A s \in Sessions : bridge[s].pc # "starting"

\* the bridge of s leaves its try statement, which closes its socket
Leaves(s, pc) ==
    /\ bridge' = [bridge EXCEPT ![s].pc = pc]
    /\ sess' = [sess EXCEPT ![s].device = IF bridge[s].pc = "up" THEN Shut(@) ELSE @]

\* variant: the finally block only closes the device's row
StopsNothing(s) ==
    /\ bridge[s].pc \in {"stopping", "cancelled"}
    /\ bridge' = [bridge EXCEPT ![s].pc = "ended"]
    /\ UNCHANGED <<job, gateway, req, stack, down, up, budget>>

\* the finally block goes on: the stack is stopped, but the answer 204 has no
\* body to decode, which raises before VNC_CLOSE is sent; or the agent is no
\* longer known to the device, and VNC_CLOSE is sent; or vnc_stop fails
Stops(s) ==
    /\ bridge[s].pc \in {"stopping", "cancelled"}
    /\ \/ /\ bridge' = [bridge EXCEPT ![s].pc = "ended"]
          /\ stack' = FALSE /\ UNCHANGED <<up, budget>>
       \/ /\ Happens /\ bridge' = [bridge EXCEPT ![s].pc = "lost"]
          /\ up' \in {up, Append(up, [type |-> "close", s |-> s])}
          /\ UNCHANGED stack
    /\ UNCHANGED <<job, gateway, req, down>>

\* handle_vnc_close cancels the task it finds in _sessions: one that has not
\* begun never runs its finally block, one that awaits vnc_stop is cut off there
Cancels(s) ==
    \/ bridge[s].pc \in {"dialing", "up"} /\ Leaves(s, "cancelled") /\ UNCHANGED stack
    \/ /\ bridge[s].pc = "created" /\ bridge' = [bridge EXCEPT ![s].pc = "lost"]
       /\ UNCHANGED <<sess, stack>>
    \/ /\ bridge[s].pc = "stopping" /\ bridge' = [bridge EXCEPT ![s].pc = "lost"]
       /\ stack' \in {stack, FALSE} /\ UNCHANGED sess
    \/ /\ bridge[s].pc \notin {"created", "dialing", "up", "stopping"}
       /\ UNCHANGED <<bridge, sess, stack>>

\* the read loop takes a frame; the row of a known session refuses VNC_OPEN
DeviceReads ==
    /\ down # <<>> /\ Reading /\ down' = Tail(down)
    /\ LET f == Head(down) IN
       \/ /\ f.type = "open"
          /\ bridge' = IF bridge[f.s].pc # "none" THEN bridge
                       ELSE [bridge EXCEPT ![f.s] = [pc |-> "starting", token |-> f.token]]
          /\ UNCHANGED <<sess, stack>>
       \/ f.type = "close" /\ Cancels(f.s)
    /\ UNCHANGED <<job, act, revived, req, up, budget>>

\* handle_vnc_open after the row: the agent refuses when no job runs, and the
\* refusal is reported as ready, since nobody looks at the status code; the
\* agent is not known and nothing is answered; the call fails, its effect done
\* or not; or the send raises on a dead socket, after it was written to the
\* outbox, and the handler adds an error
Starts(s) ==
    /\ bridge[s].pc = "starting"
    /\ \/ /\ stack' = (stack \/ job = "running")
          /\ bridge' = [bridge EXCEPT ![s].pc = "created"]
          /\ up' = Append(up, [type |-> "ready", s |-> s]) /\ UNCHANGED budget
       \/ /\ Happens /\ bridge' = [bridge EXCEPT ![s].pc = "ended"]
          /\ UNCHANGED <<up, stack>>
       \/ /\ Happens /\ bridge' = [bridge EXCEPT ![s].pc = "ended"]
          /\ up' = Append(up, [type |-> "error", s |-> s])
          /\ stack' \in {stack, stack \/ job = "running"}
       \/ /\ Happens /\ bridge' = [bridge EXCEPT ![s].pc = "ended"]
          /\ stack' = (stack \/ job = "running")
          /\ up' = up \o <<[type |-> "ready", s |-> s], [type |-> "error", s |-> s]>>
    /\ UNCHANGED <<job, gateway, req, down>>

\* the event loop gives the task its first step
Begins(s) ==
    /\ bridge[s].pc = "created"
    /\ bridge' = [bridge EXCEPT ![s].pc = "dialing"]
    /\ UNCHANGED <<job, gateway, req, stack, down, up, budget>>

\* BindDevice: the token is the latest; the status is not looked at here either
Accepts(s, token) == token = sess[s].token /\ sess[s].device = "none"

\* _bridge dials the relay, whose handler binds the socket or closes it
Dials(s) ==
    /\ bridge[s].pc = "dialing"
    /\ IF Accepts(s, bridge[s].token)
       THEN /\ bridge' = [bridge EXCEPT ![s].pc = "up"]
            /\ sess' = [sess EXCEPT ![s].device = "open"]
            /\ act' = act \cup {<<s, "device">>}
       ELSE Leaves(s, "stopping") /\ UNCHANGED act
    /\ UNCHANGED <<job, revived, req, stack, down, up, budget>>

\* the relay closed the socket, the stack is gone, or ttl_s have passed
Drops(s) ==
    /\ bridge[s].pc = "up" /\ Leaves(s, "stopping")
    /\ UNCHANGED <<job, act, revived, req, stack, down, up, budget>>

\* the handler and the task of one session: one of these at a time
BridgeSteps(s) == Starts(s) \/ Begins(s) \/ Dials(s) \/ Drops(s) \/ Stops(s)

-----------------------------------------------------------------------------
VncInit ==
    /\ job = "running"
    /\ sess = [s \in Sessions |-> [st |-> "none", token |-> 0, ready |-> "no", browser |-> "none",
                                   device |-> "none", pumps |-> 0]]
    /\ act = {} /\ revived = {}
    /\ req = [o \in Opens |-> [pc |-> "new", s |-> 0]]
    /\ bridge = [s \in Sessions |-> [pc |-> "none", token |-> 0]]
    /\ down = <<>> /\ up = <<>> /\ stack = FALSE
    /\ budget = MaxEvents

VncNext ==
    \/ \E o \in Opens : Open(o) \/ SendOpen(o) \/ Wait(o)
    \/ \E s \in Sessions :
         \/ UserClose(s) \/ BindBrowser(s) \/ BrowserLeaves(s) \/ PumpEnds(s) \/ Reap(s)
         \/ BridgeSteps(s)
         \/ \E side \in {"browser", "device"} : MaybeActivate(s, side)
    \/ Receive \/ JobEnds \/ DeviceReads

\* the schedulers of both processes, the reaper's ticker, and every TTL passes;
\* nothing of customers and nothing of the network but that the outbox sends
VncFairness ==
    /\ WF_vncVars(Receive) /\ WF_vncVars(DeviceReads)
    /\ \A s \in Sessions :
         /\ WF_vncVars(PumpEnds(s)) /\ WF_vncVars(Reap(s))
         /\ WF_vncVars(BridgeSteps(s))
         /\ \A side \in {"browser", "device"} : WF_vncVars(MaybeActivate(s, side))

VncSpec    == VncInit /\ [][VncNext]_vncVars
VncFairSpec == VncSpec /\ VncFairness

-----------------------------------------------------------------------------
(* Properties. *)

\* The registry, the requests, the bridges and the frames have their types.
VncTypeOK ==
    /\ job \in {"running", "over"} /\ sess \in [Sessions -> Session]
    /\ act \subseteq Sessions \X {"browser", "device"} /\ revived \subseteq Sessions
    /\ req \in [Opens -> Request] /\ bridge \in [Sessions -> Bridge]
    /\ \A i \in DOMAIN down : down[i] \in Frame
    /\ \A i \in DOMAIN up : up[i] \in Answer
    /\ stack \in BOOLEAN
    /\ budget \in 0 .. MaxEvents

\* A job has one session that is not closed, however often it is opened,
\* closed and reaped: CreateSession uses it again. Two can only coexist when a
\* late VNC_OPENED, or a late bind, has revived a closed one (MarkReady and
\* maybeActivate store the status without reading it).
OneSessionPerJob == Cardinality(LiveSessions) <= 1 \/ revived # {}

\* A session that is alive with a dead socket is not forgotten: a pump, or a
\* binder about to start one, will close it, unless its other socket has yet to
\* come or it is a closed one that was revived (pump's deferred CloseSession).
DeadSocketNoticed ==
    \A s \in Sessions \ revived :
        Alive(s) /\ "dead" \in {sess[s].browser, sess[s].device}
          => \/ sess[s].pumps > 0 \/ "none" \in {sess[s].browser, sess[s].device}
             \/ \E side \in {"browser", "device"} : <<s, side>> \in act

\* What the relay holds of a session is well formed, and no session that can
\* still carry frames has lost a socket unnoticed (BindBrowser, BindDevice, pump).
RegistrySound == VncTypeOK /\ DeadSocketNoticed

\* Whatever is opened, revived, lost and never closed by anyone: in the end
\* every session is closed and no pump runs (reap, pump, CloseSession).
SessionsEnd ==
    <>[](\A s \in Sessions : sess[s].st \in {"none", "closed"} /\ sess[s].pumps = 0)

\* A bridge whose socket is gone, refused, cancelled or out of time stops the
\* agent's VNC stack (_bridge's finally block), unless all bridges are over and
\* one is lost: a VNC_CLOSE read right behind its VNC_OPEN cancels the task
\* before its first step, a second one cuts vnc_stop off, or vnc_stop fails.
StackStops ==
    (\E s \in Sessions : bridge[s].pc \in {"created", "dialing", "up", "stopping", "cancelled"})
      ~> \/ ~stack
         \/ /\ \E s \in Sessions : bridge[s].pc = "lost"
            /\ \A s \in Sessions : bridge[s].pc \in {"none", "ended", "lost"}

\* relay.go:82 calls a second open of a session idempotent: a bridge that was
\* started for a session that is not closed can still attach to it.
\* The second open draws a new token and the device keeps the first.
RetryKeepsBridge ==
    \A s \in Sessions : bridge[s].pc \in {"starting", "created", "dialing"} /\ Alive(s)
                          => bridge[s].token = sess[s].token
=============================================================================
