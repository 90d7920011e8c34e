------------------------------ MODULE WebEvents ------------------------------
(***************************************************************************)
(* The gateway's live events: the in-process broker, the WebSocket handler *)
(* of each browser, which forwards its subscriptions into one dispatch     *)
(* channel, and the goroutine that writes it to the browser.               *)
(*                                                                         *)
(* A client's message with several topics is several steps: the broker's   *)
(* lock is released between them. A forwarder receives and sends in one    *)
(* step. Writing takes a step to begin and a step to end, because two      *)
(* goroutines write to a connection.                                       *)
(*                                                                         *)
(* A publication is one step. Publications hold the lock for reading, so   *)
(* two of them may overlap and reach two browsers in either order; for one *)
(* browser they come one after the other, and no property compares two     *)
(* browsers. Subscribing waits for them.                                   *)
(***************************************************************************)
EXTENDS Integers, Sequences, FiniteSets, Functions

CONSTANTS
    Conns,     \* WebSocket connections; each has an id of its own at the broker
    Topics,    \* topics that are published: job:<id>
    Own,       \* job:<user id>, subscribed on connecting, as a client may again, and never published
    Users,
    UserOf,
    All,       \* the scope of an event that is not for one user
    MaxSubs,   \* IAGENT_WS_MAX_SUBSCRIPTIONS
    SubBuf,    \* 64 events in a subscriber's channel
    OutBuf,    \* 256 events in the dispatch channel
    Budgets    \* bounds: connections, events, client messages of each kind

ASSUME WebEventsConstantsOK ==
    /\ UserOf \in [Conns -> Users] /\ All \notin Users /\ Own \notin Topics
    /\ {MaxSubs, SubBuf, OutBuf} \subseteq Nat \ {0}
    /\ Budgets \subseteq [{"conns", "events", "subscribes", "unsubscribes", "pings"} -> Nat]

VARIABLES
    subs,      \* Broker.subs: the channel of each connection, 0 when it has none
    chans,     \* the channels made so far, in that order
    conn,      \* per connection: its read pump, its write pump and its dispatch channel
    n,         \* events published
    replaced,  \* history: channels that another Subscribe took out of the broker
    stray,     \* history: connections that unsubscribed what they had not subscribed
    left       \* events still allowed

history == <<replaced, stray>>
vars    == <<subs, chans, conn, n, history, left>>

-----------------------------------------------------------------------------
Event   == [n : Nat, topic : Topics, to : Users \cup {All}]
Channel == [of : Conns, topic : Topics \cup {Own}, q : Seq(Event), open : BOOLEAN, live : BOOLEAN]
Conn    == [read : {"new", "ack", "read", "pong", "done"}, pump : {"none", "wait", "write", "done"},
            gone : BOOLEAN, count : Int, out : Seq(Event), got : Seq(Event)]

Registered(i)    == \E t \in Topics \cup {Own} : subs[t][chans[i].of] = i
Subscriptions(c) == {t \in Topics \cup {Own} : subs[t][c] # 0}
Live(c)          == {i \in DOMAIN chans : chans[i].of = c /\ chans[i].live}
Waiting(c)       == (UNION {Range(chans[i].q) : i \in {j \in DOMAIN chans : chans[j].of = c}})
                    \cup Range(conn[c].out)
Spend(what)      == left[what] > 0 /\ left' = [left EXCEPT ![what] = @ - 1]

-----------------------------------------------------------------------------
(* The broker: each operation holds its lock. *)

\* variant: what the replaced channel still holds is moved over, and left there
SubscribeCopy(t, c) ==
    /\ subs' = [subs EXCEPT ![t][c] = Len(chans) + 1]
    /\ chans' = Append(chans, [of |-> c, topic |-> t, open |-> TRUE, live |-> TRUE,
                               q |-> IF subs[t][c] = 0 THEN <<>> ELSE chans[subs[t][c]].q])
    /\ replaced' = replaced \cup ({subs[t][c]} \ {0})

\* Subscribe, and the goroutine that forwards the new channel; one that is
\* replaced stays open
Subscribe(t, c) ==
    /\ subs' = [subs EXCEPT ![t][c] = Len(chans) + 1]
    /\ chans' = Append(chans, [of |-> c, topic |-> t, open |-> TRUE, live |-> TRUE, q |-> <<>>])
    /\ replaced' = replaced \cup ({subs[t][c]} \ {0})

Close(i) == chans' = [chans EXCEPT ![i].open = FALSE]

\* variant: the subscriber stays in the map
UnsubscribeKept(t, c) ==
    IF subs[t][c] = 0 THEN UNCHANGED <<subs, chans>> ELSE Close(subs[t][c]) /\ UNCHANGED subs

Unsubscribe(t, c) ==
    IF subs[t][c] = 0 THEN UNCHANGED <<subs, chans>>
    ELSE Close(subs[t][c]) /\ subs' = [subs EXCEPT ![t][c] = 0]

\* variant: only the topic of the handler itself
UnsubscribeOwn(c) == Unsubscribe(Own, c)

UnsubscribeAll(c) ==
    /\ chans' = [i \in DOMAIN chans |-> IF chans[i].of = c /\ Registered(i)
                                        THEN [chans[i] EXCEPT !.open = FALSE] ELSE chans[i]]
    /\ subs' = [t \in Topics \cup {Own} |-> [subs[t] EXCEPT ![c] = 0]]

\* an event is dropped when the channel is full
Offer(t, e, receivers) ==
    chans' = [i \in DOMAIN chans |->
                IF \E c \in receivers : subs[t][c] = i /\ Len(chans[i].q) < SubBuf
                THEN [chans[i] EXCEPT !.q = Append(@, e)] ELSE chans[i]]

Publish(t) ==
    /\ Spend("events") /\ n' = n + 1
    /\ Offer(t, [n |-> n', topic |-> t, to |-> All], Conns)
    /\ UNCHANGED <<subs, conn, history>>

PublishScoped(t, u) ==
    /\ Spend("events") /\ n' = n + 1
    /\ Offer(t, [n |-> n', topic |-> t, to |-> u], {c \in Conns : UserOf[c] = u})
    /\ UNCHANGED <<subs, conn, history>>

-----------------------------------------------------------------------------
(* The handler of a connection. *)

\* the upgrade, and the first subscription
Connect(c) ==
    /\ conn[c].read = "new" /\ Spend("conns") /\ Subscribe(Own, c)
    /\ conn' = [conn EXCEPT ![c].read = "ack", ![c].pump = "wait", ![c].count = 1]
    /\ UNCHANGED <<n, stray>>

\* the read pump's own write ends: the acknowledgement or a pong
EndReply(c) ==
    /\ conn[c].read \in {"ack", "pong"} /\ conn' = [conn EXCEPT ![c].read = "read"]
    /\ UNCHANGED <<subs, chans, n, history, left>>

Reads(c) == conn[c].read = "read" /\ ~conn[c].gone

OnSubscribe(c, t) ==
    /\ Reads(c) /\ Spend("subscribes")
    /\ IF conn[c].count < MaxSubs
       THEN Subscribe(t, c) /\ conn' = [conn EXCEPT ![c].count = @ + 1]
       ELSE UNCHANGED <<subs, chans, conn, replaced>>
    /\ UNCHANGED <<n, stray>>

\* the count goes down whether or not the topic was subscribed
OnUnsubscribe(c, t) ==
    /\ Reads(c) /\ Spend("unsubscribes") /\ Unsubscribe(t, c)
    /\ conn' = [conn EXCEPT ![c].count = @ - 1]
    /\ stray' = IF subs[t][c] = 0 THEN stray \cup {c} ELSE stray
    /\ UNCHANGED <<n, replaced>>

OnPing(c) ==
    /\ Reads(c) /\ Spend("pings") /\ conn' = [conn EXCEPT ![c].read = "pong"]
    /\ UNCHANGED <<subs, chans, n, history>>

\* the browser closes the connection or is lost
Leave(c) ==
    /\ conn[c].read # "new" /\ ~conn[c].gone /\ conn' = [conn EXCEPT ![c].gone = TRUE]
    /\ UNCHANGED <<subs, chans, n, history, left>>

\* ReadMessage fails
Disconnect(c) ==
    /\ conn[c].read = "read" /\ conn[c].gone /\ UnsubscribeAll(c)
    /\ conn' = [conn EXCEPT ![c].read = "done"]
    /\ UNCHANGED <<n, history, left>>

\* an event is dropped when the dispatch channel is full
Forward(i) ==
    /\ chans[i].live /\ chans[i].q # <<>> /\ chans' = [chans EXCEPT ![i].q = Tail(@)]
    /\ LET c == chans[i].of IN
       conn' = IF Len(conn[c].out) < OutBuf
               THEN [conn EXCEPT ![c].out = Append(@, Head(chans[i].q))] ELSE conn
    /\ UNCHANGED <<subs, n, history, left>>

\* the channel is closed and empty
EndForward(i) ==
    /\ chans[i].live /\ chans[i].q = <<>> /\ ~chans[i].open
    /\ chans' = [chans EXCEPT ![i].live = FALSE]
    /\ UNCHANGED <<subs, conn, n, history, left>>

\* nothing closes the dispatch channel: the write pump ends with a failed write only
BeginWrite(c) ==
    /\ conn[c].pump = "wait" /\ conn[c].out # <<>> /\ conn' = [conn EXCEPT ![c].pump = "write"]
    /\ UNCHANGED <<subs, chans, n, history, left>>

EndWrite(c) ==
    /\ conn[c].pump = "write"
    /\ conn' = [conn EXCEPT ![c].out = Tail(@), ![c].pump = IF conn[c].gone THEN "done" ELSE "wait",
                            ![c].got = IF conn[c].gone THEN @ ELSE Append(@, Head(conn[c].out))]
    /\ UNCHANGED <<subs, chans, n, history, left>>

-----------------------------------------------------------------------------
Init ==
    /\ subs = [t \in Topics \cup {Own} |-> [c \in Conns |-> 0]] /\ chans = <<>> /\ n = 0
    /\ conn = [c \in Conns |-> [read |-> "new", pump |-> "none", gone |-> FALSE, count |-> 0,
                                out |-> <<>>, got |-> <<>>]]
    /\ replaced = {} /\ stray = {} /\ left \in Budgets

Goes(c) == EndReply(c) \/ Disconnect(c)
Pump(c) == BeginWrite(c) \/ EndWrite(c)
Run(i)  == i \in DOMAIN chans /\ (Forward(i) \/ EndForward(i))

Next ==
    \/ \E c \in Conns : \/ Connect(c) \/ Goes(c) \/ Pump(c) \/ OnPing(c) \/ Leave(c)
                        \/ \E t \in Topics \cup {Own} : OnSubscribe(c, t) \/ OnUnsubscribe(c, t)
    \/ \E i \in DOMAIN chans : Run(i)
    \/ \E t \in Topics : Publish(t) \/ \E u \in Users : PublishScoped(t, u)

\* goroutines run; a handler, its write pump and a forwarder are one each
MaxChans == Cardinality(Conns) * 4
Fairness == /\ \A c \in Conns : WF_vars(Goes(c)) /\ WF_vars(Pump(c))
            /\ \A i \in 1 .. MaxChans : WF_vars(Run(i))

Spec     == Init /\ [][Next]_vars
FairSpec == Spec /\ Fairness

-----------------------------------------------------------------------------
(* Properties. *)

\* Channels, connections and the broker's map have their types.
TypeOK ==
    /\ subs \in [Topics \cup {Own} -> [Conns -> 0 .. Len(chans)]]
    /\ \A i \in DOMAIN chans : chans[i] \in Channel /\ Len(chans[i].q) <= SubBuf
    /\ \A c \in Conns : conn[c] \in Conn /\ Len(conn[c].out) <= OutBuf

\* What the broker publishes to is open, whatever was subscribed again or
\* unsubscribed meanwhile: a send on a closed channel would end the gateway
\* (Unsubscribe, UnsubscribeAll, Publish).
RegisteredIsOpen ==
    \A t \in Topics \cup {Own}, c \in Conns :
        subs[t][c] # 0 => chans[subs[t][c]].open /\ chans[subs[t][c]].live

\* of a topic the browser subscribed once there is one channel, and one forwarder
SubscribedOnce(c, t) ==
    \A i, j \in DOMAIN chans :
        {chans[i].of, chans[j].of} = {c} /\ {chans[i].topic, chans[j].topic} = {t} => i = j

\* An event is written to a browser once, although a topic that is subscribed
\* again has two forwarders (Subscribe); and the events of a topic that was
\* subscribed once are written in the order they were published. Of one that was
\* subscribed again they are not: the two forwarders overtake each other.
WrittenInOrder ==
    \A c \in Conns : \A i, j \in DOMAIN conn[c].got :
        /\ conn[c].got[i] = conn[c].got[j] => i = j
        /\ i < j /\ conn[c].got[i].topic = conn[c].got[j].topic /\ SubscribedOnce(c, conn[c].got[i].topic)
             => conn[c].got[i].n < conn[c].got[j].n

\* An event for one user is on its way to that user's browsers only (PublishScoped).
ScopedStays == \A c \in Conns : \A e \in Waiting(c) : e.to \in {All, UserOf[c]}

\* 07-api.md:287, "WS subscriptions: capped per connection": of a browser that
\* unsubscribes only what it subscribed, however often it subscribes a topic again.
CapKept == \A c \in Conns : c \in stray \/ Cardinality(Subscriptions(c)) <= MaxSubs

\* The broker's map, its channels and the connections agree: what is registered
\* is open, an event reaches who it is for, and the cap is kept.
BrokerSound == TypeOK /\ RegisteredIsOpen /\ ScopedStays /\ CapKept

\* 07-api.md:287 of every browser.
Capped == \A c \in Conns : Cardinality(Subscriptions(c)) <= MaxSubs

\* No two goroutines write to a connection at once, which the WebSocket library
\* answers with a panic.
OneWriter == \A c \in Conns : ~(conn[c].read \in {"ack", "pong"} /\ conn[c].pump = "write")

\* After a browser is gone its forwarders end, but for those of channels that
\* another subscription to the same topic replaced (UnsubscribeAll).
ForwardersEnd == \A c \in Conns : conn[c].gone ~> Live(c) \subseteq replaced
=============================================================================
