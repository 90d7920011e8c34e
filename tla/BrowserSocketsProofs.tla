------------------------- MODULE BrowserSocketsProofs -------------------------
(***************************************************************************)
(* What is proved of the two kinds of WebSockets the gateway keeps with    *)
(* browsers. First the events: the broker and the handlers of WebEvents,   *)
(* for every number of connections, topics and users, every size of the    *)
(* channels and every number of events. Then the VNC sessions: the relay's *)
(* registry, its sockets and pumps, and the device's bridge of VncRelay,   *)
(* for every number of sessions, open requests and failures. The two share *)
(* no state.                                                               *)
(***************************************************************************)
EXTENDS WebEvents, VncRelay, SequenceTheorems, FiniteSetTheorems, WellFoundedInduction, TLAPS

-----------------------------------------------------------------------------
(* Queues of events                                                        *)

Nums(q)     == {e.n : e \in Range(q)}
Distinct(q) == \A k, l \in DOMAIN q : q[k].n = q[l].n => k = l

LEMMA QueueRows ==
  ASSUME NEW q \in Seq(Event)
  PROVE  /\ DOMAIN q = 1 .. Len(q) /\ Len(q) \in Nat
         /\ \A k \in DOMAIN q : q[k] \in Event /\ q[k] \in Range(q) /\ q[k].n \in Nums(q)
         /\ \A x \in Nums(q) : \E k \in DOMAIN q : q[k].n = x
         /\ Range(q) \subseteq Event /\ Nums(q) \subseteq Nat
<1>1. DOMAIN q = 1 .. Len(q) /\ Len(q) \in Nat
  BY LenProperties
<1>2. \A k \in DOMAIN q : q[k] \in Event
  BY <1>1, ElementOfSeq
<1>3. Range(q) \subseteq Event
  BY <1>2 DEF Range
<1>4. Nums(q) \subseteq Nat
  BY <1>3 DEF Nums, Event
<1> QED
  BY <1>1, <1>2, <1>3, <1>4 DEF Range, Nums

LEMMA QueueLonger ==
  ASSUME NEW q \in Seq(Event), NEW e \in Event
  PROVE  /\ Append(q, e) \in Seq(Event) /\ Len(Append(q, e)) = Len(q) + 1
         /\ Append(q, e) # << >>
         /\ Range(Append(q, e)) = Range(q) \cup {e} /\ Nums(Append(q, e)) = Nums(q) \cup {e.n}
         /\ Distinct(q) /\ e.n \notin Nums(q) => Distinct(Append(q, e))
<1>0. DOMAIN q = 1 .. Len(q) /\ Len(q) \in Nat
  BY QueueRows
<1> DEFINE z == Append(q, e)
<1>1. /\ z \in Seq(Event) /\ Len(z) = Len(q) + 1
      /\ (\A i \in 1 .. Len(q) : z[i] = q[i]) /\ z[Len(q) + 1] = e
  BY AppendProperties
<1> HIDE DEF z
<1>2. DOMAIN z = 1 .. Len(z)
  BY <1>1, LenProperties
<1>3. DOMAIN z = DOMAIN q \cup {Len(q) + 1}
  BY <1>0, <1>1, <1>2
<1>4. Range(z) = Range(q) \cup {e}
  BY <1>0, <1>1, <1>3 DEF Range
<1>5. Nums(z) = Nums(q) \cup {e.n}
  BY <1>4 DEF Nums
<1>6. ASSUME Distinct(q), e.n \notin Nums(q) PROVE Distinct(z)
  <2>1. \A k \in DOMAIN q : q[k].n # e.n
    BY <1>6, QueueRows
  <2> QED
    BY <1>0, <1>1, <1>3, <1>6, <2>1 DEF Distinct
<1>7. z # << >>
  BY <1>0, <1>1
<1> QED
  BY <1>1, <1>4, <1>5, <1>6, <1>7 DEF z

LEMMA QueueShorter ==
  ASSUME NEW q \in Seq(Event), q # << >>
  PROVE  /\ Head(q) \in Event /\ Head(q) \in Range(q) /\ Head(q).n \in Nums(q)
         /\ Tail(q) \in Seq(Event) /\ Len(Tail(q)) = Len(q) - 1
         /\ Range(Tail(q)) \subseteq Range(q)
         /\ Distinct(q) => Distinct(Tail(q)) /\ Nums(Tail(q)) \subseteq Nums(q) \ {Head(q).n}
<1>0. DOMAIN q = 1 .. Len(q) /\ Len(q) \in Nat /\ Len(q) > 0
  BY QueueRows, EmptySeq
<1> DEFINE z == Tail(q)
<1>1. /\ z \in Seq(Event) /\ Len(z) = Len(q) - 1
      /\ (\A i \in 1 .. Len(z) : z[i] = q[i + 1]) /\ Head(q) = q[1]
  BY HeadTailProperties
<1> HIDE DEF z
<1>2. DOMAIN z = 1 .. Len(z)
  BY <1>1, LenProperties
<1>3. \A i \in DOMAIN z : i + 1 \in DOMAIN q /\ z[i] = q[i + 1] /\ i + 1 # 1
  BY <1>0, <1>1, <1>2
<1>4. 1 \in DOMAIN q
  BY <1>0
<1>5. Head(q) \in Event /\ Head(q) \in Range(q) /\ Head(q).n \in Nums(q)
  BY <1>1, <1>4, QueueRows
<1>6. Range(z) \subseteq Range(q)
  BY <1>3 DEF Range
<1>7. ASSUME Distinct(q) PROVE Distinct(z) /\ Nums(z) \subseteq Nums(q) \ {Head(q).n}
  <2>1. ASSUME NEW k \in DOMAIN z, NEW l \in DOMAIN z, z[k].n = z[l].n PROVE k = l
    <3>1. k + 1 = l + 1
      BY <1>3, <1>7, <2>1 DEF Distinct
    <3> QED
      BY <1>2, <3>1
  <2>2. ASSUME NEW x \in Nums(z) PROVE x \in Nums(q) \ {Head(q).n}
    <3>1. PICK k \in DOMAIN z : z[k].n = x
      BY <1>1, QueueRows
    <3>2. x \in Nums(q)
      BY <1>3, <3>1, QueueRows
    <3>3. x # q[1].n
      BY <1>3, <1>4, <1>7, <3>1 DEF Distinct
    <3> QED
      BY <1>1, <3>2, <3>3
  <2> QED
    BY <2>1, <2>2 DEF Distinct
<1> QED
  BY <1>1, <1>5, <1>6, <1>7 DEF z

-----------------------------------------------------------------------------
(* Types                                                                   *)

Subjects == Topics \cup {Own}

Types == /\ subs \in [Subjects -> [Conns -> Nat]] /\ chans \in Seq(Channel) /\ n \in Nat
         /\ conn \in [Conns -> Conn]

\* a queue is never longer than its channel, and a write has an event to write
Bounded == /\ \A i \in DOMAIN chans : Len(chans[i].q) <= SubBuf
           /\ \A c \in Conns : /\ Len(conn[c].out) <= OutBuf
                               /\ conn[c].pump = "write" => conn[c].out # << >>

\* the broker's map names an open channel of that connection and topic
Wired == \A t \in Subjects, c \in Conns : subs[t][c] # 0 =>
             /\ subs[t][c] \in DOMAIN chans
             /\ chans[subs[t][c]].of = c /\ chans[subs[t][c]].topic = t
             /\ chans[subs[t][c]].open /\ chans[subs[t][c]].live

LEMMA ChanRows ==
  ASSUME Types
  PROVE  /\ DOMAIN chans = 1 .. Len(chans) /\ Len(chans) \in Nat
         /\ \A i \in DOMAIN chans : /\ chans[i] \in Channel /\ chans[i].of \in Conns
                                    /\ chans[i].topic \in Subjects /\ chans[i].q \in Seq(Event)
         /\ \A f \in [1 .. Len(chans) -> Channel] : f \in Seq(Channel) /\ Len(f) = Len(chans)
<1>1. chans \in Seq(Channel)
  BY DEF Types
<1>2. DOMAIN chans = 1 .. Len(chans) /\ Len(chans) \in Nat
  BY <1>1, LenProperties
<1>3. \A i \in DOMAIN chans : chans[i] \in Channel
  BY <1>1, <1>2, ElementOfSeq
<1>4. \A f \in [1 .. Len(chans) -> Channel] : f \in Seq(Channel) /\ Len(f) = Len(chans)
  BY <1>2, IsASeq
<1> QED
  BY <1>2, <1>3, <1>4 DEF Channel, Subjects

\* rows are written in place
LEMMA ChansSet ==
  ASSUME Types, DOMAIN chans' = DOMAIN chans, chans' = [i \in DOMAIN chans |-> chans'[i]],
         \A i \in DOMAIN chans : chans'[i] \in Channel
  PROVE  chans' \in Seq(Channel) /\ Len(chans') = Len(chans)
<1>1. chans' \in [1 .. Len(chans) -> Channel]
  BY ChanRows
<1> QED
  BY <1>1, ChanRows

\* a new subscription
LEMMA SubscribeWires ==
  ASSUME Types, Wired, NEW t \in Subjects, NEW c \in Conns, Subscribe(t, c)
  PROVE  /\ subs' \in [Subjects -> [Conns -> Nat]] /\ chans' \in Seq(Channel)
         /\ DOMAIN chans' = DOMAIN chans \cup {Len(chans) + 1}
         /\ \A i \in DOMAIN chans : chans'[i] = chans[i]
         /\ chans'[Len(chans) + 1] = [of |-> c, topic |-> t, open |-> TRUE, live |-> TRUE, q |-> << >>]
         /\ Wired'
         /\ \A s \in Subjects, o \in Conns : subs'[s][o] = IF s = t /\ o = c THEN Len(chans) + 1 ELSE subs[s][o]
<1>0. DOMAIN chans = 1 .. Len(chans) /\ Len(chans) \in Nat /\ chans \in Seq(Channel)
  BY ChanRows DEF Types
<1>1. PICK m \in Nat : m = Len(chans) + 1
  BY <1>0
<1>2. PICK r : r = [of |-> c, topic |-> t, open |-> TRUE, live |-> TRUE, q |-> << >>]
  OBVIOUS
<1>3. << >> \in Seq(Event)
  OBVIOUS
<1>4. r \in Channel
  BY <1>2, <1>3 DEF Channel, Subjects
<1>5. chans' = Append(chans, r) /\ subs' = [subs EXCEPT ![t][c] = m]
  BY <1>1, <1>2 DEF Subscribe
<1>6. /\ chans' \in Seq(Channel) /\ Len(chans') = Len(chans) + 1
      /\ (\A i \in 1 .. Len(chans) : chans'[i] = chans[i]) /\ chans'[Len(chans) + 1] = r
  BY <1>0, <1>4, <1>5, AppendProperties
<1>7. DOMAIN chans' = 1 .. Len(chans')
  BY <1>6, LenProperties
<1>8. DOMAIN chans' = DOMAIN chans \cup {m} /\ m \notin DOMAIN chans /\ chans'[m] = r
  BY <1>0, <1>1, <1>6, <1>7
<1>9. /\ subs' \in [Subjects -> [Conns -> Nat]]
      /\ \A s \in Subjects, o \in Conns : subs'[s][o] = IF s = t /\ o = c THEN m ELSE subs[s][o]
  BY <1>5 DEF Types
<1>10. Wired'
  <2> SUFFICES ASSUME NEW s \in Subjects, NEW o \in Conns, subs'[s][o] # 0
               PROVE  /\ subs'[s][o] \in DOMAIN chans'
                      /\ chans'[subs'[s][o]].of = o /\ chans'[subs'[s][o]].topic = s
                      /\ chans'[subs'[s][o]].open /\ chans'[subs'[s][o]].live
    BY DEF Wired
  <2>1. CASE s = t /\ o = c
    <3>1. subs'[s][o] = m
      BY <1>9, <2>1
    <3> QED
      BY <1>2, <1>8, <2>1, <3>1
  <2>2. CASE ~ (s = t /\ o = c)
    <3>1. subs'[s][o] = subs[s][o]
      BY <1>9, <2>2
    <3>2. subs[s][o] \in 1 .. Len(chans)
      BY <1>0, <3>1 DEF Wired
    <3> QED
      BY <1>0, <1>6, <1>8, <3>1, <3>2 DEF Wired
  <2> QED
    BY <2>1, <2>2
<1> QED
  BY <1>0, <1>1, <1>2, <1>6, <1>8, <1>9, <1>10

\* rows that keep their connection, topic and queue
RowsAlike == /\ chans' \in Seq(Channel) /\ DOMAIN chans' = DOMAIN chans
             /\ \A i \in DOMAIN chans : /\ chans'[i].of = chans[i].of /\ chans'[i].topic = chans[i].topic
                                        /\ chans'[i].q = chans[i].q

LEMMA UnsubscribeWires ==
  ASSUME Types, Wired, NEW t \in Subjects, NEW c \in Conns, Unsubscribe(t, c)
  PROVE  /\ subs' \in [Subjects -> [Conns -> Nat]] /\ RowsAlike /\ Wired'
         /\ \A s \in Subjects, o \in Conns : subs'[s][o] = IF s = t /\ o = c THEN 0 ELSE subs[s][o]
<1>r. chans \in Seq(Channel)
  BY DEF Types
<1>1. CASE subs[t][c] = 0
  <2>1. UNCHANGED <<subs, chans>>
    BY <1>1 DEF Unsubscribe
  <2> QED
    BY <1>r, <1>1, <2>1 DEF RowsAlike, Wired, Types
<1>2. CASE subs[t][c] # 0
  <2>1. PICK m : m = subs[t][c]
    OBVIOUS
  <2>2. m \in DOMAIN chans /\ chans[m].of = c /\ chans[m].topic = t
    BY <1>2, <2>1 DEF Wired
  <2>3. PICK r : r = [chans[m] EXCEPT !.open = FALSE]
    OBVIOUS
  <2>4. chans' = [chans EXCEPT ![m] = r] /\ subs' = [subs EXCEPT ![t][c] = 0]
    BY <1>2, <2>1, <2>3 DEF Unsubscribe, Close
  <2>5. chans[m] \in Channel
    BY <2>2, ChanRows
  <2>6. r \in Channel /\ r.of = chans[m].of /\ r.topic = chans[m].topic /\ r.q = chans[m].q
    BY <2>3, <2>5 DEF Channel
  <2>7. /\ DOMAIN chans' = DOMAIN chans /\ chans' = [i \in DOMAIN chans |-> chans'[i]]
        /\ chans'[m] = r /\ \A i \in DOMAIN chans \ {m} : chans'[i] = chans[i]
    BY <1>r, <2>2, <2>4
  <2>8. \A i \in DOMAIN chans : chans'[i] \in Channel
    BY <2>6, <2>7, ChanRows
  <2>9. RowsAlike
    BY <2>6, <2>7, <2>8, ChansSet DEF RowsAlike
  <2>10. /\ subs' \in [Subjects -> [Conns -> Nat]]
         /\ \A s \in Subjects, o \in Conns : subs'[s][o] = IF s = t /\ o = c THEN 0 ELSE subs[s][o]
    BY <2>4 DEF Types
  <2>11. ASSUME NEW s \in Subjects, NEW o \in Conns, subs'[s][o] # 0
         PROVE  /\ subs'[s][o] \in DOMAIN chans'
                /\ chans'[subs'[s][o]].of = o /\ chans'[subs'[s][o]].topic = s
                /\ chans'[subs'[s][o]].open /\ chans'[subs'[s][o]].live
    <3>1. subs'[s][o] = subs[s][o] /\ ~ (s = t /\ o = c)
      BY <2>10, <2>11
    <3>2. /\ subs[s][o] \in DOMAIN chans /\ chans[subs[s][o]].of = o /\ chans[subs[s][o]].topic = s
          /\ chans[subs[s][o]].open /\ chans[subs[s][o]].live
      BY <2>11, <3>1 DEF Wired
    <3>3. subs[s][o] # m
      BY <2>2, <3>1, <3>2
    <3> QED
      BY <2>7, <3>1, <3>2, <3>3
  <2>12. Wired'
    BY <2>11 DEF Wired
  <2> QED
    BY <2>9, <2>10, <2>12
<1> QED
  BY <1>1, <1>2

LEMMA DisconnectWires ==
  ASSUME Types, Wired, NEW c \in Conns, UnsubscribeAll(c)
  PROVE  /\ subs' \in [Subjects -> [Conns -> Nat]] /\ RowsAlike /\ Wired'
         /\ \A s \in Subjects, o \in Conns : subs'[s][o] = IF o = c THEN 0 ELSE subs[s][o]
<1>1. /\ DOMAIN chans' = DOMAIN chans /\ chans' = [i \in DOMAIN chans |-> chans'[i]]
      /\ \A i \in DOMAIN chans : \/ chans'[i] = chans[i]
                                 \/ chans'[i] = [chans[i] EXCEPT !.open = FALSE] /\ chans[i].of = c
  BY DEF UnsubscribeAll
<1>2. ASSUME NEW i \in DOMAIN chans
      PROVE  /\ chans'[i] \in Channel /\ chans'[i].of = chans[i].of /\ chans'[i].topic = chans[i].topic
             /\ chans'[i].q = chans[i].q
             /\ chans[i].of # c => chans'[i] = chans[i]
  <2>1. chans[i] \in Channel
    BY ChanRows
  <2> QED
    BY <1>1, <2>1 DEF Channel
<1>3. RowsAlike
  BY <1>1, <1>2, ChansSet DEF RowsAlike
<1>4. /\ subs' \in [Subjects -> [Conns -> Nat]]
      /\ \A s \in Subjects, o \in Conns : subs'[s][o] = IF o = c THEN 0 ELSE subs[s][o]
  <2>1. \A s \in Subjects : subs'[s] = [subs[s] EXCEPT ![c] = 0] /\ subs[s] \in [Conns -> Nat]
    BY DEF UnsubscribeAll, Types, Subjects
  <2>2. subs' = [s \in Subjects |-> subs'[s]]
    BY DEF UnsubscribeAll, Subjects
  <2>3. ASSUME NEW s \in Subjects PROVE subs'[s] \in [Conns -> Nat]
    <3>1. PICK f \in [Conns -> Nat] : f = subs[s]
      BY <2>1
    <3>2. [f EXCEPT ![c] = 0] \in [Conns -> Nat]
      OBVIOUS
    <3> QED
      BY <2>1, <3>1, <3>2
  <2>4. subs' \in [Subjects -> [Conns -> Nat]]
    BY <2>2, <2>3
  <2> QED
    BY <2>1, <2>4
<1>5. Wired'
  <2> SUFFICES ASSUME NEW s \in Subjects, NEW o \in Conns, subs'[s][o] # 0
               PROVE  /\ subs'[s][o] \in DOMAIN chans'
                      /\ chans'[subs'[s][o]].of = o /\ chans'[subs'[s][o]].topic = s
                      /\ chans'[subs'[s][o]].open /\ chans'[subs'[s][o]].live
    BY DEF Wired
  <2>1. subs'[s][o] = subs[s][o] /\ o # c
    BY <1>4
  <2>2. /\ subs[s][o] \in DOMAIN chans /\ chans[subs[s][o]].of = o /\ chans[subs[s][o]].topic = s
        /\ chans[subs[s][o]].open /\ chans[subs[s][o]].live
    BY <2>1 DEF Wired
  <2>3. chans'[subs[s][o]] = chans[subs[s][o]]
    BY <1>2, <2>1, <2>2
  <2> QED
    BY <1>1, <2>1, <2>2, <2>3
<1> QED
  BY <1>3, <1>4, <1>5

-----------------------------------------------------------------------------
(* Where events are                                                        *)

\* an event is in one place on its way to a browser, and the last one is the newest
OnTheWay ==
    /\ \A c \in Conns : /\ Distinct(conn[c].out) /\ Distinct(conn[c].got)
                        /\ Nums(conn[c].out) \cap Nums(conn[c].got) = {}
                        /\ \A x \in Nums(conn[c].out) \cup Nums(conn[c].got) : x <= n
    /\ \A i \in DOMAIN chans :
         /\ Distinct(chans[i].q) /\ \A x \in Nums(chans[i].q) : x <= n
         /\ Nums(chans[i].q) \cap Nums(conn[chans[i].of].out) = {}
         /\ Nums(chans[i].q) \cap Nums(conn[chans[i].of].got) = {}
    /\ \A i, j \in DOMAIN chans : i # j /\ chans[i].of = chans[j].of => Nums(chans[i].q) \cap Nums(chans[j].q) = {}

\* and for this browser
Addressed ==
    /\ \A i \in DOMAIN chans : \A e \in Range(chans[i].q) : e.to \in {All, UserOf[chans[i].of]}
    /\ \A c \in Conns : \A e \in Range(conn[c].out) : e.to \in {All, UserOf[c]}

Flow == Bounded /\ OnTheWay /\ Addressed

\* a step that moves no event
QueuesStay ==
    /\ DOMAIN chans \subseteq DOMAIN chans'
    /\ \A i \in DOMAIN chans : chans'[i].of = chans[i].of /\ chans'[i].q = chans[i].q
    /\ \A i \in DOMAIN chans' \ DOMAIN chans : chans'[i].q = << >> /\ chans'[i].of \in Conns
    /\ \A c \in Conns : /\ conn'[c].out = conn[c].out /\ conn'[c].got = conn[c].got
                        /\ conn'[c].pump = "write" => conn[c].out # << >>
    /\ n' = n

LEMMA NoEvents == Range(<< >>) = {} /\ Nums(<< >>) = {} /\ Distinct(<< >>) /\ Len(<< >>) = 0
<1>1. DOMAIN << >> = {}
  OBVIOUS
<1> QED
  BY <1>1 DEF Range, Nums, Distinct

LEMMA FlowStays ==
  ASSUME Types, Flow, QueuesStay
  PROVE  Flow'
<1> USE DEF Flow, QueuesStay
<1>1. \A i \in DOMAIN chans' : i \in DOMAIN chans \/ chans'[i].q = << >>
  OBVIOUS
<1>2. Bounded'
  <2>1. \A i \in DOMAIN chans' : Len(chans'[i].q) <= SubBuf
    BY <1>1, NoEvents, WebEventsConstantsOK DEF Bounded
  <2> QED
    BY <2>1 DEF Bounded
<1>3. Addressed'
  <2>1. \A i \in DOMAIN chans' : \A e \in Range(chans'[i].q) : e.to \in {All, UserOf[chans'[i].of]}
    BY <1>1, NoEvents DEF Addressed
  <2> QED
    BY <2>1 DEF Addressed
<1>4. OnTheWay'
  <2>1. \A c \in Conns : /\ Distinct(conn'[c].out) /\ Distinct(conn'[c].got)
                         /\ Nums(conn'[c].out) \cap Nums(conn'[c].got) = {}
                         /\ \A x \in Nums(conn'[c].out) \cup Nums(conn'[c].got) : x <= n'
    BY DEF OnTheWay
  <2>2. ASSUME NEW i \in DOMAIN chans'
        PROVE  /\ Distinct(chans'[i].q) /\ \A x \in Nums(chans'[i].q) : x <= n'
               /\ Nums(chans'[i].q) \cap Nums(conn'[chans'[i].of].out) = {}
               /\ Nums(chans'[i].q) \cap Nums(conn'[chans'[i].of].got) = {}
    <3>1. CASE i \in DOMAIN chans
      <4>1. chans'[i].of = chans[i].of /\ chans'[i].q = chans[i].q /\ chans[i].of \in Conns /\ n' = n
        BY <3>1, ChanRows
      <4>2. conn'[chans[i].of].out = conn[chans[i].of].out /\ conn'[chans[i].of].got = conn[chans[i].of].got
        BY <4>1
      <4> QED
        BY <3>1, <4>1, <4>2 DEF OnTheWay
    <3>2. CASE i \notin DOMAIN chans
      BY <1>1, <3>2, NoEvents
    <3> QED
      BY <3>1, <3>2
  <2>3. ASSUME NEW i \in DOMAIN chans', NEW j \in DOMAIN chans', i # j, chans'[i].of = chans'[j].of
        PROVE  Nums(chans'[i].q) \cap Nums(chans'[j].q) = {}
    BY <1>1, <2>3, NoEvents DEF OnTheWay
  <2> QED
    BY <2>1, <2>2, <2>3 DEF OnTheWay
<1> QED
  BY <1>2, <1>3, <1>4

\* what the places of events say, one row at a time
LEMMA Places ==
  ASSUME Types, Flow, NEW i \in DOMAIN chans
  PROVE  /\ chans[i] \in Channel /\ chans[i].of \in Conns /\ chans[i].q \in Seq(Event)
         /\ Len(chans[i].q) <= SubBuf /\ Distinct(chans[i].q)
         /\ \A x \in Nums(chans[i].q) : x \in Nat /\ x <= n
         /\ \A c \in Conns : chans[i].of = c => /\ Nums(chans[i].q) \cap Nums(conn[c].out) = {}
                                                /\ Nums(chans[i].q) \cap Nums(conn[c].got) = {}
                                                /\ \A e \in Range(chans[i].q) : e.to \in {All, UserOf[c]}
<1>1. chans[i] \in Channel /\ chans[i].of \in Conns /\ chans[i].q \in Seq(Event)
  BY ChanRows
<1>2. Nums(chans[i].q) \subseteq Nat
  BY <1>1, QueueRows
<1> QED
  BY <1>1, <1>2 DEF Flow, Bounded, OnTheWay, Addressed

LEMMA ConnPlaces ==
  ASSUME Types, Flow, NEW c \in Conns
  PROVE  /\ conn[c] \in Conn /\ conn[c].out \in Seq(Event) /\ conn[c].got \in Seq(Event)
         /\ Len(conn[c].out) <= OutBuf /\ Distinct(conn[c].out) /\ Distinct(conn[c].got)
         /\ Nums(conn[c].out) \cap Nums(conn[c].got) = {}
         /\ \A x \in Nums(conn[c].out) \cup Nums(conn[c].got) : x \in Nat /\ x <= n
         /\ \A e \in Range(conn[c].out) : e.to \in {All, UserOf[c]}
<1>1. conn[c] \in Conn /\ conn[c].out \in Seq(Event) /\ conn[c].got \in Seq(Event)
  BY DEF Types, Conn
<1>2. Nums(conn[c].out) \subseteq Nat /\ Nums(conn[c].got) \subseteq Nat
  BY <1>1, QueueRows
<1> QED
  BY <1>1, <1>2 DEF Flow, Bounded, OnTheWay, Addressed

LEMMA OfferFlow ==
  ASSUME Types, Wired, Flow, NEW t \in Topics, NEW e \in Event, e.n = n + 1, NEW receivers, receivers \subseteq Conns,
         \A c \in receivers : e.to \in {All, UserOf[c]},
         Offer(t, e, receivers), n' = n + 1, UNCHANGED <<subs, conn>>
  PROVE  chans' \in Seq(Channel) /\ DOMAIN chans' = DOMAIN chans /\ Wired' /\ Flow'
<1>n. n \in Nat /\ n' \in Nat /\ n < n' /\ SubBuf \in Nat
  BY WebEventsConstantsOK DEF Types
<1>m. ~ (n' <= n) /\ n' <= n'
  BY <1>n
<1> DEFINE Hit(i) == \E c \in receivers : subs[t][c] = i /\ Len(chans[i].q) < SubBuf
<1>1. /\ DOMAIN chans' = DOMAIN chans /\ chans' = [i \in DOMAIN chans |-> chans'[i]]
      /\ \A i \in DOMAIN chans : chans'[i] = IF Hit(i) THEN [chans[i] EXCEPT !.q = Append(@, e)] ELSE chans[i]
  BY DEF Offer
<1>2. ASSUME NEW i \in DOMAIN chans
      PROVE  /\ chans'[i] \in Channel /\ chans'[i].of = chans[i].of /\ chans'[i].topic = chans[i].topic
             /\ chans'[i].open = chans[i].open /\ chans'[i].live = chans[i].live
             /\ chans'[i].q = IF Hit(i) THEN Append(chans[i].q, e) ELSE chans[i].q
  <2>1. chans[i] \in Channel /\ chans[i].q \in Seq(Event)
    BY ChanRows
  <2>2. Append(chans[i].q, e) \in Seq(Event)
    BY <2>1, QueueLonger
  <2>3. PICK z \in Seq(Event) : z = Append(chans[i].q, e)
    BY <2>2
  <2>4. chans'[i] = IF Hit(i) THEN [chans[i] EXCEPT !.q = z] ELSE chans[i]
    BY <1>1, <2>3
  <2> HIDE DEF Hit
  <2> QED
    BY <2>1, <2>3, <2>4 DEF Channel
<1>3. ASSUME NEW i \in DOMAIN chans, Hit(i)
      PROVE  /\ Len(chans[i].q) < SubBuf /\ chans[i].of \in receivers /\ i = subs[t][chans[i].of]
  <2>1. PICK c \in receivers : subs[t][c] = i /\ Len(chans[i].q) < SubBuf
    BY <1>3
  <2>2. t \in Subjects /\ c \in Conns /\ i # 0
    BY ChanRows DEF Subjects
  <2> QED
    BY <2>1, <2>2 DEF Wired
<1> HIDE DEF Hit
<1>4. chans' \in Seq(Channel)
  BY <1>1, <1>2, ChansSet
<1>5. Wired'
  <2> SUFFICES ASSUME NEW s \in Subjects, NEW o \in Conns, subs'[s][o] # 0
               PROVE  /\ subs'[s][o] \in DOMAIN chans'
                      /\ chans'[subs'[s][o]].of = o /\ chans'[subs'[s][o]].topic = s
                      /\ chans'[subs'[s][o]].open /\ chans'[subs'[s][o]].live
    BY DEF Wired
  <2>1. subs[s][o] \in DOMAIN chans /\ subs' = subs
    BY DEF Wired
  <2> QED
    BY <1>1, <1>2, <2>1 DEF Wired
<1>q. ASSUME NEW i \in DOMAIN chans
      PROVE  /\ Len(chans'[i].q) <= SubBuf /\ Distinct(chans'[i].q)
             /\ Nums(chans'[i].q) = IF Hit(i) THEN Nums(chans[i].q) \cup {n'} ELSE Nums(chans[i].q)
             /\ \A d \in Range(chans'[i].q) : d.to \in {All, UserOf[chans[i].of]}
  <2>1. CASE ~Hit(i)
    BY <1>2, <2>1, Places
  <2>2. CASE Hit(i)
    <3>0. \A x \in Nums(chans[i].q) : x <= n
      BY Places
    <3>1. e.n \notin Nums(chans[i].q)
      BY <1>m, <3>0
    <3>2. chans'[i].q = Append(chans[i].q, e) /\ Len(chans[i].q) < SubBuf /\ e.to \in {All, UserOf[chans[i].of]}
      BY <1>2, <1>3, <2>2
    <3>3. Len(chans'[i].q) = Len(chans[i].q) + 1 /\ Distinct(chans'[i].q) /\ Nums(chans'[i].q) = Nums(chans[i].q) \cup {n'}
          /\ Range(chans'[i].q) = Range(chans[i].q) \cup {e}
      BY <3>1, <3>2, Places, QueueLonger
    <3>4. Len(chans'[i].q) <= SubBuf
      <4>1. Len(chans[i].q) \in Nat
        BY ChanRows, LenProperties
      <4> QED
        BY <1>n, <3>2, <3>3, <4>1
    <3> QED
      BY <2>2, <3>2, <3>3, <3>4, Places
  <2> QED
    BY <2>1, <2>2
<1>c. \A c \in Conns : \A x \in Nums(conn[c].out) \cup Nums(conn[c].got) : x <= n /\ x # n'
  <2>1. ASSUME NEW c \in Conns, NEW x \in Nums(conn[c].out) \cup Nums(conn[c].got) PROVE x <= n /\ x # n'
    <3>1. x <= n
      BY ConnPlaces
    <3> QED
      BY <1>m, <3>1
  <2> QED
    BY <2>1
<1>6. Bounded' /\ Addressed'
  BY <1>1, <1>2, <1>q DEF Flow, Bounded, Addressed
<1>7. OnTheWay'
  <2>1. ASSUME NEW c \in Conns
        PROVE  /\ Distinct(conn'[c].out) /\ Distinct(conn'[c].got)
               /\ Nums(conn'[c].out) \cap Nums(conn'[c].got) = {}
               /\ \A x \in Nums(conn'[c].out) \cup Nums(conn'[c].got) : x <= n'
    <3>1. ASSUME NEW x \in Nums(conn[c].out) \cup Nums(conn[c].got) PROVE x <= n'
      <4>1. x \in Nat
        BY ConnPlaces
      <4> QED
        BY <1>n, <1>c, <4>1
    <3> QED
      BY <3>1, ConnPlaces
  <2>2. ASSUME NEW i \in DOMAIN chans
        PROVE  /\ Distinct(chans'[i].q) /\ \A x \in Nums(chans'[i].q) : x <= n'
               /\ Nums(chans'[i].q) \cap Nums(conn[chans[i].of].out) = {}
               /\ Nums(chans'[i].q) \cap Nums(conn[chans[i].of].got) = {}
    <3>1. \A x \in Nums(chans[i].q) : x <= n'
      <4>1. ASSUME NEW x \in Nums(chans[i].q) PROVE x <= n'
        <5>1. x \in Nat /\ x <= n
          BY Places
        <5> QED
          BY <1>n, <5>1
      <4> QED
        BY <4>1
    <3>2. chans[i].of \in Conns
      BY Places
    <3>3. \A x \in Nums(chans'[i].q) : x \in Nums(chans[i].q) \/ x = n'
      <4>1. Nums(chans'[i].q) = IF Hit(i) THEN Nums(chans[i].q) \cup {n'} ELSE Nums(chans[i].q)
        BY <1>q
      <4> QED
        BY <4>1
    <3>4. n' <= n' /\ Distinct(chans'[i].q)
      <4>1. Distinct(chans'[i].q)
        BY <1>q
      <4> QED
        BY <1>m, <4>1
    <3>5. \A x \in Nums(chans'[i].q) : x <= n'
      BY <3>1, <3>3, <3>4
    <3>6. /\ Nums(chans[i].q) \cap Nums(conn[chans[i].of].out) = {}
          /\ Nums(chans[i].q) \cap Nums(conn[chans[i].of].got) = {}
      BY <3>2, Places
    <3> QED
      BY <1>c, <3>2, <3>3, <3>4, <3>5, <3>6
  <2>3. ASSUME NEW i \in DOMAIN chans, NEW j \in DOMAIN chans, i # j, chans[i].of = chans[j].of
        PROVE  Nums(chans'[i].q) \cap Nums(chans'[j].q) = {}
    <3>1. ~ (Hit(i) /\ Hit(j))
      BY <1>3, <2>3
    <3>0. (\A x \in Nums(chans[i].q) : x <= n) /\ \A x \in Nums(chans[j].q) : x <= n
      BY Places
    <3>2. n' \notin Nums(chans[i].q) /\ n' \notin Nums(chans[j].q)
      BY <1>m, <3>0
    <3>3. Nums(chans[i].q) \cap Nums(chans[j].q) = {}
      BY <2>3 DEF Flow, OnTheWay
    <3> QED
      BY <1>q, <3>1, <3>2, <3>3
  <2>4. \A i \in DOMAIN chans : chans'[i].of = chans[i].of
    BY <1>2
  <2>5. conn' = conn /\ DOMAIN chans' = DOMAIN chans
    BY <1>1
  <2> QED
    BY <2>1, <2>2, <2>3, <2>4, <2>5 DEF OnTheWay
<1> QED
  BY <1>1, <1>4, <1>5, <1>6, <1>7 DEF Flow

\* a forwarder moves the first event of its channel, or drops it
LEMMA ForwardFlow ==
  ASSUME Types, Wired, Flow, NEW i \in DOMAIN chans, Forward(i)
  PROVE  Types' /\ Wired' /\ Flow'
<1> DEFINE c == chans[i].of
           e == Head(chans[i].q)
<1>1. c \in Conns /\ chans[i] \in Channel /\ chans[i].q \in Seq(Event) /\ chans[i].q # << >>
  BY ChanRows DEF Forward
<1>o. conn[c] \in Conn /\ conn[c].out \in Seq(Event) /\ conn[c].got \in Seq(Event)
  BY <1>1, ConnPlaces
<1>2. PICK z \in Seq(Event) : z = Tail(chans[i].q)
  BY <1>1, QueueShorter
<1>3. PICK r : r = [chans[i] EXCEPT !.q = z]
  OBVIOUS
<1>4. chans' = [chans EXCEPT ![i] = r] /\ UNCHANGED <<subs, n>>
  BY <1>2, <1>3 DEF Forward
<1>5. /\ r \in Channel /\ r.of = c /\ r.topic = chans[i].topic /\ r.q = z
      /\ r.open = chans[i].open /\ r.live = chans[i].live
  BY <1>1, <1>2, <1>3 DEF Channel
<1>6. /\ DOMAIN chans' = DOMAIN chans /\ chans' = [j \in DOMAIN chans |-> chans'[j]]
      /\ chans'[i] = r /\ \A j \in DOMAIN chans \ {i} : chans'[j] = chans[j]
  BY <1>4 DEF Types
<1>7. chans' \in Seq(Channel)
  BY <1>5, <1>6, ChanRows, ChansSet
<1>8. Wired'
  BY <1>4, <1>5, <1>6 DEF Wired
<1>9. /\ e \in Event /\ e.n \in Nums(chans[i].q) /\ e \in Range(chans[i].q)
      /\ Range(z) \subseteq Range(chans[i].q) /\ Distinct(z) /\ Nums(z) \subseteq Nums(chans[i].q) \ {e.n}
      /\ Len(z) <= SubBuf
  <2>1. Distinct(chans[i].q) /\ Len(chans[i].q) <= SubBuf
    BY Places
  <2>2. Len(z) = Len(chans[i].q) - 1 /\ Len(chans[i].q) \in Nat
    BY <1>1, <1>2, QueueShorter, QueueRows
  <2>3. Len(z) <= SubBuf
    BY <2>1, <2>2, WebEventsConstantsOK
  <2> QED
    BY <1>1, <1>2, <2>1, <2>3, QueueShorter
<1>10. PICK x : x = IF Len(conn[c].out) < OutBuf THEN [conn[c] EXCEPT !.out = Append(@, e)] ELSE conn[c]
  OBVIOUS
<1>11. conn' = [conn EXCEPT ![c] = x]
  <2>1. CASE Len(conn[c].out) < OutBuf
    BY <1>10, <2>1 DEF Forward
  <2>2. CASE ~ (Len(conn[c].out) < OutBuf)
    <3>1. conn' = conn /\ x = conn[c]
      BY <1>10, <2>2 DEF Forward
    <3> QED
      BY <3>1 DEF Types
  <2> QED
    BY <2>1, <2>2
<1>12. PICK y : y = Append(conn[c].out, e)
  OBVIOUS
<1>13. /\ x \in Conn /\ x.got = conn[c].got /\ x.pump = conn[c].pump
       /\ x.out = y \/ x.out = conn[c].out
       /\ Len(x.out) <= OutBuf
       /\ y \in Seq(Event) /\ y # << >>
       /\ Range(y) = Range(conn[c].out) \cup {e} /\ Nums(y) = Nums(conn[c].out) \cup {e.n}
       /\ e.n \notin Nums(conn[c].out) => Distinct(y)
  <2>1. Distinct(conn[c].out) /\ Len(conn[c].out) <= OutBuf
    BY <1>1, ConnPlaces
  <2>2. /\ y \in Seq(Event) /\ y # << >> /\ Len(y) = Len(conn[c].out) + 1
        /\ Range(y) = Range(conn[c].out) \cup {e} /\ Nums(y) = Nums(conn[c].out) \cup {e.n}
        /\ e.n \notin Nums(conn[c].out) => Distinct(y)
    BY <1>9, <1>12, <1>o, <2>1, QueueLonger
  <2>3. CASE Len(conn[c].out) < OutBuf
    <3>1. x = [conn[c] EXCEPT !.out = y]
      BY <1>10, <1>12, <2>3
    <3>2. x \in Conn /\ x.got = conn[c].got /\ x.pump = conn[c].pump /\ x.out = y
      BY <1>o, <2>2, <3>1 DEF Conn
    <3>3. Len(y) <= OutBuf
      <4>1. Len(conn[c].out) \in Nat /\ OutBuf \in Nat
        BY <1>o, QueueRows, WebEventsConstantsOK
      <4> QED
        BY <2>2, <2>3, <4>1
    <3> QED
      BY <2>2, <3>2, <3>3
  <2>4. CASE ~ (Len(conn[c].out) < OutBuf)
    <3>1. x = conn[c]
      BY <1>10, <2>4
    <3> QED
      BY <1>o, <2>1, <2>2, <3>1
  <2> QED
    BY <2>3, <2>4
<1>14. /\ conn' \in [Conns -> Conn] /\ conn'[c] = x
       /\ \A o \in Conns \ {c} : conn'[o] = conn[o]
  BY <1>1, <1>11, <1>13 DEF Types
<1> HIDE DEF c, e
<1>15. Types'
  BY <1>4, <1>7, <1>14 DEF Types
<1>a. /\ \A k \in Nums(chans[i].q) : k <= n
      /\ Nums(chans[i].q) \cap Nums(conn[c].out) = {}
      /\ Nums(chans[i].q) \cap Nums(conn[c].got) = {}
      /\ \A d \in Range(chans[i].q) : d.to \in {All, UserOf[c]}
  BY <1>1, Places DEF c
<1>b. /\ Distinct(conn[c].out) /\ Distinct(conn[c].got)
      /\ Nums(conn[c].out) \cap Nums(conn[c].got) = {}
      /\ \A k \in Nums(conn[c].out) \cup Nums(conn[c].got) : k <= n
      /\ \A d \in Range(conn[c].out) : d.to \in {All, UserOf[c]}
  BY <1>1, ConnPlaces
<1>f. \A j \in DOMAIN chans : chans'[j].of = chans[j].of
  BY <1>5, <1>6 DEF c
<1>16. Bounded'
  <2>1. \A j \in DOMAIN chans' : Len(chans'[j].q) <= SubBuf
    BY <1>5, <1>6, <1>9 DEF Flow, Bounded
  <2>2. \A o \in Conns : Len(conn'[o].out) <= OutBuf /\ (conn'[o].pump = "write" => conn'[o].out # << >>)
    <3>1. x.pump = "write" => x.out # << >>
      BY <1>1, <1>13 DEF Flow, Bounded
    <3> QED
      BY <1>13, <1>14, <3>1 DEF Flow, Bounded
  <2> QED
    BY <2>1, <2>2 DEF Bounded
<1>17. Addressed'
  <2>1. \A j \in DOMAIN chans' : \A d \in Range(chans'[j].q) : d.to \in {All, UserOf[chans'[j].of]}
    BY <1>5, <1>6, <1>9, <1>a DEF Flow, Addressed
  <2>2. \A d \in Range(x.out) : d.to \in {All, UserOf[c]}
    BY <1>9, <1>13, <1>a, <1>b
  <2>3. \A o \in Conns : \A d \in Range(conn'[o].out) : d.to \in {All, UserOf[o]}
    BY <1>14, <2>2 DEF Flow, Addressed
  <2> QED
    BY <2>1, <2>3 DEF Addressed
<1>18. OnTheWay'
  <2>1. /\ Distinct(x.out) /\ Distinct(x.got) /\ Nums(x.out) \cap Nums(x.got) = {}
        /\ \A k \in Nums(x.out) \cup Nums(x.got) : k <= n
        /\ Nums(x.out) \subseteq Nums(conn[c].out) \cup {e.n} /\ Nums(x.got) = Nums(conn[c].got)
    BY <1>9, <1>13, <1>a, <1>b
  <2>2. \A o \in Conns : /\ Distinct(conn'[o].out) /\ Distinct(conn'[o].got)
                         /\ Nums(conn'[o].out) \cap Nums(conn'[o].got) = {}
                         /\ \A k \in Nums(conn'[o].out) \cup Nums(conn'[o].got) : k <= n'
    BY <1>4, <1>14, <2>1 DEF Flow, OnTheWay
  <2>3. ASSUME NEW j \in DOMAIN chans
        PROVE  /\ Distinct(chans'[j].q) /\ \A k \in Nums(chans'[j].q) : k <= n
               /\ Nums(chans'[j].q) \cap Nums(conn'[chans[j].of].out) = {}
               /\ Nums(chans'[j].q) \cap Nums(conn'[chans[j].of].got) = {}
    <3>1. CASE j = i
      <4>1. chans'[j].q = z /\ chans[j].of = c
        BY <1>5, <1>6, <3>1 DEF c
      <4> QED
        BY <1>9, <1>14, <1>a, <2>1, <4>1
    <3>2. CASE j # i
      <4>1. /\ chans'[j] = chans[j] /\ chans[j].of \in Conns
            /\ Distinct(chans[j].q) /\ \A k \in Nums(chans[j].q) : k <= n
            /\ Nums(chans[j].q) \cap Nums(conn[chans[j].of].out) = {}
            /\ Nums(chans[j].q) \cap Nums(conn[chans[j].of].got) = {}
        BY <1>6, <3>2, Places
      <4>2. CASE chans[j].of = c
        <5>1. Nums(chans[j].q) \cap Nums(chans[i].q) = {}
          BY <3>2, <4>2 DEF Flow, OnTheWay, c
        <5> QED
          BY <1>9, <1>14, <2>1, <4>1, <4>2, <5>1
      <4>3. CASE chans[j].of # c
        BY <1>14, <4>1, <4>3
      <4> QED
        BY <4>2, <4>3
    <3> QED
      BY <3>1, <3>2
  <2>4. ASSUME NEW j \in DOMAIN chans, NEW k \in DOMAIN chans, j # k, chans[j].of = chans[k].of
        PROVE  Nums(chans'[j].q) \cap Nums(chans'[k].q) = {}
    <3>1. Nums(chans[j].q) \cap Nums(chans[k].q) = {}
      BY <2>4 DEF Flow, OnTheWay
    <3>2. \A l \in DOMAIN chans : Nums(chans'[l].q) \subseteq Nums(chans[l].q)
      BY <1>5, <1>6, <1>9
    <3> QED
      BY <3>1, <3>2
  <2>5. n' = n /\ DOMAIN chans' = DOMAIN chans
    BY <1>4, <1>6
  <2>6. ASSUME NEW j \in DOMAIN chans'
        PROVE  /\ Distinct(chans'[j].q) /\ \A k \in Nums(chans'[j].q) : k <= n'
               /\ Nums(chans'[j].q) \cap Nums(conn'[chans'[j].of].out) = {}
               /\ Nums(chans'[j].q) \cap Nums(conn'[chans'[j].of].got) = {}
    BY <1>f, <2>3, <2>5
  <2>7. ASSUME NEW j \in DOMAIN chans', NEW k \in DOMAIN chans', j # k, chans'[j].of = chans'[k].of
        PROVE  Nums(chans'[j].q) \cap Nums(chans'[k].q) = {}
    BY <1>f, <2>4, <2>5, <2>7
  <2> QED
    BY <2>2, <2>6, <2>7 DEF OnTheWay
<1> QED
  BY <1>8, <1>15, <1>16, <1>17, <1>18 DEF Flow

\* the write pump: an event is written, or lost with the connection
LEMMA EndWriteFlow ==
  ASSUME Types, Wired, Flow, NEW c \in Conns, EndWrite(c)
  PROVE  Types' /\ Wired' /\ Flow'
<1> DEFINE o == conn[c].out
           e == Head(conn[c].out)
<1>1. conn[c] \in Conn /\ o \in Seq(Event) /\ conn[c].got \in Seq(Event)
  BY ConnPlaces
<1>2. o # << >> /\ UNCHANGED <<subs, chans, n>>
  BY DEF EndWrite, Flow, Bounded
<1>3. PICK z : z = Tail(o)
  OBVIOUS
<1>4. PICK y : y = Append(conn[c].got, e)
  OBVIOUS
<1>5. PICK r : r = [conn[c] EXCEPT !.out = z, !.pump = IF conn[c].gone THEN "done" ELSE "wait",
                                   !.got = IF conn[c].gone THEN @ ELSE y]
  OBVIOUS
<1>6. conn' = [conn EXCEPT ![c] = r]
  BY <1>3, <1>4, <1>5 DEF EndWrite
<1>7. /\ Distinct(o) /\ Distinct(conn[c].got) /\ Nums(o) \cap Nums(conn[c].got) = {} /\ Len(o) <= OutBuf
      /\ \A k \in Nums(o) \cup Nums(conn[c].got) : k <= n
      /\ \A d \in Range(o) : d.to \in {All, UserOf[c]}
  BY ConnPlaces
<1>8. /\ z \in Seq(Event) /\ e \in Event /\ e.n \in Nums(o) /\ Range(z) \subseteq Range(o)
      /\ Distinct(z) /\ Nums(z) \subseteq Nums(o) \ {e.n} /\ Len(z) <= OutBuf
  <2>1. /\ z \in Seq(Event) /\ e \in Event /\ e.n \in Nums(o) /\ Range(z) \subseteq Range(o)
        /\ Distinct(z) /\ Nums(z) \subseteq Nums(o) \ {e.n} /\ Len(z) = Len(o) - 1
    BY <1>1, <1>2, <1>3, <1>7, QueueShorter
  <2>2. Len(o) \in Nat
    BY <1>1, QueueRows
  <2> QED
    BY <1>7, <2>1, <2>2, WebEventsConstantsOK
<1>9. /\ y \in Seq(Event) /\ Nums(y) = Nums(conn[c].got) \cup {e.n}
      /\ e.n \notin Nums(conn[c].got) => Distinct(y)
  BY <1>1, <1>4, <1>7, <1>8, QueueLonger
<1>10. r \in Conn /\ r.out = z /\ r.pump # "write" /\ r.got \in {y, conn[c].got}
  <2>1. CASE conn[c].gone
    <3>1. r = [conn[c] EXCEPT !.out = z, !.pump = "done"]
      <4>1. r = [conn[c] EXCEPT !.out = z, !.pump = "done", !.got = conn[c].got]
        BY <1>5, <2>1
      <4> QED
        BY <1>1, <4>1 DEF Conn
    <3> HIDE DEF o, e
    <3> QED
      BY <1>1, <1>8, <3>1 DEF Conn
  <2>2. CASE ~conn[c].gone
    <3>1. r = [conn[c] EXCEPT !.out = z, !.pump = "wait", !.got = y]
      BY <1>5, <2>2
    <3> HIDE DEF o, e
    <3> QED
      BY <1>1, <1>8, <1>9, <3>1 DEF Conn
  <2> QED
    BY <2>1, <2>2
<1>11. conn' \in [Conns -> Conn] /\ conn'[c] = r /\ \A p \in Conns \ {c} : conn'[p] = conn[p]
  BY <1>6, <1>10 DEF Types
<1>12. Types' /\ Wired'
  BY <1>2, <1>11 DEF Types, Wired
<1> HIDE DEF o, e
<1>13. /\ Distinct(r.out) /\ Distinct(r.got) /\ Nums(r.out) \cap Nums(r.got) = {}
       /\ Nums(r.out) \cup Nums(r.got) \subseteq Nums(o) \cup Nums(conn[c].got)
       /\ Nums(r.out) \subseteq Nums(o)
  BY <1>7, <1>8, <1>9, <1>10
<1>14. Bounded'
  BY <1>2, <1>8, <1>10, <1>11 DEF Flow, Bounded
<1>15. Addressed'
  BY <1>2, <1>7, <1>8, <1>10, <1>11 DEF Flow, Addressed
<1>16. OnTheWay'
  <2>1. \A p \in Conns : /\ Distinct(conn'[p].out) /\ Distinct(conn'[p].got)
                         /\ Nums(conn'[p].out) \cap Nums(conn'[p].got) = {}
                         /\ \A x \in Nums(conn'[p].out) \cup Nums(conn'[p].got) : x <= n'
    BY <1>2, <1>7, <1>11, <1>13 DEF Flow, OnTheWay
  <2>2. ASSUME NEW i \in DOMAIN chans
        PROVE  /\ Distinct(chans[i].q) /\ \A x \in Nums(chans[i].q) : x <= n
               /\ Nums(chans[i].q) \cap Nums(conn'[chans[i].of].out) = {}
               /\ Nums(chans[i].q) \cap Nums(conn'[chans[i].of].got) = {}
    <3>1. /\ chans[i].of \in Conns /\ Distinct(chans[i].q) /\ \A x \in Nums(chans[i].q) : x <= n
          /\ Nums(chans[i].q) \cap Nums(conn[chans[i].of].out) = {}
          /\ Nums(chans[i].q) \cap Nums(conn[chans[i].of].got) = {}
      BY Places
    <3>2. CASE chans[i].of = c
      BY <1>11, <1>13, <3>1, <3>2 DEF o
    <3>3. CASE chans[i].of # c
      BY <1>11, <3>1, <3>3
    <3> QED
      BY <3>2, <3>3
  <2> QED
    BY <1>2, <2>1, <2>2 DEF Flow, OnTheWay
<1> QED
  BY <1>12, <1>14, <1>15, <1>16 DEF Flow

-----------------------------------------------------------------------------
(* The cap                                                                 *)

\* a handler counts at least what its connection has at the broker
Counted(c) == c \notin stray => /\ IsFiniteSet(Subscriptions(c))
                                /\ Cardinality(Subscriptions(c)) <= conn[c].count

Counts == \A c \in Conns : /\ conn[c].read = "new" => Subscriptions(c) = {} /\ conn[c].count = 0
                           /\ conn[c].count <= MaxSubs
                           /\ Counted(c)

\* a connection of which a step changes neither the subscriptions nor the count
LEMMA CountStays ==
  ASSUME Types, Counts, NEW c \in Conns, \A s \in Subjects : subs'[s][c] = subs[s][c],
         conn'[c].count = conn[c].count, conn'[c].read = "new" => conn[c].read = "new", stray \subseteq stray'
  PROVE  /\ conn'[c].read = "new" => Subscriptions(c)' = {} /\ conn'[c].count = 0
         /\ conn'[c].count <= MaxSubs /\ Counted(c)'
<1>1. Subscriptions(c)' = Subscriptions(c)
  BY DEF Subscriptions, Subjects
<1> QED
  BY <1>1 DEF Counts, Counted

LEMMA CountsStay ==
  ASSUME Types, Counts, subs' = subs, stray' = stray,
         \A c \in Conns : conn'[c].count = conn[c].count /\ (conn'[c].read = "new" => conn[c].read = "new")
  PROVE  Counts'
<1>1. ASSUME NEW c \in Conns
      PROVE  /\ conn'[c].read = "new" => Subscriptions(c)' = {} /\ conn'[c].count = 0
             /\ conn'[c].count <= MaxSubs /\ Counted(c)'
  BY CountStays
<1> QED
  BY <1>1 DEF Counts

\* a subscription that is counted
LEMMA CountUp ==
  ASSUME Types, Counts, NEW c \in Conns, NEW t \in Subjects,
         \A s \in Subjects, o \in Conns : (s # t \/ o # c) => subs'[s][o] = subs[s][o],
         subs'[t][c] # 0, conn'[c].count = conn[c].count + 1, conn'[c].count <= MaxSubs, conn'[c].read # "new",
         \A o \in Conns \ {c} : conn'[o] = conn[o], stray' = stray
  PROVE  Counts'
<1>1. Subscriptions(c)' = Subscriptions(c) \cup {t}
  BY DEF Subscriptions, Subjects
<1>2. ASSUME c \notin stray
      PROVE  /\ IsFiniteSet(Subscriptions(c)') /\ Cardinality(Subscriptions(c)') <= conn'[c].count
  <2>1. IsFiniteSet(Subscriptions(c)) /\ Cardinality(Subscriptions(c)) <= conn[c].count
    BY <1>2 DEF Counts, Counted
  <2>2. conn[c].count \in Int
    BY DEF Types, Conn
  <2>3. Cardinality(Subscriptions(c)) \in Nat
    BY <2>1, FS_CardinalityType
  <2>4. IsFiniteSet(Subscriptions(c)') /\ Cardinality(Subscriptions(c)') <= Cardinality(Subscriptions(c)) + 1
    <3>1. IsFiniteSet(Subscriptions(c) \cup {t})
      BY <2>1, FS_AddElement
    <3>2. Cardinality(Subscriptions(c) \cup {t}) =
            IF t \in Subscriptions(c) THEN Cardinality(Subscriptions(c)) ELSE Cardinality(Subscriptions(c)) + 1
      BY <2>1, FS_AddElement
    <3>3. Cardinality(Subscriptions(c) \cup {t}) <= Cardinality(Subscriptions(c)) + 1
      BY <2>3, <3>2
    <3> QED
      BY <1>1, <3>1, <3>3
  <2>5. Cardinality(Subscriptions(c)') \in Nat
    BY <2>4, FS_CardinalityType
  <2> QED
    BY <2>1, <2>2, <2>3, <2>4, <2>5
<1>3. Counted(c)'
  BY <1>2 DEF Counted
<1>4. ASSUME NEW o \in Conns \ {c}
      PROVE  /\ conn'[o].read = "new" => Subscriptions(o)' = {} /\ conn'[o].count = 0
             /\ conn'[o].count <= MaxSubs /\ Counted(o)'
  BY CountStays
<1>5. ASSUME NEW o \in Conns
      PROVE  /\ conn'[o].read = "new" => Subscriptions(o)' = {} /\ conn'[o].count = 0
             /\ conn'[o].count <= MaxSubs /\ Counted(o)'
  BY <1>3, <1>4
<1> QED
  BY <1>5 DEF Counts

\* an unsubscription, of what was subscribed or not
LEMMA CountDown ==
  ASSUME Types, Counts, NEW c \in Conns, NEW t \in Subjects,
         \A s \in Subjects, o \in Conns : subs'[s][o] = IF s = t /\ o = c THEN 0 ELSE subs[s][o],
         conn'[c].count = conn[c].count - 1, conn'[c].read # "new",
         \A o \in Conns \ {c} : conn'[o] = conn[o],
         stray' = IF subs[t][c] = 0 THEN stray \cup {c} ELSE stray
  PROVE  Counts'
<1>1. Subscriptions(c)' = Subscriptions(c) \ {t}
  BY DEF Subscriptions, Subjects
<1>2. conn[c].count \in Int /\ conn[c].count <= MaxSubs /\ MaxSubs \in Nat
  BY WebEventsConstantsOK DEF Types, Conn, Counts
<1>3. conn'[c].count <= MaxSubs
  BY <1>2
<1>4. ASSUME c \notin stray'
      PROVE  /\ IsFiniteSet(Subscriptions(c)') /\ Cardinality(Subscriptions(c)') <= conn'[c].count
  <2>1. c \notin stray /\ t \in Subscriptions(c)
    BY <1>4 DEF Subscriptions, Subjects
  <2>2. IsFiniteSet(Subscriptions(c)) /\ Cardinality(Subscriptions(c)) <= conn[c].count
    BY <2>1 DEF Counts, Counted
  <2>3. Cardinality(Subscriptions(c)) \in Nat
    BY <2>2, FS_CardinalityType
  <2>4. IsFiniteSet(Subscriptions(c) \ {t}) /\ Cardinality(Subscriptions(c) \ {t}) = Cardinality(Subscriptions(c)) - 1
    BY <2>1, <2>2, FS_RemoveElement
  <2> QED
    BY <1>1, <1>2, <2>2, <2>3, <2>4
<1>5. Counted(c)'
  BY <1>4 DEF Counted
<1>6. ASSUME NEW o \in Conns \ {c}
      PROVE  /\ conn'[o].read = "new" => Subscriptions(o)' = {} /\ conn'[o].count = 0
             /\ conn'[o].count <= MaxSubs /\ Counted(o)'
  BY CountStays
<1>7. ASSUME NEW o \in Conns
      PROVE  /\ conn'[o].read = "new" => Subscriptions(o)' = {} /\ conn'[o].count = 0
             /\ conn'[o].count <= MaxSubs /\ Counted(o)'
  BY <1>3, <1>5, <1>6
<1> QED
  BY <1>7 DEF Counts

-----------------------------------------------------------------------------
(* The inductive invariant                                                 *)

Inv == Types /\ Wired /\ Flow /\ Counts

LEMMA InitInv == Init => Inv
<1> SUFFICES ASSUME Init PROVE Inv
  OBVIOUS
<1>e. << >> \in Seq(Event) /\ << >> \in Seq(Channel) /\ DOMAIN << >> = {}
  OBVIOUS
<1>1. Types
  <2>1. ASSUME NEW c \in Conns PROVE conn[c] \in Conn
    <3>1. conn[c] = [read |-> "new", pump |-> "none", gone |-> FALSE, count |-> 0, out |-> << >>, got |-> << >>]
      BY DEF Init
    <3> QED
      BY <1>e, <3>1 DEF Conn
  <2>2. conn = [c \in Conns |-> conn[c]]
    BY DEF Init
  <2>3. conn \in [Conns -> Conn]
    BY <2>1, <2>2
  <2> QED
    BY <1>e, <2>3 DEF Init, Types, Subjects
<1>2. Wired
  BY DEF Init, Wired, Subjects
<1>3. \A c \in Conns : /\ conn[c].out = << >> /\ conn[c].got = << >> /\ conn[c].pump = "none"
                       /\ conn[c].count = 0 /\ conn[c].read = "new"
  BY DEF Init
<1>4. DOMAIN chans = {}
  BY <1>e DEF Init
<1>5. Flow
  <2>1. Bounded
    BY <1>3, <1>4, NoEvents, WebEventsConstantsOK DEF Bounded
  <2>2. OnTheWay
    BY <1>3, <1>4, NoEvents DEF OnTheWay
  <2>3. Addressed
    BY <1>3, <1>4, NoEvents DEF Addressed
  <2> QED
    BY <2>1, <2>2, <2>3 DEF Flow
<1>6. Counts
  <2>1. ASSUME NEW c \in Conns PROVE Subscriptions(c) = {}
    BY DEF Init, Subscriptions
  <2>2. IsFiniteSet({}) /\ Cardinality({}) = 0
    BY FS_EmptySet
  <2>3. 0 <= MaxSubs
    BY WebEventsConstantsOK
  <2>4. ASSUME NEW c \in Conns PROVE Counted(c)
    <3>1. Subscriptions(c) = {} /\ conn[c].count = 0
      BY <1>3, <2>1
    <3>2. Cardinality(Subscriptions(c)) <= conn[c].count
      BY <2>2, <3>1
    <3> QED
      BY <2>2, <3>1, <3>2 DEF Counted
  <2> QED
    BY <1>3, <2>1, <2>3, <2>4 DEF Counts
<1> QED
  BY <1>1, <1>2, <1>5, <1>6 DEF Inv

\* a connection's row is written
LEMMA RowWritten ==
  ASSUME Types, NEW c \in Conns, NEW r \in Conn, conn' = [conn EXCEPT ![c] = r]
  PROVE  conn' \in [Conns -> Conn] /\ conn'[c] = r /\ \A o \in Conns \ {c} : conn'[o] = conn[o]
BY DEF Types

\* a step of one connection that moves no event and leaves the broker alone
LEMMA RowStep ==
  ASSUME Inv, NEW c \in Conns, NEW r \in Conn, conn' = [conn EXCEPT ![c] = r],
         r.out = conn[c].out, r.got = conn[c].got, r.count = conn[c].count,
         r.pump = "write" => conn[c].out # << >>, r.read = "new" => conn[c].read = "new",
         UNCHANGED <<subs, chans, n, stray>>
  PROVE  Inv'
<1>1. Types
  BY DEF Inv
<1>2. conn' \in [Conns -> Conn] /\ conn'[c] = r /\ \A o \in Conns \ {c} : conn'[o] = conn[o]
  BY <1>1, RowWritten
<1>3. Types' /\ Wired'
  BY <1>2 DEF Inv, Types, Wired
<1>4. QueuesStay
  BY <1>2 DEF Inv, QueuesStay, Flow, Bounded
<1>5. Flow'
  BY <1>4, FlowStays DEF Inv
<1>6. \A o \in Conns : conn'[o].count = conn[o].count /\ (conn'[o].read = "new" => conn[o].read = "new")
  BY <1>2
<1>7. Counts'
  BY <1>6, CountsStay DEF Inv
<1> QED
  BY <1>3, <1>5, <1>7 DEF Inv

LEMMA OneRow ==
  ASSUME Inv, NEW c \in Conns, EndReply(c) \/ OnPing(c) \/ Leave(c) \/ BeginWrite(c)
  PROVE  Inv'
<1>0. conn[c] \in Conn
  BY DEF Inv, Types
<1>1. CASE EndReply(c)
  <2>1. PICK r : r = [conn[c] EXCEPT !.read = "read"]
    OBVIOUS
  <2>2. conn' = [conn EXCEPT ![c] = r] /\ UNCHANGED <<subs, chans, n, stray>>
    BY <1>1, <2>1 DEF EndReply, history
  <2>3. r \in Conn /\ r.out = conn[c].out /\ r.got = conn[c].got /\ r.count = conn[c].count /\ r.pump = conn[c].pump
        /\ r.read = "read"
    BY <1>0, <2>1 DEF Conn
  <2> QED
    BY <2>2, <2>3, RowStep DEF Inv, Flow, Bounded
<1>2. CASE OnPing(c)
  <2>1. PICK r : r = [conn[c] EXCEPT !.read = "pong"]
    OBVIOUS
  <2>2. conn' = [conn EXCEPT ![c] = r] /\ UNCHANGED <<subs, chans, n, stray>>
    BY <1>2, <2>1 DEF OnPing, history
  <2>3. r \in Conn /\ r.out = conn[c].out /\ r.got = conn[c].got /\ r.count = conn[c].count /\ r.pump = conn[c].pump
        /\ r.read = "pong"
    BY <1>0, <2>1 DEF Conn
  <2> QED
    BY <2>2, <2>3, RowStep DEF Inv, Flow, Bounded
<1>3. CASE Leave(c)
  <2>1. PICK r : r = [conn[c] EXCEPT !.gone = TRUE]
    OBVIOUS
  <2>2. conn' = [conn EXCEPT ![c] = r] /\ UNCHANGED <<subs, chans, n, stray>>
    BY <1>3, <2>1 DEF Leave, history
  <2>3. r \in Conn /\ r.out = conn[c].out /\ r.got = conn[c].got /\ r.count = conn[c].count /\ r.pump = conn[c].pump
        /\ r.read = conn[c].read
    BY <1>0, <2>1 DEF Conn
  <2> QED
    BY <2>2, <2>3, RowStep DEF Inv, Flow, Bounded
<1>4. CASE BeginWrite(c)
  <2>1. PICK r : r = [conn[c] EXCEPT !.pump = "write"]
    OBVIOUS
  <2>2. conn' = [conn EXCEPT ![c] = r] /\ UNCHANGED <<subs, chans, n, stray>> /\ conn[c].out # << >>
    BY <1>4, <2>1 DEF BeginWrite, history
  <2>3. r \in Conn /\ r.out = conn[c].out /\ r.got = conn[c].got /\ r.count = conn[c].count /\ r.read = conn[c].read
    BY <1>0, <2>1 DEF Conn
  <2> QED
    BY <2>2, <2>3, RowStep
<1> QED
  BY <1>1, <1>2, <1>3, <1>4

\* a subscription is counted: the first one, and each one the browser asks for
LEMMA SubscribeStep ==
  ASSUME Inv, NEW c \in Conns, NEW t \in Subjects, NEW r \in Conn, Subscribe(t, c), conn' = [conn EXCEPT ![c] = r],
         r.out = conn[c].out, r.got = conn[c].got, r.count = conn[c].count + 1, r.count <= MaxSubs,
         r.pump = "write" => conn[c].out # << >>, r.read # "new", UNCHANGED <<n, stray>>
  PROVE  Inv'
<1>1. conn' \in [Conns -> Conn] /\ conn'[c] = r /\ \A o \in Conns \ {c} : conn'[o] = conn[o]
  BY RowWritten DEF Inv
<1>2. /\ subs' \in [Subjects -> [Conns -> Nat]] /\ chans' \in Seq(Channel)
      /\ DOMAIN chans' = DOMAIN chans \cup {Len(chans) + 1}
      /\ \A i \in DOMAIN chans : chans'[i] = chans[i]
      /\ chans'[Len(chans) + 1] = [of |-> c, topic |-> t, open |-> TRUE, live |-> TRUE, q |-> << >>]
      /\ Wired'
      /\ \A s \in Subjects, o \in Conns : subs'[s][o] = IF s = t /\ o = c THEN Len(chans) + 1 ELSE subs[s][o]
  BY SubscribeWires DEF Inv
<1>3. Types'
  BY <1>1, <1>2 DEF Inv, Types
<1>4. QueuesStay
  BY <1>1, <1>2 DEF Inv, QueuesStay, Flow, Bounded
<1>5. Flow'
  BY <1>4, FlowStays DEF Inv
<1>6. Len(chans) + 1 # 0
  BY ChanRows DEF Inv
<1>7. /\ \A s \in Subjects, o \in Conns : (s # t \/ o # c) => subs'[s][o] = subs[s][o]
      /\ subs'[t][c] # 0
  BY <1>2, <1>6
<1>8. Counts'
  BY <1>1, <1>7, CountUp DEF Inv
<1> QED
  BY <1>2, <1>3, <1>5, <1>8 DEF Inv

LEMMA ConnectStep ==
  ASSUME Inv, NEW c \in Conns, Connect(c)
  PROVE  Inv'
<1>0. conn[c] \in Conn /\ Own \in Subjects
  BY DEF Inv, Types, Subjects
<1>1. PICK r : r = [conn[c] EXCEPT !.read = "ack", !.pump = "wait", !.count = 1]
  OBVIOUS
<1>2. conn' = [conn EXCEPT ![c] = r] /\ Subscribe(Own, c) /\ UNCHANGED <<n, stray>> /\ conn[c].read = "new"
  BY <1>1 DEF Connect
<1>3. /\ r \in Conn /\ r.out = conn[c].out /\ r.got = conn[c].got
      /\ r.count = 1 /\ r.read = "ack" /\ r.pump = "wait"
  <2>1. PICK k \in Int : k = 1
    OBVIOUS
  <2>2. r = [conn[c] EXCEPT !.read = "ack", !.pump = "wait", !.count = k]
    BY <1>1, <2>1
  <2>3. /\ r \in Conn /\ r.out = conn[c].out /\ r.got = conn[c].got
        /\ r.count = k /\ r.read = "ack" /\ r.pump = "wait"
    BY <1>0, <2>2 DEF Conn
  <2> QED
    BY <2>1, <2>3
<1>4. conn[c].count = 0 /\ 1 <= MaxSubs
  BY <1>2, WebEventsConstantsOK DEF Inv, Counts
<1>5. r.count = conn[c].count + 1 /\ r.count <= MaxSubs /\ r.pump # "write" /\ r.read # "new"
  BY <1>3, <1>4
<1> QED
  BY <1>0, <1>2, <1>3, <1>5, SubscribeStep

LEMMA OnSubscribeStep ==
  ASSUME Inv, NEW c \in Conns, NEW t \in Subjects, OnSubscribe(c, t)
  PROVE  Inv'
<1>0. conn[c] \in Conn /\ t \in Subjects /\ conn[c].count \in Int
  BY DEF Inv, Types, Subjects, Conn
<1>1. CASE conn[c].count < MaxSubs
  <2>1. PICK k \in Int : k = conn[c].count + 1
    BY <1>0
  <2>2. PICK r : r = [conn[c] EXCEPT !.count = k]
    OBVIOUS
  <2>3. conn' = [conn EXCEPT ![c] = r] /\ Subscribe(t, c) /\ UNCHANGED <<n, stray>> /\ conn[c].read = "read"
    BY <1>1, <2>1, <2>2 DEF OnSubscribe, Reads
  <2>4. /\ r \in Conn /\ r.out = conn[c].out /\ r.got = conn[c].got
        /\ r.count = k /\ r.read = conn[c].read /\ r.pump = conn[c].pump
    BY <1>0, <2>2 DEF Conn
  <2>5. k <= MaxSubs
    BY <1>0, <1>1, <2>1, WebEventsConstantsOK
  <2>6. r.pump = "write" => conn[c].out # << >>
    BY <2>4 DEF Inv, Flow, Bounded
  <2> QED
    BY <1>0, <2>1, <2>3, <2>4, <2>5, <2>6, SubscribeStep
<1>2. CASE ~ (conn[c].count < MaxSubs)
  <2>1. conn' = [conn EXCEPT ![c] = conn[c]] /\ UNCHANGED <<subs, chans, n, stray>>
    BY <1>2 DEF OnSubscribe, Inv, Types
  <2>2. conn[c].pump = "write" => conn[c].out # << >>
    BY DEF Inv, Flow, Bounded
  <2> QED
    BY <1>0, <2>1, <2>2, RowStep
<1> QED
  BY <1>1, <1>2

LEMMA OnUnsubscribeStep ==
  ASSUME Inv, NEW c \in Conns, NEW t \in Subjects, OnUnsubscribe(c, t)
  PROVE  Inv'
<1>0. conn[c] \in Conn /\ t \in Subjects /\ conn[c].count \in Int
  BY DEF Inv, Types, Subjects, Conn
<1>1. PICK k \in Int : k = conn[c].count - 1
  BY <1>0
<1>2. PICK r : r = [conn[c] EXCEPT !.count = k]
  OBVIOUS
<1>3. /\ conn' = [conn EXCEPT ![c] = r] /\ Unsubscribe(t, c) /\ n' = n /\ conn[c].read = "read"
      /\ stray' = IF subs[t][c] = 0 THEN stray \cup {c} ELSE stray
  BY <1>1, <1>2 DEF OnUnsubscribe, Reads
<1>4. /\ r \in Conn /\ r.out = conn[c].out /\ r.got = conn[c].got
      /\ r.count = k /\ r.read = conn[c].read /\ r.pump = conn[c].pump
  BY <1>0, <1>2 DEF Conn
<1>5. conn' \in [Conns -> Conn] /\ conn'[c] = r /\ \A o \in Conns \ {c} : conn'[o] = conn[o]
  BY <1>3, <1>4, RowWritten DEF Inv
<1>6. /\ subs' \in [Subjects -> [Conns -> Nat]] /\ RowsAlike /\ Wired'
      /\ \A s \in Subjects, o \in Conns : subs'[s][o] = IF s = t /\ o = c THEN 0 ELSE subs[s][o]
  BY <1>0, <1>3, UnsubscribeWires DEF Inv
<1>7. Types'
  BY <1>3, <1>5, <1>6 DEF Inv, Types, RowsAlike
<1>8. QueuesStay
  BY <1>3, <1>4, <1>5, <1>6 DEF Inv, QueuesStay, RowsAlike, Flow, Bounded
<1>9. Flow'
  BY <1>8, FlowStays DEF Inv
<1>10. conn'[c].count = conn[c].count - 1 /\ conn'[c].read # "new"
  BY <1>1, <1>3, <1>4, <1>5
<1>11. Counts'
  BY <1>0, <1>3, <1>5, <1>6, <1>10, CountDown DEF Inv
<1> QED
  BY <1>6, <1>7, <1>9, <1>11 DEF Inv

\* the last step of a handler
LEMMA DisconnectStep ==
  ASSUME Inv, NEW c \in Conns, Disconnect(c)
  PROVE  Inv'
<1>0. conn[c] \in Conn
  BY DEF Inv, Types
<1>1. PICK r : r = [conn[c] EXCEPT !.read = "done"]
  OBVIOUS
<1>2. conn' = [conn EXCEPT ![c] = r] /\ UnsubscribeAll(c) /\ UNCHANGED <<n, stray>>
  BY <1>1 DEF Disconnect, history
<1>3. /\ r \in Conn /\ r.out = conn[c].out /\ r.got = conn[c].got
      /\ r.count = conn[c].count /\ r.read = "done" /\ r.pump = conn[c].pump
  BY <1>0, <1>1 DEF Conn
<1>4. conn' \in [Conns -> Conn] /\ conn'[c] = r /\ \A o \in Conns \ {c} : conn'[o] = conn[o]
  BY <1>2, <1>3, RowWritten DEF Inv
<1>5. /\ subs' \in [Subjects -> [Conns -> Nat]] /\ RowsAlike /\ Wired'
      /\ \A s \in Subjects, o \in Conns : subs'[s][o] = IF o = c THEN 0 ELSE subs[s][o]
  BY <1>2, DisconnectWires DEF Inv
<1>6. Types'
  BY <1>2, <1>4, <1>5 DEF Inv, Types, RowsAlike
<1>7. QueuesStay
  BY <1>2, <1>3, <1>4, <1>5 DEF Inv, QueuesStay, RowsAlike, Flow, Bounded
<1>8. Flow'
  BY <1>7, FlowStays DEF Inv
<1>9. ASSUME NEW o \in Conns
      PROVE  /\ conn'[o].read = "new" => Subscriptions(o)' = {} /\ conn'[o].count = 0
             /\ conn'[o].count <= MaxSubs /\ Counted(o)'
  <2>1. CASE o = c
    <3>1. Subscriptions(c)' = {}
      BY <1>5 DEF Subscriptions, Subjects
    <3>2. IsFiniteSet({}) /\ Cardinality({}) = 0
      BY FS_EmptySet
    <3>3. conn'[c].count = conn[c].count /\ conn'[c].read = "done" /\ conn[c].count <= MaxSubs /\ conn[c].count \in Int
      BY <1>0, <1>3, <1>4 DEF Inv, Counts, Conn
    <3>4. ASSUME c \notin stray PROVE 0 <= conn[c].count
      <4>1. IsFiniteSet(Subscriptions(c)) /\ Cardinality(Subscriptions(c)) <= conn[c].count
        BY <3>4 DEF Inv, Counts, Counted
      <4>2. Cardinality(Subscriptions(c)) \in Nat
        BY <4>1, FS_CardinalityType
      <4> QED
        BY <3>3, <4>1, <4>2
    <3>5. Counted(c)'
      BY <1>2, <3>1, <3>2, <3>3, <3>4 DEF Counted
    <3> QED
      BY <2>1, <3>3, <3>5
  <2>2. CASE o # c
    BY <1>2, <1>4, <1>5, <2>2, CountStays DEF Inv
  <2> QED
    BY <2>1, <2>2
<1>10. Counts'
  BY <1>9 DEF Counts
<1> QED
  BY <1>5, <1>6, <1>8, <1>10 DEF Inv

LEMMA PublishStep ==
  ASSUME Inv, NEW t \in Topics, NEW to \in Users \cup {All}, NEW receivers, receivers \subseteq Conns,
         \A c \in receivers : to \in {All, UserOf[c]}, n' = n + 1,
         Offer(t, [n |-> n', topic |-> t, to |-> to], receivers), UNCHANGED <<subs, conn, history>>
  PROVE  Inv'
<1>0. n \in Nat /\ n' \in Nat
  BY DEF Inv, Types
<1>1. PICK e : e = [n |-> n', topic |-> t, to |-> to]
  OBVIOUS
<1>2. e \in Event /\ e.n = n + 1 /\ e.to = to
  BY <1>0, <1>1 DEF Event
<1>3. Offer(t, e, receivers)
  BY <1>1
<1>4. \A c \in receivers : e.to \in {All, UserOf[c]}
  BY <1>2
<1>5. chans' \in Seq(Channel) /\ DOMAIN chans' = DOMAIN chans /\ Wired' /\ Flow'
  BY <1>2, <1>3, <1>4, OfferFlow DEF Inv
<1>6. Types'
  BY <1>0, <1>5 DEF Inv, Types
<1>7. Counts'
  BY CountsStay DEF Inv, history
<1> QED
  BY <1>5, <1>6, <1>7 DEF Inv

\* the channel of a forwarder that ends is no longer the broker's
LEMMA EndForwardStep ==
  ASSUME Inv, NEW i \in DOMAIN chans, EndForward(i)
  PROVE  Inv'
<1>0. chans[i] \in Channel /\ ~chans[i].open /\ UNCHANGED <<subs, conn, n, stray>>
  BY ChanRows DEF Inv, EndForward, history
<1>1. PICK r : r = [chans[i] EXCEPT !.live = FALSE]
  OBVIOUS
<1>2. chans' = [chans EXCEPT ![i] = r]
  BY <1>1 DEF EndForward
<1>3. r \in Channel /\ r.of = chans[i].of /\ r.topic = chans[i].topic /\ r.q = chans[i].q
  BY <1>0, <1>1 DEF Channel
<1>4. /\ DOMAIN chans' = DOMAIN chans /\ chans' = [j \in DOMAIN chans |-> chans'[j]]
      /\ chans'[i] = r /\ \A j \in DOMAIN chans \ {i} : chans'[j] = chans[j]
  BY <1>2 DEF Inv, Types
<1>5. \A j \in DOMAIN chans : chans'[j] \in Channel
  BY <1>3, <1>4, ChanRows DEF Inv
<1>6. chans' \in Seq(Channel)
  BY <1>4, <1>5, ChansSet DEF Inv
<1>7. Types'
  BY <1>0, <1>6 DEF Inv, Types
<1>8. Wired'
  <2> SUFFICES ASSUME NEW s \in Subjects, NEW o \in Conns, subs'[s][o] # 0
               PROVE  /\ subs'[s][o] \in DOMAIN chans'
                      /\ chans'[subs'[s][o]].of = o /\ chans'[subs'[s][o]].topic = s
                      /\ chans'[subs'[s][o]].open /\ chans'[subs'[s][o]].live
    BY DEF Wired
  <2>1. /\ subs'[s][o] = subs[s][o] /\ subs[s][o] \in DOMAIN chans
        /\ chans[subs[s][o]].of = o /\ chans[subs[s][o]].topic = s
        /\ chans[subs[s][o]].open /\ chans[subs[s][o]].live
    BY <1>0 DEF Inv, Wired
  <2>2. subs[s][o] # i
    BY <1>0, <2>1
  <2> QED
    BY <1>4, <2>1, <2>2
<1>9. QueuesStay
  BY <1>0, <1>3, <1>4 DEF Inv, QueuesStay, Flow, Bounded
<1>10. Flow'
  BY <1>9, FlowStays DEF Inv
<1>11. Counts'
  BY <1>0, CountsStay DEF Inv
<1> QED
  BY <1>7, <1>8, <1>10, <1>11 DEF Inv

LEMMA NextInv == Inv /\ [Next]_vars => Inv'
<1> SUFFICES ASSUME Inv, [Next]_vars PROVE Inv'
  OBVIOUS
<1>1. ASSUME NEW c \in Conns, Connect(c) PROVE Inv'
  BY <1>1, ConnectStep
<1>2. ASSUME NEW c \in Conns, EndReply(c) \/ OnPing(c) \/ Leave(c) \/ BeginWrite(c) PROVE Inv'
  BY <1>2, OneRow
<1>3. ASSUME NEW c \in Conns, Disconnect(c) PROVE Inv'
  BY <1>3, DisconnectStep
<1>4. ASSUME NEW c \in Conns, EndWrite(c) PROVE Inv'
  <2>1. Types' /\ Wired' /\ Flow'
    BY <1>4, EndWriteFlow DEF Inv
  <2>2. UNCHANGED <<subs, stray>> /\ conn[c] \in Conn
    BY <1>4 DEF EndWrite, history, Inv, Types
  <2>3. \A o \in Conns : conn'[o].count = conn[o].count /\ conn'[o].read = conn[o].read
    BY <1>4 DEF EndWrite, Inv, Types, Conn
  <2>4. Counts'
    BY <2>2, <2>3, CountsStay DEF Inv
  <2> QED
    BY <2>1, <2>4 DEF Inv
<1>5. ASSUME NEW c \in Conns, NEW t \in Subjects, OnSubscribe(c, t) PROVE Inv'
  BY <1>5, OnSubscribeStep
<1>6. ASSUME NEW c \in Conns, NEW t \in Subjects, OnUnsubscribe(c, t) PROVE Inv'
  BY <1>6, OnUnsubscribeStep
<1>7. ASSUME NEW i \in DOMAIN chans, Forward(i) PROVE Inv'
  <2>1. Types' /\ Wired' /\ Flow'
    BY <1>7, ForwardFlow DEF Inv
  <2>2. UNCHANGED <<subs, stray>>
    BY <1>7 DEF Forward, history
  <2>3. \A o \in Conns : conn'[o].count = conn[o].count /\ conn'[o].read = conn[o].read
    BY <1>7 DEF Forward, Inv, Types, Conn
  <2>4. Counts'
    BY <2>2, <2>3, CountsStay DEF Inv
  <2> QED
    BY <2>1, <2>4 DEF Inv
<1>8. ASSUME NEW i \in DOMAIN chans, EndForward(i) PROVE Inv'
  BY <1>8, EndForwardStep
<1>9. ASSUME NEW t \in Topics, Publish(t) PROVE Inv'
  BY <1>9, PublishStep DEF Publish
<1>10. ASSUME NEW t \in Topics, NEW u \in Users, PublishScoped(t, u) PROVE Inv'
  <2>1. PICK receivers : receivers = {c \in Conns : UserOf[c] = u}
    OBVIOUS
  <2>2. receivers \subseteq Conns /\ \A c \in receivers : u \in {All, UserOf[c]}
    BY <2>1
  <2> QED
    BY <1>10, <2>1, <2>2, PublishStep DEF PublishScoped
<1>11. CASE UNCHANGED vars
  <2>1. UNCHANGED <<subs, chans, conn, n, replaced, stray>>
    BY <1>11 DEF vars, history
  <2>2. Types' /\ Wired'
    BY <2>1 DEF Inv, Types, Wired
  <2>3. Flow'
    BY <2>1 DEF Inv, Flow, Bounded, OnTheWay, Addressed
  <2>4. Counts'
    BY <2>1, CountsStay DEF Inv
  <2> QED
    BY <2>2, <2>3, <2>4 DEF Inv
<1> QED
  BY <1>1, <1>2, <1>3, <1>4, <1>5, <1>6, <1>7, <1>8, <1>9, <1>10, <1>11 DEF Next, Goes, Pump, Run, Subjects

LEMMA InvHolds == Spec => []Inv
<1>1. Init => Inv
  BY InitInv
<1>2. Inv /\ [Next]_vars => Inv'
  BY NextInv
<1> QED
  BY <1>1, <1>2, PTL DEF Spec

-----------------------------------------------------------------------------
(* The order of a topic's events                                           *)

\* the events of a topic in a queue are in the order of their numbers
Upward(q, t) == \A k, l \in DOMAIN q : k < l /\ q[k].topic = t /\ q[l].topic = t => q[k].n < q[l].n

\* the events of a topic in one set are older than those in another
Older(S, R, t) == \A d \in S, e \in R : d.topic = t /\ e.topic = t => d.n < e.n

\* a channel holds events of its topic, the oldest first
ChannelsUpward == \A i \in DOMAIN chans : /\ Upward(chans[i].q, chans[i].topic)
                                          /\ \A e \in Range(chans[i].q) : e.topic = chans[i].topic

\* what is written is older than what the dispatch channel holds, and that than
\* what waits in the channel
InOrder(c, t) ==
    /\ Upward(conn[c].got, t) /\ Upward(conn[c].out, t) /\ Older(Range(conn[c].got), Range(conn[c].out), t)
    /\ \A i \in DOMAIN chans : chans[i].of = c /\ chans[i].topic = t =>
         Older(Range(conn[c].got), Range(chans[i].q), t) /\ Older(Range(conn[c].out), Range(chans[i].q), t)

Ordered == ChannelsUpward /\ \A c \in Conns, t \in Topics : SubscribedOnce(c, t) => InOrder(c, t)

LEMMA UpwardLonger ==
  ASSUME NEW q \in Seq(Event), NEW e \in Event, NEW t, Upward(q, t), Older(Range(q), {e}, t)
  PROVE  Upward(Append(q, e), t)
<1>0. DOMAIN q = 1 .. Len(q) /\ Len(q) \in Nat
  BY QueueRows
<1> DEFINE z == Append(q, e)
<1>1. /\ z \in Seq(Event) /\ Len(z) = Len(q) + 1
      /\ (\A i \in 1 .. Len(q) : z[i] = q[i]) /\ z[Len(q) + 1] = e
  BY AppendProperties
<1> HIDE DEF z
<1>2. DOMAIN z = 1 .. Len(q) + 1
  BY <1>1, LenProperties
<1>3. ASSUME NEW k \in DOMAIN z, NEW l \in DOMAIN z, k < l, z[k].topic = t, z[l].topic = t PROVE z[k].n < z[l].n
  <2>1. k \in DOMAIN q /\ z[k] = q[k] /\ q[k] \in Range(q)
    BY <1>0, <1>1, <1>2, <1>3, QueueRows
  <2>2. CASE l = Len(q) + 1
    BY <1>1, <1>3, <2>1, <2>2 DEF Older
  <2>3. CASE l # Len(q) + 1
    BY <1>0, <1>1, <1>2, <1>3, <2>1, <2>3 DEF Upward
  <2> QED
    BY <2>2, <2>3
<1> QED
  BY <1>3 DEF z, Upward

LEMMA UpwardShorter ==
  ASSUME NEW q \in Seq(Event), q # << >>, NEW t, Upward(q, t)
  PROVE  Upward(Tail(q), t) /\ Older({Head(q)}, Range(Tail(q)), t)
<1>0. DOMAIN q = 1 .. Len(q) /\ Len(q) \in Nat /\ Len(q) > 0
  BY QueueRows, EmptySeq
<1> DEFINE z == Tail(q)
<1>1. /\ z \in Seq(Event) /\ Len(z) = Len(q) - 1
      /\ (\A i \in 1 .. Len(z) : z[i] = q[i + 1]) /\ Head(q) = q[1]
  BY HeadTailProperties
<1> HIDE DEF z
<1>2. DOMAIN z = 1 .. Len(z) /\ Len(z) \in Nat
  BY <1>1, LenProperties
<1>3. \A i \in DOMAIN z : i \in Nat /\ i + 1 \in DOMAIN q /\ z[i] = q[i + 1] /\ 1 < i + 1
  BY <1>0, <1>1, <1>2
<1>4. 1 \in DOMAIN q
  BY <1>0
<1>5. Upward(z, t)
  <2>1. \A k, l \in DOMAIN z : k < l => k + 1 < l + 1
    BY <1>3
  <2> QED
    BY <1>3, <2>1 DEF Upward
<1>6. Older({Head(q)}, Range(z), t)
  BY <1>1, <1>3, <1>4 DEF Upward, Older, Range
<1> QED
  BY <1>5, <1>6 DEF z

\* a step that moves no event, whatever it subscribes
EventsKept ==
    /\ DOMAIN chans \subseteq DOMAIN chans'
    /\ \A i \in DOMAIN chans : /\ chans'[i].of = chans[i].of /\ chans'[i].topic = chans[i].topic
                               /\ chans'[i].q = chans[i].q
    /\ \A i \in DOMAIN chans' \ DOMAIN chans : chans'[i].q = << >>
    /\ \A c \in Conns : conn'[c].out = conn[c].out /\ conn'[c].got = conn[c].got

LEMMA OrderStays ==
  ASSUME Ordered, EventsKept
  PROVE  Ordered'
<1>1. \A i \in DOMAIN chans' : i \in DOMAIN chans \/ (Range(chans'[i].q) = {} /\ DOMAIN chans'[i].q = {})
  <2>1. DOMAIN << >> = {}
    OBVIOUS
  <2> QED
    BY <2>1, NoEvents DEF EventsKept
<1>2. ChannelsUpward'
  BY <1>1 DEF Ordered, ChannelsUpward, EventsKept, Upward
<1>3. ASSUME NEW c \in Conns, NEW t \in Topics, SubscribedOnce(c, t)' PROVE InOrder(c, t)'
  <2>1. SubscribedOnce(c, t)
    BY <1>3 DEF SubscribedOnce, EventsKept
  <2>2. InOrder(c, t)
    BY <2>1 DEF Ordered
  <2>3. conn'[c].out = conn[c].out /\ conn'[c].got = conn[c].got
    BY DEF EventsKept
  <2>4. ASSUME NEW i \in DOMAIN chans', chans'[i].of = c, chans'[i].topic = t
        PROVE  Older(Range(conn[c].got), Range(chans'[i].q), t) /\ Older(Range(conn[c].out), Range(chans'[i].q), t)
    BY <1>1, <2>2, <2>4 DEF InOrder, Older, EventsKept
  <2> QED
    BY <2>2, <2>3, <2>4 DEF InOrder
<1> QED
  BY <1>2, <1>3 DEF Ordered

\* a published event is the newest, and goes to channels of its topic
LEMMA OfferOrder ==
  ASSUME Inv, Ordered, NEW t \in Topics, NEW e \in Event, e.n = n + 1, e.topic = t, NEW receivers,
         receivers \subseteq Conns, Offer(t, e, receivers), UNCHANGED conn
  PROVE  Ordered'
<1>n. n \in Nat /\ n < e.n
  BY DEF Inv, Types
<1>1. DOMAIN chans' = DOMAIN chans
  BY DEF Offer
<1>2. ASSUME NEW i \in DOMAIN chans
      PROVE  /\ chans'[i].of = chans[i].of /\ chans'[i].topic = chans[i].topic
             /\ \/ chans'[i].q = chans[i].q
                \/ chans[i].topic = t /\ chans'[i].q = Append(chans[i].q, e)
  <2>1. chans[i] \in Channel /\ chans[i].q \in Seq(Event)
    BY ChanRows DEF Inv
  <2>2. CASE \E c \in receivers : subs[t][c] = i /\ Len(chans[i].q) < SubBuf
    <3>1. PICK c \in receivers : subs[t][c] = i
      BY <2>2
    <3>2. chans[i].topic = t
      <4>1. t \in Subjects /\ c \in Conns /\ i # 0
        BY ChanRows DEF Inv, Subjects
      <4> QED
        BY <3>1, <4>1 DEF Inv, Wired
    <3>3. PICK z : z = Append(chans[i].q, e)
      OBVIOUS
    <3>4. chans'[i] = [chans[i] EXCEPT !.q = z]
      BY <2>2, <3>3 DEF Offer
    <3> QED
      BY <2>1, <3>2, <3>3, <3>4 DEF Channel
  <2>3. CASE ~\E c \in receivers : subs[t][c] = i /\ Len(chans[i].q) < SubBuf
    <3>1. chans'[i] = chans[i]
      BY <2>3 DEF Offer
    <3> QED
      BY <3>1
  <2> QED
    BY <2>2, <2>3
<1>3. ASSUME NEW i \in DOMAIN chans
      PROVE  /\ Upward(chans'[i].q, chans[i].topic) /\ \A d \in Range(chans'[i].q) : d.topic = chans[i].topic
             /\ \A d \in Range(chans'[i].q) : d \in Range(chans[i].q) \/ d = e
  <2>1. /\ chans[i].q \in Seq(Event) /\ Upward(chans[i].q, chans[i].topic)
        /\ \A d \in Range(chans[i].q) : d.topic = chans[i].topic
    BY ChanRows DEF Inv, Ordered, ChannelsUpward
  <2>2. Older(Range(chans[i].q), {e}, t)
    <3>1. \A d \in Range(chans[i].q) : d.n \in Nums(chans[i].q)
      BY DEF Nums
    <3>2. \A x \in Nums(chans[i].q) : x \in Nat /\ x <= n
      BY Places DEF Inv
    <3>3. \A x \in Nat : x <= n => x < e.n
      BY <1>n
    <3> QED
      BY <3>1, <3>2, <3>3 DEF Older
  <2>3. CASE chans'[i].q = chans[i].q
    BY <2>1, <2>3
  <2>4. CASE chans[i].topic = t /\ chans'[i].q = Append(chans[i].q, e)
    <3>1. Range(Append(chans[i].q, e)) = Range(chans[i].q) \cup {e}
      BY <2>1, QueueLonger
    <3>2. Upward(Append(chans[i].q, e), t)
      BY <2>1, <2>2, <2>4, UpwardLonger
    <3> QED
      BY <2>1, <2>4, <3>1, <3>2
  <2> QED
    BY <1>2, <2>3, <2>4
<1>4. ChannelsUpward'
  BY <1>1, <1>2, <1>3 DEF ChannelsUpward
<1>5. ASSUME NEW c \in Conns, NEW s \in Topics, SubscribedOnce(c, s)' PROVE InOrder(c, s)'
  <2>1. InOrder(c, s)
    <3>1. SubscribedOnce(c, s)
      BY <1>1, <1>2, <1>5 DEF SubscribedOnce
    <3> QED
      BY <3>1 DEF Ordered
  <2>2. \A d \in Range(conn[c].got) \cup Range(conn[c].out) : d.n < e.n
    <3>1. \A d \in Range(conn[c].got) \cup Range(conn[c].out) : d.n \in Nums(conn[c].out) \cup Nums(conn[c].got)
      BY DEF Nums
    <3>2. \A x \in Nums(conn[c].out) \cup Nums(conn[c].got) : x \in Nat /\ x <= n
      BY ConnPlaces DEF Inv
    <3>3. \A x \in Nat : x <= n => x < e.n
      BY <1>n
    <3> QED
      BY <3>1, <3>2, <3>3
  <2>3. ASSUME NEW i \in DOMAIN chans, chans[i].of = c, chans[i].topic = s
        PROVE  Older(Range(conn[c].got), Range(chans'[i].q), s) /\ Older(Range(conn[c].out), Range(chans'[i].q), s)
    BY <1>3, <2>1, <2>2, <2>3 DEF InOrder, Older
  <2> QED
    BY <1>1, <1>2, <2>1, <2>3 DEF InOrder
<1> QED
  BY <1>4, <1>5 DEF Ordered

\* a forwarder moves the oldest event of its channel behind what it moved before
LEMMA ForwardOrder ==
  ASSUME Inv, Ordered, NEW i \in DOMAIN chans, Forward(i)
  PROVE  Ordered'
<1> DEFINE c == chans[i].of
           s == chans[i].topic
           e == Head(chans[i].q)
<1>1. c \in Conns /\ chans[i] \in Channel /\ chans[i].q \in Seq(Event) /\ chans[i].q # << >>
  BY ChanRows DEF Inv, Forward
<1>2. /\ conn \in [Conns -> Conn] /\ conn[c] \in Conn /\ conn[c].out \in Seq(Event) /\ conn[c].got \in Seq(Event)
  BY <1>1, ConnPlaces DEF Inv, Types
<1>3. PICK z \in Seq(Event) : z = Tail(chans[i].q)
  BY <1>1, QueueShorter
<1>4. /\ DOMAIN chans' = DOMAIN chans /\ \A j \in DOMAIN chans \ {i} : chans'[j] = chans[j]
      /\ chans'[i].of = c /\ chans'[i].topic = s /\ chans'[i].q = z
  <2>1. PICK r : r = [chans[i] EXCEPT !.q = z]
    OBVIOUS
  <2>2. chans' = [chans EXCEPT ![i] = r]
    BY <1>3, <2>1 DEF Forward
  <2>3. r.of = c /\ r.topic = s /\ r.q = z
    BY <1>1, <2>1 DEF Channel
  <2>4. chans \in Seq(Channel)
    BY DEF Inv, Types
  <2>5. DOMAIN chans' = DOMAIN chans /\ chans'[i] = r /\ \A j \in DOMAIN chans \ {i} : chans'[j] = chans[j]
    BY <2>2, <2>4
  <2> QED
    BY <2>3, <2>5
<1>5. \A j \in DOMAIN chans : chans'[j].of = chans[j].of /\ chans'[j].topic = chans[j].topic
  BY <1>4
<1>6. /\ e \in Event /\ e.topic = s /\ e \in Range(chans[i].q) /\ Range(z) \subseteq Range(chans[i].q)
      /\ Upward(z, s) /\ Older({e}, Range(z), s)
  BY <1>1, <1>3, QueueShorter, UpwardShorter DEF Ordered, ChannelsUpward
<1>7. PICK y : y = Append(conn[c].out, e)
  OBVIOUS
<1>8. y \in Seq(Event) /\ Range(y) = Range(conn[c].out) \cup {e}
  BY <1>2, <1>6, <1>7, QueueLonger
<1>9. /\ \A o \in Conns : conn'[o].got = conn[o].got /\ (o # c => conn'[o].out = conn[o].out)
      /\ conn'[c].out \in {conn[c].out, y}
  <2>1. CASE Len(conn[c].out) < OutBuf
    <3>1. conn' = [conn EXCEPT ![c].out = y]
      BY <1>7, <2>1 DEF Forward
    <3> HIDE DEF c
    <3>2. conn' = [conn EXCEPT ![c] = [conn[c] EXCEPT !.out = y]]
      BY <3>1
    <3>3. conn'[c] = [conn[c] EXCEPT !.out = y] /\ \A o \in Conns \ {c} : conn'[o] = conn[o]
      BY <1>1, <1>2, <3>2
    <3> QED
      BY <1>1, <1>2, <3>3 DEF Conn
  <2>2. CASE ~ (Len(conn[c].out) < OutBuf)
    <3>1. conn' = conn
      BY <2>2 DEF Forward
    <3> QED
      BY <3>1
  <2> QED
    BY <2>1, <2>2
<1> HIDE DEF c, s, e
<1>10. ChannelsUpward'
  <2>1. ASSUME NEW j \in DOMAIN chans
        PROVE  Upward(chans'[j].q, chans[j].topic) /\ \A d \in Range(chans'[j].q) : d.topic = chans[j].topic
    <3>1. /\ Upward(chans[j].q, chans[j].topic) /\ \A d \in Range(chans[j].q) : d.topic = chans[j].topic
      BY DEF Ordered, ChannelsUpward
    <3>2. CASE j = i
      BY <1>4, <1>6, <3>1, <3>2 DEF s
    <3>3. CASE j # i
      BY <1>4, <3>1, <3>3
    <3> QED
      BY <3>2, <3>3
  <2> QED
    BY <1>4, <1>5, <2>1 DEF ChannelsUpward
<1>11. ASSUME NEW o \in Conns, NEW t \in Topics, SubscribedOnce(o, t)' PROVE InOrder(o, t)'
  <2>1. SubscribedOnce(o, t)
    BY <1>4, <1>5, <1>11 DEF SubscribedOnce
  <2>2. InOrder(o, t)
    BY <2>1 DEF Ordered
  <2>3. \A j \in DOMAIN chans : Range(chans'[j].q) \subseteq Range(chans[j].q)
    BY <1>4, <1>6
  <2>4. CASE o # c \/ conn'[o].out = conn[o].out
    <3>1. conn'[o].out = conn[o].out /\ conn'[o].got = conn[o].got
      BY <1>9, <2>4
    <3> QED
      BY <1>4, <1>5, <2>2, <2>3, <3>1 DEF InOrder, Older
  <2>5. CASE o = c /\ conn'[o].out = y /\ t # s
    <3>1. \A S : Older(S, {e}, t) /\ Older({e}, S, t)
      BY <1>6, <2>5 DEF Older
    <3>2. Upward(y, t)
      BY <1>2, <1>6, <1>7, <2>2, <2>5, <3>1, UpwardLonger DEF InOrder
    <3>3. conn'[o].got = conn[o].got
      BY <1>9
    <3>4. Older(Range(conn[o].got), Range(y), t)
      BY <1>8, <2>2, <2>5, <3>1 DEF InOrder, Older
    <3>5. ASSUME NEW j \in DOMAIN chans, chans[j].of = o, chans[j].topic = t
          PROVE  Older(Range(conn[o].got), Range(chans'[j].q), t) /\ Older(Range(y), Range(chans'[j].q), t)
      BY <1>8, <2>2, <2>3, <2>5, <3>1, <3>5 DEF InOrder, Older
    <3> QED
      BY <1>4, <1>5, <2>2, <2>5, <3>2, <3>3, <3>4, <3>5 DEF InOrder
  <2>6. CASE o = c /\ conn'[o].out = y /\ t = s
    <3>1. \A j \in DOMAIN chans : chans[j].of = o /\ chans[j].topic = t => j = i
      BY <2>1, <2>6 DEF SubscribedOnce, c, s
    <3>2. /\ Older(Range(conn[o].got), Range(chans[i].q), t) /\ Older(Range(conn[o].out), Range(chans[i].q), t)
      BY <2>2, <2>6 DEF InOrder, c, s
    <3>3. Older(Range(conn[o].out), {e}, t) /\ Older(Range(conn[o].got), {e}, t)
      BY <1>6, <3>2 DEF Older
    <3>4. Upward(y, t)
      BY <1>2, <1>6, <1>7, <2>2, <2>6, <3>3, UpwardLonger DEF InOrder
    <3>5. conn'[o].got = conn[o].got
      BY <1>9
    <3>6. Older(Range(conn[o].got), Range(y), t)
      BY <1>8, <2>2, <2>6, <3>3 DEF InOrder, Older
    <3>7. Older(Range(conn[o].got), Range(z), t) /\ Older(Range(y), Range(z), t)
      BY <1>6, <1>8, <2>6, <3>2 DEF Older
    <3> QED
      BY <1>4, <1>5, <2>2, <2>6, <3>1, <3>4, <3>5, <3>6, <3>7 DEF InOrder
  <2> QED
    BY <1>9, <2>4, <2>5, <2>6
<1> QED
  BY <1>10, <1>11 DEF Ordered

\* the write pump moves the oldest event of its channel behind what it wrote
LEMMA EndWriteOrder ==
  ASSUME Inv, Ordered, NEW c \in Conns, EndWrite(c)
  PROVE  Ordered'
<1> DEFINE e == Head(conn[c].out)
<1>1. /\ conn \in [Conns -> Conn] /\ conn[c] \in Conn /\ conn[c].out \in Seq(Event) /\ conn[c].got \in Seq(Event)
      /\ conn[c].out # << >> /\ UNCHANGED chans
  BY ConnPlaces DEF Inv, Types, EndWrite, Flow, Bounded
<1>2. PICK z : z = Tail(conn[c].out)
  OBVIOUS
<1>3. PICK y : y = Append(conn[c].got, e)
  OBVIOUS
<1>4. /\ e \in Event /\ e \in Range(conn[c].out) /\ z \in Seq(Event) /\ Range(z) \subseteq Range(conn[c].out)
      /\ y \in Seq(Event) /\ Range(y) = Range(conn[c].got) \cup {e}
  BY <1>1, <1>2, <1>3, QueueShorter, QueueLonger
<1>5. /\ \A o \in Conns \ {c} : conn'[o] = conn[o]
      /\ conn'[c].out = z /\ conn'[c].got \in {conn[c].got, y}
  <2>1. PICK r : r = [conn[c] EXCEPT !.out = z, !.pump = IF conn[c].gone THEN "done" ELSE "wait",
                                     !.got = IF conn[c].gone THEN @ ELSE y]
    OBVIOUS
  <2>2. conn' = [conn EXCEPT ![c] = r]
    BY <1>2, <1>3, <2>1 DEF EndWrite
  <2>3. r.out = z /\ r.got \in {conn[c].got, y}
    <3> HIDE DEF e
    <3>1. CASE conn[c].gone
      <4>1. r = [conn[c] EXCEPT !.out = z, !.pump = "done", !.got = conn[c].got]
        BY <2>1, <3>1
      <4> QED
        BY <1>1, <4>1 DEF Conn
    <3>2. CASE ~conn[c].gone
      <4>1. r = [conn[c] EXCEPT !.out = z, !.pump = "wait", !.got = y]
        BY <2>1, <3>2
      <4> QED
        BY <1>1, <4>1 DEF Conn
    <3> QED
      BY <3>1, <3>2
  <2> QED
    BY <1>1, <2>2, <2>3
<1> HIDE DEF e
<1>6. ChannelsUpward'
  BY <1>1 DEF Ordered, ChannelsUpward
<1>7. ASSUME NEW o \in Conns, NEW t \in Topics, SubscribedOnce(o, t)' PROVE InOrder(o, t)'
  <2>1. InOrder(o, t)
    <3>1. chans' = chans
      BY <1>1
    <3>2. SubscribedOnce(o, t)
      BY <1>7, <3>1 DEF SubscribedOnce
    <3> QED
      BY <3>2 DEF Ordered
  <2>2. CASE o # c
    BY <1>1, <1>5, <2>1, <2>2 DEF InOrder
  <2>3. CASE o = c
    <3>1. Upward(z, t) /\ Older({e}, Range(z), t)
      BY <1>1, <1>2, <2>1, <2>3, UpwardShorter DEF InOrder, e
    <3>2. Older(Range(conn[c].got), {e}, t)
      BY <1>4, <2>1, <2>3 DEF InOrder, Older
    <3>3. Upward(y, t)
      BY <1>1, <1>3, <1>4, <2>1, <2>3, <3>2, UpwardLonger DEF InOrder, e
    <3>4. Older(Range(conn[c].got), Range(z), t) /\ Older(Range(y), Range(z), t)
      BY <1>4, <2>1, <2>3, <3>1 DEF InOrder, Older
    <3>5. ASSUME NEW i \in DOMAIN chans, chans[i].of = c, chans[i].topic = t
          PROVE  /\ Older(Range(conn[c].got), Range(chans[i].q), t) /\ Older(Range(y), Range(chans[i].q), t)
                 /\ Older(Range(z), Range(chans[i].q), t)
      BY <1>4, <2>1, <2>3, <3>5 DEF InOrder, Older
    <3>6. Upward(conn[c].got, t) /\ conn'[c].got \in {conn[c].got, y} /\ conn'[c].out = z /\ chans' = chans
      BY <1>1, <1>5, <2>1, <2>3 DEF InOrder
    <3>7. Upward(conn'[c].got, t) /\ Older(Range(conn'[c].got), Range(conn'[c].out), t)
      BY <3>3, <3>4, <3>6
    <3>8. \A i \in DOMAIN chans' : chans'[i].of = c /\ chans'[i].topic = t =>
            /\ Older(Range(conn'[c].got), Range(chans'[i].q), t)
            /\ Older(Range(conn'[c].out), Range(chans'[i].q), t)
      BY <3>5, <3>6
    <3> QED
      BY <2>3, <3>1, <3>6, <3>7, <3>8 DEF InOrder
  <2> QED
    BY <2>2, <2>3
<1> QED
  BY <1>6, <1>7 DEF Ordered

\* a new channel is empty
LEMMA SubscribeKept ==
  ASSUME Inv, NEW c \in Conns, NEW t \in Subjects, Subscribe(t, c),
         \A o \in Conns : conn'[o].out = conn[o].out /\ conn'[o].got = conn[o].got
  PROVE  EventsKept
<1>1. /\ DOMAIN chans' = DOMAIN chans \cup {Len(chans) + 1} /\ \A i \in DOMAIN chans : chans'[i] = chans[i]
      /\ chans'[Len(chans) + 1] = [of |-> c, topic |-> t, open |-> TRUE, live |-> TRUE, q |-> << >>]
  BY SubscribeWires DEF Inv
<1> QED
  BY <1>1 DEF EventsKept

\* a connection's row, its queues as they were
LEMMA RowQueues ==
  ASSUME Types, NEW c \in Conns, NEW r, conn' = [conn EXCEPT ![c] = r], r.out = conn[c].out, r.got = conn[c].got
  PROVE  \A o \in Conns : conn'[o].out = conn[o].out /\ conn'[o].got = conn[o].got
<1>1. conn'[c] = r /\ \A o \in Conns \ {c} : conn'[o] = conn[o]
  BY DEF Types
<1> QED
  BY <1>1

\* the steps of a handler and the end of a forwarder
LEMMA HandlerKept ==
  ASSUME Inv, NEW c \in Conns,
         \/ Connect(c) \/ EndReply(c) \/ OnPing(c) \/ Leave(c) \/ Disconnect(c) \/ BeginWrite(c)
         \/ \E t \in Subjects : OnSubscribe(c, t) \/ OnUnsubscribe(c, t)
  PROVE  EventsKept
<1>0. conn[c] \in Conn /\ Types /\ \A t \in Topics : t \in Subjects
  BY DEF Inv, Types, Subjects
<1>1. CASE Connect(c)
  <2>1. \A o \in Conns : conn'[o].out = conn[o].out /\ conn'[o].got = conn[o].got
    <3>1. PICK r : r = [conn[c] EXCEPT !.read = "ack", !.pump = "wait", !.count = 1]
      OBVIOUS
    <3>2. conn' = [conn EXCEPT ![c] = r]
      BY <1>1, <3>1 DEF Connect
    <3>3. r.out = conn[c].out /\ r.got = conn[c].got
      BY <1>0, <3>1 DEF Conn
    <3> QED
      BY <1>0, <3>2, <3>3, RowQueues
  <2> QED
    BY <1>1, <2>1, SubscribeKept DEF Connect, Subjects
<1>2. CASE EndReply(c) \/ OnPing(c) \/ Leave(c) \/ BeginWrite(c)
  <2>1. UNCHANGED chans
    BY <1>2 DEF EndReply, OnPing, Leave, BeginWrite
  <2>2. \A o \in Conns : conn'[o].out = conn[o].out /\ conn'[o].got = conn[o].got
    <3>1. PICK r \in {[conn[c] EXCEPT !.read = "read"], [conn[c] EXCEPT !.read = "pong"],
                      [conn[c] EXCEPT !.gone = TRUE], [conn[c] EXCEPT !.pump = "write"]} :
            conn' = [conn EXCEPT ![c] = r]
      BY <1>2 DEF EndReply, OnPing, Leave, BeginWrite
    <3>2. r.out = conn[c].out /\ r.got = conn[c].got
      BY <1>0, <3>1 DEF Conn
    <3> QED
      BY <1>0, <3>1, <3>2, RowQueues
  <2> QED
    BY <2>1, <2>2 DEF EventsKept
<1>3. CASE Disconnect(c)
  <2>1. RowsAlike
    BY <1>3, DisconnectWires DEF Inv, Disconnect
  <2>2. \A o \in Conns : conn'[o].out = conn[o].out /\ conn'[o].got = conn[o].got
    <3>1. PICK r : r = [conn[c] EXCEPT !.read = "done"]
      OBVIOUS
    <3>2. conn' = [conn EXCEPT ![c] = r]
      BY <1>3, <3>1 DEF Disconnect
    <3>3. r.out = conn[c].out /\ r.got = conn[c].got
      BY <1>0, <3>1 DEF Conn
    <3> QED
      BY <1>0, <3>2, <3>3, RowQueues
  <2> QED
    BY <2>1, <2>2 DEF EventsKept, RowsAlike
<1>4. ASSUME NEW t \in Subjects, OnSubscribe(c, t) PROVE EventsKept
  <2>1. CASE conn[c].count < MaxSubs
    <3>1. \A o \in Conns : conn'[o].out = conn[o].out /\ conn'[o].got = conn[o].got
      <4>1. PICK r : r = [conn[c] EXCEPT !.count = @ + 1]
        OBVIOUS
      <4>2. conn' = [conn EXCEPT ![c] = r]
        BY <1>4, <2>1, <4>1 DEF OnSubscribe
      <4>3. r.out = conn[c].out /\ r.got = conn[c].got
        BY <1>0, <4>1 DEF Conn
      <4> QED
        BY <1>0, <4>2, <4>3, RowQueues
    <3> QED
      BY <1>0, <1>4, <2>1, <3>1, SubscribeKept DEF OnSubscribe
  <2>2. CASE ~ (conn[c].count < MaxSubs)
    <3>1. UNCHANGED <<chans, conn>>
      BY <1>4, <2>2 DEF OnSubscribe
    <3> QED
      BY <3>1 DEF EventsKept
  <2> QED
    BY <2>1, <2>2
<1>5. ASSUME NEW t \in Subjects, OnUnsubscribe(c, t) PROVE EventsKept
  <2>1. RowsAlike
    BY <1>0, <1>5, UnsubscribeWires DEF Inv, OnUnsubscribe
  <2>2. \A o \in Conns : conn'[o].out = conn[o].out /\ conn'[o].got = conn[o].got
    <3>1. PICK r : r = [conn[c] EXCEPT !.count = @ - 1]
      OBVIOUS
    <3>2. conn' = [conn EXCEPT ![c] = r]
      BY <1>5, <3>1 DEF OnUnsubscribe
    <3>3. r.out = conn[c].out /\ r.got = conn[c].got
      BY <1>0, <3>1 DEF Conn
    <3> QED
      BY <1>0, <3>2, <3>3, RowQueues
  <2> QED
    BY <2>1, <2>2 DEF EventsKept, RowsAlike
<1> QED
  BY <1>1, <1>2, <1>3, <1>4, <1>5

LEMMA EndForwardKept ==
  ASSUME Inv, NEW i \in DOMAIN chans, EndForward(i)
  PROVE  EventsKept
<1>1. chans[i] \in Channel /\ chans \in Seq(Channel) /\ UNCHANGED conn
  BY ChanRows DEF Inv, Types, EndForward
<1>2. PICK r : r = [chans[i] EXCEPT !.live = FALSE]
  OBVIOUS
<1>3. chans' = [chans EXCEPT ![i] = r]
  BY <1>2 DEF EndForward
<1>4. r.of = chans[i].of /\ r.topic = chans[i].topic /\ r.q = chans[i].q
  BY <1>1, <1>2 DEF Channel
<1>5. DOMAIN chans' = DOMAIN chans /\ chans'[i] = r /\ \A j \in DOMAIN chans \ {i} : chans'[j] = chans[j]
  BY <1>1, <1>3
<1> QED
  BY <1>1, <1>4, <1>5 DEF EventsKept

LEMMA InitOrdered == Init => Ordered
<1> SUFFICES ASSUME Init PROVE Ordered
  OBVIOUS
<1>1. DOMAIN << >> = {}
  OBVIOUS
<1>2. DOMAIN chans = {} /\ \A c \in Conns : conn[c].out = << >> /\ conn[c].got = << >>
  BY <1>1 DEF Init
<1>3. ChannelsUpward
  BY <1>2 DEF ChannelsUpward
<1>4. ASSUME NEW c \in Conns, NEW t \in Topics PROVE InOrder(c, t)
  BY <1>1, <1>2, NoEvents DEF InOrder, Upward, Older
<1> QED
  BY <1>3, <1>4 DEF Ordered

LEMMA NextOrdered == Inv /\ Ordered /\ [Next]_vars => Ordered'
<1> SUFFICES ASSUME Inv, Ordered, [Next]_vars PROVE Ordered'
  OBVIOUS
<1>1. ASSUME NEW c \in Conns,
             \/ Connect(c) \/ EndReply(c) \/ OnPing(c) \/ Leave(c) \/ Disconnect(c) \/ BeginWrite(c)
             \/ \E t \in Subjects : OnSubscribe(c, t) \/ OnUnsubscribe(c, t)
      PROVE  Ordered'
  BY <1>1, HandlerKept, OrderStays
<1>2. ASSUME NEW c \in Conns, EndWrite(c) PROVE Ordered'
  BY <1>2, EndWriteOrder
<1>3. ASSUME NEW i \in DOMAIN chans, Forward(i) PROVE Ordered'
  BY <1>3, ForwardOrder
<1>4. ASSUME NEW i \in DOMAIN chans, EndForward(i) PROVE Ordered'
  BY <1>4, EndForwardKept, OrderStays
<1>5. ASSUME NEW t \in Topics, NEW to \in Users \cup {All}, NEW receivers, receivers \subseteq Conns,
             Offer(t, [n |-> n', topic |-> t, to |-> to], receivers), n' = n + 1, UNCHANGED conn
      PROVE  Ordered'
  <2>1. PICK e : e = [n |-> n', topic |-> t, to |-> to]
    OBVIOUS
  <2>2. n + 1 \in Nat
    BY DEF Inv, Types
  <2>3. e \in Event /\ e.n = n + 1 /\ e.topic = t
    BY <1>5, <2>1, <2>2 DEF Event
  <2>4. Offer(t, e, receivers)
    BY <1>5, <2>1
  <2> QED
    BY <1>5, <2>3, <2>4, OfferOrder
<1>6. ASSUME NEW t \in Topics, Publish(t) PROVE Ordered'
  BY <1>5, <1>6 DEF Publish
<1>7. ASSUME NEW t \in Topics, NEW u \in Users, PublishScoped(t, u) PROVE Ordered'
  BY <1>5, <1>7 DEF PublishScoped
<1>8. CASE UNCHANGED vars
  <2>1. EventsKept
    BY <1>8 DEF vars, EventsKept
  <2> QED
    BY <2>1, OrderStays
<1> QED
  BY <1>1, <1>2, <1>3, <1>4, <1>6, <1>7, <1>8 DEF Next, Goes, Pump, Run, Subjects

LEMMA OrderedHolds == Spec => []Ordered
<1>1. Inv /\ Ordered /\ [Next]_vars => Ordered'
  BY NextOrdered
<1> QED
  BY InitOrdered, InvHolds, <1>1, PTL DEF Spec

-----------------------------------------------------------------------------
(* The theorems                                                            *)

\* What the broker publishes to is open: no Subscribe that replaces a channel,
\* no Unsubscribe and no UnsubscribeAll leaves a closed channel in Broker.subs,
\* so that Publish and PublishScoped never send on one. An event of
\* PublishScoped is on its way to that user's browsers only, and a handler
\* keeps the cap of OnSubscribe for a browser that unsubscribes only what it
\* subscribed.
THEOREM BrokerIsSound == Spec => []BrokerSound
<1>1. Inv => BrokerSound
  <2> SUFFICES ASSUME Inv PROVE BrokerSound
    OBVIOUS
  <2>1. TypeOK
    <3>1. \A t \in Subjects, c \in Conns : subs[t][c] \in 0 .. Len(chans)
      <4>1. ASSUME NEW t \in Subjects, NEW c \in Conns PROVE subs[t][c] \in 0 .. Len(chans)
        <5>1. subs[t][c] \in Nat /\ (subs[t][c] # 0 => subs[t][c] \in 1 .. Len(chans)) /\ Len(chans) \in Nat
          BY ChanRows DEF Inv, Types, Wired
        <5> QED
          BY <5>1
      <4> QED
        BY <4>1
    <3>2. subs \in [Subjects -> [Conns -> 0 .. Len(chans)]]
      <4>1. \A t \in Subjects : subs[t] \in [Conns -> 0 .. Len(chans)]
        BY <3>1 DEF Inv, Types
      <4> QED
        BY <4>1 DEF Inv, Types
    <3>3. \A i \in DOMAIN chans : chans[i] \in Channel /\ Len(chans[i].q) <= SubBuf
      BY Places DEF Inv
    <3>4. \A c \in Conns : conn[c] \in Conn /\ Len(conn[c].out) <= OutBuf
      BY ConnPlaces DEF Inv
    <3> QED
      BY <3>2, <3>3, <3>4 DEF TypeOK, Subjects
  <2>2. RegisteredIsOpen
    BY DEF Inv, Wired, RegisteredIsOpen, Subjects
  <2>3. ScopedStays
    <3>1. ASSUME NEW c \in Conns, NEW e \in Waiting(c) PROVE e.to \in {All, UserOf[c]}
      <4>1. CASE e \in Range(conn[c].out)
        BY <4>1, ConnPlaces DEF Inv
      <4>2. CASE \E i \in DOMAIN chans : chans[i].of = c /\ e \in Range(chans[i].q)
        <5>1. PICK i \in DOMAIN chans : chans[i].of = c /\ e \in Range(chans[i].q)
          BY <4>2
        <5>2. \A o \in Conns : chans[i].of = o => \A d \in Range(chans[i].q) : d.to \in {All, UserOf[o]}
          BY Places DEF Inv
        <5> QED
          BY <5>1, <5>2
      <4>3. \/ e \in Range(conn[c].out)
            \/ e \in UNION {Range(chans[i].q) : i \in {j \in DOMAIN chans : chans[j].of = c}}
        BY <3>1 DEF Waiting
      <4>4. ASSUME e \in UNION {Range(chans[i].q) : i \in {j \in DOMAIN chans : chans[j].of = c}}
            PROVE  \E i \in DOMAIN chans : chans[i].of = c /\ e \in Range(chans[i].q)
        BY <4>4
      <4> QED
        BY <4>1, <4>2, <4>3, <4>4
    <3> QED
      BY <3>1 DEF ScopedStays
  <2>4. CapKept
    <3>1. ASSUME NEW c \in Conns, c \notin stray PROVE Cardinality(Subscriptions(c)) <= MaxSubs
      <4>1. /\ IsFiniteSet(Subscriptions(c)) /\ Cardinality(Subscriptions(c)) <= conn[c].count
            /\ conn[c].count <= MaxSubs
        BY <3>1 DEF Inv, Counts, Counted
      <4>2. Cardinality(Subscriptions(c)) \in Nat /\ conn[c].count \in Int /\ MaxSubs \in Nat
        BY <4>1, FS_CardinalityType, WebEventsConstantsOK DEF Inv, Types, Conn
      <4> QED
        BY <4>1, <4>2
    <3> QED
      BY <3>1 DEF CapKept
  <2> QED
    BY <2>1, <2>2, <2>3, <2>4 DEF BrokerSound
<1> QED
  BY <1>1, InvHolds, PTL

\* An event is written to a browser at most once, however often the browser
\* subscribes a topic again and so has several forwarders for it (Subscribe,
\* the forwarding goroutine and the write pump): an event is in one channel of
\* a connection, in its dispatch channel, or written. The events of a topic that
\* the browser subscribed once are written in the order of their Publish: they
\* pass through three queues, whose one reader each keeps their order.
THEOREM EventsWrittenInOrder == Spec => []WrittenInOrder
<1>1. Inv /\ Ordered => WrittenInOrder
  <2> SUFFICES ASSUME Inv, Ordered, NEW c \in Conns, NEW i \in DOMAIN conn[c].got, NEW j \in DOMAIN conn[c].got
               PROVE  /\ conn[c].got[i] = conn[c].got[j] => i = j
                      /\ i < j /\ conn[c].got[i].topic = conn[c].got[j].topic
                           /\ SubscribedOnce(c, conn[c].got[i].topic) => conn[c].got[i].n < conn[c].got[j].n
    BY DEF WrittenInOrder
  <2>1. conn[c].got[i] = conn[c].got[j] => i = j
    BY ConnPlaces DEF Inv, Distinct
  <2>2. ASSUME i < j, conn[c].got[i].topic = conn[c].got[j].topic, SubscribedOnce(c, conn[c].got[i].topic)
        PROVE  conn[c].got[i].n < conn[c].got[j].n
    <3>1. PICK t : t = conn[c].got[i].topic
      OBVIOUS
    <3>2. t \in Topics
      BY <3>1, ConnPlaces, QueueRows DEF Inv, Event
    <3>3. Upward(conn[c].got, t)
      BY <2>2, <3>1, <3>2 DEF Ordered, InOrder
    <3> QED
      BY <2>2, <3>1, <3>3 DEF Upward
  <2> QED
    BY <2>1, <2>2
<1> QED
  BY <1>1, InvHolds, OrderedHolds, PTL

-----------------------------------------------------------------------------
(* VNC sessions: the inductive invariant                                   *)

\* frames speak of sessions that CreateSession has made
Asks    == {f \in Frame : sess[f.s].st # "none"}
Replies == {f \in Answer : sess[f.s].st # "none"}

Both(s)    == sess[s].browser # "none" /\ sess[s].device # "none"
Binding(s) == <<s, "browser">> \in act \/ <<s, "device">> \in act

\* the pumps that the binder of a side may still start
BrowserDue(s) == IF sess[s].browser = "none" \/ <<s, "browser">> \in act THEN 2 ELSE 0
DeviceDue(s)  == IF sess[s].device = "none" \/ <<s, "device">> \in act THEN 2 ELSE 0

VncTypes ==
    /\ job \in {"running", "over"} /\ sess \in [Sessions -> Session]
    /\ act \subseteq Sessions \X {"browser", "device"} /\ revived \subseteq Sessions
    /\ req \in [Opens -> Request] /\ bridge \in [Sessions -> Bridge]
    /\ stack \in BOOLEAN /\ budget \in 0 .. MaxEvents

FramesKnown == down \in Seq(Asks) /\ up \in Seq(Replies)

RequestsKnown ==
    \A o \in Opens : req[o].pc # "new" => req[o].s \in Sessions /\ sess[req[o].s].st # "none"

\* where a bridge can be once it has dialed
Dialed == {"up", "stopping", "cancelled", "ended", "lost"}

\* The device dials once for a session, and its socket is open while its
\* bridge is up, never longer.
BridgesKnown ==
    \A s \in Sessions : /\ bridge[s].pc # "none" => sess[s].st # "none"
                        /\ sess[s].device # "none" => bridge[s].pc \in Dialed
                        /\ sess[s].device = "open" => bridge[s].pc = "up"

FreshEmpty ==
    \A s \in Sessions : sess[s].st = "none" => /\ sess[s].browser = "none"
                                               /\ sess[s].device = "none"

BindersBound ==
    \A s \in Sessions : /\ <<s, "browser">> \in act => sess[s].browser # "none"
                        /\ <<s, "device">> \in act => sess[s].device # "none"

PumpsBounded ==
    \A s \in Sessions : sess[s].pumps + BrowserDue(s) + DeviceDue(s) =< 4

BinderOrPump ==
    \A s \in Sessions \ revived : Alive(s) /\ Both(s) => sess[s].pumps > 0 \/ Binding(s)

\* a pump copies from one socket to the other: it is started when both are there
PumpsHaveSockets ==
    \A s \in Sessions : sess[s].pumps > 0 => Both(s)

OneNotRevived ==
    \A s, t \in Sessions \ revived : Alive(s) /\ Alive(t) => s = t

VncInv ==
    /\ VncTypes /\ FramesKnown /\ RequestsKnown /\ BridgesKnown
    /\ FreshEmpty /\ BindersBound /\ PumpsBounded /\ PumpsHaveSockets /\ BinderOrPump
    /\ OneNotRevived

LEMMA VncStart ==
  VncInit => VncInv
<1> SUFFICES ASSUME VncInit PROVE VncInv
  OBVIOUS
<1>1. VncTypes
  <2>1. sess \in [Sessions -> Session]
    BY DEF VncInit, Session, Status, Socket
  <2>2. req \in [Opens -> Request] /\ bridge \in [Sessions -> Bridge]
    BY DEF VncInit, Request, Bridge
  <2>3. budget \in 0 .. MaxEvents
    BY VncRelayConstantsOK DEF VncInit
  <2> QED
    BY <2>1, <2>2, <2>3 DEF VncInit, VncTypes
<1>2. FramesKnown
  BY DEF VncInit, FramesKnown
<1> QED
  BY <1>1, <1>2 DEF VncInit, VncInv, RequestsKnown, BridgesKnown, FreshEmpty, BindersBound,
     PumpsBounded, BrowserDue, DeviceDue, PumpsHaveSockets, BinderOrPump, OneNotRevived, Alive

\* the earliest session id that is not yet used
LEMMA FirstFresh ==
  ASSUME Fresh # {}
  PROVE  Min(Fresh) \in Fresh
<1>1. Fresh \subseteq Nat
  BY VncRelayConstantsOK DEF Fresh
<1>2. PICK x \in Fresh : \A y \in Fresh : ~ (<<y, x>> \in OpToRel(<, Nat))
  BY <1>1, NatLessThanWellFounded, WFMin
<1>3. ASSUME NEW y \in Fresh
      PROVE  x =< y
  <2>1. y \in Nat /\ x \in Nat
    BY <1>1
  <2>2. ~ (y < x)
    BY <1>2, <2>1 DEF OpToRel
  <2> QED
    BY <2>1, <2>2
<1> QED
  BY <1>3 DEF Min

LEMMA WiderQueue ==
  ASSUME NEW S, NEW T, S \subseteq T, NEW q \in Seq(S)
  PROVE  q \in Seq(T)
OBVIOUS

\* Sessions are never forgotten, so frames that wait keep their sessions.
LEMMA FramesStay ==
  ASSUME \A s \in Sessions : sess[s].st # "none" => sess'[s].st # "none"
  PROVE  Seq(Asks) \subseteq Seq(Asks') /\ Seq(Replies) \subseteq Seq(Replies')
<1>1. \A f \in Frame : f.s \in Sessions
  BY DEF Frame
<1>2. \A f \in Answer : f.s \in Sessions
  BY DEF Answer
<1>3. Asks \subseteq Asks' /\ Replies \subseteq Replies'
  BY <1>1, <1>2 DEF Asks, Replies
<1> QED
  BY <1>3, WiderQueue

LEMMA QueueLine ==
  ASSUME NEW S, NEW q \in Seq(S)
  PROVE  /\ \A x \in S : Append(q, x) \in Seq(S)
         /\ \A x \in S, y \in S : q \o <<x, y>> \in Seq(S)
         /\ q # << >> => Head(q) \in S /\ Tail(q) \in Seq(S)
<1>1. \A x \in S, y \in S : <<x, y>> \in Seq(S)
  OBVIOUS
<1>2. \A x \in S, y \in S : q \o <<x, y>> \in Seq(S)
  BY <1>1, ConcatProperties
<1>3. q # << >> => Head(q) \in S /\ Tail(q) \in Seq(S)
  BY HeadTailProperties
<1> QED
  BY <1>2, <1>3, AppendProperties

LEMMA VncStutter ==
  ASSUME VncInv, UNCHANGED vncVars
  PROVE  VncInv'
BY DEF VncInv, vncVars, gateway, device, VncTypes, FramesKnown, Asks, Replies, RequestsKnown,
   BridgesKnown, FreshEmpty, BindersBound, PumpsBounded, BrowserDue, DeviceDue, PumpsHaveSockets,
   BinderOrPump, OneNotRevived, Alive, Both, Binding

\* CloseSession: what it does to the session, and that it opens nothing.
LEMMA Closing ==
  ASSUME sess \in [Sessions -> Session], NEW s \in Sessions
  PROVE  /\ Closed(s) \in [Sessions -> Session]
         /\ \A t \in Sessions : t # s => Closed(s)[t] = sess[t]
         /\ Closed(s)[s].st \notin {"pending", "ready", "active"}
         /\ sess[s].st = "none" <=> Closed(s)[s].st = "none"
         /\ sess[s].browser = "none" <=> Closed(s)[s].browser = "none"
         /\ sess[s].device = "none" <=> Closed(s)[s].device = "none"
         /\ Closed(s)[s].device = "open" => sess[s].device = "open"
         /\ Closed(s)[s].pumps = sess[s].pumps
<1>1. PICK r \in Session : r = sess[s]
  OBVIOUS
<1> DEFINE c == [r EXCEPT !.st = "closed", !.browser = Shut(r.browser), !.device = Shut(r.device)]
<1>2. /\ c \in Session /\ c.st = "closed" /\ c.pumps = r.pumps
      /\ r.browser = "none" <=> c.browser = "none"
      /\ r.device = "none" <=> c.device = "none"
      /\ c.device = "open" => r.device = "open"
  BY DEF Session, Status, Socket, Shut
<1>3. CASE Alive(s)
  <2>1. Closed(s) = [sess EXCEPT ![s] = c]
    BY <1>1, <1>3 DEF Closed
  <2> QED
    BY <1>1, <1>2, <1>3, <2>1 DEF Alive
<1>4. CASE ~ Alive(s)
  BY <1>4 DEF Closed, Alive
<1> QED
  BY <1>3, <1>4

\* What a step may do to session s without touching the binders: it makes no
\* session and binds no socket, it starts no pump, and it makes the session
\* alive again only as a revived one.
Withers(s) ==
    /\ sess' \in [Sessions -> Session] /\ act' = act
    /\ revived \subseteq revived' /\ revived' \subseteq Sessions
    /\ \A t \in Sessions : t # s => sess'[t] = sess[t]
    /\ sess[s].st = "none" <=> sess'[s].st = "none"
    /\ sess[s].browser = "none" <=> sess'[s].browser = "none"
    /\ sess[s].device = "none" <=> sess'[s].device = "none"
    /\ sess'[s].device = "open" => sess[s].device = "open"
    /\ Alive(s)' => s \in revived' \/ (Alive(s) /\ sess'[s].pumps = sess[s].pumps)
    /\ sess'[s].pumps =< sess[s].pumps

LEMMA RegistryWithers ==
  ASSUME VncInv, NEW s \in Sessions, Withers(s)
  PROVE  /\ FreshEmpty' /\ BindersBound' /\ PumpsBounded' /\ PumpsHaveSockets'
         /\ BinderOrPump' /\ OneNotRevived'
         /\ Seq(Asks) \subseteq Seq(Asks') /\ Seq(Replies) \subseteq Seq(Replies')
         /\ UNCHANGED req => RequestsKnown'
         /\ UNCHANGED bridge => BridgesKnown'
<1>0. /\ sess \in [Sessions -> Session] /\ RequestsKnown /\ BridgesKnown
      /\ FreshEmpty /\ BindersBound /\ PumpsBounded /\ PumpsHaveSockets /\ BinderOrPump
      /\ OneNotRevived
  BY DEF VncInv, VncTypes
<1>1. \A t \in Sessions : sess[t].pumps \in Nat /\ sess'[t].pumps \in Nat
  BY <1>0 DEF Withers, Session
<1>2. FreshEmpty' /\ BindersBound'
  BY <1>0 DEF Withers, FreshEmpty, BindersBound
<1>3. PumpsBounded'
  <2>1. \A t \in Sessions : BrowserDue(t)' = BrowserDue(t) /\ DeviceDue(t)' = DeviceDue(t)
    BY DEF Withers, BrowserDue, DeviceDue
  <2>2. \A t \in Sessions : BrowserDue(t) \in Nat /\ DeviceDue(t) \in Nat
    BY DEF BrowserDue, DeviceDue
  <2>3. \A t \in Sessions : sess'[t].pumps =< sess[t].pumps
    BY <1>1 DEF Withers
  <2> QED
    BY <1>0, <1>1, <2>1, <2>2, <2>3 DEF PumpsBounded
<1>4. \A t \in Sessions \ revived' : Alive(t)' => Alive(t) /\ sess'[t].pumps = sess[t].pumps
  BY DEF Withers, Alive
<1>5. BinderOrPump'
  BY <1>0, <1>4 DEF Withers, BinderOrPump, Both, Binding
<1>6. OneNotRevived'
  BY <1>0, <1>4 DEF Withers, OneNotRevived
<1>7. Seq(Asks) \subseteq Seq(Asks') /\ Seq(Replies) \subseteq Seq(Replies')
  BY FramesStay DEF Withers
<1>8. UNCHANGED req => RequestsKnown'
  BY <1>0 DEF RequestsKnown, Withers
<1>9. UNCHANGED bridge => BridgesKnown'
  BY <1>0 DEF BridgesKnown, Withers
<1>10. PumpsHaveSockets'
  <2>1. \A t \in Sessions : sess'[t].pumps =< sess[t].pumps
    BY <1>1 DEF Withers
  <2>2. \A t \in Sessions : Both(t)' <=> Both(t)
    BY DEF Withers, Both
  <2> QED
    BY <1>0, <1>1, <2>1, <2>2 DEF PumpsHaveSockets
<1> QED
  BY <1>2, <1>3, <1>5, <1>6, <1>7, <1>8, <1>9, <1>10

\* CloseSession, whoever calls it, is such a step.
LEMMA ClosingWithers ==
  ASSUME VncInv, NEW s \in Sessions, UNCHANGED <<act, revived>>, sess' = Closed(s)
  PROVE  Withers(s)
<1>1. /\ sess \in [Sessions -> Session] /\ revived \subseteq Sessions
      /\ sess[s].pumps \in Nat
  BY DEF VncInv, VncTypes, Session
<1> QED
  BY <1>1, Closing DEF Withers, Alive

\* handleCloseVNC
LEMMA UserCloseKeeps ==
  ASSUME VncInv, NEW s \in Sessions, UserClose(s)
  PROVE  VncInv'
<1>0. VncTypes /\ FramesKnown
  BY DEF VncInv
<1>1. /\ sess' = Closed(s) /\ UNCHANGED <<job, act, revived, req, bridge, stack, up>>
      /\ down' = Append(down, [type |-> "close", s |-> s]) /\ budget > 0 /\ budget' = budget - 1
      /\ sess[s].st # "none"
  BY DEF UserClose, Happens, device
<1>2. Withers(s)
  BY <1>1, ClosingWithers
<1>3. VncTypes'
  BY <1>0, <1>1, <1>2, VncRelayConstantsOK DEF VncTypes, Withers
<1>4. FramesKnown'
  <2>1. [type |-> "close", s |-> s] \in Asks
    BY <1>1 DEF Asks, Frame
  <2> QED
    BY <1>0, <1>1, <1>2, <2>1, RegistryWithers, QueueLine DEF FramesKnown
<1> QED
  BY <1>1, <1>2, <1>3, <1>4, RegistryWithers DEF VncInv

\* the reaper
LEMMA ReapKeeps ==
  ASSUME VncInv, NEW s \in Sessions, Reap(s)
  PROVE  VncInv'
<1>0. VncTypes /\ FramesKnown
  BY DEF VncInv
<1>1. sess' = Closed(s) /\ UNCHANGED <<job, act, revived, req, bridge, stack, down, up, budget>>
  BY DEF Reap, device
<1>2. Withers(s)
  BY <1>1, ClosingWithers
<1>3. VncTypes'
  BY <1>0, <1>1, <1>2 DEF VncTypes, Withers
<1>4. FramesKnown'
  BY <1>0, <1>1, <1>2, RegistryWithers DEF FramesKnown
<1> QED
  BY <1>1, <1>2, <1>3, <1>4, RegistryWithers DEF VncInv

\* a pump that returns closes the session before it is gone
LEMMA PumpEndsKeeps ==
  ASSUME VncInv, NEW s \in Sessions, PumpEnds(s)
  PROVE  VncInv'
<1>0. VncTypes /\ FramesKnown
  BY DEF VncInv
<1>1. /\ sess' = [Closed(s) EXCEPT ![s].pumps = @ - 1] /\ sess[s].pumps > 0
      /\ UNCHANGED <<job, act, revived, req, bridge, stack, down, up, budget>>
  BY DEF PumpEnds, device
<1>2. Withers(s)
  <2>1. PICK r \in Session : r = Closed(s)[s]
    BY <1>0, Closing DEF VncTypes
  <2>2. r.pumps = sess[s].pumps /\ r.pumps \in 0 .. 4
    BY <1>0, <2>1, Closing DEF VncTypes, Session
  <2> DEFINE c == [r EXCEPT !.pumps = r.pumps - 1]
  <2>3. /\ c \in Session /\ c.st = r.st /\ c.browser = r.browser /\ c.device = r.device
        /\ c.pumps =< sess[s].pumps
    BY <1>1, <2>2 DEF Session
  <2>4. sess' = [Closed(s) EXCEPT ![s] = c]
    BY <1>1, <2>1
  <2> HIDE DEF c
  <2>5. /\ sess' \in [Sessions -> Session] /\ sess'[s] = c
        /\ \A t \in Sessions : t # s => sess'[t] = sess[t]
    BY <1>0, <2>3, <2>4, Closing DEF VncTypes
  <2>6. ~ Alive(s)'
    BY <1>0, <2>1, <2>3, <2>5, Closing DEF VncTypes, Alive
  <2> QED
    <3>1. /\ sess[s].st = "none" <=> sess'[s].st = "none"
          /\ sess[s].browser = "none" <=> sess'[s].browser = "none"
          /\ sess[s].device = "none" <=> sess'[s].device = "none"
          /\ sess'[s].device = "open" => sess[s].device = "open"
      BY <1>0, <2>1, <2>3, <2>5, Closing DEF VncTypes
    <3>2. sess'[s].pumps =< sess[s].pumps
      BY <2>3, <2>5
    <3> QED
      BY <1>0, <1>1, <2>5, <2>6, <3>1, <3>2 DEF VncTypes, Withers
<1>3. VncTypes'
  BY <1>0, <1>1, <1>2 DEF VncTypes, Withers
<1>4. FramesKnown'
  BY <1>0, <1>1, <1>2, RegistryWithers DEF FramesKnown
<1> QED
  BY <1>1, <1>2, <1>3, <1>4, RegistryWithers DEF VncInv

LEMMA BrowserLeavesKeeps ==
  ASSUME VncInv, NEW s \in Sessions, BrowserLeaves(s)
  PROVE  VncInv'
<1>0. VncTypes /\ FramesKnown
  BY DEF VncInv
<1>1. /\ sess' = [sess EXCEPT ![s].browser = "dead"] /\ sess[s].browser = "open"
      /\ budget > 0 /\ budget' = budget - 1
      /\ UNCHANGED <<job, act, revived, req, bridge, stack, down, up>>
  BY DEF BrowserLeaves, Happens, device
<1>2. Withers(s)
  <2>1. PICK r \in Session : r = sess[s]
    BY <1>0 DEF VncTypes
  <2> DEFINE c == [r EXCEPT !.browser = "dead"]
  <2>2. /\ c \in Session /\ c.st = r.st /\ c.device = r.device /\ c.pumps = r.pumps
        /\ c.browser = "dead" /\ r.pumps \in Nat
    BY DEF Session, Socket
  <2>3. sess' = [sess EXCEPT ![s] = c]
    BY <1>1, <2>1
  <2> HIDE DEF c
  <2>4. /\ sess' \in [Sessions -> Session] /\ sess'[s] = c
        /\ \A t \in Sessions : t # s => sess'[t] = sess[t]
    BY <1>0, <2>2, <2>3 DEF VncTypes
  <2>5. Alive(s)' => Alive(s)
    BY <2>1, <2>2, <2>4 DEF Alive
  <2> QED
    BY <1>0, <1>1, <2>1, <2>2, <2>4, <2>5 DEF VncTypes, Withers
<1>3. VncTypes'
  BY <1>0, <1>1, <1>2, VncRelayConstantsOK DEF VncTypes, Withers
<1>4. FramesKnown'
  BY <1>0, <1>1, <1>2, RegistryWithers DEF FramesKnown
<1> QED
  BY <1>1, <1>2, <1>3, <1>4, RegistryWithers DEF VncInv

\* VNC_OPENED and VNC_CLOSE: a session that was closed may be ready again, and
\* is then one that was revived.
LEMMA ReceiveKeeps ==
  ASSUME VncInv, Receive
  PROVE  VncInv'
<1>0. VncTypes /\ FramesKnown
  BY DEF VncInv
<1> DEFINE f == Head(up)
<1>1. /\ up # << >> /\ up' = Tail(up)
      /\ \/ MarkReady(f.s)
         \/ MarkError(f.s)
         \/ sess' = Closed(f.s) /\ UNCHANGED revived
      /\ UNCHANGED <<job, act, req, bridge, stack, down, budget>>
  BY DEF Receive, device
<1>2. f \in Replies /\ Tail(up) \in Seq(Replies)
  BY <1>0, <1>1, QueueLine DEF FramesKnown
<1>3. f.s \in Sessions /\ sess[f.s].st # "none"
  BY <1>2 DEF Replies, Answer
<1> HIDE DEF f
<1>4. PICK s \in Sessions : s = f.s
  BY <1>3
<1>5. ASSUME MarkReady(s) PROVE Withers(s)
  <2>1. PICK r \in Session : r = sess[s]
    BY <1>0 DEF VncTypes
  <2>2. PICK v \in {"no", "ok", "error"} : v = IF r.ready = "no" THEN "ok" ELSE r.ready
    BY DEF Session
  <2> DEFINE b == [r EXCEPT !.st = "ready"]
             c == [r EXCEPT !.st = "ready", !.ready = v]
  <2>3. /\ b \in Session /\ b.st = "ready" /\ b.browser = r.browser /\ b.device = r.device
        /\ b.pumps = r.pumps /\ r.pumps \in Nat
    BY DEF Session, Status
  <2>4. c = [b EXCEPT !.ready = v]
    OBVIOUS
  <2> HIDE DEF b
  <2>5. /\ c \in Session /\ c.st = "ready" /\ c.browser = r.browser /\ c.device = r.device
        /\ c.pumps = r.pumps /\ r.pumps \in Nat
    BY <2>3, <2>4 DEF Session
  <2>6. /\ sess' = [sess EXCEPT ![s] = c]
        /\ revived' = IF sess[s].st = "closed" THEN revived \cup {s} ELSE revived
    BY <1>5, <2>1, <2>2 DEF MarkReady
  <2> HIDE DEF c
  <2>7. /\ sess' \in [Sessions -> Session] /\ sess'[s] = c
        /\ \A t \in Sessions : t # s => sess'[t] = sess[t]
    BY <1>0, <2>5, <2>6 DEF VncTypes
  <2>8. s \in revived' \/ Alive(s)
    <3>1. sess[s].st \in Status \ {"none"}
      BY <1>3, <1>4, <2>1 DEF Session
    <3> QED
      BY <2>6, <3>1 DEF Alive, Status
  <2> QED
    BY <1>0, <1>1, <1>3, <1>4, <2>1, <2>5, <2>6, <2>7, <2>8 DEF VncTypes, Withers
<1>6. ASSUME MarkError(s) PROVE Withers(s)
  <2>1. PICK r \in Session : r = Closed(s)[s]
    BY <1>0, Closing DEF VncTypes
  <2> DEFINE c == [r EXCEPT !.ready = "error"]
  <2>2. /\ c \in Session /\ c.st = r.st /\ c.browser = r.browser /\ c.device = r.device
        /\ c.pumps = r.pumps /\ r.pumps \in Nat
    BY DEF Session
  <2>3. sess' = [Closed(s) EXCEPT ![s] = c] /\ UNCHANGED revived
    BY <1>6, <2>1 DEF MarkError
  <2> HIDE DEF c
  <2>4. /\ sess' \in [Sessions -> Session] /\ sess'[s] = c
        /\ \A t \in Sessions : t # s => sess'[t] = sess[t]
    BY <1>0, <2>2, <2>3, Closing DEF VncTypes
  <2>5. ~ Alive(s)'
    BY <1>0, <2>1, <2>2, <2>4, Closing DEF VncTypes, Alive
  <2> QED
    BY <1>0, <1>1, <2>1, <2>2, <2>3, <2>4, <2>5, Closing DEF VncTypes, Withers
<1>7. Withers(s)
  BY <1>1, <1>4, <1>5, <1>6, ClosingWithers
<1>8. VncTypes'
  BY <1>0, <1>1, <1>7 DEF VncTypes, Withers
<1>9. FramesKnown'
  BY <1>0, <1>1, <1>2, <1>7, RegistryWithers DEF FramesKnown
<1> QED
  BY <1>1, <1>7, <1>8, <1>9, RegistryWithers DEF VncInv

\* WaitReady, and the end of the job, leave the registry alone.
LEMMA WaitKeeps ==
  ASSUME VncInv, NEW o \in Opens, Wait(o)
  PROVE  VncInv'
<1>0. VncTypes /\ FramesKnown /\ RequestsKnown
  BY DEF VncInv
<1>1. /\ req[o].pc = "waiting"
      /\ \E p \in {"answered", "failed"} : req' = [req EXCEPT ![o].pc = p]
      /\ UNCHANGED <<job, sess, act, revived, bridge, stack, down, up>>
      /\ budget' = budget \/ (budget > 0 /\ budget' = budget - 1)
  BY DEF Wait, Happens, gateway, device
<1>2. PICK p \in {"answered", "failed"} : req' = [req EXCEPT ![o].pc = p]
  BY <1>1
<1>3. PICK r \in Request : r = req[o]
  BY <1>0 DEF VncTypes
<1> DEFINE c == [r EXCEPT !.pc = p]
<1>4. c \in Request /\ c.s = r.s /\ r.pc = "waiting" /\ req' = [req EXCEPT ![o] = c]
  BY <1>1, <1>2, <1>3 DEF Request
<1> HIDE DEF c
<1>5. /\ req' \in [Opens -> Request] /\ req'[o] = c
      /\ \A q \in Opens : q # o => req'[q] = req[q]
  BY <1>0, <1>4 DEF VncTypes
<1>6. RequestsKnown'
  BY <1>0, <1>1, <1>3, <1>4, <1>5 DEF RequestsKnown
<1>7. VncTypes'
  <2>1. budget' \in 0 .. MaxEvents
    BY <1>0, <1>1, VncRelayConstantsOK DEF VncTypes
  <2> QED
    BY <1>0, <1>1, <1>5, <2>1 DEF VncTypes
<1> QED
  BY <1>1, <1>6, <1>7 DEF VncInv, FramesKnown, Asks, Replies, BridgesKnown, FreshEmpty,
     BindersBound, PumpsBounded, BrowserDue, DeviceDue, PumpsHaveSockets, BinderOrPump,
     OneNotRevived, Alive, Both, Binding

LEMMA JobEndsKeeps ==
  ASSUME VncInv, JobEnds
  PROVE  VncInv'
<1>1. /\ job' = "over" /\ stack' = FALSE /\ budget > 0 /\ budget' = budget - 1
      /\ UNCHANGED <<sess, act, revived, req, bridge, down, up>>
  BY DEF JobEnds, Happens, gateway
<1>b. budget' \in 0 .. MaxEvents
  <2>1. budget \in 0 .. MaxEvents
    BY DEF VncInv, VncTypes
  <2> QED
    BY <1>1, <2>1, VncRelayConstantsOK
<1>t. VncTypes
  BY DEF VncInv
<1>2. VncTypes'
  BY <1>1, <1>b, <1>t DEF VncTypes
<1> QED
  BY <1>1, <1>2 DEF VncInv, FramesKnown, Asks, Replies, RequestsKnown, BridgesKnown, FreshEmpty,
     BindersBound, PumpsBounded, BrowserDue, DeviceDue, PumpsHaveSockets, BinderOrPump,
     OneNotRevived, Alive, Both, Binding

\* CreateSession: the sessions it may use are alive, or, when none is alive, new.
LEMMA Created ==
  ASSUME VncTypes, NEW s \in CreateSession
  PROVE  /\ s \in Sessions
         /\ \/ Alive(s)
            \/ sess[s].st = "none" /\ \A t \in Sessions : ~ Alive(t)
<1>1. CASE LiveSessions # {}
  BY <1>1 DEF CreateSession, LiveSessions
<1>2. CASE LiveSessions = {} /\ Fresh # {}
  <2>1. s = Min(Fresh)
    BY <1>2 DEF CreateSession
  <2>2. s \in Fresh
    BY <1>2, <2>1, FirstFresh
  <2> QED
    BY <1>2, <2>2 DEF Fresh, LiveSessions
<1> QED
  BY <1>1, <1>2 DEF CreateSession

LEMMA OpenKeeps ==
  ASSUME VncInv, NEW o \in Opens, Open(o)
  PROVE  VncInv'
<1>0. VncTypes /\ FramesKnown /\ RequestsKnown /\ BridgesKnown
  BY DEF VncInv
<1>1. PICK s \in CreateSession :
        /\ sess' = [sess EXCEPT ![s].token = o, ![s].st = IF @ = "none" THEN "pending" ELSE @]
        /\ req' = [req EXCEPT ![o] = [pc |-> "created", s |-> s]]
  BY DEF Open
<1>2. UNCHANGED <<job, act, revived, bridge, stack, down, up, budget>>
  BY DEF Open, device
<1>3. /\ s \in Sessions
      /\ \/ Alive(s)
         \/ sess[s].st = "none" /\ \A t \in Sessions : ~ Alive(t)
  BY <1>0, Created
<1>4. PICK r \in Session : r = sess[s]
  BY <1>0, <1>3 DEF VncTypes
<1>5. PICK x \in Status \ {"none", "closed"} : x = IF r.st = "none" THEN "pending" ELSE r.st
  BY <1>3, <1>4 DEF Alive, Status
<1> DEFINE c == [r EXCEPT !.token = o, !.st = x]
<1>6. /\ c \in Session /\ c.st = x /\ c.browser = r.browser /\ c.device = r.device
      /\ c.pumps = r.pumps
  BY <1>5 DEF Session
<1>7. sess' = [sess EXCEPT ![s] = c]
  BY <1>0, <1>1, <1>3, <1>4, <1>5 DEF VncTypes
<1> HIDE DEF c
<1>8. /\ sess' \in [Sessions -> Session] /\ sess'[s] = c
      /\ \A t \in Sessions : t # s => sess'[t] = sess[t]
  BY <1>0, <1>3, <1>6, <1>7 DEF VncTypes
<1>9. \A t \in Sessions : /\ sess[t].st # "none" => sess'[t].st # "none"
                          /\ sess'[t].browser = sess[t].browser
                          /\ sess'[t].device = sess[t].device
                          /\ sess'[t].pumps = sess[t].pumps
  BY <1>4, <1>5, <1>6, <1>8
<1>10. sess'[s].st # "none"
  BY <1>5, <1>6, <1>8
<1>11. VncTypes'
  <2>1. req' \in [Opens -> Request]
    BY <1>0, <1>1, <1>3 DEF VncTypes, Request
  <2> QED
    BY <1>0, <1>2, <1>8, <2>1 DEF VncTypes
<1>12. FramesKnown'
  BY <1>0, <1>2, <1>9, FramesStay DEF FramesKnown
<1>13. RequestsKnown'
  <2>1. req'[o].s = s /\ \A q \in Opens : q # o => req'[q] = req[q]
    BY <1>0, <1>1 DEF VncTypes
  <2> QED
    BY <1>0, <1>3, <1>9, <1>10, <2>1 DEF RequestsKnown
<1>14. BridgesKnown' /\ BindersBound'
  BY <1>0, <1>2, <1>9 DEF VncInv, BridgesKnown, BindersBound
<1>15. FreshEmpty'
  BY <1>8, <1>10 DEF VncInv, FreshEmpty
<1>16. PumpsBounded' /\ PumpsHaveSockets'
  BY <1>2, <1>9 DEF VncInv, PumpsBounded, BrowserDue, DeviceDue, PumpsHaveSockets, Both
<1>17. BinderOrPump'
  <2>1. \A t \in Sessions : Both(t)' /\ Alive(t)' => Both(t) /\ Alive(t)
    BY <1>3, <1>8, <1>9 DEF VncInv, Both, Alive, FreshEmpty
  <2> QED
    BY <1>2, <1>9, <2>1 DEF VncInv, BinderOrPump, Binding
<1>18. OneNotRevived'
  BY <1>2, <1>3, <1>8 DEF VncInv, OneNotRevived, Alive
<1> QED
  BY <1>11, <1>12, <1>13, <1>14, <1>15, <1>16, <1>17, <1>18 DEF VncInv

\* handleOpenVNC after CreateSession: the request answers, or asks the device.
LEMMA SendOpenKeeps ==
  ASSUME VncInv, NEW o \in Opens, SendOpen(o)
  PROVE  VncInv'
<1>0. VncTypes /\ FramesKnown /\ RequestsKnown
  BY DEF VncInv
<1>1. /\ req[o].pc = "created"
      /\ \E p \in {"waiting", "answered"} : req' = [req EXCEPT ![o].pc = p]
      /\ down' = down \/ down' = Append(down, [type |-> "open", s |-> req[o].s, token |-> o])
      /\ budget' = budget \/ (budget > 0 /\ budget' = budget - 1)
      /\ UNCHANGED <<job, sess, act, revived, bridge, stack, up>>
  BY DEF SendOpen, Happens, gateway, device
<1>2. PICK p \in {"waiting", "answered"} : req' = [req EXCEPT ![o].pc = p]
  BY <1>1
<1>3. PICK r \in Request : r = req[o]
  BY <1>0 DEF VncTypes
<1> DEFINE c == [r EXCEPT !.pc = p]
<1>4. c \in Request /\ c.s = r.s /\ r.pc = "created" /\ req' = [req EXCEPT ![o] = c]
  BY <1>1, <1>2, <1>3 DEF Request
<1> HIDE DEF c
<1>5. /\ req' \in [Opens -> Request] /\ req'[o] = c
      /\ \A q \in Opens : q # o => req'[q] = req[q]
  BY <1>0, <1>4 DEF VncTypes
<1>6. RequestsKnown'
  BY <1>0, <1>1, <1>3, <1>4, <1>5 DEF RequestsKnown
<1>7. VncTypes'
  <2>1. budget' \in 0 .. MaxEvents
    BY <1>0, <1>1, VncRelayConstantsOK DEF VncTypes
  <2> QED
    BY <1>0, <1>1, <1>5, <2>1 DEF VncTypes
<1>8. FramesKnown'
  <2>1. r.s \in Sessions /\ sess[r.s].st # "none"
    BY <1>0, <1>3, <1>4 DEF RequestsKnown
  <2>2. [type |-> "open", s |-> r.s, token |-> o] \in Asks
    BY <2>1 DEF Asks, Frame
  <2>3. down' \in Seq(Asks)
    BY <1>0, <1>1, <1>3, <2>2, QueueLine DEF FramesKnown
  <2> QED
    BY <1>0, <1>1, <2>3 DEF FramesKnown, Asks, Replies
<1> QED
  BY <1>1, <1>6, <1>7, <1>8 DEF VncInv, BridgesKnown, FreshEmpty,
     BindersBound, PumpsBounded, BrowserDue, DeviceDue, PumpsHaveSockets, BinderOrPump,
     OneNotRevived, Alive, Both, Binding

LEMMA BindBrowserKeeps ==
  ASSUME VncInv, NEW s \in Sessions, BindBrowser(s)
  PROVE  VncInv'
<1>0. VncTypes /\ FramesKnown /\ RequestsKnown /\ BridgesKnown
  BY DEF VncInv
<1>1. /\ sess' = [sess EXCEPT ![s].browser = "open"] /\ act' = act \cup {<<s, "browser">>}
      /\ sess[s].browser = "none" /\ sess[s].st # "none"
      /\ UNCHANGED <<job, revived, req, bridge, stack, down, up, budget>>
  BY <1>0 DEF BindBrowser, Known, RequestsKnown, device
<1>2. PICK r \in Session : r = sess[s]
  BY <1>0 DEF VncTypes
<1> DEFINE c == [r EXCEPT !.browser = "open"]
<1>3. /\ c \in Session /\ c.st = r.st /\ c.browser = "open" /\ c.device = r.device
      /\ c.pumps = r.pumps /\ sess' = [sess EXCEPT ![s] = c]
  BY <1>1, <1>2 DEF Session, Socket
<1> HIDE DEF c
<1>4. /\ sess' \in [Sessions -> Session] /\ sess'[s] = c
      /\ \A t \in Sessions : t # s => sess'[t] = sess[t]
  BY <1>0, <1>3 DEF VncTypes
<1>5. \A t \in Sessions : /\ sess'[t].st = sess[t].st
                          /\ sess'[t].device = sess[t].device
                          /\ sess'[t].pumps = sess[t].pumps
                          /\ t # s => sess'[t].browser = sess[t].browser
  BY <1>2, <1>3, <1>4
<1>6. sess'[s].browser = "open"
  BY <1>3, <1>4
<1>7. \A t \in Sessions : /\ <<t, "device">> \in act' <=> <<t, "device">> \in act
                          /\ t # s => (<<t, "browser">> \in act' <=> <<t, "browser">> \in act)
                          /\ <<s, "browser">> \in act'
  BY <1>1
<1>8. VncTypes'
  <2>1. act' \subseteq Sessions \X {"browser", "device"}
    BY <1>0, <1>1 DEF VncTypes
  <2> QED
    BY <1>0, <1>1, <1>4, <2>1 DEF VncTypes
<1>9. FramesKnown'
  BY <1>0, <1>1, <1>5, FramesStay DEF FramesKnown
<1>10. RequestsKnown' /\ BridgesKnown'
  BY <1>0, <1>1, <1>5 DEF RequestsKnown, BridgesKnown
<1>11. FreshEmpty' /\ BindersBound'
  BY <1>1, <1>5, <1>6, <1>7 DEF VncInv, FreshEmpty, BindersBound
<1>12. PumpsBounded'
  <2>1. \A t \in Sessions : BrowserDue(t)' = BrowserDue(t) /\ DeviceDue(t)' = DeviceDue(t)
    BY <1>1, <1>5, <1>7 DEF BrowserDue, DeviceDue
  <2> QED
    BY <1>5, <2>1 DEF VncInv, PumpsBounded
<1>13. BinderOrPump'
  <2>1. \A t \in Sessions : t # s => (Both(t)' <=> Both(t)) /\ (Binding(t)' <=> Binding(t))
    BY <1>5, <1>7 DEF Both, Binding
  <2>2. Binding(s)'
    BY <1>7 DEF Binding
  <2> QED
    BY <1>1, <1>5, <2>1, <2>2 DEF VncInv, BinderOrPump, Alive
<1>14. OneNotRevived'
  BY <1>1, <1>5 DEF VncInv, OneNotRevived, Alive
<1>15. PumpsHaveSockets'
  BY <1>1, <1>5, <1>6 DEF VncInv, PumpsHaveSockets, Both
<1> QED
  BY <1>8, <1>9, <1>10, <1>11, <1>12, <1>13, <1>14, <1>15 DEF VncInv

\* Each binder that looks finds both sockets or leaves it to the other one.
LEMMA MaybeActivateKeeps ==
  ASSUME VncInv, NEW s \in Sessions, NEW side \in {"browser", "device"}, MaybeActivate(s, side)
  PROVE  VncInv'
<1>0. /\ VncTypes /\ FramesKnown /\ RequestsKnown /\ BridgesKnown /\ FreshEmpty
      /\ BindersBound /\ PumpsBounded /\ PumpsHaveSockets /\ BinderOrPump /\ OneNotRevived
  BY DEF VncInv
<1>1. /\ <<s, side>> \in act /\ act' = act \ {<<s, side>>}
      /\ UNCHANGED <<job, req, bridge, stack, down, up, budget>>
  BY DEF MaybeActivate, device
<1>2. \A t \in Sessions, x \in {"browser", "device"} :
        /\ t # s \/ x # side => (<<t, x>> \in act' <=> <<t, x>> \in act)
        /\ <<s, side>> \notin act'
  BY <1>1
<1>3. act' \subseteq Sessions \X {"browser", "device"}
  BY <1>0, <1>1 DEF VncTypes
<1>4. \A t \in Sessions : sess[t].pumps \in Nat /\ BrowserDue(t) \in Nat /\ DeviceDue(t) \in Nat
  BY <1>0 DEF VncTypes, Session, BrowserDue, DeviceDue
<1>5. CASE ~ Both(s)
  <2>1. UNCHANGED <<sess, revived>>
    BY <1>5 DEF MaybeActivate, Both
  <2>2. VncTypes' /\ FramesKnown' /\ RequestsKnown' /\ BridgesKnown' /\ FreshEmpty'
        /\ PumpsHaveSockets' /\ OneNotRevived'
    BY <1>0, <1>1, <1>3, <2>1 DEF VncTypes, FramesKnown, Asks, Replies, RequestsKnown,
       BridgesKnown, FreshEmpty, PumpsHaveSockets, Both, OneNotRevived, Alive
  <2>3. BindersBound'
    BY <1>0, <1>1, <2>1 DEF BindersBound
  <2>4. PumpsBounded'
    <3>1. \A t \in Sessions : /\ BrowserDue(t)' \in Nat /\ BrowserDue(t)' =< BrowserDue(t)
                              /\ DeviceDue(t)' \in Nat /\ DeviceDue(t)' =< DeviceDue(t)
      BY <1>1, <2>1 DEF BrowserDue, DeviceDue
    <3> QED
      BY <1>0, <1>4, <2>1, <3>1 DEF PumpsBounded
  <2>5. BinderOrPump'
    <3>1. \A t \in Sessions : t # s => (Binding(t)' <=> Binding(t))
      BY <1>2 DEF Binding
    <3> QED
      BY <1>0, <1>5, <2>1, <3>1 DEF BinderOrPump, Both, Alive
  <2> QED
    BY <2>2, <2>3, <2>4, <2>5 DEF VncInv
<1>6. CASE Both(s)
  <2>1. PICK r \in Session : r = sess[s]
    BY <1>0 DEF VncTypes
  <2>2. r.pumps \in 0 .. 2
    <3>1. BrowserDue(s) = 2 \/ DeviceDue(s) = 2
      BY <1>1 DEF BrowserDue, DeviceDue
    <3> QED
      BY <1>0, <1>4, <2>1, <3>1 DEF PumpsBounded
  <2> DEFINE b == [r EXCEPT !.st = "active"]
             c == [r EXCEPT !.st = "active", !.pumps = r.pumps + 2]
  <2>3. /\ b \in Session /\ b.st = "active" /\ b.browser = r.browser /\ b.device = r.device
        /\ b.pumps = r.pumps
    BY DEF Session, Status
  <2>4. c = [b EXCEPT !.pumps = r.pumps + 2]
    OBVIOUS
  <2> HIDE DEF b
  <2>5. /\ c \in Session /\ c.st = "active" /\ c.browser = r.browser /\ c.device = r.device
        /\ c.pumps = r.pumps + 2
    BY <2>2, <2>3, <2>4 DEF Session
  <2>6. /\ sess' = [sess EXCEPT ![s] = c]
        /\ revived' = IF sess[s].st = "closed" THEN revived \cup {s} ELSE revived
    BY <1>6, <2>1 DEF MaybeActivate, Both
  <2> HIDE DEF c
  <2>7. /\ sess' \in [Sessions -> Session] /\ sess'[s] = c
        /\ \A t \in Sessions : t # s => sess'[t] = sess[t]
    BY <1>0, <2>5, <2>6 DEF VncTypes
  <2>8. \A t \in Sessions : /\ sess[t].st # "none" <=> sess'[t].st # "none"
                            /\ sess'[t].browser = sess[t].browser
                            /\ sess'[t].device = sess[t].device
    <3>1. sess[s].st # "none"
      BY <1>0, <1>6 DEF FreshEmpty, Both
    <3> QED
      BY <2>1, <2>5, <2>7, <3>1
  <2>9. VncTypes'
    BY <1>0, <1>1, <1>3, <2>6, <2>7 DEF VncTypes
  <2>10. FramesKnown'
    BY <1>0, <1>1, <2>8, FramesStay DEF FramesKnown
  <2>11. RequestsKnown' /\ BridgesKnown'
    BY <1>0, <1>1, <2>8 DEF RequestsKnown, BridgesKnown
  <2>12. FreshEmpty' /\ BindersBound'
    BY <1>0, <1>1, <2>8 DEF FreshEmpty, BindersBound
  <2>13. PumpsBounded'
    <3>1. \A t \in Sessions : /\ BrowserDue(t)' \in Nat /\ BrowserDue(t)' =< BrowserDue(t)
                              /\ DeviceDue(t)' \in Nat /\ DeviceDue(t)' =< DeviceDue(t)
      BY <1>1, <2>8 DEF BrowserDue, DeviceDue
    <3>2. \A t \in Sessions : t # s => sess'[t].pumps = sess[t].pumps
      BY <2>7
    <3>3. sess'[s].pumps = sess[s].pumps + 2
      BY <2>1, <2>5, <2>7
    <3>4. BrowserDue(s)' + DeviceDue(s)' + 2 =< BrowserDue(s) + DeviceDue(s)
      <4>1. CASE side = "browser"
        <5>1. BrowserDue(s) = 2 /\ BrowserDue(s)' = 0
          BY <1>1, <1>2, <1>6, <2>8, <4>1 DEF BrowserDue, Both
        <5> QED
          BY <1>4, <3>1, <5>1
      <4>2. CASE side = "device"
        <5>1. DeviceDue(s) = 2 /\ DeviceDue(s)' = 0
          BY <1>1, <1>2, <1>6, <2>8, <4>2 DEF DeviceDue, Both
        <5> QED
          BY <1>4, <3>1, <5>1
      <4> QED
        BY <4>1, <4>2
    <3>5. \A t \in Sessions : sess'[t].pumps + BrowserDue(t)' + DeviceDue(t)'
                                =< sess[t].pumps + BrowserDue(t) + DeviceDue(t)
      BY <1>4, <3>1, <3>2, <3>3, <3>4
    <3>6. \A t \in Sessions : sess'[t].pumps \in Nat
      BY <2>7 DEF Session
    <3> QED
      BY <1>0, <1>4, <3>1, <3>5, <3>6 DEF PumpsBounded
  <2>14. BinderOrPump'
    <3>1. \A t \in Sessions : t # s => (Binding(t)' <=> Binding(t))
      BY <1>2 DEF Binding
    <3>2. sess'[s].pumps > 0
      BY <2>2, <2>5, <2>7
    <3> QED
      BY <1>0, <2>6, <2>7, <3>1, <3>2 DEF BinderOrPump, Both, Alive
  <2>15. OneNotRevived'
    <3>1. \A t \in Sessions \ revived' : t \in Sessions \ revived /\ (Alive(t)' => Alive(t))
      <4>1. sess[s].st \in {"pending", "ready", "active"} \/ s \in revived'
        BY <1>0, <1>6, <2>6 DEF VncTypes, Session, Status, FreshEmpty, Both
      <4> QED
        BY <2>6, <2>7, <4>1 DEF Alive
    <3> QED
      BY <1>0, <3>1 DEF OneNotRevived
  <2>16. PumpsHaveSockets'
    BY <1>0, <1>6, <2>7, <2>8 DEF PumpsHaveSockets, Both
  <2> QED
    BY <2>9, <2>10, <2>11, <2>12, <2>13, <2>14, <2>15, <2>16 DEF VncInv
<1> QED
  BY <1>5, <1>6

-----------------------------------------------------------------------------
(* VNC sessions: the device's side                                         *)

\* the end of _bridge's try statement, whatever ended it
LEMMA LeavesKeeps ==
  ASSUME VncInv, NEW s \in Sessions, NEW pc \in {"stopping", "cancelled"}, Leaves(s, pc),
         bridge[s].pc \in {"dialing", "up"},
         UNCHANGED <<job, act, revived, req, stack, up, budget>>,
         down' = down \/ (down # << >> /\ down' = Tail(down))
  PROVE  VncInv'
<1>0. VncTypes /\ FramesKnown /\ RequestsKnown /\ BridgesKnown
  BY DEF VncInv
<1>1. /\ bridge' = [bridge EXCEPT ![s].pc = pc]
      /\ sess' = [sess EXCEPT ![s].device = IF bridge[s].pc = "up" THEN Shut(@) ELSE @]
  BY DEF Leaves
<1>2. PICK r \in Session : r = sess[s]
  BY <1>0 DEF VncTypes
<1>3. PICK x \in Socket : x = IF bridge[s].pc = "up" THEN Shut(r.device) ELSE r.device
  BY DEF Shut, Session, Socket
<1>4. /\ x = "none" <=> r.device = "none"
      /\ x # "open"
  BY <1>0, <1>2, <1>3 DEF Shut, BridgesKnown
<1> DEFINE c == [r EXCEPT !.device = x]
<1>5. /\ c \in Session /\ c.st = r.st /\ c.browser = r.browser /\ c.device = x
      /\ c.pumps = r.pumps /\ r.pumps \in Nat
  BY <1>3 DEF Session
<1>6. sess' = [sess EXCEPT ![s] = c]
  BY <1>0, <1>1, <1>2, <1>3 DEF VncTypes
<1> HIDE DEF c
<1>7. /\ sess' \in [Sessions -> Session] /\ sess'[s] = c
      /\ \A t \in Sessions : t # s => sess'[t] = sess[t]
  BY <1>0, <1>5, <1>6 DEF VncTypes
<1>8. Withers(s)
  <2>1. Alive(s)' => Alive(s)
    BY <1>2, <1>5, <1>7 DEF Alive
  <2> QED
    BY <1>0, <1>2, <1>4, <1>5, <1>7, <2>1 DEF VncTypes, Withers
<1>9. PICK b \in Bridge : b = bridge[s]
  BY <1>0 DEF VncTypes
<1> DEFINE e == [b EXCEPT !.pc = pc]
<1>10. e \in Bridge /\ e.pc = pc /\ bridge' = [bridge EXCEPT ![s] = e]
  BY <1>0, <1>1, <1>9 DEF VncTypes, Bridge
<1> HIDE DEF e
<1>11. /\ bridge' \in [Sessions -> Bridge] /\ bridge'[s].pc \in Dialed \ {"up"}
       /\ \A t \in Sessions : t # s => bridge'[t] = bridge[t]
  BY <1>0, <1>10 DEF VncTypes, Dialed
<1>12. VncTypes'
  BY <1>0, <1>7, <1>11 DEF VncTypes
<1>13. FramesKnown'
  <2>1. down' \in Seq(Asks) /\ up' \in Seq(Replies)
    BY <1>0, QueueLine DEF FramesKnown
  <2> QED
    BY <1>8, <2>1, RegistryWithers DEF FramesKnown
<1>14. BridgesKnown'
  BY <1>0, <1>4, <1>5, <1>7, <1>8, <1>11 DEF BridgesKnown, Withers, Dialed
<1> QED
  BY <1>8, <1>12, <1>13, <1>14, RegistryWithers DEF VncInv

LEMMA DropsKeeps ==
  ASSUME VncInv, NEW s \in Sessions, Drops(s)
  PROVE  VncInv'
BY LeavesKeeps DEF Drops

\* Steps of the device that leave the registry alone.
LEMMA DeviceStepKeeps ==
  ASSUME VncInv, UNCHANGED <<job, sess, act, revived, req>>,
         bridge' \in [Sessions -> Bridge],
         \A t \in Sessions :
           \/ bridge'[t] = bridge[t]
           \/ /\ sess[t].st # "none" /\ bridge[t].pc # "up"
              /\ bridge[t].pc \in Dialed => bridge'[t].pc \in Dialed,
         stack' \in BOOLEAN, budget' \in 0 .. MaxEvents,
         down' \in Seq(Asks), up' \in Seq(Replies)
  PROVE  VncInv'
<1>1. VncTypes' /\ FramesKnown'
  BY DEF VncInv, VncTypes, FramesKnown, Asks, Replies
<1>2. BridgesKnown'
  BY DEF VncInv, BridgesKnown
<1> QED
  BY <1>1, <1>2 DEF VncInv, RequestsKnown, FreshEmpty, BindersBound, PumpsBounded, BrowserDue,
     DeviceDue, PumpsHaveSockets, BinderOrPump, OneNotRevived, Alive, Both, Binding

\* One bridge that is there and not up takes a step that concerns no socket.
LEMMA BridgeMoves ==
  ASSUME VncInv, NEW s \in Sessions,
         NEW p \in {"created", "dialing", "ended", "lost"},
         bridge' = [bridge EXCEPT ![s].pc = p],
         bridge[s].pc \notin {"none", "up"}, bridge[s].pc \in Dialed => p \in Dialed,
         UNCHANGED <<job, sess, act, revived, req>>,
         stack' \in BOOLEAN, budget' = budget \/ (budget > 0 /\ budget' = budget - 1),
         down' \in Seq(Asks), up' \in Seq(Replies)
  PROVE  VncInv'
<1>0. VncTypes /\ BridgesKnown
  BY DEF VncInv
<1>1. PICK b \in Bridge : b = bridge[s]
  BY <1>0 DEF VncTypes
<1> DEFINE e == [b EXCEPT !.pc = p]
<1>2. e \in Bridge /\ e.pc = p /\ bridge' = [bridge EXCEPT ![s] = e]
  BY <1>1 DEF Bridge
<1> HIDE DEF e
<1>3. /\ bridge' \in [Sessions -> Bridge] /\ bridge'[s].pc = p
      /\ \A t \in Sessions : t # s => bridge'[t] = bridge[t]
  BY <1>0, <1>2 DEF VncTypes
<1>4. budget' \in 0 .. MaxEvents
  BY <1>0, VncRelayConstantsOK DEF VncTypes
<1>5. sess[s].st # "none"
  BY <1>0 DEF BridgesKnown
<1> QED
  BY <1>3, <1>4, <1>5, DeviceStepKeeps

LEMMA DeviceReadsKeeps ==
  ASSUME VncInv, DeviceReads
  PROVE  VncInv'
<1>0. VncTypes /\ FramesKnown /\ BridgesKnown
  BY DEF VncInv
<1> DEFINE f == Head(down)
<1>1. /\ down # << >> /\ down' = Tail(down) /\ UNCHANGED <<job, act, revived, req, up, budget>>
      /\ \/ /\ f.type = "open"
            /\ bridge' = IF bridge[f.s].pc # "none" THEN bridge
                         ELSE [bridge EXCEPT ![f.s] = [pc |-> "starting", token |-> f.token]]
            /\ UNCHANGED <<sess, stack>>
         \/ f.type = "close" /\ Cancels(f.s)
  BY DEF DeviceReads
<1>2. f \in Asks /\ Tail(down) \in Seq(Asks)
  BY <1>0, <1>1, QueueLine DEF FramesKnown
<1>3. /\ f.s \in Sessions /\ sess[f.s].st # "none"
      /\ f.type = "open" => f.token \in Opens
  BY <1>2 DEF Asks, Frame
<1> HIDE DEF f
<1>4. PICK s \in Sessions : s = f.s
  BY <1>3
<1>5. CASE Cancels(s)
  <2>1. CASE Leaves(s, "cancelled") /\ bridge[s].pc \in {"dialing", "up"} /\ UNCHANGED stack
    BY <1>1, <2>1, LeavesKeeps
  <2>2. CASE /\ bridge[s].pc \in {"created", "stopping"} /\ bridge' = [bridge EXCEPT ![s].pc = "lost"]
             /\ stack' \in {stack, FALSE} /\ UNCHANGED sess
    <3>1. stack' \in BOOLEAN /\ down' \in Seq(Asks) /\ up' \in Seq(Replies)
      BY <1>0, <1>1, <1>2, <2>2 DEF VncTypes, FramesKnown
    <3> QED
      BY <1>1, <2>2, <3>1, BridgeMoves DEF Dialed
  <2>3. CASE UNCHANGED <<bridge, sess, stack>>
    BY <1>0, <1>1, <1>2, <2>3, DeviceStepKeeps DEF VncTypes, FramesKnown
  <2> QED
    BY <1>5, <2>1, <2>2, <2>3 DEF Cancels
<1>6. CASE /\ f.type = "open"
           /\ bridge' = IF bridge[s].pc # "none" THEN bridge
                        ELSE [bridge EXCEPT ![s] = [pc |-> "starting", token |-> f.token]]
           /\ UNCHANGED <<sess, stack>>
  <2>1. [pc |-> "starting", token |-> f.token] \in Bridge
    BY <1>3, <1>6 DEF Bridge
  <2>2. bridge' \in [Sessions -> Bridge]
    BY <1>0, <1>6, <2>1 DEF VncTypes
  <2>3. \A t \in Sessions : \/ bridge'[t] = bridge[t]
                            \/ sess[t].st # "none" /\ bridge[t].pc = "none"
    BY <1>0, <1>3, <1>4, <1>6 DEF VncTypes
  <2> QED
    BY <1>0, <1>1, <1>2, <1>6, <2>2, <2>3, DeviceStepKeeps DEF VncTypes, FramesKnown, Dialed
<1> QED
  BY <1>1, <1>4, <1>5, <1>6

\* handle_vnc_open, with or without the agent's stack
LEMMA StartsKeeps ==
  ASSUME VncInv, NEW s \in Sessions, Starts(s)
  PROVE  VncInv'
<1>0. VncTypes /\ FramesKnown /\ BridgesKnown
  BY DEF VncInv
<1>1. /\ bridge[s].pc = "starting" /\ UNCHANGED <<job, sess, act, revived, req, down>>
      /\ \E p \in {"created", "ended"} : bridge' = [bridge EXCEPT ![s].pc = p]
      /\ stack' \in BOOLEAN
      /\ budget' = budget \/ (budget > 0 /\ budget' = budget - 1)
      /\ \/ up' = Append(up, [type |-> "ready", s |-> s])
         \/ up' = up
         \/ up' = Append(up, [type |-> "error", s |-> s])
         \/ up' = up \o <<[type |-> "ready", s |-> s], [type |-> "error", s |-> s]>>
  BY <1>0 DEF Starts, Happens, gateway, VncTypes
<1>2. /\ [type |-> "ready", s |-> s] \in Replies
      /\ [type |-> "error", s |-> s] \in Replies
  BY <1>0, <1>1 DEF Replies, Answer, BridgesKnown
<1>3. up' \in Seq(Replies)
  <2>1. up \in Seq(Replies)
    BY <1>0 DEF FramesKnown
  <2>2. /\ Append(up, [type |-> "ready", s |-> s]) \in Seq(Replies)
        /\ Append(up, [type |-> "error", s |-> s]) \in Seq(Replies)
    BY <1>2, <2>1, QueueLine
  <2>3. up \o <<[type |-> "ready", s |-> s], [type |-> "error", s |-> s]>> \in Seq(Replies)
    BY <1>2, <2>1, QueueLine
  <2> QED
    BY <1>1, <2>1, <2>2, <2>3
<1>4. PICK p \in {"created", "ended"} : bridge' = [bridge EXCEPT ![s].pc = p]
  BY <1>1
<1> QED
  BY <1>0, <1>1, <1>3, <1>4, BridgeMoves DEF FramesKnown, Dialed

\* the first step of the task
LEMMA BeginsKeeps ==
  ASSUME VncInv, NEW s \in Sessions, Begins(s)
  PROVE  VncInv'
<1>1. /\ bridge[s].pc = "created" /\ bridge' = [bridge EXCEPT ![s].pc = "dialing"]
      /\ UNCHANGED <<job, sess, act, revived, req, stack, down, up, budget>>
  BY DEF Begins, gateway
<1>2. stack' \in BOOLEAN /\ down' \in Seq(Asks) /\ up' \in Seq(Replies)
  BY <1>1 DEF VncInv, VncTypes, FramesKnown
<1> QED
  BY <1>1, <1>2, BridgeMoves DEF Dialed

\* _bridge's finally block, whether vnc_stop gets through or not
LEMMA StopsKeeps ==
  ASSUME VncInv, NEW s \in Sessions, Stops(s)
  PROVE  VncInv'
<1>0. VncTypes /\ FramesKnown /\ BridgesKnown
  BY DEF VncInv
<1>1. /\ bridge[s].pc \in {"stopping", "cancelled"}
      /\ \E p \in {"ended", "lost"} : bridge' = [bridge EXCEPT ![s].pc = p]
      /\ UNCHANGED <<job, sess, act, revived, req, down>>
      /\ stack' \in BOOLEAN
      /\ budget' = budget \/ (budget > 0 /\ budget' = budget - 1)
      /\ up' = up \/ up' = Append(up, [type |-> "close", s |-> s])
  BY <1>0 DEF Stops, Happens, gateway, VncTypes
<1>2. [type |-> "close", s |-> s] \in Replies
  BY <1>0, <1>1 DEF Replies, Answer, BridgesKnown
<1>3. down' \in Seq(Asks) /\ up' \in Seq(Replies)
  BY <1>0, <1>1, <1>2, QueueLine DEF FramesKnown
<1>4. PICK p \in {"ended", "lost"} : bridge' = [bridge EXCEPT ![s].pc = p]
  BY <1>1
<1> QED
  BY <1>1, <1>3, <1>4, BridgeMoves DEF Dialed

\* BindDevice, or the refusal that ends the bridge
LEMMA DialsKeeps ==
  ASSUME VncInv, NEW s \in Sessions, Dials(s)
  PROVE  VncInv'
<1>0. VncTypes /\ FramesKnown /\ RequestsKnown /\ BridgesKnown
  BY DEF VncInv
<1>1. CASE ~ Accepts(s, bridge[s].token)
  BY <1>1, LeavesKeeps DEF Dials
<1>2. CASE Accepts(s, bridge[s].token)
  <2>1. /\ bridge[s].pc = "dialing" /\ bridge' = [bridge EXCEPT ![s].pc = "up"]
        /\ sess' = [sess EXCEPT ![s].device = "open"] /\ act' = act \cup {<<s, "device">>}
        /\ sess[s].device = "none"
        /\ UNCHANGED <<job, revived, req, stack, down, up, budget>>
    BY <1>2 DEF Dials, Accepts
  <2>2. sess[s].st # "none"
    BY <1>0, <2>1 DEF BridgesKnown
  <2>3. PICK r \in Session : r = sess[s]
    BY <1>0 DEF VncTypes
  <2> DEFINE c == [r EXCEPT !.device = "open"]
  <2>4. /\ c \in Session /\ c.st = r.st /\ c.device = "open" /\ c.browser = r.browser
        /\ c.pumps = r.pumps /\ sess' = [sess EXCEPT ![s] = c]
    BY <2>1, <2>3 DEF Session, Socket
  <2> HIDE DEF c
  <2>5. /\ sess' \in [Sessions -> Session] /\ sess'[s] = c
        /\ \A t \in Sessions : t # s => sess'[t] = sess[t]
    BY <1>0, <2>4 DEF VncTypes
  <2>6. \A t \in Sessions : /\ sess'[t].st = sess[t].st
                            /\ sess'[t].browser = sess[t].browser
                            /\ sess'[t].pumps = sess[t].pumps
                            /\ t # s => sess'[t].device = sess[t].device
    BY <2>3, <2>4, <2>5
  <2>7. sess'[s].device = "open"
    BY <2>4, <2>5
  <2>8. \A t \in Sessions : /\ <<t, "browser">> \in act' <=> <<t, "browser">> \in act
                            /\ t # s => (<<t, "device">> \in act' <=> <<t, "device">> \in act)
                            /\ <<s, "device">> \in act'
    BY <2>1
  <2>9. PICK b \in Bridge : b = bridge[s]
    BY <1>0 DEF VncTypes
  <2>10. [b EXCEPT !.pc = "up"] \in Bridge /\ bridge' = [bridge EXCEPT ![s] = [b EXCEPT !.pc = "up"]]
    BY <2>1, <2>9 DEF Bridge
  <2>11. /\ bridge' \in [Sessions -> Bridge] /\ bridge'[s].pc = "up"
         /\ \A t \in Sessions : t # s => bridge'[t] = bridge[t]
    BY <1>0, <2>9, <2>10 DEF VncTypes, Bridge
  <2>12. VncTypes'
    <3>1. act' \subseteq Sessions \X {"browser", "device"}
      BY <1>0, <2>1 DEF VncTypes
    <3> QED
      BY <1>0, <2>1, <2>5, <2>11, <3>1 DEF VncTypes
  <2>13. FramesKnown'
    BY <1>0, <2>1, <2>6, FramesStay DEF FramesKnown
  <2>14. RequestsKnown' /\ BridgesKnown'
    BY <1>0, <2>1, <2>2, <2>6, <2>7, <2>11 DEF RequestsKnown, BridgesKnown, Dialed
  <2>15. FreshEmpty' /\ BindersBound'
    BY <2>2, <2>6, <2>7, <2>8 DEF VncInv, FreshEmpty, BindersBound
  <2>16. PumpsBounded'
    <3>1. \A t \in Sessions : BrowserDue(t)' = BrowserDue(t) /\ DeviceDue(t)' = DeviceDue(t)
      BY <2>1, <2>6, <2>8 DEF BrowserDue, DeviceDue
    <3> QED
      BY <2>6, <3>1 DEF VncInv, PumpsBounded
  <2>17. BinderOrPump'
    <3>1. \A t \in Sessions : t # s => (Both(t)' <=> Both(t)) /\ (Binding(t)' <=> Binding(t))
      BY <2>6, <2>8 DEF Both, Binding
    <3>2. Binding(s)'
      BY <2>8 DEF Binding
    <3> QED
      BY <2>1, <2>6, <3>1, <3>2 DEF VncInv, BinderOrPump, Alive
  <2>18. OneNotRevived'
    BY <2>1, <2>6 DEF VncInv, OneNotRevived, Alive
  <2>19. PumpsHaveSockets'
    BY <2>1, <2>6, <2>7 DEF VncInv, PumpsHaveSockets, Both
  <2> QED
    BY <2>12, <2>13, <2>14, <2>15, <2>16, <2>17, <2>18, <2>19 DEF VncInv
<1> QED
  BY <1>1, <1>2

-----------------------------------------------------------------------------
(* VNC sessions: the theorems                                              *)

LEMMA VncStep ==
  ASSUME VncInv, [VncNext]_vncVars
  PROVE  VncInv'
<1>1. ASSUME NEW o \in Opens, Open(o) \/ SendOpen(o) \/ Wait(o)
      PROVE  VncInv'
  BY <1>1, OpenKeeps, SendOpenKeeps, WaitKeeps
<1>2. ASSUME NEW s \in Sessions,
             \/ UserClose(s) \/ BindBrowser(s) \/ BrowserLeaves(s) \/ PumpEnds(s) \/ Reap(s)
             \/ BridgeSteps(s)
      PROVE  VncInv'
  BY <1>2, UserCloseKeeps, BindBrowserKeeps, BrowserLeavesKeeps, PumpEndsKeeps, ReapKeeps,
     StartsKeeps, BeginsKeeps, DialsKeeps, DropsKeeps, StopsKeeps DEF BridgeSteps
<1>3. ASSUME NEW s \in Sessions, NEW side \in {"browser", "device"}, MaybeActivate(s, side)
      PROVE  VncInv'
  BY <1>3, MaybeActivateKeeps
<1>4. CASE Receive \/ JobEnds \/ DeviceReads
  BY <1>4, ReceiveKeeps, JobEndsKeeps, DeviceReadsKeeps
<1>5. CASE UNCHANGED vncVars
  BY <1>5, VncStutter
<1> QED
  BY <1>1, <1>2, <1>3, <1>4, <1>5 DEF VncNext

\* Everything the registry, the requests, the bridges and the frames promise
\* each other, for any number of sessions, requests and events.
THEOREM VncInvariant == VncSpec => []VncInv
<1>1. VncInv /\ [VncNext]_vncVars => VncInv'
  BY VncStep
<1> QED
  BY VncStart, <1>1, PTL DEF VncSpec

\* The registry is well formed, and a session that is alive with a dead socket
\* has a pump, or a binder about to start one, that closes it (pump's deferred
\* CloseSession, maybeActivate), unless it was closed before and revived.
THEOREM VncRegistryIsSound == VncSpec => []RegistrySound
<1>1. VncInv => RegistrySound
  <2> SUFFICES ASSUME VncInv
               PROVE  RegistrySound
    OBVIOUS
  <2>1. down \in Seq(Asks) /\ up \in Seq(Replies)
    BY DEF VncInv, FramesKnown
  <2>2. (\A i \in DOMAIN down : down[i] \in Asks) /\ \A i \in DOMAIN up : up[i] \in Replies
    BY <2>1, ElementOfSeq, LenProperties
  <2>3. VncTypeOK
    BY <2>2 DEF VncInv, VncTypes, VncTypeOK, Asks, Replies
  <2>4. DeadSocketNoticed
    BY DEF VncInv, BinderOrPump, Both, Binding, DeadSocketNoticed
  <2> QED
    BY <2>3, <2>4 DEF RegistrySound
<1> QED
  BY VncInvariant, <1>1, PTL

\* A job has at most one session that is not closed and was never revived,
\* however often it is opened, closed and reaped (CreateSession): while nothing
\* has been revived, it has at most one session that is not closed.
THEOREM JobHasOneSession == VncSpec => [](OneSessionPerJob /\ OneNotRevived)
<1>1. VncInv => OneSessionPerJob /\ OneNotRevived
  <2> SUFFICES ASSUME VncInv, revived = {}
               PROVE  Cardinality(LiveSessions) =< 1
    BY DEF VncInv, OneSessionPerJob
  <2>1. \A s, t \in LiveSessions : s = t
    BY DEF VncInv, OneNotRevived, LiveSessions
  <2>2. CASE LiveSessions = {}
    <3>1. Cardinality({}) = 0
      BY FS_EmptySet, Zenon
    <3> QED
      BY <2>2, <3>1
  <2>3. CASE LiveSessions # {}
    <3>1. PICK s \in LiveSessions : LiveSessions = {s}
      BY <2>1, <2>3
    <3>2. Cardinality({s}) = 1
      BY FS_Singleton, Zenon
    <3> QED
      BY <3>1, <3>2
  <2> QED
    BY <2>2, <2>3
<1> QED
  BY VncInvariant, <1>1, PTL

\* A session never has more than the four pumps of its two binders, and a pump
\* never runs before both sockets are there (maybeActivate starts two pumps for
\* every binder that finds both).
PumpsOfBinders ==
    \A s \in Sessions : sess[s].pumps =< 4 /\ (sess[s].pumps > 0 => Both(s))

\* The device holds a relay socket open only while its bridge is up, so a bridge
\* that ended, or never dialed, leaks none (_bridge's finally block); and every
\* session a request, a binder or a bridge speaks of was made by CreateSession.
DeviceSocketHeld ==
    \A s \in Sessions : /\ sess[s].device = "open" => bridge[s].pc = "up"
                        /\ Known(s) \/ Binding(s) \/ bridge[s].pc # "none" => sess[s].st # "none"

\* For any number of sessions: pumps are at most four and have two sockets to copy
\* between, and an open device socket has its bridge (maybeActivate, _bridge).
THEOREM RelaySocketsHeld == VncSpec => [](PumpsOfBinders /\ DeviceSocketHeld)
<1>1. VncInv => PumpsOfBinders
  BY DEF VncInv, VncTypes, Session, PumpsHaveSockets, PumpsOfBinders
<1>2. VncInv => DeviceSocketHeld
  <2> SUFFICES ASSUME VncInv, NEW s \in Sessions
               PROVE  /\ sess[s].device = "open" => bridge[s].pc = "up"
                      /\ Known(s) \/ Binding(s) \/ bridge[s].pc # "none" => sess[s].st # "none"
    BY DEF DeviceSocketHeld
  <2>1. Known(s) => sess[s].st # "none"
    BY DEF VncInv, RequestsKnown, Known
  <2>2. Binding(s) => sess[s].st # "none"
    BY DEF VncInv, BindersBound, FreshEmpty, Binding
  <2> QED
    BY <2>1, <2>2 DEF VncInv, BridgesKnown
<1> QED
  BY VncInvariant, <1>1, <1>2, PTL

-----------------------------------------------------------------------------
(* VNC sessions: whose token it is                                         *)

\* the request o drew its token for session s
Drawn(o, s) == o \in Opens /\ req[o].pc # "new" /\ req[o].s = s

Tickets == {f \in Frame : f.type = "open" => Drawn(f.token, f.s)}

TokensDrawn ==
    \A s \in Sessions : /\ sess[s].token # 0 => Drawn(sess[s].token, s)
                        /\ bridge[s].pc # "none" => Drawn(bridge[s].token, s)

VncTokens == down \in Seq(Tickets) /\ TokensDrawn

\* A token is drawn for one session: the relay attaches a bridge to no other one
\* (BindDevice), and two sessions never have the same token (CreateSession).
TokenIsForOneSession ==
    \A s, t \in Sessions :
        /\ bridge[t].pc # "none" /\ Accepts(s, bridge[t].token) => s = t
        /\ sess[s].token # 0 /\ sess[s].token = sess[t].token => s = t

LEMMA TokenStart ==
  VncInit => VncTokens
BY DEF VncInit, VncTokens, TokensDrawn

\* a request that has a session keeps it
RequestsKept ==
    \A o \in Opens : req[o].pc # "new" => req'[o].pc # "new" /\ req'[o].s = req[o].s

\* Steps that draw no token and start no bridge: what was drawn stays so.
LEMMA TokensStay ==
  ASSUME VncTokens, RequestsKept,
         \A s \in Sessions : /\ sess'[s].token = sess[s].token
                             /\ bridge'[s].token = bridge[s].token
                             /\ bridge'[s].pc # "none" => bridge[s].pc # "none"
  PROVE  /\ Seq(Tickets) \subseteq Seq(Tickets')
         /\ down' \in Seq(Tickets) => VncTokens'
<1>1. Tickets \subseteq Tickets'
  <2>1. \A f \in Frame : f.s \in Sessions /\ (f.type = "open" => f.token \in Opens)
    BY DEF Frame
  <2> QED
    BY <2>1 DEF Tickets, Drawn, RequestsKept
<1>2. Seq(Tickets) \subseteq Seq(Tickets')
  BY <1>1, WiderQueue
<1>3. TokensDrawn'
  BY DEF VncTokens, TokensDrawn, Drawn, RequestsKept
<1> QED
  BY <1>2, <1>3 DEF VncTokens

\* CloseSession and the handlers keep the token.
LEMMA ClosingKeepsToken ==
  ASSUME sess \in [Sessions -> Session], NEW s \in Sessions
  PROVE  \A t \in Sessions : Closed(s)[t].token = sess[t].token
<1>1. PICK r \in Session : r = sess[s]
  OBVIOUS
<1> DEFINE c == [r EXCEPT !.st = "closed", !.browser = Shut(r.browser), !.device = Shut(r.device)]
<1>2. c.token = r.token
  BY DEF Session
<1>3. Alive(s) => Closed(s) = [sess EXCEPT ![s] = c]
  BY <1>1 DEF Closed
<1> HIDE DEF c
<1> QED
  BY <1>1, <1>2, <1>3 DEF Closed

\* a step of one bridge that is there
LEMMA MovingKeepsToken ==
  ASSUME VncTypes, NEW s \in Sessions, NEW p,
         bridge' = [bridge EXCEPT ![s].pc = p], bridge[s].pc # "none"
  PROVE  \A t \in Sessions : /\ bridge'[t].token = bridge[t].token
                             /\ bridge'[t].pc # "none" => bridge[t].pc # "none"
<1>1. \A t \in Sessions : bridge[t] \in Bridge
  BY DEF VncTypes
<1>2. \A t \in Sessions : bridge'[t].token = bridge[t].token
  BY <1>1 DEF VncTypes, Bridge
<1>3. \A t \in Sessions : t # s => bridge'[t] = bridge[t]
  BY DEF VncTypes
<1> QED
  BY <1>2, <1>3

LEMMA LeavesKeepsToken ==
  ASSUME VncTypes, NEW s \in Sessions, NEW p, Leaves(s, p), bridge[s].pc # "none"
  PROVE  \A t \in Sessions : /\ sess'[t].token = sess[t].token
                             /\ bridge'[t].token = bridge[t].token
                             /\ bridge'[t].pc # "none" => bridge[t].pc # "none"
<1>1. \A t \in Sessions : sess[t] \in Session
  BY DEF VncTypes
<1>2. \A t \in Sessions : sess'[t].token = sess[t].token
  BY <1>1 DEF Leaves, VncTypes, Session
<1> QED
  BY <1>2, MovingKeepsToken DEF Leaves

LEMMA OpenDraws ==
  ASSUME VncInv, VncTokens, NEW o \in Opens, Open(o)
  PROVE  VncTokens'
<1>0. VncTypes
  BY DEF VncInv
<1>1. PICK s \in CreateSession :
        /\ sess' = [sess EXCEPT ![s].token = o, ![s].st = IF @ = "none" THEN "pending" ELSE @]
        /\ req' = [req EXCEPT ![o] = [pc |-> "created", s |-> s]]
  BY DEF Open
<1>2. s \in Sessions /\ UNCHANGED <<bridge, down>> /\ req[o].pc = "new"
  BY <1>0, Created DEF Open, device
<1>3. Drawn(o, s)'
  BY <1>0, <1>1, <1>2 DEF VncTypes, Drawn
<1>4. RequestsKept
  BY <1>0, <1>1, <1>2 DEF VncTypes, RequestsKept
<1>5. \A t \in Sessions : sess'[t].token = IF t = s THEN o ELSE sess[t].token
  <2>1. sess[s] \in Session
    BY <1>0, <1>2 DEF VncTypes
  <2>2. sess'[s].token = o
    BY <1>0, <1>1, <1>2, <2>1 DEF VncTypes, Session
  <2>3. \A t \in Sessions : t # s => sess'[t] = sess[t]
    BY <1>0, <1>1, <1>2 DEF VncTypes
  <2> QED
    BY <2>2, <2>3
<1>6. Tickets \subseteq Tickets'
  <2>1. \A f \in Frame : f.s \in Sessions /\ (f.type = "open" => f.token \in Opens)
    BY DEF Frame
  <2> QED
    BY <1>4, <2>1 DEF Tickets, Drawn, RequestsKept
<1>7. down' \in Seq(Tickets')
  BY <1>2, <1>6, WiderQueue DEF VncTokens
<1>8. TokensDrawn'
  BY <1>2, <1>3, <1>4, <1>5 DEF VncTokens, TokensDrawn, Drawn, RequestsKept
<1> QED
  BY <1>7, <1>8 DEF VncTokens

\* the tokens of sessions and bridges through every other step of the gateway
LEMMA GatewayKeepsTokens ==
  ASSUME VncInv, VncTokens,
         \/ \E o \in Opens : SendOpen(o) \/ Wait(o)
         \/ \E s \in Sessions :
              \/ UserClose(s) \/ BindBrowser(s) \/ BrowserLeaves(s) \/ PumpEnds(s) \/ Reap(s)
              \/ \E side \in {"browser", "device"} : MaybeActivate(s, side)
         \/ Receive \/ JobEnds
  PROVE  VncTokens'
<1>0. VncTypes /\ FramesKnown
  BY DEF VncInv
<1>1. \A s \in Sessions : sess[s] \in Session
  BY <1>0 DEF VncTypes
<1>2. ASSUME UNCHANGED <<req, bridge, down>>, \A s \in Sessions : sess'[s].token = sess[s].token
      PROVE  VncTokens'
  BY <1>2, TokensStay DEF VncTokens, RequestsKept
<1>3. ASSUME NEW o \in Opens, Wait(o)
      PROVE  VncTokens'
  <2>1. UNCHANGED <<sess, bridge, down>>
    BY <1>3 DEF Wait, gateway, device
  <2>2. \A p \in Opens : req'[p].s = req[p].s /\ (req[p].pc # "new" => req'[p].pc # "new")
    <3>1. req[o] \in Request
      BY <1>0 DEF VncTypes
    <3> QED
      BY <1>0, <1>3, <3>1 DEF Wait, VncTypes, Request
  <2>3. RequestsKept
    BY <2>2 DEF RequestsKept
  <2> QED
    BY <2>1, <2>3, TokensStay DEF VncTokens
<1>10. ASSUME NEW o \in Opens, SendOpen(o)
       PROVE  VncTokens'
  <2>1. /\ UNCHANGED <<sess, bridge>> /\ req[o].pc = "created"
        /\ down' = down \/ down' = Append(down, [type |-> "open", s |-> req[o].s, token |-> o])
    BY <1>10 DEF SendOpen, gateway, device
  <2>2. \A p \in Opens : req'[p].s = req[p].s /\ (req[p].pc # "new" => req'[p].pc # "new")
    <3>1. req[o] \in Request
      BY <1>0 DEF VncTypes
    <3> QED
      BY <1>0, <1>10, <3>1 DEF SendOpen, VncTypes, Request
  <2>3. RequestsKept
    BY <2>2 DEF RequestsKept
  <2>4. req[o].s \in Sessions
    BY <2>1 DEF VncInv, RequestsKnown
  <2>5. [type |-> "open", s |-> req[o].s, token |-> o] \in Tickets
    BY <2>1, <2>4 DEF Tickets, Frame, Drawn
  <2>6. down' \in Seq(Tickets)
    BY <2>1, <2>5, QueueLine DEF VncTokens
  <2> QED
    BY <2>1, <2>3, <2>6, TokensStay
<1>4. ASSUME NEW s \in Sessions, UserClose(s)
      PROVE  VncTokens'
  <2>1. /\ sess' = Closed(s) /\ UNCHANGED <<req, bridge>>
        /\ down' = Append(down, [type |-> "close", s |-> s])
    BY <1>4 DEF UserClose, device
  <2>2. [type |-> "close", s |-> s] \in Tickets
    BY DEF Tickets, Frame
  <2>3. down' \in Seq(Tickets)
    BY <2>1, <2>2, QueueLine DEF VncTokens
  <2>4. \A t \in Sessions : sess'[t].token = sess[t].token
    BY <1>0, <2>1, ClosingKeepsToken DEF VncTypes
  <2> QED
    BY <2>1, <2>3, <2>4, TokensStay DEF RequestsKept
<1>5. ASSUME NEW s \in Sessions,
             BindBrowser(s) \/ BrowserLeaves(s) \/ \E side \in {"browser", "device"} : MaybeActivate(s, side)
      PROVE  VncTokens'
  <2>1. UNCHANGED <<req, bridge, down>>
    BY <1>5 DEF BindBrowser, BrowserLeaves, MaybeActivate, device
  <2>2. \A t \in Sessions : sess'[t].token = sess[t].token
    BY <1>0, <1>1, <1>5 DEF BindBrowser, BrowserLeaves, MaybeActivate, VncTypes, Session
  <2> QED
    BY <1>2, <2>1, <2>2
<1>6. ASSUME NEW s \in Sessions, PumpEnds(s)
      PROVE  VncTokens'
  <2>1. UNCHANGED <<req, bridge, down>> /\ sess' = [Closed(s) EXCEPT ![s].pumps = @ - 1]
    BY <1>6 DEF PumpEnds, device
  <2>2. Closed(s) \in [Sessions -> Session] /\ Closed(s)[s] \in Session
    BY <1>0, Closing DEF VncTypes
  <2>3. \A t \in Sessions : sess'[t].token = Closed(s)[t].token
    BY <2>1, <2>2 DEF Session
  <2> QED
    BY <1>0, <1>2, <2>1, <2>3, ClosingKeepsToken DEF VncTypes
<1>7. ASSUME NEW s \in Sessions, Reap(s)
      PROVE  VncTokens'
  BY <1>0, <1>2, <1>7, ClosingKeepsToken DEF Reap, device, VncTypes
<1>8. CASE Receive
  <2>1. UNCHANGED <<req, bridge, down>>
    BY <1>8 DEF Receive, device
  <2> DEFINE f == Head(up)
  <2>2. /\ up # << >>
        /\ MarkReady(f.s) \/ MarkError(f.s) \/ sess' = Closed(f.s)
    BY <1>8 DEF Receive
  <2>3. f.s \in Sessions
    <3>1. f \in Replies
      BY <1>0, <2>2, QueueLine DEF FramesKnown
    <3> QED
      BY <3>1 DEF Replies, Answer
  <2> HIDE DEF f
  <2>4. PICK s \in Sessions : s = f.s
    BY <2>3
  <2>5. Closed(s) \in [Sessions -> Session] /\ Closed(s)[s] \in Session
    BY <1>0, Closing DEF VncTypes
  <2>6. CASE MarkReady(s)
    <3>1. \A t \in Sessions : sess'[t].token = sess[t].token
      BY <1>0, <1>1, <2>6 DEF MarkReady, VncTypes, Session
    <3> QED
      BY <1>2, <2>1, <3>1
  <2>7. CASE MarkError(s)
    <3>1. \A t \in Sessions : sess'[t].token = Closed(s)[t].token
      BY <2>5, <2>7 DEF MarkError, Session
    <3> QED
      BY <1>0, <1>2, <2>1, <3>1, ClosingKeepsToken DEF VncTypes
  <2>8. CASE sess' = Closed(s)
    BY <1>0, <1>2, <2>1, <2>8, ClosingKeepsToken DEF VncTypes
  <2> QED
    BY <2>2, <2>4, <2>6, <2>7, <2>8
<1>9. CASE JobEnds
  BY <1>2, <1>9 DEF JobEnds, gateway
<1> QED
  BY <1>3, <1>4, <1>5, <1>6, <1>7, <1>8, <1>9, <1>10

\* the tokens of sessions and bridges through every step of the device
LEMMA DeviceKeepsTokens ==
  ASSUME VncInv, VncTokens,
         \/ DeviceReads
         \/ \E s \in Sessions : BridgeSteps(s)
  PROVE  VncTokens'
<1>0. VncTypes
  BY DEF VncInv
<1>1. \A s \in Sessions : sess[s] \in Session /\ bridge[s] \in Bridge
  BY <1>0 DEF VncTypes
<1>2. UNCHANGED req
  BY DEF DeviceReads, BridgeSteps, Starts, Begins, Dials, Drops, Stops
<1>3. RequestsKept
  BY <1>2 DEF RequestsKept
<1>4. ASSUME NEW s \in Sessions, Starts(s)
      PROVE  VncTokens'
  <2>1. UNCHANGED <<sess, down>> /\ bridge[s].pc = "starting"
    BY <1>4 DEF Starts, gateway
  <2>2. \A t \in Sessions : /\ bridge'[t].token = bridge[t].token
                            /\ t # s => bridge'[t] = bridge[t]
    BY <1>0, <1>1, <1>4 DEF Starts, VncTypes, Bridge
  <2> QED
    BY <1>3, <2>1, <2>2, TokensStay DEF VncTokens
<1>5. ASSUME NEW s \in Sessions, Dials(s)
      PROVE  VncTokens'
  <2>1. bridge[s].pc = "dialing" /\ UNCHANGED down
    BY <1>5 DEF Dials
  <2>2. CASE Leaves(s, "stopping")
    <3>1. \A t \in Sessions : /\ sess'[t].token = sess[t].token
                              /\ bridge'[t].token = bridge[t].token
                              /\ bridge'[t].pc # "none" => bridge[t].pc # "none"
      BY <1>0, <2>1, <2>2, LeavesKeepsToken
    <3> QED
      BY <1>3, <2>1, <3>1, TokensStay DEF VncTokens
  <2>3. CASE /\ bridge' = [bridge EXCEPT ![s].pc = "up"]
             /\ sess' = [sess EXCEPT ![s].device = "open"]
    <3>1. \A t \in Sessions : /\ bridge'[t].token = bridge[t].token
                              /\ t # s => bridge'[t] = bridge[t]
                              /\ sess'[t].token = sess[t].token
      BY <1>0, <1>1, <2>3 DEF VncTypes, Bridge, Session
    <3> QED
      BY <1>3, <2>1, <3>1, TokensStay DEF VncTokens
  <2> QED
    BY <1>5, <2>2, <2>3 DEF Dials
<1>6. ASSUME NEW s \in Sessions, Drops(s)
      PROVE  VncTokens'
  <2>1. bridge[s].pc = "up" /\ UNCHANGED down /\ Leaves(s, "stopping")
    BY <1>6 DEF Drops
  <2>2. \A t \in Sessions : /\ sess'[t].token = sess[t].token
                            /\ bridge'[t].token = bridge[t].token
                            /\ bridge'[t].pc # "none" => bridge[t].pc # "none"
    BY <1>0, <2>1, LeavesKeepsToken
  <2> QED
    BY <1>3, <2>1, <2>2, TokensStay DEF VncTokens
<1>8. ASSUME NEW s \in Sessions, Begins(s) \/ Stops(s)
      PROVE  VncTokens'
  <2>1. bridge[s].pc # "none" /\ UNCHANGED <<sess, down>>
    BY <1>8 DEF Begins, Stops, gateway
  <2>2. \/ bridge' = [bridge EXCEPT ![s].pc = "dialing"]
        \/ bridge' = [bridge EXCEPT ![s].pc = "ended"]
        \/ bridge' = [bridge EXCEPT ![s].pc = "lost"]
    BY <1>8 DEF Begins, Stops
  <2>3. PICK p : bridge' = [bridge EXCEPT ![s].pc = p]
    BY <2>2
  <2>4. \A t \in Sessions : /\ bridge'[t].token = bridge[t].token
                            /\ bridge'[t].pc # "none" => bridge[t].pc # "none"
    BY <1>0, <2>1, <2>3, MovingKeepsToken
  <2> QED
    BY <1>3, <2>1, <2>4, TokensStay DEF VncTokens
<1>7. CASE DeviceReads
  <2> DEFINE f == Head(down)
  <2>1. /\ down # << >> /\ down' = Tail(down)
        /\ \/ /\ f.type = "open"
              /\ bridge' = IF bridge[f.s].pc # "none" THEN bridge
                           ELSE [bridge EXCEPT ![f.s] = [pc |-> "starting", token |-> f.token]]
              /\ UNCHANGED sess
           \/ bridge[f.s].pc # "none" /\ Leaves(f.s, "cancelled")
           \/ /\ bridge[f.s].pc # "none" /\ UNCHANGED sess
              /\ bridge' = [bridge EXCEPT ![f.s].pc = "lost"]
           \/ UNCHANGED <<bridge, sess>>
    BY <1>7 DEF DeviceReads, Cancels
  <2>2. f \in Tickets /\ Tail(down) \in Seq(Tickets)
    BY <2>1, QueueLine DEF VncTokens
  <2>3. f.s \in Sessions
    BY <2>2 DEF Tickets, Frame
  <2> HIDE DEF f
  <2>4. PICK s \in Sessions : s = f.s
    BY <2>3
  <2>5. CASE UNCHANGED <<bridge, sess>>
    BY <1>3, <2>1, <2>2, <2>5, TokensStay
  <2>6. CASE bridge[s].pc # "none" /\ Leaves(s, "cancelled")
    <3>1. \A t \in Sessions : /\ sess'[t].token = sess[t].token
                              /\ bridge'[t].token = bridge[t].token
                              /\ bridge'[t].pc # "none" => bridge[t].pc # "none"
      BY <1>0, <2>6, LeavesKeepsToken
    <3> QED
      BY <1>3, <2>1, <2>2, <3>1, TokensStay
  <2>8. CASE /\ bridge[s].pc # "none" /\ UNCHANGED sess
             /\ bridge' = [bridge EXCEPT ![s].pc = "lost"]
    <3>1. \A t \in Sessions : /\ bridge'[t].token = bridge[t].token
                              /\ bridge'[t].pc # "none" => bridge[t].pc # "none"
      BY <1>0, <2>8, MovingKeepsToken
    <3> QED
      BY <1>3, <2>1, <2>2, <2>8, <3>1, TokensStay
  <2>7. CASE /\ f.type = "open" /\ bridge[s].pc = "none" /\ UNCHANGED sess
             /\ bridge' = [bridge EXCEPT ![s] = [pc |-> "starting", token |-> f.token]]
    <3>1. Drawn(f.token, s)
      BY <2>2, <2>4, <2>7 DEF Tickets
    <3>2. /\ bridge'[s].token = f.token
          /\ \A t \in Sessions : t # s => bridge'[t] = bridge[t]
      BY <1>0, <2>7 DEF VncTypes
    <3>3. TokensDrawn'
      BY <1>2, <2>7, <3>1, <3>2 DEF VncTokens, TokensDrawn, Drawn
    <3>4. Tickets' = Tickets
      BY <1>2 DEF Tickets, Drawn
    <3> QED
      BY <2>1, <2>2, <3>3, <3>4 DEF VncTokens
  <2> QED
    BY <1>3, <2>1, <2>2, <2>4, <2>5, <2>6, <2>7, <2>8
<1> QED
  BY <1>4, <1>5, <1>6, <1>7, <1>8 DEF BridgeSteps

\* A token admits to the session it was drawn for, and to no other one, for any
\* number of sessions and of opens that reuse them (CreateSession, BindDevice).
THEOREM TokenAdmitsToItsSession == VncSpec => []TokenIsForOneSession
<1>1. VncTokens /\ VncInv /\ [VncNext]_vncVars => VncTokens'
  <2> SUFFICES ASSUME VncTokens, VncInv, [VncNext]_vncVars
               PROVE  VncTokens'
    OBVIOUS
  <2>1. CASE UNCHANGED vncVars
    BY <2>1 DEF vncVars, gateway, device, VncTokens, TokensDrawn, Tickets, Drawn
  <2> QED
    BY <2>1, OpenDraws, GatewayKeepsTokens, DeviceKeepsTokens DEF VncNext
<1>2. VncTokens /\ VncInv => TokenIsForOneSession
  <2> SUFFICES ASSUME VncTokens, VncInv, NEW s \in Sessions, NEW t \in Sessions
               PROVE  /\ bridge[t].pc # "none" /\ Accepts(s, bridge[t].token) => s = t
                      /\ sess[s].token # 0 /\ sess[s].token = sess[t].token => s = t
    BY DEF TokenIsForOneSession
  <2>1. \A o, x, y : Drawn(o, x) /\ Drawn(o, y) => x = y
    BY DEF Drawn
  <2>2. \A o, x : Drawn(o, x) => o # 0
    BY VncRelayConstantsOK DEF Drawn
  <2> QED
    BY <2>1, <2>2 DEF VncTokens, TokensDrawn, Accepts
<1> QED
  BY VncInvariant, TokenStart, <1>1, <1>2, PTL DEF VncSpec
=============================================================================
