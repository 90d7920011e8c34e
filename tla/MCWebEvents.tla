----------------------------- MODULE MCWebEvents -----------------------------
\* Two browsers of two users, or one, and short channels.
EXTENDS WebEvents

CONSTANTS u1, u2, j1, j2, j3

TwoUsers == [c \in {1, 2} |-> IF c = 1 THEN u1 ELSE u2]
Events(c, e, s, x, p) ==
    [conns |-> c, events |-> e, subscribes |-> s, unsubscribes |-> x, pings |-> p]

\* one browser that subscribes again, a full channel, two browsers of two users,
\* pings, the cap
Some  == {Events(1, 2, 2, 1, 0), Events(1, 3, 1, 0, 0), Events(2, 1, 2, 0, 0),
          Events(1, 1, 1, 1, 1), Events(1, 0, 4, 1, 0)}
Ping  == {Events(1, 1, 1, 0, 1)}
Stray == {Events(1, 0, 3, 1, 0)}
=============================================================================
