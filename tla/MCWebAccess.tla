----------------------------- MODULE MCWebAccess -----------------------------
\* Sessions of two accounts, or submissions of one while time passes.
EXTENDS WebAccess, TLC

CONSTANTS u1, u2, k1

Events(i, r, o, e, s, w, t, b) ==
    [logins |-> i, refreshes |-> r, logouts |-> o, expiries |-> e,
     submits |-> s, sweeps |-> w, ticks |-> t, restarts |-> b]

Symmetry == Permutations(Accounts)

Some == {Events(3, 3, 1, 1, 0, 0, 0, 0), Events(1, 3, 1, 0, 0, 0, 0, 1), Events(1, 0, 0, 0, 4, 1, 3, 0),
         Events(1, 0, 0, 0, 3, 1, 3, 1)}
Wait == {Events(1, 0, 0, 0, 2, 0, 2, 0)}
Race == {Events(1, 2, 1, 0, 0, 0, 0, 0)}
=============================================================================
