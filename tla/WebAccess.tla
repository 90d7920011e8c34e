------------------------------ MODULE WebAccess ------------------------------
(***************************************************************************)
(* What surrounds the handlers of the gateway's web API: accounts and the  *)
(* refresh tokens of their sessions, each SQL statement a step; and, for   *)
(* the submission of a job, the idempotency cache and the rate limiter,    *)
(* each critical section a step. The cache and the limiter's stamps are in *)
(* the memory of the gateway, which may restart.                           *)
(*                                                                         *)
(* The limiter reads the clock and takes its lock in one step: the wait    *)
(* for the lock is short beside the window. Expiry of the row in the       *)
(* middle of a request is that at its first statement.                     *)
(***************************************************************************)
EXTENDS Integers, Sequences, FiniteSets

CONSTANTS
    Accounts,     \* e-mail addresses
    Keys,         \* Idempotency-Key with the path
    None,
    Calls,        \* requests that may run at once
    MaxPerMin,    \* IAGENT_RATE_LIMIT_JOB_SUBMIT_PER_MIN
    Window,       \* a minute, in ticks
    TTL,          \* 24 hours, in ticks
    Keep,         \* 2 minutes: what the limiter's sweep keeps
    Budgets       \* bounds: requests of each kind, expiries, sweeps, ticks and restarts

ASSUME WebAccessConstantsOK ==
    /\ None \notin Accounts \cup Keys /\ Calls \subseteq Nat
    /\ {MaxPerMin, Window, TTL, Keep} \subseteq Nat \ {0} /\ Window <= Keep /\ Window <= TTL
    /\ Budgets \subseteq [{"logins", "refreshes", "logouts", "expiries", "submits", "sweeps", "ticks", "restarts"} -> Nat]

\* an answer that the idempotency cache keeps, and the end of its day
Entry == [status : {"created", "full", "refused", "limited"}, until : Nat]
ASSUME NoneIsNoEntry == None \notin Entry

VARIABLES
    users,    \* accounts with a row
    tokens,   \* the rows of refresh_tokens, in the order of their creation
    call,     \* the requests under way
    now,
    stamps,   \* the limiter: when each account submitted last
    cache,    \* the idempotency cache
    forked,   \* history: families of which two refreshes found the same token
    ended,    \* history: families revoked as a whole
    late,     \* history: those of them that a refresh was about to add to
    passed,   \* history: when each account's submissions passed the limiter since its start
    done,     \* history: the keys of submissions that created a job, and when
    shared,   \* history: keys that two requests submitted at once
    unkept,   \* history: the submissions in done whose answer is not kept
    left      \* events still allowed

sessions == <<users, tokens, forked, ended, late>>
requests == <<stamps, cache, passed, done, shared, unkept>>
vars     == <<sessions, call, now, requests, left>>

-----------------------------------------------------------------------------
Token == [of : Accounts, family : Nat, revoked : BOOLEAN, expired : BOOLEAN]
Call  == [pc : {"idle", "account", "revoke", "endfamily", "issue", "limit", "handle", "allocate", "store"},
          of : Accounts \cup {None}, family : Nat, tok : Nat, key : Keys \cup {None},
          status : {"", "created", "full", "refused", "limited", "failed"}]

Live(f)     == {k \in DOMAIN tokens : tokens[k].family = f /\ ~tokens[k].revoked}
Families    == {tokens[k].family : k \in DOMAIN tokens}
\* refreshes of a family that have revoked a token and not yet created the next
Issuing(f)  == {c \in Calls : call[c].pc = "issue" /\ call[c].family = f}
\* refreshes of a family that found a token to be valid
Rotating(f) == {c \in Calls : call[c].pc \in {"revoke", "issue"} /\ call[c].family = f}

AtRest      == [pc |-> "idle", of |-> None, family |-> 0, tok |-> 0, key |-> None, status |-> ""]
Return(c)   == call' = [call EXCEPT ![c] = AtRest]
Goto(c, pc) == call' = [call EXCEPT ![c].pc = pc]
Spend(what) == left[what] > 0 /\ left' = [left EXCEPT ![what] = @ - 1]

\* the requests that are under way have the lowest numbers
Begin(c, what, r) == /\ call[c].pc = "idle" /\ \A o \in Calls : o < c => call[o].pc # "idle"
                     /\ Spend(what) /\ call' = [call EXCEPT ![c] = r]

-----------------------------------------------------------------------------
(* Accounts and sessions. *)

\* GetByEmail finds no account
Register(c, u) ==
    /\ u \notin users /\ Begin(c, "logins", [AtRest EXCEPT !.pc = "account", !.of = u])
    /\ UNCHANGED <<sessions, now, requests>>

\* the e-mail address is unique
CreateUser(c) ==
    /\ call[c].pc = "account" /\ users' = users \cup {call[c].of}
    /\ IF call[c].of \in users THEN Return(c) ELSE Goto(c, "issue")
    /\ UNCHANGED <<tokens, forked, ended, late, now, requests, left>>

\* the password is right
Login(c, u) ==
    /\ u \in users /\ Begin(c, "logins", [AtRest EXCEPT !.pc = "issue", !.of = u])
    /\ UNCHANGED <<sessions, now, requests>>

\* a new family, but after a refresh
CreateToken(c) ==
    /\ call[c].pc = "issue" /\ Return(c)
    /\ tokens' = Append(tokens, [of |-> call[c].of, revoked |-> FALSE, expired |-> FALSE,
                                 family |-> IF call[c].family = 0 THEN Len(tokens) + 1 ELSE call[c].family])
    /\ UNCHANGED <<users, forked, ended, late, now, requests, left>>

\* variant: a revoked token is as good as another
FindAnyToken(c, k) ==
    /\ LET t == tokens[k]
           r == [AtRest EXCEPT !.of = t.of, !.family = t.family, !.tok = k] IN
       /\ Begin(c, "refreshes", [r EXCEPT !.pc = IF t.expired THEN "endfamily" ELSE "revoke"])
       /\ forked' = IF \E o \in Rotating(t.family) : call[o].tok = k THEN forked \cup {t.family} ELSE forked
    /\ UNCHANGED <<users, tokens, ended, late, now, requests>>

\* handleRefresh: one that is revoked or expired ends its family
FindToken(c, k) ==
    /\ LET t == tokens[k]
           r == [AtRest EXCEPT !.of = t.of, !.family = t.family, !.tok = k] IN
       /\ Begin(c, "refreshes", [r EXCEPT !.pc = IF t.revoked \/ t.expired THEN "endfamily" ELSE "revoke"])
       /\ forked' = IF ~t.revoked /\ ~t.expired /\ \E o \in Rotating(t.family) : call[o].tok = k
                    THEN forked \cup {t.family} ELSE forked
    /\ UNCHANGED <<users, tokens, ended, late, now, requests>>

Revoke(c) ==
    /\ call[c].pc = "revoke" /\ Goto(c, "issue")
    /\ tokens' = [tokens EXCEPT ![call[c].tok].revoked = TRUE]
    /\ UNCHANGED <<users, forked, ended, late, now, requests, left>>

\* one statement: the tokens there are
RevokeFamily(c) ==
    /\ call[c].pc = "endfamily" /\ Return(c)
    /\ LET f == call[c].family IN
       /\ tokens' = [k \in DOMAIN tokens |-> [tokens[k] EXCEPT !.revoked = @ \/ tokens[k].family = f]]
       /\ ended' = ended \cup {f}
       /\ late' = IF Rotating(f) = {} THEN late ELSE late \cup {f}
    /\ UNCHANGED <<users, forked, now, requests, left>>

\* a token that is revoked is let be
Logout(c, k) ==
    /\ ~tokens[k].revoked
    /\ Begin(c, "logouts", [AtRest EXCEPT !.pc = "endfamily", !.of = tokens[k].of, !.family = tokens[k].family])
    /\ UNCHANGED <<sessions, now, requests>>

\* without a token
RevokeAllForUser(u) ==
    /\ Spend("logouts")
    /\ LET fs == {tokens[k].family : k \in {k \in DOMAIN tokens : tokens[k].of = u}} IN
       /\ tokens' = [k \in DOMAIN tokens |-> [tokens[k] EXCEPT !.revoked = @ \/ tokens[k].of = u]]
       /\ ended' = ended \cup fs /\ late' = late \cup {f \in fs : Rotating(f) # {}}
    /\ UNCHANGED <<users, forked, call, now, requests>>

Expire(k) ==
    /\ ~tokens[k].expired /\ Spend("expiries") /\ tokens' = [tokens EXCEPT ![k].expired = TRUE]
    /\ UNCHANGED <<users, forked, ended, late, call, now, requests>>

-----------------------------------------------------------------------------
(* The submission of a job. *)

Fresh(k)    == cache[k] # None /\ now < cache[k].until
\* the stamps after t: they are in the order of time, so these are the last ones
After(q, t) == SubSeq(q, Cardinality({i \in DOMAIN q : q[i] <= t}) + 1, Len(q))
Recent(u)   == After(stamps[u], now - Window)

\* idempotencyMiddleware: answered from the cache, or on to the limiter
Submit(c, u, k) ==
    /\ u \in users
    /\ IF k # None /\ Fresh(k) THEN call[c].pc = "idle" /\ Spend("submits") /\ UNCHANGED <<call, shared>>
       ELSE /\ Begin(c, "submits", [AtRest EXCEPT !.pc = "limit", !.of = u, !.key = k])
            /\ shared' = IF k # None /\ \E o \in Calls : call[o].key = k THEN shared \cup {k} ELSE shared
    /\ UNCHANGED <<sessions, now, stamps, cache, passed, done, unkept>>

\* jobRateLimitMiddleware
Limit(c) ==
    /\ call[c].pc = "limit"
    /\ LET u == call[c].of IN
       IF Len(Recent(u)) >= MaxPerMin
       THEN /\ call' = [call EXCEPT ![c].pc = "store", ![c].status = "limited"]
            /\ UNCHANGED <<stamps, passed>>
       ELSE /\ stamps' = [stamps EXCEPT ![u] = Append(Recent(u), now)]
            /\ passed' = [passed EXCEPT ![u] = Append(@, now)] /\ Goto(c, "handle")
    /\ UNCHANGED <<sessions, now, cache, done, shared, unkept, left>>

Answer(c, s) == call' = [call EXCEPT ![c].pc = "store", ![c].status = s]

\* handleSubmitJob refuses the request, or fails, or inserts the row of the job
Handle(c) ==
    /\ call[c].pc = "handle"
    /\ \/ (\E s \in {"refused", "failed"} : Answer(c, s)) /\ UNCHANGED done
       \/ /\ Goto(c, "allocate")
          /\ done' = IF call[c].key = None THEN done ELSE Append(done, [key |-> call[c].key, at |-> now])
    /\ UNCHANGED <<sessions, now, stamps, cache, passed, shared, unkept, left>>

\* Allocate: an agent or a place in the queue; or the queue is full, or it fails.
\* The row of the job stays.
Allocate(c) ==
    /\ call[c].pc = "allocate"
    /\ \E s \in {"created", "full", "failed"} :
         /\ Answer(c, s)
         /\ unkept' = IF s # "failed" THEN unkept
                      ELSE unkept \cup {i \in DOMAIN done : done[i].key = call[c].key}
    /\ UNCHANGED <<sessions, now, stamps, cache, passed, done, shared, left>>

\* answers below 500 are kept
Store(c) ==
    /\ call[c].pc = "store" /\ Return(c)
    /\ cache' = IF call[c].key # None /\ call[c].status # "failed"
                THEN [cache EXCEPT ![call[c].key] = [status |-> call[c].status, until |-> now + TTL]]
                ELSE cache
    /\ UNCHANGED <<sessions, now, stamps, passed, done, shared, unkept, left>>

\* variant: the sweep empties the cache
SweepAll ==
    /\ Spend("sweeps") /\ cache' = [k \in Keys |-> None]
    /\ UNCHANGED <<sessions, call, now, stamps, passed, done, shared, unkept>>

\* every ten minutes
SweepCache ==
    /\ Spend("sweeps")
    /\ cache' = [k \in Keys |-> IF cache[k] # None /\ now > cache[k].until THEN None ELSE cache[k]]
    /\ UNCHANGED <<sessions, call, now, stamps, passed, done, shared, unkept>>

\* variant: only the stamps of this tick are kept
SweepMost ==
    /\ Spend("sweeps")
    /\ stamps' = [u \in Accounts |-> After(stamps[u], now - 1)]
    /\ UNCHANGED <<sessions, call, now, cache, passed, done, shared, unkept>>

\* every minute
SweepStamps ==
    /\ Spend("sweeps")
    /\ stamps' = [u \in Accounts |-> After(stamps[u], now - Keep)]
    /\ UNCHANGED <<sessions, call, now, cache, passed, done, shared, unkept>>

Tick == Spend("ticks") /\ now' = now + 1 /\ UNCHANGED <<sessions, call, requests>>

\* of the gateway: its database stays
Restart ==
    /\ Spend("restarts") /\ call' = [c \in Calls |-> AtRest]
    /\ stamps' = [u \in Accounts |-> <<>>] /\ passed' = [u \in Accounts |-> <<>>]
    /\ cache' = [k \in Keys |-> None] /\ unkept' = DOMAIN done
    /\ UNCHANGED <<sessions, now, done, shared>>

-----------------------------------------------------------------------------
Init ==
    /\ left \in Budgets
    /\ users = {} /\ tokens = <<>> /\ call = [c \in Calls |-> AtRest] /\ now = 0
    /\ stamps = [u \in Accounts |-> <<>>] /\ cache = [k \in Keys |-> None]
    /\ forked = {} /\ ended = {} /\ late = {}
    /\ passed = [u \in Accounts |-> <<>>] /\ done = <<>> /\ shared = {} /\ unkept = {}

Step(c) == \/ CreateUser(c) \/ CreateToken(c) \/ Revoke(c) \/ RevokeFamily(c)
           \/ Limit(c) \/ Handle(c) \/ Allocate(c) \/ Store(c)

Next ==
    \/ \E c \in Calls :
         \/ Step(c)
         \/ \E u \in Accounts : \/ Register(c, u) \/ Login(c, u)
                                \/ \E k \in Keys \cup {None} : Submit(c, u, k)
         \/ \E k \in DOMAIN tokens : FindToken(c, k) \/ Logout(c, k)
    \/ \E u \in Accounts : RevokeAllForUser(u)
    \/ \E k \in DOMAIN tokens : Expire(k)
    \/ SweepCache \/ SweepStamps \/ Tick \/ Restart

Spec == Init /\ [][Next]_vars

-----------------------------------------------------------------------------
(* Properties. *)

\* Rows, requests, the limiter and the cache have their types.
TypeOK ==
    /\ users \subseteq Accounts /\ call \in [Calls -> Call] /\ now \in Nat
    /\ \A k \in DOMAIN tokens : tokens[k] \in Token /\ tokens[k].of \in users /\ tokens[k].family \in 1 .. k
    /\ \A u \in Accounts : Len(stamps[u]) <= MaxPerMin
    /\ \A k \in Keys : cache[k] = None \/ cache[k] \in Entry

\* 08-auth-security.md:23, "each refresh issues a new refresh and revokes the old":
\* a session has one token that can be refreshed, counting the one about to be
\* created, unless two refreshes found the same token before either revoked it.
OneLiveToken ==
    \A f \in Families \ forked : Cardinality(Live(f)) + Cardinality(Issuing(f)) <= 1

\* After a logout, or after the reuse of a revoked token, the session has no token
\* that can be refreshed, and gets none: unless a refresh had found its token when
\* the family was revoked, and adds the next one afterwards (RevokeFamily).
EndedStaysEnded == \A f \in ended \ late : Live(f) = {} /\ Rotating(f) = {}

\* A session has at most one token to refresh, and none after it ended, whatever
\* refreshes, logouts and reuses overlap (handleRefresh, handleLogout).
SessionTokens == OneLiveToken /\ EndedStaysEnded

\* The same without the exception.
EndedIsEnded == \A f \in ended : Live(f) = {}

\* Not more submissions of an account pass within a window than are allowed,
\* whatever the sweep removes, while the gateway runs: its restart forgets the
\* stamps (jobRateLimitMiddleware).
RateKept ==
    \A u \in Accounts : \A i \in DOMAIN passed[u] :
        i + MaxPerMin \in DOMAIN passed[u] => passed[u][i + MaxPerMin] - passed[u][i] >= Window

\* The limiter and the cache are well formed, and the limit holds in every window.
LimiterSound == TypeOK /\ RateKept

\* A key creates a second job only when the day of the first is over, or two
\* requests brought it at once (the cache is read before the handler and written
\* after it), or the first answer is not kept: the row was inserted and then the
\* allocation failed with a 500, or the gateway restarted (idempotencyMiddleware).
CreatedOnce ==
    \A i \in DOMAIN done \ unkept, j \in DOMAIN done :
        i < j /\ done[i].key = done[j].key /\ done[i].key \notin shared => done[j].at - done[i].at >= TTL

\* The limiter answers "too many job submissions, please wait" (middleware.go:417):
\* a request that waited until the limiter would let it pass is not refused by the
\* answer that the idempotency cache kept.
WaitingHelps ==
    \A k \in Keys, u \in users :
        Fresh(k) /\ cache[k].status = "limited" => Len(Recent(u)) >= MaxPerMin
=============================================================================
