--------------------------- MODULE WebAccessProofs ---------------------------
(***************************************************************************)
(* What is proved of sessions, of the rate limiter and of the idempotency  *)
(* cache, for every set of accounts, keys and requests, every window and   *)
(* every budget.                                                           *)
(***************************************************************************)
EXTENDS WebAccess, SequenceTheorems, FiniteSetTheorems, WellFoundedInduction, TLAPS

\* the constants, but for the budgets
LEMMA ConstantsOK ==
    /\ None \notin Accounts \cup Keys /\ Calls \subseteq Nat
    /\ MaxPerMin \in Nat /\ Window \in Nat /\ TTL \in Nat /\ Keep \in Nat
    /\ MaxPerMin > 0 /\ Window > 0 /\ TTL > 0 /\ Keep > 0
    /\ Window <= Keep /\ Window <= TTL
  BY WebAccessConstantsOK

USE ConstantsOK

-----------------------------------------------------------------------------
(* The stamps that a sweep keeps                                           *)

\* a set of numbers has a least one
LEMMA NatMin ==
  ASSUME NEW T, T \subseteq Nat, T # {}
  PROVE  \E n \in T : \A m \in T : n <= m
<1>1. IsWellFoundedOn(OpToRel(<, Nat), Nat)
  BY NatLessThanWellFounded
<1>2. PICK n \in T : \A m \in T : ~ (<<m, n>> \in OpToRel(<, Nat))
  BY <1>1, WFMin
<1>3. \A m \in T : ~ (m < n)
  BY <1>2 DEF OpToRel
<1> QED
  BY <1>3

Ascending(q) == \A i, j \in DOMAIN q : i <= j => q[i] <= q[j]

LEMMA IntervalCard ==
  ASSUME NEW m \in Nat
  PROVE  Cardinality(1 .. m) = m
<1>1. Cardinality(1 .. m) = IF 1 > m THEN 0 ELSE m - 1 + 1
  BY FS_Interval
<1> QED
  BY <1>1

\* of stamps in the order of time, the later ones are the last ones
LEMMA AfterIsSuffix ==
  ASSUME NEW q \in Seq(Nat), Ascending(q), NEW t \in Int
  PROVE  \E m \in 0 .. Len(q) :
           /\ After(q, t) = SubSeq(q, m + 1, Len(q))
           /\ \A i \in 1 .. m : q[i] <= t
           /\ \A i \in m + 1 .. Len(q) : q[i] > t
<1> DEFINE n == Len(q)
           D == {i \in DOMAIN q : q[i] <= t}
           E == {i \in DOMAIN q : q[i] > t}
<1>1. n \in Nat /\ DOMAIN q = 1 .. n /\ \A i \in 1 .. n : q[i] \in Nat
  BY LenProperties, ElementOfSeq
<1>2. SUFFICES ASSUME NEW m \in 0 .. n, D = 1 .. m, \A i \in m + 1 .. n : q[i] > t
               PROVE  /\ After(q, t) = SubSeq(q, m + 1, n)
                      /\ \A i \in 1 .. m : q[i] <= t
  <2>1. \E m \in 0 .. n : D = 1 .. m /\ \A i \in m + 1 .. n : q[i] > t
    <3>1. CASE E = {}
      <4>1. D = 1 .. n
        BY <1>1, <3>1
      <4> QED
        BY <1>1, <4>1
    <3>2. CASE E # {}
      <4>1. E \subseteq Nat
        BY <1>1
      <4>2. PICK e \in E : \A i \in E : e <= i
        <5> HIDE DEF E
        <5> QED
          BY <3>2, <4>1, NatMin
      <4>3. e \in 1 .. n /\ q[e] > t /\ e - 1 \in 0 .. n /\ (e - 1) + 1 = e
        BY <1>1
      <4>4. ASSUME NEW i \in e .. n PROVE q[i] > t
        <5>1. i \in 1 .. n /\ e <= i
          BY <1>1, <4>3
        <5>2. q[e] <= q[i] /\ q[e] \in Nat /\ q[i] \in Nat
          BY <1>1, <4>3, <5>1 DEF Ascending
        <5> QED
          BY <4>3, <5>2
      <4>5. D = 1 .. e - 1
        <5>1. ASSUME NEW i \in D PROVE i \in 1 .. e - 1
          <6>1. i \in 1 .. n /\ ~ (q[i] > t)
            BY <1>1
          <6>2. i \notin e .. n
            BY <4>4, <6>1
          <6> HIDE DEF n
          <6> QED
            BY <1>1, <4>3, <6>1, <6>2
        <5>2. ASSUME NEW i \in 1 .. e - 1 PROVE i \in D
          <6>1. i \in 1 .. n /\ ~ (e <= i)
            BY <1>1, <4>3
          <6>2. ~ (q[i] > t)
            BY <1>1, <4>2, <6>1
          <6> QED
            BY <1>1, <6>1, <6>2
        <5> QED
          BY <5>1, <5>2
      <4> QED
        BY <4>3, <4>4, <4>5
    <3> QED
      BY <3>1, <3>2
  <2> QED
    BY <1>2, <2>1
<1>3. m \in Nat
  BY <1>1, <1>2
<1>4. Cardinality(D) = m
  <2> HIDE DEF D
  <2> QED
    BY <1>2, <1>3, IntervalCard
<1>5. After(q, t) = SubSeq(q, m + 1, n)
  BY <1>4 DEF After
<1> QED
  BY <1>2, <1>5

LEMMA Suffix ==
  ASSUME NEW q \in Seq(Nat), NEW m \in Nat, m <= Len(q)
  PROVE  /\ SubSeq(q, m + 1, Len(q)) \in Seq(Nat)
         /\ Len(SubSeq(q, m + 1, Len(q))) = Len(q) - m
         /\ \A i \in 1 .. Len(q) - m : SubSeq(q, m + 1, Len(q))[i] = q[m + i]
<1>1. Len(q) \in Nat /\ DOMAIN q = 1 .. Len(q) /\ \A i \in 1 .. Len(q) : q[i] \in Nat
  BY LenProperties, ElementOfSeq
<1>2. m + 1 \in Nat /\ \A i \in m + 1 .. Len(q) : q[i] \in Nat
  BY <1>1
<1>3. /\ SubSeq(q, m + 1, Len(q)) \in Seq(Nat)
      /\ Len(SubSeq(q, m + 1, Len(q))) = IF m + 1 <= Len(q) THEN Len(q) - (m + 1) + 1 ELSE 0
      /\ \A i \in 1 .. Len(q) - (m + 1) + 1 : SubSeq(q, m + 1, Len(q))[i] = q[(m + 1) + i - 1]
  BY <1>1, <1>2, SubSeqProperties
<1>4. ASSUME NEW i \in 1 .. Len(q) - m PROVE SubSeq(q, m + 1, Len(q))[i] = q[m + i]
  <2>1. i \in 1 .. Len(q) - (m + 1) + 1 /\ (m + 1) + i - 1 = m + i
    BY <1>1
  <2> QED
    BY <1>3, <2>1
<1>5. Len(SubSeq(q, m + 1, Len(q))) = Len(q) - m
  <2>1. CASE m + 1 <= Len(q)
    <3>1. Len(q) - (m + 1) + 1 = Len(q) - m
      BY <1>1
    <3> QED
      BY <1>3, <2>1, <3>1
  <2>2. CASE ~ (m + 1 <= Len(q))
    <3>1. \A n \in Nat : m <= n /\ ~ (m + 1 <= n) => n - m = 0
      OBVIOUS
    <3>2. Len(q) \in Nat /\ m <= Len(q) /\ ~ (m + 1 <= Len(q))
      BY <1>1, <2>2
    <3>3. Len(q) - m = 0
      BY <3>1, <3>2, Zenon
    <3> QED
      BY <1>3, <2>2, <3>3, Zenon
  <2> QED
    BY <2>1, <2>2
<1> QED
  BY <1>3, <1>4, <1>5, Zenon

LEMMA SuffixOfSuffix ==
  ASSUME NEW q \in Seq(Nat), NEW m \in Nat, NEW k \in Nat, m + k <= Len(q),
         NEW r, r = SubSeq(q, m + 1, Len(q))
  PROVE  SubSeq(r, k + 1, Len(r)) = SubSeq(q, m + k + 1, Len(q))
<1>1. Len(q) \in Nat /\ m <= Len(q) /\ m + k \in Nat /\ m + k + 1 = (m + k) + 1
  BY LenProperties
<1>2. r \in Seq(Nat) /\ Len(r) = Len(q) - m /\ \A i \in 1 .. Len(q) - m : r[i] = q[m + i]
  BY <1>1, Suffix
<1>3. k <= Len(r)
  BY <1>1, <1>2
<1> DEFINE a == SubSeq(r, k + 1, Len(r))
           b == SubSeq(q, m + k + 1, Len(q))
<1>4. a \in Seq(Nat) /\ Len(a) = Len(r) - k /\ \A i \in 1 .. Len(r) - k : a[i] = r[k + i]
  BY <1>2, <1>3, Suffix
<1>5. b \in Seq(Nat) /\ Len(b) = Len(q) - (m + k) /\ \A i \in 1 .. Len(q) - (m + k) : b[i] = q[(m + k) + i]
  BY <1>1, Suffix
<1> HIDE DEF a, b
<1>6. Len(a) = Len(b)
  BY <1>1, <1>2, <1>4, <1>5
<1>7. ASSUME NEW i \in 1 .. Len(a) PROVE a[i] = b[i]
  <2>1. /\ i \in 1 .. Len(r) - k /\ i \in 1 .. Len(q) - (m + k)
        /\ k + i \in 1 .. Len(q) - m /\ m + (k + i) = (m + k) + i
    BY <1>1, <1>2, <1>4
  <2>2. a[i] = r[k + i] /\ r[k + i] = q[m + (k + i)]
    BY <1>2, <1>4, <2>1
  <2>3. b[i] = q[(m + k) + i]
    BY <1>5, <2>1
  <2> QED
    BY <2>1, <2>2, <2>3
<1> QED
  BY <1>4, <1>5, <1>6, <1>7, SeqEqual DEF a, b

-----------------------------------------------------------------------------
(* Types                                                                   *)

Types == /\ call \in [Calls -> Call] /\ now \in Nat /\ users \subseteq Accounts
         /\ tokens \in Seq(Token)
         /\ stamps \in [Accounts -> Seq(Nat)] /\ passed \in [Accounts -> Seq(Nat)]
         /\ cache \in [Keys -> Entry \cup {None}]
         /\ done \in Seq([key : Keys, at : Nat]) /\ shared \subseteq Keys /\ unkept \subseteq DOMAIN done
         /\ left \in [{"logins", "refreshes", "logouts", "expiries", "submits", "sweeps", "ticks", "restarts"} -> Nat]

SessionPcs == {"account", "revoke", "endfamily", "issue"}

\* a request at each label
CallIs(r) == /\ r.pc = "account" => r.of \in Accounts /\ r.family = 0
             /\ r.pc \in {"revoke", "issue", "limit"} => r.of \in users
             /\ r.pc \in {"revoke", "endfamily"} => r.family # 0
             /\ r.pc \notin SessionPcs => r.family = 0
             /\ r.pc \in SessionPcs \cup {"idle"} => r.key = None
             /\ r.pc = "store" => r.status # ""
             /\ r.family # 0 => \E k \in DOMAIN tokens : tokens[k].family = r.family /\ tokens[k].of = r.of
             /\ r.pc = "revoke" => r.tok \in DOMAIN tokens /\ tokens[r.tok].family = r.family
CallsAre == \A c \in Calls : CallIs(call[c])

\* a family begins with its first token and belongs to one account
TokensAre == /\ \A k \in DOMAIN tokens : tokens[k].of \in users /\ tokens[k].family \in 1 .. k
             /\ \A k, l \in DOMAIN tokens : tokens[k].family = tokens[l].family => tokens[k].of = tokens[l].of

Typed == Types /\ CallsAre /\ TokensAre

LEMMA AtRestType == AtRest \in Call /\ CallIs(AtRest)
  BY DEF AtRest, Call, CallIs, SessionPcs

LEMMA SpendType ==
  ASSUME Types, NEW w \in {"logins", "refreshes", "logouts", "expiries", "submits", "sweeps", "ticks", "restarts"},
         Spend(w)
  PROVE  left' \in [{"logins", "refreshes", "logouts", "expiries", "submits", "sweeps", "ticks", "restarts"} -> Nat]
<1>1. left[w] \in Nat /\ left[w] > 0
  BY DEF Types, Spend
<1>2. PICK n \in Nat : n = left[w] - 1
  BY <1>1
<1> QED
  BY <1>2 DEF Types, Spend

\* tokens keep their account and family; some are added at the end
Longer == /\ tokens' \in Seq(Token) /\ users \subseteq users' /\ users' \subseteq Accounts
          /\ \A k \in DOMAIN tokens : /\ k \in DOMAIN tokens'
                                      /\ tokens'[k].family = tokens[k].family
                                      /\ tokens'[k].of = tokens[k].of

LEMMA CallStays ==
  ASSUME Longer, NEW r, CallIs(r)
  PROVE  CallIs(r)'
<1> USE DEF CallIs, Longer
<1>1. r.family # 0 => \E k \in DOMAIN tokens' : tokens'[k].family = r.family /\ tokens'[k].of = r.of
  OBVIOUS
<1>2. r.pc = "revoke" => r.tok \in DOMAIN tokens' /\ tokens'[r.tok].family = r.family
  OBVIOUS
<1> QED
  BY <1>1, <1>2

\* the requests, when one of them moves, and when none does
LEMMA CallsMove ==
  ASSUME Types, CallsAre, Longer, NEW c \in Calls, NEW r \in Call, call' = [call EXCEPT ![c] = r],
         CallIs(r)'
  PROVE  /\ call' \in [Calls -> Call] /\ CallsAre' /\ call'[c] = r
         /\ \A o \in Calls \ {c} : call'[o] = call[o]
<1>1. call' \in [Calls -> Call] /\ call'[c] = r /\ \A o \in Calls \ {c} : call'[o] = call[o]
  BY DEF Types
<1>2. ASSUME NEW o \in Calls PROVE CallIs(call[o])'
  <2>1. CASE o = c
    BY <1>1, <2>1 DEF CallIs
  <2>2. CASE o # c
    <3>1. CallIs(call[o])
      BY DEF CallsAre
    <3>2. PICK w : w = call[o]
      OBVIOUS
    <3>3. CallIs(w)'
      BY <3>1, <3>2, CallStays
    <3> QED
      BY <1>1, <2>2, <3>2, <3>3 DEF CallIs
  <2> QED
    BY <2>1, <2>2
<1> QED
  BY <1>1, <1>2 DEF CallsAre

LEMMA CallsStay ==
  ASSUME CallsAre, Longer, UNCHANGED call
  PROVE  CallsAre'
<1>1. ASSUME NEW o \in Calls PROVE CallIs(call[o])'
  <2>1. PICK w : w = call[o]
    OBVIOUS
  <2>2. CallIs(w)'
    BY <2>1, CallStays DEF CallsAre
  <2> QED
    BY <2>1, <2>2 DEF CallIs
<1> QED
  BY <1>1 DEF CallsAre

\* a statement that writes flags only
FlagsOnly == /\ DOMAIN tokens' = DOMAIN tokens /\ tokens' \in Seq(Token) /\ UNCHANGED users
             /\ \A k \in DOMAIN tokens : tokens'[k].family = tokens[k].family /\ tokens'[k].of = tokens[k].of

LEMMA FlagsKeep ==
  ASSUME Types, TokensAre, FlagsOnly
  PROVE  TokensAre' /\ Longer
<1>1. TokensAre'
  BY DEF TokensAre, FlagsOnly
<1>2. users' \subseteq Accounts
  BY DEF Types, FlagsOnly
<1>3. Longer
  BY <1>2 DEF FlagsOnly, Longer
<1> QED
  BY <1>1, <1>3

LEMMA TokensStay ==
  ASSUME Types, TokensAre, UNCHANGED <<tokens, users>>
  PROVE  TokensAre' /\ Longer
  BY DEF Types, TokensAre, Longer

LEMMA AfterType ==
  ASSUME NEW q \in Seq(Nat), NEW t \in Int
  PROVE  After(q, t) \in Seq(Nat)
<1>1. Len(q) \in Nat /\ DOMAIN q = 1 .. Len(q) /\ \A i \in 1 .. Len(q) : q[i] \in Nat
  BY LenProperties, ElementOfSeq
<1> DEFINE D == {i \in DOMAIN q : q[i] <= t}
<1>2. Cardinality(D) \in Nat
  <2>1. IsFiniteSet(1 .. Len(q))
    BY <1>1, FS_Interval
  <2>2. D \subseteq 1 .. Len(q)
    BY <1>1
  <2> HIDE DEF D
  <2> QED
    BY <2>1, <2>2, FS_Subset, FS_CardinalityType
<1>3. PICK m \in Nat : m = Cardinality(D) + 1
  <2> HIDE DEF D
  <2> QED
    BY <1>2
<1>m. m >= 1
  <2> HIDE DEF D
  <2> QED
    BY <1>2, <1>3
<1>4. \A i \in m .. Len(q) : q[i] \in Nat
  BY <1>1, <1>m
<1>5. SubSeq(q, m, Len(q)) \in Seq(Nat)
  BY <1>1, <1>4, SubSeqProperties
<1> QED
  BY <1>3, <1>5 DEF After

LEMMA RequestTyped ==
  ASSUME Typed, NEW c \in Calls,
         \/ \E u \in Accounts, k \in Keys \cup {None} : Submit(c, u, k)
         \/ Limit(c) \/ Handle(c) \/ Allocate(c) \/ Store(c)
  PROVE  Typed'
<1> USE DEF Typed
<1>0. UNCHANGED <<sessions, now>> /\ call[c] \in Call /\ CallIs(call[c])
  BY DEF Submit, Limit, Handle, Allocate, Store, Types, CallsAre
<1>1. TokensAre' /\ Longer
  BY <1>0, TokensStay DEF sessions
<1>s. /\ now' \in Nat /\ users' \subseteq Accounts /\ tokens' \in Seq(Token)
  BY <1>0 DEF sessions, Types
<1>2. ASSUME NEW u \in Accounts, NEW k \in Keys \cup {None}, Submit(c, u, k) PROVE Typed'
  <2>1. left' \in [{"logins", "refreshes", "logouts", "expiries", "submits", "sweeps", "ticks", "restarts"} -> Nat]
    BY <1>2, SpendType DEF Submit, Begin
  <2>2. UNCHANGED <<stamps, cache, passed, done, unkept>>
    BY <1>2 DEF Submit
  <2>3. CASE UNCHANGED <<call, shared>>
    BY <1>1, <1>s, <2>1, <2>2, <2>3, CallsStay DEF Types
  <2>4. CASE ~ UNCHANGED <<call, shared>>
    <3> DEFINE r == [AtRest EXCEPT !.pc = "limit", !.of = u, !.key = k]
    <3>1. Begin(c, "submits", r) /\ shared' \in {shared, shared \cup {k}} /\ (k = None => shared' = shared)
          /\ u \in users
      BY <1>2, <2>4 DEF Submit
    <3>2. r \in Call /\ CallIs(r)'
      BY <3>1, <1>0 DEF AtRest, Call, CallIs, SessionPcs, sessions
    <3>3. call' = [call EXCEPT ![c] = r]
      BY <3>1 DEF Begin
    <3> HIDE DEF r
    <3>4. call' \in [Calls -> Call] /\ CallsAre'
      BY <1>1, <3>2, <3>3, CallsMove
    <3> QED
      BY <1>1, <1>s, <2>1, <2>2, <3>1, <3>4 DEF Types
  <2> QED
    BY <2>3, <2>4
<1>3. CASE Limit(c)
  <2>1. call[c].of \in Accounts
    BY <1>0, <1>3 DEF Limit, CallIs, Types
  <2>2. Append(Recent(call[c].of), now) \in Seq(Nat) /\ Append(passed[call[c].of], now) \in Seq(Nat)
    <3>1. now - Window \in Int
      BY DEF Types
    <3>2. Recent(call[c].of) \in Seq(Nat)
      BY <2>1, <3>1, AfterType DEF Types, Recent
    <3> QED
      BY <2>1, <3>2, AppendProperties DEF Types
  <2>3. stamps' \in [Accounts -> Seq(Nat)] /\ passed' \in [Accounts -> Seq(Nat)]
    <3>1. \/ UNCHANGED <<stamps, passed>>
          \/ /\ stamps' = [stamps EXCEPT ![call[c].of] = Append(Recent(call[c].of), now)]
             /\ passed' = [passed EXCEPT ![call[c].of] = Append(passed[call[c].of], now)]
      BY <1>3 DEF Limit
    <3>2. CASE UNCHANGED <<stamps, passed>>
      BY <3>2 DEF Types
    <3> DEFINE a == Append(Recent(call[c].of), now)
               b == Append(passed[call[c].of], now)
    <3>3. CASE ~ UNCHANGED <<stamps, passed>>
      <4>1. stamps' = [stamps EXCEPT ![call[c].of] = a] /\ passed' = [passed EXCEPT ![call[c].of] = b]
        BY <3>1, <3>3
      <4>2. a \in Seq(Nat) /\ b \in Seq(Nat)
        BY <2>2
      <4> HIDE DEF a, b
      <4> QED
        BY <2>1, <4>1, <4>2 DEF Types
    <3> QED
      BY <3>2, <3>3
  <2>4. PICK r \in Call : /\ call' = [call EXCEPT ![c] = r]
                          /\ r.pc \in {"store", "handle"} /\ r.family = 0
                          /\ r.pc = "store" => r.status = "limited"
    <3> DEFINE r1 == [call[c] EXCEPT !.pc = "store", !.status = "limited"]
               r2 == [call[c] EXCEPT !.pc = "handle"]
    <3>1. call' = [call EXCEPT ![c] = r1] \/ call' = [call EXCEPT ![c] = r2]
      BY <1>3 DEF Limit, Goto
    <3>2. call[c].family = 0
      BY <1>0, <1>3 DEF Limit, CallIs, SessionPcs
    <3>3. /\ r1 \in Call /\ r1.pc = "store" /\ r1.family = 0 /\ r1.status = "limited"
          /\ r2 \in Call /\ r2.pc = "handle" /\ r2.family = 0
      BY <1>0, <3>2 DEF Call
    <3> HIDE DEF r1, r2
    <3> QED
      BY <3>1, <3>3
  <2>c. CallIs(r)'
    BY <2>4 DEF CallIs, SessionPcs
  <2>5. call' \in [Calls -> Call] /\ CallsAre'
    BY <1>1, <2>4, <2>c, CallsMove
  <2> QED
    BY <1>1, <1>3, <1>s, <2>3, <2>5 DEF Limit, Types
<1>a. ASSUME NEW v \in {"created", "full", "refused", "failed"}, Answer(c, v), call[c].pc \in {"handle", "allocate"}
      PROVE  call' \in [Calls -> Call] /\ CallsAre'
  <2>0. PICK w : w = [call[c] EXCEPT !.pc = "store", !.status = v]
    OBVIOUS
  <2>1. w \in Call /\ w.pc = "store" /\ w.family = 0 /\ w.status = v
    BY <1>0, <1>a, <2>0 DEF Call, CallIs, SessionPcs
  <2>2. call' = [call EXCEPT ![c] = w]
    BY <1>a, <2>0 DEF Answer
  <2>3. CallIs(w)'
    BY <2>1 DEF CallIs, SessionPcs
  <2> QED
    BY <1>1, <2>1, <2>2, <2>3, CallsMove
<1>4. CASE Handle(c)
  <2>0. call[c].pc = "handle" /\ UNCHANGED <<stamps, cache, passed, shared, unkept, left>>
    BY <1>4 DEF Handle
  <2>1. CASE UNCHANGED done /\ \E v \in {"refused", "failed"} : Answer(c, v)
    <3>1. call' \in [Calls -> Call] /\ CallsAre'
      BY <1>a, <2>0, <2>1
    <3> QED
      BY <1>1, <1>s, <2>0, <2>1, <3>1 DEF Types
  <2>2. CASE /\ Goto(c, "allocate")
             /\ done' = IF call[c].key = None THEN done ELSE Append(done, [key |-> call[c].key, at |-> now])
    <3>0. PICK w : w = [call[c] EXCEPT !.pc = "allocate"]
      OBVIOUS
    <3>1. w \in Call /\ w.pc = "allocate" /\ w.family = 0
      BY <1>0, <2>0, <3>0 DEF Call, CallIs, SessionPcs
    <3>2. call' = [call EXCEPT ![c] = w]
      BY <2>2, <3>0 DEF Goto
    <3>3. CallIs(w)'
      BY <3>1 DEF CallIs, SessionPcs
    <3>4. call' \in [Calls -> Call] /\ CallsAre'
      BY <1>1, <3>1, <3>2, <3>3, CallsMove
    <3>5. done' \in Seq([key : Keys, at : Nat]) /\ DOMAIN done \subseteq DOMAIN done'
      <4> DEFINE S == [key : Keys, at : Nat]
                 d == [key |-> call[c].key, at |-> now]
      <4>1. done \in Seq(S)
        BY DEF Types
      <4>2. CASE done' = done
        BY <4>1, <4>2
      <4>3. CASE call[c].key # None /\ done' = Append(done, d)
        <5>1. d \in S
          BY <1>0, <4>3 DEF Call, Types
        <5> HIDE DEF S, d
        <5>2. done' \in Seq(S) /\ Len(done') = Len(done) + 1 /\ Len(done) \in Nat
          BY <4>1, <4>3, <5>1, AppendProperties, LenProperties
        <5>3. DOMAIN done = 1 .. Len(done) /\ DOMAIN done' = 1 .. Len(done')
          BY <4>1, <5>2, LenProperties
        <5>4. DOMAIN done \subseteq DOMAIN done'
          BY <5>2, <5>3
        <5> QED
          BY <5>2, <5>4 DEF S
      <4> QED
        BY <2>2, <4>2, <4>3
    <3>6. unkept' \subseteq DOMAIN done'
      BY <2>0, <3>5 DEF Types
    <3> QED
      BY <1>1, <1>s, <2>0, <3>4, <3>5, <3>6 DEF Types
  <2> QED
    BY <1>4, <2>1, <2>2 DEF Handle
<1>6. CASE Allocate(c)
  <2>1. /\ call[c].pc = "allocate" /\ UNCHANGED <<stamps, cache, passed, done, shared, left>>
        /\ unkept' \subseteq DOMAIN done' /\ \E v \in {"created", "full", "failed"} : Answer(c, v)
    BY <1>6 DEF Allocate, Types
  <2>2. call' \in [Calls -> Call] /\ CallsAre'
    BY <1>a, <2>1
  <2> QED
    BY <1>1, <1>s, <2>1, <2>2 DEF Types
<1>5. CASE Store(c)
  <2>1. call' \in [Calls -> Call] /\ CallsAre'
    <3>1. AtRest \in Call /\ CallIs(AtRest)' /\ call' = [call EXCEPT ![c] = AtRest]
      BY <1>5 DEF Store, Return, AtRest, Call, CallIs, SessionPcs
    <3> QED
      BY <1>1, <3>1, CallsMove
  <2>2. cache' \in [Keys -> Entry \cup {None}]
    <3>1. CASE cache' = cache
      BY <3>1 DEF Types
    <3>2. CASE cache' # cache
      <4>1. /\ call[c].key # None /\ call[c].status # "failed"
            /\ cache' = [cache EXCEPT ![call[c].key] = [status |-> call[c].status, until |-> now + TTL]]
        BY <1>5, <3>2 DEF Store
      <4>2. now + TTL \in Nat
        <5>1. now \in Nat
          BY DEF Types
        <5> QED
          BY <5>1
      <4>v. call[c].status \in {"created", "full", "refused", "limited"}
        BY <1>0, <1>5, <4>1 DEF Store, Call, CallIs
      <4>3. [status |-> call[c].status, until |-> now + TTL] \in Entry
        BY <4>2, <4>v DEF Entry
      <4> QED
        BY <4>1, <4>3 DEF Types
    <3> QED
      BY <3>1, <3>2
  <2> QED
    BY <1>1, <1>5, <1>s, <2>1, <2>2 DEF Store, Types
<1> QED
  BY <1>2, <1>3, <1>4, <1>5, <1>6

\* a request that has done its part, and one that goes on
LEMMA ReturnTyped ==
  ASSUME Types, CallsAre, Longer, NEW c \in Calls, Return(c)
  PROVE  call' \in [Calls -> Call] /\ CallsAre'
<1>1. AtRest \in Call /\ CallIs(AtRest)' /\ call' = [call EXCEPT ![c] = AtRest]
  BY DEF Return, AtRest, Call, CallIs, SessionPcs
<1> QED
  BY <1>1, CallsMove

\* a request that begins with a session
LEMMA BeginTyped ==
  ASSUME Types, CallsAre, Longer, NEW c \in Calls, NEW w, NEW r \in Call, Begin(c, w, r), CallIs(r)'
  PROVE  call' \in [Calls -> Call] /\ CallsAre'
<1>1. call' = [call EXCEPT ![c] = r]
  BY DEF Begin
<1> QED
  BY <1>1, CallsMove

LEMMA TokenRows ==
  ASSUME Types
  PROVE  /\ DOMAIN tokens = 1 .. Len(tokens) /\ Len(tokens) \in Nat
         /\ \A k \in DOMAIN tokens : tokens[k] \in Token
         /\ \A f \in [1 .. Len(tokens) -> Token] : f \in Seq(Token)
<1>1. tokens \in Seq(Token)
  BY DEF Types
<1>2. DOMAIN tokens = 1 .. Len(tokens) /\ Len(tokens) \in Nat
  BY <1>1, LenProperties
<1>3. \A k \in DOMAIN tokens : tokens[k] \in Token
  BY <1>1, <1>2, ElementOfSeq
<1>4. \A f \in [1 .. Len(tokens) -> Token] : f \in Seq(Token)
  BY <1>2, IsASeq
<1> QED
  BY <1>2, <1>3, <1>4

\* a statement that sets flags in some rows
LEMMA FlagsSet ==
  ASSUME Types, UNCHANGED users, DOMAIN tokens' = DOMAIN tokens,
         \A k \in DOMAIN tokens : \E v, w \in BOOLEAN :
           tokens'[k] = [of |-> tokens[k].of, family |-> tokens[k].family, revoked |-> v, expired |-> w],
         tokens' = [k \in DOMAIN tokens |-> tokens'[k]]
  PROVE  FlagsOnly
<1>1. ASSUME NEW k \in DOMAIN tokens
      PROVE  /\ tokens'[k] \in Token /\ tokens'[k].family = tokens[k].family
             /\ tokens'[k].of = tokens[k].of
  <2>1. tokens[k] \in Token
    BY TokenRows
  <2>2. PICK v, w \in BOOLEAN :
          tokens'[k] = [of |-> tokens[k].of, family |-> tokens[k].family, revoked |-> v, expired |-> w]
    OBVIOUS
  <2> QED
    BY <2>1, <2>2 DEF Token
<1>2. tokens' \in Seq(Token)
  BY <1>1, TokenRows
<1> QED
  BY <1>1, <1>2 DEF FlagsOnly

LEMMA RevokeFlags ==
  ASSUME Typed,
         \/ \E c \in Calls : Revoke(c) \/ RevokeFamily(c)
         \/ \E u \in Accounts : RevokeAllForUser(u)
         \/ \E k \in DOMAIN tokens : Expire(k)
  PROVE  FlagsOnly
<1> USE DEF Typed
<1>0. UNCHANGED users
  BY DEF Revoke, RevokeFamily, RevokeAllForUser, Expire
<1>t. \A k \in DOMAIN tokens : tokens[k] \in Token
  BY TokenRows
<1>1. CASE \E k \in DOMAIN tokens : \/ tokens' = [tokens EXCEPT ![k].revoked = TRUE]
                                    \/ tokens' = [tokens EXCEPT ![k].expired = TRUE]
  <2>1. /\ DOMAIN tokens' = DOMAIN tokens
        /\ tokens' = [k \in DOMAIN tokens |-> tokens'[k]]
    BY <1>1 DEF Types
  <2>2. ASSUME NEW k \in DOMAIN tokens
        PROVE  \E v, w \in BOOLEAN : tokens'[k] =
                 [of |-> tokens[k].of, family |-> tokens[k].family, revoked |-> v, expired |-> w]
    <3>1. \/ tokens'[k] = tokens[k]
          \/ tokens'[k] = [tokens[k] EXCEPT !.revoked = TRUE]
          \/ tokens'[k] = [tokens[k] EXCEPT !.expired = TRUE]
      BY <1>1 DEF Types
    <3> QED
      BY <1>t, <3>1 DEF Token
  <2> QED
    BY <1>0, <2>1, <2>2, FlagsSet
<1>2. ASSUME NEW g, tokens' = [k \in DOMAIN tokens |-> [tokens[k] EXCEPT !.revoked = @ \/ k \in g]]
      PROVE  FlagsOnly
  <2>1. /\ DOMAIN tokens' = DOMAIN tokens
        /\ tokens' = [k \in DOMAIN tokens |-> tokens'[k]]
    BY <1>2
  <2>2. ASSUME NEW k \in DOMAIN tokens
        PROVE  \E v, w \in BOOLEAN : tokens'[k] =
                 [of |-> tokens[k].of, family |-> tokens[k].family, revoked |-> v, expired |-> w]
    <3>1. PICK v \in BOOLEAN : v = (tokens[k].revoked \/ k \in g)
      OBVIOUS
    <3>2. tokens'[k] = [tokens[k] EXCEPT !.revoked = v]
      BY <1>2, <3>1
    <3> QED
      BY <1>t, <3>2 DEF Token
  <2> QED
    BY <1>0, <2>1, <2>2, FlagsSet
<1>3. CASE (\E c \in Calls : Revoke(c)) \/ \E k \in DOMAIN tokens : Expire(k)
  BY <1>1, <1>3 DEF Revoke, Expire, CallsAre, CallIs
<1>4. ASSUME NEW c \in Calls, RevokeFamily(c) PROVE FlagsOnly
  <2> DEFINE g == {k \in DOMAIN tokens : tokens[k].family = call[c].family}
  <2>1. tokens' = [k \in DOMAIN tokens |-> [tokens[k] EXCEPT !.revoked = @ \/ tokens[k].family = call[c].family]]
    BY <1>4 DEF RevokeFamily
  <2>2. \A k \in DOMAIN tokens : (tokens[k].family = call[c].family) = (k \in g)
    OBVIOUS
  <2> HIDE DEF g
  <2>3. tokens' = [k \in DOMAIN tokens |-> [tokens[k] EXCEPT !.revoked = @ \/ k \in g]]
    BY <2>1, <2>2
  <2>4. PICK h : h = g
    OBVIOUS
  <2> QED
    BY <1>2, <2>3, <2>4
<1>5. ASSUME NEW u \in Accounts, RevokeAllForUser(u) PROVE FlagsOnly
  <2> DEFINE g == {k \in DOMAIN tokens : tokens[k].of = u}
  <2>1. tokens' = [k \in DOMAIN tokens |-> [tokens[k] EXCEPT !.revoked = @ \/ tokens[k].of = u]]
    BY <1>5 DEF RevokeAllForUser
  <2>2. \A k \in DOMAIN tokens : (tokens[k].of = u) = (k \in g)
    OBVIOUS
  <2> HIDE DEF g
  <2>3. tokens' = [k \in DOMAIN tokens |-> [tokens[k] EXCEPT !.revoked = @ \/ k \in g]]
    BY <2>1, <2>2
  <2>4. PICK h : h = g
    OBVIOUS
  <2> QED
    BY <1>2, <2>3, <2>4
<1> QED
  BY <1>3, <1>4, <1>5

\* the last token is new
LEMMA TokenAdded ==
  ASSUME Typed, NEW t \in Token, tokens' = Append(tokens, t)
  PROVE  /\ tokens' \in Seq(Token) /\ Len(tokens') = Len(tokens) + 1
         /\ DOMAIN tokens' = DOMAIN tokens \cup {Len(tokens) + 1}
         /\ \A k \in DOMAIN tokens : tokens'[k] = tokens[k]
         /\ tokens'[Len(tokens) + 1] = t
<1>1. tokens \in Seq(Token) /\ Len(tokens) \in Nat /\ DOMAIN tokens = 1 .. Len(tokens)
  BY TokenRows DEF Typed, Types
<1>2. /\ tokens' \in Seq(Token) /\ Len(tokens') = Len(tokens) + 1
      /\ \A i \in 1 .. Len(tokens) : tokens'[i] = tokens[i]
      /\ tokens'[Len(tokens) + 1] = t
  BY <1>1, AppendProperties
<1>3. DOMAIN tokens' = 1 .. Len(tokens) + 1
  BY <1>2, LenProperties
<1> QED
  BY <1>1, <1>2, <1>3

LEMMA CreateTokenTyped ==
  ASSUME Typed, NEW c \in Calls, CreateToken(c)
  PROVE  Typed' /\ Longer
<1> USE DEF Typed
<1> DEFINE n == Len(tokens)
<1>1. call[c] \in Call /\ CallIs(call[c]) /\ call[c].pc = "issue"
  BY DEF CreateToken, Types, CallsAre
<1>2. n \in Nat /\ DOMAIN tokens = 1 .. n
  BY TokenRows
<1>3. PICK f \in Nat : f = IF call[c].family = 0 THEN n + 1 ELSE call[c].family
  <2>1. call[c].family \in Nat
    BY <1>1 DEF Call
  <2>2. n + 1 \in Nat
    BY <1>2
  <2> HIDE DEF n
  <2> QED
    BY <2>1, <2>2
<1>4. call[c].of \in users /\ call[c].of \in Accounts
  BY <1>1 DEF CallIs, Types
<1>5. PICK t \in Token : t = [of |-> call[c].of, revoked |-> FALSE, expired |-> FALSE, family |-> f]
  BY <1>4 DEF Token
<1>6. tokens' = Append(tokens, t)
  BY <1>3, <1>5 DEF CreateToken
<1>7. /\ tokens' \in Seq(Token) /\ DOMAIN tokens' = DOMAIN tokens \cup {n + 1}
      /\ \A k \in DOMAIN tokens : tokens'[k] = tokens[k]
      /\ tokens'[n + 1] = t
  BY <1>6, TokenAdded
<1>u. users' = users /\ UNCHANGED <<now, requests, left>>
  BY DEF CreateToken
<1>8. Longer
  BY <1>7, <1>u DEF Longer, Types
<1>9. call' \in [Calls -> Call] /\ CallsAre'
  BY <1>8, ReturnTyped DEF CreateToken
<1>10. TokensAre'
  <2>1. f \in 1 .. n + 1
    <3>1. CASE call[c].family # 0
      <4>1. PICK k \in DOMAIN tokens : tokens[k].family = call[c].family
        BY <1>1, <3>1 DEF CallIs
      <4> QED
        BY <1>2, <1>3, <3>1, <4>1 DEF TokensAre
    <3> QED
      BY <1>2, <1>3, <3>1
  <2>2. t.of \in users /\ t.family = f /\ t.of = call[c].of
    BY <1>4, <1>5
  <2>3. ASSUME NEW k \in DOMAIN tokens, tokens[k].family = f PROVE tokens[k].of = t.of
    <3>1. k \in 1 .. n /\ tokens[k].family \in 1 .. k
      BY <1>2 DEF TokensAre
    <3>2. f # n + 1
      BY <1>2, <2>3, <3>1
    <3>3. call[c].family # 0 /\ f = call[c].family
      BY <1>3, <3>2
    <3>4. PICK l \in DOMAIN tokens : tokens[l].family = f /\ tokens[l].of = call[c].of
      BY <1>1, <3>3 DEF CallIs
    <3> QED
      BY <2>2, <2>3, <3>4 DEF TokensAre
  <2>4. ASSUME NEW k \in DOMAIN tokens'
        PROVE  tokens'[k].of \in users' /\ tokens'[k].family \in 1 .. k
    BY <1>2, <1>7, <1>u, <2>1, <2>2 DEF TokensAre
  <2>5. ASSUME NEW k \in DOMAIN tokens', NEW l \in DOMAIN tokens', tokens'[k].family = tokens'[l].family
        PROVE  tokens'[k].of = tokens'[l].of
    BY <1>7, <2>2, <2>3, <2>5 DEF TokensAre
  <2> QED
    BY <2>4, <2>5 DEF TokensAre
<1>11. Types'
  BY <1>7, <1>9, <1>u DEF Types, requests
<1> QED
  BY <1>8, <1>9, <1>10, <1>11

\* statements that set flags
LEMMA RowsTyped ==
  ASSUME Typed,
         \/ \E c \in Calls : Revoke(c) \/ RevokeFamily(c)
         \/ \E u \in Accounts : RevokeAllForUser(u)
         \/ \E k \in DOMAIN tokens : Expire(k)
  PROVE  Typed' /\ Longer
<1> USE DEF Typed
<1>1. FlagsOnly
  BY RevokeFlags
<1>2. TokensAre' /\ Longer
  BY <1>1, FlagsKeep
<1>3. call' \in [Calls -> Call] /\ CallsAre'
  <2>1. CASE UNCHANGED call
    BY <1>2, <2>1, CallsStay DEF Types
  <2>2. ASSUME NEW c \in Calls, RevokeFamily(c) PROVE call' \in [Calls -> Call] /\ CallsAre'
    BY <1>2, <2>2, ReturnTyped DEF RevokeFamily
  <2>3. ASSUME NEW c \in Calls, Revoke(c) PROVE call' \in [Calls -> Call] /\ CallsAre'
    <3> DEFINE r == [call[c] EXCEPT !.pc = "issue"]
    <3>1. call[c] \in Call /\ CallIs(call[c]) /\ call[c].pc = "revoke"
      BY <2>3 DEF Revoke, Types, CallsAre
    <3>2. r \in Call /\ call' = [call EXCEPT ![c] = r] /\ CallIs(r)
      BY <2>3, <3>1 DEF Revoke, Goto, Call, CallIs, SessionPcs
    <3> HIDE DEF r
    <3>4. PICK w : w = r
      OBVIOUS
    <3>5. CallIs(w)'
      BY <1>2, <3>2, <3>4, CallStays
    <3> QED
      BY <1>2, <3>2, <3>4, <3>5, CallsMove
  <2> QED
    BY <2>1, <2>2, <2>3 DEF RevokeAllForUser, Expire
<1>4. left' \in [{"logins", "refreshes", "logouts", "expiries", "submits", "sweeps", "ticks", "restarts"} -> Nat]
  BY SpendType DEF Revoke, RevokeFamily, RevokeAllForUser, Expire, Types
<1>5. UNCHANGED <<users, now, requests>>
  BY DEF Revoke, RevokeFamily, RevokeAllForUser, Expire
<1> QED
  BY <1>1, <1>2, <1>3, <1>4, <1>5 DEF Types, requests, FlagsOnly

\* requests that read the rows
LEMMA SessionTyped ==
  ASSUME Typed, NEW c \in Calls,
         \/ \E u \in Accounts : Register(c, u) \/ Login(c, u)
         \/ \E k \in DOMAIN tokens : FindToken(c, k) \/ Logout(c, k)
         \/ CreateUser(c) \/ Revoke(c) \/ RevokeFamily(c)
  PROVE  Typed' /\ Longer
<1> USE DEF Typed
<1>t. \A k \in DOMAIN tokens : tokens[k] \in Token /\ k \in Nat
  BY TokenRows
<1>1. ASSUME NEW u \in Accounts, Register(c, u) \/ Login(c, u) PROVE Typed' /\ Longer
  <2> DEFINE r1 == [AtRest EXCEPT !.pc = "account", !.of = u]
             r2 == [AtRest EXCEPT !.pc = "issue", !.of = u]
  <2>1. UNCHANGED <<sessions, now, requests>>
    BY <1>1 DEF Register, Login
  <2>2. TokensAre' /\ Longer
    BY <2>1, TokensStay DEF sessions
  <2>3. \/ Begin(c, "logins", r1) \/ (Begin(c, "logins", r2) /\ u \in users)
    BY <1>1 DEF Register, Login
  <2>4. r1 \in Call /\ CallIs(r1)' /\ r2 \in Call /\ (u \in users => CallIs(r2)')
    BY <2>1 DEF AtRest, Call, CallIs, SessionPcs, sessions
  <2> HIDE DEF r1, r2
  <2>5. call' \in [Calls -> Call] /\ CallsAre'
    BY <2>2, <2>3, <2>4, BeginTyped
  <2>6. left' \in [{"logins", "refreshes", "logouts", "expiries", "submits", "sweeps", "ticks", "restarts"} -> Nat]
    BY <2>3, SpendType DEF Begin
  <2> QED
    BY <2>1, <2>2, <2>5, <2>6 DEF Types, sessions, requests
<1>2. ASSUME NEW k \in DOMAIN tokens, FindToken(c, k) \/ Logout(c, k) PROVE Typed' /\ Longer
  <2> DEFINE t == tokens[k]
             b == [AtRest EXCEPT !.of = t.of, !.family = t.family, !.tok = k]
             r1 == [b EXCEPT !.pc = IF t.revoked \/ t.expired THEN "endfamily" ELSE "revoke"]
             r2 == [AtRest EXCEPT !.pc = "endfamily", !.of = t.of, !.family = t.family]
  <2>1. UNCHANGED <<users, tokens, now, requests>>
    BY <1>2 DEF FindToken, Logout, sessions
  <2>2. TokensAre' /\ Longer
    BY <2>1, TokensStay
  <2>3. \/ Begin(c, "refreshes", r1) \/ Begin(c, "logouts", r2)
    BY <1>2 DEF FindToken, Logout
  <2>4. t \in Token /\ t.of \in users /\ t.family # 0 /\ k \in Nat
    BY <1>t DEF TokensAre
  <2>5. r1 \in Call /\ r2 \in Call
    BY <2>4 DEF AtRest, Call, Token
  <2>6. call' \in [Calls -> Call] /\ CallsAre'
    <3>1. PICK r : (r = r1 /\ Begin(c, "refreshes", r)) \/ (r = r2 /\ Begin(c, "logouts", r))
      BY <2>3
    <3>2. r \in Call /\ r.pc \in {"endfamily", "revoke"} /\ r.of = t.of /\ r.family = t.family /\ r.key = None
          /\ (r.pc = "revoke" => r.tok = k)
      BY <2>5, <3>1 DEF AtRest
    <3>3. k \in DOMAIN tokens' /\ tokens'[k] = t /\ users' = users
      BY <2>1
    <3>4. CallIs(r)'
      <4> HIDE DEF t, r1, r2
      <4> QED
        BY <2>4, <3>2, <3>3 DEF CallIs, SessionPcs
    <3> HIDE DEF r1, r2
    <3> QED
      BY <2>2, <3>1, <3>2, <3>4, BeginTyped
  <2> HIDE DEF r1, r2
  <2>7. left' \in [{"logins", "refreshes", "logouts", "expiries", "submits", "sweeps", "ticks", "restarts"} -> Nat]
    BY <2>3, SpendType DEF Begin
  <2> QED
    BY <2>1, <2>2, <2>6, <2>7 DEF Types, requests
<1>3. CASE CreateUser(c)
  <2>1. call[c] \in Call /\ CallIs(call[c]) /\ call[c].of \in Accounts
    BY <1>3 DEF CreateUser, Types, CallsAre, CallIs
  <2>2. UNCHANGED <<tokens, now, requests, left>> /\ users' = users \cup {call[c].of}
    BY <1>3 DEF CreateUser
  <2>3. Longer /\ TokensAre'
    BY <2>1, <2>2, SMTT(30) DEF Longer, TokensAre, Types
  <2>4. call' \in [Calls -> Call] /\ CallsAre'
    <3>1. CASE Return(c)
      BY <2>3, <3>1, ReturnTyped
    <3>2. CASE Goto(c, "issue")
      <4> DEFINE r == [call[c] EXCEPT !.pc = "issue"]
      <4>1. r \in Call /\ call' = [call EXCEPT ![c] = r]
        BY <2>1, <3>2 DEF Goto, Call
      <4>2. /\ r.pc = "issue" /\ r.of = call[c].of /\ r.family = 0 /\ r.key = None
            /\ call[c].of \in users'
        BY <1>3, <2>1, <2>2 DEF CallIs, CreateUser, Call, SessionPcs
      <4> HIDE DEF r
      <4>w. PICK w : w = r /\ w.of = r.of
        OBVIOUS
      <4>3. CallIs(w)'
        BY <4>2, <4>w DEF CallIs, SessionPcs
      <4> QED
        BY <2>3, <4>1, <4>3, <4>w, CallsMove
    <3> QED
      BY <1>3, <3>1, <3>2 DEF CreateUser
  <2> QED
    BY <2>1, <2>2, <2>3, <2>4 DEF Types, requests
<1>4. CASE Revoke(c) \/ RevokeFamily(c)
  BY <1>4, RowsTyped
<1> QED
  BY <1>1, <1>2, <1>3, <1>4

LEMMA UpkeepTyped ==
  ASSUME Typed, SweepCache \/ SweepStamps \/ Tick
  PROVE  Typed'
<1> USE DEF Typed
<1>1. UNCHANGED <<sessions, call, passed, done, shared, unkept>>
  BY DEF SweepCache, SweepStamps, Tick, requests
<1>2. TokensAre' /\ Longer
  BY <1>1, TokensStay DEF sessions
<1>3. CallsAre'
  BY <1>1, <1>2, CallsStay
<1>4. left' \in [{"logins", "refreshes", "logouts", "expiries", "submits", "sweeps", "ticks", "restarts"} -> Nat]
  BY SpendType DEF SweepCache, SweepStamps, Tick
<1>5. now' \in Nat
  BY DEF SweepCache, SweepStamps, Tick, Types
<1>6. stamps' \in [Accounts -> Seq(Nat)]
  <2>1. \A u \in Accounts : After(stamps[u], now - Keep) \in Seq(Nat)
    <3>1. now - Keep \in Int
      BY DEF Types
    <3> QED
      BY <3>1, AfterType DEF Types
  <2> QED
    BY <2>1 DEF SweepCache, SweepStamps, Tick, requests, Types
<1>7. cache' \in [Keys -> Entry \cup {None}]
  BY DEF SweepCache, SweepStamps, Tick, requests, Types
<1> QED
  BY <1>1, <1>2, <1>3, <1>4, <1>5, <1>6, <1>7 DEF Types, sessions

LEMMA RestartTyped ==
  ASSUME Typed, Restart
  PROVE  Typed'
<1> USE DEF Typed
<1>1. UNCHANGED <<sessions, now, done, shared>> /\ call' = [c \in Calls |-> AtRest]
  BY DEF Restart
<1>2. TokensAre' /\ Longer
  BY <1>1, TokensStay DEF sessions
<1>3. AtRest \in Call /\ CallIs(AtRest)'
  BY DEF AtRest, Call, CallIs, SessionPcs
<1>4. call' \in [Calls -> Call]
  BY <1>1, <1>3
<1>5. ASSUME NEW c \in Calls PROVE CallIs(call[c])'
  <2>1. call'[c] = AtRest
    BY <1>1
  <2> QED
    BY <1>3, <2>1 DEF CallIs
<1>6. CallsAre'
  BY <1>5 DEF CallsAre
<1>7. left' \in [{"logins", "refreshes", "logouts", "expiries", "submits", "sweeps", "ticks", "restarts"} -> Nat]
  BY SpendType DEF Restart
<1>8. /\ stamps' \in [Accounts -> Seq(Nat)] /\ passed' \in [Accounts -> Seq(Nat)]
      /\ cache' \in [Keys -> Entry \cup {None}]
  <2>1. << >> \in Seq(Nat)
    OBVIOUS
  <2> QED
    BY <2>1 DEF Restart
<1>9. unkept' \subseteq DOMAIN done'
  BY DEF Restart
<1> QED
  BY <1>1, <1>2, <1>4, <1>6, <1>7, <1>8, <1>9 DEF Types, sessions

LEMMA InitTyped == Init => Typed
<1> SUFFICES ASSUME Init PROVE Typed
  OBVIOUS
<1>1. \A c \in Calls : call[c] = AtRest
  BY DEF Init
<1>2. CallsAre
  BY <1>1, AtRestType DEF CallsAre
<1>3. call \in [Calls -> Call]
  BY AtRestType DEF Init
<1>4. tokens = << >> /\ tokens \in Seq(Token) /\ DOMAIN tokens = {}
  BY DEF Init
<1>5. TokensAre
  BY <1>4 DEF TokensAre
<1> QED
  BY <1>2, <1>3, <1>4, <1>5, WebAccessConstantsOK DEF Init, Typed, Types

LEMMA NextTyped == Typed /\ [Next]_vars => Typed'
<1> SUFFICES ASSUME Typed, [Next]_vars PROVE Typed'
  OBVIOUS
<1>1. CASE UNCHANGED vars
  <2>1. TokensAre' /\ Longer
    BY <1>1, TokensStay DEF vars, sessions, Typed
  <2>2. CallsAre'
    BY <1>1, <2>1, CallsStay DEF vars, Typed
  <2> QED
    BY <1>1, <2>1, <2>2 DEF vars, sessions, requests, Typed, Types
<1>2. ASSUME NEW c \in Calls,
             \/ Step(c)
             \/ \E u \in Accounts : \/ Register(c, u) \/ Login(c, u)
                                    \/ \E k \in Keys \cup {None} : Submit(c, u, k)
             \/ \E k \in DOMAIN tokens : FindToken(c, k) \/ Logout(c, k)
      PROVE  Typed'
  BY <1>2, SessionTyped, CreateTokenTyped, RequestTyped DEF Step
<1>3. CASE SweepCache \/ SweepStamps \/ Tick
  BY <1>3, UpkeepTyped
<1>4. CASE (\E u \in Accounts : RevokeAllForUser(u)) \/ \E k \in DOMAIN tokens : Expire(k)
  BY <1>4, RowsTyped
<1> QED
  BY <1>1, <1>2, <1>3, <1>4, RestartTyped DEF Next

-----------------------------------------------------------------------------
(* Sessions: one token to refresh                                          *)

\* one refresh of a family at a time, and its token the only one
Once(f) == /\ \A k, l \in Live(f) : k = l
           /\ \A c, o \in Rotating(f) : c = o
           /\ \A c \in Rotating(f) : IF call[c].pc = "issue" THEN Live(f) = {} ELSE Live(f) \subseteq {call[c].tok}
Over(f) == Live(f) = {} /\ Rotating(f) = {}

Rotation == /\ forked \cup ended \subseteq 1 .. Len(tokens)
            /\ \A f \in (1 .. Len(tokens)) \ forked : Once(f)
            /\ \A f \in ended \ late : Over(f)

\* a step that adds nothing to a family
Calm(f) == /\ \A k \in DOMAIN tokens' : tokens'[k].family = f /\ ~tokens'[k].revoked =>
                k \in DOMAIN tokens /\ tokens[k].family = f /\ ~tokens[k].revoked
           /\ \A c \in Calls : call'[c].pc \in {"revoke", "issue"} /\ call'[c].family = f => call'[c] = call[c]

LEMMA CalmKeeps ==
  ASSUME NEW f, Calm(f)
  PROVE  /\ Live(f)' \subseteq Live(f) /\ Rotating(f)' \subseteq Rotating(f)
         /\ Once(f) => Once(f)'
         /\ Over(f) => Over(f)'
<1>1. Live(f)' \subseteq Live(f)
  BY DEF Calm, Live
<1>2. Rotating(f)' \subseteq Rotating(f) /\ \A c \in Rotating(f)' : call'[c] = call[c]
  BY DEF Calm, Rotating
<1>3. ASSUME Once(f) PROVE Once(f)'
  <2>1. \A c \in Rotating(f)' : IF call'[c].pc = "issue" THEN Live(f)' = {} ELSE Live(f)' \subseteq {call'[c].tok}
    BY <1>1, <1>2, <1>3 DEF Once
  <2>2. (\A k, l \in Live(f)' : k = l) /\ (\A c, o \in Rotating(f)' : c = o)
    BY <1>1, <1>2, <1>3 DEF Once
  <2> QED
    BY <2>1, <2>2 DEF Once
<1>4. Over(f) => Over(f)'
  BY <1>1, <1>2 DEF Over
<1> QED
  BY <1>1, <1>2, <1>3, <1>4

\* a step that leaves the sessions alone, but for requests that rotate nothing
LEMMA CalmRotation ==
  ASSUME Typed, Rotation, Len(tokens') = Len(tokens), UNCHANGED forked,
         \A f \in 1 .. Len(tokens) : Calm(f),
         ended' \subseteq 1 .. Len(tokens),
         \A f \in ended' \ late' : f \in ended \ late \/ Over(f)'
  PROVE  Rotation'
<1>1. \A f \in (1 .. Len(tokens)) \ forked : Once(f)'
  BY CalmKeeps DEF Rotation
<1>2. ASSUME NEW f \in ended' \ late' PROVE Over(f)'
  <2>1. f \in 1 .. Len(tokens)
    OBVIOUS
  <2> QED
    BY <1>2, <2>1, CalmKeeps DEF Rotation
<1> QED
  BY <1>1, <1>2 DEF Rotation

LEMMA OthersRotation ==
  ASSUME Typed, Rotation,
         \/ UNCHANGED <<sessions, call>> \/ SweepCache \/ SweepStamps \/ Tick
         \/ \E c \in Calls :
              \/ CreateUser(c) \/ Limit(c) \/ Handle(c) \/ Allocate(c) \/ Store(c)
              \/ \E u \in Accounts : \/ Register(c, u) \/ Login(c, u)
                                     \/ \E k \in Keys \cup {None} : Submit(c, u, k)
              \/ \E k \in DOMAIN tokens : Logout(c, k)
         \/ \E k \in DOMAIN tokens : Expire(k)
  PROVE  Rotation'
<1>0. UNCHANGED <<forked, ended, late>>
  BY DEF SweepCache, SweepStamps, Tick, CreateUser, Limit, Handle, Allocate, Store, Register, Login, Submit, Logout,
         Expire, sessions
<1>1. Len(tokens') = Len(tokens) /\ DOMAIN tokens' = DOMAIN tokens
      /\ \A k \in DOMAIN tokens : tokens'[k].family = tokens[k].family /\ tokens'[k].revoked = tokens[k].revoked
  <2>1. CASE UNCHANGED tokens
    BY <2>1
  <2>2. ASSUME NEW k \in DOMAIN tokens, Expire(k)
        PROVE  Len(tokens') = Len(tokens) /\ DOMAIN tokens' = DOMAIN tokens
               /\ \A l \in DOMAIN tokens : tokens'[l].family = tokens[l].family /\ tokens'[l].revoked = tokens[l].revoked
    <3>1. FlagsOnly
      BY <2>2, RevokeFlags
    <3>2. Len(tokens') = Len(tokens)
      BY <3>1, TokenRows, LenProperties DEF FlagsOnly, Typed
    <3>3. \A l \in DOMAIN tokens : tokens[l] \in Token
      BY TokenRows DEF Typed
    <3> QED
      BY <2>2, <3>1, <3>2, <3>3 DEF Expire, FlagsOnly, Typed, Types, Token
  <2> QED
    BY <2>1, <2>2 DEF SweepCache, SweepStamps, Tick, CreateUser, Limit, Handle, Allocate, Store, Register, Login, Submit,
                      Logout, sessions
<1>2. ASSUME NEW f \in 1 .. Len(tokens), NEW c \in Calls, call'[c].pc \in {"revoke", "issue"}, call'[c].family = f
      PROVE  call'[c] = call[c]
  <2>1. CASE UNCHANGED call
    BY <2>1
  <2>m. SUFFICES ASSUME ~ UNCHANGED call PROVE call'[c] = call[c]
    BY <2>1
  <2>2. PICK o \in Calls : \E r : /\ call' = [call EXCEPT ![o] = r]
                                  /\ r.pc \notin {"revoke", "issue"} \/ r.family = 0
    <3>1. ASSUME NEW o \in Calls, CreateUser(o)
          PROVE  \E r : /\ call' = [call EXCEPT ![o] = r]
                        /\ r.pc \notin {"revoke", "issue"} \/ r.family = 0
      <4>1. call[o] \in Call /\ CallIs(call[o]) /\ call[o].pc = "account"
        BY <3>1 DEF CreateUser, Typed, Types, CallsAre
      <4>2. call[o].family = 0
        BY <4>1 DEF CallIs
      <4> DEFINE w == [call[o] EXCEPT !.pc = "issue"]
      <4>3. w.family = 0
        BY <4>1, <4>2 DEF Call
      <4>4. call' = [call EXCEPT ![o] = AtRest] \/ call' = [call EXCEPT ![o] = w]
        BY <3>1 DEF CreateUser, Return, Goto
      <4>5. AtRest.family = 0
        BY DEF AtRest
      <4> HIDE DEF w
      <4> QED
        BY <4>3, <4>4, <4>5
    <3>2. ASSUME NEW o \in Calls, Limit(o) \/ Handle(o) \/ Allocate(o)
          PROVE  \E r : /\ call' = [call EXCEPT ![o] = r]
                        /\ r.pc \notin {"revoke", "issue"} \/ r.family = 0
      <4>1. call[o] \in Call
        BY DEF Typed, Types
      <4>2. PICK v \in {"store", "handle", "allocate"} : \E w :
              call' = [call EXCEPT ![o].pc = v, ![o].status = w] \/ call' = [call EXCEPT ![o].pc = v]
        BY <3>2 DEF Limit, Handle, Allocate, Answer, Goto
      <4>w. PICK w : call' = [call EXCEPT ![o].pc = v, ![o].status = w] \/ call' = [call EXCEPT ![o].pc = v]
        BY <4>2
      <4> DEFINE r1 == [call[o] EXCEPT !.pc = v, !.status = w]
                 r2 == [call[o] EXCEPT !.pc = v]
      <4>3. r1.pc = v /\ r2.pc = v
        BY <4>1 DEF Call
      <4>4. call' = [call EXCEPT ![o] = r1] \/ call' = [call EXCEPT ![o] = r2]
        BY <4>w
      <4> HIDE DEF r1, r2
      <4> QED
        BY <4>3, <4>4
    <3>3. ASSUME NEW o \in Calls, Store(o)
          PROVE  \E r : /\ call' = [call EXCEPT ![o] = r]
                        /\ r.pc \notin {"revoke", "issue"} \/ r.family = 0
      <4>1. call' = [call EXCEPT ![o] = AtRest] /\ AtRest.family = 0
        BY <3>3 DEF Store, Return, AtRest
      <4> QED
        BY <4>1
    <3>4. ASSUME NEW o \in Calls, NEW u \in Accounts, NEW k \in Keys \cup {None},
                 Register(o, u) \/ Login(o, u) \/ Submit(o, u, k)
          PROVE  \E r : /\ call' = [call EXCEPT ![o] = r]
                        /\ r.pc \notin {"revoke", "issue"} \/ r.family = 0
      <4> DEFINE r1 == [AtRest EXCEPT !.pc = "account", !.of = u]
                 r2 == [AtRest EXCEPT !.pc = "issue", !.of = u]
                 r3 == [AtRest EXCEPT !.pc = "limit", !.of = u, !.key = k]
      <4>1. \/ call' = [call EXCEPT ![o] = r1] \/ call' = [call EXCEPT ![o] = r2]
            \/ call' = [call EXCEPT ![o] = r3]
        BY <2>m, <3>4 DEF Register, Login, Submit, Begin
      <4>2. r1.family = 0 /\ r2.family = 0 /\ r3.family = 0
        BY DEF AtRest
      <4> HIDE DEF r1, r2, r3
      <4> QED
        BY <4>1, <4>2
    <3>5. ASSUME NEW o \in Calls, NEW k \in DOMAIN tokens, Logout(o, k)
          PROVE  \E r : /\ call' = [call EXCEPT ![o] = r]
                        /\ r.pc \notin {"revoke", "issue"} \/ r.family = 0
      <4>1. PICK r : /\ r = [AtRest EXCEPT !.pc = "endfamily", !.of = tokens[k].of, !.family = tokens[k].family]
                     /\ call' = [call EXCEPT ![o] = r]
        BY <3>5 DEF Logout, Begin
      <4>2. r.pc = "endfamily"
        BY <4>1 DEF AtRest
      <4> QED
        BY <4>1, <4>2
    <3> QED
      BY <2>m, <3>1, <3>2, <3>3, <3>4, <3>5 DEF SweepCache, SweepStamps, Tick, requests, sessions, Expire
  <2>3. PICK r : /\ call' = [call EXCEPT ![o] = r]
                 /\ r.pc \notin {"revoke", "issue"} \/ r.family = 0
    BY <2>2
  <2> QED
    BY <1>2, <2>1, <2>3 DEF Typed, Types
<1>3. \A f \in 1 .. Len(tokens) : Calm(f)
  BY <1>1, <1>2 DEF Calm
<1> QED
  BY <1>0, <1>1, <1>3, CalmRotation DEF Rotation

\* the requests under way are lost
LEMMA RestartRotation ==
  ASSUME Typed, Rotation, Restart
  PROVE  Rotation'
<1>1. UNCHANGED <<tokens, forked, ended, late>> /\ call' = [c \in Calls |-> AtRest]
  BY DEF Restart, sessions
<1>2. \A c \in Calls : call'[c].pc = "idle"
  BY <1>1 DEF AtRest
<1>3. \A f \in 1 .. Len(tokens) : Calm(f)
  BY <1>1, <1>2 DEF Calm
<1> QED
  BY <1>1, <1>3, CalmRotation DEF Rotation

\* a refresh finds the one live token of its family, and nobody else about to revoke it
LEMMA FindRotation ==
  ASSUME Typed, Rotation, NEW c \in Calls, NEW k \in DOMAIN tokens, FindToken(c, k)
  PROVE  Rotation'
<1> DEFINE t == tokens[k]
           good == ~t.revoked /\ ~t.expired
           b == [AtRest EXCEPT !.of = t.of, !.family = t.family, !.tok = k]
<1>1. PICK r : r = [b EXCEPT !.pc = IF t.revoked \/ t.expired THEN "endfamily" ELSE "revoke"]
  OBVIOUS
<1>2. /\ call[c].pc = "idle" /\ call' = [call EXCEPT ![c] = r]
      /\ forked' = IF good /\ \E o \in Rotating(t.family) : call[o].tok = k
                   THEN forked \cup {t.family} ELSE forked
      /\ UNCHANGED <<tokens, ended, late>>
  BY <1>1 DEF FindToken, Begin
<1>3. r.pc = (IF good THEN "revoke" ELSE "endfamily") /\ r.family = t.family /\ r.tok = k
  BY <1>1 DEF AtRest
<1>4. call \in [Calls -> Call] /\ t.family \in 1 .. Len(tokens) /\ Len(tokens) \in Nat
  BY TokenRows, SMTT(30) DEF Typed, Types, TokensAre
<1>5. call'[c] = r /\ \A o \in Calls \ {c} : call'[o] = call[o]
  BY <1>2, <1>4
<1>6. \A f \in 1 .. Len(tokens) : (f # t.family \/ ~good) => Calm(f)
  BY <1>2, <1>3, <1>5 DEF Calm
<1>7. forked \subseteq forked' /\ forked' \subseteq 1 .. Len(tokens)
  BY <1>2, <1>4 DEF Rotation
<1>h. ASSUME good, t.family \notin forked' PROVE Once(t.family)' /\ t.family \notin ended \ late
  <2>1. k \in Live(t.family)
    BY <1>h DEF Live
  <2>2. Once(t.family)
    BY <1>4, <1>7, <1>h DEF Rotation
  <2>3. \A o \in Rotating(t.family) : call[o].tok # k
    BY <1>2, <1>h
  <2>4. Rotating(t.family) = {} /\ Live(t.family) = {k}
    BY <2>1, <2>2, <2>3 DEF Once
  <2>5. PICK f : f = t.family
    OBVIOUS
  <2>6. Live(f)' = {k}
    BY <1>2, <2>4, <2>5 DEF Live
  <2>7. Rotating(f)' = {c}
    BY <1>3, <1>5, <1>h, <2>4, <2>5 DEF Rotating
  <2>8. Once(f)'
    BY <1>3, <1>5, <1>h, <2>6, <2>7 DEF Once
  <2>9. (t.family)' = f
    BY <1>2, <2>5
  <2>10. t.family \notin ended \ late
    BY <2>1 DEF Rotation, Over
  <2> HIDE DEF t, good
  <2> QED
    BY <2>8, <2>9, <2>10
<1>8. ASSUME NEW f \in (1 .. Len(tokens)) \ forked' PROVE Once(f)'
  <2>1. CASE good /\ f = t.family
    <3>1. Once(t.family)' /\ (t.family)' = f
      BY <1>2, <1>8, <1>h, <2>1
    <3> HIDE DEF t
    <3> QED
      BY <3>1
  <2>2. CASE ~ (good /\ f = t.family)
    BY <1>6, <1>7, <2>2, CalmKeeps DEF Rotation
  <2> QED
    BY <2>1, <2>2
<1>9. ASSUME NEW f \in ended \ late PROVE Over(f)'
  <2>1. Over(f) /\ f \in 1 .. Len(tokens)
    BY DEF Rotation
  <2>2. f # t.family \/ ~good
    <3>1. good => k \in Live(t.family)
      BY DEF Live
    <3> QED
      BY <2>1, <3>1 DEF Over
  <2> QED
    BY <1>6, <2>1, <2>2, CalmKeeps
<1> QED
  BY <1>2, <1>7, <1>8, <1>9 DEF Rotation

\* the refresh that has found a token revokes it
LEMMA RevokeRotation ==
  ASSUME Typed, Rotation, NEW c \in Calls, Revoke(c)
  PROVE  Rotation'
<1>1. call[c] \in Call /\ CallIs(call[c]) /\ call[c].pc = "revoke" /\ call \in [Calls -> Call]
  BY DEF Revoke, Typed, Types, CallsAre
<1>2. PICK f, k, r : /\ f = call[c].family /\ k = call[c].tok /\ r = [call[c] EXCEPT !.pc = "issue"]
  OBVIOUS
<1>3. /\ call' = [call EXCEPT ![c] = r] /\ tokens' = [tokens EXCEPT ![k].revoked = TRUE]
      /\ UNCHANGED <<forked, ended, late>>
  BY <1>2 DEF Revoke, Goto
<1>4. r.pc = "issue" /\ r.family = f /\ r.tok = k
  BY <1>1, <1>2 DEF Call
<1>5. k \in DOMAIN tokens /\ tokens[k].family = f
  BY <1>1, <1>2 DEF CallIs
<1>6. call'[c] = r /\ \A o \in Calls \ {c} : call'[o] = call[o]
  BY <1>1, <1>3
<1>t. Len(tokens') = Len(tokens) /\ DOMAIN tokens' = DOMAIN tokens
  BY RevokeFlags, TokenRows, LenProperties DEF FlagsOnly, Typed
<1>7. /\ tokens'[k].revoked /\ \A l \in DOMAIN tokens \ {k} : tokens'[l] = tokens[l]
      /\ \A l \in DOMAIN tokens : tokens'[l].family = tokens[l].family
  <2>1. tokens[k] \in Token
    BY <1>5, TokenRows DEF Typed
  <2>2. tokens'[k] = [tokens[k] EXCEPT !.revoked = TRUE]
    BY <1>3, <1>5
  <2>3. \A l \in DOMAIN tokens \ {k} : tokens'[l] = tokens[l]
    BY <1>3
  <2> QED
    BY <2>1, <2>2, <2>3 DEF Token
<1>8. \A g \in 1 .. Len(tokens) : g # f => Calm(g)
  BY <1>4, <1>5, <1>6, <1>7, <1>t DEF Calm
<1>9. c \in Rotating(f)
  BY <1>1, <1>2 DEF Rotating
<1>10. ASSUME Once(f) PROVE Once(f)'
  <2>1. Rotating(f) = {c} /\ Live(f) \subseteq {k}
    BY <1>1, <1>2, <1>9, <1>10 DEF Once
  <2>2. Rotating(f)' = {c}
    BY <1>4, <1>6, <2>1 DEF Rotating
  <2>3. Live(f)' = {}
    BY <1>5, <1>7, <1>t, <2>1 DEF Live
  <2> QED
    BY <1>4, <1>6, <2>2, <2>3 DEF Once
<1>11. \A g \in (1 .. Len(tokens)) \ forked : Once(g)'
  BY <1>8, <1>10, CalmKeeps DEF Rotation
<1>12. \A g \in ended \ late : Over(g)'
  BY <1>8, <1>9, CalmKeeps DEF Rotation, Over
<1> QED
  BY <1>3, <1>t, <1>11, <1>12 DEF Rotation

\* a family is not later than its tokens
LEMMA FamiliesBegin ==
  ASSUME Typed
  PROVE  /\ \A k \in DOMAIN tokens : tokens[k].family \in 1 .. Len(tokens)
         /\ \A c \in Calls : call[c].family # 0 => call[c].family \in 1 .. Len(tokens)
<1>1. DOMAIN tokens = 1 .. Len(tokens) /\ Len(tokens) \in Nat
  BY TokenRows DEF Typed
<1>2. \A k \in DOMAIN tokens : tokens[k].family \in 1 .. Len(tokens)
  BY <1>1 DEF Typed, TokensAre
<1> QED
  BY <1>2 DEF Typed, CallsAre, CallIs

\* the next token, when the family has no other
LEMMA CreateRotation ==
  ASSUME Typed, Rotation, NEW c \in Calls, CreateToken(c)
  PROVE  Rotation'
<1> DEFINE n == Len(tokens)
<1>1. call[c] \in Call /\ CallIs(call[c]) /\ call[c].pc = "issue" /\ call \in [Calls -> Call]
  BY DEF CreateToken, Typed, Types, CallsAre
<1>2. n \in Nat /\ DOMAIN tokens = 1 .. n
  BY TokenRows DEF Typed
<1>3. PICK f \in Nat : f = IF call[c].family = 0 THEN n + 1 ELSE call[c].family
  <2>1. call[c].family \in Nat
    BY <1>1 DEF Call
  <2>2. n + 1 \in Nat
    BY <1>2
  <2> HIDE DEF n
  <2> QED
    BY <2>1, <2>2
<1>4. call[c].of \in Accounts
  BY <1>1 DEF CallIs, Typed, Types
<1>5. PICK t \in Token : t = [of |-> call[c].of, revoked |-> FALSE, expired |-> FALSE, family |-> f]
  BY <1>4 DEF Token
<1>6. tokens' = Append(tokens, t) /\ call' = [call EXCEPT ![c] = AtRest] /\ UNCHANGED <<forked, ended, late>>
  BY <1>3, <1>5 DEF CreateToken, Return
<1>7. /\ tokens' \in Seq(Token) /\ DOMAIN tokens' = DOMAIN tokens \cup {n + 1} /\ Len(tokens') = n + 1
      /\ \A k \in DOMAIN tokens : tokens'[k] = tokens[k]
      /\ tokens'[n + 1] = t
  BY <1>6, TokenAdded
<1>8. call'[c].pc = "idle" /\ \A o \in Calls \ {c} : call'[o] = call[o]
  BY <1>1, <1>6 DEF AtRest
<1>9. \A g \in Nat : g # f => Calm(g)
  <2>1. ASSUME NEW g \in Nat, g # f, NEW k \in DOMAIN tokens', tokens'[k].family = g
        PROVE  k \in DOMAIN tokens /\ tokens'[k] = tokens[k]
    <3>1. t.family = f
      BY <1>5
    <3>2. k # n + 1
      BY <1>7, <2>1, <3>1
    <3> HIDE DEF n
    <3> QED
      BY <1>7, <3>2
  <2>2. \A o \in Calls : call'[o].pc \in {"revoke", "issue"} => call'[o] = call[o]
    BY <1>8
  <2> HIDE DEF n
  <2> QED
    BY <2>1, <2>2 DEF Calm
<1>10. CASE call[c].family # 0
  <2>1. f = call[c].family /\ c \in Rotating(f)
    BY <1>1, <1>3, <1>10 DEF Rotating
  <2>2. f \in 1 .. n
    BY <1>1, <1>2, <1>10, <2>1 DEF CallIs, Typed, TokensAre
  <2>3. ASSUME Once(f) PROVE Once(f)'
    <3>1. Rotating(f) = {c} /\ Live(f) = {}
      <4>1. \A o \in Rotating(f) : o = c
        BY <2>1, <2>3 DEF Once
      <4>2. Live(f) = {}
        BY <1>1, <2>1, <2>3 DEF Once
      <4> QED
        BY <2>1, <4>1, <4>2
    <3>2. Rotating(f)' = {}
      BY <1>8, <3>1 DEF Rotating
    <3>3. Live(f)' \subseteq {n + 1}
      BY <1>7, <3>1 DEF Live
    <3> QED
      BY <3>2, <3>3 DEF Once
  <2>4. \A g \in (1 .. n + 1) \ forked : Once(g)'
    <3>1. ASSUME NEW g \in (1 .. n + 1) \ forked PROVE Once(g)'
      <4>1. CASE g = n + 1
        <5>1. g # f /\ Calm(g) /\ g \in Nat
          BY <1>2, <1>9, <2>2, <4>1
        <5>2. Live(g) = {} /\ Rotating(g) = {}
          <6>1. g \notin 1 .. n /\ g # 0
            BY <1>2, <4>1
          <6> QED
            BY <6>1, FamiliesBegin DEF Live, Rotating
        <5> QED
          BY <5>1, <5>2, CalmKeeps DEF Once
      <4>2. CASE g # n + 1
        <5>1. g \in 1 .. n
          BY <1>2, <4>2
        <5> QED
          BY <1>9, <2>3, <5>1, CalmKeeps DEF Rotation
      <4> QED
        BY <4>1, <4>2
    <3> QED
      BY <3>1
  <2>5. \A g \in ended \ late : Over(g)'
    <3>1. ASSUME NEW g \in ended \ late PROVE Over(g)'
      <4>1. Over(g) /\ g \in 1 .. n
        BY DEF Rotation
      <4>2. g # f
        BY <2>1, <4>1 DEF Over
      <4> QED
        BY <1>9, <4>1, <4>2, CalmKeeps
    <3> QED
      BY <3>1
  <2> QED
    BY <1>2, <1>6, <1>7, <2>4, <2>5 DEF Rotation
<1>11. CASE call[c].family = 0
  <2>1. f = n + 1
    BY <1>3, <1>11
  <2>2. Once(f)'
    <3>1. Rotating(f)' = {}
      <4>1. ASSUME NEW o \in Calls, call[o].pc \in {"revoke", "issue"}, call[o].family = f PROVE FALSE
        <5>1. f # 0 /\ f \notin 1 .. n
          BY <1>2, <2>1
        <5> QED
          BY <4>1, <5>1, FamiliesBegin
      <4> QED
        BY <1>8, <4>1 DEF Rotating
    <3>2. Live(f)' \subseteq {n + 1}
      BY <1>2, <1>7, <2>1 DEF Live, Typed, TokensAre
    <3> QED
      BY <3>1, <3>2 DEF Once
  <2>3. \A g \in 1 .. n : g # f /\ g \in Nat /\ Calm(g)
    BY <1>2, <1>9, <2>1
  <2>4. \A g \in (1 .. n + 1) \ forked : Once(g)'
    <3>1. ASSUME NEW g \in (1 .. n + 1) \ forked PROVE Once(g)'
      <4>1. g = f \/ g \in 1 .. n
        BY <1>2, <2>1
      <4> QED
        BY <2>2, <2>3, <4>1, CalmKeeps DEF Rotation
    <3> QED
      BY <3>1
  <2>5. \A g \in ended \ late : Over(g)'
    BY <2>3, CalmKeeps DEF Rotation
  <2> QED
    BY <1>2, <1>6, <1>7, <2>4, <2>5 DEF Rotation
<1> QED
  BY <1>10, <1>11

\* a family is revoked as a whole
LEMMA EndRotation ==
  ASSUME Typed, Rotation,
         (\E c \in Calls : RevokeFamily(c)) \/ \E u \in Accounts : RevokeAllForUser(u)
  PROVE  Rotation'
<1>r. DOMAIN tokens = 1 .. Len(tokens) /\ Len(tokens) \in Nat /\ \A k \in DOMAIN tokens : tokens[k] \in Token
  BY TokenRows DEF Typed
<1>t. Len(tokens') = Len(tokens) /\ DOMAIN tokens' = DOMAIN tokens
      /\ \A k \in DOMAIN tokens : tokens'[k].family = tokens[k].family
  BY RevokeFlags, TokenRows, LenProperties DEF FlagsOnly, Typed
<1>1. ASSUME NEW c \in Calls, RevokeFamily(c) PROVE Rotation'
  <2>1. call[c] \in Call /\ CallIs(call[c]) /\ call[c].pc = "endfamily" /\ call \in [Calls -> Call]
    BY <1>1 DEF RevokeFamily, Typed, Types, CallsAre
  <2>2. PICK f : f = call[c].family
    OBVIOUS
  <2>3. /\ call' = [call EXCEPT ![c] = AtRest] /\ UNCHANGED forked
        /\ tokens' = [k \in DOMAIN tokens |-> [tokens[k] EXCEPT !.revoked = @ \/ tokens[k].family = f]]
        /\ ended' = ended \cup {f} /\ late' = IF Rotating(f) = {} THEN late ELSE late \cup {f}
    BY <1>1, <2>2 DEF RevokeFamily, Return
  <2>4. f \in 1 .. Len(tokens)
    BY <1>r, <2>1, <2>2 DEF CallIs, Typed, TokensAre
  <2>5. call'[c].pc = "idle" /\ \A o \in Calls \ {c} : call'[o] = call[o]
    BY <2>1, <2>3 DEF AtRest
  <2>6. \A k \in DOMAIN tokens : ~tokens'[k].revoked => ~tokens[k].revoked /\ tokens[k].family # f
    <3>1. ASSUME NEW k \in DOMAIN tokens
          PROVE  tokens'[k].revoked = (tokens[k].revoked \/ tokens[k].family = f)
      <4>1. tokens'[k] = [tokens[k] EXCEPT !.revoked = tokens[k].revoked \/ tokens[k].family = f]
        BY <2>3
      <4>2. tokens[k] \in Token
        BY <1>r
      <4> QED
        BY <4>1, <4>2 DEF Token
    <3> QED
      BY <3>1
  <2>7. \A g \in 1 .. Len(tokens) : Calm(g)
    BY <1>t, <2>5, <2>6 DEF Calm
  <2>8. ASSUME f \notin late' PROVE Over(f)'
    <3>1. Rotating(f) = {}
      BY <2>3, <2>8
    <3>2. Rotating(f)' = {}
      BY <2>4, <2>7, <3>1, CalmKeeps
    <3>3. Live(f)' = {}
      BY <1>t, <2>6 DEF Live
    <3> QED
      BY <3>2, <3>3 DEF Over
  <2> QED
    BY <1>t, <2>3, <2>4, <2>7, <2>8, CalmRotation DEF Rotation
<1>2. ASSUME NEW u \in Accounts, RevokeAllForUser(u) PROVE Rotation'
  <2>1. PICK fs : fs = {tokens[k].family : k \in {k \in DOMAIN tokens : tokens[k].of = u}}
    OBVIOUS
  <2>3. /\ UNCHANGED <<call, forked>>
        /\ tokens' = [k \in DOMAIN tokens |-> [tokens[k] EXCEPT !.revoked = @ \/ tokens[k].of = u]]
        /\ ended' = ended \cup fs /\ late' = late \cup {f \in fs : Rotating(f) # {}}
    BY <1>2, <2>1 DEF RevokeAllForUser
  <2>4. fs \subseteq 1 .. Len(tokens)
    BY <1>r, <2>1 DEF Typed, TokensAre
  <2>6. \A k \in DOMAIN tokens : ~tokens'[k].revoked => ~tokens[k].revoked /\ tokens[k].of # u
    <3>1. ASSUME NEW k \in DOMAIN tokens
          PROVE  tokens'[k].revoked = (tokens[k].revoked \/ tokens[k].of = u)
      <4>1. tokens'[k] = [tokens[k] EXCEPT !.revoked = tokens[k].revoked \/ tokens[k].of = u]
        BY <2>3
      <4>2. tokens[k] \in Token
        BY <1>r
      <4> QED
        BY <4>1, <4>2 DEF Token
    <3> QED
      BY <3>1
  <2>7. \A g \in 1 .. Len(tokens) : Calm(g)
    BY <1>t, <2>3, <2>6 DEF Calm
  <2>8. ASSUME NEW f \in fs, f \notin late' PROVE Over(f)'
    <3>1. Rotating(f) = {}
      BY <2>3, <2>8
    <3>2. Rotating(f)' = {}
      BY <2>4, <2>7, <3>1, CalmKeeps
    <3>3. Live(f)' = {}
      <4>1. PICK l \in DOMAIN tokens : tokens[l].of = u /\ tokens[l].family = f
        BY <2>1
      <4>2. \A k \in DOMAIN tokens : tokens[k].family = f => tokens[k].of = u
        BY <4>1 DEF Typed, TokensAre
      <4> QED
        BY <1>t, <2>6, <4>2 DEF Live
    <3> QED
      BY <3>2, <3>3 DEF Over
  <2> QED
    BY <1>t, <2>3, <2>4, <2>7, <2>8, CalmRotation DEF Rotation
<1> QED
  BY <1>1, <1>2

SessionInv == Typed /\ Rotation

LEMMA InitSession == Init => SessionInv
<1> SUFFICES ASSUME Init PROVE SessionInv
  OBVIOUS
<1>1. tokens = << >> /\ forked = {} /\ ended = {} /\ Len(tokens) = 0
  BY DEF Init
<1>2. Rotation
  BY <1>1 DEF Rotation
<1> QED
  BY <1>2, InitTyped DEF SessionInv

LEMMA NextSession == SessionInv /\ [Next]_vars => SessionInv'
<1> SUFFICES ASSUME SessionInv, [Next]_vars PROVE Rotation'
  BY NextTyped DEF SessionInv
<1> USE DEF SessionInv
<1>1. CASE UNCHANGED vars
  BY <1>1, OthersRotation DEF vars
<1>2. ASSUME NEW c \in Calls, Step(c) PROVE Rotation'
  BY <1>2, CreateRotation, RevokeRotation, EndRotation, OthersRotation DEF Step
<1>3. ASSUME NEW c \in Calls,
             \/ \E u \in Accounts : \/ Register(c, u) \/ Login(c, u)
                                    \/ \E k \in Keys \cup {None} : Submit(c, u, k)
             \/ \E k \in DOMAIN tokens : FindToken(c, k) \/ Logout(c, k)
      PROVE  Rotation'
  BY <1>3, FindRotation, OthersRotation
<1>4. CASE \/ \E u \in Accounts : RevokeAllForUser(u)
           \/ \E k \in DOMAIN tokens : Expire(k)
           \/ SweepCache \/ SweepStamps \/ Tick
  BY <1>4, EndRotation, OthersRotation
<1> QED
  BY <1>1, <1>2, <1>3, <1>4, RestartRotation DEF Next

LEMMA OneLive == SessionInv => SessionTokens
<1> SUFFICES ASSUME SessionInv PROVE SessionTokens
  OBVIOUS
<1>1. ASSUME NEW f \in Families \ forked PROVE Cardinality(Live(f)) + Cardinality(Issuing(f)) <= 1
  <2>1. f \in 1 .. Len(tokens)
    BY FamiliesBegin DEF SessionInv, Families
  <2>2. Once(f) /\ Issuing(f) \subseteq Rotating(f)
    BY <2>1 DEF SessionInv, Rotation, Issuing, Rotating
  <2>3. CASE Issuing(f) = {}
    <3>1. Cardinality(Issuing(f)) = 0
      BY <2>3, FS_EmptySet
    <3>2. CASE Live(f) = {}
      <4>1. Cardinality(Live(f)) = 0
        BY <3>2, FS_EmptySet
      <4> QED
        BY <3>1, <4>1
    <3>3. CASE Live(f) # {}
      <4>1. PICK k : Live(f) = {k}
        BY <2>2, <3>3 DEF Once
      <4>2. Cardinality(Live(f)) = 1
        BY <4>1, FS_Singleton
      <4> QED
        BY <3>1, <4>2
    <3> QED
      BY <3>2, <3>3
  <2>4. CASE Issuing(f) # {}
    <3>1. PICK c : Issuing(f) = {c} /\ c \in Rotating(f) /\ call[c].pc = "issue"
      BY <2>2, <2>4 DEF Once, Issuing
    <3>2. Live(f) = {}
      BY <2>2, <3>1 DEF Once
    <3>3. Cardinality(Live(f)) = 0 /\ Cardinality(Issuing(f)) = 1
      BY <3>1, <3>2, FS_EmptySet, FS_Singleton
    <3> QED
      BY <3>3
  <2> QED
    BY <2>3, <2>4
<1>2. EndedStaysEnded
  BY DEF SessionInv, Rotation, Over, EndedStaysEnded
<1> QED
  BY <1>1, <1>2 DEF SessionTokens, OneLiveToken

\* A session has at most one token that can be refreshed, counting the one a
\* refresh is about to create, unless two refreshes found the same token; and
\* none after it has ended, unless a refresh was under way: for every number of
\* accounts, of requests at once, and of steps (handleRefresh, handleLogout).
THEOREM SessionsRotate == Spec => []SessionTokens
<1>1. SessionInv /\ [Next]_vars => SessionInv'
  BY NextSession
<1> QED
  BY InitSession, OneLive, <1>1, PTL DEF Spec

-----------------------------------------------------------------------------
(* The limiter: its stamps are the last submissions that passed            *)

LEMMA SuffixAppend ==
  ASSUME NEW q \in Seq(Nat), NEW m \in Nat, m <= Len(q), NEW x \in Nat
  PROVE  Append(SubSeq(q, m + 1, Len(q)), x) = SubSeq(Append(q, x), m + 1, Len(Append(q, x)))
<1>1. Len(q) \in Nat
  BY LenProperties
<1> DEFINE r == SubSeq(q, m + 1, Len(q))
           z == Append(q, x)
<1>2. r \in Seq(Nat) /\ Len(r) = Len(q) - m /\ \A i \in 1 .. Len(q) - m : r[i] = q[m + i]
  BY Suffix
<1>3. z \in Seq(Nat) /\ Len(z) = Len(q) + 1 /\ (\A i \in 1 .. Len(q) : z[i] = q[i]) /\ z[Len(q) + 1] = x
  BY AppendProperties
<1> DEFINE a == Append(r, x)
           b == SubSeq(z, m + 1, Len(z))
<1> HIDE DEF r, z
<1>4. /\ a \in Seq(Nat) /\ Len(a) = Len(r) + 1
      /\ (\A i \in 1 .. Len(r) : a[i] = r[i]) /\ a[Len(r) + 1] = x
  BY <1>2, AppendProperties
<1>5. m <= Len(z)
  BY <1>1, <1>3
<1>6. b \in Seq(Nat) /\ Len(b) = Len(z) - m /\ \A i \in 1 .. Len(z) - m : b[i] = z[m + i]
  BY <1>3, <1>5, Suffix
<1> HIDE DEF a, b
<1>7. Len(a) = Len(b)
  BY <1>1, <1>2, <1>3, <1>4, <1>6
<1>8. ASSUME NEW i \in 1 .. Len(a) PROVE a[i] = b[i]
  <2>1. i \in 1 .. Len(z) - m /\ b[i] = z[m + i]
    BY <1>1, <1>2, <1>3, <1>4, <1>6
  <2>2. CASE i <= Len(r)
    <3>1. i \in Nat /\ 1 <= i /\ Len(r) \in Nat
      BY <1>1, <1>2, <1>4
    <3>2. i \in 1 .. Len(r)
      BY <2>2, <3>1
    <3>3. i \in 1 .. Len(q) - m
      BY <1>2, <3>2
    <3>4. m + i \in 1 .. Len(q)
      BY <1>1, <3>3, SMTT(30)
    <3> QED
      BY <1>2, <1>3, <1>4, <2>1, <3>2, <3>3, <3>4, SMTT(30)
  <2>3. CASE ~ (i <= Len(r))
    <3>1. i = Len(r) + 1 /\ m + i = Len(q) + 1
      <4>1. i \in Nat /\ Len(r) \in Nat /\ Len(q) \in Nat
        BY <1>1, <1>2, <1>4
      <4>2. i <= Len(r) + 1 /\ Len(r) = Len(q) - m
        BY <1>2, <1>4
      <4> QED
        BY <2>3, <4>1, <4>2
    <3> QED
      BY <1>3, <1>4, <2>1, <3>1
  <2> QED
    BY <2>2, <2>3
<1> QED
  BY <1>4, <1>6, <1>7, <1>8, SeqEqual DEF a, b, r, z

\* of the stamps p, those from m on are kept, and the others are out of the window
LastOnes(p, s, m, t) == /\ m <= Len(p) /\ s = SubSeq(p, m + 1, Len(p))
                    /\ \A i \in 1 .. m : p[i] <= t - Window
Spaced(p) == \A i \in DOMAIN p : i + MaxPerMin \in DOMAIN p => p[i + MaxPerMin] - p[i] >= Window

Limited(p, s, t) == /\ Ascending(p) /\ \A i \in DOMAIN p : p[i] <= t
                    /\ \E m \in Nat : LastOnes(p, s, m, t)
                    /\ Len(s) <= MaxPerMin /\ Spaced(p)

\* whatever is dropped at the front of the stamps is out of the window
LEMMA DropKeeps ==
  ASSUME NEW p \in Seq(Nat), NEW s \in Seq(Nat), NEW t \in Nat, Limited(p, s, t),
         NEW d \in Nat, Window <= d
  PROVE  /\ Limited(p, After(s, t - d), t)
         /\ \E m \in Nat : /\ LastOnes(p, After(s, t - d), m, t)
                           /\ Len(After(s, t - d)) = Len(p) - m
<1>1. PICK m \in Nat : LastOnes(p, s, m, t)
  BY DEF Limited
<1>2. /\ Len(p) \in Nat /\ DOMAIN p = 1 .. Len(p) /\ m <= Len(p)
      /\ \A i \in 1 .. Len(p) : p[i] \in Nat
  BY <1>1, LenProperties, ElementOfSeq DEF LastOnes
<1>3. Len(s) = Len(p) - m /\ \A i \in 1 .. Len(p) - m : s[i] = p[m + i]
  <2>1. s = SubSeq(p, m + 1, Len(p))
    BY <1>1 DEF LastOnes
  <2> QED
    BY <1>2, <2>1, Suffix, ZenonT(60)
<1>4. Ascending(s)
  <2>1. ASSUME NEW i \in 1 .. Len(s), NEW j \in 1 .. Len(s), i <= j PROVE s[i] <= s[j]
    <3>1. m + i \in 1 .. Len(p) /\ m + j \in 1 .. Len(p) /\ m + i <= m + j
      BY <1>2, <1>3, <2>1
    <3>2. p[m + i] <= p[m + j]
      BY <1>2, <3>1 DEF Limited, Ascending
    <3> QED
      BY <1>3, <3>2
  <2>2. DOMAIN s = 1 .. Len(s)
    BY LenProperties
  <2> QED
    BY <2>1, <2>2 DEF Ascending
<1>5. t - d \in Int
  OBVIOUS
<1>6. PICK k \in 0 .. Len(s) : /\ After(s, t - d) = SubSeq(s, k + 1, Len(s))
                               /\ \A i \in 1 .. k : s[i] <= t - d
  BY <1>4, <1>5, AfterIsSuffix
<1>7. k \in Nat /\ m + k \in Nat /\ m + k <= Len(p) /\ k <= Len(s)
  BY <1>2, <1>3, <1>6
<1>8. After(s, t - d) = SubSeq(p, m + k + 1, Len(p))
  <2>1. s = SubSeq(p, m + 1, Len(p))
    BY <1>1 DEF LastOnes
  <2>2. SubSeq(s, k + 1, Len(s)) = SubSeq(p, m + k + 1, Len(p))
    BY <1>7, <2>1, SuffixOfSuffix, SMTT(30)
  <2> QED
    BY <1>6, <2>2
<1>9. ASSUME NEW i \in 1 .. m + k PROVE p[i] <= t - Window
  <2>1. CASE i <= m
    BY <1>1, <2>1 DEF LastOnes
  <2>2. CASE ~ (i <= m)
    <3>1. i - m \in 1 .. k /\ i - m \in 1 .. Len(p) - m /\ m + (i - m) = i /\ i \in 1 .. Len(p)
      BY <1>2, <1>3, <1>7, <2>2
    <3>2. s[i - m] = p[i] /\ s[i - m] <= t - d
      BY <1>3, <1>6, <3>1
    <3>3. p[i] \in Nat
      BY <1>2, <3>1
    <3> QED
      BY <3>2, <3>3
  <2> QED
    BY <2>1, <2>2
<1>10. LastOnes(p, After(s, t - d), m + k, t)
  BY <1>7, <1>8, <1>9 DEF LastOnes
<1>11. Len(SubSeq(p, m + k + 1, Len(p))) = Len(p) - (m + k)
  <2>1. m + k + 1 = (m + k) + 1
    OBVIOUS
  <2> QED
    BY <1>7, <2>1, Suffix
<1>12. Len(After(s, t - d)) <= MaxPerMin
  <2>1. Len(s) <= MaxPerMin
    BY DEF Limited
  <2> QED
    <3>1. \A a, b, c, d2 \in Nat : a - b <= c /\ b <= a => a - (b + d2) <= c
      OBVIOUS
    <3>2. Len(p) - m <= MaxPerMin
      BY <1>3, <2>1
    <3>3. Len(p) - (m + k) <= MaxPerMin
      BY <1>2, <1>7, <3>1, <3>2
    <3> QED
      BY <1>8, <1>11, <3>3, Zenon
<1> QED
  BY <1>7, <1>8, <1>10, <1>11, <1>12 DEF Limited

LEMMA BelowNext ==
  ASSUME NEW a \in Nat \ {0}, NEW b \in Nat \ {0}, NEW c \in Nat, a + b \in 1 .. c + 1
  PROVE  a + b # c + 1 => a \in 1 .. c /\ a + b \in 1 .. c
<1>1. a + b <= c + 1 /\ a <= a + b /\ a + b \in Nat
  OBVIOUS
<1> QED
  BY <1>1

LEMMA DropWindow ==
  ASSUME NEW p \in Seq(Nat), NEW s \in Seq(Nat), NEW t \in Nat, Limited(p, s, t)
  PROVE  \E m \in Nat : /\ LastOnes(p, After(s, t - Window), m, t)
                        /\ Len(After(s, t - Window)) = Len(p) - m
<1>1. Window \in Nat /\ Window <= Window
  OBVIOUS
<1> QED
  BY <1>1, DropKeeps

\* one more submission passes when fewer than the limit are in the window
LEMMA PassKeeps ==
  ASSUME NEW p \in Seq(Nat), NEW s \in Seq(Nat), NEW t \in Nat, Limited(p, s, t),
         Len(After(s, t - Window)) < MaxPerMin
  PROVE  Limited(Append(p, t), Append(After(s, t - Window), t), t)
<1> DEFINE n == Len(p)
           r == After(s, t - Window)
           q == Append(p, t)
<1>1. PICK m \in Nat : LastOnes(p, r, m, t) /\ Len(r) = n - m
  BY DropWindow
<1>2. n \in Nat /\ DOMAIN p = 1 .. n /\ m <= n /\ \A i \in 1 .. n : p[i] \in Nat
  BY <1>1, LenProperties, ElementOfSeq DEF LastOnes
<1>3. q \in Seq(Nat) /\ Len(q) = n + 1 /\ (\A i \in 1 .. n : q[i] = p[i]) /\ q[n + 1] = t
  BY AppendProperties
<1>4. DOMAIN q = 1 .. n + 1
  BY <1>3, LenProperties
<1>5. \A i \in 1 .. n + 1 : q[i] \in Nat /\ q[i] <= t
  <2>1. \A i \in 1 .. n : p[i] <= t
    BY <1>2 DEF Limited
  <2>n. n \in Nat
    BY <1>2
  <2>d. t \in Nat /\ t <= t
    OBVIOUS
  <2> HIDE DEF n, q
  <2>2. \A i \in 1 .. n + 1 : i \in 1 .. n \/ i = n + 1
    BY <2>n
  <2> QED
    BY <1>2, <1>3, <2>d, <2>1, <2>2
<1>6. Ascending(q)
  <2>1. ASSUME NEW i \in 1 .. n + 1, NEW j \in 1 .. n + 1, i <= j PROVE q[i] <= q[j]
    <3>1. CASE j = n + 1
      BY <1>3, <1>5, <3>1
    <3>2. CASE j # n + 1
      <4>n. n \in Nat
        BY <1>2
      <4>1. i \in 1 .. n /\ j \in 1 .. n
        <5> HIDE DEF n
        <5> QED
          BY <4>n, <2>1, <3>2
      <4>2. p[i] <= p[j]
        BY <1>2, <2>1, <4>1 DEF Limited, Ascending
      <4> QED
        BY <1>3, <4>1, <4>2
    <3> QED
      BY <3>1, <3>2
  <2> QED
    BY <1>4, <2>1 DEF Ascending
<1>7. LastOnes(q, Append(r, t), m, t)
  <2>1. r = SubSeq(p, m + 1, n)
    BY <1>1 DEF LastOnes
  <2>2. Append(r, t) = SubSeq(q, m + 1, Len(q))
    <3>1. m <= Len(p)
      BY <1>2
    <3>2. Append(SubSeq(p, m + 1, Len(p)), t) = SubSeq(q, m + 1, Len(q))
      BY <3>1, SuffixAppend
    <3> QED
      BY <2>1, <3>2
  <2>3. \A i \in 1 .. m : q[i] = p[i]
    <3>1. \A i \in 1 .. m : i \in 1 .. n
      BY <1>2
    <3> QED
      BY <1>3, <3>1
  <2>4. m <= Len(q)
    BY <1>2, <1>3
  <2> QED
    BY <1>1, <2>2, <2>3, <2>4 DEF LastOnes
<1>8. Len(Append(r, t)) <= MaxPerMin
  <2>1. r \in Seq(Nat)
    BY AfterType
  <2>2. Len(Append(r, t)) = Len(r) + 1
    BY <2>1, AppendProperties
  <2>3. Len(r) \in Nat
    BY <2>1, LenProperties
  <2> HIDE DEF r
  <2>4. Len(r) < MaxPerMin
    BY DEF r
  <2> QED
    BY <2>2, <2>3, <2>4
<1>9. Spaced(q)
  <2>1. ASSUME NEW i \in 1 .. n + 1, i + MaxPerMin \in 1 .. n + 1 PROVE q[i + MaxPerMin] - q[i] >= Window
    <3>1. CASE i + MaxPerMin = n + 1
      <4>1. n - m < MaxPerMin
        BY <1>1
      <4>n. n \in Nat /\ m \in Nat /\ m <= n /\ i \in Nat \ {0} /\ MaxPerMin \in Nat
        BY <1>2, <2>1
      <4>2. i \in 1 .. m /\ i \in 1 .. n
        <5> HIDE DEF n
        <5> QED
          BY <3>1, <4>n, <4>1
      <4>3. p[i] <= t - Window /\ p[i] \in Nat
        BY <1>1, <1>2, <4>2 DEF LastOnes
      <4>4. q[i] = p[i] /\ q[i + MaxPerMin] = t
        BY <1>3, <3>1, <4>2
      <4> QED
        BY <4>3, <4>4, SMTT(30)
    <3>2. CASE i + MaxPerMin # n + 1
      <4>1. i \in 1 .. n /\ i + MaxPerMin \in 1 .. n
        <5>1. n \in Nat /\ MaxPerMin \in Nat \ {0} /\ i \in Nat \ {0}
          BY <1>2, <2>1
        <5> HIDE DEF n
        <5> QED
          BY <2>1, <3>2, <5>1, BelowNext
      <4>2. p[i + MaxPerMin] - p[i] >= Window
        BY <1>2, <4>1 DEF Limited, Spaced
      <4> QED
        BY <1>3, <4>1, <4>2
    <3> QED
      BY <3>1, <3>2
  <2> QED
    BY <1>4, <2>1 DEF Spaced
<1> QED
  BY <1>4, <1>5, <1>6, <1>7, <1>8, <1>9 DEF Limited

Pace == \A u \in Accounts : Limited(passed[u], stamps[u], now)
LimitInv == Typed /\ Pace

LEMMA LaterKeeps ==
  ASSUME NEW p \in Seq(Nat), NEW s \in Seq(Nat), NEW t \in Nat, Limited(p, s, t)
  PROVE  Limited(p, s, t + 1)
<1>1. PICK m \in Nat : LastOnes(p, s, m, t)
  BY DEF Limited
<1>2. DOMAIN p = 1 .. Len(p) /\ Len(p) \in Nat /\ \A i \in 1 .. Len(p) : p[i] \in Nat
  BY LenProperties, ElementOfSeq
<1>3. \A i \in DOMAIN p : p[i] <= t + 1
  BY <1>2 DEF Limited
<1>4. LastOnes(p, s, m, t + 1)
  <2>1. \A i \in 1 .. m : i \in 1 .. Len(p) /\ p[i] <= t - Window
    BY <1>1, <1>2 DEF LastOnes
  <2>2. \A i \in 1 .. m : p[i] <= (t + 1) - Window
    BY <1>2, <2>1
  <2> QED
    BY <1>1, <2>2 DEF LastOnes
<1> QED
  BY <1>3, <1>4 DEF Limited

LEMMA EmptyPace == Limited(<< >>, << >>, 0) /\ \A t \in Nat : Limited(<< >>, << >>, t)
<1>1. << >> \in Seq(Nat) /\ Len(<< >>) = 0 /\ DOMAIN << >> = {}
  OBVIOUS
<1>2. SubSeq(<< >>, 0 + 1, 0) = << >>
  BY <1>1, SubSeqEmpty
<1>3. \A t \in Nat : LastOnes(<< >>, << >>, 0, t)
  BY <1>1, <1>2 DEF LastOnes
<1>4. \A t \in Nat : Limited(<< >>, << >>, t)
  BY <1>1, <1>3 DEF Limited, Ascending, Spaced
<1> QED
  BY <1>4

LEMMA NextPace ==
  ASSUME LimitInv, [Next]_vars
  PROVE  Pace'
<1> USE DEF LimitInv
<1>t. now \in Nat /\ stamps \in [Accounts -> Seq(Nat)] /\ passed \in [Accounts -> Seq(Nat)] /\ Window <= Keep
  BY DEF Typed, Types
<1>1. CASE UNCHANGED <<passed, stamps, now>>
  BY <1>1 DEF Pace
<1>2. ASSUME NEW c \in Calls, Limit(c) PROVE Pace'
  <2> DEFINE u == call[c].of
  <2>1. u \in Accounts
    BY <1>2 DEF Limit, Typed, Types, CallsAre, CallIs
  <2>2. \/ /\ Len(After(stamps[u], now - Window)) < MaxPerMin
           /\ stamps' = [stamps EXCEPT ![u] = Append(After(stamps[u], now - Window), now)]
           /\ passed' = [passed EXCEPT ![u] = Append(passed[u], now)] /\ now' = now
        \/ UNCHANGED <<passed, stamps, now>>
    <3>1. ASSUME Len(Recent(u)) >= MaxPerMin PROVE UNCHANGED <<passed, stamps, now>>
      BY <1>2, <3>1 DEF Limit
    <3>2. ASSUME ~ (Len(Recent(u)) >= MaxPerMin)
          PROVE  /\ Len(Recent(u)) < MaxPerMin
                 /\ stamps' = [stamps EXCEPT ![u] = Append(Recent(u), now)]
                 /\ passed' = [passed EXCEPT ![u] = Append(passed[u], now)] /\ now' = now
      <4>1. Recent(u) \in Seq(Nat)
        BY <1>t, <2>1, AfterType DEF Recent
      <4>2. Len(Recent(u)) \in Nat
        BY <4>1, LenProperties
      <4> QED
        BY <1>2, <3>2, <4>2 DEF Limit
    <3> QED
      BY <3>1, <3>2 DEF Recent
  <2>3. SUFFICES ASSUME ~ UNCHANGED <<passed, stamps, now>> PROVE Pace'
    BY <1>1
  <2>4. Limited(Append(passed[u], now), Append(After(stamps[u], now - Window), now), now)
    <3>1. Limited(passed[u], stamps[u], now) /\ passed[u] \in Seq(Nat) /\ stamps[u] \in Seq(Nat)
      BY <1>t, <2>1 DEF Pace
    <3> HIDE DEF u
    <3> QED
      BY <1>t, <2>2, <2>3, <3>1, PassKeeps
  <2>5. PICK a, b : a = Append(passed[u], now) /\ b = Append(After(stamps[u], now - Window), now)
    OBVIOUS
  <2>6. PICK w : w = u
    OBVIOUS
  <2>7. stamps' = [stamps EXCEPT ![w] = b] /\ passed' = [passed EXCEPT ![w] = a] /\ now' = now
    BY <2>2, <2>3, <2>5, <2>6
  <2> HIDE DEF u
  <2>8. ASSUME NEW v \in Accounts PROVE Limited(passed'[v], stamps'[v], now')
    <3>1. CASE v = w
      <4>1. passed'[v] = a /\ stamps'[v] = b /\ now' = now
        BY <1>t, <2>7, <3>1
      <4> QED
        BY <2>4, <2>5, <4>1
    <3>2. CASE v # w
      <4>1. passed'[v] = passed[v] /\ stamps'[v] = stamps[v] /\ now' = now
        BY <1>t, <2>7, <3>2
      <4> QED
        BY <4>1 DEF Pace
    <3> QED
      BY <3>1, <3>2
  <2> QED
    BY <2>8 DEF Pace
<1>3. CASE SweepStamps
  <2>1. UNCHANGED <<passed, now>> /\ stamps' = [u \in Accounts |-> After(stamps[u], now - Keep)]
    BY <1>3 DEF SweepStamps
  <2>2. ASSUME NEW u \in Accounts PROVE Limited(passed'[u], stamps'[u], now')
    <3>1. Limited(passed[u], stamps[u], now) /\ passed[u] \in Seq(Nat) /\ stamps[u] \in Seq(Nat)
      BY <1>t DEF Pace
    <3>2. Keep \in Nat
      OBVIOUS
    <3>3. Limited(passed[u], After(stamps[u], now - Keep), now)
      BY <1>t, <3>1, <3>2, DropKeeps
    <3> QED
      BY <2>1, <3>3
  <2> QED
    BY <2>2 DEF Pace
<1>4. CASE Tick
  <2>1. UNCHANGED <<passed, stamps>> /\ now' = now + 1
    BY <1>4 DEF Tick, requests
  <2>2. ASSUME NEW u \in Accounts PROVE Limited(passed'[u], stamps'[u], now')
    <3>1. Limited(passed[u], stamps[u], now) /\ passed[u] \in Seq(Nat) /\ stamps[u] \in Seq(Nat)
      BY <1>t DEF Pace
    <3>2. Limited(passed[u], stamps[u], now + 1)
      BY <1>t, <3>1, LaterKeeps
    <3> QED
      BY <2>1, <3>2
  <2> QED
    BY <2>2 DEF Pace
<1>r. CASE Restart
  <2>1. /\ now' = now /\ stamps' = [u \in Accounts |-> << >>] /\ passed' = [u \in Accounts |-> << >>]
    BY <1>r DEF Restart
  <2>2. Limited(<< >>, << >>, now)
    BY <1>t, EmptyPace
  <2>3. \A u \in Accounts : Limited(passed'[u], stamps'[u], now')
    BY <2>1, <2>2
  <2> QED
    BY <2>3 DEF Pace
<1>5. CASE /\ [Next]_vars /\ ~SweepStamps /\ ~Tick /\ ~Restart /\ ~ \E c \in Calls : Limit(c)
  <2>1. UNCHANGED <<passed, stamps, now>>
    BY <1>5 DEF Next, vars, requests, Step, CreateUser, CreateToken, Revoke, RevokeFamily, Handle, Allocate, Store,
                Register, Login, Submit, FindToken, Logout, RevokeAllForUser, Expire, SweepCache
  <2> QED
    BY <1>1, <2>1
<1> QED
  BY <1>2, <1>3, <1>4, <1>5, <1>r

\* Rows, requests, the limiter and the cache have their types, and of an account
\* never more submissions pass within a window than are allowed, whatever the
\* sweep removes, until the gateway restarts: for every limit, window and number of
\* requests at once (jobRateLimitMiddleware).
THEOREM RateIsLimited == Spec => []LimiterSound
<1>1. Init => LimitInv
  <2> SUFFICES ASSUME Init PROVE Pace
    BY InitTyped DEF LimitInv
  <2>1. ASSUME NEW u \in Accounts PROVE Limited(passed[u], stamps[u], now)
    <3>1. passed[u] = << >> /\ stamps[u] = << >> /\ now = 0
      BY DEF Init
    <3>2. Limited(<< >>, << >>, 0)
      BY EmptyPace
    <3> QED
      BY <3>1, <3>2
  <2> QED
    BY <2>1 DEF Pace
<1>2. LimitInv /\ [Next]_vars => LimitInv'
  BY NextTyped, NextPace DEF LimitInv
<1>3. LimitInv => LimiterSound
  <2> SUFFICES ASSUME LimitInv PROVE LimiterSound
    OBVIOUS
  <2>1. \A k \in DOMAIN tokens : tokens[k] \in Token
    BY TokenRows DEF LimitInv, Typed
  <2>2. TypeOK
    BY <2>1 DEF LimitInv, Pace, Limited, Typed, Types, TokensAre, TypeOK
  <2>3. RateKept
    BY DEF LimitInv, Pace, Limited, Spaced, RateKept
  <2> QED
    BY <2>2, <2>3 DEF LimiterSound
<1> QED
  BY <1>1, <1>2, <1>3, PTL DEF Spec

-----------------------------------------------------------------------------
(* The idempotency cache: a key creates a job once                         *)

\* a request whose job there is, and whose answer will be kept if nothing fails
Making(c, k) == /\ call[c].key = k
                /\ \/ call[c].pc = "allocate"
                   \/ call[c].pc = "store" /\ call[c].status \in {"created", "full"}

\* the request that created a job at this time is past, is answered from the
\* cache, or is about to put its answer there
Answered(k, at) ==
    \/ now >= at + TTL
    \/ cache[k] # None /\ cache[k].until >= at + TTL /\ \A c \in Calls : call[c].key # k
    \/ \E c \in Calls : Making(c, k)

Alone(k) == \A c, o \in Calls : call[c].key = k /\ call[o].key = k => c = o
Kept(k)  == \A i \in DOMAIN done \ unkept : done[i].key = k => done[i].at <= now /\ Answered(k, done[i].at)

Idempotent == /\ \A k \in Keys \ shared : Alone(k) /\ Kept(k)
              /\ CreatedOnce

DoneRows == /\ DOMAIN done = 1 .. Len(done) /\ Len(done) \in Nat
            /\ \A i \in DOMAIN done : done[i] \in [key : Keys, at : Nat]
            /\ unkept \subseteq DOMAIN done

LEMMA DoneTyped == Typed => DoneRows
<1> SUFFICES ASSUME Typed PROVE DoneRows
  OBVIOUS
<1> DEFINE S == [key : Keys, at : Nat]
<1>1. done \in Seq(S)
  BY DEF Typed, Types
<1> HIDE DEF S
<1>2. Len(done) \in Nat /\ DOMAIN done = 1 .. Len(done) /\ \A i \in 1 .. Len(done) : done[i] \in S
  BY <1>1, LenProperties, ElementOfSeq
<1> QED
  BY <1>2 DEF DoneRows, S, Typed, Types

\* a step in which no request with a key moves, and the clock may
LEMMA KeysRest ==
  ASSUME Typed, Idempotent, UNCHANGED <<cache, done, unkept>>, shared \subseteq shared',
         now' \in {now, now + 1},
         \A c \in Calls : call'[c] # call[c] => call[c].key = None /\ call'[c].key \in shared' \cup {None}
  PROVE  Idempotent'
<1>1. ASSUME NEW k \in Keys \ shared' PROVE Alone(k)' /\ Kept(k)'
  <2>1. Alone(k) /\ Kept(k) /\ k # None
    BY DEF Idempotent
  <2>2. \A c \in Calls : call[c].key = k \/ call'[c].key = k => call'[c] = call[c]
    BY <2>1
  <2>3. Alone(k)'
    BY <2>1, <2>2 DEF Alone
  <2>4. ASSUME NEW i \in DOMAIN done \ unkept, done[i].key = k
        PROVE  (done[i].at <= now /\ Answered(k, done[i].at))'
    <3>1. done[i].at \in Nat /\ now \in Nat /\ now' \in Nat /\ now <= now'
      <4>1. done[i].at \in Nat
        BY DoneTyped DEF DoneRows
      <4>2. now \in Nat
        BY DEF Typed, Types
      <4> QED
        BY <4>1, <4>2
    <3>2. done[i].at <= now /\ Answered(k, done[i].at)
      BY <2>1, <2>4 DEF Kept
    <3>3. PICK at \in Nat : at = done[i].at
      BY <3>1
    <3>4. Answered(k, at)'
      <4>1. CASE now >= at + TTL
        BY <3>1, <4>1 DEF Answered, Making
      <4>2. CASE cache[k] # None /\ cache[k].until >= at + TTL /\ \A c \in Calls : call[c].key # k
        BY <2>2, <4>2 DEF Answered, Making
      <4>3. CASE \E c \in Calls : Making(c, k)
        BY <2>2, <4>3 DEF Answered, Making
      <4> QED
        BY <3>2, <3>3, <4>1, <4>2, <4>3 DEF Answered, Making
    <3>5. Answered(k, done[i].at)'
      BY <3>3, <3>4 DEF Answered, Making
    <3> QED
      BY <3>1, <3>2, <3>5
  <2> QED
    BY <2>3, <2>4 DEF Kept
<1>2. CreatedOnce'
  BY DEF Idempotent, CreatedOnce
<1> QED
  BY <1>1, <1>2 DEF Idempotent

\* requests of sessions have no key
LEMMA SessionsHaveNoKey ==
  ASSUME Typed, NEW c \in Calls, call[c].pc \in SessionPcs \cup {"idle"}
  PROVE  call[c].key = None
  BY DEF Typed, CallsAre, CallIs

LEMMA SessionKeys ==
  ASSUME Typed, Idempotent, NEW c \in Calls, NEW r, call' = [call EXCEPT ![c] = r],
         call[c].pc \in SessionPcs \cup {"idle"}, r.key = None, UNCHANGED <<now, requests>>
  PROVE  Idempotent'
<1>1. call[c].key = None
  BY SessionsHaveNoKey
<1>2. \A o \in Calls : call'[o] # call[o] => call[o].key = None /\ call'[o].key = None
  BY <1>1 DEF Typed, Types
<1>3. UNCHANGED <<cache, done, shared, unkept, now>>
  BY DEF requests
<1> QED
  BY <1>2, <1>3, KeysRest

LEMMA SessionIdempotent ==
  ASSUME Typed, Idempotent, NEW c \in Calls,
         \/ CreateUser(c) \/ CreateToken(c) \/ Revoke(c) \/ RevokeFamily(c)
         \/ \E u \in Accounts : Register(c, u) \/ Login(c, u)
         \/ \E k \in DOMAIN tokens : FindToken(c, k) \/ Logout(c, k)
  PROVE  Idempotent'
<1>0. UNCHANGED <<now, requests>>
  BY DEF CreateUser, CreateToken, Revoke, RevokeFamily, Register, Login, FindToken, Logout
<1>1. call[c].pc \in SessionPcs \cup {"idle"}
  BY DEF CreateUser, CreateToken, Revoke, RevokeFamily, Register, Login, FindToken, Logout, Begin, SessionPcs
<1>2. call[c] \in Call /\ call[c].key = None
  BY <1>1, SessionsHaveNoKey DEF Typed, Types
<1>3. \E r : call' = [call EXCEPT ![c] = r] /\ r.key = None
  <2>1. CASE CreateUser(c) \/ Revoke(c)
    <3>1. Return(c) \/ Goto(c, "issue")
      BY <2>1 DEF CreateUser, Revoke
    <3> DEFINE r == [call[c] EXCEPT !.pc = "issue"]
    <3>2. r.key = None /\ AtRest.key = None
      BY <1>2 DEF Call, AtRest
    <3>3. call' = [call EXCEPT ![c] = r] \/ call' = [call EXCEPT ![c] = AtRest]
      BY <3>1 DEF Return, Goto
    <3> HIDE DEF r
    <3> QED
      BY <3>2, <3>3
  <2>2. CASE CreateToken(c) \/ RevokeFamily(c)
    <3>1. call' = [call EXCEPT ![c] = AtRest]
      BY <2>2 DEF CreateToken, RevokeFamily, Return
    <3>2. AtRest.key = None
      BY DEF AtRest
    <3> QED
      BY <3>1, <3>2
  <2>3. ASSUME NEW u \in Accounts, Register(c, u) \/ Login(c, u)
        PROVE  \E r : call' = [call EXCEPT ![c] = r] /\ r.key = None
    <3> DEFINE r1 == [AtRest EXCEPT !.pc = "account", !.of = u]
               r2 == [AtRest EXCEPT !.pc = "issue", !.of = u]
    <3>1. call' = [call EXCEPT ![c] = r1] \/ call' = [call EXCEPT ![c] = r2]
      BY <2>3 DEF Register, Login, Begin
    <3>2. r1.key = None /\ r2.key = None
      BY DEF AtRest
    <3> HIDE DEF r1, r2
    <3> QED
      BY <3>1, <3>2
  <2>4. ASSUME NEW k \in DOMAIN tokens, FindToken(c, k) \/ Logout(c, k)
        PROVE  \E r : call' = [call EXCEPT ![c] = r] /\ r.key = None
    <3> DEFINE t == tokens[k]
               b == [AtRest EXCEPT !.of = t.of, !.family = t.family, !.tok = k]
               r1 == [b EXCEPT !.pc = IF t.revoked \/ t.expired THEN "endfamily" ELSE "revoke"]
               r2 == [AtRest EXCEPT !.pc = "endfamily", !.of = t.of, !.family = t.family]
    <3>1. call' = [call EXCEPT ![c] = r1] \/ call' = [call EXCEPT ![c] = r2]
      BY <2>4 DEF FindToken, Logout, Begin
    <3>2. r1.key = None /\ r2.key = None
      BY DEF AtRest
    <3> HIDE DEF r1, r2
    <3> QED
      BY <3>1, <3>2
  <2> QED
    BY <2>1, <2>2, <2>3, <2>4
<1> QED
  BY <1>0, <1>1, <1>3, SessionKeys

LEMMA SubmitIdempotent ==
  ASSUME Typed, Idempotent, NEW c \in Calls, NEW u \in Accounts, NEW k \in Keys \cup {None}, Submit(c, u, k)
  PROVE  Idempotent'
<1>0. UNCHANGED <<now, cache, done, unkept>>
  BY DEF Submit
<1>1. CASE UNCHANGED <<call, shared>>
  BY <1>0, <1>1, KeysRest
<1>2. CASE ~ UNCHANGED <<call, shared>>
  <2>1. PICK r : r = [AtRest EXCEPT !.pc = "limit", !.of = u, !.key = k]
    OBVIOUS
  <2>2. /\ call[c].pc = "idle" /\ call' = [call EXCEPT ![c] = r]
        /\ shared' = (IF k # None /\ \E o \in Calls : call[o].key = k THEN shared \cup {k} ELSE shared)
        /\ ~ (k # None /\ Fresh(k))
    BY <1>2, <2>1 DEF Submit, Begin
  <2>3. r.key = k /\ r.pc = "limit"
    BY <2>1 DEF AtRest
  <2>4. call[c].key = None /\ call'[c] = r /\ \A o \in Calls \ {c} : call'[o] = call[o]
    BY <2>2, SessionsHaveNoKey DEF Typed, Types
  <2>5. CASE k \in shared' \cup {None}
    BY <1>0, <2>2, <2>3, <2>4, <2>5, KeysRest
  <2>6. CASE k \notin shared' \cup {None}
    <3>1. /\ shared' = shared /\ \A o \in Calls : call[o].key # k
          /\ k \in Keys \ shared
      BY <2>2, <2>6
    <3>2. \A q \in Keys : q # k => (Alone(q) => Alone(q)') /\ (Kept(q) => Kept(q)')
      <4>1. ASSUME NEW q \in Keys, q # k
            PROVE  (Alone(q) => Alone(q)') /\ (Kept(q) => Kept(q)')
        <5>1. \A o \in Calls : call[o].key = q \/ call'[o].key = q => call'[o] = call[o]
          BY <2>3, <2>4, <4>1
        <5>2. Alone(q) => Alone(q)'
          BY <5>1 DEF Alone
        <5>3. \A at \in Nat : Answered(q, at) => Answered(q, at)'
          BY <1>0, <5>1 DEF Answered, Making
        <5>4. \A i \in DOMAIN done : done[i].at \in Nat
          BY DoneTyped DEF DoneRows
        <5>5. ASSUME Kept(q), NEW i \in DOMAIN done \ unkept, done[i].key = q
              PROVE  done[i].at <= now' /\ Answered(q, done[i].at)'
          <6>1. PICK at \in Nat : at = done[i].at
            BY <5>4
          <6>2. done[i].at <= now /\ Answered(q, done[i].at)
            BY <5>5 DEF Kept
          <6>3. Answered(q, at)'
            BY <5>3, <6>1, <6>2
          <6> QED
            BY <1>0, <6>1, <6>2, <6>3 DEF Answered, Making
        <5> QED
          BY <1>0, <5>2, <5>5 DEF Kept
      <4> QED
        BY <4>1
    <3>3. Alone(k)'
      BY <2>4, <3>1 DEF Alone
    <3>4. ASSUME NEW i \in DOMAIN done \ unkept, done[i].key = k
          PROVE  (done[i].at <= now /\ Answered(k, done[i].at))'
      <4>1. done[i].at <= now /\ Answered(k, done[i].at)
        BY <3>1, <3>4 DEF Idempotent, Kept
      <4>2. PICK at \in Nat : at = done[i].at
        BY DoneTyped DEF DoneRows
      <4>3. now \in Nat /\ (cache[k] # None => cache[k].until \in Nat /\ ~ (now < cache[k].until))
        BY <2>2, <3>1 DEF Fresh, Typed, Types, Entry
      <4>4. now >= at + TTL
        <5>1. now >= at + TTL \/ (cache[k] # None /\ cache[k].until >= at + TTL)
          BY <3>1, <4>1, <4>2 DEF Answered, Making
        <5>2. at + TTL \in Nat
          OBVIOUS
        <5> QED
          BY <4>3, <5>1, <5>2
      <4> QED
        BY <1>0, <4>1, <4>2, <4>4 DEF Answered, Making
    <3>5. Kept(k)'
      BY <1>0, <3>4 DEF Kept
    <3>6. CreatedOnce'
      BY <1>0, <3>1 DEF Idempotent, CreatedOnce
    <3> QED
      BY <3>1, <3>2, <3>3, <3>5, <3>6 DEF Idempotent
  <2> QED
    BY <2>5, <2>6
<1> QED
  BY <1>1, <1>2

LEMMA RowKept ==
  ASSUME NEW k, NEW i, NEW at \in Nat, done'[i].at = at, at <= now', Answered(k, at)'
  PROVE  (done[i].at <= now /\ Answered(k, done[i].at))'
  BY DEF Answered, Making

\* a request goes on with its key
LEMMA KeyMoves ==
  ASSUME Typed, Idempotent, NEW c \in Calls, NEW r, call' = [call EXCEPT ![c] = r],
         r.key = call[c].key, call[c].pc \notin {"allocate", "store"}, UNCHANGED <<cache, now, shared>>
  PROVE  /\ \A k \in Keys \ shared : Alone(k)'
         /\ \A k \in Keys, at \in Nat : Answered(k, at) => Answered(k, at)'
         /\ call'[c] = r
<1>1. call'[c] = r /\ \A o \in Calls \ {c} : call'[o] = call[o]
  BY DEF Typed, Types
<1>2. \A o \in Calls : call'[o].key = call[o].key
  BY <1>1
<1>3. ASSUME NEW k \in Keys \ shared PROVE Alone(k)'
  <2>1. Alone(k)
    BY DEF Idempotent
  <2> QED
    BY <1>2, <2>1 DEF Alone
<1>4. ASSUME NEW k \in Keys, NEW at \in Nat, Answered(k, at) PROVE Answered(k, at)'
  <2>1. CASE now >= at + TTL
    BY <2>1 DEF Answered, Making
  <2>2. CASE cache[k] # None /\ cache[k].until >= at + TTL /\ \A o \in Calls : call[o].key # k
    BY <1>2, <2>2 DEF Answered, Making
  <2>3. CASE \E o \in Calls : Making(o, k)
    BY <1>1, <2>3 DEF Answered, Making
  <2> QED
    BY <1>4, <2>1, <2>2, <2>3 DEF Answered, Making
<1> QED
  BY <1>1, <1>3, <1>4

LEMMA LimitIdempotent ==
  ASSUME Typed, Idempotent, NEW c \in Calls, Limit(c)
  PROVE  Idempotent'
<1>1. UNCHANGED <<cache, done, shared, unkept, now>> /\ call[c].pc \notin {"allocate", "store"} /\ call[c] \in Call
  BY DEF Limit, Typed, Types
<1>2. PICK r : call' = [call EXCEPT ![c] = r] /\ r.key = call[c].key
  <2> DEFINE r1 == [call[c] EXCEPT !.pc = "store", !.status = "limited"]
             r2 == [call[c] EXCEPT !.pc = "handle"]
  <2>1. call' = [call EXCEPT ![c] = r1] \/ call' = [call EXCEPT ![c] = r2]
    BY DEF Limit, Goto
  <2>2. r1.key = call[c].key /\ r2.key = call[c].key
    BY <1>1 DEF Call
  <2> HIDE DEF r1, r2
  <2> QED
    BY <2>1, <2>2
<1>3. /\ \A k \in Keys \ shared : Alone(k)'
      /\ \A k \in Keys, at \in Nat : Answered(k, at) => Answered(k, at)'
  BY <1>1, <1>2, KeyMoves
<1>4. ASSUME NEW k \in Keys \ shared PROVE Kept(k)'
  <2>1. ASSUME NEW i \in DOMAIN done \ unkept, done[i].key = k
        PROVE  (done[i].at <= now /\ Answered(k, done[i].at))'
    <3>1. PICK at \in Nat : at = done[i].at
      BY DoneTyped DEF DoneRows
    <3>2. done[i].at <= now /\ Answered(k, done[i].at)
      BY <2>1 DEF Idempotent, Kept
    <3>3. Answered(k, at)'
      BY <1>3, <3>1, <3>2
    <3> QED
      BY <1>1, <3>1, <3>2, <3>3, RowKept
  <2> QED
    BY <1>1, <2>1 DEF Kept
<1>5. CreatedOnce'
  BY <1>1 DEF Idempotent, CreatedOnce
<1> QED
  BY <1>1, <1>3, <1>4, <1>5 DEF Idempotent

\* a job is created again only when the earlier answer has expired
LEMMA HandleIdempotent ==
  ASSUME Typed, Idempotent, NEW c \in Calls, Handle(c)
  PROVE  Idempotent'
<1>1. UNCHANGED <<cache, shared, unkept, now>> /\ call[c].pc = "handle" /\ call[c] \in Call /\ now \in Nat
  BY DEF Handle, Typed, Types
<1> DEFINE a(v) == [call[c] EXCEPT !.pc = "store", !.status = v]
           g == [call[c] EXCEPT !.pc = "allocate"]
<1>2. \/ done' = done /\ \E v \in {"refused", "failed"} : call' = [call EXCEPT ![c] = a(v)]
      \/ /\ call' = [call EXCEPT ![c] = g]
         /\ done' = IF call[c].key = None THEN done ELSE Append(done, [key |-> call[c].key, at |-> now])
  BY DEF Handle, Answer, Goto
<1>3. (\A v : a(v).key = call[c].key) /\ g.key = call[c].key /\ g.pc = "allocate"
  BY <1>1 DEF Call
<1> HIDE DEF a, g
<1>4. PICK r : /\ call' = [call EXCEPT ![c] = r] /\ r.key = call[c].key
               /\ done' = done \/ r.pc = "allocate"
  BY <1>2, <1>3
<1>5. /\ \A k \in Keys \ shared : Alone(k)'
      /\ \A k \in Keys, at \in Nat : Answered(k, at) => Answered(k, at)'
      /\ call'[c] = r
  BY <1>1, <1>4, KeyMoves
<1>d. DoneRows
  BY DoneTyped
<1>6. ASSUME NEW k \in Keys \ shared, NEW i \in DOMAIN done \ unkept, done[i].key = k
      PROVE  \E at \in Nat : at = done[i].at /\ at <= now' /\ Answered(k, at)'
  <2>1. PICK at \in Nat : at = done[i].at
    BY <1>d DEF DoneRows
  <2>2. done[i].at <= now /\ Answered(k, done[i].at)
    BY <1>6 DEF Idempotent, Kept
  <2>3. Answered(k, at)'
    BY <1>5, <2>1, <2>2
  <2> QED
    BY <1>1, <2>1, <2>2, <2>3
<1>7. CASE done' = done
  <2>1. ASSUME NEW k \in Keys \ shared, NEW i \in DOMAIN done \ unkept, done[i].key = k
        PROVE  (done[i].at <= now /\ Answered(k, done[i].at))'
    BY <1>6, <1>7, <2>1, RowKept
  <2>3. \A k \in Keys \ shared : Kept(k)'
    BY <1>1, <1>7, <2>1 DEF Kept
  <2>2. CreatedOnce'
    BY <1>1, <1>7 DEF Idempotent, CreatedOnce
  <2> QED
    BY <1>1, <1>5, <2>2, <2>3 DEF Idempotent
<1>8. CASE done' # done
  <2> DEFINE n == Len(done)
             d == [key |-> call[c].key, at |-> now]
  <2>1. r.pc = "allocate" /\ call[c].key # None /\ done' = Append(done, d)
    BY <1>2, <1>4, <1>8
  <2>2. PICK q \in Keys : q = call[c].key
    BY <1>1, <2>1 DEF Call
  <2>3. /\ n \in Nat /\ DOMAIN done = 1 .. n /\ DOMAIN done' = 1 .. n + 1
        /\ \A i \in 1 .. n : done'[i] = done[i]
        /\ done'[n + 1] = d
    <3> DEFINE S == [key : Keys, at : Nat]
    <3>1. done \in Seq(S) /\ d \in S
      BY <1>1, <2>2 DEF Typed, Types
    <3> HIDE DEF S, d
    <3>2. /\ done' \in Seq(S) /\ Len(done') = Len(done) + 1
          /\ \A i \in 1 .. Len(done) : done'[i] = done[i]
          /\ done'[Len(done) + 1] = d
      BY <2>1, <3>1, AppendProperties
    <3>3. DOMAIN done' = 1 .. Len(done')
      BY <3>2, LenProperties
    <3> QED
      BY <1>d, <3>2, <3>3 DEF DoneRows
  <2>4. d.key = q /\ d.at = now
    BY <2>2
  <2> HIDE DEF d
  <2>u. unkept \subseteq 1 .. n
    BY <1>d, <2>3 DEF DoneRows
  <2>5. ASSUME q \notin shared, NEW i \in (1 .. n) \ unkept, done[i].key = q
        PROVE  now - done[i].at >= TTL
    <3>1. Answered(q, done[i].at) /\ Alone(q) /\ done[i].at \in Nat
      BY <1>d, <2>3, <2>5 DEF Idempotent, Kept, DoneRows
    <3>2. now >= done[i].at + TTL
      BY <1>1, <2>2, <3>1 DEF Answered, Making, Alone
    <3> QED
      BY <1>1, <3>1, <3>2
  <2>6. CreatedOnce'
    <3>1. ASSUME NEW i \in (1 .. n + 1) \ unkept, NEW j \in 1 .. n + 1, i < j, done'[i].key = done'[j].key,
                 done'[i].key \notin shared
          PROVE  done'[j].at - done'[i].at >= TTL
      <4>1. i \in (1 .. n) \ unkept
        BY <2>3, <3>1
      <4>2. CASE j = n + 1
        BY <2>3, <2>4, <2>5, <3>1, <4>1, <4>2
      <4>3. CASE j # n + 1
        <5>1. j \in 1 .. n
          BY <2>3, <4>3
        <5> QED
          BY <2>3, <3>1, <4>1, <5>1 DEF Idempotent, CreatedOnce
      <4> QED
        BY <4>2, <4>3
    <3> QED
      BY <1>1, <2>3, <3>1 DEF CreatedOnce
  <2>7. ASSUME NEW k \in Keys \ shared PROVE Kept(k)'
    <3>1. ASSUME NEW i \in (1 .. n + 1) \ unkept, done'[i].key = k
          PROVE  (done[i].at <= now /\ Answered(k, done[i].at))'
      <4>1. CASE i = n + 1
        <5>1. k = q /\ done'[i].at = now /\ now' = now /\ now <= now
          BY <1>1, <2>3, <2>4, <3>1, <4>1
        <5>2. \E o \in Calls : call'[o].key = k /\ call'[o].pc = "allocate"
          BY <1>4, <1>5, <2>1, <2>2, <5>1
        <5>3. PICK at \in Nat : at = now
          BY <1>1
        <5>4. Answered(k, at)'
          BY <5>2 DEF Answered, Making
        <5> QED
          BY <5>1, <5>3, <5>4, RowKept
      <4>2. CASE i # n + 1
        <5>1. i \in (1 .. n) \ unkept
          BY <2>3, <3>1, <4>2
        <5>2. done'[i] = done[i] /\ done[i].key = k /\ i \in DOMAIN done \ unkept
          BY <2>3, <3>1, <5>1
        <5>3. PICK at \in Nat : at = done[i].at /\ at <= now' /\ Answered(k, at)'
          BY <1>6, <5>2
        <5> QED
          BY <5>2, <5>3, RowKept
      <4> QED
        BY <4>1, <4>2
    <3> QED
      BY <1>1, <2>3, <3>1 DEF Kept
  <2> QED
    BY <1>1, <1>5, <2>6, <2>7 DEF Idempotent
<1> QED
  BY <1>7, <1>8

\* the answer of a request whose job there is will be kept, unless it fails
LEMMA AllocateIdempotent ==
  ASSUME Typed, Idempotent, NEW c \in Calls, Allocate(c)
  PROVE  Idempotent'
<1>1. UNCHANGED <<cache, done, shared, now>> /\ call[c].pc = "allocate" /\ call[c] \in Call
  BY DEF Allocate, Typed, Types
<1>2. PICK v \in {"created", "full", "failed"} :
        /\ call' = [call EXCEPT ![c].pc = "store", ![c].status = v]
        /\ unkept' = IF v # "failed" THEN unkept ELSE unkept \cup {i \in DOMAIN done : done[i].key = call[c].key}
  BY DEF Allocate, Answer
<1>3. PICK r : r = [call[c] EXCEPT !.pc = "store", !.status = v]
  OBVIOUS
<1>4. call' = [call EXCEPT ![c] = r] /\ r.key = call[c].key /\ r.pc = "store" /\ r.status = v
  BY <1>1, <1>2, <1>3 DEF Call
<1>5. call'[c] = r /\ \A o \in Calls \ {c} : call'[o] = call[o]
  BY <1>4 DEF Typed, Types
<1>6. \A o \in Calls : call'[o].key = call[o].key
  BY <1>4, <1>5
<1>7. \A k \in Keys \ shared : Alone(k)'
  BY <1>6 DEF Idempotent, Alone
<1>8. unkept \subseteq unkept' /\ \A k \in Keys : v = "failed" /\ call[c].key = k =>
        \A i \in DOMAIN done : done[i].key = k => i \in unkept'
  BY <1>2
<1>9. ASSUME NEW k \in Keys \ shared, NEW i \in DOMAIN done \ unkept', done[i].key = k
      PROVE  (done[i].at <= now /\ Answered(k, done[i].at))'
  <2>1. PICK at \in Nat : at = done[i].at
    BY DoneTyped DEF DoneRows
  <2>2. i \in DOMAIN done \ unkept
    BY <1>8
  <2>3. done[i].at <= now /\ Answered(k, done[i].at)
    BY <1>9, <2>2 DEF Idempotent, Kept
  <2>4. Answered(k, at)'
    <3>1. CASE now >= at + TTL
      BY <1>1, <3>1 DEF Answered
    <3>2. CASE cache[k] # None /\ cache[k].until >= at + TTL /\ \A o \in Calls : call[o].key # k
      BY <1>1, <1>6, <3>2 DEF Answered
    <3>3. ASSUME NEW o \in Calls, Making(o, k) PROVE Answered(k, at)'
      <4>1. CASE o # c
        BY <1>5, <3>3, <4>1 DEF Answered, Making
      <4>2. CASE o = c
        <5>1. call[c].key = k
          BY <3>3, <4>2 DEF Making
        <5>2. v # "failed"
          BY <1>8, <1>9, <5>1
        <5>3. Making(c, k)'
          BY <1>4, <1>5, <5>1, <5>2 DEF Making
        <5> QED
          BY <5>3 DEF Answered
      <4> QED
        BY <4>1, <4>2
    <3> QED
      BY <2>1, <2>3, <3>1, <3>2, <3>3 DEF Answered
  <2> QED
    BY <1>1, <2>1, <2>3, <2>4, RowKept
<1>a. \A k \in Keys \ shared : Kept(k)'
  BY <1>1, <1>9 DEF Kept
<1>b. CreatedOnce'
  BY <1>1, <1>8 DEF Idempotent, CreatedOnce
<1> QED
  BY <1>1, <1>7, <1>a, <1>b DEF Idempotent

\* the answer is kept for as long as the key must not create another job
LEMMA StoreIdempotent ==
  ASSUME Typed, Idempotent, NEW c \in Calls, Store(c)
  PROVE  Idempotent'
<1>1. /\ UNCHANGED <<done, shared, unkept, now>> /\ call[c].pc = "store" /\ call[c] \in Call /\ now \in Nat
      /\ call' = [call EXCEPT ![c] = AtRest] /\ AtRest.key = None
      /\ call[c].key = None => UNCHANGED cache
  BY DEF Store, Return, Typed, Types, AtRest
<1>2. call'[c].key = None /\ \A o \in Calls \ {c} : call'[o] = call[o]
  BY <1>1 DEF Typed, Types
<1>3. \A k \in Keys \ shared : Alone(k)'
  BY <1>2 DEF Idempotent, Alone
<1>4. ASSUME NEW k \in Keys \ shared, NEW at \in Nat, at <= now, Answered(k, at)
      PROVE  Answered(k, at)'
  <2>1. CASE now >= at + TTL
    BY <1>1, <2>1 DEF Answered, Making
  <2>2. CASE cache[k] # None /\ cache[k].until >= at + TTL /\ \A o \in Calls : call[o].key # k
    <3>1. cache'[k] = cache[k]
      BY <2>2 DEF Store, Typed, Types
    <3> QED
      BY <1>2, <2>2, <3>1 DEF Answered, Making
  <2>3. CASE \E o \in Calls : Making(o, k)
    <3>1. PICK o \in Calls : Making(o, k)
      BY <2>3
    <3>2. CASE o = c
      <4>0. call[c].key = k /\ call[c].status \in {"created", "full"}
        BY <1>1, <3>1, <3>2 DEF Making
      <4>1. cache' = [cache EXCEPT ![k] = [status |-> call[c].status, until |-> now + TTL]]
        BY <4>0 DEF Store
      <4>2. cache'[k] = [status |-> call[c].status, until |-> now + TTL]
        BY <4>1 DEF Typed, Types
      <4>3. \A p \in Calls : call'[p].key # k
        BY <1>2, <4>0 DEF Idempotent, Alone
      <4>4. cache'[k] # None
        <5>1. now + TTL \in Nat
          BY <1>1
        <5>2. cache'[k] \in Entry
          BY <4>0, <4>2, <5>1 DEF Entry
        <5> QED
          BY <5>2, NoneIsNoEntry
      <4>5. now + TTL >= at + TTL
        BY <1>1, <1>4
      <4> QED
        BY <4>2, <4>3, <4>4, <4>5 DEF Answered, Making
    <3>3. CASE o # c
      BY <1>2, <3>1, <3>3 DEF Answered, Making
    <3> QED
      BY <3>2, <3>3
  <2> QED
    BY <1>4, <2>1, <2>2, <2>3 DEF Answered, Making
<1>5. ASSUME NEW k \in Keys \ shared PROVE Kept(k)'
  <2>1. ASSUME NEW i \in DOMAIN done \ unkept, done[i].key = k
        PROVE  (done[i].at <= now /\ Answered(k, done[i].at))'
    <3>1. PICK at \in Nat : at = done[i].at
      BY DoneTyped DEF DoneRows
    <3>2. done[i].at <= now /\ Answered(k, done[i].at)
      BY <2>1 DEF Idempotent, Kept
    <3>3. Answered(k, at)'
      BY <1>4, <3>1, <3>2
    <3> QED
      BY <1>1, <3>1, <3>2, <3>3, RowKept
  <2> QED
    BY <1>1, <2>1 DEF Kept
<1>6. CreatedOnce'
  BY <1>1 DEF Idempotent, CreatedOnce
<1> QED
  BY <1>1, <1>3, <1>5, <1>6 DEF Idempotent

LEMMA SweepIdempotent ==
  ASSUME Typed, Idempotent, SweepCache
  PROVE  Idempotent'
<1>1. /\ UNCHANGED <<call, done, shared, unkept, now>> /\ now \in Nat
      /\ cache' = [k \in Keys |-> IF cache[k] # None /\ now > cache[k].until THEN None ELSE cache[k]]
  BY DEF SweepCache, Typed, Types
<1>2. \A k \in Keys \ shared : Alone(k)'
  BY <1>1 DEF Idempotent, Alone
<1>3. ASSUME NEW k \in Keys \ shared, NEW at \in Nat, Answered(k, at) PROVE Answered(k, at)'
  <2>1. CASE now >= at + TTL
    BY <1>1, <2>1 DEF Answered, Making
  <2>2. CASE cache[k] # None /\ cache[k].until >= at + TTL /\ \A o \in Calls : call[o].key # k
    <3>1. cache[k].until \in Nat
      BY <2>2 DEF Typed, Types, Entry
    <3>2. CASE now > cache[k].until
      <4>1. \A x, y, z \in Nat : x > y /\ y >= z => x >= z
        OBVIOUS
      <4>2. at + TTL \in Nat
        OBVIOUS
      <4>3. now >= at + TTL
        BY <1>1, <2>2, <3>1, <3>2, <4>1, <4>2
      <4> QED
        BY <1>1, <4>3 DEF Answered, Making
    <3>3. CASE ~ (now > cache[k].until)
      <4>1. cache'[k] = cache[k]
        BY <1>1, <3>3
      <4> QED
        BY <1>1, <2>2, <4>1 DEF Answered, Making
    <3> QED
      BY <3>2, <3>3
  <2>3. CASE \E o \in Calls : Making(o, k)
    BY <1>1, <2>3 DEF Answered, Making
  <2> QED
    BY <1>3, <2>1, <2>2, <2>3 DEF Answered, Making
<1>4. ASSUME NEW k \in Keys \ shared PROVE Kept(k)'
  <2>1. ASSUME NEW i \in DOMAIN done \ unkept, done[i].key = k
        PROVE  (done[i].at <= now /\ Answered(k, done[i].at))'
    <3>1. PICK at \in Nat : at = done[i].at
      BY DoneTyped DEF DoneRows
    <3>2. done[i].at <= now /\ Answered(k, done[i].at)
      BY <2>1 DEF Idempotent, Kept
    <3>3. Answered(k, at)'
      BY <1>3, <3>1, <3>2
    <3> QED
      BY <1>1, <3>1, <3>2, <3>3, RowKept
  <2> QED
    BY <1>1, <2>1 DEF Kept
<1>5. CreatedOnce'
  BY <1>1 DEF Idempotent, CreatedOnce
<1> QED
  BY <1>1, <1>2, <1>4, <1>5 DEF Idempotent

\* no answer of before is kept
LEMMA RestartIdempotent ==
  ASSUME Typed, Idempotent, Restart
  PROVE  Idempotent'
<1>1. unkept' = DOMAIN done /\ UNCHANGED <<done, shared>> /\ \A c \in Calls : call'[c].key = None
  BY DEF Restart, AtRest
<1>2. CreatedOnce'
  BY <1>1 DEF CreatedOnce
<1>3. \A k \in Keys : Kept(k)'
  BY <1>1 DEF Kept
<1>4. \A k \in Keys : Alone(k)'
  BY <1>1 DEF Alone
<1> QED
  BY <1>1, <1>2, <1>3, <1>4 DEF Idempotent

CacheInv == Typed /\ Idempotent

LEMMA NextCache == CacheInv /\ [Next]_vars => CacheInv'
<1> SUFFICES ASSUME CacheInv, [Next]_vars PROVE Idempotent'
  BY NextTyped DEF CacheInv
<1> USE DEF CacheInv
<1>1. CASE UNCHANGED <<call, requests, now>>
  <2>1. UNCHANGED <<cache, done, shared, unkept, call, now>>
    BY <1>1 DEF requests
  <2> QED
    BY <2>1, KeysRest
<1>2. CASE SweepStamps \/ Tick
  <2>1. UNCHANGED <<cache, done, shared, unkept, call>> /\ now' \in {now, now + 1}
    BY <1>2 DEF SweepStamps, Tick, requests
  <2> QED
    BY <2>1, KeysRest
<1>3. CASE UNCHANGED vars \/ (\E u \in Accounts : RevokeAllForUser(u)) \/ \E k \in DOMAIN tokens : Expire(k)
  BY <1>1, <1>3 DEF vars, RevokeAllForUser, Expire
<1>4. ASSUME NEW c \in Calls, Step(c) PROVE Idempotent'
  BY <1>4, SessionIdempotent, LimitIdempotent, HandleIdempotent, AllocateIdempotent, StoreIdempotent DEF Step
<1>5. ASSUME NEW c \in Calls,
             \/ \E u \in Accounts : \/ Register(c, u) \/ Login(c, u)
                                    \/ \E k \in Keys \cup {None} : Submit(c, u, k)
             \/ \E k \in DOMAIN tokens : FindToken(c, k) \/ Logout(c, k)
      PROVE  Idempotent'
  BY <1>5, SessionIdempotent, SubmitIdempotent
<1> QED
  BY <1>2, <1>3, <1>4, <1>5, SweepIdempotent, RestartIdempotent DEF Next

\* A key creates a second job only when the day of the first is over, or two
\* requests brought it at once, or the first answer is not kept, the allocation
\* having failed after the row was inserted or the gateway restarted: for every
\* number of keys and of requests, whatever the sweep removes
\* (idempotencyMiddleware, handleSubmitJob).
THEOREM KeyCreatesOnce == Spec => []CreatedOnce
<1>1. Init => CacheInv
  <2> SUFFICES ASSUME Init PROVE Idempotent
    BY InitTyped DEF CacheInv
  <2>1. done = << >> /\ DOMAIN done = {}
    BY DEF Init
  <2>k. \A c \in Calls : call[c].key = None
    BY DEF Init, AtRest
  <2>2. CreatedOnce /\ \A k \in Keys : Kept(k)
    BY <2>1 DEF CreatedOnce, Kept
  <2>3. \A k \in Keys : Alone(k)
    BY <2>k DEF Alone
  <2> QED
    BY <2>2, <2>3 DEF Idempotent
<1>2. CacheInv => CreatedOnce
  BY DEF CacheInv, Idempotent
<1> QED
  BY <1>1, <1>2, NextCache, PTL DEF Spec
=============================================================================
