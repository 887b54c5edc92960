-------------------------- MODULE SessionCursorProofs --------------------------
(***************************************************************************)
(* Proofs about the event stream of a session (SessionCursor), for every   *)
(* capacity, number of events and set of clients: no client holds an event *)
(* twice, out of order or - if it takes events as handleEvents does - with *)
(* a gap, and none is turned away whom the ring could serve.               *)
(***************************************************************************)
EXTENDS SessionCursor, FiniteSetTheorems, SequenceTheorems, TLAPS

-----------------------------------------------------------------------------
(* The inductive invariant.                                                *)

Ascending(s) == \A i, j \in DOMAIN s : i < j => s[i] < s[j]

UpTo(s, n) == \A i \in DOMAIN s : s[i] <= n

\* The ring holds the last events, without a gap, and is empty only at first.
RingInv ==
    /\ seq > 0 => ring # <<>>
    /\ Len(ring) <= seq
    /\ \A i \in DOMAIN ring : ring[i] = (seq - Len(ring)) + i

\* What a client holds and what it is still to take ascend, one behind the other.
ClientInv ==
    \A c \in Clients :
       /\ Ascending(seen[c]) /\ UpTo(seen[c], seq)
       /\ Ascending(sub[c].todo) /\ UpTo(sub[c].todo, seq)
       /\ \A i \in DOMAIN seen[c], j \in DOMAIN sub[c].todo : seen[c][i] < sub[c].todo[j]
       /\ sub[c].phase \notin {"replaying", "live"} => sub[c].todo = <<>>

\* A client that does not pause holds the first events, and all of them while it
\* is connected.
PromptInv ==
    \A c \in Clients \ Paced :
       /\ sub[c].todo = <<>> /\ sub[c].phase # "replaying"
       /\ \A i \in DOMAIN seen[c] : seen[c][i] = i
       /\ sub[c].phase = "live" => Len(seen[c]) = seq

CursorInv == TypeOK /\ RingInv /\ ClientInv /\ PromptInv

-----------------------------------------------------------------------------
(* Sequences of ids.                                                       *)

SubType == [phase : {"off", "replaying", "live", "lost", "ended"},
            from : 0..MaxEvents, todo : Seq(Ids)]

\* Ids are numbers.
LEMMA IdsAreNumbers == Ids \subseteq Nat /\ \A n \in Nat : 1..n \subseteq Nat
BY CursorAssumption DEF Ids

LEMMA SeqOfIds ==
    ASSUME NEW s \in Seq(Ids)
    PROVE  s \in Seq(Nat) /\ \A i \in DOMAIN s : s[i] \in Nat
<1>1. \A i \in 1..Len(s) : s[i] \in Nat
  <2>1. \A i \in 1..Len(s) : s[i] \in Ids
    OBVIOUS
  <2> QED
    BY <2>1, IdsAreNumbers
<1>2. /\ Len(s) \in Nat /\ DOMAIN s = 1..Len(s)
      /\ s = [i \in 1..Len(s) |-> s[i]]
  OBVIOUS
<1> QED
  BY <1>1, <1>2

\* What a consumer makes of its state.
LEMMA SubUpdates ==
    /\ \A s \in SubType, t \in Seq(Ids) :
          LET left == [s EXCEPT !.todo = t] IN
          /\ left \in SubType /\ left.todo = t /\ left.phase = s.phase /\ left.from = s.from
    /\ \A s \in SubType : Ended(s) = [phase |-> "ended", from |-> s.from, todo |-> <<>>]
    /\ \A n \in 0..MaxEvents :
          [phase |-> "ended", from |-> n, todo |-> <<>>] \in SubType
<1>1. \A s \in SubType, t \in Seq(Ids) :
         LET left == [s EXCEPT !.todo = t] IN
         /\ left \in SubType /\ left.todo = t /\ left.phase = s.phase /\ left.from = s.from
  BY DEF SubType
<1>2. \A s \in SubType : Ended(s) = [phase |-> "ended", from |-> s.from, todo |-> <<>>]
  <2> SUFFICES ASSUME NEW s \in SubType
               PROVE  Ended(s) = [phase |-> "ended", from |-> s.from, todo |-> <<>>]
    OBVIOUS
  <2>1. <<>> \in Seq(Ids)
    OBVIOUS
  <2>2. /\ Ended(s) \in SubType /\ Ended(s).phase = "ended"
        /\ Ended(s).from = s.from /\ Ended(s).todo = <<>>
    BY <2>1 DEF SubType, Ended
  <2>3. \A r \in SubType : r = [phase |-> r.phase, from |-> r.from, todo |-> r.todo]
    BY DEF SubType
  <2> QED
    BY <2>2, <2>3
<1>3. \A n \in 0..MaxEvents : [phase |-> "ended", from |-> n, todo |-> <<>>] \in SubType
  BY DEF SubType
<1> QED
  BY <1>1, <1>2, <1>3

\* An ascending sequence stays so when a greater element is appended.
LEMMA AppendAscends ==
    ASSUME NEW s \in Seq(Nat), Ascending(s), NEW n \in Nat, UpTo(s, n),
           NEW x \in Nat, x > n
    PROVE  /\ Append(s, x) \in Seq(Nat)
           /\ Ascending(Append(s, x))
           /\ UpTo(Append(s, x), x)
           /\ Len(Append(s, x)) = Len(s) + 1
           /\ Append(s, x)[Len(s) + 1] = x
           /\ \A i \in DOMAIN s : Append(s, x)[i] = s[i]
           /\ \A i \in DOMAIN Append(s, x) : i \in DOMAIN s \/ i = Len(s) + 1
<1> DEFINE t == Append(s, x)
<1>1. /\ t \in Seq(Nat) /\ Len(t) = Len(s) + 1 /\ t[Len(s) + 1] = x
      /\ \A i \in DOMAIN s : t[i] = s[i] /\ i < Len(s) + 1 /\ i \in Nat
      /\ \A i \in DOMAIN t : i \in DOMAIN s \/ i = Len(s) + 1
      /\ Len(s) \in Nat
  OBVIOUS
<1>2. \A i \in DOMAIN s : s[i] \in Nat /\ s[i] < x /\ s[i] <= x
  BY DEF UpTo
<1> HIDE DEF t
<1>3. Ascending(t)
  <2> SUFFICES ASSUME NEW i \in DOMAIN t, NEW j \in DOMAIN t, i < j PROVE t[i] < t[j]
    BY DEF Ascending
  <2>1. i \in DOMAIN s
    BY <1>1
  <2>2. CASE j \in DOMAIN s
    BY <1>1, <2>1, <2>2 DEF Ascending
  <2>3. CASE j = Len(s) + 1
    BY <1>1, <1>2, <2>1, <2>3
  <2> QED
    BY <1>1, <2>2, <2>3
<1>4. UpTo(t, x)
  BY <1>1, <1>2 DEF UpTo
<1> QED
  BY <1>1, <1>3, <1>4 DEF t

\* Two ascending sequences, one behind the other, ascend together.
LEMMA JoinAscends ==
    ASSUME NEW s \in Seq(Nat), NEW t \in Seq(Nat), Ascending(s), Ascending(t),
           NEW n \in Nat, UpTo(s, n), \A j \in DOMAIN t : t[j] > n,
           NEW m \in Nat, UpTo(t, m), n <= m
    PROVE  /\ s \o t \in Seq(Nat)
           /\ Ascending(s \o t)
           /\ UpTo(s \o t, m)
           /\ Len(s \o t) = Len(s) + Len(t)
           /\ \A i \in DOMAIN s : (s \o t)[i] = s[i]
           /\ \A j \in DOMAIN t : (s \o t)[Len(s) + j] = t[j]
<1> DEFINE u == s \o t
<1>1. /\ u \in Seq(Nat) /\ Len(u) = Len(s) + Len(t) /\ Len(s) \in Nat /\ Len(t) \in Nat
      /\ \A i \in DOMAIN s : u[i] = s[i]
      /\ \A j \in DOMAIN t : u[Len(s) + j] = t[j]
  OBVIOUS
<1>2. \A i \in DOMAIN u : \/ i \in DOMAIN s
                          \/ (i - Len(s) \in DOMAIN t /\ u[i] = t[i - Len(s)] /\ i > Len(s))
  OBVIOUS
<1>3. /\ \A i \in DOMAIN s : s[i] \in Nat /\ s[i] <= n /\ i \in Nat /\ i <= Len(s)
      /\ \A j \in DOMAIN t : t[j] \in Nat /\ t[j] > n /\ t[j] <= m /\ j \in Nat
  BY DEF UpTo
<1> HIDE DEF u
<1>4. ASSUME NEW i \in DOMAIN u, NEW j \in DOMAIN u, i < j PROVE u[i] < u[j]
  <2>0. i \in Nat /\ j \in Nat
    BY <1>1
  <2>1. CASE i \in DOMAIN s /\ j \in DOMAIN s
    BY <1>1, <1>4, <2>1 DEF Ascending
  <2>2. CASE i \in DOMAIN s /\ j \notin DOMAIN s
    <3>1. u[j] > n /\ u[j] \in Nat
      BY <1>2, <1>3, <2>2
    <3>2. u[i] <= n /\ u[i] \in Nat
      BY <1>1, <1>3, <2>2
    <3> QED
      BY <3>1, <3>2
  <2>3. CASE i \notin DOMAIN s
    <3>1. i - Len(s) \in DOMAIN t /\ u[i] = t[i - Len(s)] /\ i > Len(s)
      BY <1>2, <2>3
    <3>2. j \notin DOMAIN s
      BY <1>3, <1>4, <2>0, <1>1, <3>1
    <3>3. j - Len(s) \in DOMAIN t /\ u[j] = t[j - Len(s)]
      BY <1>2, <3>2
    <3>4. i - Len(s) < j - Len(s)
      BY <1>1, <1>4, <2>0
    <3> QED
      BY <3>1, <3>3, <3>4 DEF Ascending
  <2> QED
    BY <2>1, <2>2, <2>3
<1>5. UpTo(u, m)
  BY <1>1, <1>2, <1>3 DEF UpTo
<1> QED
  BY <1>1, <1>4, <1>5 DEF u, Ascending

-----------------------------------------------------------------------------
(* The replay.                                                             *)

\* The ids from n + 1 to m.
From(n, m) == [k \in 1..(m - n) |-> n + k]

LEMMA FromAscends ==
    ASSUME NEW n \in Nat, NEW m \in Nat, n <= m
    PROVE  /\ From(n, m) \in Seq(Nat)
           /\ Len(From(n, m)) = m - n
           /\ DOMAIN From(n, m) = 1..(m - n)
           /\ \A k \in 1..(m - n) : From(n, m)[k] = n + k
           /\ Ascending(From(n, m))
           /\ UpTo(From(n, m), m)
           /\ \A k \in DOMAIN From(n, m) : From(n, m)[k] > n
           /\ m <= MaxEvents => From(n, m) \in Seq(Ids)
<1>1. m - n \in Nat
  OBVIOUS
<1>2. /\ From(n, m) \in Seq(Nat) /\ Len(From(n, m)) = m - n
      /\ DOMAIN From(n, m) = 1..(m - n)
      /\ \A k \in 1..(m - n) : From(n, m)[k] = n + k
  BY <1>1 DEF From
<1>3. Ascending(From(n, m)) /\ UpTo(From(n, m), m)
  BY <1>1, <1>2 DEF Ascending, UpTo
<1>4. ASSUME m <= MaxEvents PROVE From(n, m) \in Seq(Ids)
  <2>1. \A k \in 1..(m - n) : n + k \in Ids
    BY <1>1, <1>4, CursorAssumption DEF Ids
  <2> QED
    BY <1>1, <2>1 DEF From
<1> QED
  BY <1>1, <1>2, <1>3, <1>4

\* The positions of an interval, counted by how many are up to them.
LEMMA NthOfInterval ==
    ASSUME NEW a \in Nat, NEW b \in Nat, a <= b + 1, NEW k \in 1..(b - a + 1)
    PROVE  (CHOOSE i \in a..b : Cardinality({j \in a..b : j <= i}) = k) = (a + k) - 1
<1>1. ASSUME NEW i \in a..b PROVE Cardinality({j \in a..b : j <= i}) = (i - a) + 1
  <2>1. {j \in a..b : j <= i} = a..i
    OBVIOUS
  <2>2. a \in Int /\ i \in Int /\ ~(a > i)
    OBVIOUS
  <2>3. Cardinality(a..i) = (i - a) + 1
    BY <2>2, FS_Interval
  <2> QED
    BY <2>1, <2>3
<1>2. (a + k) - 1 \in a..b
  OBVIOUS
<1>3. \A i \in a..b : Cardinality({j \in a..b : j <= i}) = k <=> i = (a + k) - 1
  <2> SUFFICES ASSUME NEW i \in a..b
               PROVE  Cardinality({j \in a..b : j <= i}) = k <=> i = (a + k) - 1
    OBVIOUS
  <2>1. Cardinality({j \in a..b : j <= i}) = (i - a) + 1
    BY <1>1
  <2> QED
    BY <2>1
<1> QED
  BY <1>2, <1>3

\* What is replayed to a client that may resume is all that it has not got.
LEMMA ReplayIsRest ==
    ASSUME TypeOK, RingInv, NEW from \in Nat, from <= seq, CanResumeFrom(from)
    PROVE  Replay(from) = From(from, seq)
<1> DEFINE n == Len(ring)
           kept == {i \in DOMAIN ring : ring[i] > from}
<1>1. /\ ring \in Seq(Ids) /\ n \in Nat /\ seq \in Nat /\ n <= seq /\ DOMAIN ring = 1..n
      /\ \A i \in 1..n : ring[i] = (seq - n) + i
  BY DEF TypeOK, RingInv
<1>0. Replay(from) = [k \in 1..Cardinality(kept) |->
                         ring[CHOOSE i \in kept : Cardinality({j \in kept : j <= i}) = k]]
  BY DEF Replay
<1> HIDE DEF kept
<1>2. CASE from = seq
  <2>1. kept = {}
    BY <1>1, <1>2 DEF kept
  <2>2. Cardinality(kept) = 0
    BY <2>1, FS_EmptySet
  <2>3. Replay(from) = <<>> /\ From(from, seq) = <<>>
    <3>1. 1..Cardinality(kept) = {} /\ 1..(seq - from) = {}
      BY <1>1, <1>2, <2>2
    <3> QED
      BY <1>0, <3>1 DEF From
  <2> QED
    BY <2>3
<1>3. CASE from # seq
  <2> DEFINE a == (from - (seq - n)) + 1
  <2>1. from < seq /\ ring # <<>> /\ n >= 1
    BY <1>1, <1>3 DEF RingInv
  <2>2. from >= seq - n
    BY <1>1, <2>1 DEF CanResumeFrom
  <2>3. a \in Nat /\ a >= 1 /\ a <= n /\ (n - a) + 1 = seq - from
    BY <1>1, <2>1, <2>2
  <2>4. kept = a..n
    BY <1>1, <2>3 DEF kept
  <2>5. Cardinality(a..n) = seq - from
    BY <1>1, <2>3, FS_Interval
  <2> HIDE DEF a, n
  <2>6. ASSUME NEW k \in 1..(seq - from)
        PROVE  ring[CHOOSE i \in a..n : Cardinality({j \in a..n : j <= i}) = k] = from + k
    <3>1. (CHOOSE i \in a..n : Cardinality({j \in a..n : j <= i}) = k) = (a + k) - 1
      <4>1. n \in Nat /\ a <= n + 1 /\ k \in 1..((n - a) + 1)
        BY <1>1, <2>1, <2>3, <2>6
      <4> QED
        BY <2>3, <4>1, NthOfInterval
    <3>2. (a + k) - 1 \in 1..n
      BY <1>1, <2>1, <2>3
    <3>3. ring[(a + k) - 1] = (seq - n) + ((a + k) - 1)
      BY <1>1, <3>2
    <3>4. (seq - n) + ((a + k) - 1) = from + k
      BY <1>1, <2>1 DEF a
    <3> QED
      BY <3>1, <3>3, <3>4
  <2>7. Replay(from) = [k \in 1..(seq - from) |->
                           ring[CHOOSE i \in a..n : Cardinality({j \in a..n : j <= i}) = k]]
    BY <1>0, <2>4, <2>5
  <2> QED
    BY <2>6, <2>7 DEF From
<1> QED
  BY <1>2, <1>3

-----------------------------------------------------------------------------
(* One client takes a step.                                                *)

\* What ClientInv and PromptInv say of a client that holds h and is at s.
Good(c, h, s) ==
    /\ h \in Seq(Ids) /\ s \in SubType
    /\ Ascending(h) /\ UpTo(h, seq)
    /\ Ascending(s.todo) /\ UpTo(s.todo, seq)
    /\ \A i \in DOMAIN h, j \in DOMAIN s.todo : h[i] < s.todo[j]
    /\ s.phase \notin {"replaying", "live"} => s.todo = <<>>
    /\ c \notin Paced =>
          /\ s.todo = <<>> /\ s.phase # "replaying"
          /\ \A i \in DOMAIN h : h[i] = i
          /\ s.phase = "live" => Len(h) = seq

\* Every client is good.
LEMMA AllGood == ASSUME CursorInv, NEW c \in Clients PROVE Good(c, seen[c], sub[c])
<1>1. seen[c] \in Seq(Ids) /\ sub[c] \in SubType
  BY DEF CursorInv, TypeOK, SubType
<1> QED
  BY <1>1 DEF CursorInv, ClientInv, PromptInv, Good

\* A step of one client keeps the invariant if the client is good afterwards.
LEMMA OneClient ==
    ASSUME CursorInv, NEW c \in Clients, NEW h, NEW s, Good(c, h, s),
           sub' = [sub EXCEPT ![c] = s], seen' = [seen EXCEPT ![c] = h], UNCHANGED cursor
    PROVE  CursorInv'
<1>1. UNCHANGED <<ring, seq, closed, terminated>>
  BY DEF cursor
<1>2. /\ sub \in [Clients -> SubType] /\ seen \in [Clients -> Seq(Ids)]
      /\ s \in SubType /\ h \in Seq(Ids)
  BY DEF CursorInv, TypeOK, SubType, Good
<1>3. /\ sub' \in [Clients -> SubType] /\ seen' \in [Clients -> Seq(Ids)]
      /\ sub'[c] = s /\ seen'[c] = h
      /\ \A d \in Clients : d # c => sub'[d] = sub[d] /\ seen'[d] = seen[d]
  BY <1>2
<1>4. TypeOK' /\ RingInv'
  BY <1>1, <1>3 DEF CursorInv, TypeOK, SubType, RingInv
<1>5. \A d \in Clients : Good(d, seen'[d], sub'[d])
  BY <1>3, AllGood
<1>6. ClientInv' /\ PromptInv'
  BY <1>1, <1>5 DEF ClientInv, PromptInv, Good
<1> QED
  BY <1>4, <1>6 DEF CursorInv

\* The phases a client may move to with nothing left to take.
LEMMA GoodPhase ==
    ASSUME NEW c, NEW h, NEW s \in SubType, NEW p \in {"off", "live", "lost", "ended"},
           NEW n \in 0..MaxEvents,
           h \in Seq(Ids), Ascending(h), UpTo(h, seq),
           c \notin Paced => /\ \A i \in DOMAIN h : h[i] = i
                             /\ p = "live" => Len(h) = seq
    PROVE  Good(c, h, [phase |-> p, from |-> n, todo |-> <<>>])
<1> DEFINE r == [phase |-> p, from |-> n, todo |-> <<>>]
<1>1. r \in SubType /\ r.todo = <<>> /\ r.phase = p
  BY DEF SubType
<1> HIDE DEF r
<1>2. Ascending(<<>>) /\ UpTo(<<>>, seq) /\ DOMAIN <<>> = {}
  BY DEF Ascending, UpTo
<1> QED
  BY <1>1, <1>2 DEF Good, r

\* The first element and the rest of an ascending sequence.
LEMMA FirstAndRest ==
    ASSUME NEW s \in Seq(Ids), s # <<>>, Ascending(s)
    PROVE  /\ Head(s) = s[1] /\ Head(s) \in Ids /\ 1 \in DOMAIN s
           /\ Tail(s) \in Seq(Ids) /\ Ascending(Tail(s))
           /\ \A i \in DOMAIN Tail(s) : /\ i + 1 \in DOMAIN s /\ Tail(s)[i] = s[i + 1]
                                        /\ s[1] < s[i + 1]
<1>1. /\ Head(s) = s[1] /\ Head(s) \in Ids /\ 1 \in DOMAIN s
      /\ Tail(s) \in Seq(Ids)
      /\ \A i \in DOMAIN Tail(s) : /\ i \in Nat /\ i >= 1
                                   /\ i + 1 \in DOMAIN s /\ Tail(s)[i] = s[i + 1]
  OBVIOUS
<1>2. Ascending(Tail(s))
  BY <1>1 DEF Ascending
<1>3. \A i \in DOMAIN Tail(s) : s[1] < s[i + 1]
  BY <1>1 DEF Ascending
<1> QED
  BY <1>1, <1>2, <1>3

\* A client that takes an event holds it behind those it had.
LEMMA TakeStep == ASSUME CursorInv, NEW c \in Clients, Take(c) PROVE CursorInv'
<1> DEFINE h == seen[c]
           t == sub[c].todo
           x == Head(t)
           left == [sub[c] EXCEPT !.todo = Tail(@)]
           s == IF terminated /\ x = seq THEN Ended(left) ELSE left
           g == Append(h, x)
<1>1. /\ c \in Paced /\ sub[c].phase \in {"replaying", "live"} /\ t # <<>>
      /\ sub' = [sub EXCEPT ![c] = s] /\ seen' = [seen EXCEPT ![c] = g] /\ UNCHANGED cursor
  <2>1. seen' = [seen EXCEPT ![c] = Append(@, x)]
    BY DEF Take
  <2> QED
    BY <2>1 DEF Take, CursorInv, TypeOK
<1>2. Good(c, h, sub[c]) /\ sub[c] \in SubType /\ t \in Seq(Ids) /\ h \in Seq(Ids)
  BY AllGood DEF Good, SubType
<1>3. Ascending(t) /\ Ascending(h) /\ UpTo(t, seq) /\ UpTo(h, seq) /\ seq \in Nat
      /\ \A i \in DOMAIN h, j \in DOMAIN t : h[i] < t[j]
  BY <1>2 DEF Good, CursorInv, TypeOK
<1>4. /\ x = t[1] /\ x \in Ids /\ 1 \in DOMAIN t
      /\ Tail(t) \in Seq(Ids) /\ Ascending(Tail(t))
      /\ \A i \in DOMAIN Tail(t) : i + 1 \in DOMAIN t /\ Tail(t)[i] = t[i + 1] /\ t[1] < t[i + 1]
  BY <1>1, <1>2, <1>3, FirstAndRest
<1>5. /\ left \in SubType /\ left.todo = Tail(t) /\ left.phase = sub[c].phase
      /\ Ended(left) \in SubType /\ Ended(left).todo = <<>> /\ Ended(left).phase = "ended"
  <2>1. left \in SubType /\ left.todo = Tail(t) /\ left.phase = sub[c].phase
    BY <1>2, <1>4, SubUpdates
  <2> HIDE DEF left
  <2>2. left.from \in 0..MaxEvents /\ Ended(left) = [phase |-> "ended", from |-> left.from, todo |-> <<>>]
    BY <2>1, SubUpdates DEF SubType
  <2> QED
    BY <2>1, <2>2, SubUpdates
<1> HIDE DEF left, t, x, g, h
<1>6. x \in Nat /\ x - 1 \in Nat /\ x <= seq /\ x > x - 1
  BY <1>3, <1>4, IdsAreNumbers DEF Ids, UpTo
<1>7. h \in Seq(Nat) /\ UpTo(h, x - 1)
  <2>1. h \in Seq(Nat)
    BY <1>2, SeqOfIds
  <2> QED
    BY <1>3, <1>4, <1>6, <2>1 DEF UpTo
<1>8. /\ g \in Seq(Ids) /\ Ascending(g) /\ UpTo(g, x)
      /\ \A i \in DOMAIN g : g[i] \in Nat
  <2>1. g \in Seq(Nat) /\ Ascending(g) /\ UpTo(g, x)
    BY <1>3, <1>6, <1>7, AppendAscends DEF g
  <2>2. g \in Seq(Ids)
    BY <1>2, <1>4 DEF g
  <2> QED
    BY <2>1, <2>2
<1>9. UpTo(g, seq)
  BY <1>3, <1>6, <1>8 DEF UpTo
<1>10. UpTo(Tail(t), seq) /\ UpTo(<<>>, seq) /\ Ascending(<<>>) /\ DOMAIN <<>> = {}
  BY <1>3, <1>4 DEF UpTo, Ascending
<1>11. \A i \in DOMAIN g, j \in DOMAIN Tail(t) : g[i] < Tail(t)[j]
  <2> SUFFICES ASSUME NEW i \in DOMAIN g, NEW j \in DOMAIN Tail(t) PROVE g[i] < Tail(t)[j]
    OBVIOUS
  <2>1. Tail(t)[j] \in Nat
    BY <1>4, SeqOfIds
  <2>2. g[i] \in Nat /\ g[i] <= x /\ x < Tail(t)[j]
    BY <1>4, <1>8 DEF UpTo
  <2> QED
    BY <1>6, <2>1, <2>2
<1>12. Good(c, g, left) /\ Good(c, g, Ended(left))
  BY <1>1, <1>5, <1>8, <1>9, <1>10, <1>11, <1>4 DEF Good
<1>13. Good(c, g, s)
  BY <1>12
<1> QED
  BY <1>1, <1>13, OneClient

\* Attaching, returning and dropping change nothing that was taken.
LEMMA PhaseStep ==
    ASSUME CursorInv, NEW c \in Clients, Attach(c) \/ Return(c) \/ Drop(c)
    PROVE  CursorInv'
<1> DEFINE h == seen[c]
           n == sub[c].from
<1>1. /\ Good(c, h, sub[c]) /\ h \in Seq(Ids) /\ sub[c] \in SubType /\ n \in 0..MaxEvents
      /\ seen' = [seen EXCEPT ![c] = h]
  BY AllGood DEF Good, SubType, CursorInv, TypeOK, Attach, Return, Drop
<1>2. /\ Ascending(h) /\ UpTo(h, seq)
      /\ c \notin Paced => /\ \A i \in DOMAIN h : h[i] = i
                           /\ sub[c].phase # "replaying"
  BY <1>1 DEF Good
<1>3. UNCHANGED cursor
  BY DEF Attach, Return, Drop
<1>4. CASE Attach(c)
  <2> DEFINE p == IF closed THEN "ended" ELSE "live"
  <2>1. /\ sub[c].phase = "replaying" /\ sub[c].todo = <<>>
        /\ sub' = [sub EXCEPT ![c].phase = p]
    BY <1>4 DEF Attach
  <2>2. [sub[c] EXCEPT !.phase = p] = [phase |-> p, from |-> n, todo |-> <<>>]
    BY <1>1, <2>1 DEF SubType
  <2>3. sub' = [sub EXCEPT ![c] = [phase |-> p, from |-> n, todo |-> <<>>]]
    BY <2>1, <2>2
  <2>4. Good(c, h, [phase |-> p, from |-> n, todo |-> <<>>])
    BY <1>1, <1>2, <2>1, GoodPhase
  <2> QED
    BY <1>1, <1>3, <2>3, <2>4, OneClient
<1>5. CASE Return(c)
  <2>1. sub' = [sub EXCEPT ![c] = Ended(sub[c])]
    BY <1>5 DEF Return
  <2>2. Ended(sub[c]) = [phase |-> "ended", from |-> n, todo |-> <<>>]
    BY <1>1, SubUpdates
  <2>3. Good(c, h, [phase |-> "ended", from |-> n, todo |-> <<>>])
    BY <1>1, <1>2, GoodPhase
  <2> QED
    BY <1>1, <1>3, <2>1, <2>2, <2>3, OneClient
<1>6. CASE Drop(c)
  <2>1. sub' = [sub EXCEPT ![c] = Off] /\ 0 \in 0..MaxEvents
    BY <1>6, CursorAssumption DEF Drop
  <2>2. Good(c, h, Off)
    BY <1>1, <1>2, <2>1, GoodPhase DEF Off
  <2> QED
    BY <1>1, <1>3, <2>1, <2>2, OneClient
<1> QED
  BY <1>4, <1>5, <1>6

\* A client connects from nothing, or from the last event it holds.
LEMMA ConnectStep ==
    ASSUME CursorInv, NEW c \in Clients, NEW from \in {0, Last(seen[c])}, Connect(c, from)
    PROVE  CursorInv'
<1> DEFINE held == IF from = 0 THEN <<>> ELSE seen[c]
           rest == Replay(from)
           old  == sub[c]
<1>1. /\ old.phase = "off" /\ UNCHANGED cursor /\ old.todo = <<>> /\ old \in SubType
      /\ seen[c] \in Seq(Ids) /\ Ascending(seen[c]) /\ UpTo(seen[c], seq)
      /\ c \notin Paced => \A i \in DOMAIN seen[c] : seen[c][i] = i
      /\ seq \in Nat /\ seq <= MaxEvents /\ seq \in 0..MaxEvents
  BY AllGood, CursorAssumption DEF Connect, Good, CursorInv, TypeOK
<1> HIDE DEF old
<1>2. \/ seen[c] = <<>> /\ from = 0
      \/ /\ seen[c] # <<>> /\ Len(seen[c]) \in DOMAIN seen[c]
         /\ from \in {0, seen[c][Len(seen[c])]}
  BY <1>1 DEF Last
<1>3. from \in 0..MaxEvents /\ from \in Nat /\ from <= seq
  <2>1. \A i \in DOMAIN seen[c] : seen[c][i] \in Nat /\ seen[c][i] <= seq
    BY <1>1, SeqOfIds DEF UpTo
  <2> QED
    BY <1>1, <1>2, <2>1, CursorAssumption
<1>4. /\ held \in Seq(Ids) /\ Ascending(held) /\ UpTo(held, from)
      /\ c \notin Paced => Len(held) = from /\ \A i \in DOMAIN held : held[i] = i
  <2>1. CASE from = 0
    <3>1. held = <<>> /\ DOMAIN <<>> = {} /\ Len(<<>>) = 0 /\ <<>> \in Seq(Ids)
      BY <2>1
    <3> QED
      BY <2>1, <3>1 DEF Ascending, UpTo
  <2>2. CASE from # 0
    <3>1. /\ held = seen[c] /\ Len(seen[c]) \in DOMAIN seen[c]
          /\ from = seen[c][Len(seen[c])]
      BY <1>2, <2>2
    <3> DEFINE n == Len(seen[c])
    <3>2. n \in Nat /\ DOMAIN seen[c] = 1..n /\ \A i \in 1..n : i = n \/ i < n
      BY <1>1
    <3>3. UpTo(seen[c], from)
      <4> SUFFICES ASSUME NEW i \in 1..n PROVE seen[c][i] <= from
        BY <3>2 DEF UpTo
      <4>1. seen[c][i] \in Nat
        BY <1>1, <3>2, SeqOfIds
      <4> QED
        BY <1>1, <1>3, <3>1, <3>2, <4>1 DEF Ascending
    <3> QED
      BY <1>1, <3>1, <3>2, <3>3
  <2> QED
    BY <2>1, <2>2
<1> HIDE DEF held, rest
<1>5. CASE ~CanResumeFrom(from)
  <2>1. /\ sub' = [sub EXCEPT ![c].phase = "lost", ![c].from = from]
        /\ seen' = [seen EXCEPT ![c] = seen[c]]
    BY <1>5 DEF Connect, CursorInv, TypeOK
  <2>2. [old EXCEPT !.phase = "lost", !.from = from]
           = [phase |-> "lost", from |-> from, todo |-> <<>>]
    <3>1. \A s \in SubType, n \in 0..MaxEvents :
             LET r == [s EXCEPT !.phase = "lost", !.from = n] IN
             r \in SubType /\ r.phase = "lost" /\ r.from = n /\ r.todo = s.todo
      BY DEF SubType
    <3>2. \A r \in SubType : r = [phase |-> r.phase, from |-> r.from, todo |-> r.todo]
      BY DEF SubType
    <3> DEFINE r == [old EXCEPT !.phase = "lost", !.from = from]
    <3>3. r \in SubType /\ r.phase = "lost" /\ r.from = from /\ r.todo = <<>>
      BY <1>1, <1>3, <3>1
    <3> HIDE DEF r
    <3>4. r = [phase |-> "lost", from |-> from, todo |-> <<>>]
      BY <3>2, <3>3
    <3> QED
      BY <3>4 DEF r
  <2>3. sub' = [sub EXCEPT ![c] = [phase |-> "lost", from |-> from, todo |-> <<>>]]
    BY <2>1, <2>2 DEF old
  <2>4. Good(c, seen[c], [phase |-> "lost", from |-> from, todo |-> <<>>])
    BY <1>1, <1>3, GoodPhase
  <2> QED
    BY <1>1, <2>1, <2>3, <2>4, OneClient
<1>6. CASE CanResumeFrom(from)
  <2>1. rest = From(from, seq)
    BY <1>3, <1>6, ReplayIsRest DEF CursorInv, rest
  <2>2. /\ rest \in Seq(Nat) /\ rest \in Seq(Ids) /\ Ascending(rest) /\ UpTo(rest, seq)
        /\ \A k \in DOMAIN rest : rest[k] > from
        /\ Len(rest) = seq - from /\ DOMAIN rest = 1..(seq - from)
        /\ \A k \in 1..(seq - from) : rest[k] = from + k
    BY <1>1, <1>3, <2>1, FromAscends
  <2>3. held \in Seq(Nat) /\ \A i \in DOMAIN held : held[i] \in Nat
    BY <1>4, SeqOfIds
  <2>4. /\ \A s \in SubType, t \in Seq(Ids) :
              LET r == [s EXCEPT !.phase = "replaying", !.todo = t] IN
              r \in SubType /\ r.phase = "replaying" /\ r.todo = t
        /\ \A s \in SubType :
              LET r == [s EXCEPT !.phase = "live"] IN
              r \in SubType /\ r.phase = "live" /\ r.todo = s.todo
        /\ \A s \in SubType :
              LET r == [s EXCEPT !.phase = "ended"] IN
              r \in SubType /\ r.phase = "ended" /\ r.todo = s.todo
    BY DEF SubType
  <2>5. CASE c \in Paced /\ rest # <<>>
    <3> DEFINE s == [old EXCEPT !.phase = "replaying", !.todo = rest]
    <3>1. /\ sub' = [sub EXCEPT ![c].phase = "replaying", ![c].todo = rest]
          /\ seen' = [seen EXCEPT ![c] = held]
      BY <1>6, <2>5 DEF Connect, held, rest
    <3>2. sub' = [sub EXCEPT ![c] = s]
      BY <3>1 DEF old
    <3>3. s \in SubType /\ s.phase = "replaying" /\ s.todo = rest
      <4>1. old \in SubType /\ rest \in Seq(Ids)
        BY <1>1, <2>2
      <4> QED
        BY <2>4, <4>1
    <3> HIDE DEF s
    <3>4. UpTo(held, seq)
      BY <1>1, <1>3, <1>4, <2>3 DEF UpTo
    <3>5. \A i \in DOMAIN held, j \in DOMAIN rest : held[i] < rest[j]
      BY <1>3, <1>4, <2>2, <2>3 DEF UpTo
    <3>6. Good(c, held, s)
      BY <1>4, <2>2, <2>5, <3>3, <3>4, <3>5 DEF Good
    <3> QED
      BY <1>1, <3>1, <3>2, <3>6, OneClient
  <2>6. CASE c \in Paced => rest = <<>>
    <3> DEFINE p == IF closed \/ (terminated /\ rest # <<>>) THEN "ended" ELSE "live"
               s == [old EXCEPT !.phase = p]
               h == held \o rest
    <3>1. /\ sub' = [sub EXCEPT ![c].phase = p] /\ seen' = [seen EXCEPT ![c] = h]
      BY <1>6, <2>6 DEF Connect, held, rest
    <3>2. sub' = [sub EXCEPT ![c] = s]
      BY <3>1 DEF old
    <3>3. s \in SubType /\ s.phase \in {"live", "ended"} /\ s.todo = <<>>
      <4>1. CASE p = "live"
        <5>1. s = [old EXCEPT !.phase = "live"]
          BY <4>1
        <5>2. old \in SubType /\ old.todo = <<>>
          BY <1>1
        <5> HIDE DEF s, p
        <5> QED
          BY <2>4, <5>1, <5>2
      <4>2. CASE p = "ended"
        <5>1. s = [old EXCEPT !.phase = "ended"]
          BY <4>2
        <5>2. old \in SubType /\ old.todo = <<>>
          BY <1>1
        <5> HIDE DEF s, p
        <5> QED
          BY <2>4, <5>1, <5>2
      <4> QED
        BY <4>1, <4>2
    <3>4. /\ h \in Seq(Ids) /\ Ascending(h) /\ UpTo(h, seq)
          /\ Len(h) = Len(held) + Len(rest)
          /\ \A i \in DOMAIN held : h[i] = held[i]
          /\ \A j \in DOMAIN rest : h[Len(held) + j] = rest[j]
      <4>1. h \in Seq(Ids)
        BY <1>4, <2>2
      <4> QED
        BY <1>1, <1>3, <1>4, <2>2, <2>3, <4>1, JoinAscends
    <3> HIDE DEF h, s
    <3>5. ASSUME c \notin Paced PROVE Len(h) = seq /\ \A i \in DOMAIN h : h[i] = i
      <4>0. Len(held) = from /\ Len(rest) = seq - from /\ held \in Seq(Ids) /\ h \in Seq(Ids)
        BY <1>4, <2>2, <3>4, <3>5
      <4>1. DOMAIN held = 1..from /\ Len(h) = seq /\ DOMAIN h = 1..seq /\ Len(held) = from
        BY <1>1, <1>3, <3>4, <4>0
      <4>2. ASSUME NEW i \in 1..seq PROVE h[i] = i
        <5>1. CASE i <= from
          BY <1>3, <1>4, <3>4, <3>5, <4>1, <5>1
        <5>2. CASE i > from
          <6>1. i - from \in 1..(seq - from) /\ from + (i - from) = i
            BY <1>1, <1>3, <5>2
          <6>2. h[from + (i - from)] = rest[i - from] /\ rest[i - from] = from + (i - from)
            BY <2>2, <3>4, <4>1, <6>1
          <6> QED
            BY <6>1, <6>2
        <5> QED
          BY <1>3, <5>1, <5>2
      <4> QED
        BY <4>1, <4>2
    <3>6. Ascending(<<>>) /\ UpTo(<<>>, seq) /\ DOMAIN <<>> = {}
      BY DEF Ascending, UpTo
    <3>7. Good(c, h, s)
      BY <3>3, <3>4, <3>5, <3>6 DEF Good
    <3> QED
      BY <1>1, <3>1, <3>2, <3>7, OneClient
  <2> QED
    BY <2>5, <2>6
<1> QED
  BY <1>5, <1>6

-----------------------------------------------------------------------------
(* The cursor takes a step, and every client that listens to it.           *)

\* push appends the next id and drops the oldest beyond the capacity.
LEMMA PushedRing ==
    ASSUME TypeOK, RingInv, seq < MaxEvents, seq' = seq + 1,
           ring' = Shifted(Append(ring, seq + 1))
    PROVE  /\ RingInv' /\ ring' \in Seq(Ids) /\ Len(ring') <= Capacity
           /\ seq' \in 0..MaxEvents /\ seq' \in Ids
<1> DEFINE t == Append(ring, seq + 1)
<1>1. /\ seq \in Nat /\ seq + 1 \in Ids /\ seq' \in 0..MaxEvents /\ ring \in Seq(Ids)
      /\ Len(ring) <= Capacity /\ Capacity \in Nat /\ Capacity >= 1
      /\ Len(ring) \in Nat /\ DOMAIN ring = 1..Len(ring) /\ Len(ring) <= seq
      /\ \A i \in 1..Len(ring) : ring[i] = (seq - Len(ring)) + i
  BY CursorAssumption DEF TypeOK, RingInv, Ids
<1>2. /\ t \in Seq(Ids) /\ Len(t) = Len(ring) + 1 /\ DOMAIN t = 1..(Len(ring) + 1)
      /\ t # <<>> /\ t[Len(ring) + 1] = seq + 1
      /\ \A i \in 1..Len(ring) : t[i] = ring[i]
  BY <1>1
<1>0. ring' = IF Len(t) > Capacity THEN Tail(t) ELSE t
  BY DEF Shifted
<1> HIDE DEF t
<1>3. \A i \in 1..(Len(ring) + 1) : t[i] = (seq - Len(ring)) + i
  <2> SUFFICES ASSUME NEW i \in 1..(Len(ring) + 1) PROVE t[i] = (seq - Len(ring)) + i
    OBVIOUS
  <2>1. CASE i \in 1..Len(ring)
    BY <1>1, <1>2, <2>1
  <2>2. CASE i = Len(ring) + 1
    BY <1>1, <1>2, <2>2
  <2> QED
    BY <1>1, <2>1, <2>2
<1>4. CASE Len(t) > Capacity
  <2>0. Len(ring) = Capacity
    <3>1. Len(ring) \in Nat /\ Capacity \in Nat /\ Len(ring) <= Capacity
      BY <1>1
    <3>2. Len(ring) + 1 > Capacity
      BY <1>2, <1>4
    <3> QED
      BY <3>1, <3>2
  <2>1. ring' = Tail(t) /\ Len(ring) = Capacity
    BY <1>0, <1>4, <2>0
  <2>2. /\ Tail(t) \in Seq(Ids) /\ Len(Tail(t)) = Len(ring)
        /\ DOMAIN Tail(t) = 1..Len(ring)
        /\ \A i \in 1..Len(ring) : Tail(t)[i] = t[i + 1]
    BY <1>1, <1>2
  <2>3. \A i \in 1..Len(ring) : Tail(t)[i] = ((seq + 1) - Len(ring)) + i
    BY <1>1, <1>3, <2>2
  <2>4. Tail(t) # <<>>
    BY <1>1, <2>1, <2>2
  <2>5. Len(ring') = Len(ring) /\ DOMAIN ring' = 1..Len(ring) /\ ring' # <<>>
    BY <2>1, <2>2, <2>4
  <2>6. \A i \in 1..Len(ring) : ring'[i] = (seq' - Len(ring)) + i
    BY <2>1, <2>3
  <2>7. RingInv'
    <3>1. Len(ring') <= seq'
      BY <1>1, <2>5
    <3>2. \A i \in DOMAIN ring' : ring'[i] = (seq' - Len(ring')) + i
      BY <2>5, <2>6
    <3> QED
      BY <2>5, <3>1, <3>2 DEF RingInv
  <2> QED
    BY <1>1, <2>1, <2>2, <2>5, <2>7
<1>5. CASE ~(Len(t) > Capacity)
  <2>1. ring' = t
    BY <1>0, <1>5
  <2>2. Len(ring') = Len(ring) + 1 /\ DOMAIN ring' = 1..(Len(ring) + 1) /\ ring' # <<>>
    BY <1>2, <2>1
  <2>3. \A i \in 1..(Len(ring) + 1) : ring'[i] = (seq' - (Len(ring) + 1)) + i
    BY <1>1, <1>3, <2>1
  <2>4. RingInv'
    <3>1. Len(ring') <= seq'
      BY <1>1, <2>2
    <3>2. \A i \in DOMAIN ring' : ring'[i] = (seq' - Len(ring')) + i
      BY <2>2, <2>3
    <3> QED
      BY <2>2, <3>1, <3>2 DEF RingInv
  <2>5. Len(ring') <= Capacity
    BY <1>1, <1>2, <1>5, <2>1
  <2> QED
    BY <1>1, <1>2, <2>1, <2>4, <2>5
<1> QED
  BY <1>4, <1>5

\* A good client that takes nothing stays good when the sequence grows.
LEMMA GoodLater ==
    ASSUME NEW c, NEW h, NEW s, Good(c, h, s), seq \in Nat, seq' = seq + 1,
           c \notin Paced => s.phase # "live"
    PROVE  /\ h \in Seq(Ids) /\ s \in SubType
           /\ Ascending(h) /\ UpTo(h, seq')
           /\ Ascending(s.todo) /\ UpTo(s.todo, seq')
           /\ \A i \in DOMAIN h, j \in DOMAIN s.todo : h[i] < s.todo[j]
           /\ s.phase \notin {"replaying", "live"} => s.todo = <<>>
           /\ c \notin Paced =>
                 /\ s.todo = <<>> /\ s.phase # "replaying" /\ s.phase # "live"
                 /\ \A i \in DOMAIN h : h[i] = i
<1>1. h \in Seq(Ids) /\ s.todo \in Seq(Ids)
  BY DEF Good, SubType
<1>2. ASSUME NEW t \in Seq(Ids), UpTo(t, seq) PROVE UpTo(t, seq')
  <2>1. \A i \in DOMAIN t : t[i] \in Nat /\ t[i] <= seq
    BY <1>2, SeqOfIds DEF UpTo
  <2> QED
    BY <2>1 DEF UpTo
<1> QED
  BY <1>1, <1>2 DEF Good

\* push reaches every client that listens, at once or behind what it is to take.
LEMMA PushStep == ASSUME CursorInv, NEW final \in BOOLEAN, Push(final) PROVE CursorInv'
<1>1. /\ seq < MaxEvents /\ seq' = seq + 1 /\ ring' = Shifted(Append(ring, seq + 1))
      /\ terminated' = final /\ UNCHANGED closed /\ TypeOK /\ RingInv /\ seq \in Nat
      /\ Paced \subseteq Clients
  BY CursorAssumption DEF Push, CursorInv, TypeOK
<1>2. /\ RingInv' /\ ring' \in Seq(Ids) /\ Len(ring') <= Capacity
      /\ seq' \in 0..MaxEvents /\ seq' \in Ids /\ seq' \in Nat
  BY <1>1, PushedRing
<1>3. ASSUME NEW c \in Clients
      PROVE  Good(c, seen[c], sub[c])'
  <2> DEFINE h == seen[c]
             s == sub[c]
  <2>1. /\ sub'[c] = (IF s.phase # "live" THEN s
                      ELSE IF c \in Paced THEN [s EXCEPT !.todo = Append(@, seq + 1)]
                      ELSE IF final THEN [s EXCEPT !.phase = "ended"] ELSE s)
        /\ seen'[c] = (IF s.phase = "live" /\ c \notin Paced THEN Append(h, seq + 1) ELSE h)
    BY DEF Push
  <2>2. Good(c, h, s)
    BY AllGood
  <2>3. h \in Seq(Ids) /\ s \in SubType /\ s.todo \in Seq(Ids)
    BY <2>2 DEF Good, SubType
  <2> HIDE DEF h, s
  <2>4. ASSUME NEW t \in Seq(Ids), Ascending(t), UpTo(t, seq)
        PROVE  /\ Append(t, seq + 1) \in Seq(Ids)
               /\ Ascending(Append(t, seq + 1)) /\ UpTo(Append(t, seq + 1), seq + 1)
               /\ Len(Append(t, seq + 1)) = Len(t) + 1
               /\ Append(t, seq + 1)[Len(t) + 1] = seq + 1
               /\ \A i \in DOMAIN t : Append(t, seq + 1)[i] = t[i]
               /\ \A i \in DOMAIN Append(t, seq + 1) : i \in DOMAIN t \/ i = Len(t) + 1
    <3>1. t \in Seq(Nat) /\ seq + 1 \in Nat /\ seq + 1 > seq /\ seq + 1 \in Ids
      BY <1>1, <1>2, <2>4, SeqOfIds
    <3>2. Append(t, seq + 1) \in Seq(Ids)
      BY <3>1
    <3> QED
      BY <1>1, <2>4, <3>1, <3>2, AppendAscends
  <2>5. CASE s.phase # "live"
    <3>1. sub'[c] = s /\ seen'[c] = h
      BY <2>1, <2>5
    <3> QED
      BY <1>1, <2>2, <2>5, <3>1, GoodLater DEF Good
  <2>6. CASE s.phase = "live" /\ c \in Paced
    <3> DEFINE t == Append(s.todo, seq + 1)
    <3>1. seen'[c] = h /\ sub'[c] = [s EXCEPT !.todo = t]
      BY <2>1, <2>6
    <3>2. /\ Ascending(s.todo) /\ UpTo(s.todo, seq) /\ Ascending(h) /\ UpTo(h, seq')
          /\ UpTo(h, seq)
          /\ \A i \in DOMAIN h, j \in DOMAIN s.todo : h[i] < s.todo[j]
      BY <1>1, <2>2, <2>6, GoodLater DEF Good
    <3>3. /\ t \in Seq(Ids) /\ Ascending(t) /\ UpTo(t, seq')
          /\ \A j \in DOMAIN t : (j \in DOMAIN s.todo /\ t[j] = s.todo[j]) \/ t[j] = seq + 1
      BY <1>1, <2>3, <2>4, <3>2
    <3> HIDE DEF t
    <3>4. sub'[c] \in SubType /\ sub'[c].todo = t /\ sub'[c].phase = "live"
      BY <2>3, <2>6, <3>1, <3>3, SubUpdates
    <3>5. \A i \in DOMAIN h : h[i] \in Nat /\ h[i] <= seq
      BY <2>3, <3>2, SeqOfIds DEF UpTo
    <3>6. \A i \in DOMAIN h, j \in DOMAIN t : h[i] < t[j]
      BY <1>1, <3>2, <3>3, <3>5
    <3> QED
      BY <2>3, <2>6, <3>1, <3>2, <3>3, <3>4, <3>6 DEF Good
  <2>7. CASE s.phase = "live" /\ c \notin Paced
    <3> DEFINE g == Append(h, seq + 1)
    <3>1. /\ seen'[c] = g
          /\ sub'[c] = s \/ sub'[c] = [s EXCEPT !.phase = "ended"]
      BY <2>1, <2>7
    <3>2. /\ Ascending(h) /\ UpTo(h, seq) /\ s.todo = <<>> /\ Len(h) = seq
          /\ \A i \in DOMAIN h : h[i] = i
      BY <2>2, <2>7 DEF Good
    <3>3. /\ g \in Seq(Ids) /\ Ascending(g) /\ UpTo(g, seq') /\ Len(g) = seq'
          /\ \A i \in DOMAIN g : g[i] = i
      BY <1>1, <2>3, <2>4, <3>2
    <3> HIDE DEF g
    <3>4. sub'[c] \in SubType /\ sub'[c].todo = <<>> /\ sub'[c].phase \in {"live", "ended"}
      <4>1. \A r \in SubType : LET q == [r EXCEPT !.phase = "ended"] IN
                  q \in SubType /\ q.todo = r.todo /\ q.phase = "ended"
        BY DEF SubType
      <4> QED
        BY <2>3, <2>7, <3>1, <3>2, <4>1
    <3>5. Ascending(<<>>) /\ UpTo(<<>>, seq') /\ DOMAIN <<>> = {}
      BY DEF Ascending, UpTo
    <3> QED
      BY <3>1, <3>3, <3>4, <3>5 DEF Good
  <2> QED
    BY <2>5, <2>6, <2>7
<1>4. sub' \in [Clients -> SubType] /\ seen' \in [Clients -> Seq(Ids)]
  <2>1. \A c \in Clients : sub'[c] \in SubType /\ seen'[c] \in Seq(Ids)
    BY <1>3 DEF Good
  <2>2. sub' = [c \in Clients |-> sub'[c]] /\ seen' = [c \in Clients |-> seen'[c]]
    BY DEF Push
  <2> QED
    BY <2>1, <2>2
<1>5. TypeOK'
  BY <1>1, <1>2, <1>4 DEF TypeOK, SubType
<1>6. ClientInv' /\ PromptInv'
  BY <1>3 DEF ClientInv, PromptInv, Good
<1> QED
  BY <1>2, <1>5, <1>6 DEF CursorInv

\* close takes nothing from anyone; who has nothing to take is let go.
LEMMA CloseStep == ASSUME CursorInv, Close PROVE CursorInv'
<1>1. /\ UNCHANGED <<ring, seq, terminated, seen>> /\ closed' = TRUE
      /\ sub' = [c \in Clients |->
                    IF sub[c].phase = "live" /\ sub[c].todo = <<>>
                    THEN [sub[c] EXCEPT !.phase = "ended"] ELSE sub[c]]
  BY DEF Close
<1>2. \A c \in Clients : Good(c, seen[c], sub[c])
  BY AllGood
<1>3. \A s \in SubType : LET q == [s EXCEPT !.phase = "ended"] IN
         q \in SubType /\ q.todo = s.todo /\ q.phase = "ended"
  BY DEF SubType
<1>4. ASSUME NEW c \in Clients
      PROVE  /\ sub'[c] \in SubType /\ sub'[c].todo = sub[c].todo
             /\ \/ sub'[c].phase = sub[c].phase
                \/ sub'[c].phase = "ended" /\ sub[c].phase = "live" /\ sub[c].todo = <<>>
  <2>1. sub[c] \in SubType
    BY <1>2 DEF Good
  <2>2. \/ sub'[c] = sub[c]
        \/ /\ sub[c].phase = "live" /\ sub[c].todo = <<>>
           /\ sub'[c] = [sub[c] EXCEPT !.phase = "ended"]
    BY <1>1
  <2> QED
    BY <1>3, <2>1, <2>2
<1>5. sub' \in [Clients -> SubType]
  <2>1. sub' = [c \in Clients |-> sub'[c]]
    BY <1>1
  <2> QED
    BY <1>4, <2>1
<1>6. TypeOK' /\ RingInv'
  BY <1>1, <1>5 DEF CursorInv, TypeOK, SubType, RingInv
<1>7. ASSUME NEW c \in Clients PROVE Good(c, seen[c], sub[c])'
  <2> DEFINE h == seen[c]
             s == sub[c]
             r == sub'[c]
  <2>1. Good(c, h, s)
    BY <1>2
  <2>2. /\ r \in SubType /\ r.todo = s.todo
        /\ \/ r.phase = s.phase
           \/ r.phase = "ended" /\ s.phase = "live" /\ s.todo = <<>>
    BY <1>4
  <2>3. seen'[c] = h /\ sub'[c] = r /\ seq' = seq
    BY <1>1
  <2> HIDE DEF h, s, r
  <2>4. \A t : UpTo(t, seq)' <=> UpTo(t, seq)
    BY <2>3 DEF UpTo
  <2> QED
    BY <2>1, <2>2, <2>3 DEF Good, UpTo
<1>8. ClientInv' /\ PromptInv'
  BY <1>7 DEF ClientInv, PromptInv, Good
<1> QED
  BY <1>6, <1>8 DEF CursorInv

LEMMA CursorInit == Init => CursorInv
<1> SUFFICES ASSUME Init PROVE CursorInv
  OBVIOUS
<1>1. /\ <<>> \in Seq(Ids) /\ Len(<<>>) = 0 /\ DOMAIN <<>> = {}
      /\ 0 \in 0..MaxEvents /\ Capacity \in Nat /\ 0 <= Capacity
  BY CursorAssumption
<1>2. Off \in SubType /\ Off.todo = <<>> /\ Off.phase = "off"
  BY <1>1 DEF Off, SubType
<1>3. Ascending(<<>>) /\ UpTo(<<>>, 0)
  BY <1>1 DEF Ascending, UpTo
<1>4. /\ ring = <<>> /\ seq = 0 /\ closed = FALSE /\ terminated = FALSE
      /\ sub = [c \in Clients |-> Off] /\ seen = [c \in Clients |-> <<>>]
  BY DEF Init
<1>5. TypeOK
  BY <1>1, <1>2, <1>4 DEF TypeOK, SubType
<1>6. RingInv
  BY <1>1, <1>4 DEF RingInv
<1>7. ClientInv /\ PromptInv
  BY <1>1, <1>2, <1>3, <1>4, CursorAssumption DEF ClientInv, PromptInv
<1> QED
  BY <1>5, <1>6, <1>7 DEF CursorInv

\* Every step keeps the invariant.
LEMMA CursorStep == CursorInv /\ [Next]_vars => CursorInv'
<1> SUFFICES ASSUME CursorInv, [Next]_vars PROVE CursorInv'
  OBVIOUS
<1>1. CASE UNCHANGED vars
  BY <1>1 DEF vars, cursor, CursorInv, TypeOK, RingInv, ClientInv, PromptInv,
              Ascending, UpTo
<1>2. ASSUME NEW final \in BOOLEAN, Push(final) PROVE CursorInv'
  BY <1>2, PushStep
<1>3. CASE Close
  BY <1>3, CloseStep
<1>4. ASSUME NEW c \in Clients, NEW from \in {0, Last(seen[c])}, Connect(c, from)
      PROVE  CursorInv'
  BY <1>4, ConnectStep
<1>5. ASSUME NEW c \in Clients, Take(c) PROVE CursorInv'
  BY <1>5, TakeStep
<1>6. ASSUME NEW c \in Clients, Attach(c) \/ Return(c) \/ Drop(c) PROVE CursorInv'
  BY <1>6, PhaseStep
<1> QED
  BY <1>1, <1>2, <1>3, <1>4, <1>5, <1>6 DEF Next, Consume

THEOREM CursorInvariant == Spec => []CursorInv
BY CursorInit, CursorStep, PTL DEF Spec

-----------------------------------------------------------------------------
(* What a client holds.                                                    *)

\* The cursor, the connections and what the clients hold keep their types; the
\* ring of cursor.ts never exceeds its capacity.
THEOREM CursorTypes == Spec => []TypeOK
<1>1. CursorInv => TypeOK
  BY DEF CursorInv
<1> QED
  BY <1>1, CursorInvariant, PTL

\* No client holds an event twice or out of order, and one that takes events as
\* handleEvents does holds every event up to its last, whatever it missed while
\* it was away.
THEOREM SeenOnce == Spec => []SeenOnceInOrder
<1>1. CursorInv => SeenOnceInOrder
  <2> SUFFICES ASSUME CursorInv, NEW c \in Clients, NEW i \in DOMAIN seen[c]
               PROVE  /\ c \notin Paced => seen[c][i] = i
                      /\ \A j \in 1..(i - 1) : seen[c][j] < seen[c][i]
    BY DEF SeenOnceInOrder
  <2>1. seen[c] \in Seq(Ids) /\ Ascending(seen[c])
    BY DEF CursorInv, TypeOK, ClientInv
  <2>2. c \notin Paced => seen[c][i] = i
    BY DEF CursorInv, PromptInv
  <2>3. ASSUME NEW j \in 1..(i - 1) PROVE seen[c][j] < seen[c][i]
    <3>1. j \in DOMAIN seen[c] /\ j < i
      BY <2>1
    <3> QED
      BY <2>1, <3>1 DEF Ascending
  <2> QED
    BY <2>2, <2>3
<1> QED
  BY <1>1, CursorInvariant, PTL

\* A client that is turned away has asked for an event that has left the ring.
LEMMA LostStep == CursorInv /\ [Next]_vars =>
    \A c \in Clients : sub[c].phase # "lost" /\ sub'[c].phase = "lost" =>
        \E id \in (sub'[c].from + 1)..seq : \A i \in DOMAIN ring : ring[i] # id
<1> SUFFICES ASSUME CursorInv, [Next]_vars, NEW c \in Clients,
                    sub[c].phase # "lost", sub'[c].phase = "lost"
             PROVE  \E id \in (sub'[c].from + 1)..seq : \A i \in DOMAIN ring : ring[i] # id
  OBVIOUS
<1>1. sub \in [Clients -> SubType]
  BY DEF CursorInv, TypeOK, SubType
<1>2. \A s \in SubType :
         /\ \A t : [s EXCEPT !.todo = t].phase = s.phase
         /\ \A p : [s EXCEPT !.phase = p].phase = p
         /\ Ended(s).phase = "ended"
  BY DEF SubType, Ended
<1>3. sub' # sub
  OBVIOUS
<1>4. ASSUME NEW final \in BOOLEAN, Push(final) PROVE FALSE
  BY <1>1, <1>2, <1>4 DEF Push
<1>5. CASE Close
  BY <1>1, <1>2, <1>5 DEF Close
<1>6. ASSUME NEW d \in Clients, Take(d) PROVE FALSE
  <2>1. PICK s \in SubType : sub' = [sub EXCEPT ![d] = s] /\ s.phase # "lost"
    <3> DEFINE left == [sub[d] EXCEPT !.todo = Tail(@)]
    <3>1. \/ sub' = [sub EXCEPT ![d] = Ended(left)]
          \/ sub' = [sub EXCEPT ![d] = left]
      BY <1>6 DEF Take
    <3>2. sub[d] \in SubType /\ Tail(sub[d].todo) \in Seq(Ids) /\ sub[d].phase # "lost"
      BY <1>1, <1>6 DEF Take, SubType
    <3>3. left \in SubType /\ left.phase # "lost"
      BY <3>2, SubUpdates
    <3> HIDE DEF left
    <3>4. Ended(left) \in SubType /\ Ended(left).phase = "ended"
      <4>1. Ended(left) = [phase |-> "ended", from |-> left.from, todo |-> <<>>]
        BY <3>3, SubUpdates
      <4>2. left.from \in 0..MaxEvents
        BY <3>3 DEF SubType
      <4> QED
        BY <4>1, <4>2, SubUpdates
    <3> QED
      BY <3>1, <3>3, <3>4
  <2> QED
    BY <1>1, <2>1
<1>7. ASSUME NEW d \in Clients, Attach(d) \/ Return(d) \/ Drop(d) PROVE FALSE
  <2>1. CASE Attach(d)
    BY <1>1, <1>2, <2>1 DEF Attach
  <2>2. CASE Return(d)
    BY <1>1, <1>2, <2>2 DEF Return
  <2>3. CASE Drop(d)
    BY <1>1, <2>3 DEF Drop, Off
  <2> QED
    BY <1>7, <2>1, <2>2, <2>3
<1>8. ASSUME NEW d \in Clients, NEW from \in {0, Last(seen[d])}, Connect(d, from)
      PROVE  \E id \in (sub'[c].from + 1)..seq : \A i \in DOMAIN ring : ring[i] # id
  <2>1. d = c
    BY <1>1, <1>8 DEF Connect
  <2>2. ~CanResumeFrom(from) /\ sub' = [sub EXCEPT ![c].phase = "lost", ![c].from = from]
    <3>1. ASSUME NEW p, p # "lost", sub' = [sub EXCEPT ![c].phase = p] PROVE FALSE
      BY <1>1, <1>2, <3>1
    <3>2. ASSUME NEW t, sub' = [sub EXCEPT ![c].phase = "replaying", ![c].todo = t]
          PROVE  FALSE
      BY <1>1, <3>2 DEF SubType
    <3>3. \/ ~CanResumeFrom(from) /\ sub' = [sub EXCEPT ![c].phase = "lost", ![c].from = from]
          \/ sub' = [sub EXCEPT ![c].phase = "replaying", ![c].todo = Replay(from)]
          \/ sub' = [sub EXCEPT ![c].phase =
                        IF closed \/ (terminated /\ Replay(from) # <<>>) THEN "ended"
                        ELSE "live"]
      BY <1>8, <2>1 DEF Connect
    <3> QED
      BY <3>1, <3>2, <3>3
  <2>3. sub'[c].from = from
    BY <1>1, <2>2 DEF SubType
  <2>4. from \in Nat
    <3>1. seen[c] \in Seq(Ids)
      BY DEF CursorInv, TypeOK
    <3>2. CASE seen[c] = <<>>
      BY <1>8, <2>1, <3>2 DEF Last
    <3>3. CASE seen[c] # <<>>
      <4>1. Len(seen[c]) \in DOMAIN seen[c]
        BY <3>1, <3>3
      <4>2. seen[c][Len(seen[c])] \in Nat
        BY <3>1, <4>1, SeqOfIds
      <4> QED
        BY <1>8, <2>1, <3>3, <4>2 DEF Last
    <3> QED
      BY <3>2, <3>3
  <2>5. /\ ring \in Seq(Ids) /\ ring # <<>> /\ seq \in Nat /\ from < seq /\ from < ring[1] - 1
        /\ \A i \in DOMAIN ring : ring[i] = (seq - Len(ring)) + i
    <3>1. ring \in Seq(Ids) /\ seq \in Nat
      BY CursorAssumption DEF CursorInv, TypeOK
    <3>2. from < seq /\ ring # <<>> /\ ~(from >= ring[1] - 1)
      BY <2>2 DEF CanResumeFrom
    <3>3. ring[1] \in Nat
      BY <3>1, <3>2, SeqOfIds
    <3> QED
      BY <2>4, <3>1, <3>2, <3>3 DEF CursorInv, RingInv
  <2>6. from + 1 \in (from + 1)..seq /\ \A i \in DOMAIN ring : ring[i] # from + 1
    <3>1. Len(ring) \in Nat /\ DOMAIN ring = 1..Len(ring) /\ 1 \in DOMAIN ring
      BY <2>5
    <3>2. ring[1] = (seq - Len(ring)) + 1
      BY <2>5, <3>1
    <3> QED
      BY <2>4, <2>5, <3>1, <3>2
  <2> QED
    BY <2>3, <2>6
<1> QED
  BY <1>3, <1>4, <1>5, <1>6, <1>7, <1>8 DEF Next, Consume, vars

\* canResumeFrom turns a client away only when an event after the one it resumes
\* from has left the ring.
THEOREM LostIsEvicted == Spec => LostOnlyWhenEvicted
BY CursorInvariant, LostStep, PTL DEF Spec, LostOnlyWhenEvicted
=============================================================================
