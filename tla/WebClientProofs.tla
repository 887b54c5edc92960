---------------------------- MODULE WebClientProofs ----------------------------
(***************************************************************************)
(* Proofs about the tab of the browser (WebClient), for every capacity of  *)
(* the ring, set of sessions, script of events and number of calls and     *)
(* clicks.  The transcript is what the reducer makes of exactly the        *)
(* updates the tab took, in their order; and a tab that stands on a        *)
(* session was given all of its events the stream has passed, in order and *)
(* once.                                                                   *)
(***************************************************************************)
EXTENDS WebClient, FiniteSetTheorems, SequenceTheorems, WellFoundedInduction, TLAPS

-----------------------------------------------------------------------------
(* Types of the reducer, with texts of chunks in C.                        *)

Role == {"user", "agent", "tool"}
Status == STRING \cup {"", "pending"}

Update(C) == [kind : STRING, call : Nat, status : Status, text : {<<>>} \cup {<<c>> : c \in C}]

Turn(C) == [id : Nat, role : Role, text : Seq(C), call : Nat, status : Status, output : Seq(C)]

Shown(C) == [turns : Seq(Turn(C)), nextId : Nat, usage : Seq(C)]

\* The roles, by the kinds of the updates.
LEMMA Roles ==
    ASSUME NEW u
    PROVE  \/ u.kind = "user_message_chunk" /\ roleForUpdate(u) = "user"
           \/ u.kind = "agent_message_chunk" /\ roleForUpdate(u) = "agent"
           \/ /\ u.kind # "user_message_chunk" /\ u.kind # "agent_message_chunk"
              /\ roleForUpdate(u) = "none"
<1>1. u.kind = "user_message_chunk" => roleForUpdate(u) = "user"
  BY Zenon DEF roleForUpdate
<1>2. u.kind = "agent_message_chunk" => roleForUpdate(u) = "agent"
  BY Zenon DEF roleForUpdate
<1>3. (u.kind # "user_message_chunk" /\ u.kind # "agent_message_chunk") => roleForUpdate(u) = "none"
  BY Zenon DEF roleForUpdate
<1> QED
  BY <1>1, <1>2, <1>3

-----------------------------------------------------------------------------
(* The last of a set of positions, and a set that takes a later one.       *)

LEMMA HasLast ==
    ASSUME NEW n \in Nat, NEW P \in SUBSET (1..n), P # {}
    PROVE  LastOf(P) \in P /\ \A j \in P : j <= LastOf(P)
<1> DEFINE T == {n - i : i \in P}
<1>1. T \subseteq Nat /\ T # {}
  OBVIOUS
<1>2. \E x \in T : \A y \in T : ~ (<<y, x>> \in OpToRel(<, Nat))
  BY <1>1, NatLessThanWellFounded, WFMin
<1>3. PICK x \in T : \A y \in T : ~ (y < x)
  BY <1>1, <1>2 DEF OpToRel
<1>4. PICK i \in P : x = n - i
  OBVIOUS
<1>5. \A j \in P : n - j \in T
  OBVIOUS
<1>6. \A j \in P : j <= i
  BY <1>3, <1>4, <1>5
<1>7. \E k \in P : \A j \in P : j <= k
  BY <1>6
<1> QED
  BY <1>7 DEF LastOf

LEMMA LastIs ==
    ASSUME NEW n \in Nat, NEW P \in SUBSET (1..n), NEW i \in P, \A j \in P : j <= i
    PROVE  LastOf(P) = i
<1> DEFINE l == LastOf(P)
<1>1. l \in P /\ \A j \in P : j <= l
  BY HasLast
<1> HIDE DEF l
<1>2. l <= i /\ i <= l
  BY <1>1
<1>3. l \in 1..n /\ i \in 1..n
  BY <1>1
<1>4. l = i
  BY <1>2, <1>3
<1> QED
  BY <1>4 DEF l

\* The positions before n + 1 and that one.
LEMMA OneMore ==
    ASSUME NEW n \in Nat, NEW P \in SUBSET (1..n)
    PROVE  /\ IsFiniteSet(P) /\ Cardinality(P) \in Nat
           /\ LastOf(P \cup {n + 1}) = n + 1
           /\ IsFiniteSet(P \cup {n + 1}) /\ Cardinality(P \cup {n + 1}) = Cardinality(P) + 1
           /\ \A i \in 1..n : {j \in P \cup {n + 1} : j <= i} = {j \in P : j <= i}
           /\ {j \in P \cup {n + 1} : j <= n + 1} = P \cup {n + 1}
<1>1. IsFiniteSet(P) /\ Cardinality(P) \in Nat
  <2>1. IsFiniteSet(1..n)
    BY FS_Interval
  <2>2. IsFiniteSet(P)
    BY <2>1, FS_Subset
  <2> QED
    BY <2>2, FS_CardinalityType
<1>2. n + 1 \notin P /\ P \cup {n + 1} \in SUBSET (1..(n + 1)) /\ \A j \in P \cup {n + 1} : j <= n + 1
  OBVIOUS
<1>3. LastOf(P \cup {n + 1}) = n + 1
  BY <1>2, LastIs
<1>4. IsFiniteSet(P \cup {n + 1}) /\ Cardinality(P \cup {n + 1}) = Cardinality(P) + 1
  BY <1>1, <1>2, FS_AddElement
<1>5. \A i \in 1..n : {j \in P \cup {n + 1} : j <= i} = {j \in P : j <= i}
  OBVIOUS
<1>6. {j \in P \cup {n + 1} : j <= n + 1} = P \cup {n + 1}
  BY <1>2
<1> QED
  BY <1>1, <1>3, <1>4, <1>5, <1>6

-----------------------------------------------------------------------------
(* A list of updates and one more.                                         *)

LEMMA UpdateAdded ==
    ASSUME NEW C, NEW us \in Seq(Update(C)), NEW u \in Update(C)
    PROVE  LET now == Append(us, u) IN
           /\ Len(us) \in Nat /\ Len(now) = Len(us) + 1 /\ now \in Seq(Update(C))
           /\ DOMAIN us = 1..Len(us) /\ DOMAIN now = 1..(Len(us) + 1)
           /\ now[Len(us) + 1] = u
           /\ \A i \in 1..Len(us) : now[i] = us[i]
           /\ 1..(Len(us) + 1) = 1..Len(us) \cup {Len(us) + 1} /\ Len(us) + 1 \notin 1..Len(us)
<1>1. /\ Append(us, u) \in Seq(Update(C)) /\ Len(Append(us, u)) = Len(us) + 1
      /\ Append(us, u)[Len(us) + 1] = u /\ \A i \in 1..Len(us) : Append(us, u)[i] = us[i]
  BY AppendProperties
<1>2. Len(us) \in Nat /\ DOMAIN us = 1..Len(us)
  OBVIOUS
<1>3. DOMAIN Append(us, u) = 1..(Len(us) + 1)
  BY <1>1
<1>4. \A n \in Nat : 1..(n + 1) = 1..n \cup {n + 1} /\ n + 1 \notin 1..n
  OBVIOUS
<1> QED
  BY <1>1, <1>2, <1>3, <1>4

\* What begins at a position depends on what is before it.
LEMMA BeginsOn ==
    ASSUME NEW C, NEW us \in Seq(Update(C)), NEW u \in Update(C)
    PROVE  LET now == Append(us, u) IN
           /\ Beginnings(us) \subseteq 1..Len(us)
           /\ \A i \in 1..Len(us) : i \in Beginnings(now) <=> i \in Beginnings(us)
           /\ Begins(now, Len(us) + 1) => Beginnings(now) = Beginnings(us) \cup {Len(us) + 1}
           /\ ~Begins(now, Len(us) + 1) => Beginnings(now) = Beginnings(us)
<1> DEFINE now == Append(us, u)
           L   == Len(us)
<1>1. /\ L \in Nat /\ DOMAIN us = 1..L /\ DOMAIN now = 1..(L + 1)
      /\ \A i \in 1..L : now[i] = us[i]
      /\ 1..(L + 1) = 1..L \cup {L + 1} /\ L + 1 \notin 1..L
  BY UpdateAdded
<1> HIDE DEF now
<1>2. ASSUME NEW i \in 1..L PROVE Begins(now, i) <=> Begins(us, i)
  <2>1. \A j \in 1..(i - 1) : j \in 1..L /\ \A k \in (j + 1)..(i - 1) : k \in 1..L
    BY <1>1
  <2>2. \A j \in 1..(i - 1) : now[j] = us[j] /\ \A k \in (j + 1)..(i - 1) : now[k] = us[k]
    BY <1>1, <2>1
  <2>3. now[i] = us[i]
    BY <1>1
  <2> QED
    BY <2>2, <2>3 DEF Begins
<1> HIDE DEF L
<1>3. \A i \in 1..L : i \in Beginnings(now) <=> i \in Beginnings(us)
  BY <1>1, <1>2 DEF Beginnings
<1>4. Beginnings(us) \subseteq 1..L
  BY <1>1 DEF Beginnings
<1>5. Beginnings(now) \subseteq 1..(L + 1) /\ (L + 1 \in Beginnings(now) <=> Begins(now, L + 1))
  BY <1>1 DEF Beginnings
<1> QED
  BY <1>1, <1>3, <1>4, <1>5 DEF now, L

\* The part of the conversation an update of it belongs to.
Spoken(us) ==
    \A k \in DOMAIN us : IsTurnUpdate(us[k]) =>
        \E b \in Beginnings(us) :
            /\ b <= k /\ us[b].kind = us[k].kind
            /\ \A j \in (b + 1)..k : j \notin Beginnings(us)

LEMMA SpokenOn ==
    ASSUME NEW C, NEW us \in Seq(Update(C)), NEW u \in Update(C), Spoken(us)
    PROVE  Spoken(Append(us, u))
<1> DEFINE now == Append(us, u)
           L   == Len(us)
<1>1. /\ L \in Nat /\ DOMAIN us = 1..L /\ DOMAIN now = 1..(L + 1)
      /\ \A i \in 1..L : now[i] = us[i]
      /\ 1..(L + 1) = 1..L \cup {L + 1} /\ L + 1 \notin 1..L
  BY UpdateAdded
<1>2. /\ Beginnings(us) \subseteq 1..L
      /\ \A i \in 1..L : i \in Beginnings(now) <=> i \in Beginnings(us)
      /\ Begins(now, L + 1) => L + 1 \in Beginnings(now)
      /\ ~Begins(now, L + 1) => L + 1 \notin Beginnings(now)
  <2>1. L + 1 \notin Beginnings(us)
    BY <1>1 DEF Beginnings
  <2> QED
    BY <2>1, BeginsOn
<1> HIDE DEF now, L
<1>3. ASSUME NEW k \in 1..L, IsTurnUpdate(now[k])
      PROVE  \E b \in Beginnings(now) :
                /\ b \in 1..L /\ b <= k /\ now[b].kind = now[k].kind
                /\ \A j \in (b + 1)..k : j \notin Beginnings(now)
  <2>1. PICK b \in Beginnings(us) :
               /\ b <= k /\ us[b].kind = us[k].kind
               /\ \A j \in (b + 1)..k : j \notin Beginnings(us)
    BY <1>1, <1>3 DEF Spoken
  <2>2. \A j \in (b + 1)..k : j \in 1..L
    BY <1>1, <1>2
  <2> QED
    BY <1>1, <1>2, <2>1, <2>2
<1>4. ASSUME IsTurnUpdate(now[L + 1])
      PROVE  \E b \in Beginnings(now) :
                /\ b <= L + 1 /\ now[b].kind = now[L + 1].kind
                /\ \A j \in (b + 1)..(L + 1) : j \notin Beginnings(now)
  <2>1. CASE Begins(now, L + 1)
    BY <1>1, <1>2, <2>1
  <2>2. CASE ~Begins(now, L + 1)
    <3>1. PICK j \in 1..((L + 1) - 1) :
                 /\ IsTurnUpdate(now[j]) /\ now[j].kind = now[L + 1].kind
                 /\ \A k \in (j + 1)..((L + 1) - 1) :
                       ~(IsTurnUpdate(now[k]) /\ now[k].kind # now[L + 1].kind)
      BY <1>4, <2>2 DEF Begins
    <3>2. j \in 1..L
      BY <1>1
    <3>3. PICK b \in Beginnings(now) :
                 /\ b \in 1..L /\ b <= j /\ now[b].kind = now[j].kind
                 /\ \A i \in (b + 1)..j : i \notin Beginnings(now)
      BY <1>3, <3>1, <3>2
    <3>4. now[L + 1].kind # "tool_call"
      BY <1>4, <2>2 DEF Begins
    <3>5. ASSUME NEW k \in (j + 1)..L PROVE k \notin Beginnings(now)
      <4> SUFFICES ASSUME Begins(now, k) PROVE FALSE
        BY DEF Beginnings
      <4>1. IsTurnUpdate(now[k]) /\ now[k].kind = now[L + 1].kind
        BY <1>1, <3>1 DEF Begins
      <4>2. PICK i \in (j + 1)..(k - 1) : IsTurnUpdate(now[i]) /\ now[i].kind # now[k].kind
        <5>1. j \in 1..(k - 1)
          BY <1>1, <3>2
        <5> QED
          BY <3>1, <3>4, <4>1, <5>1 DEF Begins
      <4>3. i \in (j + 1)..((L + 1) - 1)
        BY <1>1, <3>2
      <4> QED
        BY <3>1, <4>1, <4>2, <4>3
    <3>6. \A i \in (b + 1)..(L + 1) : i \in (b + 1)..j \/ i \in (j + 1)..L \/ i = L + 1
      BY <1>1, <3>2, <3>3
    <3>7. b <= L + 1
      BY <1>1, <3>3
    <3> QED
      BY <1>2, <2>2, <3>1, <3>3, <3>5, <3>6, <3>7
  <2> QED
    BY <2>1, <2>2
<1> QED
  BY <1>1, <1>3, <1>4 DEF Spoken, now

-----------------------------------------------------------------------------
(* What the turns are made from.                                           *)

\* A text and that of one more update.
LEMMA TextOn ==
    ASSUME NEW C, NEW us \in Seq(Update(C)), NEW u \in Update(C),
           NEW P \in SUBSET (1..Len(us)), NEW text \in Seq(C), IsTextOf(text, us, P)
    PROVE  LET now == Append(us, u) IN
           /\ IsTextOf(text, now, P)
           /\ text \o u.text \in Seq(C)
           /\ IsTextOf(text \o u.text, now, P \cup {Len(us) + 1})
<1> DEFINE now == Append(us, u)
           L   == Len(us)
           Q   == {i \in P : us[i].text # <<>>}
<1>1. /\ L \in Nat /\ \A i \in 1..L : now[i] = us[i]
      /\ now[L + 1] = u /\ L + 1 \notin 1..L
  BY UpdateAdded
<1> HIDE DEF now, L
<1>2. Q \subseteq 1..L /\ Q \subseteq P /\ P \subseteq 1..L
  BY DEF L
<1>3. Q = {i \in P : now[i].text # <<>>}
  BY <1>1, <1>2
<1>4. /\ Len(text) = Cardinality(Q)
      /\ \A i \in Q : us[i].text = <<text[Cardinality({j \in Q : j <= i})]>>
  BY DEF IsTextOf
<1>5. \A i \in Q : now[i].text = <<text[Cardinality({j \in Q : j <= i})]>>
  BY <1>1, <1>2, <1>4
<1>6. /\ IsFiniteSet(Q) /\ Cardinality(Q) \in Nat
      /\ Cardinality(Q \cup {L + 1}) = Cardinality(Q) + 1
      /\ \A i \in 1..L : {j \in Q \cup {L + 1} : j <= i} = {j \in Q : j <= i}
      /\ {j \in Q \cup {L + 1} : j <= L + 1} = Q \cup {L + 1}
  BY <1>1, <1>2, OneMore
<1>7. IsTextOf(text, now, P)
  <2> HIDE DEF Q
  <2> QED
    BY <1>3, <1>4, <1>5 DEF IsTextOf
<1>8. CASE u.text = <<>>
  <2>1. text \o u.text = text
    BY <1>8
  <2>2. Q = {i \in P \cup {L + 1} : now[i].text # <<>>}
    BY <1>1, <1>2, <1>3, <1>8
  <2>3. IsTextOf(text, now, P \cup {L + 1})
    <3> HIDE DEF Q
    <3> QED
      BY <1>4, <1>5, <2>2 DEF IsTextOf
  <2> QED
    BY <1>7, <2>1, <2>3 DEF now, L
<1>9. CASE u.text # <<>>
  <2>1. PICK c \in C : u.text = <<c>>
    BY <1>9 DEF Update
  <2> DEFINE new == text \o u.text
  <2>2. new = Append(text, c)
    BY <2>1
  <2>3. /\ new \in Seq(C) /\ Len(new) = Len(text) + 1 /\ new[Len(text) + 1] = c
        /\ \A n \in 1..Len(text) : new[n] = text[n]
    BY <2>2, AppendProperties
  <2>4. Q \cup {L + 1} = {i \in P \cup {L + 1} : now[i].text # <<>>}
    BY <1>1, <1>2, <1>3, <1>9
  <2>5. \A i \in Q : Cardinality({j \in Q : j <= i}) \in 1..Len(text)
    <3> SUFFICES ASSUME NEW i \in Q PROVE Cardinality({j \in Q : j <= i}) \in 1..Len(text)
      OBVIOUS
    <3> DEFINE R == {j \in Q : j <= i}
    <3>1. i \in R /\ R \subseteq Q
      BY <1>2
    <3> HIDE DEF R, Q
    <3>2. IsFiniteSet(R) /\ Cardinality(R) <= Cardinality(Q)
      BY <1>6, <3>1, FS_Subset
    <3>3. Cardinality(R) \in Nat /\ Cardinality(R) # 0
      BY <3>1, <3>2, FS_CardinalityType, FS_EmptySet
    <3>4. Cardinality(R) \in 1..Len(text)
      BY <1>4, <1>6, <3>2, <3>3
    <3> QED
      BY <3>4 DEF R, Q
  <2> HIDE DEF new
  <2>6. Len(new) = Cardinality(Q \cup {L + 1})
    BY <1>4, <1>6, <2>3
  <2>7. ASSUME NEW i \in Q \cup {L + 1}
        PROVE  now[i].text = <<new[Cardinality({j \in Q \cup {L + 1} : j <= i})]>>
    <3>1. CASE i \in Q
      <4>1. {j \in Q \cup {L + 1} : j <= i} = {j \in Q : j <= i}
        BY <1>2, <1>6, <3>1
      <4>2. new[Cardinality({j \in Q : j <= i})] = text[Cardinality({j \in Q : j <= i})]
        BY <2>3, <2>5, <3>1
      <4> QED
        BY <1>5, <3>1, <4>1, <4>2
    <3>2. CASE i = L + 1
      <4>1. Cardinality({j \in Q \cup {L + 1} : j <= i}) = Len(text) + 1
        BY <1>4, <1>6, <3>2
      <4> QED
        BY <1>1, <2>1, <2>3, <3>2, <4>1
    <3> QED
      BY <3>1, <3>2
  <2>8. IsTextOf(new, now, P \cup {L + 1})
    <3> HIDE DEF Q
    <3> QED
      BY <2>4, <2>6, <2>7 DEF IsTextOf
  <2> QED
    BY <1>7, <2>3, <2>8 DEF now, L, new
<1> QED
  BY <1>8, <1>9

\* Nothing, and one update alone.
LEMMA TextOfOne ==
    ASSUME NEW C, NEW us \in Seq(Update(C)), NEW i \in 1..Len(us)
    PROVE  /\ IsTextOf(<<>>, us, {})
           /\ us[i].text \in Seq(C) /\ IsTextOf(us[i].text, us, {i})
<1>1. us[i] \in Update(C)
  OBVIOUS
<1>2. {k \in {} : us[k].text # <<>>} = {} /\ Len(<<>>) = 0 /\ Cardinality({}) = 0
  BY FS_EmptySet
<1>3. IsTextOf(<<>>, us, {})
  BY <1>2 DEF IsTextOf
<1>4. CASE us[i].text = <<>>
  <2>1. {k \in {i} : us[k].text # <<>>} = {}
    BY <1>4
  <2>2. IsTextOf(<<>>, us, {i})
    BY <1>2, <2>1 DEF IsTextOf
  <2>3. <<>> \in Seq(C)
    OBVIOUS
  <2> QED
    BY <1>3, <1>4, <2>2, <2>3
<1>5. CASE us[i].text # <<>>
  <2>1. PICK c \in C : us[i].text = <<c>>
    BY <1>1, <1>5 DEF Update
  <2>2. {k \in {i} : us[k].text # <<>>} = {i} /\ \A k \in {i} : {j \in {i} : j <= k} = {i}
    BY <1>5
  <2>3. Cardinality({i}) = 1
    BY FS_Singleton
  <2>4. us[i].text \in Seq(C) /\ Len(us[i].text) = 1 /\ us[i].text[1] = c
    BY <2>1
  <2> QED
    BY <1>3, <2>1, <2>2, <2>3, <2>4 DEF IsTextOf
<1> QED
  BY <1>4, <1>5

\* Does the update at i belong to the turn that begins at b before it?
Joins(us, b, i) ==
    IF us[b].kind = "tool_call"
    THEN /\ us[i].kind = "tool_call_update" /\ us[i].call = us[b].call
         /\ \A j \in (b + 1)..i : ~(us[j].kind = "tool_call" /\ us[j].call = us[b].call)
    ELSE /\ roleForUpdate(us[i]) # "none"
         /\ \A j \in (b + 1)..i : j \notin Beginnings(us)

\* The parts of a turn and one more update.
LEMMA PartsOn ==
    ASSUME NEW C, NEW us \in Seq(Update(C)), NEW u \in Update(C), NEW b \in 1..Len(us)
    PROVE  LET now == Append(us, u) IN
           /\ PartsOf(us, b) \subseteq 1..Len(us)
           /\ PartsOf(now, b) = PartsOf(us, b) \cup
                 (IF Joins(now, b, Len(us) + 1) THEN {Len(us) + 1} ELSE {})
<1> DEFINE now == Append(us, u)
           L   == Len(us)
<1>1. /\ L \in Nat /\ DOMAIN us = 1..L /\ DOMAIN now = 1..(L + 1) /\ Len(now) = L + 1
      /\ \A i \in 1..L : now[i] = us[i]
      /\ 1..(L + 1) = 1..L \cup {L + 1} /\ L + 1 \notin 1..L
  BY UpdateAdded
<1>2. \A i \in 1..L : i \in Beginnings(now) <=> i \in Beginnings(us)
  BY BeginsOn
<1>3. /\ (b + 1)..(L + 1) = (b + 1)..L \cup {L + 1} /\ b..(L + 1) = b..L \cup {L + 1}
      /\ (b + 1)..L \subseteq 1..L /\ b..L \subseteq 1..L /\ b \in 1..L
      /\ \A i \in b..L : \A j \in (b + 1)..i : j \in 1..L
      /\ \A i \in (b + 1)..L : \A j \in (b + 1)..i : j \in 1..L
  BY <1>1
<1> HIDE DEF now, L
<1>4. Len(us) = L /\ now[b] = us[b]
  BY <1>1, <1>3 DEF L
<1>5. CASE us[b].kind = "tool_call"
  <2> DEFINE In(x, i) == /\ x[i].kind = "tool_call_update" /\ x[i].call = x[b].call
                         /\ \A j \in (b + 1)..i : ~(x[j].kind = "tool_call" /\ x[j].call = x[b].call)
  <2>1. \A i \in (b + 1)..L : In(now, i) <=> In(us, i)
    BY <1>1, <1>3, <1>4
  <2>2. /\ PartsOf(us, b) = {i \in (b + 1)..L : In(us, i)}
        /\ PartsOf(now, b) = {i \in (b + 1)..(L + 1) : In(now, i)}
        /\ Joins(now, b, L + 1) <=> In(now, L + 1)
    BY <1>1, <1>4, <1>5 DEF PartsOf, Joins
  <2> HIDE DEF In
  <2>3. PartsOf(now, b) = PartsOf(us, b) \cup (IF Joins(now, b, L + 1) THEN {L + 1} ELSE {})
    BY <1>3, <2>1, <2>2
  <2> QED
    BY <1>3, <2>2, <2>3 DEF now, L
<1>6. CASE us[b].kind # "tool_call"
  <2> DEFINE In(x, i) == /\ roleForUpdate(x[i]) # "none"
                         /\ \A j \in (b + 1)..i : j \notin Beginnings(x)
  <2>1. \A i \in b..L : In(now, i) <=> In(us, i)
    BY <1>1, <1>2, <1>3, <1>4
  <2>2. /\ PartsOf(us, b) = {i \in b..L : In(us, i)}
        /\ PartsOf(now, b) = {i \in b..(L + 1) : In(now, i)}
        /\ Joins(now, b, L + 1) <=> In(now, L + 1)
    BY <1>1, <1>4, <1>6 DEF PartsOf, Joins
  <2> HIDE DEF In
  <2>3. PartsOf(now, b) = PartsOf(us, b) \cup (IF Joins(now, b, L + 1) THEN {L + 1} ELSE {})
    BY <1>3, <2>1, <2>2
  <2> QED
    BY <1>3, <2>2, <2>3 DEF now, L
<1> QED
  BY <1>5, <1>6

\* The status of a turn is set by the updates that join it.
LEMMA StatusOn ==
    ASSUME NEW C, NEW us \in Seq(Update(C)), NEW u \in Update(C), NEW b \in 1..Len(us)
    PROVE  LET now == Append(us, u) IN
           StatusOf(now, b) = IF Joins(now, b, Len(us) + 1) /\ u.status # "" THEN u.status
                              ELSE StatusOf(us, b)
<1> DEFINE now == Append(us, u)
           L   == Len(us)
           S   == {i \in {b} \cup PartsOf(us, b) : us[i].status # ""}
           T   == {i \in {b} \cup PartsOf(now, b) : now[i].status # ""}
<1>1. /\ L \in Nat /\ \A i \in 1..L : now[i] = us[i]
      /\ now[L + 1] = u /\ L + 1 \notin 1..L
  BY UpdateAdded
<1>2. /\ PartsOf(us, b) \subseteq 1..L /\ b \in 1..L
      /\ PartsOf(now, b) = PartsOf(us, b) \cup (IF Joins(now, b, L + 1) THEN {L + 1} ELSE {})
  BY PartsOn
<1> HIDE DEF now, L
<1>3. /\ StatusOf(us, b) = IF S = {} THEN "pending" ELSE us[LastOf(S)].status
      /\ StatusOf(now, b) = IF T = {} THEN "pending" ELSE now[LastOf(T)].status
  BY DEF StatusOf
<1>4. S \subseteq 1..L
  BY <1>2
<1>5. CASE Joins(now, b, L + 1) /\ u.status # ""
  <2>1. T = S \cup {L + 1}
    BY <1>1, <1>2, <1>5
  <2> HIDE DEF S, T
  <2>2. LastOf(T) = L + 1
    BY <1>1, <1>4, <2>1, OneMore
  <2> QED
    BY <1>1, <1>3, <1>5, <2>1, <2>2 DEF now, L
<1>6. CASE ~(Joins(now, b, L + 1) /\ u.status # "")
  <2>1. T = S
    BY <1>1, <1>2, <1>6
  <2> HIDE DEF S, T
  <2>2. S # {} => LastOf(S) \in 1..L
    BY <1>1, <1>4, HasLast
  <2> QED
    BY <1>1, <1>3, <1>6, <2>1, <2>2 DEF now, L
<1> QED
  BY <1>5, <1>6

-----------------------------------------------------------------------------
(* The turns and where they begin.                                         *)

\* st is where the turns of the updates begin, in order.
Starts(us, st) ==
    LET begin == Beginnings(us)
    IN  /\ st \in Seq(Nat)
        /\ Len(st) = Cardinality(begin)
        /\ \A n \in 1..Len(st) :
              st[n] \in begin /\ Cardinality({i \in begin : i <= st[n]}) = n
        /\ \A b \in begin : \E n \in 1..Len(st) : st[n] = b
        /\ \A m, n \in 1..Len(st) : m < n => st[m] < st[n]

LEMMA StartsOn ==
    ASSUME NEW C, NEW us \in Seq(Update(C)), NEW u \in Update(C), NEW st, Starts(us, st)
    PROVE  LET now == Append(us, u) IN
           /\ Begins(now, Len(us) + 1) => Starts(now, Append(st, Len(us) + 1))
           /\ ~Begins(now, Len(us) + 1) => Starts(now, st)
<1> DEFINE now == Append(us, u)
           L   == Len(us)
           B   == Beginnings(us)
           new == Append(st, L + 1)
<1>1. L \in Nat /\ L + 1 \notin 1..L
  BY UpdateAdded
<1>2. /\ B \subseteq 1..L
      /\ Begins(now, L + 1) => Beginnings(now) = B \cup {L + 1}
      /\ ~Begins(now, L + 1) => Beginnings(now) = B
  BY BeginsOn
<1>3. /\ st \in Seq(Nat)
      /\ Len(st) = Cardinality(B)
      /\ \A n \in 1..Len(st) : st[n] \in B /\ Cardinality({i \in B : i <= st[n]}) = n
      /\ \A b \in B : \E n \in 1..Len(st) : st[n] = b
      /\ \A m, n \in 1..Len(st) : m < n => st[m] < st[n]
  BY DEF Starts
<1>4. /\ Cardinality(B) \in Nat
      /\ Cardinality(B \cup {L + 1}) = Cardinality(B) + 1
      /\ \A i \in 1..L : {j \in B \cup {L + 1} : j <= i} = {j \in B : j <= i}
      /\ {j \in B \cup {L + 1} : j <= L + 1} = B \cup {L + 1}
  BY <1>1, <1>2, OneMore
<1>5. /\ new \in Seq(Nat) /\ Len(new) = Len(st) + 1 /\ new[Len(st) + 1] = L + 1
      /\ \A n \in 1..Len(st) : new[n] = st[n]
  BY <1>1, <1>3, AppendProperties
<1>6. Len(st) \in Nat
  BY <1>3
<1> HIDE DEF now, L, B, new
<1>7. CASE Begins(now, L + 1)
  <2> DEFINE BB == B \cup {L + 1}
  <2>1. Beginnings(now) = BB
    BY <1>2, <1>7
  <2>2. \A n \in 1..(Len(st) + 1) : n \in 1..Len(st) \/ n = Len(st) + 1
    BY <1>6
  <2>3. ASSUME NEW n \in 1..Len(new)
        PROVE  new[n] \in BB /\ Cardinality({i \in BB : i <= new[n]}) = n
    <3>1. CASE n \in 1..Len(st)
      <4>1. new[n] = st[n] /\ st[n] \in B /\ st[n] \in 1..L
        BY <1>2, <1>3, <1>5, <3>1
      <4> QED
        BY <1>3, <1>4, <3>1, <4>1
    <3>2. CASE n = Len(st) + 1
      <4>1. new[n] = L + 1
        BY <1>5, <3>2
      <4> QED
        BY <1>3, <1>4, <3>2, <4>1
    <3> QED
      BY <1>5, <2>2, <3>1, <3>2
  <2>4. ASSUME NEW b \in BB PROVE \E n \in 1..Len(new) : new[n] = b
    BY <1>3, <1>5, <1>6
  <2>5. ASSUME NEW m \in 1..Len(new), NEW n \in 1..Len(new), m < n PROVE new[m] < new[n]
    <3>1. m \in 1..Len(st)
      BY <1>5, <1>6, <2>5
    <3>2. new[m] = st[m] /\ st[m] \in 1..L
      BY <1>2, <1>3, <1>5, <3>1
    <3>3. CASE n \in 1..Len(st)
      BY <1>3, <1>5, <2>5, <3>1, <3>3
    <3>4. CASE n = Len(st) + 1
      BY <1>1, <1>5, <3>2, <3>4
    <3> QED
      BY <1>5, <2>2, <3>3, <3>4
  <2>6. Len(new) = Cardinality(BB)
    BY <1>3, <1>4, <1>5
  <2> HIDE DEF BB
  <2>7. Starts(now, new)
    BY <1>5, <2>1, <2>3, <2>4, <2>5, <2>6 DEF Starts
  <2> QED
    BY <1>7, <2>7 DEF now, L, new
<1>8. CASE ~Begins(now, L + 1)
  <2>1. Starts(now, st)
    BY <1>2, <1>3, <1>8 DEF Starts
  <2> QED
    BY <1>8, <2>1 DEF now, L
<1> QED
  BY <1>7, <1>8

\* The n-th turn is what it should be: it begins at b.
Fits(turn, us, b, n) ==
    /\ turn.id = n
    /\ IF us[b].kind = "tool_call"
       THEN /\ turn.role = "tool" /\ turn.call = us[b].call
            /\ turn.text = <<>>
            /\ IsTextOf(turn.output, us, PartsOf(us, b))
            /\ turn.status = StatusOf(us, b)
       ELSE /\ turn.role = roleForUpdate(us[b])
            /\ IsTextOf(turn.text, us, PartsOf(us, b))
            /\ turn.call = 0 /\ turn.output = <<>>

UsageOf(us) ==
    LET usages == {i \in DOMAIN us : us[i].kind = "usage_update"}
    IN  IF usages = {} THEN <<>> ELSE us[LastOf(usages)].text

\* An update of another turn leaves a turn as it should be.
LEMMA FitsApart ==
    ASSUME NEW C, NEW us \in Seq(Update(C)), NEW u \in Update(C), NEW b \in 1..Len(us),
           NEW n, NEW turn \in Turn(C), Fits(turn, us, b, n),
           ~Joins(Append(us, u), b, Len(us) + 1)
    PROVE  Fits(turn, Append(us, u), b, n)
<1> DEFINE now == Append(us, u)
<1>1. now[b] = us[b]
  BY UpdateAdded
<1>2. PartsOf(us, b) \subseteq 1..Len(us) /\ PartsOf(now, b) = PartsOf(us, b)
  <2>1. PartsOf(us, b) \subseteq 1..Len(us) /\ PartsOf(now, b) = PartsOf(us, b) \cup {}
    BY PartsOn
  <2> QED
    BY <2>1
<1>3. StatusOf(now, b) = StatusOf(us, b)
  BY StatusOn
<1>4. turn.text \in Seq(C) /\ turn.output \in Seq(C)
  BY DEF Turn
<1>5. \A text \in Seq(C) : IsTextOf(text, us, PartsOf(us, b)) => IsTextOf(text, now, PartsOf(us, b))
  BY <1>2, TextOn
<1> HIDE DEF now
<1>6. Fits(turn, now, b, n)
  BY <1>1, <1>2, <1>3, <1>4, <1>5 DEF Fits
<1> QED
  BY <1>6 DEF now

\* An update of a turn makes it what it should be now.
LEMMA FitsJoined ==
    ASSUME NEW C, NEW us \in Seq(Update(C)), NEW u \in Update(C), NEW b \in 1..Len(us),
           NEW n, NEW turn \in Turn(C), Fits(turn, us, b, n),
           Joins(Append(us, u), b, Len(us) + 1)
    PROVE  LET now == Append(us, u)
               new == IF us[b].kind = "tool_call"
                      THEN [turn EXCEPT !.status = IF u.status = "" THEN @ ELSE u.status,
                                        !.output = @ \o u.text]
                      ELSE [turn EXCEPT !.text = @ \o u.text]
           IN  new \in Turn(C) /\ Fits(new, now, b, n)
<1> DEFINE now == Append(us, u)
           L   == Len(us)
           P   == PartsOf(us, b)
           new == IF us[b].kind = "tool_call"
                  THEN [turn EXCEPT !.status = IF u.status = "" THEN @ ELSE u.status,
                                    !.output = @ \o u.text]
                  ELSE [turn EXCEPT !.text = @ \o u.text]
<1>1. now[b] = us[b]
  BY UpdateAdded
<1>2. P \subseteq 1..Len(us) /\ PartsOf(now, b) = P \cup {L + 1}
  BY PartsOn
<1>3. StatusOf(now, b) = IF u.status # "" THEN u.status ELSE StatusOf(us, b)
  BY StatusOn
<1>4. turn \in [id : Nat, role : Role, text : Seq(C), call : Nat, status : Status, output : Seq(C)]
  BY DEF Turn
<1>5. \A text \in Seq(C) : IsTextOf(text, us, P) =>
          text \o u.text \in Seq(C) /\ IsTextOf(text \o u.text, now, P \cup {L + 1})
  BY <1>2, TextOn
<1>6. u.status \in Status
  BY DEF Update
<1> HIDE DEF now, L, P
<1>7. CASE us[b].kind = "tool_call"
  <2>1. /\ turn.id = n /\ turn.role = "tool" /\ turn.call = us[b].call /\ turn.text = <<>>
        /\ IsTextOf(turn.output, us, P) /\ turn.status = StatusOf(us, b)
    BY <1>7 DEF Fits, P
  <2>2. turn.output \o u.text \in Seq(C) /\ IsTextOf(turn.output \o u.text, now, P \cup {L + 1})
    BY <1>4, <1>5, <2>1
  <2>3. /\ new \in Turn(C)
        /\ new.id = turn.id /\ new.role = turn.role /\ new.call = turn.call /\ new.text = turn.text
        /\ new.output = turn.output \o u.text
        /\ new.status = IF u.status = "" THEN turn.status ELSE u.status
    BY <1>4, <1>6, <1>7, <2>2 DEF Turn
  <2> HIDE DEF new
  <2>4. Fits(new, now, b, n)
    BY <1>1, <1>2, <1>3, <1>7, <2>1, <2>2, <2>3 DEF Fits
  <2> QED
    BY <2>3, <2>4 DEF new, now
<1>8. CASE us[b].kind # "tool_call"
  <2>1. /\ turn.id = n /\ turn.role = roleForUpdate(us[b]) /\ IsTextOf(turn.text, us, P)
        /\ turn.call = 0 /\ turn.output = <<>>
    BY <1>8 DEF Fits, P
  <2>2. turn.text \o u.text \in Seq(C) /\ IsTextOf(turn.text \o u.text, now, P \cup {L + 1})
    BY <1>4, <1>5, <2>1
  <2>3. /\ new \in Turn(C)
        /\ new.id = turn.id /\ new.role = turn.role /\ new.call = turn.call
        /\ new.output = turn.output /\ new.text = turn.text \o u.text
    BY <1>4, <1>8, <2>2 DEF Turn
  <2> HIDE DEF new
  <2>4. Fits(new, now, b, n)
    BY <1>1, <1>2, <1>8, <2>1, <2>2, <2>3 DEF Fits
  <2> QED
    BY <2>3, <2>4 DEF new, now
<1> QED
  BY <1>7, <1>8

\* A turn that begins with the update is what it should be.
LEMMA FitsNew ==
    ASSUME NEW C, NEW us \in Seq(Update(C)), NEW u \in Update(C), NEW n \in Nat,
           IsTurnUpdate(u)
    PROVE  LET new == IF u.kind = "tool_call" THEN ToolCard(n, u.call, u.status)
                      ELSE MessageTurn(n, roleForUpdate(u), u.text)
           IN  new \in Turn(C) /\ Fits(new, Append(us, u), Len(us) + 1, n)
<1> DEFINE now == Append(us, u)
           L   == Len(us)
<1>1. /\ L \in Nat /\ Len(now) = L + 1 /\ now \in Seq(Update(C)) /\ now[L + 1] = u
      /\ L + 1 \in 1..Len(now)
  BY UpdateAdded
<1>2. u \in [kind : STRING, call : Nat, status : Status, text : {<<>>} \cup {<<c>> : c \in C}]
  BY DEF Update
<1>3. u.text \in Seq(C) /\ IsTextOf(<<>>, now, {}) /\ IsTextOf(u.text, now, {L + 1})
  <2> HIDE DEF now, L
  <2> QED
    BY <1>1, TextOfOne
<1>4. <<>> \in Seq(C)
  OBVIOUS
<1> HIDE DEF now, L
<1>5. CASE u.kind = "tool_call"
  <2> DEFINE new == ToolCard(n, u.call, u.status)
  <2>1. /\ new \in Turn(C) /\ new.id = n /\ new.role = "tool" /\ new.call = u.call
        /\ new.text = <<>> /\ new.output = <<>>
        /\ new.status = IF u.status = "" THEN "pending" ELSE u.status
    <3>1. u.call \in Nat /\ u.status \in Status
      BY <1>2
    <3>2. (IF u.status = "" THEN "pending" ELSE u.status) \in Status
      BY <3>1 DEF Status
    <3> QED
      BY <1>4, <3>1, <3>2 DEF Turn, ToolCard, Role
  <2>2. PartsOf(now, L + 1) = {}
    <3>1. (L + 1 + 1)..(L + 1) = {}
      BY <1>1
    <3> QED
      BY <1>1, <1>5, <3>1 DEF PartsOf
  <2>3. StatusOf(now, L + 1) = new.status
    <3> DEFINE said == {i \in {L + 1} \cup PartsOf(now, L + 1) : now[i].status # ""}
    <3>1. CASE u.status = ""
      <4>1. said = {}
        BY <1>1, <2>2, <3>1
      <4> QED
        BY <2>1, <3>1, <4>1 DEF StatusOf
    <3>2. CASE u.status # ""
      <4>1. said = {L + 1}
        <5>1. {L + 1} \cup PartsOf(now, L + 1) = {L + 1}
          BY <2>2
        <5>2. now[L + 1].status # ""
          BY <1>1, <3>2
        <5> QED
          BY <5>1, <5>2
      <4>2. LastOf(said) = L + 1
        <5> DEFINE P == {L + 1}
        <5>1. /\ L + 1 \in Nat
              /\ P \in SUBSET (1..(L + 1)) /\ L + 1 \in P /\ \A j \in P : j <= L + 1
          BY <1>1
        <5> HIDE DEF P
        <5>2. LastOf(P) = L + 1
          BY <5>1, LastIs
        <5> QED
          BY <4>1, <5>2 DEF P
      <4> HIDE DEF said
      <4>3. said # {}
        BY <4>1
      <4> QED
        BY <1>1, <2>1, <3>2, <4>2, <4>3 DEF StatusOf, said
    <3> QED
      BY <3>1, <3>2
  <2> HIDE DEF new
  <2>4. Fits(new, now, L + 1, n)
    BY <1>1, <1>3, <1>5, <2>1, <2>2, <2>3 DEF Fits
  <2> QED
    BY <1>5, <2>1, <2>4 DEF now, L, new
<1>6. CASE u.kind # "tool_call"
  <2> DEFINE new == MessageTurn(n, roleForUpdate(u), u.text)
  <2>1. roleForUpdate(u) \in Role /\ roleForUpdate(u) # "none"
    <3>1. roleForUpdate(u) # "none"
      BY <1>6 DEF IsTurnUpdate
    <3> QED
      BY <3>1, Roles DEF Role
  <2>2. /\ new \in Turn(C) /\ new.id = n /\ new.role = roleForUpdate(u) /\ new.call = 0
        /\ new.text = u.text /\ new.output = <<>>
    BY <1>3, <1>4, <2>1 DEF Turn, MessageTurn, Status
  <2>3. PartsOf(now, L + 1) = {L + 1}
    <3>1. (L + 1)..(L + 1) = {L + 1} /\ (L + 1 + 1)..(L + 1) = {}
      BY <1>1
    <3> QED
      BY <1>1, <1>6, <2>1, <3>1 DEF PartsOf
  <2> HIDE DEF new
  <2>4. Fits(new, now, L + 1, n)
    BY <1>1, <1>3, <1>6, <2>2, <2>3 DEF Fits
  <2> QED
    BY <1>6, <2>2, <2>4 DEF now, L, new
<1> QED
  BY <1>5, <1>6

LEMMA UsageOn ==
    ASSUME NEW C, NEW us \in Seq(Update(C)), NEW u \in Update(C)
    PROVE  UsageOf(Append(us, u)) = IF u.kind = "usage_update" THEN u.text ELSE UsageOf(us)
<1> DEFINE now == Append(us, u)
           L   == Len(us)
           S   == {i \in DOMAIN us : us[i].kind = "usage_update"}
           T   == {i \in DOMAIN now : now[i].kind = "usage_update"}
<1>1. /\ L \in Nat /\ DOMAIN us = 1..L /\ DOMAIN now = 1..(L + 1)
      /\ \A i \in 1..L : now[i] = us[i]
      /\ now[L + 1] = u
      /\ 1..(L + 1) = 1..L \cup {L + 1} /\ L + 1 \notin 1..L
  BY UpdateAdded
<1> HIDE DEF now, L
<1>2. S \subseteq 1..L
  BY <1>1
<1>3. CASE u.kind = "usage_update"
  <2>1. T = S \cup {L + 1}
    BY <1>1, <1>3
  <2> HIDE DEF S, T
  <2>2. LastOf(T) = L + 1
    BY <1>1, <1>2, <2>1, OneMore
  <2> QED
    BY <1>1, <1>3, <2>1, <2>2 DEF UsageOf, T, now
<1>4. CASE u.kind # "usage_update"
  <2>1. T = S
    BY <1>1, <1>4
  <2> HIDE DEF S, T
  <2>2. S # {} => LastOf(S) \in 1..L
    BY <1>1, <1>2, HasLast
  <2> QED
    BY <1>1, <1>4, <2>1, <2>2 DEF UsageOf, S, T, now
<1> QED
  BY <1>3, <1>4

-----------------------------------------------------------------------------
(* The reducer.                                                            *)

\* t shows the updates, whose turns begin at st.
Shows(C, t, us, st) ==
    /\ t \in Shown(C)
    /\ Len(t.turns) = Len(st)
    /\ t.nextId = Len(t.turns) + 1
    /\ \A n \in 1..Len(st) : Fits(t.turns[n], us, st[n], n)
    /\ t.usage = UsageOf(us)

\* What is known when an update arrives.
Arrives(C, t, us, u, st) ==
    /\ us \in Seq(Update(C)) /\ u \in Update(C)
    /\ Starts(us, st) /\ Spoken(us) /\ Shows(C, t, us, st)

LEMMA ShownFacts ==
    ASSUME NEW C, NEW t, NEW us, NEW u, NEW st, Arrives(C, t, us, u, st)
    PROVE  /\ t = [turns |-> t.turns, nextId |-> t.nextId, usage |-> t.usage]
           /\ t.turns \in Seq(Turn(C)) /\ t.nextId \in Nat /\ t.usage \in Seq(C)
           /\ Len(us) \in Nat /\ Len(st) \in Nat /\ Len(t.turns) = Len(st)
           /\ DOMAIN t.turns = 1..Len(st)
           /\ \A n \in 1..Len(st) :
                 /\ st[n] \in 1..Len(us) /\ IsTurnUpdate(us[st[n]]) /\ st[n] \in Beginnings(us)
                 /\ t.turns[n] \in Turn(C) /\ Fits(t.turns[n], us, st[n], n)
<1>1. t \in [turns : Seq(Turn(C)), nextId : Nat, usage : Seq(C)] /\ Len(t.turns) = Len(st)
  BY DEF Arrives, Shows, Shown
<1>2. us \in Seq(Update(C)) /\ Len(us) \in Nat /\ DOMAIN us = 1..Len(us)
  BY DEF Arrives
<1>3. \A b \in Beginnings(us) : b \in 1..Len(us) /\ IsTurnUpdate(us[b])
  BY <1>2 DEF Beginnings, Begins
<1>4. \A n \in 1..Len(st) : st[n] \in Beginnings(us) /\ Fits(t.turns[n], us, st[n], n)
  BY DEF Arrives, Starts, Shows
<1>5. t.turns \in Seq(Turn(C))
  BY <1>1
<1>6. Len(st) \in Nat /\ DOMAIN t.turns = 1..Len(st) /\ \A n \in 1..Len(st) : t.turns[n] \in Turn(C)
  BY <1>1, <1>5
<1> QED
  BY <1>1, <1>2, <1>3, <1>4, <1>6

\* An update that begins no turn: it is enough that each turn it joins takes it.
LEMMA TurnsStay ==
    ASSUME NEW C, NEW t, NEW us, NEW u, NEW st, NEW s, Arrives(C, t, us, u, st),
           ~Begins(Append(us, u), Len(us) + 1),
           s \in Shown(C), Len(s.turns) = Len(t.turns), s.nextId = t.nextId,
           s.usage = (IF u.kind = "usage_update" THEN u.text ELSE t.usage),
           \A n \in 1..Len(st) :
              IF Joins(Append(us, u), st[n], Len(us) + 1)
              THEN Fits(s.turns[n], Append(us, u), st[n], n)
              ELSE s.turns[n] = t.turns[n]
    PROVE  Starts(Append(us, u), st) /\ Shows(C, s, Append(us, u), st)
<1> DEFINE now == Append(us, u)
<1>1. us \in Seq(Update(C)) /\ u \in Update(C) /\ Starts(us, st)
  BY DEF Arrives
<1>2. Len(t.turns) = Len(st) /\ t.nextId = Len(t.turns) + 1 /\ t.usage = UsageOf(us)
  BY DEF Arrives, Shows
<1>3. Starts(now, st)
  BY <1>1, StartsOn
<1>4. s.usage = UsageOf(now)
  BY <1>1, <1>2, UsageOn
<1>5. ASSUME NEW n \in 1..Len(st) PROVE Fits(s.turns[n], now, st[n], n)
  <2>1. CASE Joins(now, st[n], Len(us) + 1)
    BY <2>1
  <2>2. CASE ~Joins(now, st[n], Len(us) + 1)
    <3>1. /\ s.turns[n] = t.turns[n]
          /\ st[n] \in 1..Len(us) /\ t.turns[n] \in Turn(C) /\ Fits(t.turns[n], us, st[n], n)
      BY <2>2, ShownFacts
    <3> HIDE DEF now
    <3>2. Fits(t.turns[n], Append(us, u), st[n], n)
      BY <1>1, <2>2, <3>1, FitsApart DEF now
    <3> QED
      BY <3>1, <3>2 DEF now
  <2> QED
    BY <2>1, <2>2
<1> HIDE DEF now
<1>6. Shows(C, s, now, st)
  BY <1>2, <1>4, <1>5 DEF Shows
<1> QED
  BY <1>3, <1>6 DEF now

\* An update that begins a turn joins no other.
LEMMA TurnBegins ==
    ASSUME NEW C, NEW t, NEW us, NEW u, NEW st, Arrives(C, t, us, u, st),
           Begins(Append(us, u), Len(us) + 1)
    PROVE  LET new == IF u.kind = "tool_call" THEN ToolCard(t.nextId, u.call, u.status)
                      ELSE MessageTurn(t.nextId, roleForUpdate(u), u.text)
           IN  /\ Starts(Append(us, u), Append(st, Len(us) + 1))
               /\ Shows(C, AppendTurn(t, new), Append(us, u), Append(st, Len(us) + 1))
<1> DEFINE now == Append(us, u)
           L   == Len(us)
           at  == Append(st, L + 1)
           new == IF u.kind = "tool_call" THEN ToolCard(t.nextId, u.call, u.status)
                  ELSE MessageTurn(t.nextId, roleForUpdate(u), u.text)
           s   == AppendTurn(t, new)
<1>1. us \in Seq(Update(C)) /\ u \in Update(C) /\ Starts(us, st)
  BY DEF Arrives
<1>2. /\ Len(t.turns) = Len(st) /\ t.nextId = Len(t.turns) + 1 /\ t.usage = UsageOf(us)
      /\ st \in Seq(Nat)
  BY DEF Arrives, Shows, Starts
<1>3. /\ t = [turns |-> t.turns, nextId |-> t.nextId, usage |-> t.usage]
      /\ t.turns \in Seq(Turn(C)) /\ t.nextId \in Nat /\ t.usage \in Seq(C)
      /\ L \in Nat /\ Len(st) \in Nat
      /\ \A n \in 1..Len(st) : /\ st[n] \in 1..L /\ IsTurnUpdate(us[st[n]])
                               /\ t.turns[n] \in Turn(C) /\ Fits(t.turns[n], us, st[n], n)
  BY ShownFacts
<1>4. now[L + 1] = u /\ \A i \in 1..L : now[i] = us[i]
  BY <1>1, UpdateAdded
<1>5. Starts(now, at)
  BY <1>1, StartsOn
<1>6. IsTurnUpdate(u) /\ L + 1 \in Beginnings(now) /\ u.kind # "usage_update"
  <2>1. IsTurnUpdate(u)
    BY <1>4 DEF Begins
  <2>2. L + 1 \in Beginnings(now)
    BY <1>1, BeginsOn
  <2> QED
    BY <2>1, <2>2, Roles DEF IsTurnUpdate
<1>7. UsageOf(now) = t.usage
  BY <1>1, <1>2, <1>6, UsageOn
<1>8. new \in Turn(C) /\ Fits(new, now, L + 1, t.nextId)
  BY <1>1, <1>3, <1>6, FitsNew
<1>9. Len(at) = Len(st) + 1 /\ at[Len(st) + 1] = L + 1 /\ \A n \in 1..Len(st) : at[n] = st[n]
  BY <1>2, <1>3, AppendProperties
<1> HIDE DEF now, L, at, new
<1>10. ASSUME NEW n \in 1..Len(st) PROVE Fits(t.turns[n], now, st[n], n)
  <2>1. ~Joins(now, st[n], L + 1)
    <3>1. L + 1 \in (st[n] + 1)..(L + 1)
      BY <1>3
    <3>2. u.kind # "tool_call_update"
      BY <1>6, Roles DEF IsTurnUpdate
    <3> QED
      BY <1>4, <1>6, <3>1, <3>2 DEF Joins
  <2> QED
    BY <1>1, <1>3, <2>1, FitsApart DEF now, L
<1>11. /\ s.turns = Append(t.turns, new) /\ s.nextId = t.nextId + 1 /\ s.usage = t.usage
       /\ s \in Shown(C)
  <2>1. t \in [turns : Seq(Turn(C)), nextId : Nat, usage : Seq(C)]
    BY DEF Arrives, Shows, Shown
  <2>2. Append(t.turns, new) \in Seq(Turn(C)) /\ t.nextId + 1 \in Nat
    BY <1>3, <1>8, AppendProperties
  <2> QED
    BY <2>1, <2>2 DEF AppendTurn, Shown
<1> HIDE DEF s
<1>12. /\ s.turns \in Seq(Turn(C)) /\ Len(s.turns) = Len(t.turns) + 1
       /\ s.turns[Len(t.turns) + 1] = new
       /\ \A n \in 1..Len(t.turns) : s.turns[n] = t.turns[n]
  BY <1>3, <1>8, <1>11, AppendProperties
<1>13. \A n \in 1..Len(at) : Fits(s.turns[n], now, at[n], n)
  <2> SUFFICES ASSUME NEW n \in 1..Len(at) PROVE Fits(s.turns[n], now, at[n], n)
    OBVIOUS
  <2>1. CASE n \in 1..Len(st)
    BY <1>2, <1>9, <1>10, <1>12, <2>1
  <2>2. CASE n = Len(st) + 1
    BY <1>2, <1>8, <1>9, <1>12, <2>2
  <2> QED
    BY <1>3, <1>9, <2>1, <2>2
<1>14. Shows(C, s, now, at)
  BY <1>2, <1>7, <1>9, <1>11, <1>12, <1>13 DEF Shows
<1> QED
  BY <1>5, <1>14 DEF now, L, at, new, s

\* A chunk goes on with the last turn exactly if that is of its role.
LEMMA MessageGoesOn ==
    ASSUME NEW C, NEW t, NEW us, NEW u, NEW st, Arrives(C, t, us, u, st),
           roleForUpdate(u) # "none"
    PROVE  LET last == Len(t.turns) IN
           ~Begins(Append(us, u), Len(us) + 1)
              <=> last > 0 /\ t.turns[last].role = roleForUpdate(u)
<1> DEFINE now  == Append(us, u)
           L    == Len(us)
           last == Len(t.turns)
           B    == Beginnings(us)
<1>1. us \in Seq(Update(C)) /\ u \in Update(C) /\ Spoken(us) /\ Starts(us, st)
  BY DEF Arrives
<1>2. /\ L \in Nat /\ DOMAIN us = 1..L /\ now[L + 1] = u /\ \A i \in 1..L : now[i] = us[i]
  BY <1>1, UpdateAdded
<1>3. /\ last \in Nat /\ last = Len(st)
      /\ \A n \in 1..Len(st) : /\ st[n] \in 1..L /\ IsTurnUpdate(us[st[n]]) /\ st[n] \in B
                               /\ Fits(t.turns[n], us, st[n], n)
  BY ShownFacts
<1>4. /\ \A b \in B : \E n \in 1..last : st[n] = b
      /\ \A m, n \in 1..last : m < n => st[m] < st[n]
  BY <1>1, <1>3 DEF Starts
<1>5. \A k \in 1..L : IsTurnUpdate(us[k]) =>
          \E b \in B : /\ b <= k /\ us[b].kind = us[k].kind
                       /\ \A j \in (b + 1)..k : j \notin B
  BY <1>1, <1>2 DEF Spoken
<1>6. IsTurnUpdate(u) /\ u.kind # "tool_call"
  BY Roles DEF IsTurnUpdate
<1>7. Begins(now, L + 1) <=>
         \A j \in 1..L : IsTurnUpdate(us[j]) /\ us[j].kind = u.kind
             => \E k \in (j + 1)..L : IsTurnUpdate(us[k]) /\ us[k].kind # u.kind
  <2>1. (L + 1) - 1 = L /\ \A j \in 1..L : (j + 1)..L \subseteq 1..L
    BY <1>2
  <2> HIDE DEF now, L
  <2>2. Begins(now, L + 1) <=>
         \A j \in 1..L : IsTurnUpdate(now[j]) /\ now[j].kind = u.kind
             => \E k \in (j + 1)..L : IsTurnUpdate(now[k]) /\ now[k].kind # u.kind
    BY <1>2, <1>6, <2>1 DEF Begins
  <2> QED
    BY <1>2, <2>1, <2>2
<1>8. \A n \in 1..last : t.turns[n].role = roleForUpdate(u) <=> us[st[n]].kind = u.kind
  <2> SUFFICES ASSUME NEW n \in 1..last
               PROVE  t.turns[n].role = roleForUpdate(u) <=> us[st[n]].kind = u.kind
    OBVIOUS
  <2> DEFINE v == us[st[n]]
  <2>1. t.turns[n].role = IF v.kind = "tool_call" THEN "tool" ELSE roleForUpdate(v)
    BY <1>3 DEF Fits
  <2>2. IsTurnUpdate(v)
    BY <1>3
  <2> HIDE DEF v
  <2>3. t.turns[n].role = roleForUpdate(u) <=> v.kind = u.kind
    BY <2>1, <2>2, Roles DEF IsTurnUpdate
  <2> QED
    BY <2>3 DEF v
<1> HIDE DEF now, L, last, B
<1>9. ASSUME last > 0, us[st[last]].kind = u.kind
      PROVE  ~Begins(now, L + 1)
  <2> DEFINE b == st[last]
  <2>1. last \in 1..last /\ b \in 1..L /\ IsTurnUpdate(us[b])
    BY <1>3, <1>9
  <2>2. ASSUME NEW k \in (b + 1)..L, IsTurnUpdate(us[k]) PROVE us[k].kind = u.kind
    <3>1. k \in 1..L /\ b < k
      BY <1>2, <2>1
    <3>2. PICK c \in B : /\ c <= k /\ us[c].kind = us[k].kind
                         /\ \A j \in (c + 1)..k : j \notin B
      BY <1>5, <2>2, <3>1
    <3>3. PICK n \in 1..last : st[n] = c
      BY <1>4
    <3>4. n = last
      <4> SUFFICES ASSUME n # last PROVE FALSE
        OBVIOUS
      <4>1. n < last
        BY <1>3
      <4>2. c < b /\ c \in 1..L
        BY <1>3, <1>4, <2>1, <3>3, <4>1
      <4>3. b \in (c + 1)..k /\ b \in B
        BY <1>3, <2>1, <3>1, <4>2
      <4> QED
        BY <3>2, <4>3
    <3> QED
      BY <1>9, <3>2, <3>3, <3>4
  <2> QED
    BY <1>7, <1>9, <2>1, <2>2
<1>10. ASSUME ~Begins(now, L + 1)
       PROVE  last > 0 /\ us[st[last]].kind = u.kind
  <2>1. PICK j \in 1..L :
               /\ IsTurnUpdate(us[j]) /\ us[j].kind = u.kind
               /\ \A k \in (j + 1)..L : ~(IsTurnUpdate(us[k]) /\ us[k].kind # u.kind)
    BY <1>7, <1>10
  <2>2. PICK b \in B : /\ b <= j /\ us[b].kind = us[j].kind
                       /\ \A i \in (b + 1)..j : i \notin B
    BY <1>5, <2>1
  <2>3. PICK n \in 1..last : st[n] = b
    BY <1>4
  <2>4. last > 0 /\ last \in 1..last
    BY <1>3
  <2>5. CASE n = last
    BY <2>1, <2>2, <2>3, <2>4, <2>5
  <2>6. CASE n # last
    <3>1. n < last
      BY <1>3, <2>6
    <3>2. b < st[last] /\ st[last] \in 1..L /\ IsTurnUpdate(us[st[last]]) /\ st[last] \in B /\ b \in 1..L
      BY <1>3, <1>4, <2>3, <2>4, <3>1
    <3>3. st[last] \in (b + 1)..j \/ st[last] \in (j + 1)..L
      BY <1>2, <3>2
    <3>4. st[last] \in (j + 1)..L
      BY <2>2, <3>2, <3>3
    <3> QED
      BY <2>1, <2>4, <3>2, <3>4
  <2> QED
    BY <2>5, <2>6
<1>11. last > 0 => last \in 1..last
  BY <1>3
<1> QED
  BY <1>8, <1>9, <1>10, <1>11 DEF now, L, last

LEMMA MessageApplied ==
    ASSUME NEW C, NEW t, NEW us, NEW u, NEW st, Arrives(C, t, us, u, st),
           roleForUpdate(u) # "none"
    PROVE  \E at : Starts(Append(us, u), at) /\ Shows(C, applyMessage(t, u), Append(us, u), at)
<1> DEFINE now  == Append(us, u)
           L    == Len(us)
           last == Len(t.turns)
<1>1. us \in Seq(Update(C)) /\ u \in Update(C) /\ Starts(us, st)
  BY DEF Arrives
<1>2. u.kind # "tool_call" /\ u.kind # "usage_update" /\ u.kind # "tool_call_update"
  BY Roles
<1>3. CASE Begins(now, L + 1)
  <2>1. ~(last > 0 /\ t.turns[last].role = roleForUpdate(u))
    BY <1>3, MessageGoesOn
  <2>2. applyMessage(t, u) = AppendTurn(t, MessageTurn(t.nextId, roleForUpdate(u), u.text))
    BY <2>1 DEF applyMessage
  <2> QED
    BY <1>2, <1>3, <2>2, TurnBegins
<1>4. CASE ~Begins(now, L + 1)
  <2>1. last > 0 /\ t.turns[last].role = roleForUpdate(u)
    BY <1>4, MessageGoesOn
  <2> DEFINE new == [t.turns[last] EXCEPT !.text = @ \o u.text]
             s   == [t EXCEPT !.turns[last].text = @ \o u.text]
  <2>2. applyMessage(t, u) = s
    BY <2>1 DEF applyMessage
  <2>3. /\ t.turns \in Seq(Turn(C)) /\ L \in Nat /\ last \in Nat /\ last = Len(st)
        /\ DOMAIN t.turns = 1..last
        /\ \A n \in 1..last : /\ st[n] \in 1..L /\ st[n] \in Beginnings(us)
                              /\ t.turns[n] \in Turn(C) /\ Fits(t.turns[n], us, st[n], n)
    BY ShownFacts
  <2>4. last \in 1..last
    BY <2>1, <2>3
  <2>5. us[st[last]].kind # "tool_call" /\ st[last] \in 1..L
    <3>1. us[st[last]].kind = "tool_call" => t.turns[last].role = "tool"
      BY <2>3, <2>4 DEF Fits
    <3> QED
      BY <2>1, <2>3, <2>4, <3>1, Roles
  <2>6. /\ \A i \in 1..L : now[i] = us[i]
        /\ now[L + 1] = u
        /\ Beginnings(now) = Beginnings(us)
    BY <1>1, <1>4, UpdateAdded, BeginsOn
  <2>7. Joins(now, st[last], L + 1)
    <3> SUFFICES ASSUME NEW j \in (st[last] + 1)..(L + 1), j \in Beginnings(us) PROVE FALSE
      <4> HIDE DEF now, L, last
      <4> QED
        BY <2>5, <2>6 DEF Joins
    <3>1. PICK m \in 1..last : st[m] = j
      BY <1>1, <2>3 DEF Starts
    <3>2. m < last \/ m = last
      BY <2>3
    <3>3. m < last => st[m] < st[last]
      BY <1>1, <2>3, <2>4 DEF Starts
    <3> QED
      BY <2>3, <2>5, <3>1, <3>2, <3>3
  <2>8. new \in Turn(C) /\ Fits(new, now, st[last], last)
    <3> HIDE DEF last
    <3> QED
      BY <1>1, <2>3, <2>4, <2>5, <2>7, FitsJoined
  <2>9. t \in [turns : Seq(Turn(C)), nextId : Nat, usage : Seq(C)]
    BY DEF Arrives, Shows, Shown
  <2>10. /\ s \in Shown(C) /\ s.nextId = t.nextId /\ s.usage = t.usage
         /\ s.turns = [t.turns EXCEPT ![last] = new]
    <3>1. s = [t EXCEPT !.turns = [t.turns EXCEPT ![last] = new]]
      BY <2>9
    <3> HIDE DEF new, s, last
    <3>2. [t.turns EXCEPT ![last] = new] \in Seq(Turn(C))
      BY <2>3, <2>4, <2>8
    <3> QED
      BY <2>9, <3>1, <3>2 DEF Shown
  <2>11. /\ Len(s.turns) = last /\ s.turns[last] = new
         /\ \A n \in 1..last : n # last => s.turns[n] = t.turns[n]
    <3> HIDE DEF new, s
    <3> QED
      BY <2>3, <2>4, <2>10
  <2>12. \A n \in 1..last : n # last => ~Joins(now, st[n], L + 1)
    <3> SUFFICES ASSUME NEW n \in 1..last, n # last, Joins(now, st[n], L + 1) PROVE FALSE
      OBVIOUS
    <3>1. st[n] < st[last]
      BY <1>1, <2>3, <2>4 DEF Starts
    <3>2. st[last] \in (st[n] + 1)..(L + 1) /\ st[last] \in Beginnings(now)
      BY <2>3, <2>4, <2>6, <3>1
    <3> HIDE DEF now, L, last
    <3>3. ~Joins(now, st[n], L + 1)
      BY <1>2, <2>6, <3>2 DEF Joins
    <3> QED
      BY <3>3
  <2>13. \A n \in 1..Len(st) :
            IF Joins(now, st[n], L + 1) THEN Fits(s.turns[n], now, st[n], n)
            ELSE s.turns[n] = t.turns[n]
    <3> HIDE DEF now, L, s, new, last
    <3> QED
      BY <2>3, <2>7, <2>8, <2>11, <2>12
  <2> HIDE DEF s, new
  <2>14. Starts(Append(us, u), st) /\ Shows(C, s, Append(us, u), st)
    BY <1>2, <1>4, <2>10, <2>11, <2>13, TurnsStay
  <2> QED
    BY <2>2, <2>14
<1> QED
  BY <1>3, <1>4

\* What a tool call reports goes to the turn of the call, if it has one.
LEMMA ToolUpdateApplied ==
    ASSUME NEW C, NEW t, NEW us, NEW u, NEW st, Arrives(C, t, us, u, st),
           u.kind = "tool_call_update"
    PROVE  \E at : Starts(Append(us, u), at)
                      /\ Shows(C, applyToolCallUpdate(t, u), Append(us, u), at)
<1> DEFINE now  == Append(us, u)
           L    == Len(us)
           last == Len(st)
           P    == ToolTurns(t, u.call)
<1>1. us \in Seq(Update(C)) /\ u \in Update(C) /\ Starts(us, st)
  BY DEF Arrives
<1>2. /\ t.turns \in Seq(Turn(C)) /\ L \in Nat /\ last \in Nat /\ Len(t.turns) = last
      /\ DOMAIN t.turns = 1..last
      /\ \A n \in 1..last : /\ st[n] \in 1..L /\ st[n] \in Beginnings(us)
                            /\ IsTurnUpdate(us[st[n]])
                            /\ t.turns[n] \in Turn(C) /\ Fits(t.turns[n], us, st[n], n)
  BY ShownFacts
<1>3. /\ \A i \in 1..L : now[i] = us[i]
      /\ now[L + 1] = u
  BY <1>1, UpdateAdded
<1>4. roleForUpdate(u) = "none" /\ ~IsTurnUpdate(u)
  BY Roles DEF IsTurnUpdate
<1>5. ~Begins(now, L + 1)
  BY <1>3, <1>4 DEF Begins
<1>6. P = {n \in 1..last : t.turns[n].call = u.call} /\ P \in SUBSET (1..last)
  BY <1>2 DEF ToolTurns
<1> HIDE DEF now, L, last, P
\* A turn takes it that is of the call, unless the call began anew after it.
<1>7. \A n \in 1..last : Joins(now, st[n], L + 1)
         <=> /\ us[st[n]].kind = "tool_call" /\ us[st[n]].call = u.call
             /\ \A j \in (st[n] + 1)..L : ~(us[j].kind = "tool_call" /\ us[j].call = u.call)
  <2> SUFFICES ASSUME NEW n \in 1..last
               PROVE  Joins(now, st[n], L + 1)
                  <=> /\ us[st[n]].kind = "tool_call" /\ us[st[n]].call = u.call
                      /\ \A j \in (st[n] + 1)..L : ~(us[j].kind = "tool_call" /\ us[j].call = u.call)
    OBVIOUS
  <2> DEFINE b == st[n]
  <2>1. b \in 1..L /\ now[b] = us[b]
    BY <1>2, <1>3
  <2>2. (b + 1)..(L + 1) = (b + 1)..L \cup {L + 1} /\ (b + 1)..L \subseteq 1..L
    BY <1>2, <2>1
  <2> HIDE DEF b
  <2>3. Joins(now, b, L + 1)
         <=> /\ us[b].kind = "tool_call" /\ us[b].call = u.call
             /\ \A j \in (b + 1)..L : ~(us[j].kind = "tool_call" /\ us[j].call = u.call)
    BY <1>3, <1>4, <2>1, <2>2 DEF Joins
  <2> QED
    BY <2>3 DEF b
<1>8. \A n \in 1..last :
         /\ us[st[n]].kind = "tool_call" => t.turns[n].call = us[st[n]].call /\ us[st[n]].call # 0
         /\ us[st[n]].kind # "tool_call" => t.turns[n].call = 0
  <2> SUFFICES ASSUME NEW n \in 1..last
               PROVE  /\ us[st[n]].kind = "tool_call" =>
                            t.turns[n].call = us[st[n]].call /\ us[st[n]].call # 0
                      /\ us[st[n]].kind # "tool_call" => t.turns[n].call = 0
    OBVIOUS
  <2> DEFINE v == us[st[n]]
  <2>1. IsTurnUpdate(v) /\ IF v.kind = "tool_call" THEN t.turns[n].call = v.call
                           ELSE t.turns[n].call = 0
    BY <1>2 DEF Fits
  <2> HIDE DEF v
  <2>2. v.kind = "tool_call" => v.call # 0
    BY <2>1, Roles DEF IsTurnUpdate
  <2> QED
    BY <2>1, <2>2 DEF v
<1>9. t \in Shown(C)
  BY DEF Arrives, Shows
<1>10. CASE u.call = 0 \/ P = {}
  <2>1. applyToolCallUpdate(t, u) = t
    BY <1>10 DEF applyToolCallUpdate, P
  <2>2. \A n \in 1..last : ~Joins(now, st[n], L + 1)
    BY <1>6, <1>7, <1>8, <1>10
  <2>3. Starts(now, st) /\ Shows(C, t, now, st)
    BY <1>5, <1>9, <2>2, TurnsStay DEF now, L, last
  <2> QED
    BY <2>1, <2>3 DEF now
<1>11. CASE u.call # 0 /\ P # {}
  <2> DEFINE i   == LastOf(P)
             new == [t.turns[i] EXCEPT !.status = IF u.status = "" THEN @ ELSE u.status,
                                       !.output = @ \o u.text]
             s   == [t EXCEPT !.turns[i].status = IF u.status = "" THEN @ ELSE u.status,
                              !.turns[i].output = @ \o u.text]
  <2>1. applyToolCallUpdate(t, u) = s
    BY <1>11 DEF applyToolCallUpdate, findToolTurnIndex, P
  <2>2. i \in P /\ \A j \in P : j <= i
    BY <1>2, <1>6, <1>11, HasLast
  <2> HIDE DEF i
  <2>3. i \in 1..last /\ t.turns[i].call = u.call /\ st[i] \in 1..L
    BY <1>2, <1>6, <2>2
  <2>4. us[st[i]].kind = "tool_call" /\ us[st[i]].call = u.call
    BY <1>8, <1>11, <2>3
  <2>5. Joins(now, st[i], L + 1)
    <3> SUFFICES ASSUME NEW j \in (st[i] + 1)..L, us[j].kind = "tool_call", us[j].call = u.call
                 PROVE  FALSE
      BY <1>7, <2>3, <2>4
    <3>1. j \in 1..L /\ st[i] < j
      BY <1>2, <2>3
    <3>2. j \in Beginnings(us)
      BY <1>1, <1>11, <3>1 DEF Beginnings, Begins, IsTurnUpdate, L
    <3>3. PICK m \in 1..last : st[m] = j
      BY <1>1, <3>2 DEF Starts, last
    <3>4. t.turns[m].call = u.call
      BY <1>8, <3>3
    <3>5. m <= i
      BY <1>6, <2>2, <3>4
    <3>6. m = i \/ m < i
      BY <1>2, <2>3, <3>5
    <3>7. m < i => st[m] < st[i]
      BY <1>1, <2>3 DEF Starts, last
    <3> QED
      BY <2>3, <3>1, <3>3, <3>6, <3>7
  <2>6. new \in Turn(C) /\ Fits(new, now, st[i], i)
    <3>1. t.turns[i] \in Turn(C) /\ Fits(t.turns[i], us, st[i], i)
      BY <1>2, <2>3
    <3> QED
      BY <1>1, <2>3, <2>4, <2>5, <3>1, FitsJoined DEF now, L
  <2>7. t \in [turns : Seq(Turn(C)), nextId : Nat, usage : Seq(C)]
    BY <1>9 DEF Shown
  <2>8. /\ s \in Shown(C) /\ s.nextId = t.nextId /\ s.usage = t.usage
        /\ s.turns = [t.turns EXCEPT ![i] = new]
    <3>1. t.turns[i] \in [id : Nat, role : Role, text : Seq(C), call : Nat, status : Status,
                          output : Seq(C)]
      BY <1>2, <2>3 DEF Turn
    <3>2. s = [t EXCEPT !.turns = [t.turns EXCEPT ![i] = new]]
      BY <1>2, <2>3, <2>7, <3>1
    <3> HIDE DEF new, s
    <3>3. [t.turns EXCEPT ![i] = new] \in Seq(Turn(C))
      BY <1>2, <2>3, <2>6
    <3> QED
      BY <2>7, <3>2, <3>3 DEF Shown
  <2>9. /\ Len(s.turns) = last /\ s.turns[i] = new
        /\ \A n \in 1..last : n # i => s.turns[n] = t.turns[n]
    <3> HIDE DEF new, s
    <3> QED
      BY <1>2, <2>3, <2>8
  <2>10. \A n \in 1..last : n # i => ~Joins(now, st[n], L + 1)
    <3> SUFFICES ASSUME NEW n \in 1..last, n # i, Joins(now, st[n], L + 1) PROVE FALSE
      OBVIOUS
    <3>1. us[st[n]].kind = "tool_call" /\ us[st[n]].call = u.call
      BY <1>7
    <3>2. n \in P
      BY <1>6, <1>8, <3>1
    <3>3. n < i
      BY <1>2, <2>2, <2>3, <3>2
    <3>4. st[n] < st[i] /\ st[n] \in 1..L
      BY <1>1, <1>2, <2>3, <3>3 DEF Starts, last
    <3>5. st[i] \in (st[n] + 1)..L
      BY <1>2, <2>3, <3>4
    <3> QED
      BY <1>7, <2>4, <3>5
  <2> HIDE DEF s, new
  <2>11. \A n \in 1..last :
            IF Joins(now, st[n], L + 1) THEN Fits(s.turns[n], now, st[n], n)
            ELSE s.turns[n] = t.turns[n]
    BY <2>5, <2>6, <2>9, <2>10
  <2>12. Starts(now, st) /\ Shows(C, s, now, st)
    <3>1. Len(s.turns) = Len(t.turns) /\ s.usage = IF u.kind = "usage_update" THEN u.text ELSE t.usage
      BY <1>2, <2>8, <2>9
    <3> QED
      BY <1>5, <2>8, <2>11, <3>1, TurnsStay DEF now, L, last
  <2> QED
    BY <2>1, <2>12 DEF now
<1> QED
  BY <1>10, <1>11

\* An update of no turn at all.
LEMMA NoTurnApplied ==
    ASSUME NEW C, NEW t, NEW us, NEW u, NEW st, NEW s, Arrives(C, t, us, u, st),
           ~IsTurnUpdate(u), u.kind # "tool_call_update",
           s = IF u.kind = "usage_update" THEN [t EXCEPT !.usage = u.text] ELSE t
    PROVE  Starts(Append(us, u), st) /\ Shows(C, s, Append(us, u), st)
<1> DEFINE now == Append(us, u)
           L   == Len(us)
<1>1. us \in Seq(Update(C)) /\ u \in Update(C) /\ t \in Shown(C)
  BY DEF Arrives, Shows
<1>2. now[L + 1] = u
  BY <1>1, UpdateAdded
<1>3. ~Begins(now, L + 1)
  BY <1>2 DEF Begins
<1>4. u.text \in Seq(C)
  <2>1. <<>> \in Seq(C) /\ \A c \in C : <<c>> \in Seq(C)
    OBVIOUS
  <2> QED
    BY <1>1, <2>1 DEF Update
<1>5. /\ s \in Shown(C) /\ s.turns = t.turns /\ s.nextId = t.nextId
      /\ s.usage = IF u.kind = "usage_update" THEN u.text ELSE t.usage
  BY <1>1, <1>4 DEF Shown
<1> HIDE DEF now, L
<1>6. \A n \in 1..Len(st) : ~Joins(now, st[n], L + 1)
  BY <1>2 DEF Joins, IsTurnUpdate
<1> QED
  BY <1>3, <1>5, <1>6, TurnsStay DEF now, L

LEMMA UpdateApplied ==
    ASSUME NEW C, NEW t, NEW us, NEW u, NEW st, Arrives(C, t, us, u, st)
    PROVE  \E at : Starts(Append(us, u), at)
                      /\ Shows(C, applySessionUpdate(t, u), Append(us, u), at)
<1> DEFINE now == Append(us, u)
           L   == Len(us)
<1>1. CASE roleForUpdate(u) # "none"
  <2>1. u.kind # "usage_update" /\ u.kind # "tool_call" /\ u.kind # "tool_call_update"
    BY <1>1, Roles
  <2>2. applySessionUpdate(t, u) = applyMessage(t, u)
    BY <1>1, <2>1, Zenon DEF applySessionUpdate
  <2> QED
    BY <1>1, <2>2, MessageApplied
<1>2. CASE u.kind = "tool_call_update"
  <2>1. applySessionUpdate(t, u) = applyToolCallUpdate(t, u)
    <3>1. roleForUpdate(u) = "none"
      BY <1>2, Roles
    <3> QED
      BY <1>2, <3>1, Zenon DEF applySessionUpdate
  <2> QED
    BY <1>2, <2>1, ToolUpdateApplied
<1>3. CASE u.kind = "tool_call"
  <2>1. roleForUpdate(u) = "none"
    BY <1>3, Roles
  <2>2. applySessionUpdate(t, u) = applyToolCall(t, u)
    BY <1>3, <2>1, Zenon DEF applySessionUpdate
  <2>3. CASE u.call = 0
    <3>1. applySessionUpdate(t, u) = t /\ ~IsTurnUpdate(u)
      BY <2>1, <2>2, <2>3 DEF applyToolCall, IsTurnUpdate
    <3> QED
      BY <1>3, <3>1, NoTurnApplied
  <2>4. CASE u.call # 0
    <3>1. applySessionUpdate(t, u) = AppendTurn(t, ToolCard(t.nextId, u.call, u.status))
      BY <2>2, <2>4 DEF applyToolCall
    <3>2. us \in Seq(Update(C)) /\ u \in Update(C)
      BY DEF Arrives
    <3>3. now[L + 1] = u
      BY <3>2, UpdateAdded
    <3>4. Begins(now, L + 1)
      BY <1>3, <2>4, <3>3 DEF Begins, IsTurnUpdate
    <3> QED
      BY <1>3, <3>1, <3>4, TurnBegins
  <2> QED
    BY <2>3, <2>4
<1>4. CASE u.kind = "usage_update"
  <2>1. roleForUpdate(u) = "none" /\ ~IsTurnUpdate(u)
    BY <1>4, Roles DEF IsTurnUpdate
  <2>2. applySessionUpdate(t, u) = [t EXCEPT !.usage = u.text]
    BY <1>4, <2>1, Zenon DEF applySessionUpdate
  <2> QED
    BY <1>4, <2>1, <2>2, NoTurnApplied
<1>5. CASE /\ roleForUpdate(u) = "none" /\ u.kind # "tool_call_update"
           /\ u.kind # "tool_call" /\ u.kind # "usage_update"
  <2>1. applySessionUpdate(t, u) = t
    BY <1>5, Zenon DEF applySessionUpdate
  <2>2. ~IsTurnUpdate(u)
    BY <1>5 DEF IsTurnUpdate
  <2> QED
    BY <1>5, <2>1, <2>2, NoTurnApplied
<1> QED
  BY <1>1, <1>2, <1>3, <1>4, <1>5

\* A transcript that shows the updates turn by turn is faithful.
LEMMA ShowsFaithful ==
    ASSUME NEW C, NEW t, NEW us, NEW st, Starts(us, st), Shows(C, t, us, st)
    PROVE  Faithful(t, us)
<1> DEFINE begin == Beginnings(us)
<1>1. /\ Len(st) = Cardinality(begin)
      /\ \A n \in 1..Len(st) : Cardinality({i \in begin : i <= st[n]}) = n
      /\ \A b \in begin : \E n \in 1..Len(st) : st[n] = b
  BY DEF Starts
<1>2. /\ Len(t.turns) = Len(st) /\ t.nextId = Len(t.turns) + 1
      /\ \A n \in 1..Len(st) : Fits(t.turns[n], us, st[n], n)
      /\ t.usage = UsageOf(us)
  BY DEF Shows
<1>3. ASSUME NEW b \in begin
      PROVE  LET n == Cardinality({i \in begin : i <= b})
             IN  Fits(t.turns[n], us, b, n)
  BY <1>1, <1>2
<1> HIDE DEF begin
<1>4. /\ Len(t.turns) = Cardinality(begin)
      /\ \A b \in begin :
            LET n == Cardinality({i \in begin : i <= b})
            IN  Fits(t.turns[n], us, b, n)
  BY <1>1, <1>2, <1>3
<1> QED
  BY <1>2, <1>4 DEF Faithful, Fits, UsageOf, begin

-----------------------------------------------------------------------------
(* The invariant of the tab and the daemon.                                *)

Chunks == Sessions \X Nat

Anything == Sessions \cup {NoSession}
Requests == [kind : {"none", "new", "load", "prompt"}, session : Anything,
             at : {"none", "sent", "handled", "done", "refused"}, crossed : BOOLEAN]
Events == 1..Len(script)
Frames == [id : Nat, event : Events]
Subscriptions ==
    [session : Anything, phase : {"connecting", "open", "over"}, queue : Seq(Frames),
     final : {"none", "aborted", "closed", "terminated", "gone", "lost", "broken"},
     crossed : BOOLEAN]
Processes ==
    [life : {"unused", "saved", "loading", "alive", "over"}, readonly : BOOLEAN,
     events : 0..Len(script), pushed : Seq(Events), turn : BOOLEAN]
Entries == [stream : Nat, session : Sessions, id : Nat, event : Events]

WebTypes ==
    /\ script \in Scripts
    /\ tab \in [session : Anything, stream : Nat, transcript : Shown(Chunks)]
    /\ calls \in [Slots -> Requests]
    /\ streams \in Seq(Subscriptions)
    /\ daemon \in [Sessions -> Processes]
    /\ shown \in Seq(Entries)

\* A call the daemon works on or has answered starts or loads a session, and of
\* two such calls in flight each knows of the other.
CallsInv ==
    /\ \A i \in Slots :
          /\ calls[i].kind \in {"load", "prompt"} \/ calls[i].at = "done"
                => calls[i].session \in Sessions
          /\ calls[i].at \in {"handled", "done"} => Opening(i)
    /\ \A i, j \in Slots : i # j /\ Opening(i) /\ Opening(j) => calls[i].crossed

\* The stream of the tab is of its session, a start or load is only on its way
\* beside a stream if both are crossed, and no other stream is live unless it is.
StreamsInv ==
    /\ tab.stream \in 0..Len(streams)
    /\ tab.stream # 0 => streams[tab.stream].session = tab.session
    /\ \A i \in Slots : Opening(i) /\ tab.stream # 0 =>
          calls[i].crossed /\ streams[tab.stream].crossed
    /\ \A k \in DOMAIN streams : IsLive(k) =>
          streams[k].session \in Sessions /\ (k = tab.stream \/ streams[k].crossed)

\* Who is subscribed to a cursor is subscribed to a process that runs.
DaemonInv ==
    /\ \A s \in Sessions : daemon[s].turn => daemon[s].life = "alive"
    /\ \A k \in DOMAIN streams, s \in Sessions :
          IsAttached(k, s) => daemon[s].life \in {"loading", "alive"}

\* What is shown is of the tab's stream, in order, or of a crossed one.
ShownInv ==
    \A i \in DOMAIN shown :
       /\ shown[i].stream \in DOMAIN streams
       /\ IF shown[i].stream = tab.stream
          THEN /\ shown[i].session = tab.session
               /\ shown[i].id = Cardinality({j \in 1..i : shown[j].stream = tab.stream})
          ELSE streams[shown[i].stream].crossed

\* How much of the tab's stream is shown.
Count == Cardinality({j \in 1..Len(shown) : shown[j].stream = tab.stream})

\* The frames on their way to the tab are the next ones, up to what was pushed.
InStep(k, n) ==
    /\ \A i \in 1..Len(streams[k].queue) : streams[k].queue[i].id = n + i
    /\ streams[k].phase = "connecting" => n = 0 /\ streams[k].queue = <<>>
    /\ \A s \in Sessions : IsAttached(k, s) =>
          Len(daemon[s].pushed) = n + Len(streams[k].queue)

QueueInv == tab.stream # 0 => InStep(tab.stream, Count)

Applied == [i \in DOMAIN shown |-> UpdateOf(shown[i].session, shown[i].event)]

TranscriptInv ==
    \E st : Starts(Applied, st) /\ Spoken(Applied) /\ Shows(Chunks, tab.transcript, Applied, st)

WebInv == /\ WebTypes /\ CallsInv /\ StreamsInv /\ DaemonInv
          /\ ShownInv /\ QueueInv /\ TranscriptInv

-----------------------------------------------------------------------------
(* The types.                                                              *)

\* What one call, stream or process becomes.
LEMMA ScriptTyped ==
    ASSUME WebTypes
    PROVE  /\ script \in Seq([kind : STRING, call : Nat, status : STRING, text : BOOLEAN])
           /\ Len(script) \in Nat
           /\ streams \in Seq(Subscriptions) /\ Len(streams) \in Nat
           /\ DOMAIN streams = 1..Len(streams)
           /\ \A k \in DOMAIN streams : streams[k] \in Subscriptions
           /\ \A k \in DOMAIN streams : streams[k].queue \in Seq(Frames)
           /\ \A s \in Sessions : daemon[s] \in Processes /\ daemon[s].pushed \in Seq(Events)
           /\ \A i \in Slots : calls[i] \in Requests
<1>1. script \in Seq([kind : STRING, call : Nat, status : STRING, text : BOOLEAN])
  BY WebAssumption DEF WebTypes
<1>2. streams \in Seq(Subscriptions)
  BY DEF WebTypes
<1>3. \A s \in Sessions : daemon[s] \in Processes
  BY DEF WebTypes
<1>4. \A i \in Slots : calls[i] \in Requests
  BY DEF WebTypes
<1>5. Len(script) \in Nat
  BY <1>1
<1>6. Len(streams) \in Nat /\ DOMAIN streams = 1..Len(streams) /\ \A k \in DOMAIN streams : streams[k] \in Subscriptions
  BY <1>2
<1>7. \A k \in DOMAIN streams : streams[k].queue \in Seq(Frames)
  BY <1>6 DEF Subscriptions
<1>8. \A s \in Sessions : daemon[s].pushed \in Seq(Events)
  BY <1>3 DEF Processes
<1> QED
  BY <1>1, <1>2, <1>3, <1>4, <1>5, <1>6, <1>7, <1>8

\* The streams as they are with other values at the same numbers.
LEMMA Renewed ==
    ASSUME NEW S, NEW n \in Nat, NEW f \in [1..n -> S]
    PROVE  f \in Seq(S) /\ Len(f) = n /\ DOMAIN f = 1..n
OBVIOUS

LEMMA CallsTyped ==
    ASSUME WebTypes, Next
    PROVE  calls' \in [Slots -> Requests]
<1>1. \A i \in Slots : calls[i] \in Requests
  BY ScriptTyped
<1>2. calls \in [Slots -> Requests]
  BY DEF WebTypes
<1>3. NoCall \in Requests
  BY DEF NoCall, Requests, Anything
<1>4. tab.session \in Anything
  BY DEF WebTypes
<1>5. \A s \in Anything, kind \in {"new", "load", "prompt"} : Post(kind, s) => calls' \in [Slots -> Requests]
  <2> SUFFICES ASSUME NEW s \in Anything, NEW kind \in {"new", "load", "prompt"}, Post(kind, s)
               PROVE  calls' \in [Slots -> Requests]
    OBVIOUS
  <2> DEFINE others == IF kind = "prompt" THEN {} ELSE {j \in Slots : Opening(j)}
  <2>3. PICK i \in Slots : calls' = [j \in Slots |->
               IF j = i THEN [kind |-> kind, session |-> s, at |-> "sent",
                              crossed |-> others # {}]
               ELSE IF j \in others THEN [calls[j] EXCEPT !.crossed = TRUE]
               ELSE calls[j]]
    BY DEF Post
  <2> HIDE DEF others
  <2>1. [kind |-> kind, session |-> s, at |-> "sent", crossed |-> others # {}] \in Requests
    BY DEF Requests
  <2>2. \A j \in Slots : [calls[j] EXCEPT !.crossed = TRUE] \in Requests
    BY <1>1 DEF Requests
  <2> QED
    BY <1>1, <2>1, <2>2, <2>3
<1>6. ASSUME User PROVE calls' \in [Slots -> Requests]
  BY <1>2, <1>4, <1>5, <1>6
     DEF User, startSession, loadSavedSession, Open, endSession, sendPrompt, Anything
<1>7. \A i \in Slots, at \in {"done", "refused", "handled"} : [calls EXCEPT ![i].at = at] \in [Slots -> Requests]
  BY <1>2 DEF Requests
<1>8. \A i \in Slots, s \in Sessions :
         [calls EXCEPT ![i].session = s, ![i].at = "done"] \in [Slots -> Requests]
  BY <1>2 DEF Requests, Anything
<1>9. \A i \in Slots : [calls EXCEPT ![i] = NoCall] \in [Slots -> Requests]
  BY <1>2, <1>3
<1>10. \A s \in Sessions, how \in {"done", "refused"} : AnswerLoad(s, how) => calls' \in [Slots -> Requests]
  <2> SUFFICES ASSUME NEW s \in Sessions, NEW how \in {"done", "refused"}, AnswerLoad(s, how)
               PROVE  calls' \in [Slots -> Requests]
    OBVIOUS
  <2>1. \A i \in Slots : [calls[i] EXCEPT !.at = how] \in Requests
    BY <1>1 DEF Requests
  <2> QED
    BY <1>1, <2>1 DEF AnswerLoad
<1>11. ASSUME Daemon PROVE calls' \in [Slots -> Requests]
  <2>1. ASSUME NEW i \in Slots, HandleNew(i) \/ HandleLoad(i) \/ HandlePrompt(i)
        PROVE  calls' \in [Slots -> Requests]
    <3>1. CASE HandleNew(i)
      <4>1. CASE Refuse(i)
        BY <1>7, <4>1 DEF Refuse
      <4>2. CASE ~Refuse(i)
        <5>1. PICK s \in Sessions : calls' = [calls EXCEPT ![i].session = s, ![i].at = "done"]
          BY <3>1, <4>2 DEF HandleNew
        <5> QED
          BY <1>8, <5>1
      <4> QED
        BY <4>1, <4>2
    <3>2. CASE HandleLoad(i)
      BY <1>7, <3>2 DEF HandleLoad, Refuse
    <3>3. CASE HandlePrompt(i)
      BY <1>9, <3>3 DEF HandlePrompt
    <3> QED
      BY <2>1, <3>1, <3>2, <3>3
  <2>2. ASSUME NEW s \in Sessions,
               \/ Replay(s) \/ LoadDone(s) \/ LoadFails(s)
               \/ TurnEvent(s) \/ TurnEnds(s)
               \/ Exit(s) \/ Collect(s)
        PROVE  calls' \in [Slots -> Requests]
    BY <1>2, <1>10, <2>2 DEF Replay, LoadDone, LoadFails, TurnEvent, TurnEnds, Exit, Collect
  <2> QED
    BY <1>11, <2>1, <2>2 DEF Daemon
<1>12. ASSUME NEW i \in Slots, Answered(i) \/ CallFails(i) PROVE calls' \in [Slots -> Requests]
  BY <1>9, <1>12 DEF Answered, CallFails
<1>13. ASSUME NEW k \in DOMAIN streams, handleEvents(k) \/ Take(k) \/ StreamBreaks(k)
       PROVE  calls' \in [Slots -> Requests]
  BY <1>2, <1>13 DEF handleEvents, Take, TakeFrame, TakeFinal, StreamBreaks
<1> QED
  BY <1>6, <1>11, <1>12, <1>13 DEF Next

LEMMA DaemonTyped ==
    ASSUME WebTypes, Next
    PROVE  daemon' \in [Sessions -> Processes]
<1>1. daemon \in [Sessions -> Processes]
  BY DEF WebTypes
<1>2. Len(script) \in Nat /\ \A s \in Sessions : daemon[s] \in Processes /\ daemon[s].pushed \in Seq(Events)
  BY ScriptTyped
<1>3. /\ \A s \in Sessions : daemon[s].events \in 0..Len(script)
      /\ NoProcess("alive", 0) \in Processes
      /\ \A s \in Sessions : /\ NoProcess("saved", daemon[s].events) \in Processes
                             /\ NoProcess("loading", daemon[s].events) \in Processes
                             /\ [NoProcess("loading", daemon[s].events) EXCEPT !.readonly = TRUE]
                                   \in Processes
  <2>1. \A s \in Sessions : daemon[s].events \in 0..Len(script)
    BY <1>2 DEF Processes
  <2>2. <<>> \in Seq(Events)
    OBVIOUS
  <2>3. 0 \in 0..Len(script)
    BY <1>2
  <2>4. \A e \in 0..Len(script) : /\ NoProcess("alive", e) \in Processes
                                  /\ NoProcess("saved", e) \in Processes
                                  /\ NoProcess("loading", e) \in Processes
    BY <2>2 DEF NoProcess, Processes
  <2>5. \A p \in Processes : [p EXCEPT !.readonly = TRUE] \in Processes
    BY DEF Processes
  <2> QED
    BY <2>1, <2>3, <2>4, <2>5
<1>4. \A s \in Sessions, n \in Events : Append(daemon[s].pushed, n) \in Seq(Events)
  BY <1>2, AppendProperties
<1>5. ASSUME NEW s \in Sessions, NEW p \in Processes
      PROVE  [daemon EXCEPT ![s] = p] \in [Sessions -> Processes]
  BY <1>1
<1>6. ASSUME NEW i \in Slots, HandleNew(i) \/ HandleLoad(i) \/ HandlePrompt(i)
      PROVE  daemon' \in [Sessions -> Processes]
  <2>1. CASE HandleNew(i)
    <3>1. UNCHANGED daemon \/ \E s \in Sessions : daemon' = [daemon EXCEPT ![s] = NoProcess("alive", 0)]
      BY <2>1 DEF HandleNew, Refuse
    <3> QED
      BY <1>1, <1>3, <1>5, <3>1
  <2>2. CASE HandleLoad(i)
    <3> DEFINE s == calls[i].session
               p == [NoProcess("loading", daemon[s].events) EXCEPT !.readonly = TRUE]
    <3>1. UNCHANGED daemon \/ daemon' = [daemon EXCEPT ![s] = p]
      <4>1. \/ Refuse(i)
            \/ daemon' = [daemon EXCEPT ![s] = [NoProcess("loading", @.events) EXCEPT !.readonly = TRUE]]
        BY <2>2 DEF HandleLoad
      <4> QED
        BY <1>1, <4>1 DEF Refuse
    <3>2. s \in Sessions => p \in Processes
      BY <1>3
    <3> HIDE DEF s, p
    <3>3. CASE s \in Sessions
      BY <1>1, <1>5, <3>1, <3>2, <3>3
    <3>4. CASE s \notin Sessions
      <4>1. [daemon EXCEPT ![s] = p] = daemon
        BY <1>1, <3>4
      <4> QED
        BY <1>1, <3>1, <4>1
    <3> QED
      BY <3>3, <3>4
  <2>3. CASE HandlePrompt(i)
    <3> DEFINE s == calls[i].session
    <3>1. PICK turn : turn \in BOOLEAN /\ daemon' = [daemon EXCEPT ![s].turn = turn \/ @]
      <4> DEFINE takes == daemon[s].life = "alive" /\ ~daemon[s].readonly /\ ~daemon[s].turn
      <4>1. daemon' = [daemon EXCEPT ![s].turn = takes \/ @]
        BY <2>3 DEF HandlePrompt
      <4>2. takes \in BOOLEAN
        OBVIOUS
      <4> QED
        BY <4>1, <4>2
    <3> HIDE DEF s
    <3> QED
      BY <1>1, <3>1 DEF Processes
  <2> QED
    BY <1>6, <2>1, <2>2, <2>3
<1>7. ASSUME NEW s \in Sessions, Replay(s) PROVE daemon' \in [Sessions -> Processes]
  <2> DEFINE n == Len(daemon[s].pushed) + 1
  <2>1. n <= daemon[s].events /\ daemon' = [daemon EXCEPT ![s].pushed = Append(@, n)]
    BY <1>7 DEF Replay
  <2>2. Append(daemon[s].pushed, n) \in Seq(Events)
    <3>1. Len(daemon[s].pushed) \in Nat /\ daemon[s].events \in 0..Len(script)
      BY <1>2, <1>3
    <3>2. n \in Events
      BY <1>2, <2>1, <3>1 DEF Events
    <3> QED
      BY <1>4, <3>2
  <2>3. daemon' = [daemon EXCEPT ![s].pushed = Append(daemon[s].pushed, n)]
    BY <1>1, <2>1
  <2> HIDE DEF n
  <2> QED
    BY <1>1, <2>2, <2>3 DEF Processes
<1>8. ASSUME NEW s \in Sessions, TurnEvent(s) PROVE daemon' \in [Sessions -> Processes]
  <2> DEFINE n == daemon[s].events + 1
  <2>1. /\ daemon[s].events < Len(script)
        /\ \/ daemon' = [daemon EXCEPT ![s].events = n, ![s].pushed = Append(@, n)]
           \/ daemon' = [daemon EXCEPT ![s].events = n]
    BY <1>8 DEF TurnEvent
  <2>2. n \in Events /\ n \in 0..Len(script)
    BY <1>2, <1>3, <2>1 DEF Events
  <2>3. Append(daemon[s].pushed, n) \in Seq(Events)
    BY <1>4, <2>2
  <2>4. \/ daemon' = [daemon EXCEPT ![s].events = n, ![s].pushed = Append(daemon[s].pushed, n)]
        \/ daemon' = [daemon EXCEPT ![s].events = n]
    BY <1>1, <2>1
  <2> HIDE DEF n
  <2> QED
    BY <1>1, <2>2, <2>3, <2>4 DEF Processes
<1>9. ASSUME NEW s \in Sessions, LoadDone(s) \/ TurnEnds(s) \/ Exit(s)
      PROVE  daemon' \in [Sessions -> Processes]
  <2>1. \/ daemon' = [daemon EXCEPT ![s].life = "alive"]
        \/ daemon' = [daemon EXCEPT ![s].turn = FALSE]
        \/ daemon' = [daemon EXCEPT ![s].life = "over", ![s].turn = FALSE]
    BY <1>9 DEF LoadDone, TurnEnds, Exit
  <2>2. [daemon EXCEPT ![s].life = "alive"] \in [Sessions -> Processes]
    BY <1>1 DEF Processes
  <2>3. [daemon EXCEPT ![s].turn = FALSE] \in [Sessions -> Processes]
    BY <1>1 DEF Processes
  <2>4. [daemon EXCEPT ![s].life = "over", ![s].turn = FALSE] \in [Sessions -> Processes]
    BY <1>1 DEF Processes
  <2> QED
    BY <2>1, <2>2, <2>3, <2>4
<1>10. ASSUME NEW s \in Sessions, LoadFails(s) \/ Collect(s)
       PROVE  daemon' \in [Sessions -> Processes]
  <2>1. daemon' = [daemon EXCEPT ![s] = NoProcess("saved", daemon[s].events)]
    BY <1>1, <1>10 DEF LoadFails, Collect
  <2> QED
    BY <1>3, <1>5, <2>1
<1>11. ASSUME Daemon PROVE daemon' \in [Sessions -> Processes]
  BY <1>6, <1>7, <1>8, <1>9, <1>10, <1>11 DEF Daemon
<1>12. ASSUME User PROVE daemon' \in [Sessions -> Processes]
  BY <1>1, <1>12 DEF User, startSession, loadSavedSession, Open, endSession, sendPrompt
<1>13. ASSUME NEW i \in Slots, Answered(i) \/ CallFails(i) PROVE daemon' \in [Sessions -> Processes]
  BY <1>1, <1>13 DEF Answered, CallFails
<1>14. ASSUME NEW k \in DOMAIN streams, handleEvents(k) \/ Take(k) \/ StreamBreaks(k)
       PROVE  daemon' \in [Sessions -> Processes]
  BY <1>1, <1>14 DEF handleEvents, Take, TakeFrame, TakeFinal, StreamBreaks
<1> QED
  BY <1>11, <1>12, <1>13, <1>14 DEF Next

\* The streams that a push, an end of a cursor or a step of one stream leaves.
LEMMA StreamsTyped ==
    ASSUME WebTypes, StreamsInv, Next
    PROVE  streams' \in Seq(Subscriptions)
<1> DEFINE n == Len(streams)
<1>1. /\ streams \in Seq(Subscriptions) /\ n \in Nat /\ DOMAIN streams = 1..n
      /\ \A k \in 1..n : streams[k] \in Subscriptions /\ streams[k].queue \in Seq(Frames)
      /\ \A s \in Sessions : daemon[s] \in Processes /\ daemon[s].pushed \in Seq(Events)
      /\ Len(script) \in Nat
  BY ScriptTyped
<1>2. <<>> \in Seq(Frames) /\ NoSession \in Anything /\ Sessions \subseteq Anything
  BY DEF Anything
<1> HIDE DEF n
<1>3. \A k \in 1..n, x \in Subscriptions : [streams EXCEPT ![k] = x] \in Seq(Subscriptions)
  BY <1>1
<1>4. \A f \in [1..n -> Subscriptions] : f \in Seq(Subscriptions)
  BY <1>1, Renewed
<1>5. \A k \in 1..n : /\ Over(streams[k], "aborted") \in Subscriptions
                     /\ Over(streams[k], "broken") \in Subscriptions
                     /\ Over(streams[k], streams[k].final) \in Subscriptions
  BY <1>1, <1>2 DEF Over, Subscriptions
<1>6. ASSUME resetSessionState PROVE streams' \in Seq(Subscriptions)
  <2>1. CASE tab.stream = 0
    BY <1>1, <1>6, <2>1 DEF resetSessionState
  <2>2. CASE tab.stream # 0
    <3> DEFINE k == tab.stream
               x == [Over(streams[k], "aborted") EXCEPT !.crossed = FALSE, !.session = NoSession]
    <3>1. streams' = [streams EXCEPT ![k] =
                         [Over(@, "aborted") EXCEPT !.crossed = FALSE, !.session = NoSession]]
      BY <1>6, <2>2 DEF resetSessionState
    <3>2. CASE k \in 1..n
      <4>1. streams' = [streams EXCEPT ![k] = x]
        BY <1>1, <3>1, <3>2
      <4>2. Over(streams[k], "aborted") \in Subscriptions
        BY <1>5, <3>2
      <4>3. x \in Subscriptions
        BY <1>2, <4>2 DEF Subscriptions
      <4> HIDE DEF x
      <4> QED
        BY <1>3, <3>2, <4>1, <4>3
    <3>3. CASE k \notin 1..n
      <4>1. streams' = streams
        BY <1>1, <3>1, <3>3
      <4> QED
        BY <1>1, <4>1
    <3> QED
      BY <3>2, <3>3
  <2> QED
    BY <2>1, <2>2
<1>7. ASSUME User PROVE streams' \in Seq(Subscriptions)
  BY <1>1, <1>6, <1>7 DEF User, startSession, loadSavedSession, Open, endSession, sendPrompt
<1>8. ASSUME NEW s \in Sessions, NEW e \in Events, Push(s, e) PROVE streams' \in Seq(Subscriptions)
  <2> DEFINE f == [id |-> Len(daemon[s].pushed) + 1, event |-> e]
  <2>1. f \in Frames
    BY <1>1 DEF Frames
  <2>2. \A k \in 1..n : Append(streams[k].queue, f) \in Seq(Frames)
    BY <1>1, <2>1, AppendProperties
  <2>3. streams' = [k \in 1..n |->
                      IF IsAttached(k, s)
                      THEN [streams[k] EXCEPT !.queue = Append(@, f)] ELSE streams[k]]
    BY <1>1, <1>8 DEF Push
  <2> HIDE DEF f
  <2>4. \A k \in 1..n : [streams[k] EXCEPT !.queue = Append(@, f)] \in Subscriptions
    BY <1>1, <2>2 DEF Subscriptions
  <2>5. streams' \in [1..n -> Subscriptions]
    BY <1>1, <2>3, <2>4
  <2> QED
    BY <1>4, <2>5
<1>9. ASSUME NEW s \in Sessions, NEW final \in {"closed", "terminated"}, EndStreams(s, final)
      PROVE  streams' \in Seq(Subscriptions)
  <2>1. \A k \in 1..n : [streams[k] EXCEPT !.final = final] \in Subscriptions
    BY <1>1 DEF Subscriptions
  <2>2. streams' \in [1..n -> Subscriptions]
    BY <1>1, <1>9, <2>1 DEF EndStreams
  <2> QED
    BY <1>4, <2>2
<1>10. ASSUME NEW s \in Sessions, Replay(s) \/ TurnEvent(s) PROVE streams' \in Seq(Subscriptions)
  <2>1. daemon[s].events \in 0..Len(script) /\ Len(daemon[s].pushed) \in Nat
    BY <1>1 DEF Processes
  <2>2. CASE Replay(s)
    <3>1. Len(daemon[s].pushed) + 1 <= daemon[s].events /\ Push(s, Len(daemon[s].pushed) + 1)
      BY <2>2 DEF Replay
    <3>2. Len(daemon[s].pushed) + 1 \in Events
      BY <1>1, <2>1, <3>1 DEF Events
    <3> QED
      BY <1>8, <3>1, <3>2
  <2>3. CASE TurnEvent(s)
    <3>1. daemon[s].events < Len(script) /\ (Push(s, daemon[s].events + 1) \/ UNCHANGED streams)
      BY <2>3 DEF TurnEvent
    <3>2. daemon[s].events + 1 \in Events
      BY <1>1, <2>1, <3>1 DEF Events
    <3> QED
      BY <1>1, <1>8, <3>1, <3>2
  <2> QED
    BY <1>10, <2>2, <2>3
<1>11. ASSUME Daemon PROVE streams' \in Seq(Subscriptions)
  <2>1. ASSUME NEW i \in Slots, HandleNew(i) \/ HandleLoad(i) \/ HandlePrompt(i)
        PROVE  streams' \in Seq(Subscriptions)
    BY <1>1, <2>1 DEF HandleNew, HandleLoad, HandlePrompt
  <2>2. ASSUME NEW s \in Sessions, LoadFails(s) \/ Exit(s) PROVE streams' \in Seq(Subscriptions)
    BY <1>9, <2>2 DEF LoadFails, Exit
  <2>3. ASSUME NEW s \in Sessions, LoadDone(s) \/ TurnEnds(s) \/ Collect(s)
        PROVE  streams' \in Seq(Subscriptions)
    BY <1>1, <2>3 DEF LoadDone, TurnEnds, Collect
  <2> QED
    BY <1>10, <1>11, <2>1, <2>2, <2>3 DEF Daemon
<1>12. ASSUME NEW i \in Slots, Answered(i) \/ CallFails(i) PROVE streams' \in Seq(Subscriptions)
  <2>1. CASE UNCHANGED streams
    BY <1>1, <2>1
  <2>2. CASE calls[i].at = "done" /\ attachStream(calls[i])
    <3> DEFINE x == [session |-> calls[i].session, phase |-> "connecting", queue |-> <<>>,
                     final |-> "none", crossed |-> calls[i].crossed]
    <3>1. calls[i] \in Requests
      BY ScriptTyped
    <3>2. x \in Subscriptions
      BY <1>2, <3>1 DEF Subscriptions, Requests
    <3>3. streams' = Append(streams, x)
      BY <2>2 DEF attachStream
    <3> QED
      BY <1>1, <3>2, <3>3, AppendProperties
  <2> QED
    BY <1>12, <2>1, <2>2 DEF Answered, CallFails
<1>13. ASSUME NEW k \in DOMAIN streams, handleEvents(k) PROVE streams' \in Seq(Subscriptions)
  <2> DEFINE s    == streams[k].session
             open == [streams[k] EXCEPT !.phase = "open"]
  <2>1. k \in 1..n /\ open \in Subscriptions /\ streams[k].phase = "connecting"
    BY <1>1, <1>13 DEF Subscriptions, handleEvents
  <2>2. s \in Sessions
    BY <2>1 DEF StreamsInv, IsLive
  <2>3. Buffered(s) \in Seq(Frames)
    <3> DEFINE m == Len(daemon[s].pushed)
    <3>1. /\ m \in Nat /\ DOMAIN daemon[s].pushed = 1..m
          /\ \A i \in 1..m : daemon[s].pushed[i] \in Events
      BY <1>1, <2>2
    <3>2. Buffered(s) \in [1..m -> Frames]
      BY <3>1 DEF Buffered, Frames
    <3> HIDE DEF m
    <3> QED
      BY <3>1, <3>2, Renewed
  <2>4. \/ streams' = [streams EXCEPT ![k] = [open EXCEPT !.final = "gone"]]
        \/ streams' = [streams EXCEPT ![k] = [open EXCEPT !.final = "lost"]]
        \/ \E final \in {"terminated", "none"} :
              streams' = [streams EXCEPT ![k] =
                             [open EXCEPT !.queue = Buffered(s), !.final = final]]
    BY <1>13 DEF handleEvents
  <2> HIDE DEF open, s
  <2>5. /\ [open EXCEPT !.final = "gone"] \in Subscriptions
        /\ [open EXCEPT !.final = "lost"] \in Subscriptions
        /\ \A final \in {"terminated", "none"} :
              [open EXCEPT !.queue = Buffered(s), !.final = final] \in Subscriptions
    BY <2>1, <2>3 DEF Subscriptions
  <2> QED
    BY <1>3, <2>1, <2>4, <2>5
<1>14. ASSUME NEW k \in DOMAIN streams, TakeFrame(k) PROVE streams' \in Seq(Subscriptions)
  <2> DEFINE x == [streams[k] EXCEPT !.queue = Tail(@)]
  <2>1. streams[k].queue # <<>> /\ streams' = [streams EXCEPT ![k] = x]
    BY <1>1, <1>14 DEF TakeFrame
  <2>2. Tail(streams[k].queue) \in Seq(Frames)
    BY <1>1, <2>1, HeadTailProperties
  <2>3. x \in Subscriptions
    BY <1>1, <2>2 DEF Subscriptions
  <2> HIDE DEF x
  <2> QED
    BY <1>1, <1>3, <2>1, <2>3
<1>15. ASSUME NEW k \in DOMAIN streams, TakeFinal(k) \/ StreamBreaks(k)
       PROVE  streams' \in Seq(Subscriptions)
  <2>1. \/ streams' = [streams EXCEPT ![k] = Over(streams[k], streams[k].final)]
        \/ streams' = [streams EXCEPT ![k] = Over(streams[k], "broken")]
    BY <1>1, <1>15 DEF TakeFinal, StreamBreaks
  <2> QED
    BY <1>1, <1>3, <1>5, <2>1
<1> QED
  BY <1>7, <1>11, <1>12, <1>13, <1>14, <1>15 DEF Next, Take

\* The frame a subscription yields next.
LEMMA FrameTyped ==
    ASSUME WebTypes, StreamsInv, NEW k \in DOMAIN streams, TakeFrame(k)
    PROVE  LET f == NextFrame(k) IN
           /\ k \in 1..Len(streams) /\ streams[k].session \in Sessions
           /\ f \in Frames /\ f = streams[k].queue[1]
           /\ Len(streams[k].queue) \in Nat /\ Len(streams[k].queue) # 0
           /\ shown' = Append(shown, [stream |-> k, session |-> streams[k].session,
                                      id |-> f.id, event |-> f.event])
           /\ shown' \in Seq(Entries) /\ Len(shown') = Len(shown) + 1 /\ Len(shown) \in Nat
           /\ shown'[Len(shown) + 1] = [stream |-> k, session |-> streams[k].session,
                                        id |-> f.id, event |-> f.event]
           /\ \A i \in 1..Len(shown) : shown'[i] = shown[i]
<1> DEFINE f == NextFrame(k)
           e == [stream |-> k, session |-> streams[k].session, id |-> f.id, event |-> f.event]
<1>1. /\ DOMAIN streams = 1..Len(streams) /\ Len(streams) \in Nat
      /\ streams[k].queue \in Seq(Frames)
  BY ScriptTyped
<1>2. /\ streams[k].phase = "open" /\ streams[k].queue # <<>>
      /\ shown' = Append(shown, e)
  BY DEF TakeFrame
<1>3. streams[k].session \in Sessions
  BY <1>2 DEF StreamsInv, IsLive
<1>4. f \in Frames /\ f = streams[k].queue[1]
  BY <1>1, <1>2 DEF NextFrame
<1>5. Len(streams[k].queue) \in Nat /\ Len(streams[k].queue) # 0
  BY <1>1, <1>2
<1> HIDE DEF f
<1>6. e \in Entries /\ k \in 1..Len(streams)
  BY <1>1, <1>3, <1>4 DEF Frames, Entries
<1>7. shown \in Seq(Entries)
  BY DEF WebTypes
<1> HIDE DEF e
<1>8. /\ Append(shown, e) \in Seq(Entries) /\ Len(Append(shown, e)) = Len(shown) + 1
      /\ Append(shown, e)[Len(shown) + 1] = e
      /\ \A i \in 1..Len(shown) : Append(shown, e)[i] = shown[i]
      /\ Len(shown) \in Nat
  BY <1>6, <1>7, AppendProperties
<1> QED
  BY <1>2, <1>3, <1>4, <1>5, <1>6, <1>8 DEF f, e

LEMMA RestTyped ==
    ASSUME WebTypes, StreamsInv, CallsInv, Next
    PROVE  /\ script' \in Scripts
           /\ tab'.session \in Anything /\ tab'.stream \in Nat
           /\ tab' = [session |-> tab'.session, stream |-> tab'.stream,
                      transcript |-> tab'.transcript]
           /\ shown' \in Seq(Entries)
<1>1. /\ script \in Scripts /\ shown \in Seq(Entries)
      /\ tab \in [session : Anything, stream : Nat, transcript : Shown(Chunks)]
  BY DEF WebTypes
<1>2. <<>> \in Seq(Entries) /\ Len(streams) \in Nat /\ \A i \in Slots : calls[i] \in Requests
  BY ScriptTyped
<1> DEFINE Good == /\ script' \in Scripts
                   /\ tab'.session \in Anything /\ tab'.stream \in Nat
                   /\ tab' = [session |-> tab'.session, stream |-> tab'.stream,
                              transcript |-> tab'.transcript]
                   /\ shown' \in Seq(Entries)
<1>3. ASSUME UNCHANGED <<tab, shown, script>> PROVE Good
  BY <1>1, <1>3
<1>4. ASSUME resetSessionState, UNCHANGED script PROVE Good
  <2>1. tab' = [session |-> NoSession, stream |-> 0, transcript |-> EMPTY_TRANSCRIPT]
    BY <1>4 DEF resetSessionState, NoTab
  <2> QED
    BY <1>1, <1>2, <1>4, <2>1 DEF resetSessionState, Anything
<1>5. ASSUME User PROVE Good
  <2>1. \/ resetSessionState /\ UNCHANGED script
        \/ UNCHANGED <<tab, shown, script>>
    BY <1>5 DEF User, startSession, loadSavedSession, Open, endSession, sendPrompt
  <2> QED
    BY <1>3, <1>4, <2>1
<1>6. ASSUME Daemon PROVE Good
  <2>1. UNCHANGED <<tab, shown, script>>
    BY <1>6 DEF Daemon, HandleNew, HandleLoad, HandlePrompt, Replay, LoadDone, LoadFails,
                TurnEvent, TurnEnds, Exit, Collect, Quiet
  <2> QED
    BY <1>3, <2>1
<1>7. ASSUME NEW i \in Slots, Answered(i) \/ CallFails(i) PROVE Good
  <2>1. CASE UNCHANGED tab
    BY <1>3, <1>7, <2>1 DEF Answered, CallFails
  <2>2. CASE attachStream(calls[i]) /\ Answered(i)
    <3>1. /\ tab' = [tab EXCEPT !.session = calls[i].session, !.stream = Len(streams) + 1]
          /\ UNCHANGED <<shown, script>>
      BY <2>2 DEF attachStream, Answered
    <3>2. calls[i].session \in Anything
      BY <1>2 DEF Requests
    <3>3. Len(streams) + 1 \in Nat
      BY <1>2
    <3>4. tab' \in [session : Anything, stream : Nat, transcript : Shown(Chunks)]
      BY <1>1, <3>1, <3>2, <3>3
    <3> QED
      BY <1>1, <3>1, <3>4
  <2> QED
    BY <1>7, <2>1, <2>2 DEF Answered, CallFails
<1>8. ASSUME NEW k \in DOMAIN streams, handleEvents(k) \/ TakeFinal(k) \/ StreamBreaks(k) PROVE Good
  BY <1>3, <1>8 DEF handleEvents, TakeFinal, StreamBreaks, Quiet
<1>9. ASSUME NEW k \in DOMAIN streams, TakeFrame(k) PROVE Good
  <2>1. shown' \in Seq(Entries)
    BY <1>9, FrameTyped
  <2>2. /\ UNCHANGED script
        /\ \E x : tab' = [tab EXCEPT !.transcript = x]
    BY <1>9 DEF TakeFrame
  <2>3. PICK x : tab' = [tab EXCEPT !.transcript = x]
    BY <2>2
  <2> QED
    BY <1>1, <2>1, <2>2, <2>3
<1> QED
  BY <1>5, <1>6, <1>7, <1>8, <1>9 DEF Next, Take

-----------------------------------------------------------------------------
(* The calls.                                                              *)

\* What a Post leaves of the calls.
LEMMA Posted ==
    ASSUME WebTypes, NEW kind \in {"new", "load", "prompt"}, NEW s \in Anything, Post(kind, s)
    PROVE  \E i \in Slots :
              /\ calls[i] = NoCall
              /\ calls'[i].kind = kind /\ calls'[i].session = s /\ calls'[i].at = "sent"
              /\ \A j \in Slots : j # i =>
                    /\ calls'[j].kind = calls[j].kind /\ calls'[j].session = calls[j].session
                    /\ calls'[j].at = calls[j].at
                    /\ calls[j].crossed => calls'[j].crossed
                    /\ kind # "prompt" /\ Opening(j) => calls'[j].crossed /\ calls'[i].crossed
<1> DEFINE others == IF kind = "prompt" THEN {} ELSE {j \in Slots : Opening(j)}
<1>1. PICK i \in Slots :
         /\ calls[i] = NoCall
         /\ calls' = [j \in Slots |->
               IF j = i THEN [kind |-> kind, session |-> s, at |-> "sent",
                              crossed |-> others # {}]
               ELSE IF j \in others THEN [calls[j] EXCEPT !.crossed = TRUE]
               ELSE calls[j]]
  BY DEF Post
<1>2. \A j \in Slots : kind # "prompt" /\ Opening(j) => j \in others
  OBVIOUS
<1> HIDE DEF others
<1>3. \A j \in Slots : calls[j] \in Requests
  BY ScriptTyped
<1>4. calls'[i].kind = kind /\ calls'[i].session = s /\ calls'[i].at = "sent"
  BY <1>1
<1>5. ASSUME NEW j \in Slots, j # i
      PROVE  /\ calls'[j].kind = calls[j].kind /\ calls'[j].session = calls[j].session
             /\ calls'[j].at = calls[j].at
             /\ calls[j].crossed => calls'[j].crossed
             /\ kind # "prompt" /\ Opening(j) => calls'[j].crossed /\ calls'[i].crossed
  <2>1. CASE j \in others
    <3>1. calls'[j] = [calls[j] EXCEPT !.crossed = TRUE]
      BY <1>1, <1>5, <2>1
    <3>2. calls'[i].crossed
      BY <1>1, <2>1
    <3> QED
      BY <1>3, <3>1, <3>2 DEF Requests
  <2>2. CASE j \notin others
    <3>1. calls'[j] = calls[j]
      BY <1>1, <1>5, <2>2
    <3> QED
      BY <1>2, <2>2, <3>1
  <2> QED
    BY <2>1, <2>2
<1> QED
  BY <1>1, <1>4, <1>5

\* The calls of a step that posts none: each is as it was, has gone, or is
\* further on.
Forward(i) ==
    \/ calls'[i] = calls[i]
    \/ calls'[i] = NoCall
    \/ /\ Opening(i) /\ calls'[i].kind = calls[i].kind /\ calls'[i].crossed = calls[i].crossed
       /\ calls'[i].at = "refused" => calls'[i].session = calls[i].session
       /\ calls'[i].at = "handled" => calls'[i].session = calls[i].session
       /\ calls'[i].at \in {"refused", "handled", "done"}
       /\ calls'[i].at = "done" => calls'[i].session \in Sessions

LEMMA CallsForward ==
    ASSUME WebTypes, CallsInv, Next
    PROVE  \/ \E kind \in {"new", "load", "prompt"}, s \in Anything :
                /\ Post(kind, s)
                /\ kind # "new" => s \in Sessions
                /\ kind = "prompt" => UNCHANGED <<tab, streams>>
                /\ kind # "prompt" => resetSessionState
           \/ \A i \in Slots : Forward(i)
<1>1. /\ calls \in [Slots -> Requests]
      /\ \A i \in Slots : calls[i] \in Requests
      /\ tab.session \in Anything
  <2>1. \A i \in Slots : calls[i] \in Requests
    BY ScriptTyped
  <2> QED
    BY <2>1 DEF WebTypes
<1>2. UNCHANGED calls => \A i \in Slots : Forward(i)
  BY DEF Forward
<1>3. \A i \in Slots : calls' = [calls EXCEPT ![i] = NoCall] => \A j \in Slots : Forward(j)
  BY <1>1 DEF Forward
<1>4. ASSUME NEW i \in Slots, Opening(i), Refuse(i) PROVE \A j \in Slots : Forward(j)
  BY <1>1, <1>4 DEF Forward, Refuse, Requests
<1>5. ASSUME NEW s \in Sessions, NEW how \in {"done", "refused"}, AnswerLoad(s, how)
      PROVE  \A i \in Slots : Forward(i)
  <2> SUFFICES ASSUME NEW i \in Slots PROVE Forward(i)
    OBVIOUS
  <2>1. CASE calls[i].session = s /\ calls[i].at = "handled"
    <3>1. calls'[i] = [calls[i] EXCEPT !.at = how]
      BY <1>5, <2>1 DEF AnswerLoad
    <3>2. Opening(i)
      BY <2>1 DEF CallsInv
    <3> QED
      BY <1>1, <2>1, <3>1, <3>2 DEF Forward, Requests
  <2>2. CASE ~(calls[i].session = s /\ calls[i].at = "handled")
    BY <1>5, <2>2 DEF AnswerLoad, Forward
  <2> QED
    BY <2>1, <2>2
<1>6. CASE User
  <2>1. CASE startSession
    BY <2>1 DEF startSession, Open, Anything
  <2>2. ASSUME NEW s \in Sessions, loadSavedSession(s)
        PROVE  resetSessionState /\ Post("load", s) /\ s \in Anything
    BY <2>2 DEF loadSavedSession, Open, Anything
  <2>3. CASE endSession
    BY <1>2, <2>3 DEF endSession
  <2>4. CASE sendPrompt
    <3>1. Post("prompt", tab.session) /\ tab.session \in Sessions /\ UNCHANGED <<tab, streams>>
      BY <1>1, <2>4 DEF sendPrompt, Anything
    <3> QED
      BY <1>1, <3>1
  <2> QED
    BY <1>6, <2>1, <2>2, <2>3, <2>4 DEF User
<1>7. ASSUME NEW i \in Slots, HandleNew(i) PROVE \A j \in Slots : Forward(j)
  <2>1. Opening(i) /\ calls[i].kind = "new"
    BY <1>7 DEF HandleNew, Opening
  <2>2. CASE Refuse(i)
    BY <1>4, <2>1, <2>2
  <2>3. CASE ~Refuse(i)
    <3>1. PICK s \in Sessions : calls' = [calls EXCEPT ![i].session = s, ![i].at = "done"]
      BY <1>7, <2>3 DEF HandleNew
    <3>2. calls'[i] = [calls[i] EXCEPT !.session = s, !.at = "done"]
      BY <1>1, <3>1
    <3>3. Forward(i)
      BY <1>1, <2>1, <3>2 DEF Forward, Requests
    <3>4. \A j \in Slots : j # i => Forward(j)
      BY <1>1, <3>1 DEF Forward
    <3> QED
      BY <3>3, <3>4
  <2> QED
    BY <2>2, <2>3
<1>8. ASSUME NEW i \in Slots, HandleLoad(i) PROVE \A j \in Slots : Forward(j)
  <2>1. Opening(i) /\ calls[i].kind = "load" /\ (Refuse(i) \/ calls' = [calls EXCEPT ![i].at = "handled"])
    BY <1>8 DEF HandleLoad, Opening
  <2>2. CASE Refuse(i)
    BY <1>4, <2>1, <2>2
  <2>3. CASE calls' = [calls EXCEPT ![i].at = "handled"]
    BY <1>1, <2>1, <2>3 DEF Forward, Requests
  <2> QED
    BY <2>1, <2>2, <2>3
<1>9. ASSUME Daemon PROVE \A j \in Slots : Forward(j)
  <2>1. ASSUME NEW i \in Slots, HandlePrompt(i) PROVE \A j \in Slots : Forward(j)
    BY <1>3, <2>1 DEF HandlePrompt
  <2>2. ASSUME NEW s \in Sessions, LoadDone(s) PROVE \A j \in Slots : Forward(j)
    BY <1>5, <2>2 DEF LoadDone
  <2>3. ASSUME NEW s \in Sessions, LoadFails(s) PROVE \A j \in Slots : Forward(j)
    BY <1>5, <2>3 DEF LoadFails
  <2>4. ASSUME NEW s \in Sessions, Replay(s) \/ TurnEvent(s) \/ TurnEnds(s) \/ Exit(s) \/ Collect(s)
        PROVE  \A j \in Slots : Forward(j)
    BY <1>2, <2>4 DEF Replay, TurnEvent, TurnEnds, Exit, Collect
  <2> QED
    BY <1>7, <1>8, <1>9, <2>1, <2>2, <2>3, <2>4 DEF Daemon
<1>10. ASSUME NEW i \in Slots, Answered(i) \/ CallFails(i) PROVE \A j \in Slots : Forward(j)
  BY <1>3, <1>10 DEF Answered, CallFails
<1>11. ASSUME NEW k \in DOMAIN streams, handleEvents(k) \/ Take(k) \/ StreamBreaks(k)
       PROVE  \A j \in Slots : Forward(j)
  BY <1>2, <1>11 DEF handleEvents, Take, TakeFrame, TakeFinal, StreamBreaks
<1> QED
  BY <1>6, <1>9, <1>10, <1>11 DEF Next

LEMMA CallsKept ==
    ASSUME WebTypes, CallsInv, Next
    PROVE  CallsInv'
<1>1. CASE \A i \in Slots : Forward(i)
  <2>1. \A i \in Slots : Opening(i)' => Opening(i) /\ calls'[i].crossed = calls[i].crossed
    BY <1>1 DEF Forward, Opening, NoCall
  <2>2. \A i \in Slots :
           /\ calls'[i].kind \in {"load", "prompt"} \/ calls'[i].at = "done"
                 => calls'[i].session \in Sessions
           /\ calls'[i].at \in {"handled", "done"} => Opening(i)'
    BY <1>1 DEF Forward, CallsInv, Opening, NoCall
  <2> QED
    BY <2>1, <2>2 DEF CallsInv
<1>2. ASSUME NEW kind \in {"new", "load", "prompt"}, NEW s \in Anything, Post(kind, s),
             kind # "new" => s \in Sessions
      PROVE  CallsInv'
  <2>1. PICK i \in Slots :
              /\ calls[i] = NoCall
              /\ calls'[i].kind = kind /\ calls'[i].session = s /\ calls'[i].at = "sent"
              /\ \A j \in Slots : j # i =>
                    /\ calls'[j].kind = calls[j].kind /\ calls'[j].session = calls[j].session
                    /\ calls'[j].at = calls[j].at
                    /\ calls[j].crossed => calls'[j].crossed
                    /\ kind # "prompt" /\ Opening(j) => calls'[j].crossed /\ calls'[i].crossed
    BY <1>2, Posted
  <2>2. \A j \in Slots : j # i => (Opening(j)' <=> Opening(j))
    BY <2>1 DEF Opening
  <2>3. Opening(i)' <=> kind # "prompt"
    BY <2>1 DEF Opening
  <2>4. ASSUME NEW j \in Slots
        PROVE  /\ calls'[j].kind \in {"load", "prompt"} \/ calls'[j].at = "done"
                     => calls'[j].session \in Sessions
               /\ calls'[j].at \in {"handled", "done"} => Opening(j)'
    <3>1. CASE j = i
      BY <1>2, <2>1, <3>1
    <3>2. CASE j # i
      BY <2>1, <2>2, <3>2 DEF CallsInv
    <3> QED
      BY <3>1, <3>2
  <2>5. ASSUME NEW j \in Slots, NEW k \in Slots, j # k, Opening(j)', Opening(k)'
        PROVE  calls'[j].crossed
    <3>1. CASE j = i
      BY <2>1, <2>2, <2>3, <2>5, <3>1
    <3>2. CASE k = i
      BY <2>1, <2>2, <2>3, <2>5, <3>2
    <3>3. CASE j # i /\ k # i
      BY <2>1, <2>2, <2>5, <3>3 DEF CallsInv
    <3> QED
      BY <3>1, <3>2, <3>3
  <2> QED
    BY <2>4, <2>5 DEF CallsInv
<1> QED
  BY <1>1, <1>2, CallsForward

-----------------------------------------------------------------------------
(* The streams.                                                            *)

\* A step that neither leaves nor enters a session: each stream stays of its
\* session, and none comes back to life.
Goes ==
    /\ tab'.session = tab.session /\ tab'.stream = tab.stream
    /\ Len(streams') = Len(streams) /\ DOMAIN streams' = DOMAIN streams
    /\ \A k \in DOMAIN streams :
          /\ streams'[k].session = streams[k].session
          /\ streams'[k].crossed = streams[k].crossed
          /\ IsLive(k)' => IsLive(k)
    /\ UNCHANGED shown \/ \E k \in DOMAIN streams : TakeFrame(k)

\* A step that changes one stream.
LEMMA OneChanges ==
    ASSUME WebTypes, NEW k \in DOMAIN streams, NEW x, streams' = [streams EXCEPT ![k] = x]
    PROVE  /\ Len(streams') = Len(streams) /\ DOMAIN streams' = DOMAIN streams
           /\ streams'[k] = x /\ \A j \in DOMAIN streams : j # k => streams'[j] = streams[j]
<1>1. /\ streams \in Seq(Subscriptions) /\ Len(streams) \in Nat /\ DOMAIN streams = 1..Len(streams)
  BY ScriptTyped
<1>2. \A j \in DOMAIN streams : j # k => streams'[j] = streams[j]
  BY <1>1
<1>3. streams'[k] = x /\ DOMAIN streams' = DOMAIN streams
  BY <1>1
<1>4. Len(streams') = Len(streams)
  BY <1>1
<1> QED
  BY <1>2, <1>3, <1>4

\* What a push or the end of a cursor makes of each stream.
LEMMA Pushed ==
    ASSUME WebTypes, NEW s \in Sessions, NEW n, Push(s, n)
    PROVE  LET f == [id |-> Len(daemon[s].pushed) + 1, event |-> n] IN
           /\ Len(streams') = Len(streams) /\ DOMAIN streams' = DOMAIN streams
           /\ \A k \in DOMAIN streams :
                 /\ ~IsAttached(k, s) => streams'[k] = streams[k]
                 /\ IsAttached(k, s) =>
                       /\ streams'[k].queue = Append(streams[k].queue, f)
                       /\ streams'[k].session = streams[k].session
                       /\ streams'[k].phase = streams[k].phase
                       /\ streams'[k].final = streams[k].final
                       /\ streams'[k].crossed = streams[k].crossed
<1> DEFINE f == [id |-> Len(daemon[s].pushed) + 1, event |-> n]
<1>1. /\ streams \in Seq(Subscriptions) /\ Len(streams) \in Nat /\ DOMAIN streams = 1..Len(streams)
      /\ \A k \in DOMAIN streams : streams[k] \in Subscriptions
  BY ScriptTyped
<1>2. streams' = [k \in DOMAIN streams |->
                     IF IsAttached(k, s)
                     THEN [streams[k] EXCEPT !.queue = Append(@, f)] ELSE streams[k]]
  BY DEF Push
<1> HIDE DEF f
<1>3. DOMAIN streams' = DOMAIN streams /\ Len(streams') = Len(streams)
  BY <1>1, <1>2
<1>4. ASSUME NEW k \in DOMAIN streams
      PROVE  /\ ~IsAttached(k, s) => streams'[k] = streams[k]
             /\ IsAttached(k, s) =>
                   /\ streams'[k].queue = Append(streams[k].queue, f)
                   /\ streams'[k].session = streams[k].session
                   /\ streams'[k].phase = streams[k].phase
                   /\ streams'[k].final = streams[k].final
                   /\ streams'[k].crossed = streams[k].crossed
  BY <1>1, <1>2 DEF Subscriptions
<1> QED
  BY <1>3, <1>4 DEF f

LEMMA Ended ==
    ASSUME WebTypes, NEW s \in Sessions, NEW final, EndStreams(s, final)
    PROVE  /\ Len(streams') = Len(streams) /\ DOMAIN streams' = DOMAIN streams
           /\ \A k \in DOMAIN streams :
                 /\ ~IsAttached(k, s) => streams'[k] = streams[k]
                 /\ IsAttached(k, s) =>
                       /\ streams'[k].queue = streams[k].queue
                       /\ streams'[k].session = streams[k].session
                       /\ streams'[k].phase = streams[k].phase
                       /\ streams'[k].final = final
                       /\ streams'[k].crossed = streams[k].crossed
<1>1. /\ streams \in Seq(Subscriptions) /\ Len(streams) \in Nat /\ DOMAIN streams = 1..Len(streams)
      /\ \A k \in DOMAIN streams : streams[k] \in Subscriptions
  BY ScriptTyped
<1>2. streams' = [k \in DOMAIN streams |->
                     IF IsAttached(k, s) THEN [streams[k] EXCEPT !.final = final]
                     ELSE streams[k]]
  BY DEF EndStreams
<1>3. DOMAIN streams' = DOMAIN streams /\ Len(streams') = Len(streams)
  BY <1>1, <1>2
<1>4. ASSUME NEW k \in DOMAIN streams
      PROVE  /\ ~IsAttached(k, s) => streams'[k] = streams[k]
             /\ IsAttached(k, s) =>
                   /\ streams'[k].queue = streams[k].queue
                   /\ streams'[k].session = streams[k].session
                   /\ streams'[k].phase = streams[k].phase
                   /\ streams'[k].final = final
                   /\ streams'[k].crossed = streams[k].crossed
  BY <1>1, <1>2 DEF Subscriptions
<1> QED
  BY <1>3, <1>4

\* What handling a subscription, taking from a stream and a break make of it.
LEMMA StreamSteps ==
    ASSUME WebTypes, NEW k \in DOMAIN streams
    PROVE  /\ handleEvents(k) =>
                 /\ streams[k].phase = "connecting"
                 /\ \E x : /\ streams' = [streams EXCEPT ![k] = x]
                           /\ x.session = streams[k].session /\ x.crossed = streams[k].crossed
                           /\ x.phase = "open"
                           /\ \/ x.queue = streams[k].queue /\ x.final # "none"
                              \/ /\ x.queue = Buffered(streams[k].session)
                                 /\ x.final = "none" =>
                                       daemon[streams[k].session].life \in {"loading", "alive"}
           /\ TakeFrame(k) =>
                 \E x : /\ streams' = [streams EXCEPT ![k] = x]
                        /\ x.session = streams[k].session /\ x.crossed = streams[k].crossed
                        /\ x.phase = streams[k].phase /\ x.final = streams[k].final
                        /\ x.queue = Tail(streams[k].queue)
           /\ TakeFinal(k) \/ StreamBreaks(k) =>
                 \E x : /\ streams' = [streams EXCEPT ![k] = x]
                        /\ x.session = streams[k].session /\ x.crossed = streams[k].crossed
                        /\ x.phase = "over" /\ x.queue = <<>>
<1>1. streams[k] \in Subscriptions
  BY ScriptTyped
<1>2. ASSUME handleEvents(k)
      PROVE  /\ streams[k].phase = "connecting"
             /\ \E x : /\ streams' = [streams EXCEPT ![k] = x]
                       /\ x.session = streams[k].session /\ x.crossed = streams[k].crossed
                       /\ x.phase = "open"
                       /\ \/ x.queue = streams[k].queue /\ x.final # "none"
                          \/ /\ x.queue = Buffered(streams[k].session)
                             /\ x.final = "none" =>
                                   daemon[streams[k].session].life \in {"loading", "alive"}
  <2> DEFINE s    == streams[k].session
             open == [streams[k] EXCEPT !.phase = "open"]
             full == [open EXCEPT !.queue = Buffered(s),
                                  !.final = IF daemon[s].life = "over" THEN "terminated" ELSE "none"]
  <2>1. \/ streams' = [streams EXCEPT ![k] = [open EXCEPT !.final = "gone"]]
        \/ streams' = [streams EXCEPT ![k] = [open EXCEPT !.final = "lost"]]
        \/ streams' = [streams EXCEPT ![k] = full] /\ daemon[s].life \in {"loading", "alive", "over"}
    BY <1>2 DEF handleEvents
  <2>2. streams[k].phase = "connecting"
    BY <1>2 DEF handleEvents
  <2>3. \A end \in {"gone", "lost"} :
           LET x == [open EXCEPT !.final = end] IN
           /\ x.session = s /\ x.crossed = streams[k].crossed
           /\ x.phase = "open" /\ x.queue = streams[k].queue /\ x.final # "none"
    BY <1>1 DEF Subscriptions
  <2>4. /\ full.session = s /\ full.crossed = streams[k].crossed /\ full.phase = "open"
        /\ full.queue = Buffered(s)
        /\ full.final = "none" => daemon[s].life # "over"
    BY <1>1 DEF Subscriptions
  <2>5. CASE \E end \in {"gone", "lost"} : streams' = [streams EXCEPT ![k] = [open EXCEPT !.final = end]]
    <3>1. PICK end \in {"gone", "lost"} : streams' = [streams EXCEPT ![k] = [open EXCEPT !.final = end]]
      BY <2>5
    <3> DEFINE x == [open EXCEPT !.final = end]
    <3>2. /\ x.session = s /\ x.crossed = streams[k].crossed
          /\ x.phase = "open" /\ x.queue = streams[k].queue /\ x.final # "none"
      BY <2>3
    <3>3. streams' = [streams EXCEPT ![k] = x]
      BY <3>1
    <3> HIDE DEF x
    <3> QED
      BY <2>2, <3>2, <3>3
  <2>6. CASE streams' = [streams EXCEPT ![k] = full] /\ daemon[s].life \in {"loading", "alive", "over"}
    <3> HIDE DEF full
    <3> QED
      BY <2>2, <2>4, <2>6
  <2> QED
    BY <2>1, <2>5, <2>6
<1>3. ASSUME TakeFrame(k)
      PROVE  \E x : /\ streams' = [streams EXCEPT ![k] = x]
                    /\ x.session = streams[k].session /\ x.crossed = streams[k].crossed
                    /\ x.phase = streams[k].phase /\ x.final = streams[k].final
                    /\ x.queue = Tail(streams[k].queue)
  <2> DEFINE x == [streams[k] EXCEPT !.queue = Tail(@)]
  <2>1. streams' = [streams EXCEPT ![k] = x]
    BY <1>3 DEF TakeFrame
  <2>2. /\ x.session = streams[k].session /\ x.crossed = streams[k].crossed
        /\ x.phase = streams[k].phase /\ x.final = streams[k].final
        /\ x.queue = Tail(streams[k].queue)
    BY <1>1 DEF Subscriptions
  <2> HIDE DEF x
  <2> QED
    BY <2>1, <2>2
<1>4. ASSUME TakeFinal(k) \/ StreamBreaks(k)
      PROVE  \E x : /\ streams' = [streams EXCEPT ![k] = x]
                    /\ x.session = streams[k].session /\ x.crossed = streams[k].crossed
                    /\ x.phase = "over" /\ x.queue = <<>>
  <2>1. PICK end : streams' = [streams EXCEPT ![k] = Over(@, end)]
    BY <1>4 DEF TakeFinal, StreamBreaks
  <2> DEFINE x == Over(streams[k], end)
  <2>2. streams' = [streams EXCEPT ![k] = x]
    BY <2>1
  <2>3. /\ x.session = streams[k].session /\ x.crossed = streams[k].crossed
        /\ x.phase = "over" /\ x.queue = <<>>
    BY <1>1 DEF Over, Subscriptions
  <2> HIDE DEF x
  <2> QED
    BY <2>2, <2>3
<1> QED
  BY <1>2, <1>3, <1>4

\* Leaving a session: its stream is shut for good.
LEMMA Left ==
    ASSUME WebTypes, StreamsInv, resetSessionState
    PROVE  /\ tab'.stream = 0 /\ tab'.session = NoSession /\ tab'.transcript = EMPTY_TRANSCRIPT
           /\ shown' = <<>>
           /\ Len(streams') = Len(streams) /\ DOMAIN streams' = DOMAIN streams
           /\ \A k \in DOMAIN streams :
                 /\ k # tab.stream => streams'[k] = streams[k]
                 /\ k = tab.stream => streams'[k].phase = "over"
<1>1. streams \in Seq(Subscriptions) /\ DOMAIN streams = 1..Len(streams) /\ Len(streams) \in Nat
  BY ScriptTyped
<1>2. tab.stream \in 0..Len(streams)
  BY DEF StreamsInv
<1>3. tab' = NoTab /\ shown' = <<>>
  BY DEF resetSessionState
<1>4. CASE tab.stream = 0
  BY <1>1, <1>3, <1>4 DEF resetSessionState, NoTab
<1>5. CASE tab.stream # 0
  <2> DEFINE k == tab.stream
             x == [Over(streams[k], "aborted") EXCEPT !.crossed = FALSE, !.session = NoSession]
  <2>1. k \in DOMAIN streams
    BY <1>1, <1>2, <1>5
  <2>2. streams' = [streams EXCEPT ![k] = x]
    BY <1>1, <1>5 DEF resetSessionState
  <2>3. streams[k] \in Subscriptions
    BY <2>1, ScriptTyped
  <2>4. x.phase = "over"
    BY <2>3 DEF Subscriptions, Over
  <2> HIDE DEF x, k
  <2>5. /\ Len(streams') = Len(streams) /\ DOMAIN streams' = DOMAIN streams
        /\ streams'[k] = x /\ \A j \in DOMAIN streams : j # k => streams'[j] = streams[j]
    BY <2>1, <2>2, OneChanges
  <2> QED
    BY <1>3, <2>4, <2>5 DEF k, NoTab
<1> QED
  BY <1>4, <1>5

\* The tab's side of every step.
LEMMA TabSteps ==
    ASSUME WebTypes, StreamsInv, Next
    PROVE  \/ resetSessionState
           \/ \E i \in Slots :
                 /\ calls[i].at = "done" /\ attachStream(calls[i])
                 /\ calls' = [calls EXCEPT ![i] = NoCall] /\ UNCHANGED <<shown, daemon, script>>
           \/ Goes
<1>1. UNCHANGED <<tab, streams, shown>> => Goes
  BY DEF Goes, IsLive
<1>2. CASE User
  BY <1>1, <1>2 DEF User, startSession, loadSavedSession, Open, endSession, sendPrompt
<1>3. ASSUME NEW s \in Sessions, NEW n, Push(s, n), UNCHANGED <<tab, shown>> PROVE Goes
  BY <1>3, Pushed DEF Goes, IsLive
<1>4. ASSUME NEW s \in Sessions, NEW final, EndStreams(s, final), UNCHANGED <<tab, shown>> PROVE Goes
  BY <1>4, Ended DEF Goes, IsLive
<1>5. CASE Daemon
  <2>1. ASSUME NEW i \in Slots, HandleNew(i) \/ HandleLoad(i) \/ HandlePrompt(i) PROVE Goes
    BY <1>1, <2>1 DEF HandleNew, HandleLoad, HandlePrompt, Quiet
  <2>2. ASSUME NEW s \in Sessions, Replay(s) PROVE Goes
    BY <1>3, <2>2 DEF Replay, Quiet
  <2>3. ASSUME NEW s \in Sessions, TurnEvent(s) PROVE Goes
    BY <1>1, <1>3, <2>3 DEF TurnEvent, Quiet
  <2>4. ASSUME NEW s \in Sessions, LoadFails(s) \/ Exit(s) PROVE Goes
    BY <1>4, <2>4 DEF LoadFails, Exit, Quiet
  <2>5. ASSUME NEW s \in Sessions, LoadDone(s) \/ TurnEnds(s) \/ Collect(s) PROVE Goes
    BY <1>1, <2>5 DEF LoadDone, TurnEnds, Collect, Quiet
  <2> QED
    BY <1>5, <2>1, <2>2, <2>3, <2>4, <2>5 DEF Daemon
<1>6. ASSUME NEW i \in Slots, Answered(i) \/ CallFails(i)
      PROVE  \/ /\ calls[i].at = "done" /\ attachStream(calls[i])
                /\ calls' = [calls EXCEPT ![i] = NoCall] /\ UNCHANGED <<shown, daemon, script>>
             \/ Goes
  BY <1>1, <1>6 DEF Answered, CallFails
<1>7. ASSUME NEW k \in DOMAIN streams, NEW x, streams' = [streams EXCEPT ![k] = x],
             x.session = streams[k].session, x.crossed = streams[k].crossed,
             x.phase # "over" => IsLive(k),
             tab'.session = tab.session, tab'.stream = tab.stream,
             UNCHANGED shown \/ TakeFrame(k)
      PROVE  Goes
  BY <1>7, OneChanges DEF Goes, IsLive
<1>8. ASSUME NEW k \in DOMAIN streams, handleEvents(k) PROVE Goes
  <2>1. PICK x : /\ streams' = [streams EXCEPT ![k] = x]
                 /\ x.session = streams[k].session /\ x.crossed = streams[k].crossed
    BY <1>8, StreamSteps
  <2>2. IsLive(k)
    BY <1>8 DEF handleEvents, IsLive
  <2>3. UNCHANGED <<tab, shown>>
    BY <1>8 DEF handleEvents, Quiet
  <2> QED
    BY <1>7, <2>1, <2>2, <2>3
<1>9. ASSUME NEW k \in DOMAIN streams, TakeFrame(k) PROVE Goes
  <2>1. PICK x : /\ streams' = [streams EXCEPT ![k] = x]
                 /\ x.session = streams[k].session /\ x.crossed = streams[k].crossed
    BY <1>9, StreamSteps
  <2>2. IsLive(k)
    BY <1>9 DEF TakeFrame, IsLive
  <2>3. PICK t : tab' = [tab EXCEPT !.transcript = t]
    BY <1>9 DEF TakeFrame
  <2>4. tab'.session = tab.session /\ tab'.stream = tab.stream
    BY <2>3 DEF WebTypes
  <2> QED
    BY <1>7, <1>9, <2>1, <2>2, <2>4
<1>10. ASSUME NEW k \in DOMAIN streams, TakeFinal(k) \/ StreamBreaks(k) PROVE Goes
  <2>1. PICK x : /\ streams' = [streams EXCEPT ![k] = x]
                 /\ x.session = streams[k].session /\ x.crossed = streams[k].crossed
                 /\ x.phase = "over"
    BY <1>10, StreamSteps
  <2>2. UNCHANGED <<tab, shown>>
    BY <1>10 DEF TakeFinal, StreamBreaks
  <2> QED
    BY <1>7, <2>1, <2>2
<1> QED
  BY <1>2, <1>5, <1>6, <1>8, <1>9, <1>10 DEF Next, Take

\* What an answer makes of the tab and its streams.
LEMMA Attached ==
    ASSUME WebTypes, CallsInv, NEW i \in Slots, calls[i].at = "done", attachStream(calls[i])
    PROVE  LET n == Len(streams) + 1 IN
           /\ tab'.session = calls[i].session /\ tab'.stream = n
           /\ tab'.transcript = tab.transcript
           /\ Len(streams') = n /\ DOMAIN streams' = DOMAIN streams \cup {n}
           /\ n \notin DOMAIN streams /\ n \in Nat /\ n # 0
           /\ \A k \in DOMAIN streams : streams'[k] = streams[k]
           /\ streams'[n].session = calls[i].session /\ streams'[n].phase = "connecting"
           /\ streams'[n].queue = <<>> /\ streams'[n].crossed = calls[i].crossed
           /\ calls[i].session \in Sessions /\ Opening(i)
<1> DEFINE x == [session |-> calls[i].session, phase |-> "connecting", queue |-> <<>>,
                 final |-> "none", crossed |-> calls[i].crossed]
<1>1. streams' = Append(streams, x)
  BY DEF attachStream
<1>2. /\ streams \in Seq(Subscriptions) /\ Len(streams) \in Nat /\ DOMAIN streams = 1..Len(streams)
      /\ calls[i] \in Requests
  BY ScriptTyped
<1>3. tab' = [tab EXCEPT !.session = calls[i].session, !.stream = Len(streams) + 1]
  BY DEF attachStream
<1>4. tab'.session = calls[i].session /\ tab'.stream = Len(streams) + 1 /\ tab'.transcript = tab.transcript
  BY <1>3 DEF WebTypes
<1>5. x \in Subscriptions
  <2>1. <<>> \in Seq(Frames)
    OBVIOUS
  <2> QED
    BY <1>2, <2>1 DEF Subscriptions, Requests
<1>6. /\ x.session = calls[i].session /\ x.phase = "connecting" /\ x.queue = <<>>
      /\ x.crossed = calls[i].crossed
  OBVIOUS
<1> HIDE DEF x
<1>7. /\ Append(streams, x) \in Seq(Subscriptions) /\ Len(Append(streams, x)) = Len(streams) + 1
      /\ Append(streams, x)[Len(streams) + 1] = x
      /\ \A k \in 1..Len(streams) : Append(streams, x)[k] = streams[k]
  BY <1>2, <1>5, AppendProperties
<1>8. DOMAIN Append(streams, x) = 1..(Len(streams) + 1)
  BY <1>7
<1>9. /\ 1..(Len(streams) + 1) = 1..Len(streams) \cup {Len(streams) + 1}
      /\ Len(streams) + 1 \notin 1..Len(streams) /\ Len(streams) + 1 # 0 /\ Len(streams) + 1 \in Nat
  BY <1>2
<1>10. calls[i].session \in Sessions /\ Opening(i)
  BY DEF CallsInv
<1> QED
  BY <1>1, <1>2, <1>4, <1>6, <1>7, <1>8, <1>9, <1>10

LEMMA StreamsKept ==
    ASSUME WebTypes, CallsInv, StreamsInv, Next
    PROVE  StreamsInv'
<1>1. /\ Len(streams) \in Nat /\ DOMAIN streams = 1..Len(streams)
      /\ tab.stream \in 0..Len(streams)
      /\ \A i \in Slots : calls[i] \in Requests
  BY ScriptTyped DEF StreamsInv
<1>2. CASE resetSessionState
  <2>1. /\ tab'.stream = 0 /\ Len(streams') = Len(streams) /\ DOMAIN streams' = DOMAIN streams
        /\ \A k \in DOMAIN streams :
              /\ k # tab.stream => streams'[k] = streams[k]
              /\ k = tab.stream => streams'[k].phase = "over"
    BY <1>2, Left
  <2>2. ASSUME NEW k \in DOMAIN streams', IsLive(k)'
        PROVE  streams'[k].session \in Sessions /\ streams'[k].crossed
    <3>1. k \in DOMAIN streams /\ k # tab.stream
      BY <2>1, <2>2 DEF IsLive
    <3>2. streams'[k] = streams[k]
      BY <2>1, <3>1
    <3> QED
      BY <2>2, <3>1, <3>2 DEF StreamsInv, IsLive
  <2> QED
    BY <1>1, <2>1, <2>2 DEF StreamsInv
<1>3. ASSUME NEW i \in Slots, calls[i].at = "done", attachStream(calls[i]),
             calls' = [calls EXCEPT ![i] = NoCall]
      PROVE  StreamsInv'
  <2> DEFINE n == Len(streams) + 1
  <2>1. /\ tab'.session = calls[i].session /\ tab'.stream = n
        /\ Len(streams') = n /\ DOMAIN streams' = DOMAIN streams \cup {n}
        /\ n \notin DOMAIN streams /\ n \in Nat /\ n # 0
        /\ \A k \in DOMAIN streams : streams'[k] = streams[k]
        /\ streams'[n].session = calls[i].session
        /\ streams'[n].crossed = calls[i].crossed
        /\ calls[i].session \in Sessions /\ Opening(i)
    BY <1>3, Attached
  <2> HIDE DEF n
  <2>2. ASSUME NEW j \in Slots, Opening(j)' PROVE calls'[j].crossed /\ calls[i].crossed
    <3>1. j # i /\ calls'[j] = calls[j]
      <4>1. calls \in [Slots -> Requests]
        BY DEF WebTypes
      <4> QED
        BY <1>3, <2>2, <4>1 DEF Opening, NoCall
    <3>2. Opening(j)
      BY <2>2, <3>1 DEF Opening
    <3> QED
      BY <2>1, <3>1, <3>2 DEF CallsInv
  <2>3. ASSUME NEW k \in DOMAIN streams, IsLive(k)'
        PROVE  streams'[k].session \in Sessions /\ streams'[k].crossed
    <3>1. IsLive(k) /\ streams'[k] = streams[k]
      BY <2>1, <2>3 DEF IsLive
    <3>2. k = tab.stream => streams[k].crossed
      BY <1>1, <2>1 DEF StreamsInv
    <3> QED
      BY <3>1, <3>2 DEF StreamsInv
  <2> QED
    BY <2>1, <2>2, <2>3 DEF StreamsInv
<1>4. CASE Goes /\ ~resetSessionState
  <2>1. /\ tab'.session = tab.session /\ tab'.stream = tab.stream
        /\ Len(streams') = Len(streams) /\ DOMAIN streams' = DOMAIN streams
        /\ \A k \in DOMAIN streams :
              /\ streams'[k].session = streams[k].session
              /\ streams'[k].crossed = streams[k].crossed
              /\ IsLive(k)' => IsLive(k)
    BY <1>4 DEF Goes
  <2>2. \A i \in Slots : Opening(i)' => Opening(i) /\ (calls[i].crossed => calls'[i].crossed)
    <3>1. CASE \A i \in Slots : Forward(i)
      BY <3>1 DEF Forward, Opening, NoCall
    <3>2. ASSUME NEW kind \in {"new", "load", "prompt"}, NEW s \in Anything, Post(kind, s),
                 kind # "prompt" => resetSessionState
          PROVE  \A i \in Slots : Opening(i)' => Opening(i) /\ (calls[i].crossed => calls'[i].crossed)
      <4>1. kind = "prompt"
        BY <1>4, <3>2
      <4> QED
        BY <3>2, <4>1, Posted DEF Opening
    <3> QED
      BY <3>1, <3>2, CallsForward
  <2>3. tab.stream # 0 => tab.stream \in DOMAIN streams
    BY <1>1
  <2> QED
    BY <2>1, <2>2, <2>3 DEF StreamsInv
<1> QED
  BY <1>2, <1>3, <1>4, TabSteps

LEMMA ShownKept ==
    ASSUME WebTypes, CallsInv, StreamsInv, ShownInv, QueueInv, Next
    PROVE  ShownInv'
<1>1. /\ Len(streams) \in Nat /\ DOMAIN streams = 1..Len(streams)
      /\ tab.stream \in 0..Len(streams)
      /\ shown \in Seq(Entries)
  BY ScriptTyped DEF StreamsInv, WebTypes
<1>2. CASE resetSessionState
  <2>1. shown' = <<>>
    BY <1>2, Left
  <2>2. DOMAIN shown' = {}
    BY <2>1
  <2> QED
    BY <2>2 DEF ShownInv
<1>3. ASSUME NEW i \in Slots, calls[i].at = "done", attachStream(calls[i]), UNCHANGED shown
      PROVE  ShownInv'
  <2> DEFINE n == Len(streams) + 1
  <2>1. /\ tab'.stream = n /\ DOMAIN streams' = DOMAIN streams \cup {n} /\ n \notin DOMAIN streams
        /\ \A k \in DOMAIN streams : streams'[k] = streams[k]
        /\ Opening(i)
    BY <1>3, Attached
  <2> HIDE DEF n
  <2>2. ASSUME NEW j \in DOMAIN shown
        PROVE  /\ shown[j].stream \in DOMAIN streams'
               /\ shown[j].stream # tab'.stream
               /\ streams'[shown[j].stream].crossed
    <3>1. shown[j].stream \in DOMAIN streams
      BY DEF ShownInv
    <3>2. streams[shown[j].stream].crossed
      <4>1. CASE shown[j].stream = tab.stream
        BY <1>1, <2>1, <3>1, <4>1 DEF StreamsInv
      <4>2. CASE shown[j].stream # tab.stream
        BY <4>2 DEF ShownInv
      <4> QED
        BY <4>1, <4>2
    <3> QED
      BY <2>1, <3>1, <3>2
  <2> QED
    BY <1>3, <2>2 DEF ShownInv
<1>4. CASE Goes
  <2>1. /\ tab'.session = tab.session /\ tab'.stream = tab.stream
        /\ DOMAIN streams' = DOMAIN streams
        /\ \A k \in DOMAIN streams : streams'[k].crossed = streams[k].crossed
    BY <1>4 DEF Goes
  <2>2. CASE UNCHANGED shown
    BY <2>1, <2>2 DEF ShownInv
  <2>3. ASSUME NEW k \in DOMAIN streams, TakeFrame(k) PROVE ShownInv'
    <3> DEFINE L == Len(shown)
               f == NextFrame(k)
               e == [stream |-> k, session |-> streams[k].session, id |-> f.id, event |-> f.event]
               P == {j \in 1..L : shown[j].stream = tab.stream}
    <3>1. /\ f = streams[k].queue[1] /\ Len(streams[k].queue) \in Nat /\ Len(streams[k].queue) # 0
          /\ shown' \in Seq(Entries) /\ Len(shown') = L + 1 /\ L \in Nat
          /\ shown'[L + 1] = e
          /\ \A i \in 1..L : shown'[i] = shown[i]
      BY <2>3, FrameTyped
    <3>2. /\ e.stream = k /\ e.session = streams[k].session /\ e.id = f.id
      OBVIOUS
    <3> HIDE DEF L, f, e
    <3>3. /\ DOMAIN shown = 1..L /\ DOMAIN shown' = 1..(L + 1)
          /\ 1..(L + 1) = 1..L \cup {L + 1} /\ L + 1 \notin 1..L
      BY <1>1, <3>1 DEF L
    <3>4. ASSUME NEW i \in 1..L
          PROVE  /\ shown'[i] = shown[i]
                 /\ {j \in 1..i : shown'[j].stream = tab'.stream}
                       = {j \in 1..i : shown[j].stream = tab.stream}
      <4>1. \A j \in 1..i : j \in 1..L
        BY <3>1
      <4> QED
        BY <2>1, <3>1, <4>1
    <3>5. ASSUME NEW i \in 1..L
          PROVE  /\ shown'[i].stream \in DOMAIN streams'
                 /\ IF shown'[i].stream = tab'.stream
                    THEN /\ shown'[i].session = tab'.session
                         /\ shown'[i].id = Cardinality({j \in 1..i : shown'[j].stream = tab'.stream})
                    ELSE streams'[shown'[i].stream].crossed
      BY <2>1, <3>3, <3>4 DEF ShownInv
    <3>6. CASE k = tab.stream
      <4>1. k # 0
        BY <1>1
      <4>2. f.id = Cardinality(P) + 1
        BY <3>1, <3>6, <4>1 DEF QueueInv, InStep, Count, L
      <4>3. {j \in 1..(L + 1) : shown'[j].stream = tab'.stream} = P \cup {L + 1}
        BY <2>1, <3>1, <3>2, <3>3, <3>6
      <4>4. Cardinality(P \cup {L + 1}) = Cardinality(P) + 1
        BY <3>1, OneMore
      <4>5. streams[k].session = tab.session
        BY <3>6, <4>1 DEF StreamsInv
      <4> HIDE DEF P
      <4>6. /\ shown'[L + 1].stream = tab'.stream /\ shown'[L + 1].stream \in DOMAIN streams'
            /\ shown'[L + 1].session = tab'.session
            /\ shown'[L + 1].id = Cardinality({j \in 1..(L + 1) : shown'[j].stream = tab'.stream})
        BY <2>1, <3>1, <3>2, <3>6, <4>2, <4>3, <4>4, <4>5
      <4> QED
        BY <3>3, <3>5, <4>6 DEF ShownInv
    <3>7. CASE k # tab.stream
      <4>1. streams[k].crossed
        <5>1. IsLive(k)
          BY <2>3 DEF TakeFrame, IsLive
        <5> QED
          BY <3>7, <5>1 DEF StreamsInv
      <4>2. /\ shown'[L + 1].stream # tab'.stream /\ shown'[L + 1].stream \in DOMAIN streams'
            /\ streams'[shown'[L + 1].stream].crossed
        BY <2>1, <3>1, <3>2, <3>7, <4>1
      <4> QED
        BY <3>3, <3>5, <4>2 DEF ShownInv
    <3> QED
      BY <3>6, <3>7
  <2> QED
    BY <1>4, <2>2, <2>3 DEF Goes
<1> QED
  BY <1>2, <1>3, <1>4, TabSteps

-----------------------------------------------------------------------------
(* The processes and their cursors.                                        *)

\* A step of the daemon: one process changes, or none, and who is attached to
\* it sees the same cursor, one more frame, or the end.
LEMMA ProcessSteps ==
    ASSUME WebTypes, DaemonInv, Next
    PROVE  \/ ~Daemon /\ UNCHANGED daemon
           \/ UNCHANGED <<daemon, tab, streams, shown>>
           \/ \E s \in Sessions :
                 /\ \A x \in Sessions : x # s => daemon'[x] = daemon[x]
                 /\ daemon'[s].turn => daemon'[s].life = "alive"
                 /\ UNCHANGED <<tab, shown>>
                 /\ \/ /\ UNCHANGED streams
                       /\ \/ /\ daemon'[s].life = daemon[s].life \/ daemon'[s].life = "alive"
                             /\ daemon'[s].pushed = daemon[s].pushed
                          \/ daemon[s].life \notin {"loading", "alive"}
                    \/ \E n : /\ Push(s, n) /\ daemon'[s].life = daemon[s].life
                              /\ daemon'[s].pushed = Append(daemon[s].pushed, n)
                    \/ \E final \in {"closed", "terminated"} : EndStreams(s, final)
<1> DEFINE Good(s) ==
       /\ \A x \in Sessions : x # s => daemon'[x] = daemon[x]
       /\ daemon'[s].turn => daemon'[s].life = "alive"
       /\ UNCHANGED <<tab, shown>>
       /\ \/ /\ UNCHANGED streams
             /\ \/ /\ daemon'[s].life = daemon[s].life \/ daemon'[s].life = "alive"
                   /\ daemon'[s].pushed = daemon[s].pushed
                \/ daemon[s].life \notin {"loading", "alive"}
          \/ \E n : /\ Push(s, n) /\ daemon'[s].life = daemon[s].life
                    /\ daemon'[s].pushed = Append(daemon[s].pushed, n)
          \/ \E final \in {"closed", "terminated"} : EndStreams(s, final)
           Same == UNCHANGED <<daemon, tab, streams, shown>>
<1>1. /\ daemon \in [Sessions -> Processes] /\ calls \in [Slots -> Requests]
      /\ \A s \in Sessions : daemon[s] \in Processes
      /\ \A s \in Sessions : daemon[s].turn => daemon[s].life = "alive"
  BY DEF WebTypes, DaemonInv
<1>2. \A s \in Sessions : \A p : daemon' = [daemon EXCEPT ![s] = p] =>
         daemon'[s] = p /\ \A x \in Sessions : x # s => daemon'[x] = daemon[x]
  BY <1>1
<1>3. \A s \in Sessions : \A life, e : ~NoProcess(life, e).turn /\ NoProcess(life, e).life = life
  BY DEF NoProcess
<1>4. ASSUME NEW i \in Slots, HandleNew(i) PROVE Same \/ \E s \in Sessions : Good(s)
  <2>1. CASE Refuse(i)
    BY <1>4, <2>1 DEF Refuse, HandleNew, Quiet
  <2>2. CASE ~Refuse(i)
    <3>1. PICK s \in Sessions : daemon[s].life = "unused"
                                /\ daemon' = [daemon EXCEPT ![s] = NoProcess("alive", 0)]
      BY <1>4, <2>2 DEF HandleNew
    <3>2. UNCHANGED <<tab, shown, streams>>
      BY <1>4 DEF HandleNew, Quiet
    <3> DEFINE p == NoProcess("alive", 0)
    <3>3. ~p.turn /\ p.life = "alive"
      BY <1>3
    <3>4. daemon' = [daemon EXCEPT ![s] = p]
      BY <3>1
    <3> HIDE DEF p
    <3>5. Good(s)
      BY <1>2, <3>1, <3>2, <3>3, <3>4
    <3> QED
      BY <3>5
  <2> QED
    BY <2>1, <2>2
<1>5. ASSUME NEW i \in Slots, HandleLoad(i) PROVE Same \/ \E s \in Sessions : Good(s)
  <2> DEFINE s == calls[i].session
  <2>1. CASE Refuse(i)
    BY <1>5, <2>1 DEF Refuse, HandleLoad, Quiet
  <2>2. CASE ~Refuse(i)
    <3>1. /\ daemon[s].life \in {"saved", "over"}
          /\ daemon' = [daemon EXCEPT ![s] = [NoProcess("loading", @.events) EXCEPT !.readonly = TRUE]]
          /\ UNCHANGED <<tab, shown, streams>>
      BY <1>5, <2>2 DEF HandleLoad, Quiet
    <3>2. CASE s \in Sessions
      <4> DEFINE p == [NoProcess("loading", daemon[s].events) EXCEPT !.readonly = TRUE]
      <4>1. daemon' = [daemon EXCEPT ![s] = p]
        BY <1>1, <3>1, <3>2
      <4>2. ~p.turn /\ p.life = "loading"
        BY DEF NoProcess
      <4> HIDE DEF p, s
      <4>3. Good(s)
        BY <1>2, <3>1, <3>2, <4>1, <4>2
      <4> QED
        BY <3>2, <4>3
    <3>3. CASE s \notin Sessions
      BY <1>1, <3>1, <3>3
    <3> QED
      BY <3>2, <3>3
  <2> QED
    BY <2>1, <2>2
<1>6. ASSUME NEW i \in Slots, HandlePrompt(i) PROVE Same \/ \E s \in Sessions : Good(s)
  <2> DEFINE s     == calls[i].session
             takes == daemon[s].life = "alive" /\ ~daemon[s].readonly /\ ~daemon[s].turn
  <2>1. daemon' = [daemon EXCEPT ![s].turn = takes \/ @] /\ UNCHANGED <<tab, shown, streams>>
    BY <1>6 DEF HandlePrompt, Quiet
  <2>2. CASE s \in Sessions
    <3> DEFINE p == [daemon[s] EXCEPT !.turn = takes \/ @]
    <3>1. daemon' = [daemon EXCEPT ![s] = p]
      BY <1>1, <2>1, <2>2
    <3>2. p.life = daemon[s].life /\ p.pushed = daemon[s].pushed /\ (p.turn => takes \/ daemon[s].turn)
      BY <1>1, <2>2 DEF Processes
    <3>3. p.turn => p.life = "alive"
      BY <1>1, <2>2, <3>2
    <3> HIDE DEF p, s, takes
    <3>4. Good(s)
      BY <1>2, <2>1, <2>2, <3>1, <3>2, <3>3
    <3> QED
      BY <2>2, <3>4
  <2>3. CASE s \notin Sessions
    BY <1>1, <2>1, <2>3
  <2> QED
    BY <2>2, <2>3
<1>7. ASSUME NEW s \in Sessions, Replay(s) PROVE Good(s)
  <2> DEFINE n == Len(daemon[s].pushed) + 1
             p == [daemon[s] EXCEPT !.pushed = Append(@, n)]
  <2>1. /\ Push(s, n) /\ daemon' = [daemon EXCEPT ![s].pushed = Append(@, n)]
        /\ UNCHANGED <<tab, shown>>
    BY <1>7 DEF Replay, Quiet
  <2>2. daemon' = [daemon EXCEPT ![s] = p]
    BY <1>1, <2>1
  <2>3. p.life = daemon[s].life /\ p.turn = daemon[s].turn /\ p.pushed = Append(daemon[s].pushed, n)
    BY <1>1 DEF Processes
  <2> HIDE DEF n, p
  <2> QED
    BY <1>1, <1>2, <2>1, <2>2, <2>3
<1>8. ASSUME NEW s \in Sessions, TurnEvent(s) PROVE Good(s)
  <2> DEFINE n == daemon[s].events + 1
             p == [daemon[s] EXCEPT !.events = n]
             q == [daemon[s] EXCEPT !.events = n, !.pushed = Append(@, n)]
  <2>1. /\ \/ Push(s, n) /\ daemon' = [daemon EXCEPT ![s].events = n, ![s].pushed = Append(@, n)]
           \/ UNCHANGED streams /\ daemon' = [daemon EXCEPT ![s].events = n]
        /\ UNCHANGED <<tab, shown>>
    BY <1>8 DEF TurnEvent, Quiet
  <2>2. /\ p.life = daemon[s].life /\ p.turn = daemon[s].turn /\ p.pushed = daemon[s].pushed
        /\ q.life = daemon[s].life /\ q.turn = daemon[s].turn
        /\ q.pushed = Append(daemon[s].pushed, n)
    BY <1>1 DEF Processes
  <2>3. \/ Push(s, n) /\ daemon' = [daemon EXCEPT ![s] = q]
        \/ UNCHANGED streams /\ daemon' = [daemon EXCEPT ![s] = p]
    BY <1>1, <2>1
  <2> HIDE DEF n, p, q
  <2>4. CASE Push(s, n) /\ daemon' = [daemon EXCEPT ![s] = q]
    BY <1>1, <1>2, <2>1, <2>2, <2>4
  <2>5. CASE UNCHANGED streams /\ daemon' = [daemon EXCEPT ![s] = p]
    BY <1>1, <1>2, <2>1, <2>2, <2>5
  <2> QED
    BY <2>3, <2>4, <2>5
<1>9. ASSUME NEW s \in Sessions, LoadDone(s) PROVE Good(s)
  <2> DEFINE p == [daemon[s] EXCEPT !.life = "alive"]
  <2>1. daemon' = [daemon EXCEPT ![s] = p] /\ UNCHANGED <<tab, shown, streams>>
    BY <1>1, <1>9 DEF LoadDone, Quiet
  <2>2. p.life = "alive" /\ p.pushed = daemon[s].pushed
    BY <1>1 DEF Processes
  <2> HIDE DEF p
  <2> QED
    BY <1>2, <2>1, <2>2
<1>10. ASSUME NEW s \in Sessions, TurnEnds(s) PROVE Good(s)
  <2> DEFINE p == [daemon[s] EXCEPT !.turn = FALSE]
  <2>1. daemon' = [daemon EXCEPT ![s] = p] /\ UNCHANGED <<tab, shown, streams>>
    BY <1>1, <1>10 DEF TurnEnds, Quiet
  <2>2. p.life = daemon[s].life /\ p.pushed = daemon[s].pushed /\ ~p.turn
    BY <1>1 DEF Processes
  <2> HIDE DEF p
  <2> QED
    BY <1>2, <2>1, <2>2
<1>11. ASSUME NEW s \in Sessions, Exit(s) PROVE Good(s)
  <2> DEFINE p == [daemon[s] EXCEPT !.life = "over", !.turn = FALSE]
  <2>1. daemon' = [daemon EXCEPT ![s] = p] /\ UNCHANGED <<tab, shown>> /\ EndStreams(s, "terminated")
    BY <1>1, <1>11 DEF Exit, Quiet
  <2>2. ~p.turn
    BY <1>1 DEF Processes
  <2> HIDE DEF p
  <2> QED
    BY <1>2, <2>1, <2>2
<1>12. ASSUME NEW s \in Sessions, LoadFails(s) \/ Collect(s) PROVE Good(s)
  <2> DEFINE p == NoProcess("saved", daemon[s].events)
  <2>1. /\ daemon' = [daemon EXCEPT ![s] = p] /\ UNCHANGED <<tab, shown>>
        /\ EndStreams(s, "closed") \/ (daemon[s].life = "over" /\ UNCHANGED streams)
    BY <1>1, <1>12 DEF LoadFails, Collect, Quiet
  <2>2. ~p.turn
    BY <1>3
  <2> HIDE DEF p
  <2> QED
    BY <1>2, <2>1, <2>2
<1>13. CASE Daemon
  <2> HIDE DEF Good, Same
  <2>1. Same \/ \E s \in Sessions : Good(s)
    BY <1>4, <1>5, <1>6, <1>7, <1>8, <1>9, <1>10, <1>11, <1>12, <1>13 DEF Daemon
  <2> QED
    BY <2>1 DEF Good, Same
<1>14. CASE ~Daemon
  <2>1. UNCHANGED daemon
    BY <1>14 DEF Next, User, startSession, loadSavedSession, Open, endSession, sendPrompt,
                 Answered, CallFails, handleEvents, Take, TakeFrame, TakeFinal, StreamBreaks
  <2> QED
    BY <1>14, <2>1
<1> QED
  BY <1>13, <1>14

\* The steps that are not the daemon's, by what they do to the streams.
LEMMA TabsOwnSteps ==
    ASSUME Next, ~Daemon
    PROVE  \/ resetSessionState
           \/ \E i \in Slots : /\ calls[i].at = "done" /\ attachStream(calls[i])
                               /\ UNCHANGED shown
           \/ UNCHANGED <<tab, streams, shown>>
           \/ \E k \in DOMAIN streams :
                 \/ handleEvents(k) /\ UNCHANGED <<tab, shown>>
                 \/ TakeFrame(k)
                 \/ (TakeFinal(k) \/ StreamBreaks(k)) /\ UNCHANGED <<tab, shown>>
<1>1. CASE User
  BY <1>1 DEF User, startSession, loadSavedSession, Open, endSession, sendPrompt
<1>2. ASSUME NEW i \in Slots, Answered(i) \/ CallFails(i)
      PROVE  \/ /\ calls[i].at = "done" /\ attachStream(calls[i])
                /\ UNCHANGED shown
             \/ UNCHANGED <<tab, streams, shown>>
  BY <1>2 DEF Answered, CallFails
<1>3. ASSUME NEW k \in DOMAIN streams, handleEvents(k) \/ Take(k) \/ StreamBreaks(k)
      PROVE  \/ handleEvents(k) /\ UNCHANGED <<tab, shown>>
             \/ TakeFrame(k)
             \/ (TakeFinal(k) \/ StreamBreaks(k)) /\ UNCHANGED <<tab, shown>>
  BY <1>3 DEF handleEvents, Take, TakeFinal, StreamBreaks, Quiet
<1> QED
  BY <1>1, <1>2, <1>3 DEF Next

LEMMA DaemonKept ==
    ASSUME WebTypes, CallsInv, StreamsInv, DaemonInv, Next
    PROVE  DaemonInv'
<1>1. /\ \A s \in Sessions : daemon[s].turn => daemon[s].life = "alive"
      /\ \A k \in DOMAIN streams, s \in Sessions :
            IsAttached(k, s) => daemon[s].life \in {"loading", "alive"}
  BY DEF DaemonInv
<1>2. CASE UNCHANGED <<daemon, streams>>
  BY <1>1, <1>2 DEF DaemonInv, IsAttached
<1>3. CASE ~Daemon /\ UNCHANGED daemon
  <2>1. ASSUME NEW k \in DOMAIN streams', NEW s \in Sessions, IsAttached(k, s)'
        PROVE  daemon[s].life \in {"loading", "alive"}
    <3>1. CASE k \in DOMAIN streams /\ streams'[k] = streams[k]
      BY <1>1, <2>1, <3>1 DEF IsAttached
    <3>2. CASE resetSessionState
      <4>1. k \in DOMAIN streams /\ k # tab.stream
        BY <2>1, <3>2, Left DEF IsAttached
      <4> QED
        BY <3>1, <3>2, <4>1, Left
    <3>3. ASSUME NEW i \in Slots, calls[i].at = "done", attachStream(calls[i])
          PROVE  daemon[s].life \in {"loading", "alive"}
      <4>1. k \in DOMAIN streams /\ streams'[k] = streams[k]
        BY <2>1, <3>3, Attached DEF IsAttached
      <4> QED
        BY <3>1, <4>1
    <3>4. CASE UNCHANGED <<tab, streams, shown>>
      BY <3>1, <3>4
    <3>5. ASSUME NEW j \in DOMAIN streams, handleEvents(j)
          PROVE  daemon[s].life \in {"loading", "alive"}
      <4>1. PICK x : /\ streams' = [streams EXCEPT ![j] = x]
                     /\ x.session = streams[j].session
                     /\ x.final = "none" => daemon[streams[j].session].life \in {"loading", "alive"}
        <5>1. PICK x : /\ streams' = [streams EXCEPT ![j] = x]
                       /\ x.session = streams[j].session
                       /\ \/ x.queue = streams[j].queue /\ x.final # "none"
                          \/ /\ x.queue = Buffered(streams[j].session)
                             /\ x.final = "none" =>
                                   daemon[streams[j].session].life \in {"loading", "alive"}
          BY <3>5, StreamSteps
        <5> QED
          BY <5>1
      <4>2. k \in DOMAIN streams /\ (k # j => streams'[k] = streams[k]) /\ streams'[j] = x
        BY <2>1, <4>1, OneChanges
      <4> QED
        BY <2>1, <3>1, <4>1, <4>2 DEF IsAttached
    <3>6. ASSUME NEW j \in DOMAIN streams, TakeFrame(j)
          PROVE  daemon[s].life \in {"loading", "alive"}
      <4>1. PICK x : /\ streams' = [streams EXCEPT ![j] = x]
                     /\ x.session = streams[j].session
                     /\ x.phase = streams[j].phase /\ x.final = streams[j].final
        BY <3>6, StreamSteps
      <4>2. k \in DOMAIN streams /\ (k # j => streams'[k] = streams[k]) /\ streams'[j] = x
        BY <2>1, <4>1, OneChanges
      <4>3. IsAttached(k, s)
        BY <2>1, <4>1, <4>2 DEF IsAttached
      <4> QED
        BY <1>1, <4>2, <4>3
    <3>7. ASSUME NEW j \in DOMAIN streams, TakeFinal(j) \/ StreamBreaks(j)
          PROVE  daemon[s].life \in {"loading", "alive"}
      <4>1. PICK x : /\ streams' = [streams EXCEPT ![j] = x]
                     /\ x.phase = "over"
        BY <3>7, StreamSteps
      <4>2. k \in DOMAIN streams /\ (k # j => streams'[k] = streams[k]) /\ streams'[j] = x
        BY <2>1, <4>1, OneChanges
      <4>3. k # j
        BY <2>1, <4>1, <4>2 DEF IsAttached
      <4> QED
        BY <3>1, <4>2, <4>3
    <3> QED
      BY <1>3, <3>2, <3>3, <3>4, <3>5, <3>6, <3>7, TabsOwnSteps
  <2> QED
    BY <1>1, <1>3, <2>1 DEF DaemonInv
<1>4. ASSUME NEW s \in Sessions,
             \A x \in Sessions : x # s => daemon'[x] = daemon[x],
             daemon'[s].turn => daemon'[s].life = "alive",
             \/ /\ UNCHANGED streams
                /\ \/ daemon'[s].life = daemon[s].life \/ daemon'[s].life = "alive"
                   \/ daemon[s].life \notin {"loading", "alive"}
             \/ \E n : Push(s, n) /\ daemon'[s].life = daemon[s].life
             \/ \E final \in {"closed", "terminated"} : EndStreams(s, final)
      PROVE  DaemonInv'
  <2>1. \A x \in Sessions : daemon'[x].turn => daemon'[x].life = "alive"
    BY <1>1, <1>4
  <2>2. CASE /\ UNCHANGED streams
             /\ \/ daemon'[s].life = daemon[s].life \/ daemon'[s].life = "alive"
                \/ daemon[s].life \notin {"loading", "alive"}
    BY <1>1, <1>4, <2>1, <2>2 DEF DaemonInv, IsAttached
  <2>3. ASSUME NEW n, Push(s, n), daemon'[s].life = daemon[s].life PROVE DaemonInv'
    <3>1. /\ DOMAIN streams' = DOMAIN streams
          /\ \A k \in DOMAIN streams, x \in Sessions : IsAttached(k, x)' => IsAttached(k, x)
      BY <2>3, Pushed DEF IsAttached
    <3>2. \A x \in Sessions : daemon'[x].life = daemon[x].life
      BY <1>4, <2>3
    <3> QED
      BY <1>1, <2>1, <3>1, <3>2 DEF DaemonInv
  <2>4. ASSUME NEW final \in {"closed", "terminated"}, EndStreams(s, final) PROVE DaemonInv'
    <3>1. /\ DOMAIN streams' = DOMAIN streams
          /\ \A k \in DOMAIN streams, x \in Sessions :
                IsAttached(k, x)' => IsAttached(k, x) /\ x # s
      BY <2>4, Ended DEF IsAttached
    <3> QED
      BY <1>1, <1>4, <2>1, <3>1 DEF DaemonInv
  <2> QED
    BY <1>4, <2>2, <2>3, <2>4
<1> QED
  BY <1>2, <1>3, <1>4, ProcessSteps

-----------------------------------------------------------------------------
(* What is on its way to the tab.                                          *)

LEMMA QueueStays ==
    ASSUME StreamsInv, QueueInv, UNCHANGED shown, tab'.stream = tab.stream,
           tab.stream # 0 => streams'[tab.stream] = streams[tab.stream],
           \A s \in Sessions : tab.stream # 0 /\ IsAttached(tab.stream, s) =>
              daemon'[s].pushed = daemon[s].pushed
    PROVE  QueueInv'
<1>1. CASE tab.stream = 0
  BY <1>1 DEF QueueInv
<1>2. CASE tab.stream # 0
  <2> DEFINE k == tab.stream
             c == Count
  <2>1. InStep(k, c)
    BY <1>2 DEF QueueInv
  <2>2. Count' = c
    BY DEF Count
  <2>3. streams'[k] = streams[k] /\ \A s \in Sessions : IsAttached(k, s)' => IsAttached(k, s)
    BY <1>2 DEF IsAttached
  <2>4. \A s \in Sessions : IsAttached(k, s) => daemon'[s].pushed = daemon[s].pushed
    BY <1>2
  <2> HIDE DEF k, c
  <2>5. InStep(k, c)'
    BY <2>1, <2>3, <2>4 DEF InStep, k, c, Count
  <2> QED
    BY <2>2, <2>5 DEF QueueInv, k, c
<1> QED
  BY <1>1, <1>2

LEMMA QueueNow ==
    ASSUME NEW k, NEW n, NEW x, tab'.stream = k, Count' = n, streams'[k] = x,
           \A i \in 1..Len(x.queue) : x.queue[i].id = n + i,
           x.phase = "connecting" => n = 0 /\ x.queue = <<>>,
           \A s \in Sessions : x.session = s /\ x.phase = "open" /\ x.final = "none" =>
              Len(daemon'[s].pushed) = n + Len(x.queue)
    PROVE  QueueInv'
BY DEF QueueInv, InStep, IsAttached

LEMMA QueueKept ==
    ASSUME WebTypes, CallsInv, StreamsInv, DaemonInv, ShownInv, QueueInv, Next
    PROVE  QueueInv'
<1>1. /\ Len(streams) \in Nat /\ DOMAIN streams = 1..Len(streams)
      /\ tab.stream \in 0..Len(streams)
      /\ shown \in Seq(Entries) /\ Len(shown) \in Nat
      /\ tab.stream # 0 => tab.stream \in DOMAIN streams
      /\ \A k \in DOMAIN streams : streams[k].queue \in Seq(Frames)
      /\ \A s \in Sessions : daemon[s].pushed \in Seq(Events)
  <2>1. shown \in Seq(Entries) /\ tab.stream \in 0..Len(streams)
    BY DEF WebTypes, StreamsInv
  <2>2. Len(streams) \in Nat /\ DOMAIN streams = 1..Len(streams)
    BY ScriptTyped
  <2> QED
    BY <2>1, <2>2, ScriptTyped
<1> DEFINE k == tab.stream
           P == {j \in 1..Len(shown) : shown[j].stream = k}
<1>2. Count = Cardinality(P) /\ Count \in Nat
  <2>1. P \in SUBSET (1..Len(shown))
    OBVIOUS
  <2> HIDE DEF P
  <2>2. Cardinality(P) \in Nat
    BY <1>1, <2>1, OneMore
  <2> QED
    BY <2>2 DEF Count, P
<1>3. k # 0 =>
         /\ \A i \in 1..Len(streams[k].queue) : streams[k].queue[i].id = Count + i
         /\ streams[k].phase = "connecting" => Count = 0 /\ streams[k].queue = <<>>
         /\ \A s \in Sessions : IsAttached(k, s) =>
               Len(daemon[s].pushed) = Count + Len(streams[k].queue)
  BY DEF QueueInv, InStep
<1>4. CASE resetSessionState
  BY <1>4, Left DEF QueueInv
<1>5. ASSUME NEW i \in Slots, calls[i].at = "done", attachStream(calls[i]), UNCHANGED shown
      PROVE  QueueInv'
  <2> DEFINE n == Len(streams) + 1
  <2>1. /\ tab'.stream = n /\ n \notin DOMAIN streams
        /\ streams'[n].phase = "connecting" /\ streams'[n].queue = <<>>
    BY <1>5, Attached
  <2>2. Count' = 0
    <3>1. \A j \in 1..Len(shown) : shown[j].stream # n
      <4>1. DOMAIN shown = 1..Len(shown)
        BY <1>1
      <4> HIDE DEF n
      <4> QED
        BY <2>1, <4>1 DEF ShownInv
    <3>2. {j \in 1..Len(shown') : shown'[j].stream = tab'.stream} = {}
      BY <1>5, <2>1, <3>1
    <3> QED
      BY <3>2, FS_EmptySet DEF Count
  <2> DEFINE x == streams'[n]
  <2>3. /\ x.phase = "connecting" /\ x.queue = <<>>
        /\ \A j \in 1..Len(x.queue) : x.queue[j].id = 0 + j
    BY <2>1
  <2> HIDE DEF n, x
  <2> QED
    BY <2>1, <2>2, <2>3, QueueNow DEF x
<1>6. CASE UNCHANGED <<tab, streams, shown, daemon>>
  BY <1>6, QueueStays
<1>7. ASSUME NEW j \in DOMAIN streams, NEW x, streams' = [streams EXCEPT ![j] = x], j # k,
             UNCHANGED <<tab, shown, daemon>>
      PROVE  QueueInv'
  <2>1. k # 0 => streams'[k] = streams[k]
    BY <1>1, <1>7, OneChanges
  <2> QED
    BY <1>7, <2>1, QueueStays
<1>8. ASSUME NEW j \in DOMAIN streams, handleEvents(j), UNCHANGED <<tab, shown, daemon>>
      PROVE  QueueInv'
  <2>1. PICK x : /\ streams' = [streams EXCEPT ![j] = x]
                 /\ x.session = streams[j].session
                 /\ x.phase = "open"
                 /\ \/ x.queue = streams[j].queue /\ x.final # "none"
                    \/ x.queue = Buffered(streams[j].session)
    <3>1. PICK x : /\ streams' = [streams EXCEPT ![j] = x]
                   /\ x.session = streams[j].session
                   /\ x.phase = "open"
                   /\ \/ x.queue = streams[j].queue /\ x.final # "none"
                      \/ /\ x.queue = Buffered(streams[j].session)
                         /\ x.final = "none" =>
                               daemon[streams[j].session].life \in {"loading", "alive"}
      BY <1>8, StreamSteps
    <3> QED
      BY <3>1
  <2>2. CASE j # k
    BY <1>7, <1>8, <2>1, <2>2
  <2>3. CASE j = k
    <3>1. k # 0 /\ streams'[k] = x
      BY <1>1, <2>1, <2>3, OneChanges
    <3>2. streams[k].phase = "connecting"
      BY <1>8, <2>3, StreamSteps
    <3>3. Count = 0 /\ streams[k].queue = <<>>
      BY <1>3, <3>1, <3>2
    <3>4. Count' = 0 /\ tab'.stream = k
      BY <1>8, <3>3 DEF Count
    <3>5. CASE x.queue = streams[j].queue /\ x.final # "none"
      <4>1. x.queue = <<>> /\ Len(x.queue) = 0
        BY <2>3, <3>3, <3>5
      <4> HIDE DEF k
      <4> QED
        BY <2>1, <3>1, <3>4, <3>5, <4>1, QueueNow
    <3>6. CASE x.queue = Buffered(streams[j].session)
      <4> DEFINE s == streams[k].session
      <4>1. s \in Sessions
        <5>1. IsLive(k)
          BY <3>2 DEF IsLive
        <5> QED
          BY <1>1, <3>1, <5>1 DEF StreamsInv
      <4>2. /\ Len(daemon[s].pushed) \in Nat /\ DOMAIN daemon[s].pushed = 1..Len(daemon[s].pushed)
        BY <1>1, <4>1
      <4>3. /\ Len(Buffered(s)) = Len(daemon[s].pushed)
            /\ \A i \in 1..Len(Buffered(s)) : Buffered(s)[i].id = 0 + i
        <5> DEFINE m == Len(daemon[s].pushed)
        <5>1. Buffered(s) = [i \in 1..m |-> [id |-> i, event |-> daemon[s].pushed[i]]]
          BY <4>2 DEF Buffered
        <5> HIDE DEF m
        <5>2. Len(Buffered(s)) = m
          BY <4>2, <5>1 DEF m
        <5>3. \A i \in 1..m : Buffered(s)[i].id = 0 + i
          BY <4>2, <5>1 DEF m
        <5> QED
          BY <5>2, <5>3 DEF m
      <4>4. x.queue = Buffered(s) /\ x.phase = "open" /\ x.session = s
        BY <2>1, <2>3, <3>6
      <4>5. Len(Buffered(s)) = 0 + Len(Buffered(s))
        BY <4>2, <4>3
      <4> HIDE DEF k, s
      <4>6. /\ \A i \in 1..Len(x.queue) : x.queue[i].id = 0 + i
            /\ \A y \in Sessions : x.session = y => Len(daemon'[y].pushed) = 0 + Len(x.queue)
        BY <1>8, <4>3, <4>4, <4>5
      <4> QED
        BY <3>1, <3>4, <4>4, <4>6, QueueNow
    <3> QED
      BY <2>1, <3>5, <3>6
  <2> QED
    BY <2>2, <2>3
<1>9. ASSUME NEW j \in DOMAIN streams, TakeFrame(j), UNCHANGED daemon PROVE QueueInv'
  <2> DEFINE L == Len(shown)
  <2>1. PICK x : /\ streams' = [streams EXCEPT ![j] = x]
                 /\ x.session = streams[j].session
                 /\ x.phase = streams[j].phase /\ x.final = streams[j].final
                 /\ x.queue = Tail(streams[j].queue)
    BY <1>9, StreamSteps
  <2>2. /\ Len(streams[j].queue) \in Nat /\ Len(streams[j].queue) # 0
        /\ Len(shown') = L + 1 /\ L \in Nat
        /\ shown'[L + 1].stream = j
        /\ \A i \in 1..L : shown'[i] = shown[i]
    <3>1. shown'[L + 1] = [stream |-> j, session |-> streams[j].session,
                          id |-> NextFrame(j).id, event |-> NextFrame(j).event]
      BY <1>9, FrameTyped
    <3> QED
      BY <1>9, <3>1, FrameTyped
  <2>3. tab'.stream = k
    <3>1. PICK t : tab' = [tab EXCEPT !.transcript = t]
      BY <1>9 DEF TakeFrame
    <3> QED
      BY <3>1 DEF WebTypes
  <2>4. 1..(L + 1) = 1..L \cup {L + 1} /\ L + 1 \notin 1..L
    BY <2>2
  <2> DEFINE R == {i \in 1..Len(shown') : shown'[i].stream = tab'.stream}
  <2>5. CASE j # k
    <3>1. R = P
      BY <2>2, <2>3, <2>4, <2>5
    <3>2. Count' = Count
      BY <3>1 DEF Count
    <3>3. k # 0 => streams'[k] = streams[k]
      BY <1>1, <2>1, <2>5, OneChanges
    <3>4. CASE k = 0
      BY <2>3, <3>4 DEF QueueInv
    <3>5. CASE k # 0
      <4> DEFINE y == streams[k]
                 c == Count
      <4>1. /\ \A i \in 1..Len(y.queue) : y.queue[i].id = c + i
            /\ y.phase = "connecting" => c = 0 /\ y.queue = <<>>
            /\ \A s \in Sessions : y.session = s /\ y.phase = "open" /\ y.final = "none" =>
                  Len(daemon'[s].pushed) = c + Len(y.queue)
        BY <1>3, <1>9, <3>5 DEF IsAttached
      <4>2. tab'.stream = k /\ Count' = c /\ streams'[k] = y
        BY <2>3, <3>2, <3>3, <3>5
      <4> HIDE DEF k, y, c
      <4> QED
        BY <4>1, <4>2, QueueNow
    <3> QED
      BY <3>4, <3>5
  <2>6. CASE j = k
    <3>1. R = P \cup {L + 1}
      BY <2>2, <2>3, <2>4, <2>6
    <3>2. Count' = Count + 1
      <4>1. P \in SUBSET (1..L)
        OBVIOUS
      <4> HIDE DEF P, R, L
      <4>2. Cardinality(P \cup {L + 1}) = Cardinality(P) + 1
        BY <2>2, <4>1, OneMore
      <4> QED
        BY <1>2, <3>1, <4>2 DEF Count, R
    <3>3. k # 0 /\ streams'[k] = x
      BY <1>1, <2>1, <2>6, OneChanges
    <3> DEFINE q == streams[k].queue
               m == Count
    <3>4. /\ q \in Seq(Frames) /\ q # <<>> /\ Len(q) \in Nat /\ Len(q) # 0 /\ m \in Nat
          /\ \A i \in 1..Len(q) : q[i].id = m + i
      BY <1>1, <1>2, <1>3, <2>2, <2>6, <3>3
    <3>5. /\ x.queue = Tail(q) /\ x.phase = streams[k].phase
          /\ x.final = streams[k].final /\ x.session = streams[k].session
      BY <2>1, <2>6
    <3>6. streams[k].phase = "open"
      BY <1>9, <2>6 DEF TakeFrame
    <3>7. \A s \in Sessions : x.session = s /\ x.phase = "open" /\ x.final = "none" =>
             Len(daemon'[s].pushed) = m + Len(q)
      BY <1>3, <1>9, <3>3, <3>5 DEF IsAttached
    <3> HIDE DEF q, m, k
    <3>8. Len(Tail(q)) = Len(q) - 1 /\ \A i \in 1..Len(Tail(q)) : Tail(q)[i] = q[i + 1]
      BY <3>4
    <3>9. \A i \in 1..Len(Tail(q)) : Tail(q)[i].id = (m + 1) + i
      BY <3>4, <3>8
    <3>10. m + Len(q) = (m + 1) + Len(Tail(q))
      BY <3>4, <3>8
    <3>11. Count' = m + 1
      BY <3>2 DEF m
    <3> DEFINE h == m + 1
    <3>12. /\ \A i \in 1..Len(x.queue) : x.queue[i].id = h + i
           /\ x.phase # "connecting"
           /\ \A s \in Sessions : x.session = s /\ x.phase = "open" /\ x.final = "none" =>
                 Len(daemon'[s].pushed) = h + Len(x.queue)
      BY <3>5, <3>6, <3>7, <3>9, <3>10
    <3> HIDE DEF h
    <3> QED
      BY <2>3, <3>3, <3>11, <3>12, QueueNow DEF h
  <2> QED
    BY <2>5, <2>6
<1>10. ASSUME NEW j \in DOMAIN streams, TakeFinal(j) \/ StreamBreaks(j),
              UNCHANGED <<tab, shown, daemon>>
       PROVE  QueueInv'
  <2>1. PICK x : /\ streams' = [streams EXCEPT ![j] = x]
                 /\ x.phase = "over" /\ x.queue = <<>>
    BY <1>10, StreamSteps
  <2>2. CASE j # k
    BY <1>7, <1>10, <2>1, <2>2
  <2>3. CASE j = k
    <3>1. streams'[k] = x /\ tab'.stream = k /\ Len(x.queue) = 0
      BY <1>10, <2>1, <2>3, OneChanges
    <3> HIDE DEF k
    <3> QED
      BY <2>1, <3>1, QueueNow
  <2> QED
    BY <2>2, <2>3
<1>11. CASE UNCHANGED daemon /\ ~Daemon
  BY <1>4, <1>5, <1>6, <1>8, <1>9, <1>10, <1>11, TabsOwnSteps
<1>12. ASSUME NEW s \in Sessions, NEW n, Push(s, n), UNCHANGED <<tab, shown>>,
              \A y \in Sessions : y # s => daemon'[y] = daemon[y],
              daemon'[s].pushed = Append(daemon[s].pushed, n)
       PROVE  QueueInv'
  <2>1. CASE k # 0 /\ IsAttached(k, s)
    <3> DEFINE c == Count
               x == streams'[k]
               q == streams[k].queue
               p == daemon[s].pushed
               f == [id |-> Len(p) + 1, event |-> n]
    <3>1. /\ x.queue = Append(q, f) /\ x.session = streams[k].session
          /\ x.phase = "open" /\ x.final = "none"
      BY <1>1, <1>12, <2>1, Pushed DEF IsAttached
    <3>2. streams[k].session = s
      BY <2>1 DEF IsAttached
    <3>3. /\ \A i \in 1..Len(q) : q[i].id = c + i
          /\ Len(p) = c + Len(q) /\ c \in Nat /\ q \in Seq(Frames) /\ Len(q) \in Nat
      BY <1>1, <1>2, <1>3, <2>1
    <3>4. Len(Append(p, n)) = Len(p) + 1
      BY <1>1
    <3>5. tab'.stream = k /\ Count' = c
      BY <1>12 DEF Count
    <3>6. f.id = Len(p) + 1
      OBVIOUS
    <3>7. daemon'[s].pushed = Append(p, n)
      BY <1>12
    <3> HIDE DEF c, x, q, p, k, f
    <3>8. Len(Append(q, f)) = Len(q) + 1 /\ Append(q, f)[Len(q) + 1] = f
          /\ \A i \in 1..Len(q) : Append(q, f)[i] = q[i]
      BY <3>3
    <3>9. \A i \in 1..Len(x.queue) : x.queue[i].id = c + i
      <4> SUFFICES ASSUME NEW i \in 1..Len(x.queue) PROVE x.queue[i].id = c + i
        OBVIOUS
      <4>1. CASE i \in 1..Len(q)
        BY <3>1, <3>3, <3>8, <4>1
      <4>2. CASE i = Len(q) + 1
        BY <3>1, <3>3, <3>6, <3>8, <4>2
      <4> QED
        BY <3>1, <3>3, <3>8, <4>1, <4>2
    <3>10. Len(daemon'[s].pushed) = c + Len(x.queue)
      BY <3>1, <3>3, <3>4, <3>7, <3>8
    <3> QED
      BY <3>1, <3>2, <3>5, <3>9, <3>10, QueueNow DEF x
  <2>2. CASE ~(k # 0 /\ IsAttached(k, s))
    <3>1. k # 0 => streams'[k] = streams[k]
      BY <1>1, <1>12, <2>2, Pushed
    <3> QED
      BY <1>12, <2>2, <3>1, QueueStays
  <2> QED
    BY <2>1, <2>2
<1>13. ASSUME NEW s \in Sessions, NEW final \in {"closed", "terminated"}, EndStreams(s, final),
              UNCHANGED <<tab, shown>>, \A y \in Sessions : y # s => daemon'[y] = daemon[y]
       PROVE  QueueInv'
  <2>1. CASE k # 0 /\ IsAttached(k, s)
    <3> DEFINE c == Count
               x == streams'[k]
    <3>1. x.queue = streams[k].queue /\ x.phase = streams[k].phase /\ x.final = final
      BY <1>1, <1>13, <2>1, Ended
    <3>2. /\ \A i \in 1..Len(x.queue) : x.queue[i].id = c + i
          /\ x.phase = "connecting" => c = 0 /\ x.queue = <<>>
      BY <1>3, <2>1, <3>1
    <3>3. tab'.stream = k /\ Count' = c /\ final # "none"
      BY <1>13 DEF Count
    <3> HIDE DEF c, x, k
    <3> QED
      BY <3>1, <3>2, <3>3, QueueNow DEF x
  <2>2. CASE ~(k # 0 /\ IsAttached(k, s))
    <3>1. k # 0 => streams'[k] = streams[k]
      BY <1>1, <1>13, <2>2, Ended
    <3> QED
      BY <1>13, <2>2, <3>1, QueueStays
  <2> QED
    BY <2>1, <2>2
<1>14. ASSUME NEW s \in Sessions, UNCHANGED <<tab, shown, streams>>,
              \A y \in Sessions : y # s => daemon'[y] = daemon[y],
              \/ daemon'[s].pushed = daemon[s].pushed
              \/ daemon[s].life \notin {"loading", "alive"}
       PROVE  QueueInv'
  <2>1. \A y \in Sessions : k # 0 /\ IsAttached(k, y) => daemon'[y].pushed = daemon[y].pushed
    BY <1>1, <1>14 DEF DaemonInv
  <2> QED
    BY <1>14, <2>1, QueueStays
<1> QED
  BY <1>6, <1>11, <1>12, <1>13, <1>14, ProcessSteps

-----------------------------------------------------------------------------
(* The transcript.                                                         *)

LEMMA UpdateTyped ==
    ASSUME WebTypes, NEW s \in Sessions, NEW n \in Events
    PROVE  UpdateOf(s, n) \in Update(Chunks)
<1> DEFINE U == [kind : STRING, call : Nat, status : STRING, text : BOOLEAN]
<1> DEFINE u == script[n]
<1>1. u \in U
  <2>1. script \in Seq(U) /\ n \in 1..Len(script)
    BY ScriptTyped DEF Events
  <2> HIDE DEF U
  <2> QED
    BY <2>1
<1>2. <<s, n>> \in Chunks
  <2>1. n \in Nat
    BY ScriptTyped DEF Events
  <2> QED
    BY <2>1 DEF Chunks
<1>3. UpdateOf(s, n) = [kind |-> u.kind, call |-> u.call, status |-> u.status,
                        text |-> IF u.text THEN <<<<s, n>>>> ELSE <<>>]
  BY DEF UpdateOf
<1> HIDE DEF u
<1>4. (IF u.text THEN <<<<s, n>>>> ELSE <<>>) \in {<<>>} \cup {<<c>> : c \in Chunks}
  BY <1>2
<1>5. u.kind \in STRING /\ u.call \in Nat /\ u.status \in Status
  <2>1. u.kind \in STRING /\ u.call \in Nat /\ u.status \in STRING
    BY <1>1
  <2> QED
    BY <2>1 DEF Status
<1> QED
  BY <1>3, <1>4, <1>5 DEF Update

LEMMA AppliedTyped ==
    ASSUME WebTypes
    PROVE  Applied \in Seq(Update(Chunks)) /\ Len(Applied) = Len(shown)
<1>1. shown \in Seq(Entries)
  BY DEF WebTypes
<1>2. DOMAIN shown = 1..Len(shown) /\ Len(shown) \in Nat /\ \A i \in 1..Len(shown) : shown[i] \in Entries
  BY <1>1
<1>3. \A i \in 1..Len(shown) : UpdateOf(shown[i].session, shown[i].event) \in Update(Chunks)
  BY <1>2, UpdateTyped DEF Entries
<1>4. Applied \in [1..Len(shown) -> Update(Chunks)]
  BY <1>2, <1>3 DEF Applied
<1> QED
  BY <1>2, <1>4, Renewed

LEMMA NothingApplied ==
    \E st : Starts(<<>>, st) /\ Spoken(<<>>) /\ Shows(Chunks, EMPTY_TRANSCRIPT, <<>>, st)
<1>1. Beginnings(<<>>) = {}
  BY DEF Beginnings
<1>2. Starts(<<>>, <<>>)
  <2>1. <<>> \in Seq(Nat) /\ Len(<<>>) = 0 /\ 1..0 = {}
    OBVIOUS
  <2> QED
    BY <1>1, <2>1, FS_EmptySet DEF Starts
<1>3. Spoken(<<>>)
  BY DEF Spoken
<1>4. Shows(Chunks, EMPTY_TRANSCRIPT, <<>>, <<>>)
  <2> DEFINE t == EMPTY_TRANSCRIPT
  <2>1. t.turns = <<>> /\ t.nextId = 1 /\ t.usage = <<>>
    BY DEF EMPTY_TRANSCRIPT
  <2>2. <<>> \in Seq(Turn(Chunks)) /\ <<>> \in Seq(Chunks) /\ 1 \in Nat /\ Len(<<>>) = 0 /\ 1..0 = {}
    OBVIOUS
  <2>3. t \in Shown(Chunks)
    BY <2>2 DEF EMPTY_TRANSCRIPT, Shown
  <2>4. UsageOf(<<>>) = <<>>
    <3>1. {i \in DOMAIN <<>> : <<>>[i].kind = "usage_update"} = {}
      OBVIOUS
    <3> QED
      BY <3>1 DEF UsageOf
  <2> HIDE DEF t
  <2>5. Len(t.turns) = 0 /\ t.nextId = Len(t.turns) + 1
    BY <2>1, <2>2
  <2> QED
    BY <2>1, <2>2, <2>3, <2>4, <2>5 DEF Shows, t
<1> QED
  BY <1>2, <1>3, <1>4

LEMMA TranscriptSteps ==
    ASSUME WebTypes, Next
    PROVE  /\ script' = script
           /\ \/ resetSessionState
              \/ tab'.transcript = tab.transcript /\ shown' = shown
              \/ \E k \in DOMAIN streams : TakeFrame(k)
<1>1. CASE User
  BY <1>1 DEF User, startSession, loadSavedSession, Open, endSession, sendPrompt
<1>2. CASE Daemon
  BY <1>2 DEF Daemon, HandleNew, HandleLoad, HandlePrompt, Replay, LoadDone, LoadFails,
              TurnEvent, TurnEnds, Exit, Collect, Quiet
<1>3. ASSUME NEW i \in Slots, Answered(i) \/ CallFails(i)
      PROVE  script' = script /\ tab'.transcript = tab.transcript /\ shown' = shown
  <2>1. /\ script' = script /\ shown' = shown
        /\ UNCHANGED tab \/ tab' = [tab EXCEPT !.session = calls[i].session, !.stream = Len(streams) + 1]
    BY <1>3 DEF Answered, CallFails, attachStream
  <2> QED
    BY <2>1 DEF WebTypes
<1>4. ASSUME NEW k \in DOMAIN streams, handleEvents(k) \/ Take(k) \/ StreamBreaks(k)
      PROVE  /\ script' = script
             /\ \/ tab'.transcript = tab.transcript /\ shown' = shown
                \/ TakeFrame(k)
  BY <1>4 DEF handleEvents, Take, TakeFrame, TakeFinal, StreamBreaks, Quiet
<1> QED
  BY <1>1, <1>2, <1>3, <1>4 DEF Next

LEMMA TranscriptKept ==
    ASSUME WebTypes, StreamsInv, TranscriptInv, Next
    PROVE  TranscriptInv'
<1>1. script' = script
  BY TranscriptSteps
<1>2. CASE resetSessionState
  <2>1. tab'.transcript = EMPTY_TRANSCRIPT /\ shown' = <<>>
    BY <1>2, Left
  <2>2. Applied' = <<>>
    BY <2>1 DEF Applied
  <2> QED
    BY <2>1, <2>2, NothingApplied DEF TranscriptInv
<1>3. CASE tab'.transcript = tab.transcript /\ shown' = shown
  <2>1. Applied' = Applied
    BY <1>1, <1>3 DEF Applied, UpdateOf
  <2> QED
    BY <1>3, <2>1 DEF TranscriptInv
<1>4. ASSUME NEW k \in DOMAIN streams, TakeFrame(k) PROVE TranscriptInv'
  <2> DEFINE s   == streams[k].session
             n   == NextFrame(k).event
             u   == UpdateOf(s, n)
             us  == Applied
             t   == tab.transcript
             L   == Len(shown)
  <2>1. /\ s \in Sessions /\ n \in Events /\ L \in Nat /\ Len(shown') = L + 1
        /\ shown'[L + 1].session = s /\ shown'[L + 1].event = n
        /\ \A i \in 1..L : shown'[i] = shown[i]
        /\ shown' \in Seq(Entries)
    <3>1. shown'[L + 1] = [stream |-> k, session |-> s, id |-> NextFrame(k).id, event |-> n]
      BY <1>4, FrameTyped
    <3>2. NextFrame(k) \in Frames
      BY <1>4, FrameTyped
    <3>3. n \in Events
      BY <3>2 DEF Frames
    <3> QED
      BY <1>4, <3>1, <3>3, FrameTyped
  <2>2. tab'.transcript = applySessionUpdate(t, u)
    <3>1. tab' = [tab EXCEPT !.transcript = applySessionUpdate(t, u)]
      BY <1>4 DEF TakeFrame, WebTypes
    <3> QED
      BY <3>1 DEF WebTypes
  <2>3. u \in Update(Chunks)
    BY <2>1, UpdateTyped
  <2>4. us \in Seq(Update(Chunks)) /\ Len(us) = L
    BY AppliedTyped
  <2>5. Applied' = Append(us, u)
    <3>1. DOMAIN shown' = 1..(L + 1) /\ DOMAIN shown = 1..L
      BY <2>1 DEF WebTypes
    <3>2. Applied' = [i \in 1..(L + 1) |-> UpdateOf(shown'[i].session, shown'[i].event)]
      BY <1>1, <3>1 DEF Applied, UpdateOf
    <3>3. us = [i \in 1..L |-> UpdateOf(shown[i].session, shown[i].event)]
      BY <3>1 DEF Applied
    <3> DEFINE now == Append(us, u)
    <3>4. /\ now \in Seq(Update(Chunks)) /\ Len(now) = L + 1 /\ now[L + 1] = u
          /\ \A i \in 1..L : now[i] = us[i]
      BY <2>3, <2>4, AppendProperties
    <3>5. now = [i \in 1..(L + 1) |-> now[i]]
      BY <3>4
    <3>6. \A i \in 1..(L + 1) : now[i] = UpdateOf(shown'[i].session, shown'[i].event)
      <4> SUFFICES ASSUME NEW i \in 1..(L + 1)
                   PROVE  now[i] = UpdateOf(shown'[i].session, shown'[i].event)
        OBVIOUS
      <4>1. CASE i \in 1..L
        BY <2>1, <3>3, <3>4, <4>1
      <4>2. CASE i = L + 1
        BY <2>1, <3>4, <4>2
      <4>3. L \in Nat
        BY <2>4 DEF WebTypes
      <4> HIDE DEF now, us, u, L
      <4>4. i \in 1..L \/ i = L + 1
        BY <4>3
      <4> QED
        BY <4>1, <4>2, <4>4
    <3> HIDE DEF now, us, u
    <3>7. Applied' = now
      BY <3>2, <3>5, <3>6
    <3> QED
      BY <3>7 DEF now
  <2>6. PICK st : Starts(us, st) /\ Spoken(us) /\ Shows(Chunks, t, us, st)
    BY DEF TranscriptInv
  <2> HIDE DEF us, u, t
  <2>7. Arrives(Chunks, t, us, u, st)
    BY <2>3, <2>4, <2>6 DEF Arrives
  <2>8. PICK at : Starts(Append(us, u), at)
                  /\ Shows(Chunks, applySessionUpdate(t, u), Append(us, u), at)
    BY <2>7, UpdateApplied
  <2>9. Spoken(Append(us, u))
    BY <2>3, <2>4, <2>6, SpokenOn
  <2> QED
    BY <2>2, <2>5, <2>8, <2>9 DEF TranscriptInv
<1> QED
  BY <1>2, <1>3, <1>4, TranscriptSteps

-----------------------------------------------------------------------------
(* The theorems.                                                           *)

LEMMA WebInitial == Init => WebInv
<1> SUFFICES ASSUME Init PROVE WebInv
  OBVIOUS
<1>1. /\ script \in Scripts /\ tab = NoTab /\ calls = [i \in Slots |-> NoCall]
      /\ streams = <<>> /\ shown = <<>>
  BY DEF Init
<1>2. /\ script \in Seq([kind : STRING, call : Nat, status : STRING, text : BOOLEAN])
      /\ Len(script) \in Nat
  <2>1. script \in Seq([kind : STRING, call : Nat, status : STRING, text : BOOLEAN])
    BY <1>1, WebAssumption
  <2> QED
    BY <2>1
<1>3. PICK events \in Logged \cap 0..Len(script) :
         daemon = [s \in Sessions |-> IF s \in Saved THEN NoProcess("saved", events)
                                      ELSE NoProcess("unused", 0)]
  BY DEF Init
<1>4. EMPTY_TRANSCRIPT \in Shown(Chunks)
  <2>1. <<>> \in Seq(Turn(Chunks)) /\ <<>> \in Seq(Chunks) /\ 1 \in Nat
    OBVIOUS
  <2> QED
    BY <2>1 DEF EMPTY_TRANSCRIPT, Shown
<1>5. tab \in [session : Anything, stream : Nat, transcript : Shown(Chunks)]
  BY <1>1, <1>4 DEF NoTab, Anything
<1>6. calls \in [Slots -> Requests]
  BY <1>1 DEF NoCall, Requests, Anything
<1>7. daemon \in [Sessions -> Processes]
  <2>1. <<>> \in Seq(Events) /\ 0 \in 0..Len(script)
    BY <1>2
  <2>2. NoProcess("saved", events) \in Processes /\ NoProcess("unused", 0) \in Processes
    BY <1>3, <2>1 DEF NoProcess, Processes
  <2> QED
    BY <1>3, <2>2
<1>8. <<>> \in Seq(Subscriptions) /\ <<>> \in Seq(Entries) /\ Len(<<>>) = 0 /\ DOMAIN <<>> = {}
  OBVIOUS
<1>9. WebTypes
  BY <1>1, <1>5, <1>6, <1>7, <1>8 DEF WebTypes
<1>10. tab.stream = 0 /\ tab.transcript = EMPTY_TRANSCRIPT
  BY <1>1 DEF NoTab
<1>11. CallsInv
  BY <1>1 DEF CallsInv, NoCall, Opening
<1>12. StreamsInv
  BY <1>1, <1>8, <1>10 DEF StreamsInv
<1>13. DaemonInv
  <2>1. \A s \in Sessions : ~daemon[s].turn
    BY <1>3 DEF NoProcess
  <2> QED
    BY <1>1, <1>8, <2>1 DEF DaemonInv
<1>14. ShownInv /\ QueueInv
  BY <1>1, <1>8, <1>10 DEF ShownInv, QueueInv
<1>15. TranscriptInv
  <2>1. Applied = <<>>
    BY <1>1, <1>8 DEF Applied
  <2> QED
    BY <1>10, <2>1, NothingApplied DEF TranscriptInv
<1> QED
  BY <1>9, <1>11, <1>12, <1>13, <1>14, <1>15 DEF WebInv

LEMMA WebStep == WebInv /\ [Next]_vars => WebInv'
<1> SUFFICES ASSUME WebInv, [Next]_vars PROVE WebInv'
  OBVIOUS
<1>1. /\ WebTypes /\ CallsInv /\ StreamsInv /\ DaemonInv
      /\ ShownInv /\ QueueInv /\ TranscriptInv
  BY DEF WebInv
<1>2. CASE UNCHANGED vars
  <2>1. UNCHANGED <<tab, calls, streams, daemon, shown, script>>
    BY <1>2 DEF vars
  <2>2. WebTypes' /\ CallsInv' /\ StreamsInv'
    BY <1>1, <2>1 DEF WebTypes, CallsInv, StreamsInv, Opening, IsLive, Requests, Subscriptions,
                      Frames, Events, Processes, Entries
  <2>3. DaemonInv' /\ ShownInv'
    BY <1>1, <2>1 DEF DaemonInv, ShownInv, IsAttached
  <2>4. QueueInv'
    BY <1>1, <2>1, QueueStays
  <2>5. TranscriptInv'
    BY <1>1, <2>1 DEF TranscriptInv, Applied, UpdateOf
  <2> QED
    BY <2>2, <2>3, <2>4, <2>5 DEF WebInv
<1>3. CASE Next
  <2>1. CallsInv' /\ StreamsInv' /\ DaemonInv' /\ ShownInv' /\ QueueInv' /\ TranscriptInv'
    BY <1>1, <1>3, CallsKept, StreamsKept, DaemonKept, ShownKept, QueueKept, TranscriptKept
  <2>2. tab'.transcript \in Shown(Chunks)
    BY <2>1 DEF TranscriptInv, Shows, Shown, Turn, Chunks
  <2>3. /\ script' \in Scripts /\ script' = script
        /\ tab'.session \in Anything /\ tab'.stream \in Nat
        /\ tab' = [session |-> tab'.session, stream |-> tab'.stream,
                   transcript |-> tab'.transcript]
        /\ shown' \in Seq(Entries)
    BY <1>1, <1>3, RestTyped, TranscriptSteps
  <2>4. tab' \in [session : Anything, stream : Nat, transcript : Shown(Chunks)]
    BY <2>2, <2>3
  <2>5. /\ calls' \in [Slots -> Requests] /\ streams' \in Seq(Subscriptions)
        /\ daemon' \in [Sessions -> Processes]
    BY <1>1, <1>3, CallsTyped, StreamsTyped, DaemonTyped
  <2>6. /\ Subscriptions' = Subscriptions /\ Processes' = Processes /\ Entries' = Entries
        /\ Requests' = Requests
    BY <2>3 DEF Subscriptions, Processes, Entries, Frames, Events
  <2>7. WebTypes'
    BY <2>3, <2>4, <2>5, <2>6 DEF WebTypes
  <2> QED
    BY <2>1, <2>7 DEF WebInv
<1> QED
  BY <1>2, <1>3

\* The invariant of the tab.
LEMMA WebInvariant == Spec => []WebInv
<1>1. Init => WebInv
  BY WebInitial
<1>2. WebInv /\ [Next]_vars => WebInv'
  BY WebStep
<1> QED
  BY <1>1, <1>2, PTL DEF Spec

\* What the tab, its calls and streams and the daemon hold is of their types:
\* in particular every stream that lives is of a session, and every frame under
\* way carries an event of the script.
THEOREM TabTypes == Spec => []WebTypes
<1>1. WebInv => WebTypes
  BY DEF WebInv
<1> QED
  BY <1>1, WebInvariant, PTL

\* However starts, loads, answers, frames, exits and broken streams interleave,
\* the tab shows its own session, gapless from the first update on, and nothing
\* of one it has left.
THEOREM TabShowsItsSession == Spec => []ShownIsCurrent
<1>1. WebInv => ShownIsCurrent
  BY DEF WebInv, ShownInv, StreamsInv, ShownIsCurrent
<1> QED
  BY <1>1, WebInvariant, PTL

\* The reducer, one update at a time, arrives at the transcript that the list
\* of all updates defines.
THEOREM ReducerIsFaithful == Spec => []TranscriptIsFaithful
<1>1. WebInv => TranscriptIsFaithful
  <2> SUFFICES ASSUME WebInv PROVE TranscriptIsFaithful
    OBVIOUS
  <2>1. PICK st : Starts(Applied, st) /\ Shows(Chunks, tab.transcript, Applied, st)
    BY DEF WebInv, TranscriptInv
  <2>2. Faithful(tab.transcript, Applied)
    BY <2>1, ShowsFaithful
  <2> QED
    BY <2>2 DEF TranscriptIsFaithful, Applied
<1> QED
  BY <1>1, WebInvariant, PTL
=============================================================================
