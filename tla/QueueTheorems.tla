---------------------------- MODULE QueueTheorems ----------------------------
(***************************************************************************)
(* Facts about queues (finite sequences): of keys, as cache.rs and         *)
(* snapshot.rs keep them beside their maps, where the set of keys and the  *)
(* absence of duplicates matter; and of messages, as sharding.rs and       *)
(* transmission_batcher.rs move them, where the order matters.             *)
(***************************************************************************)
EXTENDS Integers, Sequences, Functions, SequenceTheorems, TLAPS

\* VecDeque::pop_front takes one key out of the set of queued keys, and no key
\* when it is still queued further back.
LEMMA PopFront ==
    ASSUME NEW S, NEW s \in Seq(S), s # <<>>
    PROVE  /\ Tail(s) \in Seq(S)
           /\ Head(s) \in Range(s)
           /\ Range(s) = Range(Tail(s)) \cup {Head(s)}
           /\ IsInjective(s) => IsInjective(Tail(s)) /\ Head(s) \notin Range(Tail(s))
<1>1. /\ Len(s) \in Nat /\ Len(s) >= 1 /\ DOMAIN s = 1..Len(s)
      /\ Tail(s) \in Seq(S) /\ Len(Tail(s)) = Len(s) - 1
      /\ DOMAIN Tail(s) = 1..(Len(s) - 1)
      /\ \A i \in 1..(Len(s) - 1) : Tail(s)[i] = s[i + 1]
    BY EmptySeq, HeadTailProperties, LenProperties
<1>2. Head(s) = s[1]
    OBVIOUS
<1>3. Range(s) = Range(Tail(s)) \cup {Head(s)}
    <2>1. ASSUME NEW i \in 1..Len(s) PROVE s[i] \in Range(Tail(s)) \cup {Head(s)}
        <3>1. CASE i = 1
            BY <3>1, <1>2
        <3>2. CASE i # 1
            <4>1. i - 1 \in DOMAIN Tail(s) /\ Tail(s)[i - 1] = s[i]
                BY <1>1, <3>2
            <4> QED
                BY <4>1 DEF Range
        <3> QED
            BY <3>1, <3>2
    <2>2. ASSUME NEW i \in 1..(Len(s) - 1) PROVE Tail(s)[i] \in Range(s)
        <3>1. i + 1 \in DOMAIN s /\ Tail(s)[i] = s[i + 1]
            BY <1>1
        <3> QED
            BY <3>1 DEF Range
    <2>3. Head(s) \in Range(s)
        BY <1>1, <1>2 DEF Range
    <2> QED
        BY <1>1, <2>1, <2>2, <2>3 DEF Range
<1>4. ASSUME IsInjective(s) PROVE IsInjective(Tail(s)) /\ Head(s) \notin Range(Tail(s))
    <2>1. ASSUME NEW i \in 1..(Len(s) - 1), NEW j \in 1..(Len(s) - 1),
                 Tail(s)[i] = Tail(s)[j]
          PROVE  i = j
        <3>1. i + 1 \in DOMAIN s /\ j + 1 \in DOMAIN s /\ s[i + 1] = s[j + 1]
            BY <1>1, <2>1
        <3> QED
            BY <1>4, <3>1 DEF IsInjective
    <2>2. ASSUME NEW i \in 1..(Len(s) - 1) PROVE Tail(s)[i] # Head(s)
        <3>1. i + 1 \in DOMAIN s /\ 1 \in DOMAIN s /\ i + 1 # 1 /\ Tail(s)[i] = s[i + 1]
            BY <1>1
        <3> QED
            BY <1>2, <1>4, <3>1 DEF IsInjective
    <2> QED
        BY <1>1, <2>1, <2>2 DEF IsInjective, Range
<1> QED
    BY <1>1, <1>3, <1>4

\* VecDeque::push_back adds the key; pushing a key that is not queued creates no
\* duplicate.
LEMMA PushBack ==
    ASSUME NEW S, NEW s \in Seq(S), NEW k \in S
    PROVE  /\ Append(s, k) \in Seq(S)
           /\ Range(Append(s, k)) = Range(s) \cup {k}
           /\ IsInjective(s) /\ k \notin Range(s) => IsInjective(Append(s, k))
<1>1. /\ Len(s) \in Nat /\ DOMAIN s = 1..Len(s)
      /\ Append(s, k) \in Seq(S)
      /\ DOMAIN Append(s, k) = 1..(Len(s) + 1)
      /\ \A i \in 1..Len(s) : Append(s, k)[i] = s[i]
      /\ Append(s, k)[Len(s) + 1] = k
    BY AppendProperties, LenProperties
<1>2. \A i \in 1..(Len(s) + 1) : i \in 1..Len(s) \/ i = Len(s) + 1
    BY <1>1
<1>3. Range(Append(s, k)) = Range(s) \cup {k}
    BY <1>1, <1>2 DEF Range
<1>4. IsInjective(s) /\ k \notin Range(s) => IsInjective(Append(s, k))
    BY <1>1, <1>2 DEF Range, IsInjective
<1> QED
    BY <1>1, <1>3, <1>4

\* Removing the position pos of a queue without duplicates takes exactly the key
\* at that position out of it.
LEMMA RemovePosition ==
    ASSUME NEW S, NEW s \in Seq(S), IsInjective(s), NEW pos \in 1..Len(s)
    PROVE  LET t == SubSeq(s, 1, pos - 1) \o SubSeq(s, pos + 1, Len(s))
           IN  /\ t \in Seq(S)
               /\ IsInjective(t)
               /\ Range(t) = Range(s) \ {s[pos]}
<1> DEFINE u == SubSeq(s, 1, pos - 1)
           v == SubSeq(s, pos + 1, Len(s))
           t == u \o v
           n == Len(s)
<1>1. n \in Nat /\ DOMAIN s = 1..n /\ \A i \in 1..n : s[i] \in S
    BY LenProperties, ElementOfSeq
<1>2. /\ u \in Seq(S) /\ Len(u) = pos - 1
      /\ \A i \in 1..(pos - 1) : u[i] = s[i]
    <2>1. \A i \in 1..(pos - 1) : s[i] \in S
        BY <1>1
    <2>2. /\ u \in Seq(S)
          /\ Len(u) = IF 1 <= pos - 1 THEN (pos - 1) - 1 + 1 ELSE 0
          /\ \A i \in 1..((pos - 1) - 1 + 1) : u[i] = s[1 + i - 1]
        BY <1>1, <2>1, SubSeqProperties
    <2> QED
        BY <1>1, <2>2
<1>3. /\ v \in Seq(S) /\ Len(v) = n - pos
      /\ \A i \in 1..(n - pos) : v[i] = s[pos + i]
    <2>1. \A i \in (pos + 1)..n : s[i] \in S
        BY <1>1
    <2>2. /\ v \in Seq(S)
          /\ Len(v) = IF pos + 1 <= n THEN n - (pos + 1) + 1 ELSE 0
          /\ \A i \in 1..(n - (pos + 1) + 1) : v[i] = s[(pos + 1) + i - 1]
        BY <1>1, <2>1, SubSeqProperties
    <2>3. \A i \in 1..(n - pos) : i \in 1..(n - (pos + 1) + 1) /\ (pos + 1) + i - 1 = pos + i
        BY <1>1
    <2> HIDE DEF v, n
    <2>4. Len(v) = n - pos
        <3>1. n \in Nat /\ pos \in 1..n
            BY <1>1 DEF n
        <3>2. CASE pos = n
            BY <2>2, <3>1, <3>2
        <3>3. CASE pos < n
            BY <2>2, <3>1, <3>3
        <3> QED
            BY <3>1, <3>2, <3>3
    <2>5. ASSUME NEW i \in 1..(n - pos) PROVE v[i] = s[pos + i]
        BY <2>2, <2>3
    <2> QED
        BY <2>2, <2>4, <2>5
<1> HIDE DEF u, v
<1>4. /\ t \in Seq(S) /\ Len(t) = n - 1 /\ DOMAIN t = 1..(n - 1)
      /\ \A i \in 1..(n - 1) : t[i] = IF i <= pos - 1 THEN s[i] ELSE s[i + 1]
    <2>1. /\ t \in Seq(S) /\ Len(t) = Len(u) + Len(v)
          /\ \A i \in 1..(Len(u) + Len(v)) :
                 t[i] = IF i <= Len(u) THEN u[i] ELSE v[i - Len(u)]
        BY <1>2, <1>3, ConcatProperties
    <2>2. DOMAIN t = 1..Len(t)
        BY <2>1, LenProperties
    <2> QED
        BY <1>1, <1>2, <1>3, <2>1, <2>2
<1> HIDE DEF t
<1>5. IsInjective(t)
    <2> SUFFICES ASSUME NEW i \in 1..(n - 1), NEW j \in 1..(n - 1), t[i] = t[j]
                 PROVE  i = j
        BY <1>4 DEF IsInjective
    <2> DEFINE Old(x) == IF x <= pos - 1 THEN x ELSE x + 1
    <2>1. Old(i) \in DOMAIN s /\ Old(j) \in DOMAIN s /\ s[Old(i)] = s[Old(j)]
        BY <1>1, <1>4
    <2>2. Old(i) = Old(j)
        BY <2>1 DEF IsInjective
    <2> QED
        BY <1>1, <2>2
<1>6. Range(t) = Range(s) \ {s[pos]}
    <2>1. ASSUME NEW i \in 1..(n - 1) PROVE t[i] \in Range(s) \ {s[pos]}
        <3> DEFINE o == IF i <= pos - 1 THEN i ELSE i + 1
        <3>1. o \in DOMAIN s /\ pos \in DOMAIN s /\ o # pos /\ t[i] = s[o]
            BY <1>1, <1>4
        <3> QED
            BY <3>1 DEF IsInjective, Range
    <2>2. ASSUME NEW i \in 1..n, s[i] # s[pos] PROVE s[i] \in Range(t)
        <3> DEFINE o == IF i < pos THEN i ELSE i - 1
        <3>1. o \in DOMAIN t /\ t[o] = s[i]
            BY <1>1, <1>4, <2>2
        <3> QED
            BY <3>1 DEF Range
    <2> QED
        BY <1>1, <1>4, <2>1, <2>2 DEF Range
<1> QED
    BY <1>4, <1>5, <1>6 DEF t, u, v

\* A receiver that appends the head of its channel to its batch keeps the order of
\* batch and channel.
LEMMA MoveHead ==
    ASSUME NEW S, NEW b \in Seq(S), NEW o \in Seq(S), o # <<>>
    PROVE  Append(b, Head(o)) \o Tail(o) = b \o o
<1>1. Head(o) \in S /\ Tail(o) \in Seq(S) /\ o = <<Head(o)>> \o Tail(o)
    BY HeadTailProperties
<1>2. Append(b, Head(o)) = b \o <<Head(o)>>
    BY <1>1, AppendIsConcat
<1>3. <<Head(o)>> \in Seq(S)
    BY <1>1
<1>4. (b \o <<Head(o)>>) \o Tail(o) = b \o (<<Head(o)>> \o Tail(o))
    BY <1>1, <1>3, ConcatAssociative
<1> QED
    BY <1>1, <1>2, <1>4

\* A message sent to the channel comes after the batch and the channel.
LEMMA AppendBehind ==
    ASSUME NEW S, NEW b \in Seq(S), NEW o \in Seq(S), NEW n \in S
    PROVE  b \o Append(o, n) = Append(b \o o, n) /\ b \o o \in Seq(S)
<1>1. b \o o \in Seq(S) /\ <<n>> \in Seq(S)
    OBVIOUS
<1>2. Append(o, n) = o \o <<n>> /\ Append(b \o o, n) = (b \o o) \o <<n>>
    BY <1>1, AppendIsConcat
<1> QED
    BY <1>1, <1>2, ConcatAssociative

\* A concatenation splits into its two parts.
LEMMA SplitConcat ==
    ASSUME NEW S, NEW a \in Seq(S), NEW b \in Seq(S)
    PROVE  /\ SubSeq(a \o b, 1, Len(a)) = a
           /\ SubSeq(a \o b, Len(a) + 1, Len(a \o b)) = b
<1> DEFINE c == a \o b
           u == SubSeq(c, 1, Len(a))
           v == SubSeq(c, Len(a) + 1, Len(c))
<1>1. /\ Len(a) \in Nat /\ Len(b) \in Nat /\ c \in Seq(S) /\ Len(c) = Len(a) + Len(b)
      /\ \A i \in 1..Len(c) : c[i] = IF i <= Len(a) THEN a[i] ELSE b[i - Len(a)]
      /\ \A i \in 1..Len(c) : c[i] \in S
    BY ConcatProperties, LenProperties, ElementOfSeq
<1> HIDE DEF c
<1>2. u \in Seq(S) /\ Len(u) = Len(a) /\ \A i \in 1..Len(a) : u[i] = a[i]
    <2>1. \A i \in 1..Len(a) : c[i] \in S
        BY <1>1
    <2>2. /\ u \in Seq(S) /\ Len(u) = IF 1 <= Len(a) THEN Len(a) - 1 + 1 ELSE 0
          /\ \A i \in 1..(Len(a) - 1 + 1) : u[i] = c[1 + i - 1]
        BY <1>1, <2>1, SubSeqProperties
    <2> QED
        BY <1>1, <2>2
<1>3. v \in Seq(S) /\ Len(v) = Len(b) /\ \A i \in 1..Len(b) : v[i] = b[i]
    <2>1. \A i \in (Len(a) + 1)..Len(c) : c[i] \in S
        BY <1>1
    <2>2. /\ v \in Seq(S)
          /\ Len(v) = IF Len(a) + 1 <= Len(c) THEN Len(c) - (Len(a) + 1) + 1 ELSE 0
          /\ \A i \in 1..(Len(c) - (Len(a) + 1) + 1) : v[i] = c[(Len(a) + 1) + i - 1]
        BY <1>1, <2>1, SubSeqProperties
    <2>3. /\ Len(c) - (Len(a) + 1) + 1 = Len(b)
          /\ Len(a) + 1 <= Len(c) <=> Len(b) >= 1
        BY <1>1
    <2>4. /\ Len(v) = IF Len(b) >= 1 THEN Len(b) ELSE 0
          /\ \A i \in 1..Len(b) : v[i] = c[(Len(a) + 1) + i - 1]
        BY <2>2, <2>3
    <2>5. \A i \in 1..Len(b) : /\ (Len(a) + 1) + i - 1 \in 1..Len(c)
                              /\ ~((Len(a) + 1) + i - 1 <= Len(a))
                              /\ (Len(a) + 1) + i - 1 - Len(a) = i
        BY <1>1
    <2>6. ASSUME NEW i \in 1..Len(b) PROVE c[(Len(a) + 1) + i - 1] = b[i]
        <3> DEFINE k == (Len(a) + 1) + i - 1
        <3>1. k \in 1..Len(c) /\ ~(k <= Len(a)) /\ k - Len(a) = i
            BY <2>5
        <3> HIDE DEF k
        <3>2. c[k] = b[k - Len(a)]
            BY <1>1, <3>1
        <3> QED
            BY <3>1, <3>2 DEF k
    <2> HIDE DEF v
    <2> QED
        BY <1>1, <2>2, <2>4, <2>6
<1> HIDE DEF u, v
<1>4. u = a /\ v = b
    BY <1>2, <1>3, SeqEqual
<1> QED
    BY <1>4 DEF u, v, c
=============================================================================
