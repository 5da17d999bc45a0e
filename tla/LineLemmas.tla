------------------------------ MODULE LineLemmas ------------------------------
(***************************************************************************)
(* Lines, as the queue of a pool and the timers of a process are: nobody   *)
(* is in one twice.  What joining one at its end, being served at its head *)
(* and leaving it from anywhere do.                                        *)
(***************************************************************************)
EXTENDS Integers, Sequences, SequencesExt, SequenceTheorems, TLAPS

\* The sequences over S that name nobody twice.
Line(S) == {s \in Seq(S) : IsInjective(s)}

\* Who is at the end of the line waits too, and nobody waits twice.
LEMMA LineAppend ==
    ASSUME NEW S, NEW s \in Line(S), NEW a \in S, a \notin ToSet(s)
    PROVE  Append(s, a) \in Line(S) /\ ToSet(Append(s, a)) = ToSet(s) \cup {a}
<1> DEFINE t == Append(s, a)
<1>1. s \in Seq(S) /\ Len(s) \in Nat /\ DOMAIN s = 1 .. Len(s)
  BY LenProperties DEF Line
<1>2. /\ t \in Seq(S) /\ Len(t) = Len(s) + 1
      /\ \A i \in 1 .. Len(s) : t[i] = s[i]
      /\ t[Len(s) + 1] = a
  BY <1>1, AppendProperties
<1>3. DOMAIN t = 1 .. Len(s) + 1
  BY <1>2, LenProperties
<1>4. \A i \in 1 .. Len(s) : s[i] # a
  BY <1>1 DEF ToSet
<1> HIDE DEF t
<1>5. IsInjective(t)
  <2> SUFFICES ASSUME NEW i \in 1 .. Len(s) + 1, NEW j \in 1 .. Len(s) + 1, t[i] = t[j]
               PROVE  i = j
    BY <1>3 DEF IsInjective
  <2>1. CASE i \in 1 .. Len(s) /\ j \in 1 .. Len(s)
    BY <2>1, <1>1, <1>2 DEF Line, IsInjective
  <2>2. CASE i = Len(s) + 1 \/ j = Len(s) + 1
    <3>1. i \in 1 .. Len(s) \/ i = Len(s) + 1
      BY <1>1
    <3>2. j \in 1 .. Len(s) \/ j = Len(s) + 1
      BY <1>1
    <3>3. QED
      BY <2>2, <3>1, <3>2, <1>2, <1>4
  <2>3. QED
    BY <2>1, <2>2, <1>1
<1>6. ToSet(t) = ToSet(s) \cup {a}
  <2>1. ASSUME NEW x \in ToSet(t) PROVE x \in ToSet(s) \cup {a}
    <3>1. PICK i \in 1 .. Len(s) + 1 : t[i] = x
      BY <2>1, <1>3 DEF ToSet
    <3>2. CASE i = Len(s) + 1
      BY <3>1, <3>2, <1>2
    <3>3. CASE i \in 1 .. Len(s)
      BY <3>1, <3>3, <1>1, <1>2 DEF ToSet
    <3>4. QED
      BY <3>2, <3>3, <1>1
  <2>2. ASSUME NEW x \in ToSet(s) PROVE x \in ToSet(t)
    <3>1. PICK i \in 1 .. Len(s) : s[i] = x
      BY <2>2, <1>1 DEF ToSet
    <3>2. i \in DOMAIN t /\ t[i] = x
      BY <3>1, <1>1, <1>2, <1>3
    <3>3. QED
      BY <3>2 DEF ToSet
  <2>3. a \in ToSet(t)
    <3>1. Len(s) + 1 \in DOMAIN t
      BY <1>1, <1>3
    <3>2. QED
      BY <3>1, <1>2 DEF ToSet
  <2>4. QED
    BY <2>1, <2>2, <2>3
<1>7. QED
  BY <1>2, <1>5, <1>6 DEF Line, t

\* Whoever is removed from the line is gone, and everyone else is still there.
LEMMA LineRemoveAt ==
    ASSUME NEW S, NEW s \in Line(S), NEW k \in DOMAIN s
    PROVE  RemoveAt(s, k) \in Line(S) /\ ToSet(RemoveAt(s, k)) = ToSet(s) \ {s[k]}
<1> DEFINE u == SubSeq(s, 1, k - 1)
           v == SubSeq(s, k + 1, Len(s))
           t == u \o v
<1>1. s \in Seq(S) /\ Len(s) \in Nat /\ DOMAIN s = 1 .. Len(s) /\ k \in 1 .. Len(s)
  BY LenProperties DEF Line
<1>2. \A i \in 1 .. Len(s) : s[i] \in S
  BY <1>1, ElementOfSeq
<1>3. /\ u \in Seq(S) /\ Len(u) = k - 1
      /\ \A i \in 1 .. k - 1 : u[i] = s[i]
  <2>1. 1 \in Int /\ k - 1 \in Int /\ \A i \in 1 .. k - 1 : s[i] \in S
    BY <1>1, <1>2
  <2>2. /\ u \in Seq(S)
        /\ Len(u) = IF 1 <= k - 1 THEN k - 1 - 1 + 1 ELSE 0
        /\ \A i \in 1 .. k - 1 - 1 + 1 : u[i] = s[1 + i - 1]
    BY <2>1, SubSeqProperties
  <2> HIDE DEF u
  <2>3. QED
    BY <2>2, <1>1
<1>4. /\ v \in Seq(S) /\ Len(v) = Len(s) - k
      /\ \A i \in 1 .. Len(s) - k : v[i] = s[k + i]
  <2>1. k + 1 \in Int /\ Len(s) \in Int /\ \A i \in k + 1 .. Len(s) : s[i] \in S
    BY <1>1, <1>2
  <2>2. /\ v \in Seq(S)
        /\ Len(v) = IF k + 1 <= Len(s) THEN Len(s) - (k + 1) + 1 ELSE 0
        /\ \A i \in 1 .. Len(s) - (k + 1) + 1 : v[i] = s[k + 1 + i - 1]
    BY <2>1, SubSeqProperties
  <2> HIDE DEF v
  <2>3. \A i \in 1 .. Len(s) - k : k + 1 + i - 1 = k + i
    BY <1>1
  <2>4. QED
    BY <2>2, <2>3, <1>1
<1> HIDE DEF u, v
<1>5. /\ t \in Seq(S) /\ Len(t) = Len(s) - 1
      /\ \A i \in 1 .. Len(s) - 1 : t[i] = IF i < k THEN s[i] ELSE s[i + 1]
  <2>1. /\ t \in Seq(S) /\ Len(t) = Len(u) + Len(v)
        /\ \A i \in 1 .. Len(u) + Len(v) :
               t[i] = IF i <= Len(u) THEN u[i] ELSE v[i - Len(u)]
    BY <1>3, <1>4, ConcatProperties
  <2> HIDE DEF t
  <2>2. Len(u) + Len(v) = Len(s) - 1
    BY <1>1, <1>3, <1>4
  <2>3. ASSUME NEW i \in 1 .. Len(s) - 1
        PROVE  t[i] = IF i < k THEN s[i] ELSE s[i + 1]
    <3>1. CASE i < k
      BY <3>1, <2>1, <2>2, <1>1, <1>3
    <3>2. CASE ~(i < k)
      <4>1. i - (k - 1) \in 1 .. Len(s) - k /\ k + (i - (k - 1)) = i + 1
        BY <3>2, <1>1
      <4>2. t[i] = v[i - (k - 1)]
        BY <3>2, <2>1, <2>2, <1>1, <1>3
      <4>3. v[i - (k - 1)] = s[k + (i - (k - 1))]
        BY <4>1, <1>4
      <4>4. QED
        BY <3>2, <4>1, <4>2, <4>3
    <3>3. QED
      BY <3>1, <3>2
  <2>4. QED
    BY <2>1, <2>2, <2>3
<1>6. DOMAIN t = 1 .. Len(s) - 1
  BY <1>5, LenProperties
<1>7. RemoveAt(s, k) = t
  BY DEF RemoveAt, u, v
<1> HIDE DEF t
<1>8. \A i, j \in 1 .. Len(s) : s[i] = s[j] => i = j
  BY <1>1 DEF Line, IsInjective
<1>9. IsInjective(t)
  <2> SUFFICES ASSUME NEW i \in 1 .. Len(s) - 1, NEW j \in 1 .. Len(s) - 1, t[i] = t[j]
               PROVE  i = j
    BY <1>6 DEF IsInjective
  <2>1. i \in 1 .. Len(s) /\ i + 1 \in 1 .. Len(s) /\ j \in 1 .. Len(s) /\ j + 1 \in 1 .. Len(s)
    BY <1>1
  <2>2. t[i] = (IF i < k THEN s[i] ELSE s[i + 1]) /\ t[j] = (IF j < k THEN s[j] ELSE s[j + 1])
    BY <1>5
  <2>3. (i < k /\ j < k) => i = j
    BY <2>1, <2>2, <1>8
  <2>4. (~(i < k) /\ ~(j < k)) => i + 1 = j + 1
    BY <2>1, <2>2, <1>8
  <2>5. (i < k /\ ~(j < k)) => i = j + 1
    BY <2>1, <2>2, <1>8
  <2>6. (~(i < k) /\ j < k) => i + 1 = j
    BY <2>1, <2>2, <1>8
  <2>7. QED
    BY <2>3, <2>4, <2>5, <2>6, <1>1
<1>10. ToSet(t) = ToSet(s) \ {s[k]}
  <2>1. ASSUME NEW x \in ToSet(t) PROVE x \in ToSet(s) \ {s[k]}
    <3>1. PICK i \in 1 .. Len(s) - 1 : t[i] = x
      BY <2>1, <1>6 DEF ToSet
    <3>2. PICK j \in {i, i + 1} : x = s[j] /\ j # k
      BY <3>1, <1>1, <1>5
    <3>3. j \in 1 .. Len(s)
      BY <3>2, <1>1
    <3>4. QED
      BY <3>2, <3>3, <1>1, <1>8 DEF ToSet
  <2>2. ASSUME NEW x \in ToSet(s), x # s[k] PROVE x \in ToSet(t)
    <3>1. PICK i \in 1 .. Len(s) : s[i] = x
      BY <2>2, <1>1 DEF ToSet
    <3>2. i # k
      BY <3>1, <2>2
    <3>3. CASE i < k
      <4>1. i \in 1 .. Len(s) - 1 /\ t[i] = x
        BY <3>1, <3>3, <1>1, <1>5
      <4>2. QED
        BY <4>1, <1>6 DEF ToSet
    <3>4. CASE i > k
      <4>1. i - 1 \in 1 .. Len(s) - 1 /\ ~(i - 1 < k) /\ (i - 1) + 1 = i
        BY <3>4, <1>1
      <4>2. t[i - 1] = x
        BY <4>1, <3>1, <1>5
      <4>3. QED
        BY <4>1, <4>2, <1>6 DEF ToSet
    <3>5. QED
      BY <3>2, <3>3, <3>4, <1>1
  <2>3. QED
    BY <2>1, <2>2
<1>11. QED
  BY <1>5, <1>7, <1>9, <1>10 DEF Line

\* The head of the line is served: a tail is the line without its first.
LEMMA LineTail ==
    ASSUME NEW S, NEW s \in Line(S), s # <<>>
    PROVE  /\ Tail(s) \in Line(S) /\ ToSet(Tail(s)) = ToSet(s) \ {Head(s)}
           /\ Head(s) \in S /\ Head(s) \in ToSet(s)
<1>1. s \in Seq(S) /\ Len(s) \in Nat \ {0} /\ DOMAIN s = 1 .. Len(s)
  BY LenProperties, EmptySeq DEF Line
<1>2. Head(s) = s[1] /\ 1 \in DOMAIN s
  BY <1>1
<1>3. RemoveAt(s, 1) = Tail(s)
  <2>1. SubSeq(s, 1, 1 - 1) = <<>>
    BY SubSeqEmpty
  <2>2. SubSeq(s, 1 + 1, Len(s)) = Tail(s) /\ Tail(s) \in Seq(S)
    BY <1>1, TailIsSubSeq, HeadTailProperties
  <2>3. QED
    BY <2>1, <2>2, ConcatEmptySeq DEF RemoveAt
<1>4. Tail(s) \in Line(S) /\ ToSet(Tail(s)) = ToSet(s) \ {Head(s)}
  <2>1. RemoveAt(s, 1) \in Line(S) /\ ToSet(RemoveAt(s, 1)) = ToSet(s) \ {s[1]}
    BY <1>2, LineRemoveAt
  <2>2. QED
    BY <2>1, <1>2, <1>3
<1>5. Head(s) \in S /\ Head(s) \in ToSet(s)
  <2>1. s[1] \in S
    BY <1>1, ElementOfSeq
  <2>2. s[1] \in ToSet(s)
    BY <1>2 DEF ToSet
  <2>3. QED
    BY <2>1, <2>2, <1>2
<1>6. QED
  BY <1>4, <1>5

\* Someone else leaves: the head of the line stays.
LEMMA LineKeepsHead ==
    ASSUME NEW S, NEW s \in Line(S), NEW k \in DOMAIN s, Head(s) # s[k]
    PROVE  RemoveAt(s, k) # <<>> /\ Head(RemoveAt(s, k)) = Head(s)
<1> DEFINE u == SubSeq(s, 1, k - 1)
           v == SubSeq(s, k + 1, Len(s))
           t == u \o v
<1>1. s \in Seq(S) /\ Len(s) \in Nat /\ DOMAIN s = 1 .. Len(s) /\ k \in 1 .. Len(s)
  BY LenProperties DEF Line
<1>2. Head(s) = s[1] /\ k - 1 \in Nat \ {0}
  BY <1>1
<1>3. \A i \in 1 .. Len(s) : s[i] \in S
  BY <1>1, ElementOfSeq
<1>4. u \in Seq(S) /\ Len(u) = k - 1 /\ u[1] = s[1]
  <2>1. 1 \in Int /\ k - 1 \in Int /\ \A i \in 1 .. k - 1 : s[i] \in S
    BY <1>1, <1>3
  <2>2. /\ u \in Seq(S)
        /\ Len(u) = IF 1 <= k - 1 THEN k - 1 - 1 + 1 ELSE 0
        /\ \A i \in 1 .. k - 1 - 1 + 1 : u[i] = s[1 + i - 1]
    BY <2>1, SubSeqProperties
  <2> HIDE DEF u
  <2>3. QED
    BY <2>2, <1>1, <1>2
<1>5. v \in Seq(S) /\ Len(v) \in Nat
  <2>1. k + 1 \in Int /\ Len(s) \in Int /\ \A i \in k + 1 .. Len(s) : s[i] \in S
    BY <1>1, <1>3
  <2>2. v \in Seq(S)
    BY <2>1, SubSeqProperties
  <2> HIDE DEF v
  <2>3. QED
    BY <2>2, LenProperties
<1> HIDE DEF u, v
<1>6. t \in Seq(S) /\ Len(t) = Len(u) + Len(v) /\ t[1] = s[1]
  <2>1. /\ t \in Seq(S) /\ Len(t) = Len(u) + Len(v)
        /\ \A i \in 1 .. Len(u) + Len(v) :
               t[i] = IF i <= Len(u) THEN u[i] ELSE v[i - Len(u)]
    BY <1>4, <1>5, ConcatProperties
  <2> HIDE DEF t
  <2>2. 1 \in 1 .. Len(u) + Len(v) /\ 1 <= Len(u)
    BY <1>2, <1>4, <1>5
  <2>3. QED
    BY <2>1, <2>2, <1>4
<1>7. RemoveAt(s, k) = t
  BY DEF RemoveAt, u, v
<1> HIDE DEF t
<1>8. t # <<>>
  BY <1>2, <1>4, <1>5, <1>6, EmptySeq
<1>9. QED
  BY <1>2, <1>6, <1>7, <1>8

===============================================================================
