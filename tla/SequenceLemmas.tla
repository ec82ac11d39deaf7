---------------------------- MODULE SequenceLemmas ----------------------------
(***************************************************************************)
(* Facts about sequences, most of them without repetition, which is what   *)
(* the queues, buffers and batches of the transports are, stated once for  *)
(* the proof modules of the components.                                    *)
(***************************************************************************)
EXTENDS Naturals, Sequences, FiniteSets, Functions, SequencesExt,
        SequenceTheorems, FiniteSetTheorems, TLAPS

\* Buffering an event adds it to the events of the buffer, and keeps the buffer
\* free of repetition when the event was not in it.
LEMMA AppendNew ==
  ASSUME NEW S, NEW s \in Seq(S), NEW e \in S
  PROVE  /\ Append(s, e) \in Seq(S)
         /\ Range(Append(s, e)) = Range(s) \cup {e}
         /\ IsInjective(s) /\ e \notin Range(s) => IsInjective(Append(s, e))
<1>1. /\ Append(s, e) \in Seq(S)
      /\ Len(Append(s, e)) = Len(s) + 1
      /\ \A i \in 1..Len(s) : Append(s, e)[i] = s[i]
      /\ Append(s, e)[Len(s) + 1] = e
  BY AppendProperties
<1>2. Len(s) \in Nat /\ DOMAIN s = 1..Len(s)
  BY LenProperties
<1>3. DOMAIN Append(s, e) = 1..(Len(s) + 1)
  BY <1>1, LenProperties
<1>4. Range(Append(s, e)) = Range(s) \cup {e}
  BY <1>1, <1>2, <1>3 DEF Range
<1>5. IsInjective(s) /\ e \notin Range(s) => IsInjective(Append(s, e))
  BY <1>1, <1>2, <1>3 DEF IsInjective, Range
<1> QED
  BY <1>1, <1>4, <1>5

\* Two sequences without repetition and without a common event.
LEMMA ConcatDisjoint ==
  ASSUME NEW S, NEW s \in Seq(S), NEW t \in Seq(S),
         IsInjective(s), IsInjective(t), Range(s) \cap Range(t) = {}
  PROVE  IsInjective(s \o t)
<1>1. /\ s \o t \in Seq(S)
      /\ Len(s \o t) = Len(s) + Len(t)
      /\ \A i \in 1..(Len(s) + Len(t)) :
           (s \o t)[i] = IF i <= Len(s) THEN s[i] ELSE t[i - Len(s)]
  BY ConcatProperties
<1>2. /\ Len(s) \in Nat /\ DOMAIN s = 1..Len(s)
      /\ Len(t) \in Nat /\ DOMAIN t = 1..Len(t)
      /\ DOMAIN (s \o t) = 1..(Len(s) + Len(t))
  BY <1>1, LenProperties
<1> SUFFICES ASSUME NEW a \in DOMAIN (s \o t), NEW b \in DOMAIN (s \o t),
                    (s \o t)[a] = (s \o t)[b]
             PROVE  a = b
  BY DEF IsInjective
<1>3. CASE a <= Len(s) /\ b <= Len(s)
  BY <1>1, <1>2, <1>3 DEF IsInjective
<1>4. CASE a > Len(s) /\ b > Len(s)
  <2>1. t[a - Len(s)] = t[b - Len(s)]
    BY <1>1, <1>2, <1>4
  <2>2. a - Len(s) \in DOMAIN t /\ b - Len(s) \in DOMAIN t
    BY <1>2, <1>4
  <2>3. a - Len(s) = b - Len(s)
    BY <2>1, <2>2 DEF IsInjective
  <2> QED
    BY <1>2, <2>3
<1>5. CASE a <= Len(s) /\ b > Len(s)
  <2>1. s[a] = t[b - Len(s)] /\ a \in DOMAIN s /\ b - Len(s) \in DOMAIN t
    BY <1>1, <1>2, <1>5
  <2> QED
    BY <2>1 DEF Range
<1>6. CASE a > Len(s) /\ b <= Len(s)
  <2>1. s[b] = t[a - Len(s)] /\ b \in DOMAIN s /\ a - Len(s) \in DOMAIN t
    BY <1>1, <1>2, <1>6
  <2> QED
    BY <2>1 DEF Range
<1> QED
  BY <1>2, <1>3, <1>4, <1>5, <1>6

\* Taking the head off a sequence without repetition removes one event.
LEMMA TailRemovesHead ==
  ASSUME NEW S, NEW s \in Seq(S), s # <<>>, IsInjective(s)
  PROVE  /\ Head(s) \in Range(s)
         /\ Tail(s) \in Seq(S)
         /\ Range(Tail(s)) = Range(s) \ {Head(s)}
         /\ IsInjective(Tail(s))
         /\ Len(s) = 1 => Range(s) = {Head(s)}
         /\ Len(s) # 1 => Tail(s) # <<>>
<1>1. /\ Tail(s) \in Seq(S)
      /\ Len(Tail(s)) = Len(s) - 1
      /\ \A i \in 1..Len(Tail(s)) : Tail(s)[i] = s[i + 1]
  BY HeadTailProperties
<1>2. /\ Len(s) \in Nat \ {0}
      /\ DOMAIN s = 1..Len(s)
      /\ DOMAIN Tail(s) = 1..(Len(s) - 1)
  BY <1>1, LenProperties, EmptySeq
<1>3. Head(s) = s[1]
  BY <1>2
<1>4. Range(Tail(s)) = Range(s) \ {Head(s)}
  <2>1. ASSUME NEW x \in Range(Tail(s))
        PROVE  x \in Range(s) \ {Head(s)}
    <3>1. PICK i \in 1..(Len(s) - 1) : x = Tail(s)[i]
      BY <1>2 DEF Range
    <3>2. x = s[i + 1] /\ i + 1 \in DOMAIN s /\ 1 \in DOMAIN s /\ i + 1 # 1
      BY <1>1, <1>2, <3>1
    <3> QED
      BY <1>3, <3>2 DEF Range, IsInjective
  <2>2. ASSUME NEW x \in Range(s) \ {Head(s)}
        PROVE  x \in Range(Tail(s))
    <3>1. PICK i \in DOMAIN s : x = s[i]
      BY DEF Range
    <3>2. i # 1
      BY <1>3, <3>1
    <3>3. i - 1 \in 1..(Len(s) - 1) /\ Tail(s)[i - 1] = s[i]
      BY <1>1, <1>2, <3>2
    <3> QED
      BY <1>2, <3>1, <3>3 DEF Range
  <2> QED
    BY <2>1, <2>2
<1>5. IsInjective(Tail(s))
  BY <1>1, <1>2 DEF IsInjective
<1>6. Len(s) = 1 => Range(s) = {Head(s)}
  BY <1>2, <1>3 DEF Range
<1>7. Len(s) # 1 => Tail(s) # <<>>
  <2>1. Len(<<>>) = 0
    BY EmptySeq
  <2>2. ASSUME Tail(s) = <<>>
        PROVE  Len(s) = 1
    <3>1. Len(Tail(s)) = 0
      BY <2>1, <2>2
    <3>2. Len(s) - 1 = 0 /\ Len(s) \in Nat
      BY <1>1, <1>2, <3>1
    <3> QED
      BY <3>2
  <2> QED
    BY <2>2
<1>8. Head(s) \in Range(s)
  BY <1>2, <1>3 DEF Range
<1> QED
  BY <1>1, <1>4, <1>5, <1>6, <1>7, <1>8

\* A prefix keeps some of the events, each once.
LEMMA PrefixOfInjective ==
  ASSUME NEW S, NEW s \in Seq(S), NEW m \in 0..Len(s)
  PROVE  /\ SubSeq(s, 1, m) \in Seq(S)
         /\ Len(SubSeq(s, 1, m)) = m
         /\ Range(SubSeq(s, 1, m)) \subseteq Range(s)
         /\ IsInjective(s) => IsInjective(SubSeq(s, 1, m))
         /\ m = Len(s) => SubSeq(s, 1, m) = s
<1>1. Len(s) \in Nat /\ DOMAIN s = 1..Len(s) /\ \A i \in 1..m : s[i] \in S
  BY LenProperties, ElementOfSeq
<1>2. /\ SubSeq(s, 1, m) \in Seq(S)
      /\ Len(SubSeq(s, 1, m)) = m
      /\ \A i \in 1..m : SubSeq(s, 1, m)[i] = s[i]
  BY <1>1, SubSeqProperties
<1>3. DOMAIN SubSeq(s, 1, m) = 1..m
  BY <1>2, LenProperties
<1>4. Range(SubSeq(s, 1, m)) \subseteq Range(s)
  BY <1>1, <1>2, <1>3 DEF Range
<1>5. IsInjective(s) => IsInjective(SubSeq(s, 1, m))
  BY <1>1, <1>2, <1>3 DEF IsInjective
<1>6. m = Len(s) => SubSeq(s, 1, m) = s
  BY SubSeqFull
<1> QED
  BY <1>2, <1>4, <1>5, <1>6

\* A buffer without repetition holds as many events as it has places.
LEMMA CardinalityOfBuffer ==
  ASSUME NEW S, NEW s \in Seq(S), IsInjective(s)
  PROVE  IsFiniteSet(Range(s)) /\ Cardinality(Range(s)) = Len(s)
<1>1. Len(s) \in Nat /\ DOMAIN s = 1..Len(s) /\ s \in [1..Len(s) -> S]
  BY LenProperties
<1>2. s \in [1..Len(s) -> Range(s)]
  BY <1>1 DEF Range
<1>3. s \in Surjection(1..Len(s), Range(s))
  BY <1>1, <1>2 DEF Surjection, Range
<1>4. s \in Injection(1..Len(s), Range(s))
  BY <1>1, <1>2 DEF Injection, IsInjective
<1>5. IsFiniteSet(1..Len(s)) /\ Cardinality(1..Len(s)) = Len(s)
  BY <1>1, FS_Interval
<1> QED
  BY <1>3, <1>4, <1>5, FS_Surjection

\* RemoveFirst takes one element out, wherever it is.
LEMMA Removed ==
  ASSUME NEW S, NEW s \in Seq(S), NEW x
  PROVE  LET r == RemoveFirst(s, x)
         IN  /\ r \in Seq(S) /\ Len(r) <= Len(s)
             /\ Range(r) \subseteq Range(s)
             /\ Range(s) \ {x} \subseteq Range(r)
             /\ IsInjective(s) => IsInjective(r) /\ x \notin Range(r)
<1>1. Len(s) \in Nat /\ DOMAIN s = 1..Len(s) /\ \A i \in 1..Len(s) : s[i] \in S
  BY LenProperties, ElementOfSeq
<1>2. CASE ~\E i \in 1..Len(s) : s[i] = x
  <2>1. RemoveFirst(s, x) = s
    BY <1>2 DEF RemoveFirst
  <2> QED
    BY <1>1, <1>2, <2>1 DEF Range
<1>3. CASE \E i \in 1..Len(s) : s[i] = x
  <2> DEFINE I == {i \in 1..Len(s) : s[i] = x}
             k == Min(I)
  <2>1. RemoveFirst(s, x) = SubSeq(s, 1, k - 1) \o SubSeq(s, k + 1, Len(s))
    BY <1>3 DEF RemoveFirst, RemoveAt, SelectInSeq
  <2>2. k \in I
    <3>1. I # {} /\ I \subseteq 1..Len(s)
      BY <1>3
    <3>2. \E i \in I : \A j \in I : i <= j
      <4>1. I \in SUBSET Nat /\ I # {}
        BY <1>1, <3>1
      <4> HIDE DEF I
      <4>2. \E i \in I : \A j \in I : <<j, i>> \notin OpToRel(<, Nat)
        BY <4>1, NatLessThanWellFounded, WFMin
      <4>3. PICK i \in I : \A j \in I : <<j, i>> \notin OpToRel(<, Nat)
        BY <4>2
      <4>4. \A j \in I : ~(j < i)
        BY <4>1, <4>3, Zenon DEF OpToRel
      <4> QED
        BY <4>1, <4>4
    <3> HIDE DEF I
    <3> QED
      BY <3>2 DEF Min
  <2>3. k \in 1..Len(s) /\ s[k] = x
    BY <2>2
  <2> HIDE DEF k
  <2> DEFINE a == SubSeq(s, 1, k - 1)
             b == SubSeq(s, k + 1, Len(s))
             r == a \o b
  <2>4. /\ a \in Seq(S) /\ Len(a) = k - 1
        /\ \A i \in 1 .. k - 1 : a[i] = s[i]
    <3>1. \A i \in 1 .. k - 1 : s[i] \in S
      BY <1>1, <2>3
    <3>2. /\ a \in Seq(S)
          /\ Len(a) = IF 1 <= k - 1 THEN (k - 1) - 1 + 1 ELSE 0
          /\ \A i \in 1 .. (k - 1) - 1 + 1 : a[i] = s[1 + i - 1]
      BY <2>3, <3>1, SubSeqProperties
    <3> HIDE DEF a
    <3> QED
      BY <1>1, <2>3, <3>2
  <2>5. /\ b \in Seq(S) /\ Len(b) = Len(s) - k
        /\ \A i \in 1 .. Len(s) - k : b[i] = s[k + i]
    <3>1. \A i \in k + 1 .. Len(s) : s[i] \in S
      BY <1>1, <2>3
    <3>2. /\ b \in Seq(S)
          /\ Len(b) = IF k + 1 <= Len(s) THEN Len(s) - (k + 1) + 1 ELSE 0
          /\ \A i \in 1 .. Len(s) - (k + 1) + 1 : b[i] = s[(k + 1) + i - 1]
      BY <1>1, <2>3, <3>1, SubSeqProperties
    <3> HIDE DEF b
    <3>3. Len(b) = Len(s) - k
      <4>1. Len(b) = IF k + 1 <= Len(s) THEN Len(s) - (k + 1) + 1 ELSE 0
        BY <3>2
      <4>2. Len(s) \in Nat /\ k \in Int /\ 1 <= k /\ k <= Len(s)
        BY <1>1, <2>3
      <4> QED
        BY <4>1, <4>2
    <3>4. \A i \in 1 .. Len(s) - k : i \in 1 .. Len(s) - (k + 1) + 1 /\ (k + 1) + i - 1 = k + i
      BY <1>1, <2>3
    <3> QED
      BY <3>2, <3>3, <3>4
  <2> HIDE DEF a, b
  <2>6. /\ r \in Seq(S) /\ Len(r) = Len(s) - 1
        /\ \A i \in 1 .. Len(s) - 1 : r[i] = IF i <= k - 1 THEN a[i] ELSE b[i - (k - 1)]
    <3>1. /\ r \in Seq(S) /\ Len(r) = Len(a) + Len(b)
          /\ \A i \in 1 .. Len(a) + Len(b) : r[i] = IF i <= Len(a) THEN a[i] ELSE b[i - Len(a)]
      BY <2>4, <2>5, ConcatProperties
    <3>2. Len(a) + Len(b) = Len(s) - 1
      BY <1>1, <2>3, <2>4, <2>5
    <3> QED
      BY <2>4, <3>1, <3>2
  <2>7. RemoveFirst(s, x) = r
    BY <2>1 DEF a, b
  <2>8. DOMAIN r = 1 .. Len(s) - 1
    BY <2>6, LenProperties
  <2> HIDE DEF r
  <2>9. \A i \in DOMAIN r : \/ i < k /\ i \in DOMAIN s /\ r[i] = s[i]
                            \/ i >= k /\ i + 1 \in DOMAIN s /\ r[i] = s[i + 1]
    <3> SUFFICES ASSUME NEW i \in DOMAIN r
                 PROVE  \/ i < k /\ i \in DOMAIN s /\ r[i] = s[i]
                        \/ i >= k /\ i + 1 \in DOMAIN s /\ r[i] = s[i + 1]
      OBVIOUS
    <3>1. i \in 1 .. Len(s) - 1
      BY <2>8
    <3>2. CASE i < k
      BY <1>1, <2>3, <2>4, <2>6, <3>1, <3>2
    <3>3. CASE i >= k
      <4>1. i - (k - 1) \in 1 .. Len(s) - k /\ k + (i - (k - 1)) = i + 1 /\ ~(i <= k - 1)
        BY <1>1, <2>3, <3>1, <3>3
      <4>2. r[i] = s[i + 1]
        BY <2>5, <2>6, <3>1, <4>1
      <4> QED
        BY <1>1, <3>1, <3>3, <4>2
    <3> QED
      BY <1>1, <2>3, <3>1, <3>2, <3>3
  <2>10. Range(r) \subseteq Range(s)
    BY <2>9 DEF Range
  <2>11. ASSUME NEW i \in DOMAIN s, i # k
         PROVE  s[i] \in Range(r)
    <3>1. CASE i < k
      <4>1. i \in DOMAIN r
        BY <1>1, <2>3, <2>8, <3>1
      <4>2. r[i] = s[i]
        BY <1>1, <2>3, <2>9, <3>1, <4>1
      <4> QED
        BY <4>1, <4>2 DEF Range
    <3>2. CASE i > k
      <4>1. i - 1 \in DOMAIN r /\ i - 1 >= k /\ (i - 1) + 1 = i
        BY <1>1, <2>3, <2>8, <3>2
      <4>2. r[i - 1] = s[i]
        BY <1>1, <2>3, <2>9, <4>1
      <4> QED
        BY <4>1, <4>2 DEF Range
    <3> QED
      BY <1>1, <2>3, <2>11, <3>1, <3>2
  <2>12. Range(s) \ {x} \subseteq Range(r)
    BY <2>3, <2>11 DEF Range
  <2>13. ASSUME IsInjective(s)
         PROVE  IsInjective(r) /\ x \notin Range(r)
    <3>1. ASSUME NEW i \in DOMAIN r
          PROVE  r[i] # x
      <4>1. CASE i < k /\ i \in DOMAIN s /\ r[i] = s[i]
        BY <1>1, <2>3, <2>13, <4>1 DEF IsInjective
      <4>2. CASE i >= k /\ i + 1 \in DOMAIN s /\ r[i] = s[i + 1]
        <5>1. i + 1 # k
          BY <1>1, <2>3, <2>8, <4>2
        <5> QED
          BY <1>1, <2>3, <2>13, <4>2, <5>1 DEF IsInjective
      <4> QED
        BY <2>9, <3>1, <4>1, <4>2
    <3>2. ASSUME NEW i \in DOMAIN r, NEW j \in DOMAIN r, r[i] = r[j]
          PROVE  i = j
      <4>1. i \in Nat /\ j \in Nat /\ k \in Nat
        BY <1>1, <2>3, <2>8
      <4>2. PICK m \in DOMAIN s : r[i] = s[m] /\ ((i < k /\ m = i) \/ (i >= k /\ m = i + 1))
        BY <2>9
      <4>3. PICK n \in DOMAIN s : r[j] = s[n] /\ ((j < k /\ n = j) \/ (j >= k /\ n = j + 1))
        BY <2>9
      <4>4. m = n
        BY <2>13, <3>2, <4>2, <4>3 DEF IsInjective
      <4> QED
        BY <4>1, <4>2, <4>3, <4>4
    <3> QED
      BY <3>1, <3>2 DEF IsInjective, Range
  <2> QED
    BY <1>1, <2>6, <2>7, <2>10, <2>12, <2>13
<1> QED
  BY <1>2, <1>3

\* Induction along the indices of a sequence, for a set of indices.
LEMMA IndexInduction ==
  ASSUME NEW N \in Nat, NEW I, 0 \in I, \A n \in 0 .. N - 1 : n \in I => n + 1 \in I
  PROVE  0 .. N \subseteq I
<1> DEFINE Bad == (0 .. N) \ I
<1> SUFFICES ASSUME Bad # {}
             PROVE  FALSE
  OBVIOUS
<1>1. Bad \in SUBSET Nat /\ \A n \in Bad : n \in 1 .. N
  OBVIOUS
<1> HIDE DEF Bad
<1>2. \E n \in Bad : \A m \in Bad : <<m, n>> \notin OpToRel(<, Nat)
  BY <1>1, NatLessThanWellFounded, WFMin
<1>3. PICK n \in Bad : \A m \in Bad : <<m, n>> \notin OpToRel(<, Nat)
  BY <1>2
<1>4. \A m \in Bad : ~(m < n)
  BY <1>1, <1>3, Zenon DEF OpToRel
<1>5. n \in 1 .. N /\ n - 1 \in 0 .. N - 1 /\ (n - 1) + 1 = n
  BY <1>1
<1>6. n - 1 \notin Bad
  BY <1>4, <1>5
<1> QED
  BY <1>5, <1>6 DEF Bad

\* N steps, each a function on A; and the function whose values are what they lead
\* to from base, taken one after the other.
StepFunctions(N, A) == [1 .. N -> [A -> A]]
Iterates(f, N, A, base, step) ==
  /\ f \in [0 .. N -> A]
  /\ f[0] = base
  /\ \A n \in 1 .. N : f[n] = step[n][f[n - 1]]

\* There is such a function, which is what a recursive definition needs to define one.
LEMMA Iterated ==
  ASSUME NEW N \in Nat, NEW A, NEW base \in A, NEW step \in StepFunctions(N, A)
  PROVE  \E f : Iterates(f, N, A, base, step)
<1> USE DEF StepFunctions
<1> DEFINE Upto(m) == \E f \in [0 .. m -> A] :
                        f[0] = base /\ \A n \in 1 .. m : f[n] = step[n][f[n - 1]]
           I == {m \in 0 .. N : Upto(m)}
<1>1. Upto(0)
  <2> DEFINE e == [n \in 0 .. 0 |-> base]
  <2>1. e \in [0 .. 0 -> A] /\ e[0] = base
    OBVIOUS
  <2> HIDE DEF e
  <2>2. \A n \in 1 .. 0 : e[n] = step[n][e[n - 1]]
    OBVIOUS
  <2> QED
    BY <2>1, <2>2
<1>2. ASSUME NEW m \in 0 .. N - 1, Upto(m)
      PROVE  Upto(m + 1)
  <2>1. PICK f \in [0 .. m -> A] : f[0] = base /\ \A n \in 1 .. m : f[n] = step[n][f[n - 1]]
    BY <1>2
  <2>2. m \in Nat /\ m + 1 \in 1 .. N /\ step[m + 1] \in [A -> A] /\ f[m] \in A
    OBVIOUS
  <2> DEFINE x == step[m + 1][f[m]]
             h == [n \in 0 .. m + 1 |-> IF n = m + 1 THEN x ELSE f[n]]
  <2>3. x \in A
    BY <2>2
  <2> HIDE DEF x
  <2>4. h \in [0 .. m + 1 -> A] /\ h[0] = base /\ h[m + 1] = x /\ \A n \in 0 .. m : h[n] = f[n]
    BY <2>1, <2>2, <2>3
  <2> HIDE DEF h
  <2>5. ASSUME NEW n \in 1 .. m + 1
        PROVE  h[n] = step[n][h[n - 1]]
    <3>1. CASE n = m + 1
      BY <2>2, <2>4, <3>1 DEF x
    <3>2. CASE n # m + 1
      <4>1. n \in 1 .. m /\ n - 1 \in 0 .. m /\ n \in 0 .. m
        BY <2>2, <3>2
      <4> QED
        BY <2>1, <2>4, <4>1
    <3> QED
      BY <3>1, <3>2
  <2> QED
    BY <2>4, <2>5
<1> HIDE DEF Upto
<1>3. 0 .. N \subseteq I
  <2>1. 0 \in I /\ \A m \in 0 .. N - 1 : m \in I => m + 1 \in I
    BY <1>1, <1>2
  <2> HIDE DEF I
  <2> QED
    BY <2>1, IndexInduction
<1>4. Upto(N)
  BY <1>3
<1> QED
  BY <1>4 DEF Upto, Iterates

\* A set listed as a sequence.
LEMMA ListedOnce ==
  ASSUME NEW S, IsFiniteSet(S)
  PROVE  SetToSeq(S) \in Seq(S) /\ Range(SetToSeq(S)) = S /\ IsInjective(SetToSeq(S))
<1>1. PICK n \in Nat : ExistsBijection(1..n, S)
  BY FS_NatBijection
<1>2. n = Cardinality(S)
  BY <1>1, FS_CountingElements
<1>3. PICK b : b \in Bijection(1..n, S)
  BY <1>1 DEF ExistsBijection
<1>4. b \in [1..n -> S] /\ IsInjective(b)
  BY <1>3 DEF Bijection, Injection, IsInjective
<1>5. SetToSeq(S) \in [1..n -> S] /\ IsInjective(SetToSeq(S))
  BY <1>2, <1>4 DEF SetToSeq
<1> DEFINE q == SetToSeq(S)
<1> HIDE DEF q
<1>6. q \in Injection(1..n, S)
  BY <1>5 DEF Injection, IsInjective, q
<1>7. IsFiniteSet(1..n) /\ Cardinality(1..n) = n
  BY <1>1, FS_Interval
<1>8. q \in Surjection(1..n, S)
  BY <1>2, <1>6, <1>7, FS_Injection
<1>9. Range(q) = S /\ q \in Seq(S)
  BY <1>5, <1>8 DEF Surjection, Range, q
<1> QED
  BY <1>5, <1>9 DEF q

\* Taking the last element off a sequence without repetition leaves its front.
LEMMA LastRemoved ==
  ASSUME NEW S, NEW s \in Seq(S), s # <<>>, IsInjective(s)
  PROVE  LET r == RemoveFirst(s, Last(s))
         IN  /\ Len(r) = Len(s) - 1
             /\ \A i \in 1 .. Len(s) - 1 : r[i] = s[i]
<1> DEFINE n == Len(s)
           k == Min({i \in 1..n : s[i] = Last(s)})
<1>1. n \in Nat \ {0} /\ DOMAIN s = 1..n /\ \A i \in 1..n : s[i] \in S
  BY LenProperties, ElementOfSeq, EmptySeq
<1>2. Last(s) = s[n]
  BY DEF Last
<1> HIDE DEF n
<1>3. {i \in 1..n : s[i] = Last(s)} = {n}
  BY <1>1, <1>2 DEF IsInjective
<1>4. k = n
  BY <1>1, <1>3 DEF Min
<1>5. RemoveFirst(s, Last(s)) = SubSeq(s, 1, k - 1) \o SubSeq(s, k + 1, n)
  <2>1. \E i \in 1..Len(s) : s[i] = Last(s)
    BY <1>1, <1>2 DEF n
  <2> QED
    BY <2>1 DEF RemoveFirst, RemoveAt, SelectInSeq, n
<1>6. RemoveFirst(s, Last(s)) = SubSeq(s, 1, n - 1) \o SubSeq(s, n + 1, n)
  BY <1>4, <1>5
<1> DEFINE a == SubSeq(s, 1, n - 1)
           b == SubSeq(s, n + 1, n)
<1>7. /\ a \in Seq(S) /\ Len(a) = n - 1 /\ \A i \in 1 .. n - 1 : a[i] = s[i]
  <2>1. n - 1 \in 0 .. Len(s)
    BY <1>1 DEF n
  <2>2. /\ a \in Seq(S) /\ Len(a) = IF 1 <= n - 1 THEN (n - 1) - 1 + 1 ELSE 0
        /\ \A i \in 1 .. (n - 1) - 1 + 1 : a[i] = s[1 + i - 1]
    BY <1>1, SubSeqProperties
  <2> HIDE DEF a
  <2> QED
    BY <1>1, <2>2
<1>8. b \in Seq(S) /\ Len(b) = 0
  <2>1. b \in Seq(S) /\ Len(b) = IF n + 1 <= n THEN n - (n + 1) + 1 ELSE 0
    BY <1>1, SubSeqProperties
  <2> HIDE DEF b
  <2> QED
    BY <1>1, <2>1
<1> HIDE DEF a, b
<1>9. /\ Len(a \o b) = Len(a) + Len(b)
      /\ \A i \in 1 .. Len(a) + Len(b) : (a \o b)[i] = IF i <= Len(a) THEN a[i] ELSE b[i - Len(a)]
  BY <1>7, <1>8, ConcatProperties
<1>10. Len(a \o b) = n - 1 /\ \A i \in 1 .. n - 1 : (a \o b)[i] = s[i]
  BY <1>1, <1>7, <1>8, <1>9
<1>11. RemoveFirst(s, Last(s)) = a \o b
  BY <1>6 DEF a, b
<1> QED
  BY <1>10, <1>11 DEF n

\* A concatenation holds the elements of both parts, repeated or not.
LEMMA ConcatRange ==
  ASSUME NEW S, NEW s \in Seq(S), NEW t \in Seq(S)
  PROVE  s \o t \in Seq(S) /\ Range(s \o t) = Range(s) \cup Range(t)
<1>1. /\ s \o t \in Seq(S)
      /\ Len(s \o t) = Len(s) + Len(t)
      /\ \A i \in 1 .. Len(s) + Len(t) :
           (s \o t)[i] = IF i <= Len(s) THEN s[i] ELSE t[i - Len(s)]
  BY ConcatProperties
<1>2. /\ Len(s) \in Nat /\ DOMAIN s = 1 .. Len(s)
      /\ Len(t) \in Nat /\ DOMAIN t = 1 .. Len(t)
      /\ DOMAIN (s \o t) = 1 .. Len(s) + Len(t)
  BY <1>1, LenProperties
<1> DEFINE c == s \o t
<1> HIDE DEF c
<1>3. ASSUME NEW i \in DOMAIN c
      PROVE  c[i] \in Range(s) \cup Range(t)
  <2>1. CASE i <= Len(s)
    <3>1. i \in DOMAIN s /\ c[i] = s[i]
      BY <1>1, <1>2, <2>1 DEF c
    <3> QED
      BY <3>1 DEF Range
  <2>2. CASE ~(i <= Len(s))
    <3>1. i - Len(s) \in DOMAIN t /\ c[i] = t[i - Len(s)]
      BY <1>1, <1>2, <2>2 DEF c
    <3> QED
      BY <3>1 DEF Range
  <2> QED
    BY <2>1, <2>2
<1>4. ASSUME NEW i \in DOMAIN s
      PROVE  s[i] \in Range(c)
  <2>1. i \in DOMAIN c /\ c[i] = s[i]
    BY <1>1, <1>2 DEF c
  <2> QED
    BY <2>1 DEF Range
<1>5. ASSUME NEW i \in DOMAIN t
      PROVE  t[i] \in Range(c)
  <2>1. i + Len(s) \in DOMAIN c /\ ~(i + Len(s) <= Len(s)) /\ (i + Len(s)) - Len(s) = i
    BY <1>2 DEF c
  <2>2. c[i + Len(s)] = t[i]
    BY <1>1, <1>2, <2>1 DEF c
  <2> QED
    BY <2>1, <2>2 DEF Range
<1>6. Range(c) = Range(s) \cup Range(t)
  BY <1>3, <1>4, <1>5 DEF Range
<1> QED
  BY <1>1, <1>6 DEF c

\* The first element of a sequence and the rest of it, repeated or not.
LEMMA TailRange ==
  ASSUME NEW S, NEW s \in Seq(S), s # <<>>
  PROVE  /\ Head(s) \in S /\ Tail(s) \in Seq(S) /\ Len(Tail(s)) = Len(s) - 1
         /\ Range(s) = {Head(s)} \cup Range(Tail(s))
<1>1. /\ Head(s) \in S
      /\ Tail(s) \in Seq(S)
      /\ Len(Tail(s)) = Len(s) - 1
      /\ \A i \in 1..Len(Tail(s)) : Tail(s)[i] = s[i + 1]
  BY HeadTailProperties
<1>2. /\ Len(s) \in Nat \ {0} /\ DOMAIN s = 1..Len(s)
      /\ DOMAIN Tail(s) = 1 .. Len(s) - 1
  BY <1>1, LenProperties, EmptySeq
<1>3. Head(s) = s[1] /\ 1 \in DOMAIN s
  BY <1>2
<1>4. ASSUME NEW i \in DOMAIN s, i # 1
      PROVE  s[i] \in Range(Tail(s))
  <2>1. i - 1 \in DOMAIN Tail(s) /\ (i - 1) + 1 = i
    BY <1>2, <1>4
  <2>2. Tail(s)[i - 1] = s[i]
    BY <1>1, <1>2, <2>1
  <2> QED
    BY <2>1, <2>2 DEF Range
<1>5. ASSUME NEW i \in DOMAIN Tail(s)
      PROVE  Tail(s)[i] \in Range(s)
  <2>1. i + 1 \in DOMAIN s /\ Tail(s)[i] = s[i + 1]
    BY <1>1, <1>2
  <2> QED
    BY <2>1 DEF Range
<1>6. Range(s) = {Head(s)} \cup Range(Tail(s))
  BY <1>3, <1>4, <1>5 DEF Range
<1> QED
  BY <1>1, <1>6

\* A function on an interval from 1 is a sequence.
LEMMA FunctionIsSeq ==
  ASSUME NEW S, NEW n \in Nat, NEW f \in [1 .. n -> S]
  PROVE  f \in Seq(S) /\ Len(f) = n
  OBVIOUS

\* A set of naturals has a least element, and a bounded one a greatest.
LEMMA LeastExists ==
  ASSUME NEW I \in SUBSET Nat, I # {}
  PROVE  \E i \in I : \A j \in I : i <= j
<1>1. \E i \in I : \A j \in I : <<j, i>> \notin OpToRel(<, Nat)
  BY NatLessThanWellFounded, WFMin
<1>2. PICK i \in I : \A j \in I : <<j, i>> \notin OpToRel(<, Nat)
  BY <1>1
<1>3. \A j \in I : ~(j < i)
  BY <1>2, Zenon DEF OpToRel
<1> QED
  BY <1>3

LEMMA GreatestExists ==
  ASSUME NEW n \in Nat, NEW I \in SUBSET (0 .. n), I # {}
  PROVE  \E i \in I : \A j \in I : j <= i
<1> DEFINE Below == {m \in Nat : \A j \in I : j <= m}
<1>1. n \in Below
  OBVIOUS
<1>2. PICK m \in Below : \A k \in Below : m <= k
  <2>1. Below \in SUBSET Nat /\ Below # {}
    BY <1>1
  <2> HIDE DEF Below
  <2> QED
    BY <2>1, LeastExists
<1>3. m \in I
  <2> SUFFICES ASSUME m \notin I
               PROVE  FALSE
    OBVIOUS
  <2>1. PICK i \in I : TRUE
    OBVIOUS
  <2>2. m \in Nat /\ m # 0
    BY <2>1
  <2>3. \A j \in I : j <= m - 1
    BY <2>2
  <2>4. m - 1 \in Below
    BY <2>2, <2>3
  <2> QED
    BY <1>2, <2>2, <2>4
<1> QED
  BY <1>3

\* Taking an element out by its index.
LEMMA RemovedAt ==
  ASSUME NEW S, NEW s \in Seq(S), NEW k \in DOMAIN s
  PROVE  /\ RemoveAt(s, k) \in Seq(S) /\ Len(RemoveAt(s, k)) = Len(s) - 1
         /\ IsInjective(s) => /\ IsInjective(RemoveAt(s, k))
                              /\ Range(RemoveAt(s, k)) = Range(s) \ {s[k]}
<1>1. Len(s) \in Nat /\ DOMAIN s = 1..Len(s) /\ \A i \in 1..Len(s) : s[i] \in S
  BY LenProperties, ElementOfSeq
<1> DEFINE a == SubSeq(s, 1, k - 1)
           b == SubSeq(s, k + 1, Len(s))
<1>2. a \in Seq(S) /\ Len(a) = k - 1
  <2>1. \A i \in 1 .. k - 1 : s[i] \in S
    BY <1>1
  <2>2. a \in Seq(S) /\ Len(a) = IF 1 <= k - 1 THEN (k - 1) - 1 + 1 ELSE 0
    BY <1>1, <2>1, SubSeqProperties
  <2> HIDE DEF a
  <2> QED
    BY <1>1, <2>2
<1>3. b \in Seq(S) /\ Len(b) = Len(s) - k
  <2>1. \A i \in k + 1 .. Len(s) : s[i] \in S
    BY <1>1
  <2>2. b \in Seq(S) /\ Len(b) = IF k + 1 <= Len(s) THEN Len(s) - (k + 1) + 1 ELSE 0
    BY <1>1, <2>1, SubSeqProperties
  <2> HIDE DEF b
  <2>3. k \in Nat /\ k <= Len(s) /\ Len(s) \in Nat
    BY <1>1
  <2> QED
    BY <2>2, <2>3
<1>4. RemoveAt(s, k) = a \o b
  BY DEF RemoveAt
<1> HIDE DEF a, b
<1>5. a \o b \in Seq(S) /\ Len(a \o b) = Len(s) - 1
  <2>1. a \o b \in Seq(S) /\ Len(a \o b) = Len(a) + Len(b)
    BY <1>2, <1>3, ConcatProperties
  <2> QED
    BY <1>1, <1>2, <1>3, <2>1
<1>6. ASSUME IsInjective(s)
      PROVE  RemoveAt(s, k) = RemoveFirst(s, s[k])
  <2>1. {i \in 1..Len(s) : s[i] = s[k]} = {k}
    BY <1>1, <1>6 DEF IsInjective
  <2>2. Min({i \in 1..Len(s) : s[i] = s[k]}) = k
    BY <1>1, <2>1 DEF Min
  <2>3. \E i \in 1..Len(s) : s[i] = s[k]
    BY <1>1
  <2> QED
    BY <2>2, <2>3 DEF RemoveFirst, SelectInSeq
<1>7. ASSUME IsInjective(s)
      PROVE  IsInjective(RemoveAt(s, k)) /\ Range(RemoveAt(s, k)) = Range(s) \ {s[k]}
  <2> DEFINE x == s[k]
  <2> HIDE DEF x
  <2>1. /\ Range(RemoveFirst(s, x)) \subseteq Range(s) /\ Range(s) \ {x} \subseteq Range(RemoveFirst(s, x))
        /\ IsInjective(RemoveFirst(s, x)) /\ x \notin Range(RemoveFirst(s, x))
    BY <1>7, Removed
  <2> QED
    BY <1>6, <1>7, <2>1 DEF x
<1> QED
  BY <1>4, <1>5, <1>7

=============================================================================
