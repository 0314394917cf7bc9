-------------------------- MODULE OskitQueueProofs --------------------------
(***************************************************************************)
(* What the queue operations do to the set of elements of a queue, and     *)
(* that they keep its elements distinct.                                   *)
(***************************************************************************)
EXTENDS OskitQueue, TLAPS

\* A sequence is a function on the numbers from 1 to its length.
LEMMA SeqLength ==
  ASSUME NEW S, NEW q \in Seq(S)
  PROVE  Len(q) \in Nat /\ DOMAIN q = 1 .. Len(q) /\ q \in [1 .. Len(q) -> S]
  OBVIOUS

\* The empty sequence is the only one of length 0.
LEMMA SeqNonempty ==
  ASSUME NEW S
  PROVE  <<>> \in Seq(S) /\ Len(<<>>) = 0 /\ \A q \in Seq(S) : q # <<>> => Len(q) \in Nat \ {0}
  OBVIOUS

\* Append adds its element behind the others.
LEMMA SeqAppend ==
  ASSUME NEW S, NEW q \in Seq(S), NEW x \in S
  PROVE  /\ Append(q, x) \in Seq(S) /\ Append(q, x) # <<>> /\ Len(Append(q, x)) = Len(q) + 1
         /\ \A i \in 1 .. Len(q) : Append(q, x)[i] = q[i]
         /\ Append(q, x)[Len(q) + 1] = x
  OBVIOUS

\* Head and Tail of a sequence that is not empty.
LEMMA SeqTail ==
  ASSUME NEW S, NEW q \in Seq(S), q # <<>>
  PROVE  /\ Head(q) \in S /\ Tail(q) \in Seq(S) /\ Len(Tail(q)) = Len(q) - 1
         /\ \A i \in 1 .. Len(Tail(q)) : Tail(q)[i] = q[i + 1]
  OBVIOUS

\* Concatenation puts the second sequence behind the first.
LEMMA SeqConcat ==
  ASSUME NEW S, NEW q \in Seq(S), NEW r \in Seq(S)
  PROVE  /\ q \o r \in Seq(S) /\ Len(q \o r) = Len(q) + Len(r)
         /\ \A i \in 1 .. Len(q) + Len(r) : (q \o r)[i] = IF i <= Len(q) THEN q[i] ELSE r[i - Len(q)]
  OBVIOUS

\* SubSeq takes the elements from i to j.
LEMMA SeqSlice ==
  ASSUME NEW S, NEW q, NEW i \in Int, NEW j \in Int, \A k \in i .. j : q[k] \in S
  PROVE  /\ SubSeq(q, i, j) \in Seq(S)
         /\ Len(SubSeq(q, i, j)) = IF i <= j THEN j - i + 1 ELSE 0
         /\ \A k \in 1 .. j - i + 1 : SubSeq(q, i, j)[k] = q[i + k - 1]
  OBVIOUS

\* queue_enter adds its element and keeps the elements distinct.
LEMMA EnterLemma ==
  ASSUME NEW S, NEW q \in Seq(S), NEW t \in S
  PROVE  /\ Append(q, t) \in Seq(S)
         /\ Append(q, t) # <<>>
         /\ Range(Append(q, t)) = Range(q) \cup {t}
         /\ IsInjective(q) /\ t \notin Range(q) => IsInjective(Append(q, t))
  <1> DEFINE r == Append(q, t)
  <1>1. /\ r \in Seq(S) /\ r # <<>> /\ Len(r) = Len(q) + 1
        /\ \A i \in 1 .. Len(q) : r[i] = q[i]
        /\ r[Len(q) + 1] = t
    BY SeqAppend
  <1>2. DOMAIN q = 1 .. Len(q) /\ DOMAIN r = 1 .. Len(q) + 1 /\ Len(q) \in Nat
    BY <1>1, SeqLength
  <1> HIDE DEF r
  <1>3. Range(r) = Range(q) \cup {t}
    BY <1>1, <1>2 DEF Range
  <1>4. ASSUME IsInjective(q), t \notin Range(q) PROVE IsInjective(r)
    BY <1>1, <1>2, <1>4 DEF Range, IsInjective
  <1> QED BY <1>1, <1>3, <1>4 DEF r

\* queue_enter_first does the same at the other end.
LEMMA EnterFirstLemma ==
  ASSUME NEW S, NEW q \in Seq(S), NEW t \in S
  PROVE  /\ queue_enter_first(q, t) \in Seq(S)
         /\ queue_enter_first(q, t) # <<>>
         /\ Range(queue_enter_first(q, t)) = Range(q) \cup {t}
         /\ IsInjective(q) /\ t \notin Range(q) => IsInjective(queue_enter_first(q, t))
  <1> DEFINE r == <<t>> \o q
  <1>0. <<t>> \in Seq(S) /\ Len(<<t>>) = 1 /\ <<t>>[1] = t
    OBVIOUS
  <1>1. /\ r \in Seq(S) /\ Len(r) = Len(q) + 1
        /\ r[1] = t
        /\ \A i \in 2 .. Len(q) + 1 : r[i] = q[i - 1]
    BY <1>0, SeqConcat, SeqLength
  <1>2. DOMAIN q = 1 .. Len(q) /\ DOMAIN r = 1 .. Len(q) + 1 /\ Len(q) \in Nat
    BY <1>1, SeqLength
  <1> HIDE DEF r
  <1>3. Range(r) = Range(q) \cup {t}
    <2>1. ASSUME NEW x \in Range(q) PROVE x \in Range(r)
      <3> PICK i \in 1 .. Len(q) : x = q[i]  BY <1>2 DEF Range
      <3> i + 1 \in 2 .. Len(q) + 1 /\ r[i + 1] = q[i]  BY <1>1, <1>2
      <3> QED BY <1>2 DEF Range
    <2>2. ASSUME NEW x \in Range(r), x # t PROVE x \in Range(q)
      <3> PICK i \in 1 .. Len(q) + 1 : x = r[i]  BY <1>2 DEF Range
      <3> i # 1  BY <1>1, <2>2
      <3> i - 1 \in 1 .. Len(q) /\ r[i] = q[i - 1]  BY <1>1, <1>2
      <3> QED BY <1>2 DEF Range
    <2>3. t \in Range(r)  BY <1>1, <1>2 DEF Range
    <2> QED BY <2>1, <2>2, <2>3
  <1>4. ASSUME IsInjective(q), t \notin Range(q) PROVE IsInjective(r)
    <2> SUFFICES ASSUME NEW i \in 1 .. Len(q) + 1, NEW j \in 1 .. Len(q) + 1, r[i] = r[j]
                 PROVE  i = j
      BY <1>2 DEF IsInjective
    <2>1. ASSUME NEW k \in 2 .. Len(q) + 1
          PROVE  r[k] = q[k - 1] /\ r[k] \in Range(q) /\ k - 1 \in DOMAIN q
      <3>1. k - 1 \in DOMAIN q  BY <1>2
      <3>2. r[k] = q[k - 1]  BY <1>1
      <3> QED BY <3>1, <3>2 DEF Range
    <2>2. CASE i = 1 \/ j = 1
      BY <1>1, <1>2, <1>4, <2>1, <2>2
    <2>3. CASE i # 1 /\ j # 1
      <3>1. i - 1 = j - 1  BY SMTT(30), <1>2, <1>4, <2>1, <2>3 DEF IsInjective
      <3> QED BY <3>1
    <2> QED BY <2>2, <2>3
  <1>5. r # <<>>  BY <1>1, <1>2, SeqNonempty
  <1> QED BY <1>1, <1>3, <1>4, <1>5 DEF r, queue_enter_first

\* queue_remove_first takes the head out, once.
LEMMA RemoveFirstLemma ==
  ASSUME NEW S, NEW q \in Seq(S), q # <<>>, IsInjective(q)
  PROVE  /\ Head(q) \in Range(q)
         /\ Tail(q) \in Seq(S)
         /\ Range(Tail(q)) = Range(q) \ {Head(q)}
         /\ IsInjective(Tail(q))
  <1> DEFINE r == Tail(q)
  <1>1. /\ Head(q) = q[1] /\ Len(q) \in Nat \ {0}
        /\ r \in Seq(S) /\ Len(r) = Len(q) - 1
        /\ \A i \in 1 .. Len(q) - 1 : r[i] = q[i + 1]
    BY SeqTail, SeqNonempty
  <1>2. DOMAIN q = 1 .. Len(q) /\ DOMAIN r = 1 .. Len(q) - 1
    BY <1>1, SeqLength
  <1> HIDE DEF r
  <1>3. ASSUME NEW x \in Range(r) PROVE x \in Range(q) /\ x # q[1]
    <2> PICK i \in 1 .. Len(q) - 1 : x = r[i]  BY <1>2 DEF Range
    <2> i + 1 \in 1 .. Len(q) /\ x = q[i + 1] /\ i + 1 # 1  BY <1>1
    <2> QED BY <1>1, <1>2 DEF Range, IsInjective
  <1>4. ASSUME NEW x \in Range(q), x # q[1] PROVE x \in Range(r)
    <2> PICK i \in 1 .. Len(q) : x = q[i]  BY <1>2 DEF Range
    <2> i - 1 \in 1 .. Len(q) - 1 /\ r[i - 1] = q[i]  BY <1>1, <1>4
    <2> QED BY <1>2 DEF Range
  <1>5. IsInjective(r)
    <2> SUFFICES ASSUME NEW i \in 1 .. Len(q) - 1, NEW j \in 1 .. Len(q) - 1, r[i] = r[j]
                 PROVE  i = j
      BY <1>2 DEF IsInjective
    <2>1. i + 1 \in DOMAIN q /\ j + 1 \in DOMAIN q /\ q[i + 1] = q[j + 1]
      BY <1>1, <1>2
    <2>2. i + 1 = j + 1  BY <2>1 DEF IsInjective
    <2> QED BY <2>2
  <1>6. q[1] \in Range(q)  BY SMTT(30), <1>1, <1>2 DEF Range
  <1> QED BY <1>1, <1>3, <1>4, <1>5, <1>6 DEF r

\* queue_remove takes the thread out, wherever it is, and nothing else.
LEMMA RemoveLemma ==
  ASSUME NEW S, NEW q \in Seq(S), IsInjective(q), NEW t \in Range(q)
  PROVE  /\ queue_remove(q, t) \in Seq(S)
         /\ Range(queue_remove(q, t)) = Range(q) \ {t}
         /\ IsInjective(queue_remove(q, t))
  <1> DEFINE k == CHOOSE i \in DOMAIN q : q[i] = t
             a == SubSeq(q, 1, k - 1)
             b == SubSeq(q, k + 1, Len(q))
             r == a \o b
  <1>0. DOMAIN q = 1 .. Len(q) /\ Len(q) \in Nat /\ \A i \in 1 .. Len(q) : q[i] \in S
    BY SeqLength
  <1>1. k \in 1 .. Len(q) /\ q[k] = t
    BY <1>0 DEF Range
  <1> HIDE DEF k
  <1>2. a \in Seq(S) /\ Len(a) = k - 1 /\ \A i \in 1 .. k - 1 : a[i] = q[i]
    <2>1. \A i \in 1 .. k - 1 : q[i] \in S  BY <1>0, <1>1
    <2>2. 1 \in Int /\ k - 1 \in Int  BY <1>0, <1>1
    <2> HIDE DEF a
    <2>3. /\ a \in Seq(S) /\ Len(a) = IF 1 <= k - 1 THEN (k - 1) - 1 + 1 ELSE 0
          /\ \A i \in 1 .. (k - 1) - 1 + 1 : a[i] = q[1 + i - 1]
      BY <2>1, <2>2, SeqSlice DEF a
    <2> QED BY <2>3, <1>0, <1>1
  <1>3. b \in Seq(S) /\ Len(b) = Len(q) - k /\ \A i \in 1 .. Len(q) - k : b[i] = q[k + i]
    <2>1. \A i \in k + 1 .. Len(q) : q[i] \in S  BY <1>0, <1>1
    <2>2. k + 1 \in Int /\ Len(q) \in Int  BY <1>0, <1>1
    <2> HIDE DEF b
    <2>3. /\ b \in Seq(S) /\ Len(b) = IF k + 1 <= Len(q) THEN Len(q) - (k + 1) + 1 ELSE 0
          /\ \A i \in 1 .. Len(q) - (k + 1) + 1 : b[i] = q[(k + 1) + i - 1]
      BY SMTT(30), <2>1, <2>2, SeqSlice DEF b
    <2>4. Len(q) - (k + 1) + 1 = Len(q) - k /\ (~(k + 1 <= Len(q)) => Len(q) - k = 0)
      <3>1. ASSUME NEW n \in Nat, NEW m \in 1 .. n
            PROVE  n - (m + 1) + 1 = n - m /\ (~(m + 1 <= n) => n - m = 0)
        OBVIOUS
      <3> QED BY Zenon, <3>1, <1>0, <1>1
    <2>5. \A i \in 1 .. Len(q) - k : (k + 1) + i - 1 = k + i
      BY <1>0, <1>1
    <2> QED BY <2>3, <2>4, <2>5
  <1> HIDE DEF a, b
  <1>4. /\ r \in Seq(S)
        /\ Len(r) = Len(q) - 1
        /\ \A i \in 1 .. Len(q) - 1 : r[i] = IF i <= k - 1 THEN q[i] ELSE q[i + 1]
    <2>1. /\ r \in Seq(S) /\ Len(r) = Len(a) + Len(b)
          /\ \A i \in 1 .. Len(a) + Len(b) : r[i] = IF i <= Len(a) THEN a[i] ELSE b[i - Len(a)]
      BY Zenon, <1>2, <1>3, SeqConcat
    <2> HIDE DEF r
    <2>2. Len(a) + Len(b) = Len(q) - 1  BY <1>0, <1>1, <1>2, <1>3
    <2>3. ASSUME NEW i \in 1 .. Len(q) - 1 PROVE r[i] = IF i <= k - 1 THEN q[i] ELSE q[i + 1]
      <3>1. CASE i <= k - 1  BY <3>1, <2>1, <2>2, <1>0, <1>1, <1>2
      <3>2. CASE ~(i <= k - 1)
        <4>1. r[i] = b[i - (k - 1)]  BY <3>2, <2>1, <2>2, <1>0, <1>1, <1>2
        <4>2. i - (k - 1) \in 1 .. Len(q) - k  BY <3>2, <1>0, <1>1
        <4>3. b[i - (k - 1)] = q[k + (i - (k - 1))]  BY <4>2, <1>3
        <4>4. k + (i - (k - 1)) = i + 1  BY <1>0, <1>1
        <4> QED BY <3>2, <4>1, <4>3, <4>4
      <3> QED BY <3>1, <3>2
    <2> QED BY <2>1, <2>2, <2>3
  <1>5. DOMAIN r = 1 .. Len(q) - 1  BY <1>4, SeqLength
  <1> HIDE DEF r
  <1>6. ASSUME NEW x \in Range(r) PROVE x \in Range(q) /\ x # t
    <2> PICK i \in 1 .. Len(q) - 1 : x = r[i]  BY <1>5 DEF Range
    <2>1. \E j \in DOMAIN q : x = q[j] /\ j # k  BY SMTT(30), <1>0, <1>1, <1>4
    <2> QED BY <2>1, <1>0, <1>1 DEF Range, IsInjective
  <1>7. ASSUME NEW x \in Range(q), x # t PROVE x \in Range(r)
    <2> PICK i \in 1 .. Len(q) : x = q[i]  BY <1>0 DEF Range
    <2>1. i # k  BY <1>1, <1>7
    <2>2. CASE i <= k - 1  BY <2>2, <1>0, <1>1, <1>4, <1>5 DEF Range
    <2>3. CASE ~(i <= k - 1)
      <3>1. i - 1 \in 1 .. Len(q) - 1 /\ ~(i - 1 <= k - 1)  BY <2>1, <2>3, <1>0, <1>1
      <3>2. r[i - 1] = q[i]  BY <3>1, <1>4
      <3> QED BY <3>1, <3>2, <1>5 DEF Range
    <2> QED BY <2>2, <2>3
  <1>8. IsInjective(r)
    <2> SUFFICES ASSUME NEW i \in 1 .. Len(q) - 1, NEW j \in 1 .. Len(q) - 1, r[i] = r[j]
                 PROVE  i = j
      BY <1>5 DEF IsInjective
    <2> DEFINE up(n) == IF n <= k - 1 THEN n ELSE n + 1
    <2>1. r[i] = q[up(i)] /\ r[j] = q[up(j)] /\ up(i) \in DOMAIN q /\ up(j) \in DOMAIN q
      BY <1>0, <1>1, <1>4
    <2>2. up(i) = up(j)  BY Zenon, <2>1 DEF IsInjective
    <2> QED BY <2>2, <1>0, <1>1
  <1> QED BY Zenon, <1>4, <1>6, <1>7, <1>8 DEF r, a, b, k, queue_remove
=============================================================================
