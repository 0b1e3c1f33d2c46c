----------------------------- MODULE ListFacts ------------------------------
(***************************************************************************)
(* What the operations on linked lists of lib/linked_list.c and of Linux   *)
(* do to the lists, as sequences.                                          *)
(***************************************************************************)
EXTENDS SequencesExt, SequenceTheorems, FiniteSetTheorems, WellFoundedInduction, TLAPS

(* The least element of a set of positions. *)
LEMMA LeastPosition ==
    ASSUME NEW n \in Nat, NEW I \in SUBSET (1 .. n), I # {}
    PROVE  Min(I) \in I /\ \A j \in I : Min(I) <= j
  <1> DEFINE Up(k) == 1 .. k
             T == {Up(k) : k \in I}
  <1>1. IsWellFoundedOn(StrictSubsetOrdering(1 .. n), FiniteSubsetsOf(1 .. n))
    BY FS_StrictSubsetOrderingWellFounded
  <1>2. FiniteSubsetsOf(1 .. n) = SUBSET (1 .. n)
    <2>1. IsFiniteSet(1 .. n)
      BY FS_Interval
    <2> QED BY <2>1, FS_FiniteSubsetsOfFinite
  <1>3. T \subseteq SUBSET (1 .. n) /\ T # {}
    <2>1. \A k \in I : Up(k) \subseteq 1 .. n
      OBVIOUS
    <2>2. PICK k \in I : TRUE
      OBVIOUS
    <2>3. Up(k) \in T
      OBVIOUS
    <2> QED BY <2>1, <2>3
  <1>4. PICK U \in T : \A V \in T : ~(<<V, U>> \in StrictSubsetOrdering(1 .. n))
    BY <1>1, <1>2, <1>3, WFMin
  <1>5. PICK m \in I : U = Up(m)
    OBVIOUS
  <1>6. ASSUME NEW j \in I PROVE m <= j
    <2> SUFFICES ASSUME j < m PROVE FALSE
      OBVIOUS
    <2>1. Up(j) \in T /\ Up(j) \subseteq U /\ Up(j) # U
      BY <1>5
    <2> QED BY <1>3, <1>4, <2>1 DEF StrictSubsetOrdering
  <1> QED BY <1>6 DEF Min

(* list_add_tail keeps the head of a list and adds one entry. *)
LEMMA ListAdd ==
    ASSUME NEW S, NEW q \in Seq(S), NEW e \in S
    PROVE  /\ Append(q, e) \in Seq(S) /\ Append(q, e) # <<>>
           /\ q # <<>> => Head(Append(q, e)) = Head(q)
           /\ Range(Append(q, e)) = Range(q) \cup {e}
           /\ IsInjective(q) /\ e \notin Range(q) => IsInjective(Append(q, e))
  <1>1. /\ Append(q, e) \in Seq(S) /\ Len(Append(q, e)) = Len(q) + 1 /\ Append(q, e) # <<>>
        /\ \A i \in 1 .. Len(q) : Append(q, e)[i] = q[i]
        /\ Append(q, e)[Len(q) + 1] = e
    BY AppendProperties
  <1>2. /\ Len(q) \in Nat /\ DOMAIN q = 1 .. Len(q)
        /\ DOMAIN Append(q, e) = 1 .. Len(q) + 1
    BY <1>1, LenProperties
  <1>3. q # <<>> => Head(Append(q, e)) = Head(q)
    BY HeadTailAppend
  <1>4. Range(Append(q, e)) = Range(q) \cup {e}
    BY <1>1, <1>2 DEF Range
  <1>5. IsInjective(q) /\ e \notin Range(q) => IsInjective(Append(q, e))
    BY <1>1, <1>2 DEF IsInjective, Range
  <1> QED BY <1>1, <1>3, <1>4, <1>5

(* An entry taken out at position m: the ones behind it move up. *)
LEMMA RemoveAtPosition ==
    ASSUME NEW S, NEW q \in Seq(S), NEW m \in 1 .. Len(q)
    PROVE  /\ RemoveAt(q, m) \in Seq(S) /\ Len(RemoveAt(q, m)) = Len(q) - 1
           /\ DOMAIN RemoveAt(q, m) = 1 .. Len(q) - 1
           /\ \A i \in 1 .. Len(q) - 1 : RemoveAt(q, m)[i] = IF i < m THEN q[i] ELSE q[i + 1]
  <1> DEFINE A == SubSeq(q, 1, m - 1)
             B == SubSeq(q, m + 1, Len(q))
             r == RemoveAt(q, m)
  <1>1. /\ Len(q) \in Nat /\ DOMAIN q = 1 .. Len(q) /\ m \in 1 .. Len(q)
        /\ \A i \in 1 .. Len(q) : q[i] \in S
    BY LenProperties, ElementOfSeq
  <1>2. r = A \o B
    BY DEF RemoveAt
  <1> HIDE DEF r
  <1>3. A \in Seq(S) /\ Len(A) = m - 1 /\ \A i \in 1 .. m - 1 : A[i] = q[i]
    <2>1. \A i \in 1 .. m - 1 : q[i] \in S
      BY <1>1
    <2> QED BY <1>1, <2>1, SubSeqProperties
  <1>4. B \in Seq(S) /\ Len(B) = Len(q) - m /\ \A i \in 1 .. Len(q) - m : B[i] = q[m + i]
    <2>1. /\ m + 1 \in Int /\ Len(q) \in Int
          /\ \A i \in m + 1 .. Len(q) : q[i] \in S
      BY <1>1
    <2>2. /\ B \in Seq(S) /\ Len(B) = IF m + 1 <= Len(q) THEN Len(q) - (m + 1) + 1 ELSE 0
          /\ \A i \in 1 .. Len(q) - (m + 1) + 1 : B[i] = q[(m + 1) + i - 1]
      BY <2>1, SubSeqProperties
    <2> HIDE DEF B
    <2>3. /\ Len(q) - (m + 1) + 1 = Len(q) - m
          /\ (IF m + 1 <= Len(q) THEN Len(q) - (m + 1) + 1 ELSE 0) = Len(q) - m
      <3>1. \A n \in Nat : \A k \in 1 .. n :
              n - (k + 1) + 1 = n - k /\ (k + 1 <= n \/ n - k = 0)
        OBVIOUS
      <3> QED BY <1>1, <3>1
    <2>4. ASSUME NEW i \in 1 .. Len(q) - m PROVE B[i] = q[m + i]
      <3>1. B[i] = q[(m + 1) + i - 1]
        BY <2>2, <2>3
      <3>2. (m + 1) + i - 1 = m + i
        BY <1>1
      <3> QED BY <3>1, <3>2
    <2> QED BY <2>2, <2>3, <2>4
  <1>5. /\ r \in Seq(S) /\ Len(r) = Len(q) - 1 /\ DOMAIN r = 1 .. Len(q) - 1
        /\ \A i \in 1 .. Len(q) - 1 : r[i] = IF i < m THEN q[i] ELSE q[i + 1]
    <2> HIDE DEF A, B
    <2>1. /\ A \o B \in Seq(S) /\ Len(A \o B) = Len(A) + Len(B)
          /\ \A i \in 1 .. Len(A) + Len(B) : (A \o B)[i] =
                  IF i <= Len(A) THEN A[i] ELSE B[i - Len(A)]
      BY <1>3, <1>4, ConcatProperties
    <2>2. r = A \o B
      BY <1>2
    <2>3. r \in Seq(S) /\ Len(r) = Len(q) - 1
      <3>1. r \in Seq(S) /\ Len(r) = (m - 1) + (Len(q) - m)
        BY <1>3, <1>4, <2>1, <2>2
      <3>2. (m - 1) + (Len(q) - m) = Len(q) - 1
        BY <1>1
      <3> QED BY <3>1, <3>2
    <2>4. DOMAIN r = 1 .. Len(q) - 1
      BY <2>3, LenProperties
    <2>5. ASSUME NEW i \in 1 .. Len(q) - 1 PROVE r[i] = IF i < m THEN q[i] ELSE q[i + 1]
      <3>1. r[i] = IF i <= m - 1 THEN A[i] ELSE B[i - (m - 1)]
        BY <1>1, <1>3, <1>4, <2>1, <2>2
      <3>2. CASE i < m
        BY <1>1, <1>3, <3>1, <3>2
      <3>3. CASE i >= m
        <4>1. i - (m - 1) \in 1 .. Len(q) - m /\ m + (i - (m - 1)) = i + 1
          BY <1>1, <3>3
        <4>2. B[i - (m - 1)] = q[m + (i - (m - 1))]
          BY <1>4, <4>1
        <4> QED BY <1>1, <3>1, <3>3, <4>1, <4>2
      <3> QED BY <1>1, <3>2, <3>3
    <2> QED BY <2>3, <2>4, <2>5
  <1> QED BY <1>5 DEF r

(* list_del removes one entry, and keeps the head when it is another. *)
LEMMA ListDel ==
    ASSUME NEW S, NEW q \in Seq(S), NEW e
    PROVE  /\ RemoveFirst(q, e) \in Seq(S)
           /\ Range(q) \ {e} \subseteq Range(RemoveFirst(q, e))
           /\ Range(RemoveFirst(q, e)) \subseteq Range(q)
           /\ q # <<>> /\ Head(q) # e
                => RemoveFirst(q, e) # <<>> /\ Head(RemoveFirst(q, e)) = Head(q)
           /\ IsInjective(q)
                => IsInjective(RemoveFirst(q, e)) /\ e \notin Range(RemoveFirst(q, e))
  <1> DEFINE I == {i \in 1 .. Len(q) : q[i] = e}
             r == RemoveFirst(q, e)
  <1>1. /\ Len(q) \in Nat /\ DOMAIN q = 1 .. Len(q)
        /\ \A i \in 1 .. Len(q) : q[i] \in S
        /\ q # <<>> => Len(q) > 0 /\ Head(q) = q[1]
    BY LenProperties, EmptySeq, ElementOfSeq
  <1>2. CASE I = {}
    <2>1. r = q
      BY <1>2 DEF RemoveFirst
    <2> QED BY <1>1, <1>2, <2>1 DEF Range
  <1>3. CASE I # {}
    <2> DEFINE m == Min(I)
    <2>1. m \in 1 .. Len(q) /\ q[m] = e /\ \A j \in 1 .. Len(q) : q[j] = e => m <= j
      BY <1>1, <1>3, LeastPosition
    <2>2. r = RemoveAt(q, m)
      BY <1>3 DEF RemoveFirst, SelectInSeq
    <2> HIDE DEF m, I, r
    <2>5. /\ r \in Seq(S) /\ Len(r) = Len(q) - 1 /\ DOMAIN r = 1 .. Len(q) - 1
          /\ \A i \in 1 .. Len(q) - 1 : r[i] = IF i < m THEN q[i] ELSE q[i + 1]
      BY <2>1, <2>2, RemoveAtPosition
    <2>6. Range(r) \subseteq Range(q)
      BY <1>1, <2>1, <2>5 DEF Range
    <2>7. Range(q) \ {e} \subseteq Range(r)
      <3> SUFFICES ASSUME NEW i \in 1 .. Len(q), q[i] # e PROVE \E j \in DOMAIN r : r[j] = q[i]
        BY <1>1 DEF Range
      <3>1. CASE i < m
        BY <1>1, <2>1, <2>5, <3>1
      <3>2. CASE i > m
        <4>1. i - 1 \in DOMAIN r /\ r[i - 1] = q[i]
          BY <1>1, <2>1, <2>5, <3>2
        <4> QED BY <4>1
      <3> QED BY <2>1, <3>1, <3>2
    <2>8. ASSUME q # <<>>, Head(q) # e PROVE r # <<>> /\ Head(r) = Head(q)
      <3>1. m > 1 /\ Len(r) > 0 /\ r[1] = q[1]
        BY <1>1, <2>1, <2>5, <2>8
      <3> QED BY <1>1, <2>5, <2>8, <3>1
    <2>9. ASSUME IsInjective(q) PROVE IsInjective(r) /\ e \notin Range(r)
      <3>1. \A i, j \in 1 .. Len(q) : q[i] = q[j] => i = j
        BY <1>1, <2>9 DEF IsInjective
      <3> QED BY <1>1, <2>1, <2>5, <3>1 DEF IsInjective, Range
    <2> QED BY <2>5, <2>6, <2>7, <2>8, <2>9 DEF r
  <1> QED BY <1>2, <1>3

(* A list of one entry. *)
LEMMA OneEntry ==
    ASSUME NEW S, NEW e \in S
    PROVE  /\ <<>> \in Seq(S) /\ <<e>> \in Seq(S) /\ Append(<<>>, e) = <<e>>
           /\ Range(<<>>) = {} /\ Range(<<e>>) = {e} /\ IsInjective(<<>>)
           /\ RemoveFirst(<<e>>, e) = <<>>
  <1>1. /\ <<>> \in Seq(S) /\ <<e>> \in Seq(S) /\ Append(<<>>, e) = <<e>>
        /\ Range(<<>>) = {} /\ IsInjective(<<>>) /\ IsInjective(<<e>>) /\ Range(<<e>>) = {e}
    BY DEF Range, IsInjective
  <1>2. RemoveFirst(<<e>>, e) \in Seq(S) /\ Range(RemoveFirst(<<e>>, e)) = {}
    <2> DEFINE q == <<e>>
    <2>1. q \in Seq(S) /\ IsInjective(q) /\ Range(q) = {e}
      BY <1>1
    <2> HIDE DEF q
    <2>2. /\ RemoveFirst(q, e) \in Seq(S) /\ Range(RemoveFirst(q, e)) \subseteq Range(q)
          /\ e \notin Range(RemoveFirst(q, e))
      BY <2>1, ListDel
    <2> QED BY <2>1, <2>2 DEF q
  <1>3. \A q \in Seq(S) : Range(q) = {} => q = <<>>
    BY LenProperties, EmptySeq DEF Range
  <1> QED BY <1>1, <1>2, <1>3
(* The least element of a set of numbers. *)
LEMMA LeastNumber ==
    ASSUME NEW n \in Nat, NEW I \in SUBSET (0 .. n), I # {}
    PROVE  Min(I) \in I /\ \A j \in I : Min(I) <= j
  <1> DEFINE J == {k + 1 : k \in I}
  <1>1. n + 1 \in Nat /\ J \in SUBSET (1 .. (n + 1)) /\ J # {}
    <2>1. \A k \in 0 .. n : k + 1 \in 1 .. (n + 1)
      OBVIOUS
    <2>2. \A k \in I : k \in 0 .. n
      OBVIOUS
    <2>3. J \subseteq 1 .. (n + 1)
      BY <2>1, <2>2, Zenon
    <2>4. J # {}
      BY Zenon
    <2> QED BY <2>3, <2>4
  <1> HIDE DEF J
  <1>2. Min(J) \in J /\ \A j \in J : Min(J) <= j
    BY <1>1, LeastPosition
  <1>3. PICK m \in I : Min(J) = m + 1
    BY <1>2 DEF J
  <1>4. ASSUME NEW j \in I PROVE m <= j
    <2>1. j + 1 \in J
      BY DEF J
    <2>2. m + 1 <= j + 1
      BY <1>2, <1>3, <2>1
    <2> QED BY <2>2
  <1> QED BY <1>4 DEF Min

(* list_pop_tail takes the last entry off a list. *)
LEMMA ListPop ==
    ASSUME NEW S, NEW q \in Seq(S), q # <<>>, IsInjective(q)
    PROVE  /\ Last(q) \in Range(q) /\ Last(q) \in S /\ Front(q) \in Seq(S)
           /\ Range(Front(q)) = Range(q) \ {Last(q)} /\ IsInjective(Front(q))
  <1> DEFINE f == Front(q)
  <1>1. /\ Len(q) \in Nat /\ Len(q) > 0 /\ DOMAIN q = 1 .. Len(q)
        /\ \A i \in 1 .. Len(q) : q[i] \in S
    BY LenProperties, EmptySeq, ElementOfSeq
  <1>2. \A i, j \in 1 .. Len(q) : q[i] = q[j] => i = j
    BY <1>1 DEF IsInjective
  <1>a. PICK n \in Nat : Len(q) = n /\ n > 0
    BY <1>1
  <1>3. f \in Seq(S) /\ Len(f) = n - 1 /\ \A i \in 1 .. n - 1 : f[i] = q[i]
    <2>1. 1 \in Int /\ n - 1 \in Int /\ \A i \in 1 .. n - 1 : q[i] \in S
      BY <1>1, <1>a
    <2>2. /\ f \in Seq(S) /\ Len(f) = IF 1 <= n - 1 THEN (n - 1) - 1 + 1 ELSE 0
          /\ \A i \in 1 .. (n - 1) - 1 + 1 : f[i] = q[1 + i - 1]
      BY <1>a, <2>1, SubSeqProperties DEF Front
    <2> HIDE DEF f
    <2>3. (n - 1) - 1 + 1 = n - 1 /\ Len(f) = n - 1
      BY <1>a, <2>2
    <2>4. \A i \in 1 .. n - 1 : 1 + i - 1 = i
      BY <1>1, <1>a
    <2> QED BY <2>2, <2>3, <2>4
  <1> HIDE DEF f
  <1>4. DOMAIN f = 1 .. n - 1
    BY <1>3, LenProperties
  <1>5. Last(q) = q[n]
    BY <1>a DEF Last
  <1>6. Range(f) = Range(q) \ {Last(q)}
    <2>1. \A i \in 1 .. n : i \in 1 .. n - 1 \/ i = n
      OBVIOUS
    <2>2. \A i \in 1 .. n - 1 : i \in 1 .. n /\ i # n
      OBVIOUS
    <2>3. n \in 1 .. n
      BY <1>1, <1>a
    <2> QED BY <1>1, <1>2, <1>a, <1>3, <1>4, <1>5, <2>1, <2>2, <2>3 DEF Range
  <1>7. IsInjective(f)
    BY <1>1, <1>2, <1>a, <1>3, <1>4 DEF IsInjective
  <1>8. Last(q) \in Range(q) /\ Last(q) \in S
    BY <1>1, <1>a, <1>5 DEF Range
  <1> QED BY <1>3, <1>6, <1>7, <1>8 DEF f

(* list_add behind any entry, or in front of all, adds one entry. *)
LEMMA ListInsert ==
    ASSUME NEW S, NEW q \in Seq(S), NEW e \in S, e \notin Range(q), IsInjective(q),
           NEW k \in 1 .. (Len(q) + 1)
    PROVE  /\ InsertAt(q, k, e) \in Seq(S) /\ IsInjective(InsertAt(q, k, e))
           /\ Range(InsertAt(q, k, e)) = Range(q) \cup {e}
  <1> DEFINE A == SubSeq(q, 1, k - 1)
             B == SubSeq(q, k, Len(q))
             r == InsertAt(q, k, e)
  <1>1. /\ Len(q) \in Nat /\ DOMAIN q = 1 .. Len(q)
        /\ \A i \in 1 .. Len(q) : q[i] \in S
    BY LenProperties, ElementOfSeq
  <1>2. \A i, j \in 1 .. Len(q) : q[i] = q[j] => i = j
    BY <1>1 DEF IsInjective
  <1>a. PICK n \in Nat : Len(q) = n /\ k \in 1 .. (n + 1)
    BY <1>1
  <1>3. A \in Seq(S) /\ Len(A) = k - 1 /\ \A i \in 1 .. k - 1 : A[i] = q[i]
    <2>1. 1 \in Int /\ k - 1 \in Int /\ \A i \in 1 .. k - 1 : q[i] \in S
      BY <1>1, <1>a, <1>a
    <2>2. /\ A \in Seq(S) /\ Len(A) = IF 1 <= k - 1 THEN (k - 1) - 1 + 1 ELSE 0
          /\ \A i \in 1 .. (k - 1) - 1 + 1 : A[i] = q[1 + i - 1]
      BY <1>a, <2>1, SubSeqProperties
    <2> HIDE DEF A
    <2>3. (k - 1) - 1 + 1 = k - 1 /\ Len(A) = k - 1
      BY <1>1, <1>a, <2>2
    <2>4. \A i \in 1 .. k - 1 : 1 + i - 1 = i
      BY <1>1, <1>a, <1>a
    <2> QED BY <2>2, <2>3, <2>4
  <1>4. /\ B \in Seq(S) /\ Len(B) = n - k + 1
        /\ \A i \in 1 .. n - k + 1 : B[i] = q[k + i - 1]
    <2>1. k \in Int /\ n \in Int /\ \A i \in k .. n : q[i] \in S
      BY <1>1, <1>a, <1>a
    <2>2. /\ B \in Seq(S) /\ Len(B) = IF k <= n THEN n - k + 1 ELSE 0
          /\ \A i \in 1 .. n - k + 1 : B[i] = q[k + i - 1]
      BY <1>a, <2>1, SubSeqProperties
    <2> HIDE DEF B
    <2>3. Len(B) = n - k + 1
      BY <1>1, <1>a, <2>2
    <2> QED BY <2>2, <2>3
  <1>5. <<e>> \in Seq(S) /\ Len(<<e>>) = 1 /\ <<e>>[1] = e
    OBVIOUS
  <1>6. r = A \o <<e>> \o B
    BY <1>a DEF InsertAt, B
  <1> HIDE DEF A, B, r
  <1> DEFINE C == A \o <<e>>
  <1>7. /\ C \in Seq(S) /\ Len(C) = k
        /\ \A i \in 1 .. k : C[i] = IF i < k THEN q[i] ELSE e
    <2>1. /\ C \in Seq(S) /\ Len(C) = Len(A) + Len(<<e>>)
          /\ \A i \in 1 .. Len(A) + Len(<<e>>) :
                C[i] = IF i <= Len(A) THEN A[i] ELSE <<e>>[i - Len(A)]
      BY <1>3, <1>5, ConcatProperties
    <2> HIDE DEF C
    <2>2. Len(C) = k /\ \A i \in 1 .. k : C[i] = IF i <= k - 1 THEN A[i] ELSE <<e>>[i - (k - 1)]
      <3>1. Len(A) = k - 1 /\ Len(<<e>>) = 1 /\ (k - 1) + 1 = k
        BY <1>3, <1>5, <1>a
      <3> QED BY <2>1, <3>1
    <2>3. ASSUME NEW i \in 1 .. k PROVE C[i] = IF i < k THEN q[i] ELSE e
      <3>1. CASE i < k
        BY <1>a, <1>3, <2>2, <3>1
      <3>2. CASE i = k
        <4>1. k - (k - 1) = 1
          OBVIOUS
        <4>2. C[k] = <<e>>[k - (k - 1)]
          BY <2>2, <3>2
        <4> QED BY <1>5, <3>2, <4>1, <4>2
      <3> QED BY <3>1, <3>2
    <2> QED BY <2>1, <2>2, <2>3
  <1>8. /\ r \in Seq(S) /\ Len(r) = n + 1 /\ DOMAIN r = 1 .. (n + 1)
        /\ \A i \in 1 .. (n + 1) :
              r[i] = IF i < k THEN q[i] ELSE IF i = k THEN e ELSE q[i - 1]
    <2> HIDE DEF C
    <2>1. /\ C \o B \in Seq(S) /\ Len(C \o B) = Len(C) + Len(B)
          /\ \A i \in 1 .. Len(C) + Len(B) :
                (C \o B)[i] = IF i <= Len(C) THEN C[i] ELSE B[i - Len(C)]
      BY <1>4, <1>7, ConcatProperties
    <2>2. r = C \o B
      BY <1>6 DEF C
    <2>3. Len(C) + Len(B) = n + 1
      BY <1>1, <1>a, <1>4, <1>7
    <2>4. r \in Seq(S) /\ Len(r) = n + 1
      BY <2>1, <2>2, <2>3
    <2>5. ASSUME NEW i \in 1 .. (n + 1)
          PROVE  r[i] = IF i < k THEN q[i] ELSE IF i = k THEN e ELSE q[i - 1]
      <3>1. r[i] = IF i <= k THEN C[i] ELSE B[i - k]
        BY <1>7, <1>a, <2>1, <2>2, <2>3
      <3>2. CASE i <= k
        BY <1>7, <1>a, <3>1, <3>2
      <3>3. CASE i > k
        <4>1. i - k \in 1 .. n - k + 1 /\ k + (i - k) - 1 = i - 1
          BY <1>1, <1>a, <3>3
        <4>2. B[i - k] = q[k + (i - k) - 1]
          BY <1>4, <4>1
        <4> QED BY <3>1, <3>3, <4>1, <4>2
      <3> QED BY <1>1, <1>a, <3>2, <3>3
    <2>6. DOMAIN r = 1 .. (n + 1)
      BY <2>4, <1>a, LenProperties
    <2> QED BY <2>4, <2>5, <2>6
  <1>9. Range(r) = Range(q) \cup {e}
    <2>1. ASSUME NEW i \in 1 .. (n + 1) PROVE r[i] \in Range(q) \cup {e}
      <3>1. i < k \/ i = k \/ i > k
        BY <1>a
      <3>2. i < k => i \in 1 .. n
        BY <1>a
      <3>3. i > k => i - 1 \in 1 .. n /\ ~(i < k) /\ i # k
        BY <1>a
      <3> QED BY <1>1, <1>a, <1>8, <3>1, <3>2, <3>3 DEF Range
    <2>2. e \in Range(r)
      BY <1>1, <1>a, <1>8 DEF Range
    <2>3. ASSUME NEW i \in 1 .. n PROVE q[i] \in Range(r)
      <3>1. CASE i < k
        BY <1>1, <1>a, <1>8, <3>1 DEF Range
      <3>2. CASE i >= k
        <4>1. i + 1 \in 1 .. (n + 1) /\ ~(i + 1 < k) /\ i + 1 # k /\ (i + 1) - 1 = i
          BY <1>1, <1>a, <3>2
        <4>2. r[i + 1] = q[i]
          BY <1>8, <4>1
        <4> QED BY <1>8, <4>1, <4>2 DEF Range
      <3> QED BY <1>1, <1>a, <3>1, <3>2
    <2> QED BY <1>1, <1>a, <1>8, <2>1, <2>2, <2>3 DEF Range
  <1>10. IsInjective(r)
    <2>1. ASSUME NEW i \in 1 .. n PROVE q[i] # e
      BY <1>1, <1>a DEF Range
    <2>2. ASSUME NEW i \in 1 .. (n + 1), NEW j \in 1 .. (n + 1), r[i] = r[j], i < j
          PROVE  FALSE
      <3>1. CASE j < k
        BY <1>1, <1>a, <1>2, <1>8, <2>2, <3>1
      <3>2. CASE j = k
        BY <1>1, <1>a, <1>8, <2>1, <2>2, <3>2
      <3>3. CASE j > k /\ i = k
        BY <1>1, <1>a, <1>8, <2>1, <2>2, <3>3
      <3>4. CASE j > k /\ i # k
        BY <1>1, <1>a, <1>2, <1>8, <2>2, <3>4
      <3> QED BY <1>1, <1>a, <3>1, <3>2, <3>3, <3>4
    <2>3. \A i, j \in 1 .. (n + 1) : r[i] = r[j] => i = j
      <3>1. \A i, j \in 1 .. (n + 1) : i = j \/ i < j \/ j < i
        BY <1>1, <1>a, <1>a
      <3> QED BY <2>2, <3>1
    <2> QED BY <1>8, <2>3 DEF IsInjective
  <1> QED BY <1>8, <1>9, <1>10 DEF r

(* list_del at a known position of a list without duplicates. *)
LEMMA ListRemove ==
    ASSUME NEW S, NEW q \in Seq(S), IsInjective(q), NEW m \in 1 .. Len(q)
    PROVE  /\ RemoveAt(q, m) \in Seq(S) /\ Len(RemoveAt(q, m)) = Len(q) - 1
           /\ \A i \in 1 .. Len(q) - 1 : i < m => RemoveAt(q, m)[i] = q[i]
           /\ Range(RemoveAt(q, m)) = Range(q) \ {q[m]} /\ IsInjective(RemoveAt(q, m))
  <1> DEFINE r == RemoveAt(q, m)
  <1>1. PICK n \in Nat : Len(q) = n /\ DOMAIN q = 1 .. n /\ m \in 1 .. n
    BY LenProperties
  <1>2. /\ r \in Seq(S) /\ Len(r) = n - 1 /\ DOMAIN r = 1 .. n - 1
        /\ \A i \in 1 .. n - 1 : r[i] = IF i < m THEN q[i] ELSE q[i + 1]
    BY <1>1, RemoveAtPosition
  <1>3. \A i, j \in 1 .. n : q[i] = q[j] => i = j
    BY <1>1 DEF IsInjective
  <1> HIDE DEF r
  <1>4. ASSUME NEW i \in 1 .. n - 1 PROVE r[i] \in Range(q) \ {q[m]}
    <2>1. CASE i < m
      BY <1>1, <1>2, <1>3, <2>1 DEF Range
    <2>2. CASE i >= m
      <3>1. i + 1 \in 1 .. n /\ i + 1 # m /\ ~(i < m)
        BY <1>1, <2>2
      <3> QED BY <1>1, <1>2, <1>3, <3>1 DEF Range
    <2> QED BY <1>1, <2>1, <2>2
  <1>5. ASSUME NEW i \in 1 .. n, i # m PROVE q[i] \in Range(r)
    <2>1. CASE i < m
      <3>1. i \in 1 .. n - 1
        BY <1>1, <2>1
      <3> QED BY <1>2, <2>1, <3>1 DEF Range
    <2>2. CASE i > m
      <3>1. i - 1 \in 1 .. n - 1 /\ ~(i - 1 < m) /\ (i - 1) + 1 = i
        BY <1>1, <2>2
      <3>2. r[i - 1] = q[i]
        BY <1>2, <3>1
      <3> QED BY <1>2, <3>1, <3>2 DEF Range
    <2> QED BY <1>1, <1>5, <2>1, <2>2
  <1>6. Range(r) = Range(q) \ {q[m]}
    BY <1>1, <1>2, <1>4, <1>5 DEF Range
  <1>7. IsInjective(r)
    <2>1. \A i \in 1 .. n - 1 : i \in 1 .. n /\ i + 1 \in 1 .. n
      OBVIOUS
    <2>2. ASSUME NEW i \in 1 .. n - 1, NEW j \in 1 .. n - 1, r[i] = r[j] PROVE i = j
      BY <1>1, <1>2, <1>3, <2>1, <2>2
    <2> QED BY <1>2, <2>2 DEF IsInjective
  <1> QED BY <1>1, <1>2, <1>6, <1>7 DEF r
=============================================================================
