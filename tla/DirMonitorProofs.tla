--------------------------- MODULE DirMonitorProofs ---------------------------
(***************************************************************************)
(* Proofs about DirMonitor: its types, the count of references, the owner  *)
(* of each buffer, and the order in which a script is told of changes.     *)
(* They go through three invariants, each on top of the one before:        *)
(* RefInv, IoInv with BufferInv, and FlowInv.                              *)
(***************************************************************************)
EXTENDS DirMonitor, FiniteSetTheorems, SequenceTheorems, WellFoundedInduction, TLAPS

-----------------------------------------------------------------------------
(* Induction, and what Keep computes. *)

LEMMA LeastNumber ==
  ASSUME NEW S \in SUBSET Nat, S # {}
  PROVE  \E n \in S : \A k \in S : n <= k
<1>1. PICK n \in S : \A k \in S : ~(<<k, n>> \in OpToRel(<, Nat))
  BY NatLessThanWellFounded, WFMin
<1>2. ASSUME NEW k \in S
      PROVE  n <= k
  <2>1. ~(k < n)
    BY <1>1, <1>2 DEF OpToRel
  <2> QED  BY <2>1
<1> QED  BY <1>2

\* Induction up to a bound, for the members of a set
LEMMA UpTo ==
  ASSUME NEW N \in Nat, NEW G, 0 \in G, \A n \in 1 .. N : n - 1 \in G => n \in G
  PROVE  \A n \in 0 .. N : n \in G
<1> DEFINE Bad == (0 .. N) \ G
<1>1. SUFFICES ASSUME Bad # {} PROVE FALSE
  OBVIOUS
<1>2. Bad \in SUBSET Nat
  OBVIOUS
<1>3. PICK n \in Bad : \A k \in Bad : n <= k
  <2> HIDE DEF Bad
  <2> QED  BY <1>1, <1>2, LeastNumber
<1>4. n # 0
  BY <1>3
<1>5. n \in 1 .. N /\ n - 1 \in G
  BY <1>3, <1>4
<1> QED  BY <1>3, <1>5

\* One step of Keep, from what it has kept of the elements before the n-th
Kept(r, s, S, n) == IF s[n] \in S THEN Append(r, s[n]) ELSE r

IsKept(f, s, S) ==
    f[0] = <<>> /\ \A n \in 1 .. Len(s) : f[n] = Kept(f[n - 1], s, S, n)

LEMMA KeepExists ==
  ASSUME NEW A, NEW s \in Seq(A), NEW S
  PROVE  \E f \in [0 .. Len(s) -> Seq(A)] : IsKept(f, s, S)
<1> DEFINE Goes(n, f) ==
        /\ f \in [0 .. n -> Seq(A)] /\ f[0] = <<>>
        /\ \A k \in 1 .. n : f[k] = Kept(f[k - 1], s, S, k)
           G == {n \in 0 .. Len(s) : \E f : Goes(n, f)}
<1>1. 0 \in G
  <2>1. Goes(0, [k \in 0 .. 0 |-> <<>>])
    OBVIOUS
  <2> HIDE DEF Goes
  <2> QED  BY <2>1
<1>2. ASSUME NEW n \in 1 .. Len(s), n - 1 \in G
      PROVE  n \in G
  <2>1. PICK f : Goes(n - 1, f)
    BY <1>2
  <2> DEFINE x == Kept(f[n - 1], s, S, n)
             g == [k \in 0 .. n |-> IF k = n THEN x ELSE f[k]]
  <2>2. f[n - 1] \in Seq(A) /\ s[n] \in A /\ x \in Seq(A)
    BY <2>1 DEF Kept
  <2> HIDE DEF x
  <2>3. g \in [0 .. n -> Seq(A)] /\ g[0] = <<>>
    BY <2>1, <2>2
  <2>4. ASSUME NEW k \in 1 .. n
        PROVE  g[k] = Kept(g[k - 1], s, S, k)
    <3>1. CASE k = n
      BY <2>1, <3>1 DEF x
    <3>2. CASE k # n
      BY <2>1, <3>2
    <3> QED  BY <3>1, <3>2
  <2>5. Goes(n, g)
    BY <2>3, <2>4
  <2> HIDE DEF Goes
  <2> QED  BY <2>5
<1> HIDE DEF G
<1>3. Len(s) \in Nat /\ Len(s) \in 0 .. Len(s)
  OBVIOUS
<1>4. \A n \in 0 .. Len(s) : n \in G
  BY <1>1, <1>2, <1>3, UpTo
<1> QED  BY <1>3, <1>4 DEF G, IsKept

LEMMA KeepIs ==
  ASSUME NEW A, NEW s \in Seq(A), NEW S
  PROVE  \E f \in [0 .. Len(s) -> Seq(A)] :
            IsKept(f, s, S) /\ Keep(s, S) = f[Len(s)]
<1> DEFINE D(f) == [n \in 0 .. Len(s) |->
                      IF n = 0 THEN <<>>
                      ELSE IF s[n] \in S THEN Append(f[n - 1], s[n]) ELSE f[n - 1]]
           kept == CHOOSE f : f = D(f)
<1>1. PICK f \in [0 .. Len(s) -> Seq(A)] : IsKept(f, s, S)
  BY KeepExists
<1>2. f = D(f)
  <2>1. ASSUME NEW n \in 0 .. Len(s)
        PROVE  f[n] = D(f)[n]
    <3>1. CASE n = 0
      BY <1>1, <3>1 DEF IsKept
    <3>2. CASE n # 0
      <4>1. n \in 1 .. Len(s)
        BY <3>2
      <4> QED  BY <1>1, <3>2, <4>1 DEF IsKept, Kept
    <3> QED  BY <3>1, <3>2
  <2> QED  BY <2>1
<1>3. kept = D(kept)
  BY <1>2
<1>4. Keep(s, S) = kept[Len(s)]
  BY DEF Keep
<1> HIDE DEF kept
<1>5. \A n \in 0 .. Len(s) : kept[n] = D(kept)[n]
  BY <1>3
<1>6. IsKept(kept, s, S)
  BY <1>5 DEF IsKept, Kept
<1> DEFINE G == {n \in 0 .. Len(s) : kept[n] = f[n]}
<1>7. 0 \in G /\ \A n \in 1 .. Len(s) : n - 1 \in G => n \in G
  BY <1>1, <1>6 DEF IsKept
<1> HIDE DEF G
<1>8. Len(s) \in Nat /\ Len(s) \in 0 .. Len(s)
  OBVIOUS
<1>9. \A n \in 0 .. Len(s) : n \in G
  BY <1>7, <1>8, UpTo
<1> QED  BY <1>1, <1>4, <1>8, <1>9 DEF G

LEMMA KeepType ==
  ASSUME NEW A, NEW s \in Seq(A), NEW S
  PROVE  Keep(s, S) \in Seq(A)
  BY KeepIs

LEMMA Elements ==
  ASSUME NEW A, NEW s \in Seq(A), NEW x
  PROVE  x \in ToSet(s) <=> \E k \in 1 .. Len(s) : s[k] = x
  BY DEF ToSet

LEMMA AppendElements ==
  ASSUME NEW A, NEW s \in Seq(A), NEW e \in A, NEW x
  PROVE  x \in ToSet(Append(s, e)) <=> x \in ToSet(s) \/ x = e
<1> DEFINE t == Append(s, e)
<1>1. /\ t \in Seq(A) /\ Len(t) = Len(s) + 1 /\ t[Len(s) + 1] = e
      /\ \A k \in 1 .. Len(s) : t[k] = s[k]
  OBVIOUS
<1> HIDE DEF t
<1>2. (\E k \in 1 .. Len(t) : t[k] = x) <=> x = e \/ \E k \in 1 .. Len(s) : s[k] = x
  <2>1. Len(s) \in Nat /\ Len(s) + 1 \in 1 .. Len(t)
    BY <1>1
  <2>2. \A k \in 1 .. Len(t) : k \in 1 .. Len(s) \/ k = Len(s) + 1
    BY <1>1, <2>1
  <2>3. \A k \in 1 .. Len(s) : k \in 1 .. Len(t)
    BY <1>1, <2>1
  <2> QED  BY <1>1, <2>1, <2>2, <2>3
<1>3. x \in ToSet(t) <=> \E k \in 1 .. Len(t) : t[k] = x
  BY <1>1, Elements
<1>4. x \in ToSet(s) <=> \E k \in 1 .. Len(s) : s[k] = x
  BY Elements
<1> QED  BY <1>2, <1>3, <1>4 DEF t

\* The elements of Keep(s, S) are those of s that are in S
LEMMA KeepElements ==
  ASSUME NEW A, NEW s \in Seq(A), NEW S, NEW x
  PROVE  x \in ToSet(Keep(s, S)) <=> x \in ToSet(s) /\ x \in S
<1>1. PICK f \in [0 .. Len(s) -> Seq(A)] : IsKept(f, s, S) /\ Keep(s, S) = f[Len(s)]
  BY KeepIs
<1> DEFINE G == {n \in 0 .. Len(s) :
                    x \in ToSet(f[n]) <=> x \in S /\ \E k \in 1 .. n : s[k] = x}
<1>2. 0 \in G
  BY <1>1 DEF ToSet, IsKept
<1>3. ASSUME NEW n \in 1 .. Len(s), n - 1 \in G
      PROVE  n \in G
  <2>1. /\ f[n - 1] \in Seq(A) /\ s[n] \in A
        /\ f[n] = Kept(f[n - 1], s, S, n)
    BY <1>1 DEF IsKept
  <2>2. (\E k \in 1 .. n : s[k] = x) <=> s[n] = x \/ \E k \in 1 .. (n - 1) : s[k] = x
    OBVIOUS
  <2>4. x \in ToSet(f[n]) <=> x \in ToSet(f[n - 1]) \/ (x \in S /\ s[n] = x)
    <3>1. CASE s[n] \in S
      <4>1. f[n] = Append(f[n - 1], s[n])
        BY <2>1, <3>1 DEF Kept
      <4>2. x \in ToSet(Append(f[n - 1], s[n])) <=> x \in ToSet(f[n - 1]) \/ x = s[n]
        BY <2>1, AppendElements
      <4> QED  BY <3>1, <4>1, <4>2, Zenon
    <3>2. CASE s[n] \notin S
      BY <2>1, <3>2 DEF Kept
    <3> QED  BY <3>1, <3>2
  <2>5. n - 1 \in 0 .. Len(s) /\ n \in 0 .. Len(s)
    OBVIOUS
  <2>6. x \in ToSet(f[n - 1]) <=> x \in S /\ \E k \in 1 .. (n - 1) : s[k] = x
    BY <1>3
  <2>7. x \in ToSet(f[n]) <=> x \in S /\ \E k \in 1 .. n : s[k] = x
    BY <2>2, <2>4, <2>6, Zenon
  <2> QED  BY <2>5, <2>7
<1> HIDE DEF G
<1>n. Len(s) \in Nat /\ Len(s) \in 0 .. Len(s)
  OBVIOUS
<1>4. \A n \in 0 .. Len(s) : n \in G
  BY <1>2, <1>3, <1>n, UpTo
<1>5. x \in ToSet(s) <=> \E k \in 1 .. Len(s) : s[k] = x
  BY Elements
<1> QED  BY <1>1, <1>4, <1>5, <1>n DEF G
Increasing(s) == \A i, j \in 1 .. Len(s) : i < j => s[i] < s[j]

\* Keeping some elements keeps the order
LEMMA KeepIncreasing ==
  ASSUME NEW s \in Seq(Int), NEW S, Increasing(s)
  PROVE  Increasing(Keep(s, S))
<1>1. PICK f \in [0 .. Len(s) -> Seq(Int)] : IsKept(f, s, S) /\ Keep(s, S) = f[Len(s)]
  BY KeepIs
<1>n. Len(s) \in Nat /\ Len(s) \in 0 .. Len(s)
  OBVIOUS
<1> DEFINE G == {n \in 0 .. Len(s) :
                    /\ Increasing(f[n])
                    /\ \A i \in 1 .. Len(f[n]) : \E k \in 1 .. n : f[n][i] = s[k]}
<1>2. 0 \in G
  BY <1>1 DEF IsKept, Increasing
<1>t. \A n \in 0 .. Len(s) : f[n] \in Seq(Int)
  OBVIOUS
<1>3. ASSUME NEW n \in 1 .. Len(s), n - 1 \in G
      PROVE  n \in G
  <2>1. /\ f[n - 1] \in Seq(Int) /\ s[n] \in Int
        /\ f[n] = Append(f[n - 1], s[n]) \/ f[n] = f[n - 1]
    <3>1. n - 1 \in 0 .. Len(s) /\ f[n] = Kept(f[n - 1], s, S, n)
      BY <1>1 DEF IsKept
    <3> QED  BY <1>t, <3>1 DEF Kept
  <2>2. /\ Increasing(f[n - 1])
        /\ \A i \in 1 .. Len(f[n - 1]) : \E k \in 1 .. (n - 1) : f[n - 1][i] = s[k]
    BY <1>3
  <2>3. \A i \in 1 .. Len(f[n - 1]) : f[n - 1][i] < s[n]
    <3>1. \A k \in 1 .. (n - 1) : s[k] < s[n]
      BY DEF Increasing
    <3> QED  BY <2>2, <3>1
  <2>4. CASE f[n] = Append(f[n - 1], s[n])
    <3>1. /\ Len(f[n]) = Len(f[n - 1]) + 1 /\ f[n][Len(f[n - 1]) + 1] = s[n]
          /\ \A i \in 1 .. Len(f[n - 1]) : f[n][i] = f[n - 1][i]
          /\ Len(f[n - 1]) \in Nat
      BY <2>1, <2>4
    <3>2. \A i \in 1 .. Len(f[n]) : i \in 1 .. Len(f[n - 1]) \/ i = Len(f[n - 1]) + 1
      BY <3>1
    <3>3. ASSUME NEW i \in 1 .. Len(f[n]), NEW j \in 1 .. Len(f[n]), i < j
          PROVE  f[n][i] < f[n][j]
      <4>1. i \in 1 .. Len(f[n - 1])
        BY <3>1, <3>3
      <4>2. CASE j = Len(f[n - 1]) + 1
        BY <2>3, <3>1, <4>1, <4>2
      <4>3. CASE j \in 1 .. Len(f[n - 1])
        BY <2>2, <3>1, <3>3, <4>1, <4>3 DEF Increasing
      <4> QED  BY <3>2, <4>2, <4>3
    <3>4. \A i \in 1 .. Len(f[n]) : \E k \in 1 .. n : f[n][i] = s[k]
      BY <2>2, <3>1, <3>2
    <3> QED  BY <3>3, <3>4 DEF Increasing
  <2>5. CASE f[n] = f[n - 1]
    BY <2>2, <2>5
  <2> QED  BY <2>1, <2>4, <2>5
<1> HIDE DEF G
<1>4. \A n \in 0 .. Len(s) : n \in G
  BY <1>2, <1>3, <1>n, UpTo
<1> QED  BY <1>1, <1>4, <1>n DEF G

\* An increasing sequence is a prefix of another that has its elements, and none
\* before the last of them that it has not.
LEMMA IncreasingPrefix ==
  ASSUME NEW t \in Seq(Int), NEW u \in Seq(Int), Increasing(t), Increasing(u),
         \A i \in 1 .. Len(t) : \E k \in 1 .. Len(u) : u[k] = t[i],
         \A k \in 1 .. Len(u) : \A i \in 1 .. Len(t) :
            u[k] <= t[i] => \E l \in 1 .. Len(t) : t[l] = u[k]
  PROVE  IsPrefix(t, u)
<1>n. Len(t) \in Nat /\ Len(u) \in Nat
  OBVIOUS
<1>t. (\A i \in 1 .. Len(t) : t[i] \in Int) /\ (\A i \in 1 .. Len(u) : u[i] \in Int)
  OBVIOUS
<1> DEFINE G == {n \in 0 .. Len(t) : n <= Len(u) /\ \A j \in 1 .. n : t[j] = u[j]}
<1>1. 0 \in G
  BY <1>n
<1>2. ASSUME NEW n \in 1 .. Len(t), n - 1 \in G
      PROVE  n \in G
  <2>1. n - 1 <= Len(u) /\ \A j \in 1 .. (n - 1) : t[j] = u[j]
    BY <1>2
  <2>2. PICK k \in 1 .. Len(u) : u[k] = t[n]
    OBVIOUS
  <2>3. n <= k
    <3>1. CASE k \in 1 .. (n - 1)
      <4>1. t[k] = t[n] /\ k \in 1 .. Len(t) /\ k < n
        BY <1>n, <2>1, <2>2, <3>1
      <4> QED  BY <1>t, <4>1 DEF Increasing
    <3> QED  BY <1>n, <3>1
  <2>4. n \in 1 .. Len(u)
    BY <1>n, <2>3
  <2>5. u[n] = t[n]
    <3>1. CASE n < k
      <4>1. u[n] < u[k]
        BY <2>4, <3>1 DEF Increasing
      <4>6. u[n] < t[n] /\ u[n] \in Int /\ t[n] \in Int
        BY <1>t, <2>2, <2>4, <4>1
      <4>2. u[n] <= t[n]
        BY <1>t, <2>2, <2>4, <4>1
      <4>3. PICK l \in 1 .. Len(t) : t[l] = u[n]
        BY <2>4, <4>2
      <4>4. l < n
        <5>1. CASE n <= l
          <6>1. t[n] <= t[l]
            BY <1>t, <5>1 DEF Increasing
          <6>2. t[n] <= u[n]
            BY <4>3, <6>1
          <6> QED  BY <4>6, <6>2
        <5> QED  BY <1>n, <5>1
      <4>5. u[l] = u[n] /\ l \in 1 .. Len(u)
        BY <1>n, <2>1, <2>4, <4>3, <4>4
      <4> QED  BY <1>t, <2>4, <4>4, <4>5 DEF Increasing
    <3>2. CASE n = k
      BY <2>2, <3>2
    <3> QED  BY <1>n, <2>3, <3>1, <3>2
  <2>6. \A j \in 1 .. n : t[j] = u[j]
    BY <2>1, <2>5
  <2>7. n \in 0 .. Len(t) /\ n <= Len(u)
    BY <1>n, <2>4
  <2> QED  BY <2>6, <2>7
<1> HIDE DEF G
<1>3. \A n \in 0 .. Len(t) : n \in G
  BY <1>1, <1>2, <1>n, UpTo
<1>4. Len(t) <= Len(u) /\ \A j \in 1 .. Len(t) : t[j] = u[j]
  BY <1>3, <1>n DEF G
<1>5. SubSeq(t, 1, Len(t)) = SubSeq(u, 1, Len(t))
  <2> DEFINE a == SubSeq(t, 1, Len(t))
             b == SubSeq(u, 1, Len(t))
  <2>1. /\ a \in Seq(Int) /\ Len(a) = Len(t)
        /\ \A i \in 1 .. Len(t) : a[i] = t[i]
    BY <1>n
  <2>2. /\ b \in Seq(Int) /\ Len(b) = Len(t)
        /\ \A i \in 1 .. Len(t) : b[i] = u[i]
    BY <1>n, <1>4
  <2> HIDE DEF a, b
  <2>3. a = b
    BY <1>4, <2>1, <2>2, SeqEqual
  <2> QED  BY <2>3 DEF a, b
<1> QED  BY <1>4, <1>5 DEF IsPrefix

LEMMA IncreasingConcat ==
  ASSUME NEW t \in Seq(Int), NEW u \in Seq(Int), Increasing(t), Increasing(u),
         \A i \in 1 .. Len(t) : \A k \in 1 .. Len(u) : t[i] < u[k]
  PROVE  Increasing(t \o u)
<1> DEFINE v == t \o u
<1>1. /\ Len(v) = Len(t) + Len(u) /\ Len(t) \in Nat /\ Len(u) \in Nat
      /\ \A i \in 1 .. Len(t) : v[i] = t[i]
      /\ \A i \in 1 .. Len(u) : v[Len(t) + i] = u[i]
  BY ConcatProperties
<1> HIDE DEF v
<1>2. ASSUME NEW i \in 1 .. Len(v), i \notin 1 .. Len(t)
      PROVE  i - Len(t) \in 1 .. Len(u) /\ v[i] = u[i - Len(t)]
  <2>1. i - Len(t) \in 1 .. Len(u) /\ Len(t) + (i - Len(t)) = i
    BY <1>1, <1>2
  <2> QED  BY <1>1, <2>1
<1>3. ASSUME NEW i \in 1 .. Len(v), NEW j \in 1 .. Len(v), i < j
      PROVE  v[i] < v[j]
  <2>1. CASE j \in 1 .. Len(t)
    <3>1. i \in 1 .. Len(t)
      BY <1>1, <1>3, <2>1
    <3> QED  BY <1>1, <1>3, <2>1, <3>1 DEF Increasing
  <2>2. CASE j \notin 1 .. Len(t) /\ i \in 1 .. Len(t)
    BY <1>1, <1>2, <2>2
  <2>3. CASE j \notin 1 .. Len(t) /\ i \notin 1 .. Len(t)
    <3>1. /\ i - Len(t) \in 1 .. Len(u) /\ v[i] = u[i - Len(t)]
          /\ j - Len(t) \in 1 .. Len(u) /\ v[j] = u[j - Len(t)]
      BY <1>2, <2>3
    <3>2. i - Len(t) < j - Len(t)
      BY <1>1, <1>3
    <3> QED  BY <3>1, <3>2 DEF Increasing
  <2> QED  BY <2>1, <2>2, <2>3
<1> QED  BY <1>3 DEF v, Increasing

LEMMA ConcatElements ==
  ASSUME NEW A, NEW s \in Seq(A), NEW t \in Seq(A), NEW x
  PROVE  x \in ToSet(s \o t) <=> x \in ToSet(s) \/ x \in ToSet(t)
<1> DEFINE v == s \o t
<1>1. /\ v \in Seq(A)
      /\ Len(v) = Len(s) + Len(t) /\ Len(s) \in Nat /\ Len(t) \in Nat
      /\ \A i \in 1 .. Len(s) : v[i] = s[i]
      /\ \A i \in 1 .. Len(t) : v[Len(s) + i] = t[i]
  BY ConcatProperties
<1> HIDE DEF v
<1>2. ASSUME NEW i \in 1 .. Len(v), i \notin 1 .. Len(s)
      PROVE  i - Len(s) \in 1 .. Len(t) /\ v[i] = t[i - Len(s)]
  <2>1. i - Len(s) \in 1 .. Len(t) /\ Len(s) + (i - Len(s)) = i
    BY <1>1, <1>2
  <2> QED  BY <1>1, <2>1
<1>3. \A i \in 1 .. Len(s) : i \in 1 .. Len(v)
  BY <1>1
<1>4. \A i \in 1 .. Len(t) : Len(s) + i \in 1 .. Len(v)
  BY <1>1
<1>5. (\E i \in 1 .. Len(v) : v[i] = x)
        <=> (\E i \in 1 .. Len(s) : s[i] = x) \/ (\E i \in 1 .. Len(t) : t[i] = x)
  BY <1>1, <1>2, <1>3, <1>4
<1>6. x \in ToSet(v) <=> \E i \in 1 .. Len(v) : v[i] = x
  BY <1>1, Elements
<1>7. x \in ToSet(s) <=> \E i \in 1 .. Len(s) : s[i] = x
  BY Elements
<1>8. x \in ToSet(t) <=> \E i \in 1 .. Len(t) : t[i] = x
  BY Elements
<1> QED  BY <1>5, <1>6, <1>7, <1>8 DEF v

-----------------------------------------------------------------------------
(* Patterns. *)

\* The first pattern that matches decides as the documentation says: there is an
\* inclusive pattern that matches and no exclusive one that does before it.
LEMMA FirstMatchDecides ==
  ASSUME NEW ps \in Seq([include : BOOLEAN, names : SUBSET Names]), NEW n
  PROVE  PatternMatched(ps, n) <=>
            \/ Len(ps) = 0
            \/ \E k \in 1 .. Len(ps) :
                  /\ ps[k].include /\ n \in ps[k].names
                  /\ \A j \in 1 .. (k - 1) : ~ps[j].include => n \notin ps[j].names
<1> DEFINE M == {i \in 1 .. Len(ps) : n \in ps[i].names}
<1>1. PatternMatched(ps, n) <=>
        \/ ps = <<>>
        \/ \E i \in M : ps[i].include /\ \A j \in M : i <= j
  BY DEF PatternMatched
<1>2. ps = <<>> <=> Len(ps) = 0
  OBVIOUS
<1>3. ASSUME NEW i \in M, ps[i].include, \A j \in M : i <= j
      PROVE  \E k \in 1 .. Len(ps) :
                  /\ ps[k].include /\ n \in ps[k].names
                  /\ \A j \in 1 .. (k - 1) : ~ps[j].include => n \notin ps[j].names
  <2>1. \A j \in 1 .. (i - 1) : j \notin M
    BY <1>3
  <2>2. \A j \in 1 .. (i - 1) : n \notin ps[j].names
    BY <2>1
  <2> QED  BY <1>3, <2>2
<1>4. ASSUME NEW k \in 1 .. Len(ps), ps[k].include, n \in ps[k].names,
             \A j \in 1 .. (k - 1) : ~ps[j].include => n \notin ps[j].names
      PROVE  \E i \in M : ps[i].include /\ \A j \in M : i <= j
  <2>1. M \in SUBSET Nat /\ k \in M
    BY <1>4
  <2>2. PICK i \in M : \A j \in M : i <= j
    <3> HIDE DEF M
    <3> QED  BY <2>1, LeastNumber
  <2>3. i <= k
    BY <2>1, <2>2
  <2>4. CASE i = k
    BY <1>4, <2>2, <2>4
  <2>5. CASE i # k
    <3>1. i \in 1 .. (k - 1) /\ n \in ps[i].names
      BY <2>3, <2>5
    <3>2. ps[i].include
      BY <1>4, <3>1
    <3> QED  BY <2>2, <3>2
  <2> QED  BY <2>4, <2>5
<1> HIDE DEF M
<1> QED  BY <1>1, <1>2, <1>3, <1>4

-----------------------------------------------------------------------------
(* Counting. *)

\* The callbacks of m on a queue q
Of(q, m) == {i \in 1 .. Len(q) : q[i].m = m}

LEMMA OfFinite ==
  ASSUME NEW S, NEW q \in Seq(S), NEW m
  PROVE  IsFiniteSet(Of(q, m)) /\ Cardinality(Of(q, m)) \in Nat
<1>1. IsFiniteSet(1 .. Len(q)) /\ Of(q, m) \subseteq 1 .. Len(q)
  BY FS_Interval DEF Of
<1> QED  BY <1>1, FS_Subset, FS_CardinalityType

LEMMA OfAppend ==
  ASSUME NEW S, NEW q \in Seq(S), NEW e \in S, NEW m
  PROVE  Cardinality(Of(Append(q, e), m)) = Cardinality(Of(q, m)) + One(e.m = m)
<1> DEFINE a == Append(q, e)
           N == Len(q)
           C == Of(q, m)
<1>1. /\ Len(a) = N + 1 /\ N \in Nat /\ a[N + 1] = e
      /\ \A i \in 1 .. N : a[i] = q[i]
  OBVIOUS
<1>2. C = {i \in 1 .. N : q[i].m = m}
  BY DEF Of
<1>3. IsFiniteSet(C) /\ Cardinality(C) \in Nat
  BY OfFinite
<1> HIDE DEF a, N, C
<1>4. Of(a, m) = {i \in 1 .. N + 1 : a[i].m = m}
  BY <1>1 DEF Of
<1>5. CASE e.m = m
  <2>1. Of(a, m) = C \union {N + 1} /\ N + 1 \notin C
    BY <1>1, <1>2, <1>4, <1>5
  <2>2. Cardinality(C \union {N + 1}) = Cardinality(C) + 1
    BY <1>3, <2>1, FS_AddElement
  <2> QED  BY <1>5, <2>1, <2>2 DEF One, a, C
<1>6. CASE e.m # m
  <2>1. Of(a, m) = C
    BY <1>1, <1>2, <1>4, <1>6
  <2> QED  BY <1>3, <1>6, <2>1 DEF One, a, C
<1> QED  BY <1>5, <1>6

LEMMA HeadTail ==
  ASSUME NEW S, NEW q \in Seq(S), q # <<>>
  PROVE  /\ Head(q) = q[1] /\ Head(q) \in S /\ Tail(q) \in Seq(S)
         /\ Len(Tail(q)) \in Nat /\ Len(q) = Len(Tail(q)) + 1
         /\ \A i \in 1 .. Len(Tail(q)) : Tail(q)[i] = q[i + 1]
  OBVIOUS

LEMMA OfTail ==
  ASSUME NEW S, NEW q \in Seq(S), q # <<>>, NEW m
  PROVE  Cardinality(Of(q, m)) = Cardinality(Of(Tail(q), m)) + One(Head(q).m = m)
<1> DEFINE t == Tail(q)
           N == Len(t)
           T == Of(t, m)
           Q == Of(q, m) \ {1}
           f == [i \in T |-> i + 1]
<1>1. /\ q[1] = Head(q) /\ N \in Nat /\ Len(q) = N + 1
      /\ \A i \in 1 .. N : t[i] = q[i + 1]
  BY HeadTail
<1>2. IsFiniteSet(T) /\ Cardinality(T) \in Nat
  BY HeadTail, OfFinite
<1>s. T = {i \in 1 .. N : t[i].m = m}
  BY DEF Of
<1> HIDE DEF t, N
<1>3. /\ T = {i \in 1 .. N : q[i + 1].m = m}
      /\ Of(q, m) = {i \in 1 .. N + 1 : q[i].m = m}
  BY <1>1, <1>s DEF Of
<1>4. Q = {i \in 2 .. N + 1 : q[i].m = m}
  BY <1>1, <1>3
<1> HIDE DEF T, Q
<1>5. ExistsBijection(T, Q)
  <2>1. f \in [T -> Q]
    BY <1>1, <1>3, <1>4
  <2>2. \A i, j \in T : f[i] = f[j] => i = j
    BY <1>1, <1>3
  <2>3. ASSUME NEW k \in Q
        PROVE  \E i \in T : f[i] = k
    <3>1. k - 1 \in T /\ (k - 1) + 1 = k
      BY <1>1, <1>3, <1>4
    <3> QED  BY <3>1
  <2>4. f \in Bijection(T, Q)
    BY <2>1, <2>2, <2>3 DEF Bijection, Injection, Surjection, IsInjective
  <2> QED  BY <2>4 DEF ExistsBijection
<1>6. IsFiniteSet(Q) /\ Cardinality(Q) = Cardinality(T)
  BY <1>2, <1>5, FS_Bijection
<1>7. CASE Head(q).m = m
  <2>1. Of(q, m) = Q \union {1} /\ 1 \notin Q
    BY <1>1, <1>3, <1>4, <1>7
  <2>2. Cardinality(Q \union {1}) = Cardinality(Q) + 1
    BY <1>6, <2>1, FS_AddElement
  <2> QED  BY <1>2, <1>6, <1>7, <2>1, <2>2 DEF One, T, t
<1>8. CASE Head(q).m # m
  <2>1. Of(q, m) = Q
    BY <1>1, <1>3, <1>4, <1>8
  <2> QED  BY <1>2, <1>6, <1>8, <2>1 DEF One, T, t
<1> QED  BY <1>7, <1>8

LEMMA ElementsCount ==
  ASSUME NEW S, NEW q \in Seq(S)
  PROVE  IsFiniteSet(ToSet(q)) /\ Cardinality(ToSet(q)) <= Len(q)
<1>1. q \in [1 .. Len(q) -> ToSet(q)] /\ \A x \in ToSet(q) : \E i \in 1 .. Len(q) : q[i] = x
  BY DEF ToSet
<1>2. ExistsSurjection(1 .. Len(q), ToSet(q))
  BY <1>1 DEF ExistsSurjection, Surjection
<1> QED  BY <1>2, FS_NatSurjection, FS_SurjCardinalityBound

\* A set whose members are all equal has as many as are in it
LEMMA AtMostOneCounts ==
  ASSUME NEW S, \A x, y \in S : x = y
  PROVE  IsFiniteSet(S) /\ Cardinality(S) = One(\E x : x \in S)
<1>1. CASE S = {}
  BY <1>1, FS_EmptySet DEF One
<1>2. CASE S # {}
  <2>1. PICK x : S = {x}
    BY <1>2
  <2> QED  BY <2>1, FS_Singleton DEF One
<1> QED  BY <1>1, <1>2

\* The changes of one monitor are among all: the bound on these is one on those
LEMMA ChangesBound ==
  ASSUME NEW m \in Monitors, changed \in [Monitors -> Seq(Names)],
         Cardinality(Changes) < MaxChanges
  PROVE  Len(changed[m]) + 1 \in 1 .. MaxChanges
<1> DEFINE C == {m} \X (1 .. MaxChanges)
<1>1. MaxChanges \in Nat /\ IsFiniteSet(Monitors)
  BY DirMonitorAssumption
<1>2. IsFiniteSet(1 .. MaxChanges) /\ Cardinality(1 .. MaxChanges) = MaxChanges
  <2>1. Cardinality(1 .. MaxChanges) = IF 1 > MaxChanges THEN 0 ELSE MaxChanges - 1 + 1
    BY <1>1, FS_Interval
  <2> QED  BY <1>1, <2>1, FS_Interval
<1>3. IsFiniteSet(Changes)
  <2>1. IsFiniteSet(Monitors \X (1 .. MaxChanges))
    BY <1>1, <1>2, FS_Product
  <2> QED  BY <2>1, FS_Subset DEF Changes
<1>4. IsFiniteSet(C) /\ Cardinality(C) = MaxChanges
  <2>1. IsFiniteSet({m}) /\ Cardinality({m}) = 1
    BY FS_Singleton
  <2> DEFINE I == 1 .. MaxChanges
             s == {m}
  <2>2. IsFiniteSet(I) /\ Cardinality(I) = MaxChanges /\ IsFiniteSet(s)
    BY <1>2, <2>1
  <2> HIDE DEF I, s
  <2>3. IsFiniteSet(s \X I) /\ Cardinality(s \X I) = Cardinality(s) * Cardinality(I)
    BY <2>2, FS_Product
  <2>4. 1 * MaxChanges = MaxChanges
    BY <1>1
  <2> QED  BY <2>1, <2>2, <2>3, <2>4 DEF s, I
<1>5. Len(changed[m]) \in Nat
  OBVIOUS
<1>6. CASE MaxChanges <= Len(changed[m])
  <2>1. C \subseteq Changes
    BY <1>1, <1>5, <1>6 DEF Changes
  <2>2. Cardinality(C) <= Cardinality(Changes) /\ Cardinality(Changes) \in Nat
    BY <1>3, <2>1, FS_Subset, FS_CardinalityType
  <2> QED  BY <1>1, <1>4, <2>2
<1> QED  BY <1>1, <1>5, <1>6

-----------------------------------------------------------------------------
(* References. *)

\* The types, but for the counts of references: that these are not negative is
\* part of RefInv.
MonTypes ==
    /\ life \in [Monitors -> {"none", "live", "freed", "leaked"}]
    /\ nrefs \in [Monitors -> Int] /\ ticP \in [Monitors -> BOOLEAN]
    /\ pooled \in [Monitors -> BOOLEAN]
    /\ list \in Seq(Monitors) /\ count \in Int
    /\ pool \in [Monitors -> {"idle", "called", "rereads", "errs"}]
    /\ queue \in Seq(Callback) /\ interp \in {"alive", "deleted", "gone"}

\* The number of references to m that the list, the pool and callbacks have
Owed(m) == One(ticP[m]) + One(pooled[m]) + Cardinality(Of(queue, m))

\* The list has the monitors whose ticP is set; whoever refers to a monitor finds
\* it alive; and zlist_count is not above the length of the list.
RefInv ==
    /\ MonTypes
    /\ \A m \in Monitors :
          /\ ticP[m] <=> m \in ToSet(list)
          /\ life[m] = "live" => nrefs[m] = Owed(m) /\ nrefs[m] > 0
          /\ life[m] # "live" => Owed(m) = 0
          /\ life[m] \in {"none", "freed"} => nrefs[m] = 0
          /\ life[m] = "leaked" => nrefs[m] \in {0, 1}
          /\ pool[m] # "idle" => pooled[m]
    /\ HasList => count <= Cardinality(ToSet(list))

LEMMA OneIs == \A b \in BOOLEAN : One(b) \in {0, 1} /\ (One(b) = 1 <=> b)
  BY DEF One

LEMMA OwedType ==
  ASSUME MonTypes, NEW m \in Monitors
  PROVE  Cardinality(Of(queue, m)) \in Nat /\ Owed(m) \in Nat
<1>1. Cardinality(Of(queue, m)) \in Nat
  BY OfFinite DEF MonTypes
<1> QED  BY <1>1 DEF Owed, One

\* Whoever has a callback on the queue is alive
LEMMA SenderLives ==
  ASSUME RefInv, NEW i \in 1 .. Len(queue)
  PROVE  queue[i].m \in Monitors /\ life[queue[i].m] = "live"
<1> DEFINE m == queue[i].m
<1>q. queue \in Seq(Callback)
  BY DEF RefInv, MonTypes
<1>c. queue[i] \in Callback
  BY <1>q
<1>1. m \in Monitors
  BY <1>c DEF Callback
<1>2. i \in Of(queue, m)
  BY DEF Of
<1>f. IsFiniteSet(Of(queue, m))
  BY <1>q, OfFinite
<1>3. Cardinality(Of(queue, m)) # 0 /\ Cardinality(Of(queue, m)) \in Nat
  BY <1>2, <1>f, FS_EmptySet, FS_CardinalityType
<1> HIDE DEF m
<1>4. Owed(m) # 0
  BY <1>3 DEF Owed, One
<1>5. life[m] = "live"
  BY <1>1, <1>4 DEF RefInv
<1> QED  BY <1>1, <1>5 DEF m

LEMMA HolderLives ==
  ASSUME RefInv, NEW m \in Monitors, ticP[m] \/ pooled[m]
  PROVE  life[m] = "live"
<1>1. Cardinality(Of(queue, m)) \in Nat
  BY OwedType DEF RefInv
<1>2. ticP[m] \in BOOLEAN /\ pooled[m] \in BOOLEAN
  BY DEF RefInv, MonTypes
<1>3. Owed(m) # 0
  BY <1>1, <1>2 DEF Owed, One
<1> QED  BY <1>3 DEF RefInv

LEMMA RefInvInit == Init => RefInv
<1> SUFFICES ASSUME Init PROVE RefInv
  OBVIOUS
<1>1. MonTypes
  BY DEF Init, MonTypes
<1>2. ToSet(list) = {} /\ \A m : Of(queue, m) = {}
  BY DEF Init, ToSet, Of
<1>e. Cardinality({}) = 0
  BY FS_EmptySet
<1>3. Cardinality(ToSet(list)) = 0
  BY <1>2, <1>e
<1>4. \A m \in Monitors : Owed(m) = 0
  <2>1. \A m \in Monitors : One(ticP[m]) = 0 /\ One(pooled[m]) = 0
    BY DEF Init, One
  <2>2. \A m : Cardinality(Of(queue, m)) = 0
    BY <1>2, <1>e
  <2> QED  BY <2>1, <2>2 DEF Owed
<1> QED  BY <1>1, <1>2, <1>3, <1>4 DEF Init, RefInv

\* A step of the kernel, or of a worker that sends nothing
LEMMA RefStill ==
  ASSUME RefInv, UNCHANGED <<life, nrefs, ticP, pooled, listVars, queue, interp>>,
         pool' \in [Monitors -> {"idle", "called", "rereads", "errs"}],
         \A m \in Monitors : pool'[m] # "idle" => pooled[m]
  PROVE  RefInv'
<1>1. MonTypes'
  BY DEF RefInv, MonTypes, listVars
<1>2. \A m : Owed(m)' = Owed(m)
  BY DEF Owed
<1> QED  BY <1>1, <1>2 DEF RefInv, listVars, HasList

LEMMA RefEnqueue ==
  ASSUME RefInv, NEW m \in Monitors, NEW b \in Buffers \union {None}, pooled[m],
         Enqueue(m, b), UNCHANGED <<life, ticP, pooled, listVars, interp>>,
         pool' \in [Monitors -> {"idle", "called", "rereads", "errs"}],
         \A o \in Monitors : pool'[o] # "idle" => pooled[o]
  PROVE  RefInv'
<1> DEFINE e == [m |-> m, b |-> b]
<1>1. /\ e \in Callback /\ queue' = Append(queue, e)
      /\ nrefs' = [nrefs EXCEPT ![m] = nrefs[m] + 1] /\ e.m = m
  BY DEF Enqueue, Callback
<1> HIDE DEF e
<1>t. queue \in Seq(Callback) /\ nrefs \in [Monitors -> Int]
  BY DEF RefInv, MonTypes
<1>2. queue' \in Seq(Callback)
  BY <1>1, <1>t
<1>3. MonTypes'
  BY <1>1, <1>2 DEF RefInv, MonTypes, listVars
<1>4. ASSUME NEW o \in Monitors
      PROVE  Owed(o)' = Owed(o) + One(o = m)
  <2>1. Cardinality(Of(queue', o)) = Cardinality(Of(queue, o)) + One(e.m = o)
    BY <1>1, <1>t, OfAppend
  <2>2. Cardinality(Of(queue, o)) \in Nat
    BY OwedType DEF RefInv
  <2>3. One(e.m = o) = One(o = m)
    BY <1>1 DEF One
  <2> QED  BY <2>1, <2>2, <2>3 DEF Owed, One
<1>5. life[m] = "live"
  BY HolderLives
<1>6. \A o \in Monitors : nrefs'[o] = nrefs[o] + One(o = m)
  BY <1>1, <1>t DEF One
<1>7. \A o \in Monitors : Owed(o) \in Nat
  BY OwedType DEF RefInv
<1> QED  BY <1>3, <1>4, <1>5, <1>6, <1>7 DEF RefInv, listVars, HasList, One

\* What is taken from a list is gone from it, and it is shorter by so much
LEMMA ListWithout ==
  ASSUME NEW s \in Seq(Monitors), NEW S \in SUBSET ToSet(s)
  PROVE  LET t == Keep(s, Monitors \ S) IN
         /\ t \in Seq(Monitors)
         /\ \A m \in Monitors : m \in ToSet(t) <=> m \in ToSet(s) /\ m \notin S
         /\ Cardinality(ToSet(t)) \in Nat /\ Cardinality(S) \in Nat
         /\ Cardinality(ToSet(s)) = Cardinality(ToSet(t)) + Cardinality(S)
<1> DEFINE t == Keep(s, Monitors \ S)
<1>1. t \in Seq(Monitors)
  BY KeepType
<1>2. \A m : m \in ToSet(t) <=> m \in ToSet(s) /\ m \in Monitors \ S
  BY KeepElements
<1>3. ToSet(s) \subseteq Monitors /\ ToSet(t) = ToSet(s) \ S
  <2>1. ToSet(s) \subseteq Monitors
    BY DEF ToSet
  <2> QED  BY <1>2, <2>1
<1>4. IsFiniteSet(ToSet(s)) /\ IsFiniteSet(S) /\ IsFiniteSet(ToSet(t))
  BY <1>3, ElementsCount, FS_Subset
<1> HIDE DEF t
<1> DEFINE X == ToSet(s)
<1>5. Cardinality(X) = Cardinality(X \ S) + Cardinality(X \cap S)
  <2>1. IsFiniteSet(X)
    BY <1>4
  <2> HIDE DEF X
  <2>2. /\ IsFiniteSet(X \ S) /\ Cardinality(X \ S) \in Nat /\ Cardinality(X) \in Nat
        /\ IsFiniteSet(X \cap S) /\ Cardinality(X \cap S) \in Nat
    BY <2>1, FS_Subset, FS_CardinalityType, FS_Difference
  <2>3. Cardinality(X \ S) = Cardinality(X) - Cardinality(X \cap S)
    BY <2>1, <1>4, FS_Difference
  <2> QED  BY <2>2, <2>3
<1>6. X \cap S = S
  OBVIOUS
<1>7. Cardinality(ToSet(t)) \in Nat /\ Cardinality(S) \in Nat
  BY <1>4, FS_CardinalityType
<1>8. Cardinality(X) = Cardinality(ToSet(t)) + Cardinality(S)
  BY <1>3, <1>5, <1>6
<1> QED  BY <1>1, <1>2, <1>7, <1>8 DEF t

\* c is the callback that the thread has taken from its queue, or none
Taken(c) ==
    \/ c = NoCallback /\ UNCHANGED queue
    \/ queue # <<>> /\ c = Head(queue) /\ queue' = Tail(queue)

LEMMA TakenCounts ==
  ASSUME RefInv, NEW c, Taken(c), NEW m \in Monitors
  PROVE  /\ queue' \in Seq(Callback)
         /\ Cardinality(Of(queue, m)) \in Nat /\ Cardinality(Of(queue, m))' \in Nat
         /\ Cardinality(Of(queue, m)) = Cardinality(Of(queue, m))' + One(m = c.m)
         /\ m = c.m => life[m] = "live"
<1>1. queue \in Seq(Callback)
  BY DEF RefInv, MonTypes
<1>2. CASE c = NoCallback /\ UNCHANGED queue
  <2>1. m # c.m
    BY <1>2, DirMonitorAssumption DEF NoCallback
  <2>2. Cardinality(Of(queue, m)) \in Nat
    BY <1>1, OfFinite
  <2>3. Of(queue, m)' = Of(queue, m)
    BY <1>2
  <2> QED  BY <1>1, <1>2, <2>1, <2>2, <2>3 DEF One
<1>3. CASE queue # <<>> /\ c = Head(queue) /\ queue' = Tail(queue)
  <2>1. queue' \in Seq(Callback)
    BY <1>1, <1>3, HeadTail
  <2>2. Cardinality(Of(queue, m)) \in Nat /\ Cardinality(Of(queue', m)) \in Nat
    BY <1>1, <2>1, OfFinite
  <2>3. Cardinality(Of(queue, m)) = Cardinality(Of(queue', m)) + One(Head(queue).m = m)
    BY <1>1, <1>3, OfTail
  <2>4. One(Head(queue).m = m) = One(m = c.m)
    BY <1>3 DEF One
  <2>5. 1 \in 1 .. Len(queue) /\ queue[1] = c
    BY <1>1, <1>3, HeadTail
  <2>6. m = c.m => life[m] = "live"
    BY <2>5, SenderLives
  <2> QED  BY <2>1, <2>2, <2>3, <2>4, <2>6
<1> QED  BY <1>2, <1>3 DEF Taken

\* A shutdown drops the references that it clears the fields of
LEMMA ShutdownOwes ==
  ASSUME RefInv, NEW S \in SUBSET Monitors, NEW c, Shutdown(S, c), Taken(c),
         NEW m \in Monitors
  PROVE  /\ nrefs'[m] \in Int /\ Owed(m)' \in Nat /\ Owed(m) \in Nat
         /\ nrefs'[m] + Owed(m) = nrefs[m] + Owed(m)'
<1>1. /\ ticP[m] \in BOOLEAN /\ pooled[m] \in BOOLEAN /\ nrefs[m] \in Int
      /\ HasList \in BOOLEAN
  BY DEF RefInv, MonTypes, HasList
<1> DEFINE d == IF m \in S THEN Unrefs(m) ELSE 0
           a == IF m \in S THEN One(pooled[m]) ELSE 0
           b == IF m \in S THEN One(ticP[m] /\ HasList) ELSE 0
<1>2. nrefs'[m] = nrefs[m] - d - One(m = c.m)
  BY DEF Shutdown, Release
<1>3. d = a + b
  BY <1>1 DEF Unrefs, One
<1>4. /\ ticP'[m] <=> (ticP[m] /\ ~(m \in S /\ HasList))
      /\ pooled'[m] <=> (pooled[m] /\ m \notin S)
  BY DEF Shutdown
<1>5. One(ticP[m]) = One(ticP'[m]) + b
  BY <1>1, <1>4 DEF One
<1>6. One(pooled[m]) = One(pooled'[m]) + a
  BY <1>1, <1>4 DEF One
<1>7. /\ Cardinality(Of(queue, m)) \in Nat /\ Cardinality(Of(queue, m))' \in Nat
      /\ Cardinality(Of(queue, m)) = Cardinality(Of(queue, m))' + One(m = c.m)
  BY TakenCounts
<1>8. \A x : One(x) \in {0, 1}
  BY DEF One
<1>9. a \in {0, 1} /\ b \in {0, 1}
  BY <1>8
<1> HIDE DEF a, b, d
<1>10. One(m = c.m) \in {0, 1} /\ One(ticP'[m]) \in {0, 1} /\ One(pooled'[m]) \in {0, 1}
  BY <1>8
<1>11. Owed(m) = One(ticP[m]) + One(pooled[m]) + Cardinality(Of(queue, m))
  BY DEF Owed
<1>12. Owed(m)' = One(ticP'[m]) + One(pooled'[m]) + Cardinality(Of(queue, m))'
  BY DEF Owed
<1> QED  BY <1>1, <1>2, <1>3, <1>5, <1>6, <1>7, <1>9, <1>10, <1>11, <1>12

LEMMA ShutdownTypes ==
  ASSUME RefInv, NEW S \in SUBSET Monitors, S \subseteq ToSet(list),
         NEW c, Shutdown(S, c), Taken(c), interp' \in {"alive", "deleted", "gone"}
  PROVE  MonTypes'
<1>1. life' \in [Monitors -> {"none", "live", "freed", "leaked"}]
  BY DEF RefInv, MonTypes, Shutdown, Release
<1>2. nrefs' \in [Monitors -> Int]
  <2>1. \A m \in Monitors : nrefs'[m] \in Int
    BY ShutdownOwes
  <2>2. nrefs' = [m \in Monitors |-> nrefs'[m]]
    BY DEF Shutdown, Release
  <2> QED  BY <2>1, <2>2
<1>3. ticP' \in [Monitors -> BOOLEAN] /\ pooled' \in [Monitors -> BOOLEAN]
  BY DEF Shutdown
<1>4. list \in Seq(Monitors) /\ count \in Int
  BY DEF RefInv, MonTypes
<1>5. list' \in Seq(Monitors)
  <2>1. Keep(list, Monitors \ S) \in Seq(Monitors)
    BY <1>4, KeepType
  <2> QED  BY <1>4, <2>1 DEF Shutdown
<1>6. count' \in Int
  <2> DEFINE D == {m \in S : ticP[m] /\ HasList}
  <2>1. IsFiniteSet(D)
    BY DirMonitorAssumption, FS_Subset
  <2>2. Cardinality(D) \in Nat
    BY <2>1, FS_CardinalityType
  <2>3. count' = count - Cardinality(D)
    BY DEF Shutdown
  <2> QED  BY <1>4, <2>2, <2>3
<1>7. queue' \in Seq(Callback)
  <2>1. queue \in Seq(Callback)
    BY DEF RefInv, MonTypes
  <2> QED  BY <2>1, HeadTail DEF Taken
<1>8. pool' \in [Monitors -> {"idle", "called", "rereads", "errs"}]
  BY DEF RefInv, MonTypes, Shutdown
<1> QED  BY <1>1, <1>2, <1>3, <1>5, <1>6, <1>7, <1>8 DEF MonTypes

LEMMA ShutdownList ==
  ASSUME RefInv, NEW S \in SUBSET Monitors, S \subseteq ToSet(list),
         NEW c, Shutdown(S, c), HasList' => HasList
  PROVE  /\ \A m \in Monitors : ticP'[m] <=> m \in ToSet(list')
         /\ HasList' => count' <= Cardinality(ToSet(list'))
<1>1. list \in Seq(Monitors) /\ count \in Int /\ ticP \in [Monitors -> BOOLEAN]
  BY DEF RefInv, MonTypes
<1>2. \A m \in Monitors : ticP[m] <=> m \in ToSet(list)
  BY DEF RefInv
<1>3. \A m \in Monitors : ticP'[m] <=> (ticP[m] /\ ~(m \in S /\ HasList))
  BY DEF Shutdown
<1>4. CASE HasList
  <2>1. list' = Keep(list, Monitors \ S)
    BY <1>4 DEF Shutdown
  <2>2. S \in SUBSET ToSet(list)
    OBVIOUS
  <2>3. /\ \A m \in Monitors : m \in ToSet(list') <=> m \in ToSet(list) /\ m \notin S
        /\ Cardinality(ToSet(list')) \in Nat /\ Cardinality(S) \in Nat
        /\ Cardinality(ToSet(list)) = Cardinality(ToSet(list')) + Cardinality(S)
    BY <1>1, <2>1, <2>2, ListWithout
  <2>4. {m \in S : ticP[m] /\ HasList} = S
    BY <1>2, <1>4
  <2>5. count' = count - Cardinality(S)
    BY <2>4 DEF Shutdown
  <2>6. count <= Cardinality(ToSet(list))
    BY <1>4 DEF RefInv
  <2>7. count' <= Cardinality(ToSet(list'))
    BY <1>1, <2>3, <2>5, <2>6
  <2> QED  BY <1>2, <1>3, <1>4, <2>3, <2>7
<1>5. CASE ~HasList
  BY <1>2, <1>3, <1>5 DEF Shutdown
<1> QED  BY <1>4, <1>5

\* What a shutdown refers to was alive, and stays so while it is referred to
LEMMA ShutdownLives ==
  ASSUME RefInv, NEW S \in SUBSET Monitors, S \subseteq ToSet(list),
         NEW c, Shutdown(S, c), Taken(c), NEW m \in Monitors
  PROVE  /\ life'[m] = "live" => nrefs'[m] = Owed(m)' /\ nrefs'[m] > 0
         /\ life'[m] # "live" => Owed(m)' = 0
         /\ life'[m] \in {"none", "freed"} => nrefs'[m] = 0
         /\ life'[m] = "leaked" => nrefs'[m] \in {0, 1}
<1> DEFINE named == m \in S \/ m = c.m
<1>1. /\ nrefs'[m] \in Int /\ Owed(m)' \in Nat /\ Owed(m) \in Nat /\ nrefs[m] \in Int
      /\ nrefs'[m] + Owed(m) = nrefs[m] + Owed(m)'
  BY ShutdownOwes DEF RefInv, MonTypes
<1>2. named => life[m] = "live"
  <2>1. m \in S => ticP[m]
    BY DEF RefInv
  <2> QED  BY <2>1, HolderLives, TakenCounts
<1>3. life'[m] = IF named /\ nrefs'[m] <= 0 THEN "freed" ELSE life[m]
  BY DirMonitorAssumption DEF Shutdown, Release
<1>4. /\ life[m] = "live" => nrefs[m] = Owed(m) /\ nrefs[m] > 0
      /\ life[m] # "live" => Owed(m) = 0
      /\ life[m] \in {"none", "freed"} => nrefs[m] = 0
      /\ life[m] = "leaked" => nrefs[m] \in {0, 1}
  BY DEF RefInv
<1>5. ~named => nrefs'[m] = nrefs[m]
  BY <1>1 DEF Shutdown, Release, One
<1> HIDE DEF named
<1> QED  BY <1>1, <1>2, <1>3, <1>4, <1>5

LEMMA RefShutdown ==
  ASSUME RefInv, NEW S \in SUBSET Monitors, S \subseteq ToSet(list),
         NEW c, Shutdown(S, c), Taken(c),
         interp' \in {"alive", "deleted", "gone"}, HasList' => HasList
  PROVE  RefInv'
<1>1. MonTypes'
  BY ShutdownTypes
<1>2. /\ \A m \in Monitors : ticP'[m] <=> m \in ToSet(list')
      /\ HasList' => count' <= Cardinality(ToSet(list'))
  BY ShutdownList
<1>3. ASSUME NEW m \in Monitors
      PROVE  pool'[m] # "idle" => pooled'[m]
  BY DEF RefInv, Shutdown, Stopped
<1>4. ASSUME NEW m \in Monitors
      PROVE  /\ life'[m] = "live" => nrefs'[m] = Owed(m)' /\ nrefs'[m] > 0
             /\ life'[m] # "live" => Owed(m)' = 0
             /\ life'[m] \in {"none", "freed"} => nrefs'[m] = 0
             /\ life'[m] = "leaked" => nrefs'[m] \in {0, 1}
  BY ShutdownLives
<1> QED  BY <1>1, <1>2, <1>3, <1>4 DEF RefInv

LEMMA RefRegister ==
  ASSUME RefInv, NEW m \in Monitors, NEW h \in Handles, NEW p \in PatternLists,
         Register(m, h, p)
  PROVE  RefInv'
<1>t. MonTypes
  BY DEF RefInv
<1>1. /\ Cardinality(Of(queue, m)) \in Nat /\ Owed(m) = 0
      /\ ticP[m] \in BOOLEAN /\ pooled[m] \in BOOLEAN
  BY <1>t, OwedType DEF RefInv, MonTypes, Register
<1>2. ~ticP[m] /\ ~pooled[m] /\ Cardinality(Of(queue, m)) = 0
  <2>1. /\ One(ticP[m]) \in {0, 1} /\ One(pooled[m]) \in {0, 1}
        /\ One(ticP[m]) = 0 => ~ticP[m]
        /\ One(pooled[m]) = 0 => ~pooled[m]
    BY <1>1 DEF One
  <2>2. One(ticP[m]) + One(pooled[m]) + Cardinality(Of(queue, m)) = 0
    BY <1>1 DEF Owed
  <2>3. One(ticP[m]) = 0 /\ One(pooled[m]) = 0 /\ Cardinality(Of(queue, m)) = 0
    BY <1>1, <2>1, <2>2
  <2> QED  BY <2>1, <2>3
<1>3. /\ list \in Seq(Monitors) /\ count \in Int /\ m \notin ToSet(list)
      /\ HasList => count <= Cardinality(ToSet(list))
  BY <1>2 DEF RefInv, MonTypes
<1>4. /\ list' = <<m>> \o list /\ count' = count + 1 /\ <<m>> \in Seq(Monitors)
      /\ HasList' = HasList
  BY DEF Register, HasList
<1>5. list' \in Seq(Monitors)
  BY <1>3, <1>4
<1>6. MonTypes'
  BY <1>t, <1>4, <1>5 DEF MonTypes, Register
<1>7. ToSet(list') = ToSet(list) \union {m}
  <2>1. \A x : x \in ToSet(list') <=> x \in ToSet(<<m>>) \/ x \in ToSet(list)
    BY <1>3, <1>4, ConcatElements
  <2>2. ToSet(<<m>>) = {m}
    BY DEF ToSet
  <2> QED  BY <2>1, <2>2
<1>8. Cardinality(ToSet(list')) = Cardinality(ToSet(list)) + 1
  <2>1. IsFiniteSet(ToSet(list))
    BY <1>3, ElementsCount
  <2>2. Cardinality(ToSet(list) \union {m}) = Cardinality(ToSet(list)) + 1
    BY <1>3, <2>1, FS_AddElement
  <2> QED  BY <1>7, <2>2
<1>9. HasList' => count' <= Cardinality(ToSet(list'))
  <2>1. Cardinality(ToSet(list)) \in Nat
    BY <1>3, ElementsCount, FS_CardinalityType
  <2> QED  BY <1>3, <1>4, <1>8, <2>1
<1>10. ASSUME NEW o \in Monitors
       PROVE  ticP'[o] <=> o \in ToSet(list')
  BY <1>t, <1>7 DEF RefInv, MonTypes, Register
<1>11. Owed(m)' = 2 /\ nrefs'[m] = 2 /\ life'[m] = "live"
  <2>1. Owed(m)' = One(ticP'[m]) + One(pooled'[m]) + Cardinality(Of(queue, m))
    BY DEF Owed, Register
  <2>2. ticP'[m] /\ pooled'[m] /\ nrefs'[m] = 2 /\ life'[m] = "live"
    BY <1>t DEF MonTypes, Register
  <2> QED  BY <1>2, <2>1, <2>2 DEF One
<1>12. ASSUME NEW o \in Monitors, o # m
       PROVE  Owed(o)' = Owed(o) /\ nrefs'[o] = nrefs[o] /\ life'[o] = life[o]
  BY <1>t, <1>12 DEF Owed, MonTypes, Register
<1>13. ASSUME NEW o \in Monitors
       PROVE  pool'[o] # "idle" => pooled'[o]
  BY <1>t DEF RefInv, MonTypes, Register
<1>14. ASSUME NEW o \in Monitors
       PROVE  /\ life'[o] = "live" => nrefs'[o] = Owed(o)' /\ nrefs'[o] > 0
              /\ life'[o] # "live" => Owed(o)' = 0
              /\ life'[o] \in {"none", "freed"} => nrefs'[o] = 0
              /\ life'[o] = "leaked" => nrefs'[o] \in {0, 1}
  BY <1>11, <1>12 DEF RefInv
<1> QED  BY <1>6, <1>9, <1>10, <1>13, <1>14 DEF RefInv

\* A registration that fails leaves nothing that refers to it
LEMMA RefLeak ==
  ASSUME RefInv, NEW m \in Monitors, RegisterFails(m) \/ RegisterRefused(m)
  PROVE  RefInv'
<1>t. MonTypes /\ life[m] = "none"
  BY DEF RefInv, RegisterFails, RegisterRefused
<1>2. /\ UNCHANGED <<ticP, pooled, list, pool, queue, interp>>
      /\ life' = [life EXCEPT ![m] = "leaked"] /\ count' \in {count, count - 1}
      /\ nrefs' \in {nrefs, [nrefs EXCEPT ![m] = 2 - 1]}
  BY DEF RegisterFails, RegisterRefused, listVars
<1>1. MonTypes'
  <2>1. life' \in [Monitors -> {"none", "live", "freed", "leaked"}]
    BY <1>t, <1>2 DEF MonTypes
  <2>2. nrefs' \in [Monitors -> Int] /\ count' \in Int
    BY <1>t, <1>2 DEF MonTypes
  <2> QED  BY <1>t, <1>2, <2>1, <2>2 DEF MonTypes
<1>3. \A o \in Monitors : Owed(o)' = Owed(o)
  BY <1>2 DEF Owed
<1>4. \A o \in Monitors : o # m => life'[o] = life[o] /\ nrefs'[o] = nrefs[o]
  BY <1>t, <1>2 DEF MonTypes
<1>5. life'[m] = "leaked" /\ nrefs'[m] \in {0, 1} /\ Owed(m) = 0
  BY <1>t, <1>2 DEF MonTypes, RefInv
<1>6. HasList' => count' <= Cardinality(ToSet(list'))
  <2>1. Cardinality(ToSet(list)) \in Nat
    BY <1>t, ElementsCount, FS_CardinalityType DEF MonTypes
  <2> QED  BY <1>t, <1>2, <2>1 DEF RefInv, MonTypes, HasList
<1>7. \A o \in Monitors :
         /\ ticP'[o] <=> o \in ToSet(list')
         /\ pool'[o] # "idle" => pooled'[o]
  BY <1>2 DEF RefInv
<1>8. ASSUME NEW o \in Monitors
      PROVE  /\ life'[o] = "live" => nrefs'[o] = Owed(o)' /\ nrefs'[o] > 0
             /\ life'[o] # "live" => Owed(o)' = 0
             /\ life'[o] \in {"none", "freed"} => nrefs'[o] = 0
             /\ life'[o] = "leaked" => nrefs'[o] \in {0, 1}
  BY <1>3, <1>4, <1>5 DEF RefInv
<1> QED  BY <1>1, <1>6, <1>7, <1>8 DEF RefInv

\* The three places that shut monitors down
LEMMA DispatchShutsDown ==
  ASSUME RefInv, Dispatch
  PROVE  /\ queue # <<>> /\ Taken(Head(queue)) /\ UNCHANGED <<interp, scripts>>
         /\ \E S \in SUBSET Monitors :
               S = {m \in {Head(queue).m} :
                       ticP[m] /\ (~ticP[Head(queue).m] \/ interp # "alive")}
               /\ S \subseteq ToSet(list) /\ Shutdown(S, Head(queue))
<1> DEFINE c == Head(queue)
<1>1. queue # <<>> /\ queue' = Tail(queue) /\ UNCHANGED <<interp, scripts>>
  BY DEF Dispatch
<1>2. 1 \in 1 .. Len(queue) /\ queue[1] = c
  BY <1>1, HeadTail DEF RefInv, MonTypes
<1>3. c.m \in Monitors
  BY <1>2, SenderLives
<1>4. ticP[c.m] => c.m \in ToSet(list)
  BY <1>3 DEF RefInv
<1>5. CASE ~ticP[c.m] \/ interp # "alive"
  BY <1>1, <1>3, <1>4, <1>5 DEF Dispatch, Taken
<1>6. CASE ~(~ticP[c.m] \/ interp # "alive")
  <2>1. Shutdown({}, c)
    BY <1>6 DEF Dispatch
  <2>2. {m \in {c.m} : ticP[m] /\ (~ticP[c.m] \/ interp # "alive")} = {}
    BY <1>6
  <2> QED  BY <1>1, <2>1, <2>2 DEF Taken
<1> QED  BY <1>5, <1>6

LEMMA CleanupShutsDown ==
  ASSUME RefInv, StorageCleanup
  PROVE  /\ ToSet(SubSeq(list, 1, count)) \subseteq ToSet(list)
         /\ ToSet(SubSeq(list, 1, count)) \in SUBSET Monitors
<1>1. HasList /\ list \in Seq(Monitors) /\ count \in Int /\ count >= 0
  BY DEF StorageCleanup, HasList, RefInv, MonTypes
<1>2. /\ Cardinality(ToSet(list)) <= Len(list) /\ count <= Cardinality(ToSet(list))
      /\ Cardinality(ToSet(list)) \in Nat
  BY <1>1, ElementsCount, FS_CardinalityType DEF RefInv
<1>3. count <= Len(list) /\ count \in Nat
  BY <1>1, <1>2
<1>4. /\ Len(SubSeq(list, 1, count)) = count
      /\ \A i \in 1 .. count : SubSeq(list, 1, count)[i] = list[i]
  BY <1>1, <1>3
<1>5. ToSet(SubSeq(list, 1, count)) \subseteq ToSet(list)
  BY <1>3, <1>4 DEF ToSet
<1>6. ToSet(list) \subseteq Monitors
  BY <1>1 DEF ToSet
<1> QED  BY <1>5, <1>6

\* What a monitor reads into is a buffer.  This needs nothing else.
BufTypes == iob \in [Monitors -> Buffers \union {None}] /\ used \subseteq Buffers

LEMMA ReadBufferType ==
  ASSUME BufTypes, NEW m \in Monitors
  PROVE  ReadBuffer(m) \subseteq Buffers
<1>1. CASE used # Buffers
  <2>1. \E b \in Buffers : b \notin used
    BY <1>1 DEF BufTypes
  <2>2. FreeBuffer \in Buffers
    BY <2>1 DEF FreeBuffer
  <2> QED  BY <2>2 DEF ReadBuffer, BufTypes
<1>2. CASE used = Buffers
  BY <1>2 DEF ReadBuffer, BuffersLeft, BufTypes
<1> QED  BY <1>1, <1>2

LEMMA BufTypesStep == BufTypes /\ [Next]_vars => BufTypes'
<1> SUFFICES ASSUME BufTypes, [Next]_vars PROVE BufTypes'
  OBVIOUS
<1>s. ASSUME NEW S, NEW c, Shutdown(S, c)
      PROVE  BufTypes'
  BY <1>s DEF BufTypes, Shutdown, Release
<1>r. ASSUME NEW m \in Monitors, InitiateRead(m)
      PROVE  BufTypes'
  <2>1. PICK b \in ReadBuffer(m) : iob' = [iob EXCEPT ![m] = b] /\ used' = used \union {b}
    BY <1>r DEF InitiateRead
  <2>2. b \in Buffers
    BY ReadBufferType
  <2> QED  BY <2>1, <2>2 DEF BufTypes
<1>1. ASSUME NEW m \in Monitors,
             PoolFires(m) \/ PoolSends(m) \/ PoolErrs(m) \/ ReadFails(m)
             \/ LateEnds(m) \/ RegisterFails(m) \/ \E n \in Names : Change(m, n)
      PROVE  BufTypes'
  BY <1>1 DEF PoolFires, PoolSends, PoolErrs, ReadFails, LateEnds, RegisterFails, Change,
              BufTypes, dmcVars, ioVars
<1>2. ASSUME NEW m \in Monitors, PoolRereads(m)
      PROVE  BufTypes'
  BY <1>2, <1>r DEF PoolRereads, BufTypes, ioVars
<1>3. ASSUME NEW m \in Monitors, NEW h \in Handles, NEW p \in PatternLists,
             Register(m, h, p)
      PROVE  BufTypes'
  BY <1>3, <1>r DEF Register
<1>4. ASSUME NEW m \in Monitors, RegisterRefused(m)
      PROVE  BufTypes'
  <2>1. FreeBuffer \in Buffers
    <3>1. \E b \in Buffers : b \notin used
      BY <1>4 DEF BufTypes, RegisterRefused, BuffersLeft
    <3> QED  BY <3>1 DEF FreeBuffer
  <2> QED  BY <1>4, <2>1 DEF BufTypes, RegisterRefused
<1>5. CASE (\E h \in Handles : Cancel(h)) \/ Dispatch \/ StorageCleanup
  BY <1>5, <1>s DEF Cancel, Dispatch, StorageCleanup
<1>6. CASE InterpDelete \/ UNCHANGED vars
  BY <1>6 DEF BufTypes, InterpDelete, vars, dmcVars, ioVars
<1> QED  BY <1>1, <1>2, <1>3, <1>4, <1>5, <1>6 DEF Next

LEMMA RefInvStep == RefInv /\ BufTypes /\ [Next]_vars => RefInv'
<1> SUFFICES ASSUME RefInv, BufTypes, [Next]_vars PROVE RefInv'
  OBVIOUS
<1>t. MonTypes
  BY DEF RefInv
<1>1. ASSUME NEW m \in Monitors, PoolFires(m)
      PROVE  RefInv'
  BY <1>t, <1>1, RefStill DEF PoolFires, RefInv, MonTypes, histVars, ioVars
<1>2. ASSUME NEW m \in Monitors, PoolSends(m)
      PROVE  RefInv'
  <2>1. pool' \in [Monitors -> {"idle", "called", "rereads", "errs"}]
    BY <1>t, <1>2 DEF PoolSends, MonTypes
  <2>2. pooled[m] /\ \A o \in Monitors : pool'[o] # "idle" => pooled[o]
    BY <1>t, <1>2 DEF PoolSends, RefInv, MonTypes
  <2>3. UNCHANGED <<life, ticP, pooled, listVars, interp>>
    BY <1>2 DEF PoolSends
  <2>4. CASE Enqueue(m, iob[m])
    <3>1. iob[m] \in Buffers \union {None}
      BY DEF BufTypes
    <3> QED  BY <2>1, <2>2, <2>3, <2>4, <3>1, RefEnqueue
  <2>5. CASE UNCHANGED <<nrefs, queue>>
    BY <2>1, <2>2, <2>3, <2>5, RefStill
  <2> QED  BY <1>2, <2>4, <2>5 DEF PoolSends
<1>3. ASSUME NEW m \in Monitors, PoolRereads(m)
      PROVE  RefInv'
  BY <1>t, <1>3, RefStill DEF PoolRereads, RefInv, MonTypes
<1>4. ASSUME NEW m \in Monitors, PoolErrs(m)
      PROVE  RefInv'
  <2>1. pool' \in [Monitors -> {"idle", "called", "rereads", "errs"}]
    BY <1>t, <1>4 DEF PoolErrs, MonTypes
  <2>2. pooled[m] /\ \A o \in Monitors : pool'[o] # "idle" => pooled[o]
    BY <1>t, <1>4 DEF PoolErrs, RefInv, MonTypes
  <2>3. Enqueue(m, None) /\ UNCHANGED <<life, ticP, pooled, listVars, interp>>
    BY <1>4 DEF PoolErrs
  <2> QED  BY <2>1, <2>2, <2>3, RefEnqueue
<1>5. ASSUME NEW m \in Monitors, ReadFails(m) \/ LateEnds(m)
      PROVE  RefInv'
  <2>1. UNCHANGED <<life, nrefs, ticP, pooled, listVars, queue, interp, pool>>
    BY <1>5 DEF ReadFails, LateEnds, dmcVars
  <2> QED  BY <1>t, <2>1, RefStill DEF RefInv, MonTypes
<1>6. ASSUME NEW m \in Monitors, RegisterFails(m) \/ RegisterRefused(m)
      PROVE  RefInv'
  BY <1>6, RefLeak
<1>7. ASSUME NEW m \in Monitors, NEW n \in Names, Change(m, n)
      PROVE  RefInv'
  BY <1>t, <1>7, RefStill DEF Change, RefInv, MonTypes
<1>8. ASSUME NEW m \in Monitors, NEW h \in Handles, NEW p \in PatternLists,
             Register(m, h, p)
      PROVE  RefInv'
  BY <1>8, RefRegister
<1>9. ASSUME NEW h \in Handles, Cancel(h)
      PROVE  RefInv'
  <2>1. PICK m \in ToSet(list) : Shutdown({m}, NoCallback)
    BY <1>9 DEF Cancel
  <2>2. ToSet(list) \subseteq Monitors
    BY <1>t DEF MonTypes, ToSet
  <2>3. {m} \in SUBSET Monitors /\ {m} \subseteq ToSet(list)
    BY <2>2
  <2>4. Taken(NoCallback) /\ interp' = interp
    BY <1>9 DEF Cancel, Taken
  <2> QED  BY <1>t, <2>1, <2>3, <2>4, RefShutdown DEF MonTypes, HasList
<1>10. CASE Dispatch
  <2>1. Taken(Head(queue)) /\ interp' = interp
    BY <1>10, DispatchShutsDown
  <2>2. PICK S \in SUBSET Monitors : S \subseteq ToSet(list) /\ Shutdown(S, Head(queue))
    BY <1>10, DispatchShutsDown
  <2> QED  BY <1>t, <2>1, <2>2, RefShutdown DEF MonTypes, HasList
<1>11. CASE InterpDelete
  <2>1. MonTypes'
    BY <1>t, <1>11 DEF MonTypes, InterpDelete, dmcVars, listVars
  <2>2. \A m : Owed(m)' = Owed(m)
    BY <1>11 DEF Owed, InterpDelete, dmcVars
  <2> QED  BY <1>11, <2>1, <2>2 DEF RefInv, HasList, InterpDelete, dmcVars, listVars
<1>12. CASE StorageCleanup
  <2> DEFINE S == ToSet(SubSeq(list, 1, count))
  <2>1. S \subseteq ToSet(list) /\ S \in SUBSET Monitors
    BY <1>12, CleanupShutsDown
  <2>3. Taken(NoCallback) /\ interp' = "gone" /\ ~HasList' /\ Shutdown(S, NoCallback)
    BY <1>12 DEF StorageCleanup, Taken, HasList
  <2> HIDE DEF S
  <2> QED  BY <2>1, <2>3, RefShutdown
<1>13. CASE UNCHANGED vars
  BY <1>t, <1>13, RefStill DEF vars, dmcVars, RefInv, MonTypes
<1> QED  BY <1>1, <1>2, <1>3, <1>4, <1>5, <1>6, <1>7, <1>8, <1>9, <1>10, <1>11, <1>12,
            <1>13 DEF Next

\* While the module has its list, the monitors have a reference each to the context
OnContext == {m \in Monitors : ticP[m]}

CtxInv == tic \in Int /\ (HasList => tic = Cardinality(OnContext))

LEMMA CtxInvInit == Init => CtxInv
<1> SUFFICES ASSUME Init PROVE CtxInv
  OBVIOUS
<1>1. OnContext = {} /\ tic = 0
  BY DEF Init, OnContext
<1> QED  BY <1>1, FS_EmptySet DEF CtxInv

LEMMA CtxShutdown ==
  ASSUME RefInv, CtxInv, NEW S \in SUBSET Monitors, S \subseteq ToSet(list),
         NEW c, Shutdown(S, c), HasList' => HasList
  PROVE  CtxInv'
<1>1. S \subseteq OnContext /\ {m \in S : ticP[m]} = S
  BY DEF RefInv, OnContext
<1>2. tic' = tic - Cardinality(S)
  BY <1>1 DEF Shutdown
<1>3. IsFiniteSet(OnContext) /\ IsFiniteSet(S)
  BY DirMonitorAssumption, FS_Subset DEF OnContext
<1>4. Cardinality(S) \in Nat /\ Cardinality(OnContext) \in Nat
  BY <1>3, FS_CardinalityType
<1>5. ASSUME HasList
      PROVE  tic' = Cardinality(OnContext')
  <2>1. OnContext' = OnContext \ S
    BY <1>1, <1>5 DEF OnContext, Shutdown
  <2>2. OnContext \cap S = S
    BY <1>1
  <2>3. Cardinality(OnContext \ S) = Cardinality(OnContext) - Cardinality(S)
    BY <1>3, <2>2, FS_Difference
  <2> QED  BY <1>2, <1>5, <2>1, <2>3 DEF CtxInv
<1>6. tic' \in Int
  BY <1>2, <1>4 DEF CtxInv
<1> QED  BY <1>5, <1>6 DEF CtxInv

LEMMA CtxInvStep == RefInv /\ CtxInv /\ [Next]_vars => CtxInv'
<1> SUFFICES ASSUME RefInv, CtxInv, [Next]_vars PROVE CtxInv'
  OBVIOUS
<1>t. MonTypes
  BY DEF RefInv
<1>1. ASSUME UNCHANGED <<tic, ticP>>, HasList' => HasList
      PROVE  CtxInv'
  BY <1>1 DEF CtxInv, OnContext
<1>2. ASSUME NEW m \in Monitors,
             \/ PoolFires(m) \/ PoolSends(m) \/ PoolRereads(m) \/ PoolErrs(m)
             \/ ReadFails(m) \/ LateEnds(m) \/ RegisterFails(m) \/ RegisterRefused(m)
             \/ \E n \in Names : Change(m, n)
      PROVE  CtxInv'
  <2>1. UNCHANGED <<tic, ticP, interp>>
    BY <1>2 DEF PoolFires, PoolSends, PoolRereads, PoolErrs, ReadFails, LateEnds,
                RegisterFails, RegisterRefused, Change, listVars, dmcVars
  <2> QED  BY <1>1, <2>1 DEF HasList
<1>3. ASSUME NEW m \in Monitors, NEW h \in Handles, NEW p \in PatternLists,
             Register(m, h, p)
      PROVE  CtxInv'
  <2>1. tic' = tic + 1 /\ ticP' = [ticP EXCEPT ![m] = TRUE] /\ HasList' = HasList
    BY <1>3 DEF Register, HasList
  <2>2. m \notin OnContext
    <3>1. life[m] # "live"
      BY <1>3 DEF Register
    <3> QED  BY <3>1, HolderLives DEF OnContext
  <2>3. OnContext' = OnContext \union {m}
    BY <1>t, <2>1 DEF OnContext, MonTypes
  <2>4. IsFiniteSet(OnContext)
    BY DirMonitorAssumption, FS_Subset DEF OnContext
  <2>5. Cardinality(OnContext \union {m}) = Cardinality(OnContext) + 1
    BY <2>2, <2>4, FS_AddElement
  <2> QED  BY <2>1, <2>3, <2>5 DEF CtxInv
<1>4. ASSUME NEW h \in Handles, Cancel(h)
      PROVE  CtxInv'
  <2>1. PICK m \in ToSet(list) : Shutdown({m}, NoCallback)
    BY <1>4 DEF Cancel
  <2>2. {m} \in SUBSET Monitors /\ {m} \subseteq ToSet(list)
    BY <1>t DEF MonTypes, ToSet
  <2>3. HasList' = HasList
    BY <1>4 DEF Cancel, HasList
  <2> QED  BY <2>1, <2>2, <2>3, CtxShutdown
<1>5. CASE Dispatch
  <2>1. HasList' = HasList
    BY <1>5 DEF Dispatch, HasList
  <2>2. PICK S \in SUBSET Monitors : S \subseteq ToSet(list) /\ Shutdown(S, Head(queue))
    BY <1>5, DispatchShutsDown
  <2> QED  BY <2>1, <2>2, CtxShutdown
<1>6. CASE InterpDelete \/ UNCHANGED vars
  <2>1. UNCHANGED <<tic, ticP>>
    BY <1>6 DEF InterpDelete, vars, listVars, dmcVars
  <2>2. HasList' => HasList
    BY <1>6 DEF InterpDelete, vars, HasList
  <2> QED  BY <1>1, <2>1, <2>2
<1>7. CASE StorageCleanup
  <2> DEFINE S == ToSet(SubSeq(list, 1, count))
  <2>1. S \subseteq ToSet(list) /\ S \in SUBSET Monitors
    BY <1>7, CleanupShutsDown
  <2>2. ~HasList' /\ Shutdown(S, NoCallback)
    BY <1>7 DEF StorageCleanup, HasList
  <2> HIDE DEF S
  <2> QED  BY <2>1, <2>2, CtxShutdown
<1> QED  BY <1>2, <1>3, <1>4, <1>5, <1>6, <1>7 DEF Next

\* The list, the pool and the callbacks are the references of a monitor: the count
\* that TwapiDirectoryMonitorContextUnref drops is theirs in every state, and that of
\* the interpreter context has one for each monitor until the list is gone.
THEOREM MonitorRefsAreExact == Spec => []MonitorRefsExact
<1>1. RefInv /\ CtxInv => MonitorRefsExact
  <2> SUFFICES ASSUME RefInv, NEW m \in Monitors
               PROVE  /\ life[m] \in {"live", "freed"} =>
                            nrefs[m] = One(m \in ToSet(list)) + One(pooled[m])
                                       + Cardinality(Queued(m))
                      /\ life[m] = "freed" <=>
                            life[m] # "none" /\ nrefs[m] = 0 /\ life[m] # "leaked"
                      /\ pool[m] # "idle" => pooled[m]
    BY DEF MonitorRefsExact, CtxInv, OnContext
  <2>1. Queued(m) = Of(queue, m)
    BY DEF Queued, Of
  <2>2. One(m \in ToSet(list)) = One(ticP[m])
    BY DEF RefInv, One
  <2>3. life[m] \in {"none", "live", "freed", "leaked"}
    BY DEF RefInv, MonTypes
  <2>4. Owed(m) = One(m \in ToSet(list)) + One(pooled[m]) + Cardinality(Queued(m))
    BY <2>1, <2>2 DEF Owed
  <2> QED  BY <2>3, <2>4 DEF RefInv
<1>2. Init => BufTypes
  BY DEF Init, BufTypes
<1> QED  BY <1>1, <1>2, RefInvInit, CtxInvInit, BufTypesStep, RefInvStep, CtxInvStep, PTL
         DEF Spec

-----------------------------------------------------------------------------
(* Buffers. *)

IoTypes ==
    /\ BufTypes
    /\ handle \in [Monitors -> Handles \union {None}]
    /\ event \in [Monitors -> {"null", "unset", "set"}]
    /\ pats \in [Monitors -> PatternLists \union {<<>>}]
    /\ io \in [Monitors -> {"none", "pending", "done", "failed"}]
    /\ pend \in [Monitors -> Seq(1 .. MaxChanges)] /\ over \in [Monitors -> BOOLEAN]
    /\ late \in [Monitors -> Buffers \union {None}]
    /\ data \in [Buffers -> Seq(1 .. MaxChanges)]
    /\ scripts \in [Handles -> Monitors \union {None}]
    /\ changed \in [Monitors -> Seq(Names)]
    /\ lost \in [Monitors -> SUBSET (1 .. MaxChanges)]
    /\ told \in [Monitors -> Seq(1 .. MaxChanges)]
    /\ failure \in [Monitors -> {"none", "queued", "told"}]

\* A directory is open as long as the pool waits for it, and a read needs that and
\* a buffer; a handle is that of one monitor, and so is the script for it.
HandleInv ==
    /\ \A m \in Monitors :
          /\ pooled[m] <=> handle[m] # None
          /\ ticP[m] /\ HasList => handle[m] # None
          /\ io[m] # "none" => pooled[m] /\ iob[m] # None
          /\ pool[m] \in {"rereads", "errs"} => io[m] = "none"
          /\ io[m] = "pending" => pend[m] = <<>>
          /\ ticP[m] /\ interp = "alive" => scripts[handle[m]] = m
    /\ \A m, o \in Monitors : handle[m] = handle[o] /\ handle[m] # None => m = o

IoInv == RefInv /\ IoTypes /\ HandleInv

LEMMA IoInvInit == Init => IoInv
<1> SUFFICES ASSUME Init PROVE IoInv
  OBVIOUS
<1>1. IoTypes
  BY DEF Init, IoTypes, BufTypes
<1>2. HandleInv
  BY DEF Init, HandleInv
<1> QED  BY <1>1, <1>2, RefInvInit DEF IoInv

\* What an initiated read does to the monitor and to its buffer
LEMMA ReadStarts ==
  ASSUME IoTypes, NEW m \in Monitors, InitiateRead(m)
  PROVE  /\ \E b \in ReadBuffer(m) :
               /\ b \in Buffers /\ iob' = [iob EXCEPT ![m] = b]
               /\ used' = used \union {b} /\ data' = [data EXCEPT ![b] = pend[m]]
         /\ \E x \in {"done", "pending"} : io' = [io EXCEPT ![m] = x]
         /\ event' \in [Monitors -> {"null", "unset", "set"}]
         /\ pend' = [pend EXCEPT ![m] = <<>>] /\ over' = [over EXCEPT ![m] = FALSE]
<1>1. PICK b \in ReadBuffer(m) :
         /\ iob' = [iob EXCEPT ![m] = b] /\ used' = used \union {b}
         /\ data' = [data EXCEPT ![b] = pend[m]]
  BY DEF InitiateRead
<1>2. b \in Buffers
  BY ReadBufferType DEF IoTypes
<1>3. \E x \in {"done", "pending"} : io' = [io EXCEPT ![m] = x]
  BY DEF InitiateRead
<1>4. event' \in [Monitors -> {"null", "unset", "set"}]
  BY DEF InitiateRead, IoTypes
<1> QED  BY <1>1, <1>2, <1>3, <1>4 DEF InitiateRead

LEMMA ReadTypes ==
  ASSUME IoTypes, NEW m \in Monitors, InitiateRead(m)
  PROVE  /\ BufTypes' /\ event' \in [Monitors -> {"null", "unset", "set"}]
         /\ io' \in [Monitors -> {"none", "pending", "done", "failed"}]
         /\ pend' \in [Monitors -> Seq(1 .. MaxChanges)]
         /\ over' \in [Monitors -> BOOLEAN]
         /\ late' \in [Monitors -> Buffers \union {None}]
         /\ data' \in [Buffers -> Seq(1 .. MaxChanges)]
<1>1. PICK b \in Buffers :
         /\ iob' = [iob EXCEPT ![m] = b] /\ used' = used \union {b}
         /\ data' = [data EXCEPT ![b] = pend[m]]
  BY ReadStarts
<1>2. PICK x \in {"done", "pending"} : io' = [io EXCEPT ![m] = x]
  BY ReadStarts
<1>3. /\ event' \in [Monitors -> {"null", "unset", "set"}]
      /\ pend' = [pend EXCEPT ![m] = <<>>] /\ over' = [over EXCEPT ![m] = FALSE]
  BY ReadStarts
<1>4. BufTypes'
  BY <1>1 DEF IoTypes, BufTypes
<1>5. data' \in [Buffers -> Seq(1 .. MaxChanges)]
  BY <1>1 DEF IoTypes
<1>6. io' \in [Monitors -> {"none", "pending", "done", "failed"}]
  BY <1>2 DEF IoTypes
<1>7. pend' \in [Monitors -> Seq(1 .. MaxChanges)] /\ over' \in [Monitors -> BOOLEAN]
  <2>1. <<>> \in Seq(1 .. MaxChanges)
    OBVIOUS
  <2> QED  BY <1>3, <2>1 DEF IoTypes
<1>8. late' \in [Monitors -> Buffers \union {None}]
  BY DEF InitiateRead, IoTypes
<1> QED  BY <1>3, <1>4, <1>5, <1>6, <1>7, <1>8

LEMMA ShutdownIoTypes ==
  ASSUME IoTypes, NEW S \in SUBSET Monitors, NEW c, Shutdown(S, c)
  PROVE  /\ BufTypes' /\ handle' \in [Monitors -> Handles \union {None}]
         /\ event' \in [Monitors -> {"null", "unset", "set"}]
         /\ io' \in [Monitors -> {"none", "pending", "done", "failed"}]
         /\ pend' \in [Monitors -> Seq(1 .. MaxChanges)] /\ over' \in [Monitors -> BOOLEAN]
         /\ late' \in [Monitors -> Buffers \union {None}]
         /\ UNCHANGED <<pats, data>>
<1>1. BufTypes'
  BY DEF IoTypes, BufTypes, Shutdown, Release
<1>2. /\ handle' \in [Monitors -> Handles \union {None}]
      /\ event' \in [Monitors -> {"null", "unset", "set"}]
      /\ io' \in [Monitors -> {"none", "pending", "done", "failed"}]
  BY DEF IoTypes, Shutdown
<1>3. pend' \in [Monitors -> Seq(1 .. MaxChanges)] /\ over' \in [Monitors -> BOOLEAN]
  <2>1. <<>> \in Seq(1 .. MaxChanges)
    OBVIOUS
  <2> QED  BY <2>1 DEF IoTypes, Shutdown
<1>4. late' \in [Monitors -> Buffers \union {None}]
  <2>1. PICK L : late' = [m \in Monitors |-> IF m \in L THEN iob[m] ELSE late[m]]
    BY DEF Shutdown
  <2> QED  BY <2>1 DEF IoTypes, BufTypes
<1> QED  BY <1>1, <1>2, <1>3, <1>4 DEF Shutdown

LEMMA ChangeTypes ==
  ASSUME IoTypes, NEW m \in Monitors, NEW n \in Names, Change(m, n), HandleInv
  PROVE  IoTypes'
<1> DEFINE i == Len(changed[m]) + 1
<1>1. i \in 1 .. MaxChanges
  BY ChangesBound DEF IoTypes, Change
<1>2. changed' = [changed EXCEPT ![m] = Append(changed[m], n)]
  BY DEF Change
<1>3. changed' \in [Monitors -> Seq(Names)]
  BY <1>2 DEF IoTypes
<1>4. UNCHANGED <<iob, used, handle, pats, late, scripts, told, failure>>
  BY DEF Change
<1> DEFINE I == 1 .. MaxChanges
<1>t. /\ pend \in [Monitors -> Seq(I)] /\ data \in [Buffers -> Seq(I)]
      /\ lost \in [Monitors -> SUBSET I]
      /\ event \in [Monitors -> {"null", "unset", "set"}]
      /\ io \in [Monitors -> {"none", "pending", "done", "failed"}]
      /\ over \in [Monitors -> BOOLEAN] /\ pend[m] \in Seq(I)
  BY DEF IoTypes
<1>5. CASE /\ io[m] = "pending"
           /\ io' = [io EXCEPT ![m] = "done"] /\ event' = [event EXCEPT ![m] = "set"]
           /\ data' = [data EXCEPT ![iob[m]] = <<i>>]
           /\ UNCHANGED <<pend, over, lost>>
  <2>1. <<i>> \in Seq(I) /\ iob[m] \in Buffers
    BY <1>1, <1>5 DEF IoTypes, BufTypes, HandleInv
  <2> HIDE DEF i, I
  <2>2. data' \in [Buffers -> Seq(I)]
    BY <1>t, <1>5, <2>1
  <2> QED  BY <1>3, <1>4, <1>5, <2>2 DEF IoTypes, BufTypes, I
<1>6. CASE /\ pend' = [pend EXCEPT ![m] = Append(pend[m], i)]
           /\ UNCHANGED <<io, event, data, over, lost>>
  <2>1. Append(pend[m], i) \in Seq(I)
    BY <1>1, <1>t
  <2> HIDE DEF i, I
  <2>2. pend' \in [Monitors -> Seq(I)]
    BY <1>t, <1>6, <2>1
  <2> QED  BY <1>3, <1>4, <1>6, <2>2 DEF IoTypes, BufTypes, I
<1>7. CASE /\ pend' = [pend EXCEPT ![m] = <<>>] /\ over' = [over EXCEPT ![m] = TRUE]
           /\ lost' = [lost EXCEPT ![m] = lost[m] \union {i} \union ToSet(pend[m])]
           /\ UNCHANGED <<io, event, data>>
  <2>1. <<>> \in Seq(I)
    OBVIOUS
  <2>e. ToSet(pend[m]) \subseteq I
    <3> DEFINE s == pend[m]
    <3>1. s \in Seq(I)
      BY <1>t
    <3> HIDE DEF s, I
    <3>2. \A k \in 1 .. Len(s) : s[k] \in I
      BY <3>1
    <3>3. ToSet(s) \subseteq I
      BY <3>2 DEF ToSet
    <3> QED  BY <3>3 DEF s
  <2> HIDE DEF i
  <2>2. lost[m] \union {i} \union ToSet(pend[m]) \in SUBSET I
    BY <1>1, <1>t, <2>e
  <2> HIDE DEF I
  <2>3. pend' \in [Monitors -> Seq(I)] /\ lost' \in [Monitors -> SUBSET I]
        /\ over' \in [Monitors -> BOOLEAN]
    BY <1>t, <1>7, <2>1, <2>2
  <2> QED  BY <1>3, <1>4, <1>7, <2>3 DEF IoTypes, BufTypes, I
<1> QED  BY <1>5, <1>6, <1>7 DEF Change

\* What a late end does to another read
LEMMA LateEnd ==
  ASSUME IoTypes, NEW m \in Monitors, LateEnds(m), NEW o \in Monitors
  PROVE  \/ io'[o] = io[o] /\ lost'[o] = lost[o]
         \/ /\ io[o] = "done" /\ io'[o] = "failed" /\ iob[o] \in Buffers
            /\ lost'[o] = lost[o] \union ToSet(data[iob[o]])
<1>1. late[m] \in Buffers
  BY DEF IoTypes, LateEnds
<1>2. CASE iob[o] = late[m] /\ io[o] = "done"
  BY <1>1, <1>2 DEF LateEnds
<1>3. CASE ~(iob[o] = late[m] /\ io[o] = "done")
  BY <1>3 DEF LateEnds
<1> QED  BY <1>2, <1>3

LEMMA LateTypes ==
  ASSUME IoTypes, BufTypes', NEW m \in Monitors, LateEnds(m)
  PROVE  IoTypes'
<1> DEFINE I == 1 .. MaxChanges
<1>1. /\ UNCHANGED <<handle, event, pats, pend, over, data, scripts, changed, told, failure>>
      /\ late' = [late EXCEPT ![m] = None]
  BY DEF LateEnds, dmcVars
<1>2. late' \in [Monitors -> Buffers \union {None}]
  BY <1>1 DEF IoTypes
<1>t. data \in [Buffers -> Seq(I)] /\ lost \in [Monitors -> SUBSET I]
  BY DEF IoTypes
<1>3. ASSUME NEW o \in Monitors
      PROVE  io'[o] \in {"none", "pending", "done", "failed"} /\ lost'[o] \in SUBSET I
  <2>1. CASE io'[o] = io[o] /\ lost'[o] = lost[o]
    BY <2>1 DEF IoTypes
  <2>2. CASE /\ io'[o] = "failed" /\ iob[o] \in Buffers
             /\ lost'[o] = lost[o] \union ToSet(data[iob[o]])
    <3> DEFINE s == data[iob[o]]
    <3>1. s \in Seq(I)
      BY <1>t, <2>2
    <3> HIDE DEF s, I
    <3>2. ToSet(s) \subseteq I
      BY <3>1 DEF ToSet
    <3> QED  BY <1>t, <2>2, <3>2 DEF s
  <2> QED  BY <2>1, <2>2, LateEnd
<1>4. io' = [o \in Monitors |-> io'[o]] /\ lost' = [o \in Monitors |-> lost'[o]]
  BY DEF LateEnds
<1>5. /\ io' \in [Monitors -> {"none", "pending", "done", "failed"}]
      /\ lost' \in [Monitors -> SUBSET I]
  BY <1>3, <1>4
<1> QED  BY <1>1, <1>2, <1>5 DEF IoTypes

\* The script that is told is that of the monitor
LEMMA ScriptOf ==
  ASSUME IoInv, NEW m \in Monitors, ticP[m], interp = "alive"
  PROVE  handle[m] \in Handles /\ scripts[handle[m]] = m /\ m # None
  BY DirMonitorAssumption DEF IoInv, IoTypes, HandleInv, HasList

LEMMA TellTypes ==
  ASSUME IoInv, NEW c \in Callback, ticP[c.m], interp = "alive", Tell(c)
  PROVE  /\ UNCHANGED <<changed, lost>>
         /\ told' \in [Monitors -> Seq(1 .. MaxChanges)]
         /\ failure' \in [Monitors -> {"none", "queued", "told"}]
<1> DEFINE m == c.m
           I == 1 .. MaxChanges
           matched == {i \in 1 .. Len(changed[m]) : PatternMatched(pats[m], changed[m][i])}
<1>1. m \in Monitors /\ c.b \in Buffers \union {None}
  BY DEF Callback
<1>2. scripts[handle[m]] = m /\ m # None
  BY <1>1, ScriptOf
<1>3. /\ told \in [Monitors -> Seq(I)] /\ data \in [Buffers -> Seq(I)]
      /\ failure \in [Monitors -> {"none", "queued", "told"}]
  BY DEF IoInv, IoTypes
<1>4. CASE c.b = None
  BY <1>2, <1>3, <1>4 DEF Tell
<1>5. CASE c.b # None
  <2>1. /\ told' = [told EXCEPT ![m] = told[m] \o Keep(data[c.b], matched)]
        /\ UNCHANGED <<changed, lost, failure>>
    BY <1>2, <1>5 DEF Tell
  <2>2. Keep(data[c.b], matched) \in Seq(I)
    BY <1>1, <1>3, <1>5, KeepType
  <2> HIDE DEF I, matched, m
  <2>3. told[m] \o Keep(data[c.b], matched) \in Seq(I)
    BY <1>1, <1>3, <2>2, ConcatProperties
  <2> QED  BY <1>3, <2>1, <2>3 DEF I
<1> QED  BY <1>4, <1>5

LEMMA IoTypesStep == IoInv /\ [Next]_vars => IoTypes'
<1> SUFFICES ASSUME IoInv, [Next]_vars PROVE IoTypes'
  OBVIOUS
<1>t. IoTypes /\ BufTypes
  BY DEF IoInv, IoTypes
<1>b. BufTypes'
  BY <1>t, BufTypesStep
<1>1. ASSUME NEW m \in Monitors, PoolFires(m)
      PROVE  IoTypes'
  BY <1>t, <1>b, <1>1 DEF PoolFires, IoTypes, ioVars, histVars
<1>2. ASSUME NEW m \in Monitors, PoolSends(m)
      PROVE  IoTypes'
  BY <1>t, <1>b, <1>2 DEF PoolSends, IoTypes, histVars
<1>3. ASSUME NEW m \in Monitors, PoolRereads(m)
      PROVE  IoTypes'
  <2>1. UNCHANGED <<handle, pats, scripts, histVars>>
    BY <1>3 DEF PoolRereads
  <2>2. CASE InitiateRead(m)
    BY <1>t, <2>1, <2>2, ReadTypes DEF IoTypes, histVars
  <2>3. CASE UNCHANGED <<event, iob, ioVars>>
    BY <1>t, <1>b, <2>1, <2>3 DEF IoTypes, histVars, ioVars
  <2> QED  BY <1>3, <2>2, <2>3 DEF PoolRereads
<1>4. ASSUME NEW m \in Monitors, PoolErrs(m)
      PROVE  IoTypes'
  BY <1>t, <1>b, <1>4 DEF PoolErrs, IoTypes
<1>5. ASSUME NEW m \in Monitors, ReadFails(m)
      PROVE  IoTypes'
  BY <1>t, <1>b, <1>5 DEF ReadFails, IoTypes, histVars
<1>6. ASSUME NEW m \in Monitors, RegisterFails(m) \/ RegisterRefused(m)
      PROVE  IoTypes'
  <2>1. event' \in {event, [event EXCEPT ![m] = "unset"]}
    BY <1>6 DEF RegisterFails, RegisterRefused
  <2>2. UNCHANGED <<handle, pats, io, pend, over, late, data, scripts, histVars>>
    BY <1>6 DEF RegisterFails, RegisterRefused, ioVars
  <2> QED  BY <1>t, <1>b, <2>1, <2>2 DEF IoTypes, histVars
<1>7. ASSUME NEW m \in Monitors, NEW n \in Names, Change(m, n)
      PROVE  IoTypes'
  BY <1>t, <1>7, ChangeTypes DEF IoInv
<1>8. ASSUME NEW m \in Monitors, NEW h \in Handles, NEW p \in PatternLists,
             Register(m, h, p)
      PROVE  IoTypes'
  <2>1. InitiateRead(m)
    BY <1>8 DEF Register
  <2>2. handle' \in [Monitors -> Handles \union {None}]
    BY <1>t, <1>8 DEF Register, IoTypes
  <2>3. /\ pats' \in [Monitors -> PatternLists \union {<<>>}]
        /\ scripts' \in [Handles -> Monitors \union {None}]
    BY <1>t, <1>8 DEF Register, IoTypes
  <2>4. UNCHANGED histVars
    BY <1>8 DEF Register
  <2> QED  BY <1>t, <2>1, <2>2, <2>3, <2>4, ReadTypes DEF IoTypes, histVars
<1>9. ASSUME NEW S \in SUBSET Monitors, NEW c, Shutdown(S, c), UNCHANGED histVars,
             scripts' \in [Handles -> Monitors \union {None}]
      PROVE  IoTypes'
  BY <1>t, <1>9, ShutdownIoTypes DEF IoTypes, histVars
<1>10. ASSUME NEW h \in Handles, Cancel(h)
       PROVE  IoTypes'
  <2>1. ToSet(list) \subseteq Monitors
    BY DEF IoInv, RefInv, MonTypes, ToSet
  <2>2. PICK m \in Monitors : Shutdown({m}, NoCallback)
    BY <1>10, <2>1 DEF Cancel
  <2>3. scripts' \in [Handles -> Monitors \union {None}] /\ UNCHANGED histVars
    BY <1>t, <1>10 DEF Cancel, IoTypes
  <2> QED  BY <1>9, <2>2, <2>3
<1>11. CASE Dispatch
  <2> DEFINE c == Head(queue)
  <2>1. c \in Callback
    BY <1>11, HeadTail DEF Dispatch, IoInv, RefInv, MonTypes
  <2>2. scripts' = scripts /\ scripts \in [Handles -> Monitors \union {None}]
    BY <1>t, <1>11 DEF Dispatch, IoTypes
  <2>3. CASE ~ticP[c.m] \/ interp # "alive"
    <3>1. Shutdown({m \in {c.m} : ticP[m]}, c) /\ UNCHANGED histVars
      BY <1>11, <2>3 DEF Dispatch
    <3>2. {m \in {c.m} : ticP[m]} \in SUBSET Monitors
      BY <2>1 DEF Callback
    <3> QED  BY <1>9, <2>2, <3>1, <3>2
  <2>4. CASE ~(~ticP[c.m] \/ interp # "alive")
    <3>1. Shutdown({}, c) /\ Tell(c)
      BY <1>11, <2>4 DEF Dispatch
    <3>i. ticP[c.m] /\ interp = "alive"
      BY <2>4
    <3>2. /\ UNCHANGED <<changed, lost>>
          /\ told' \in [Monitors -> Seq(1 .. MaxChanges)]
          /\ failure' \in [Monitors -> {"none", "queued", "told"}]
      BY <2>1, <3>i, <3>1, TellTypes
    <3> HIDE DEF c
    <3>3. {} \in SUBSET Monitors
      OBVIOUS
    <3>4. /\ BufTypes' /\ handle' \in [Monitors -> Handles \union {None}]
          /\ event' \in [Monitors -> {"null", "unset", "set"}]
          /\ io' \in [Monitors -> {"none", "pending", "done", "failed"}]
          /\ pend' \in [Monitors -> Seq(1 .. MaxChanges)] /\ over' \in [Monitors -> BOOLEAN]
          /\ late' \in [Monitors -> Buffers \union {None}]
          /\ UNCHANGED <<pats, data>>
      BY <1>t, <3>1, <3>3, ShutdownIoTypes
    <3> QED  BY <1>t, <2>2, <3>2, <3>4 DEF IoTypes
  <2> QED  BY <2>3, <2>4
<1>12. CASE InterpDelete
  BY <1>t, <1>b, <1>12 DEF InterpDelete, IoTypes, dmcVars, ioVars, histVars
<1>13. CASE StorageCleanup
  <2> DEFINE S == ToSet(SubSeq(list, 1, count))
  <2>1. Shutdown(S, NoCallback) /\ UNCHANGED <<scripts, histVars>>
    BY <1>13 DEF StorageCleanup
  <2>2. S \in SUBSET Monitors
    BY <1>13, CleanupShutsDown DEF IoInv
  <2>3. scripts \in [Handles -> Monitors \union {None}]
    BY <1>t DEF IoTypes
  <2> HIDE DEF S
  <2> QED  BY <1>9, <2>1, <2>2, <2>3
<1>14. CASE UNCHANGED vars
  BY <1>t, <1>b, <1>14 DEF vars, IoTypes, dmcVars, ioVars, histVars
<1>15. ASSUME NEW m \in Monitors, LateEnds(m)
       PROVE  IoTypes'
  BY <1>t, <1>b, <1>15, LateTypes
<1> QED  BY <1>1, <1>2, <1>3, <1>4, <1>5, <1>6, <1>7, <1>8, <1>10, <1>11, <1>12, <1>13,
            <1>14, <1>15 DEF Next

\* Those whose references are counted are alive, now and after a step
HoldersLive == \A m \in Monitors : ticP[m] \/ pooled[m] => life[m] = "live"

LEMMA LiveNext == RefInv' => HoldersLive'
<1>1. RefInv => HoldersLive
  BY HolderLives DEF HoldersLive
<1> QED  BY <1>1, PTL

\* A monitor that is freed is not waited for, so that its buffer is not read into
LEMMA ShutdownKeepsBuffer ==
  ASSUME RefInv', NEW S \in SUBSET Monitors, NEW c, Shutdown(S, c), NEW m \in Monitors
  PROVE  /\ \/ iob'[m] = iob[m] /\ life'[m] = life[m]
            \/ iob'[m] = None /\ life'[m] = "freed" /\ used' \subseteq used \ {iob[m]}
         /\ life'[m] = "freed" => ~pooled'[m]
<1>1. life'[m] = "freed" => ~pooled'[m]
  BY LiveNext DEF HoldersLive
<1> DEFINE freed == {o \in S \union {c.m} : o # None /\ nrefs'[o] <= 0}
<1>2. /\ iob'[m] = IF m \in freed THEN None ELSE iob[m]
      /\ life'[m] = IF m \in freed THEN "freed" ELSE life[m]
      /\ used' = used \ ({iob[o] : o \in freed} \union {c.b})
  BY DEF Shutdown, Release
<1> HIDE DEF freed
<1> QED  BY <1>1, <1>2

LEMMA HandleShutdown ==
  ASSUME IoInv, RefInv', NEW S \in SUBSET Monitors, S \subseteq ToSet(list),
         NEW c, Shutdown(S, c), HasList' => HasList,
         interp' = "alive" => interp = "alive",
         \A m \in Monitors : m \notin S /\ ticP[m] /\ interp' = "alive"
                                 => scripts'[handle[m]] = m
  PROVE  HandleInv'
<1> SUFFICES ASSUME NEW m \in Monitors
             PROVE  /\ pooled'[m] <=> handle'[m] # None
                    /\ ticP'[m] /\ HasList' => handle'[m] # None
                    /\ io'[m] # "none" => pooled'[m] /\ iob'[m] # None
                    /\ pool'[m] \in {"rereads", "errs"} => io'[m] = "none"
                    /\ io'[m] = "pending" => pend'[m] = <<>>
                    /\ ticP'[m] /\ interp' = "alive" => scripts'[handle'[m]] = m
                    /\ \A o \in Monitors :
                          handle'[m] = handle'[o] /\ handle'[m] # None => m = o
  BY DEF HandleInv
<1>1. \A o \in Monitors : handle'[o] = IF o \in S THEN None ELSE handle[o]
  BY DEF Shutdown
<1>2. /\ pooled'[m] <=> pooled[m] /\ m \notin S
      /\ ticP'[m] <=> ticP[m] /\ ~(m \in S /\ HasList)
      /\ io'[m] = IF m \in S THEN "none" ELSE io[m]
      /\ pend'[m] = IF m \in S THEN <<>> ELSE pend[m]
      /\ pool' = pool
  BY DEF Shutdown
<1>3. /\ pooled[m] <=> handle[m] # None
      /\ ticP[m] /\ HasList => handle[m] # None
      /\ io[m] # "none" => pooled[m] /\ iob[m] # None
      /\ pool[m] \in {"rereads", "errs"} => io[m] = "none"
      /\ io[m] = "pending" => pend[m] = <<>>
      /\ \A o \in Monitors : handle[m] = handle[o] /\ handle[m] # None => m = o
  BY DEF IoInv, HandleInv
<1>4. iob'[m] = iob[m] \/ ~pooled'[m]
  BY ShutdownKeepsBuffer
<1>5. pooled'[m] <=> handle'[m] # None
  BY <1>1, <1>2, <1>3
<1>6. ticP'[m] /\ HasList' => handle'[m] # None
  BY <1>1, <1>2, <1>3
<1>7. io'[m] # "none" => pooled'[m] /\ iob'[m] # None
  BY <1>2, <1>3, <1>4
<1>8. /\ pool'[m] \in {"rereads", "errs"} => io'[m] = "none"
      /\ io'[m] = "pending" => pend'[m] = <<>>
  BY <1>2, <1>3
<1>9. ticP'[m] /\ interp' = "alive" => scripts'[handle'[m]] = m
  <2> SUFFICES ASSUME ticP'[m], interp' = "alive" PROVE scripts'[handle'[m]] = m
    OBVIOUS
  <2>1. HasList
    BY DEF HasList
  <2>2. m \notin S /\ ticP[m]
    BY <1>2, <2>1
  <2> QED  BY <1>1, <2>2
<1>10. \A o \in Monitors : handle'[m] = handle'[o] /\ handle'[m] # None => m = o
  BY <1>1, <1>3
<1> QED  BY <1>5, <1>6, <1>7, <1>8, <1>9, <1>10

\* The read that begins is that of a monitor that is, or now becomes, one of the pool
LEMMA HandleRead ==
  ASSUME IoInv, NEW m \in Monitors, InitiateRead(m), NEW o \in Monitors
  PROVE  /\ o = m => io'[o] # "none" /\ iob'[o] # None /\ pend'[o] = <<>>
         /\ o # m => io'[o] = io[o] /\ iob'[o] = iob[o] /\ pend'[o] = pend[o]
<1>t. IoTypes
  BY DEF IoInv
<1>1. PICK b \in Buffers : iob' = [iob EXCEPT ![m] = b]
  BY <1>t, ReadStarts
<1>2. PICK x \in {"done", "pending"} : io' = [io EXCEPT ![m] = x]
  BY <1>t, ReadStarts
<1>3. pend' = [pend EXCEPT ![m] = <<>>]
  BY <1>t, ReadStarts
<1>4. b # None
  BY DirMonitorAssumption
<1> QED  BY <1>t, <1>1, <1>2, <1>3, <1>4 DEF IoTypes, BufTypes

LEMMA HandleRegister ==
  ASSUME IoInv, NEW m \in Monitors, NEW h \in Handles, NEW p \in PatternLists,
         Register(m, h, p)
  PROVE  HandleInv'
<1>t. IoTypes /\ MonTypes /\ HandleInv /\ RefInv
  BY DEF IoInv, RefInv
<1>1. handle' = [handle EXCEPT ![m] = h] /\ scripts' = [scripts EXCEPT ![h] = m]
  BY DEF Register
<1>2. ticP' = [ticP EXCEPT ![m] = TRUE] /\ pooled' = [pooled EXCEPT ![m] = TRUE]
  BY DEF Register
<1>3. UNCHANGED <<pool, interp>> /\ HasList' = HasList /\ InitiateRead(m)
  BY DEF Register, HasList
<1>4. h # None /\ \A o \in Monitors : handle[o] # h
  BY DirMonitorAssumption DEF Register
<1>5. pool[m] = "idle"
  <2>1. life[m] # "live"
    BY DEF Register
  <2>2. ~pooled[m]
    BY <1>t, <2>1, HolderLives
  <2> QED  BY <1>t, <2>2 DEF RefInv
<1>6. /\ io'[m] # "none" /\ iob'[m] # None /\ pend'[m] = <<>>
      /\ \A o \in Monitors : o # m => io'[o] = io[o] /\ iob'[o] = iob[o] /\ pend'[o] = pend[o]
  BY <1>3, HandleRead
<1>7. /\ handle'[m] = h /\ scripts'[h] = m /\ ticP'[m] /\ pooled'[m]
      /\ \A o \in Monitors : o # m => /\ handle'[o] = handle[o]
                                      /\ ticP'[o] = ticP[o] /\ pooled'[o] = pooled[o]
  BY <1>t, <1>1, <1>2 DEF IoTypes, MonTypes
<1>8. \A g \in Handles : g # h => scripts'[g] = scripts[g]
  BY <1>t, <1>1 DEF IoTypes
<1>9. ASSUME NEW o \in Monitors, o # m
      PROVE  /\ pooled'[o] <=> handle'[o] # None
             /\ ticP'[o] /\ HasList' => handle'[o] # None
             /\ io'[o] # "none" => pooled'[o] /\ iob'[o] # None
             /\ pool'[o] \in {"rereads", "errs"} => io'[o] = "none"
             /\ io'[o] = "pending" => pend'[o] = <<>>
  BY <1>t, <1>3, <1>6, <1>7, <1>9 DEF HandleInv
<1>10. ASSUME NEW o \in Monitors, o # m, ticP'[o], interp' = "alive"
       PROVE  scripts'[handle'[o]] = o
  <2>1. ticP[o] /\ interp = "alive" /\ handle'[o] = handle[o]
    BY <1>3, <1>7, <1>10
  <2>2. handle[o] \in Handles /\ scripts[handle[o]] = o
    BY <2>1, ScriptOf
  <2> QED  BY <1>4, <1>8, <2>1, <2>2
<1>11. ASSUME NEW o \in Monitors, NEW q \in Monitors,
              handle'[o] = handle'[q], handle'[o] # None
       PROVE  o = q
  BY <1>t, <1>4, <1>7, <1>11 DEF HandleInv
<1> QED  BY <1>3, <1>4, <1>5, <1>6, <1>7, <1>9, <1>10, <1>11 DEF HandleInv

LEMMA HandleInvStep == IoInv /\ RefInv' /\ [Next]_vars => HandleInv'
<1> SUFFICES ASSUME IoInv, RefInv', [Next]_vars PROVE HandleInv'
  OBVIOUS
<1>t. IoTypes /\ HandleInv /\ MonTypes /\ RefInv /\ BufTypes
  BY DEF IoInv, RefInv, IoTypes
<1>1. ASSUME NEW m \in Monitors, PoolFires(m)
      PROVE  HandleInv'
  BY <1>t, <1>1 DEF PoolFires, HandleInv, MonTypes, HasList, ioVars
<1>2. ASSUME NEW m \in Monitors, PoolSends(m)
      PROVE  HandleInv'
  <2>1. UNCHANGED <<ticP, handle, pooled, pend, interp, scripts>> /\ HasList' = HasList
    BY <1>2 DEF PoolSends, HasList
  <2>2. io' = [io EXCEPT ![m] = "none"]
    BY <1>2 DEF PoolSends
  <2>3. \A o \in Monitors : o # m => /\ io'[o] = io[o] /\ iob'[o] = iob[o]
                                     /\ pool'[o] = pool[o]
    BY <1>t, <1>2 DEF PoolSends, IoTypes, BufTypes, MonTypes
  <2>4. io'[m] = "none"
    BY <1>t, <2>2 DEF IoTypes
  <2> QED  BY <1>t, <2>1, <2>3, <2>4 DEF HandleInv
<1>3. ASSUME NEW m \in Monitors, PoolRereads(m)
      PROVE  HandleInv'
  <2>1. UNCHANGED <<ticP, handle, pooled, interp, scripts>> /\ HasList' = HasList
    BY <1>3 DEF PoolRereads, HasList
  <2>2. pooled[m]
    BY <1>t, <1>3 DEF PoolRereads, RefInv
  <2>3. CASE InitiateRead(m) /\ pool' = [pool EXCEPT ![m] = "idle"]
    <3>1. pool'[m] = "idle" /\ \A o \in Monitors : o # m => pool'[o] = pool[o]
      BY <1>t, <2>3 DEF MonTypes
    <3>2. /\ iob'[m] # None /\ pend'[m] = <<>>
          /\ \A o \in Monitors : o # m => /\ io'[o] = io[o] /\ iob'[o] = iob[o]
                                          /\ pend'[o] = pend[o]
      BY <2>3, HandleRead
    <3> QED  BY <1>t, <2>1, <2>2, <3>1, <3>2 DEF HandleInv
  <2>4. CASE pool' = [pool EXCEPT ![m] = "errs"] /\ UNCHANGED <<event, iob, ioVars>>
    <3>1. io[m] = "none"
      BY <1>t, <1>3 DEF PoolRereads, HandleInv
    <3>2. \A o \in Monitors : o # m => pool'[o] = pool[o]
      BY <1>t, <2>4 DEF MonTypes
    <3> QED  BY <1>t, <2>1, <2>4, <3>1, <3>2 DEF HandleInv, ioVars
  <2> QED  BY <1>3, <2>3, <2>4 DEF PoolRereads
<1>4. ASSUME NEW m \in Monitors, PoolErrs(m)
      PROVE  HandleInv'
  <2>1. UNCHANGED <<ticP, handle, pooled, io, pend, interp, scripts>> /\ HasList' = HasList
    BY <1>4 DEF PoolErrs, HasList
  <2>2. io[m] = "none"
    BY <1>t, <1>4 DEF PoolErrs, HandleInv
  <2>3. \A o \in Monitors : o # m => iob'[o] = iob[o] /\ pool'[o] = pool[o]
    BY <1>t, <1>4 DEF PoolErrs, BufTypes, MonTypes
  <2> QED  BY <1>t, <2>1, <2>2, <2>3 DEF HandleInv
<1>5. ASSUME NEW m \in Monitors, ReadFails(m)
      PROVE  HandleInv'
  <2>1. /\ UNCHANGED <<ticP, handle, pooled, iob, pool, pend, interp, scripts>>
        /\ HasList' = HasList
    BY <1>5 DEF ReadFails, HasList
  <2>2. io[m] = "pending" /\ io' = [io EXCEPT ![m] = "failed"]
    BY <1>5 DEF ReadFails
  <2>3. io'[m] = "failed" /\ \A o \in Monitors : o # m => io'[o] = io[o]
    BY <1>t, <2>2 DEF IoTypes
  <2> QED  BY <1>t, <2>1, <2>2, <2>3 DEF HandleInv
<1>6. ASSUME NEW m \in Monitors, RegisterFails(m) \/ RegisterRefused(m)
      PROVE  HandleInv'
  <2>1. /\ UNCHANGED <<ticP, handle, pooled, io, pool, pend, interp, scripts>>
        /\ HasList' = HasList
    BY <1>6 DEF RegisterFails, RegisterRefused, HasList, ioVars
  <2>2. \A o \in Monitors : iob[o] # None => iob'[o] = iob[o] \/ ~pooled[o]
    <3>1. ~pooled[m]
      BY <1>t, <1>6, HolderLives DEF RegisterFails, RegisterRefused
    <3> QED  BY <1>t, <1>6, <3>1 DEF RegisterFails, RegisterRefused, BufTypes
  <2> QED  BY <1>t, <2>1, <2>2 DEF HandleInv
<1>7. ASSUME NEW m \in Monitors, NEW n \in Names, Change(m, n)
      PROVE  HandleInv'
  <2>1. /\ UNCHANGED <<ticP, handle, pooled, iob, pool, interp, scripts>>
        /\ HasList' = HasList
    BY <1>7 DEF Change, HasList
  <2>2. CASE io[m] = "pending" /\ io' = [io EXCEPT ![m] = "done"] /\ UNCHANGED pend
    <3>1. io'[m] = "done" /\ \A o \in Monitors : o # m => io'[o] = io[o]
      BY <1>t, <2>2 DEF IoTypes
    <3> QED  BY <1>t, <2>1, <2>2, <3>1 DEF HandleInv
  <2>3. CASE io[m] # "pending" /\ UNCHANGED io
             /\ \E s : pend' = [pend EXCEPT ![m] = s]
    <3>1. \A o \in Monitors : o # m => pend'[o] = pend[o]
      BY <1>t, <2>3 DEF IoTypes
    <3> QED  BY <1>t, <2>1, <2>3, <3>1 DEF HandleInv
  <2> QED  BY <1>7, <2>2, <2>3 DEF Change
<1>8. ASSUME NEW m \in Monitors, NEW h \in Handles, NEW p \in PatternLists,
             Register(m, h, p)
      PROVE  HandleInv'
  BY <1>8, HandleRegister
<1>9. ASSUME NEW h \in Handles, Cancel(h)
      PROVE  HandleInv'
  <2>1. PICK m \in ToSet(list) : handle[m] = h /\ Shutdown({m}, NoCallback)
    BY <1>9 DEF Cancel
  <2>2. {m} \in SUBSET Monitors /\ {m} \subseteq ToSet(list)
    BY <1>t DEF MonTypes, ToSet
  <2>3. interp' = interp /\ HasList' = HasList /\ interp = "alive"
        /\ scripts' = [scripts EXCEPT ![h] = None]
    BY <1>9 DEF Cancel, HasList
  <2>4. ASSUME NEW o \in Monitors, o \notin {m}, ticP[o], interp' = "alive"
        PROVE  scripts'[handle[o]] = o
    <3>1. handle[o] \in Handles /\ scripts[handle[o]] = o /\ handle[o] # None
      BY <2>3, <2>4, ScriptOf, DirMonitorAssumption
    <3>2. handle[o] # h
      BY <1>t, <2>1, <2>2, <2>4, <3>1 DEF HandleInv
    <3> QED  BY <1>t, <2>3, <3>1, <3>2 DEF IoTypes
  <2> QED  BY <2>1, <2>2, <2>3, <2>4, HandleShutdown
<1>10. CASE Dispatch
  <2>1. UNCHANGED <<interp, scripts>> /\ HasList' = HasList
    BY <1>10 DEF Dispatch, HasList
  <2>2. PICK S \in SUBSET Monitors : S \subseteq ToSet(list) /\ Shutdown(S, Head(queue))
    BY <1>t, <1>10, DispatchShutsDown
  <2>3. \A o \in Monitors : o \notin S /\ ticP[o] /\ interp' = "alive"
                               => scripts'[handle[o]] = o
    BY <1>t, <2>1 DEF HandleInv
  <2> QED  BY <2>1, <2>2, <2>3, HandleShutdown
<1>11. CASE InterpDelete
  BY <1>t, <1>11 DEF InterpDelete, HandleInv, HasList, dmcVars, ioVars
<1>12. CASE StorageCleanup
  <2> DEFINE S == ToSet(SubSeq(list, 1, count))
  <2>1. S \subseteq ToSet(list) /\ S \in SUBSET Monitors
    BY <1>t, <1>12, CleanupShutsDown
  <2>2. interp' = "gone" /\ ~HasList' /\ Shutdown(S, NoCallback)
    BY <1>12 DEF StorageCleanup, HasList
  <2> HIDE DEF S
  <2> QED  BY <2>1, <2>2, HandleShutdown
<1>13. CASE UNCHANGED vars
  BY <1>t, <1>13 DEF vars, HandleInv, HasList, dmcVars, ioVars
<1>14. ASSUME NEW m \in Monitors, LateEnds(m)
       PROVE  HandleInv'
  <2>1. /\ UNCHANGED <<ticP, handle, pooled, iob, pool, pend, interp, scripts>>
        /\ HasList' = HasList
    BY <1>14 DEF LateEnds, HasList, dmcVars
  <2>2. ASSUME NEW o \in Monitors
        PROVE  io'[o] = io[o] \/ (io[o] = "done" /\ io'[o] = "failed")
    BY <1>t, <1>14, LateEnd
  <2> QED  BY <1>t, <2>1, <2>2 DEF HandleInv
<1> QED  BY <1>1, <1>2, <1>3, <1>4, <1>5, <1>6, <1>7, <1>8, <1>9, <1>10, <1>11, <1>12,
            <1>13, <1>14 DEF Next

\* What is allocated belongs to one monitor or to one callback
BufferInv ==
    /\ \A m \in Monitors :
          /\ iob[m] # None => iob[m] \in used
          /\ life[m] \in {"none", "freed"} => iob[m] = None
          /\ \A i \in 1 .. Len(queue) : iob[m] # None => iob[m] # queue[i].b
    /\ \A m, o \in Monitors : iob[m] = iob[o] /\ iob[m] # None => m = o
    /\ \A i \in 1 .. Len(queue) : queue[i].b # None => queue[i].b \in used
    /\ \A i, j \in 1 .. Len(queue) : queue[i].b = queue[j].b /\ queue[i].b # None => i = j
    /\ \A b \in used : \/ \E m \in Monitors : iob[m] = b
                       \/ \E i \in 1 .. Len(queue) : queue[i].b = b

\* A read takes the buffer of the monitor or one that nobody has
LEMMA BufferRead ==
  ASSUME IoInv, BufferInv, NEW m \in Monitors, InitiateRead(m), UNCHANGED queue,
         \A o \in Monitors : life'[o] \in {"none", "freed"} => o # m /\ life[o] = life'[o]
  PROVE  BufferInv'
<1>1. PICK b \in ReadBuffer(m) :
         b \in Buffers /\ iob' = [iob EXCEPT ![m] = b] /\ used' = used \union {b}
  BY ReadStarts DEF IoInv
<1>2. b # None
  BY <1>1, DirMonitorAssumption
<1>3. iob[m] # None => b = iob[m]
  BY <1>1 DEF ReadBuffer
<1>4. iob[m] = None => b \notin used
  <2>1. iob[m] = None => b = FreeBuffer /\ used # Buffers
    BY <1>1 DEF ReadBuffer, BuffersLeft
  <2>2. used # Buffers => \E x \in Buffers : x \notin used
    BY DEF IoInv, IoTypes, BufTypes
  <2>3. used # Buffers => FreeBuffer \notin used
    BY <2>2 DEF FreeBuffer
  <2> QED  BY <2>1, <2>3
<1>5. iob'[m] = b /\ \A o \in Monitors : o # m => iob'[o] = iob[o]
  BY <1>1 DEF IoInv, IoTypes, BufTypes
<1>6. ASSUME NEW o \in Monitors, o # m
      PROVE  iob[o] # b
  <2>1. iob[o] # None => iob[o] \in used
    BY DEF BufferInv
  <2>2. iob[m] # None => iob[o] # iob[m]
    BY <1>6 DEF BufferInv
  <2> QED  BY <1>2, <1>3, <1>4, <2>1, <2>2
<1>7. ASSUME NEW i \in 1 .. Len(queue)
      PROVE  queue[i].b # b
  <2>1. queue[i].b # None => queue[i].b \in used
    BY DEF BufferInv
  <2>2. iob[m] # None => queue[i].b # iob[m]
    BY DEF BufferInv
  <2> QED  BY <1>2, <1>3, <1>4, <2>1, <2>2
<1>8. ASSUME NEW o \in Monitors
      PROVE  /\ iob'[o] # None => iob'[o] \in used'
             /\ life'[o] \in {"none", "freed"} => iob'[o] = None
             /\ \A i \in 1 .. Len(queue') : iob'[o] # None => iob'[o] # queue'[i].b
  <2>1. CASE o = m
    BY <1>1, <1>5, <1>7, <2>1
  <2>2. CASE o # m
    BY <1>1, <1>5, <2>2 DEF BufferInv
  <2> QED  BY <2>1, <2>2
<1>9. ASSUME NEW o \in Monitors, NEW q \in Monitors, iob'[o] = iob'[q], iob'[o] # None
      PROVE  o = q
  BY <1>5, <1>6, <1>9 DEF BufferInv
<1>10. ASSUME NEW a \in used'
       PROVE  \/ \E o \in Monitors : iob'[o] = a
              \/ \E i \in 1 .. Len(queue') : queue'[i].b = a
  <2>1. CASE a = b
    BY <1>5, <2>1
  <2>2. CASE a # b /\ a \in used
    <3>1. CASE \E i \in 1 .. Len(queue) : queue[i].b = a
      BY <3>1
    <3>2. CASE \E o \in Monitors : iob[o] = a
      <4>1. PICK o \in Monitors : iob[o] = a
        BY <3>2
      <4>2. o # m
        <5>1. a # None
          BY <2>2, DirMonitorAssumption DEF IoInv, IoTypes, BufTypes
        <5> QED  BY <1>3, <2>2, <4>1, <5>1
      <4> QED  BY <1>5, <4>1, <4>2
    <3> QED  BY <2>2, <3>1, <3>2 DEF BufferInv
  <2> QED  BY <1>1, <1>10, <2>1, <2>2
<1>11. /\ \A i \in 1 .. Len(queue') : queue'[i].b # None => queue'[i].b \in used'
       /\ \A i, j \in 1 .. Len(queue') :
             queue'[i].b = queue'[j].b /\ queue'[i].b # None => i = j
  BY <1>1 DEF BufferInv
<1> QED  BY <1>8, <1>9, <1>10, <1>11 DEF BufferInv

\* The monitor hands over its buffer, or gives it back and sends a callback without
LEMMA BufferSend ==
  ASSUME IoInv, BufferInv, NEW m \in Monitors, NEW b \in Buffers \union {None},
         Enqueue(m, b), UNCHANGED life, iob' = [iob EXCEPT ![m] = None],
         \/ b = iob[m] /\ used' = used
         \/ b = None /\ used' = used \ {iob[m]}
  PROVE  BufferInv'
<1> DEFINE e == [m |-> m, b |-> b]
           N == Len(queue)
<1>q. queue \in Seq(Callback) /\ e \in Callback
  BY DEF IoInv, RefInv, MonTypes, Callback
<1>1. /\ N \in Nat /\ Len(queue') = N + 1 /\ queue'[N + 1] = e
      /\ \A i \in 1 .. N : queue'[i] = queue[i]
  BY <1>q DEF Enqueue
<1>2. e.b = b
  OBVIOUS
<1> HIDE DEF e
<1>3. iob'[m] = None /\ \A o \in Monitors : o # m => iob'[o] = iob[o]
  BY DEF IoInv, IoTypes, BufTypes
<1>4. \A i \in 1 .. Len(queue') : \/ i \in 1 .. N /\ queue'[i].b = queue[i].b
                                  \/ i = N + 1 /\ queue'[i].b = b
  BY <1>1, <1>2
<1>5. b # None => b = iob[m] /\ used' = used
  OBVIOUS
<1>6. used' \subseteq used /\ \A x \in used : x # iob[m] => x \in used'
  OBVIOUS
<1>i. /\ \A o \in Monitors :
            /\ iob[o] # None => iob[o] \in used
            /\ life[o] \in {"none", "freed"} => iob[o] = None
            /\ \A i \in 1 .. N : iob[o] # None => iob[o] # queue[i].b
      /\ \A o, q \in Monitors : iob[o] = iob[q] /\ iob[o] # None => o = q
      /\ \A i \in 1 .. N : queue[i].b # None => queue[i].b \in used
      /\ \A i, j \in 1 .. N : queue[i].b = queue[j].b /\ queue[i].b # None => i = j
      /\ \A x \in used : \/ \E o \in Monitors : iob[o] = x
                         \/ \E i \in 1 .. N : queue[i].b = x
  BY DEF BufferInv
<1> HIDE DEF N
<1>7. ASSUME NEW o \in Monitors
      PROVE  /\ iob'[o] # None => iob'[o] \in used'
             /\ life'[o] \in {"none", "freed"} => iob'[o] = None
             /\ \A i \in 1 .. Len(queue') : iob'[o] # None => iob'[o] # queue'[i].b
  <2>1. CASE o = m
    BY <1>3, <2>1
  <2>2. CASE o # m
    BY <1>3, <1>4, <1>5, <1>6, <1>i, <2>2
  <2> QED  BY <2>1, <2>2
<1>8. ASSUME NEW o \in Monitors, NEW q \in Monitors, iob'[o] = iob'[q], iob'[o] # None
      PROVE  o = q
  BY <1>3, <1>8, <1>i
<1>9. ASSUME NEW i \in 1 .. Len(queue'), queue'[i].b # None
      PROVE  queue'[i].b \in used'
  <2>1. CASE i \in 1 .. N /\ queue'[i].b = queue[i].b
    <3>1. queue[i].b \in used
      BY <1>9, <1>i, <2>1
    <3>2. iob[m] # None => iob[m] # queue[i].b
      BY <1>i, <2>1
    <3>3. queue[i].b # iob[m]
      BY <1>9, <2>1, <3>2
    <3> QED  BY <1>6, <2>1, <3>1, <3>3
  <2>2. CASE i = N + 1 /\ queue'[i].b = b
    BY <1>5, <1>9, <1>i, <2>2
  <2> QED  BY <1>4, <2>1, <2>2
<1>10. ASSUME NEW i \in 1 .. Len(queue'), NEW j \in 1 .. Len(queue'),
              queue'[i].b = queue'[j].b, queue'[i].b # None
       PROVE  i = j
  <2>1. \A k \in 1 .. N : b # None => queue[k].b # b
    BY <1>5, <1>i
  <2> QED  BY <1>4, <1>10, <1>i, <2>1
<1>11. ASSUME NEW x \in used'
       PROVE  \/ \E o \in Monitors : iob'[o] = x
              \/ \E i \in 1 .. Len(queue') : queue'[i].b = x
  <2>1. x \in used /\ x # None
    BY <1>6, DirMonitorAssumption DEF IoInv, IoTypes, BufTypes
  <2>2. CASE \E i \in 1 .. N : queue[i].b = x
    <3>1. PICK i \in 1 .. N : queue[i].b = x
      BY <2>2
    <3>2. i \in 1 .. Len(queue') /\ queue'[i] = queue[i]
      BY <1>1
    <3> QED  BY <3>1, <3>2
  <2>3. CASE \E o \in Monitors : iob[o] = x
    <3>1. PICK o \in Monitors : iob[o] = x
      BY <2>3
    <3>2. CASE o # m
      BY <1>3, <3>1, <3>2
    <3>3. CASE o = m
      <4>1. b = x
        BY <2>1, <3>1, <3>3
      <4>2. N + 1 \in 1 .. Len(queue') /\ queue'[N + 1].b = b
        BY <1>1, <1>2
      <4> QED  BY <4>1, <4>2
    <3> QED  BY <3>2, <3>3
  <2> QED  BY <1>i, <2>1, <2>2, <2>3
<1> QED  BY <1>7, <1>8, <1>9, <1>10, <1>11 DEF BufferInv

\* What is left of the queue, and the callback that is gone from it
LEMMA TakenShifts ==
  ASSUME RefInv, NEW c, Taken(c)
  PROVE  \E k \in {0, 1} :
            /\ Len(queue') \in Nat /\ Len(queue) = Len(queue') + k
            /\ \A i \in 1 .. Len(queue') : queue'[i] = queue[i + k]
            /\ k = 0 => c = NoCallback /\ queue' = queue
            /\ k = 1 => c = queue[1] /\ c \in Callback
<1>1. queue \in Seq(Callback)
  BY DEF RefInv, MonTypes
<1>2. CASE c = NoCallback /\ UNCHANGED queue
  BY <1>1, <1>2
<1>3. CASE queue # <<>> /\ c = Head(queue) /\ queue' = Tail(queue)
  <2>1. /\ Head(queue) = queue[1] /\ Head(queue) \in Callback
        /\ Len(queue') \in Nat /\ Len(queue) = Len(queue') + 1
        /\ \A i \in 1 .. Len(queue') : queue'[i] = queue[i + 1]
    BY <1>1, <1>3, HeadTail
  <2>2. c = queue[1] /\ c \in Callback
    BY <1>3, <2>1
  <2> WITNESS 1 \in {0, 1}
  <2> QED  BY <2>1, <2>2
<1> QED  BY <1>2, <1>3 DEF Taken

LEMMA BufferShutdown ==
  ASSUME IoInv, BufferInv, NEW S \in SUBSET Monitors, NEW c, Shutdown(S, c), Taken(c)
  PROVE  BufferInv'
<1> DEFINE freed == {o \in S \union {c.m} : o # None /\ nrefs'[o] <= 0}
<1>r. RefInv /\ IoTypes
  BY DEF IoInv
<1>1. PICK k \in {0, 1} :
         /\ Len(queue') \in Nat /\ Len(queue) = Len(queue') + k
         /\ \A i \in 1 .. Len(queue') : queue'[i] = queue[i + k]
         /\ k = 0 => c = NoCallback /\ queue' = queue
         /\ k = 1 => c = queue[1] /\ c \in Callback
  BY <1>r, TakenShifts
<1>2. freed \subseteq Monitors
  BY <1>1, DirMonitorAssumption DEF NoCallback, Callback
<1>3. /\ \A o \in Monitors : /\ iob'[o] = IF o \in freed THEN None ELSE iob[o]
                             /\ life'[o] = IF o \in freed THEN "freed" ELSE life[o]
      /\ used' = used \ ({iob[o] : o \in freed} \union {c.b})
  <2>1. \A o \in S \union {c.m} : o # None => o \in Monitors
    BY <1>1, DirMonitorAssumption DEF NoCallback, Callback
  <2> QED  BY <2>1 DEF Shutdown, Release
<1> HIDE DEF freed
<1>4. \A i \in 1 .. Len(queue') : i + k \in 1 .. Len(queue)
  BY <1>1
<1>5. ASSUME c.b # None
      PROVE  /\ \A o \in Monitors : iob[o] # c.b
             /\ \A i \in 1 .. Len(queue') : queue'[i].b # c.b
  <2>1. k = 1 /\ c = queue[1] /\ 1 \in 1 .. Len(queue)
    BY <1>1, <1>5 DEF NoCallback
  <2>2. ASSUME NEW i \in 1 .. Len(queue')
        PROVE  queue'[i].b # c.b
    <3>1. i + 1 \in 1 .. Len(queue) /\ i + 1 # 1 /\ queue'[i] = queue[i + 1]
      BY <1>1, <1>4, <2>1
    <3> QED  BY <1>5, <2>1, <3>1 DEF BufferInv
  <2> QED  BY <1>5, <2>1, <2>2 DEF BufferInv
<1>6. ASSUME NEW x \in used, x # c.b, \A o \in freed : iob[o] # x
      PROVE  x \in used'
  BY <1>3, <1>6
<1>7. None \notin used
  BY <1>r, DirMonitorAssumption DEF IoTypes, BufTypes
<1>8. ASSUME NEW o \in Monitors
      PROVE  /\ iob'[o] # None => iob'[o] \in used'
             /\ life'[o] \in {"none", "freed"} => iob'[o] = None
             /\ \A i \in 1 .. Len(queue') : iob'[o] # None => iob'[o] # queue'[i].b
  <2>1. CASE o \in freed
    BY <1>3, <2>1
  <2>2. CASE o \notin freed
    <3>1. iob'[o] = iob[o] /\ life'[o] = life[o]
      BY <1>3, <2>2
    <3>2. life'[o] \in {"none", "freed"} => iob'[o] = None
      BY <3>1 DEF BufferInv
    <3>3. ASSUME iob[o] # None
          PROVE  iob[o] \in used' /\ \A i \in 1 .. Len(queue') : iob[o] # queue'[i].b
      <4>1. iob[o] \in used
        BY <3>3 DEF BufferInv
      <4>2. iob[o] # c.b
        BY <1>5, <3>3
      <4>3. \A q \in freed : iob[q] # iob[o]
        BY <1>2, <2>2, <3>3 DEF BufferInv
      <4>4. ASSUME NEW i \in 1 .. Len(queue')
            PROVE  iob[o] # queue'[i].b
        <5>1. i + k \in 1 .. Len(queue) /\ queue'[i] = queue[i + k]
          BY <1>1, <1>4
        <5> QED  BY <3>3, <5>1 DEF BufferInv
      <4> QED  BY <1>6, <4>1, <4>2, <4>3, <4>4
    <3> QED  BY <3>1, <3>2, <3>3
  <2> QED  BY <2>1, <2>2
<1>9. ASSUME NEW o \in Monitors, NEW q \in Monitors, iob'[o] = iob'[q], iob'[o] # None
      PROVE  o = q
  BY <1>3, <1>9 DEF BufferInv
<1>10. ASSUME NEW i \in 1 .. Len(queue'), queue'[i].b # None
       PROVE  queue'[i].b \in used'
  <2>1. i + k \in 1 .. Len(queue) /\ queue'[i] = queue[i + k]
    BY <1>1, <1>4
  <2>2. queue'[i].b \in used /\ \A o \in Monitors : iob[o] # None => iob[o] # queue'[i].b
    BY <1>10, <2>1 DEF BufferInv
  <2>3. queue'[i].b # c.b
    BY <1>5, <1>10
  <2>4. \A o \in freed : iob[o] # queue'[i].b
    BY <1>2, <1>10, <2>2
  <2> QED  BY <1>6, <2>2, <2>3, <2>4
<1>11. ASSUME NEW i \in 1 .. Len(queue'), NEW j \in 1 .. Len(queue'),
              queue'[i].b = queue'[j].b, queue'[i].b # None
       PROVE  i = j
  <2>1. /\ i + k \in 1 .. Len(queue) /\ queue'[i] = queue[i + k]
        /\ j + k \in 1 .. Len(queue) /\ queue'[j] = queue[j + k]
    BY <1>1, <1>4
  <2>2. i + k = j + k
    BY <1>11, <2>1 DEF BufferInv
  <2> QED  BY <2>2
<1>12. ASSUME NEW x \in used'
       PROVE  \/ \E o \in Monitors : iob'[o] = x
              \/ \E i \in 1 .. Len(queue') : queue'[i].b = x
  <2>1. x \in used /\ x # c.b /\ \A o \in freed : iob[o] # x
    BY <1>3
  <2>2. CASE \E o \in Monitors : iob[o] = x
    BY <1>3, <2>1, <2>2
  <2>3. CASE \E i \in 1 .. Len(queue) : queue[i].b = x
    <3>1. PICK i \in 1 .. Len(queue) : queue[i].b = x
      BY <2>3
    <3>2. k = 1 => i # 1
      BY <1>1, <2>1, <3>1
    <3>3. i - k \in 1 .. Len(queue') /\ (i - k) + k = i
      BY <1>1, <3>2
    <3>4. queue'[i - k] = queue[i]
      BY <1>1, <3>3
    <3> QED  BY <3>1, <3>3, <3>4
  <2> QED  BY <2>1, <2>2, <2>3 DEF BufferInv
<1> QED  BY <1>8, <1>9, <1>10, <1>11, <1>12 DEF BufferInv

LEMMA BufferInvStep == IoInv /\ BufferInv /\ [Next]_vars => BufferInv'
<1> SUFFICES ASSUME IoInv, BufferInv, [Next]_vars PROVE BufferInv'
  OBVIOUS
<1>t. IoTypes /\ HandleInv /\ MonTypes /\ RefInv /\ BufTypes
  BY DEF IoInv, RefInv, IoTypes
<1>s. ASSUME UNCHANGED <<iob, used, queue>>,
             \A o \in Monitors : life'[o] \in {"none", "freed"} => life[o] = life'[o]
      PROVE  BufferInv'
  BY <1>s DEF BufferInv
<1>1. ASSUME NEW m \in Monitors, \/ PoolFires(m) \/ ReadFails(m) \/ LateEnds(m)
                               \/ \E n \in Names : Change(m, n)
      PROVE  BufferInv'
  BY <1>s, <1>1 DEF PoolFires, ReadFails, LateEnds, Change, dmcVars, ioVars
<1>2. ASSUME NEW m \in Monitors, PoolSends(m)
      PROVE  BufferInv'
  <2>1. CASE Enqueue(m, iob[m]) /\ iob' = [iob EXCEPT ![m] = None]
    <3>1. UNCHANGED <<life, used>>
      BY <1>2 DEF PoolSends
    <3>2. iob[m] \in Buffers \union {None}
      BY <1>t DEF BufTypes
    <3> QED  BY <2>1, <3>1, <3>2, BufferSend
  <2>2. CASE UNCHANGED <<queue, iob>>
    BY <1>s, <1>2, <2>2 DEF PoolSends
  <2> QED  BY <1>2, <2>1, <2>2 DEF PoolSends
<1>3. ASSUME NEW m \in Monitors, PoolRereads(m)
      PROVE  BufferInv'
  <2>1. CASE InitiateRead(m)
    <3>1. UNCHANGED <<life, queue>> /\ pooled[m]
      BY <1>t, <1>3 DEF PoolRereads, RefInv
    <3>2. life[m] = "live"
      BY <1>t, <3>1, HolderLives
    <3> QED  BY <2>1, <3>1, <3>2, BufferRead
  <2>2. CASE UNCHANGED <<iob, ioVars>>
    BY <1>s, <1>3, <2>2 DEF PoolRereads, ioVars
  <2> QED  BY <1>3, <2>1, <2>2 DEF PoolRereads
<1>4. ASSUME NEW m \in Monitors, PoolErrs(m)
      PROVE  BufferInv'
  <2>1. /\ Enqueue(m, None) /\ UNCHANGED life /\ iob' = [iob EXCEPT ![m] = None]
        /\ used' = used \ {iob[m]}
    BY <1>4 DEF PoolErrs
  <2> QED  BY <2>1, BufferSend
<1>5. ASSUME NEW m \in Monitors, RegisterFails(m)
      PROVE  BufferInv'
  BY <1>s, <1>t, <1>5 DEF RegisterFails, ioVars, MonTypes
<1>6. ASSUME NEW m \in Monitors, RegisterRefused(m)
      PROVE  BufferInv'
  <2>1. life[m] = "none" /\ iob[m] = None
    BY <1>6 DEF RegisterRefused, BufferInv
  <2>2. \E x \in Buffers : x \notin used
    BY <1>t, <1>6 DEF RegisterRefused, BuffersLeft, BufTypes
  <2>3. FreeBuffer \in Buffers /\ FreeBuffer \notin used /\ FreeBuffer # None
    BY <2>2, DirMonitorAssumption DEF FreeBuffer
  <2>4. /\ iob'[m] = FreeBuffer /\ life'[m] = "leaked"
        /\ \A o \in Monitors : o # m => iob'[o] = iob[o] /\ life'[o] = life[o]
        /\ used' = used \union {FreeBuffer} /\ queue' = queue
    BY <1>t, <1>6 DEF RegisterRefused, BufTypes, MonTypes
  <2> DEFINE b == FreeBuffer
  <2>5. \A o \in Monitors : iob[o] # b
    BY <2>3 DEF BufferInv
  <2>6. \A i \in 1 .. Len(queue) : queue[i].b # b
    BY <2>3 DEF BufferInv
  <2> HIDE DEF b
  <2>7. ASSUME NEW o \in Monitors
        PROVE  /\ iob'[o] # None => iob'[o] \in used'
               /\ life'[o] \in {"none", "freed"} => iob'[o] = None
               /\ \A i \in 1 .. Len(queue') : iob'[o] # None => iob'[o] # queue'[i].b
    BY <2>4, <2>6 DEF BufferInv, b
  <2>8. ASSUME NEW o \in Monitors, NEW q \in Monitors, iob'[o] = iob'[q], iob'[o] # None
        PROVE  o = q
    BY <2>4, <2>5, <2>8 DEF BufferInv, b
  <2>9. ASSUME NEW x \in used'
        PROVE  \/ \E o \in Monitors : iob'[o] = x
               \/ \E i \in 1 .. Len(queue') : queue'[i].b = x
    <3>1. CASE x = FreeBuffer
      BY <2>4, <3>1
    <3>2. CASE x \in used
      BY <2>1, <2>4, <3>2, <1>t, DirMonitorAssumption DEF BufferInv, BufTypes
    <3> QED  BY <2>4, <3>1, <3>2
  <2> QED  BY <2>4, <2>7, <2>8, <2>9 DEF BufferInv
<1>7. ASSUME NEW m \in Monitors, NEW h \in Handles, NEW p \in PatternLists,
             Register(m, h, p)
      PROVE  BufferInv'
  <2>1. InitiateRead(m) /\ UNCHANGED queue /\ life' = [life EXCEPT ![m] = "live"]
    BY <1>7 DEF Register
  <2>2. \A o \in Monitors : life'[o] \in {"none", "freed"} => o # m /\ life[o] = life'[o]
    BY <1>t, <2>1 DEF MonTypes
  <2> QED  BY <2>1, <2>2, BufferRead
<1>8. ASSUME NEW h \in Handles, Cancel(h)
      PROVE  BufferInv'
  <2>1. PICK m \in ToSet(list) : Shutdown({m}, NoCallback)
    BY <1>8 DEF Cancel
  <2>2. {m} \in SUBSET Monitors /\ Taken(NoCallback)
    BY <1>t, <1>8 DEF MonTypes, ToSet, Cancel, Taken
  <2> QED  BY <2>1, <2>2, BufferShutdown
<1>9. CASE Dispatch
  <2>1. Taken(Head(queue))
    BY <1>t, <1>9, DispatchShutsDown
  <2>2. PICK S \in SUBSET Monitors : S \subseteq ToSet(list) /\ Shutdown(S, Head(queue))
    BY <1>t, <1>9, DispatchShutsDown
  <2> QED  BY <2>1, <2>2, BufferShutdown
<1>10. CASE InterpDelete \/ UNCHANGED vars
  BY <1>s, <1>10 DEF InterpDelete, vars, dmcVars, ioVars
<1>11. CASE StorageCleanup
  <2> DEFINE S == ToSet(SubSeq(list, 1, count))
  <2>1. S \in SUBSET Monitors
    BY <1>t, <1>11, CleanupShutsDown
  <2>2. Shutdown(S, NoCallback) /\ Taken(NoCallback)
    BY <1>11 DEF StorageCleanup, Taken
  <2> HIDE DEF S
  <2> QED  BY <2>1, <2>2, BufferShutdown
<1> QED  BY <1>1, <1>2, <1>3, <1>4, <1>5, <1>6, <1>7, <1>8, <1>9, <1>10, <1>11 DEF Next

LEMMA IoInvStep == IoInv /\ [Next]_vars => IoInv'
<1>1. IoInv /\ [Next]_vars => RefInv'
  BY RefInvStep DEF IoInv, IoTypes
<1> QED  BY <1>1, IoTypesStep, HandleInvStep DEF IoInv

\* Every variable keeps its type, counts of references included.
THEOREM MonitorTypes == Spec => []TypeOK
<1>1. IoInv /\ CtxInv => TypeOK
  <2> SUFFICES ASSUME IoInv, CtxInv PROVE TypeOK
    OBVIOUS
  <2>1. \A m \in Monitors : nrefs[m] \in Nat
    <3> SUFFICES ASSUME NEW m \in Monitors PROVE nrefs[m] \in Nat
      OBVIOUS
    <3>1. life[m] \in {"none", "live", "freed", "leaked"} /\ nrefs[m] \in Int
      BY DEF IoInv, RefInv, MonTypes
    <3> QED  BY <3>1 DEF IoInv, RefInv
  <2>2. nrefs \in [Monitors -> Nat]
    BY <2>1 DEF IoInv, RefInv, MonTypes
  <2> QED  BY <2>2 DEF IoInv, CtxInv, RefInv, MonTypes, IoTypes, BufTypes, TypeOK
<1>2. IoInv /\ CtxInv /\ [Next]_vars => CtxInv'
  BY CtxInvStep DEF IoInv
<1> QED  BY <1>1, <1>2, CtxInvInit, IoInvInit, IoInvStep, PTL DEF Spec

\* Between the read of one thread and the callback of another a buffer has one
\* owner, and one that nobody owns is not allocated.
THEOREM BufferHasOneOwnerAlways == Spec => []BufferHasOneOwner
<1>1. IoInv /\ BufferInv /\ TypeOK => BufferHasOneOwner
  <2> SUFFICES ASSUME IoInv, BufferInv, TypeOK PROVE BufferHasOneOwner
    OBVIOUS
  <2>1. ASSUME NEW b \in Buffers
        PROVE  Cardinality({m \in Monitors : iob[m] = b})
                  + Cardinality({i \in 1 .. Len(queue) : queue[i].b = b}) = One(b \in used)
    <3> DEFINE M == {m \in Monitors : iob[m] = b}
               Q == {i \in 1 .. Len(queue) : queue[i].b = b}
    <3>1. b # None
      BY DirMonitorAssumption
    <3>2. (\A x, y \in M : x = y) /\ (\A x, y \in Q : x = y)
      BY <3>1 DEF BufferInv
    <3>3. /\ M # {} => Q = {} /\ b \in used
          /\ Q # {} => b \in used
          /\ b \in used => M # {} \/ Q # {}
      BY <3>1 DEF BufferInv
    <3> HIDE DEF M, Q
    <3>4. /\ Cardinality(M) = One(\E x : x \in M)
          /\ Cardinality(Q) = One(\E x : x \in Q)
      BY <3>2, AtMostOneCounts
    <3>5. /\ Cardinality(M) = IF M = {} THEN 0 ELSE 1
          /\ Cardinality(Q) = IF Q = {} THEN 0 ELSE 1
      BY <3>4 DEF One
    <3>6. Cardinality(M) + Cardinality(Q) = One(b \in used)
      BY <3>3, <3>5 DEF One
    <3> QED  BY <3>6 DEF M, Q
  <2>2. \A m \in Monitors : io[m] # "none" => iob[m] # None /\ handle[m] # None
    BY DEF IoInv, HandleInv
  <2> QED  BY <2>1, <2>2 DEF BufferHasOneOwner
<1>2. Init => BufferInv
  BY DEF Init, BufferInv
<1> QED  BY <1>1, <1>2, MonitorTypes, IoInvInit, IoInvStep, BufferInvStep, PTL DEF Spec

-----------------------------------------------------------------------------
(* Order. *)

\* The changes that a completed read of m has
Done(m) == IF io[m] = "done" THEN data[iob[m]] ELSE <<>>

\* The places that a change of m passes, the last first: the script has been told of
\* it (0), callbacks have it (1 .. Len(queue)), then the read, then the kernel.
Stages == 0 .. Len(queue) + 2

Sent(m, k) == IF queue[k].m = m /\ queue[k].b # None THEN data[queue[k].b] ELSE <<>>

At(m, k) ==
    CASE k = 0              -> told[m]
      [] k \in 1 .. Len(queue) -> Sent(m, k)
      [] k = Len(queue) + 1 -> Done(m)
      [] k = Len(queue) + 2 -> pend[m]

Below(s, t) == \A x \in ToSet(s), y \in ToSet(t) : x < y

\* Each has its changes in order, all of them later than those of the places before
\* it, and none that there was no room for.
InOrder(m) ==
    /\ lost[m] \subseteq 1 .. Len(changed[m])
    /\ \A k \in Stages :
          Increasing(At(m, k)) /\ ToSet(At(m, k)) \subseteq (1 .. Len(changed[m])) \ lost[m]
    /\ \A j, k \in Stages : j < k => Below(At(m, j), At(m, k))

\* While a script is told of m, what it wants is in one of these places
Covered(m) ==
    ticP[m] /\ interp = "alive" =>
        \A x \in 1 .. Len(changed[m]) :
            x \in lost[m] \/ ~Wanted(m, x) \/ \E k \in Stages : x \in ToSet(At(m, k))

\* It has been told of what it wanted up to the last change it was told of
ToldAll(m) ==
    /\ \A x \in ToSet(told[m]) : Wanted(m, x)
    /\ \A x \in 1 .. Len(changed[m]), y \in ToSet(told[m]) :
          Wanted(m, x) /\ x \notin lost[m] /\ x <= y => x \in ToSet(told[m])

Flows(m) == InOrder(m) /\ Covered(m) /\ ToldAll(m)

FlowInv == \A m \in Monitors : Flows(m) /\ (life[m] = "none" => changed[m] = <<>>)

LEMMA EmptyHasNone ==
  /\ ToSet(<<>>) = {} /\ Increasing(<<>>)
  /\ \A s : Below(<<>>, s) /\ Below(s, <<>>)
<1>1. ToSet(<<>>) = {}
  BY DEF ToSet
<1>2. Increasing(<<>>)
  BY DEF Increasing
<1> QED  BY <1>1, <1>2 DEF Below

\* The places of one m after a step are places before it, in the same order, with
\* what they had or nothing; while a script is told of m none of them is left out.
Moves(m, f) ==
    /\ \A k \in Stages' : At(m, k)' = <<>> \/ At(m, k)' = At(m, f[k])
    /\ \A j, k \in Stages' :
          j < k => f[j] < f[k] \/ At(m, j)' = <<>> \/ At(m, k)' = <<>>
    /\ ticP'[m] /\ interp' = "alive" =>
          /\ ticP[m] /\ interp = "alive"
          /\ \A k \in Stages : At(m, k) = <<>> \/ \E j \in Stages' : At(m, j)' = At(m, k)

LEMMA FlowMoves ==
  ASSUME NEW m \in Monitors, Flows(m), NEW f \in [Stages' -> Stages], Moves(m, f),
         told'[m] = told[m], changed'[m] = changed[m], lost'[m] = lost[m],
         pats'[m] = pats[m]
  PROVE  Flows(m)'
<1>e. /\ ToSet(<<>>) = {} /\ Increasing(<<>>)
      /\ \A s : Below(<<>>, s) /\ Below(s, <<>>)
  BY EmptyHasNone
<1>w. \A x : Wanted(m, x)' <=> Wanted(m, x)
  BY DEF Wanted
<1>1. InOrder(m)'
  <2>1. lost'[m] \subseteq 1 .. Len(changed'[m])
    BY DEF Flows, InOrder
  <2>2. ASSUME NEW k \in Stages'
        PROVE  /\ Increasing(At(m, k)')
               /\ ToSet(At(m, k)') \subseteq (1 .. Len(changed[m])) \ lost[m]
    <3>1. f[k] \in Stages /\ (At(m, k)' = <<>> \/ At(m, k)' = At(m, f[k]))
      BY DEF Moves
    <3> QED  BY <1>e, <3>1 DEF Flows, InOrder
  <2>3. ASSUME NEW j \in Stages', NEW k \in Stages', j < k
        PROVE  Below(At(m, j)', At(m, k)')
    <3>1. /\ f[j] \in Stages /\ (At(m, j)' = <<>> \/ At(m, j)' = At(m, f[j]))
          /\ f[k] \in Stages /\ (At(m, k)' = <<>> \/ At(m, k)' = At(m, f[k]))
          /\ f[j] < f[k] \/ At(m, j)' = <<>> \/ At(m, k)' = <<>>
      BY <2>3 DEF Moves
    <3> QED  BY <1>e, <3>1 DEF Flows, InOrder
  <2>4. \A k \in Stages' :
           Increasing(At(m, k))' /\ (ToSet(At(m, k)) \subseteq (1 .. Len(changed[m])) \ lost[m])'
    BY <2>2 DEF Increasing, ToSet
  <2>5. \A j, k \in Stages' : j < k => Below(At(m, j), At(m, k))'
    BY <2>3 DEF Below, ToSet
  <2> QED  BY <2>1, <2>4, <2>5 DEF InOrder
<1>2. Covered(m)'
  <2> SUFFICES ASSUME ticP'[m], interp' = "alive", NEW x \in 1 .. Len(changed[m])
               PROVE  \/ x \in lost[m] \/ ~Wanted(m, x)
                      \/ \E k \in Stages' : x \in ToSet(At(m, k)')
    BY <1>w DEF Covered
  <2>1. ticP[m] /\ interp = "alive"
    BY DEF Moves
  <2>2. x \in lost[m] \/ ~Wanted(m, x) \/ \E k \in Stages : x \in ToSet(At(m, k))
    BY <2>1 DEF Flows, Covered
  <2>3. ASSUME NEW k \in Stages, x \in ToSet(At(m, k))
        PROVE  \E j \in Stages' : x \in ToSet(At(m, j)')
    <3>1. At(m, k) # <<>>
      BY <1>e, <2>3
    <3>2. PICK j \in Stages' : At(m, j)' = At(m, k)
      BY <3>1 DEF Moves
    <3> QED  BY <2>3, <3>2
  <2> QED  BY <2>2, <2>3
<1>3. ToldAll(m)'
  BY <1>w DEF Flows, ToldAll
<1> QED  BY <1>1, <1>2, <1>3 DEF Flows

\* Where the changes are, place by place
LEMMA AtIs ==
  ASSUME Len(queue) \in Nat, NEW m
  PROVE  /\ At(m, 0) = told[m]
         /\ \A k \in 1 .. Len(queue) : At(m, k) = Sent(m, k)
         /\ At(m, Len(queue) + 1) = Done(m) /\ At(m, Len(queue) + 2) = pend[m]
<1>1. At(m, 0) = told[m]
  BY DEF At
<1>2. ASSUME NEW k \in 1 .. Len(queue)
      PROVE  At(m, k) = Sent(m, k)
  BY DEF At
<1>3. At(m, Len(queue) + 1) = Done(m)
  <2> DEFINE n == Len(queue) + 1
  <2>1. n # 0 /\ n \notin 1 .. Len(queue) /\ n = Len(queue) + 1
    OBVIOUS
  <2> HIDE DEF n
  <2>2. At(m, n) = Done(m)
    BY <2>1 DEF At
  <2> QED  BY <2>2 DEF n
<1>4. At(m, Len(queue) + 2) = pend[m]
  <2> DEFINE n == Len(queue) + 2
  <2>1. n # 0 /\ n \notin 1 .. Len(queue) /\ n # Len(queue) + 1 /\ n = Len(queue) + 2
    OBVIOUS
  <2> HIDE DEF n
  <2>2. At(m, n) = pend[m]
    BY <2>1 DEF At
  <2> QED  BY <2>2 DEF n
<1> QED  BY <1>1, <1>2, <1>3, <1>4

Places ==
    Len(queue) \in Nat =>
        \A m : /\ At(m, 0) = told[m]
               /\ \A k \in 1 .. Len(queue) : At(m, k) = Sent(m, k)
               /\ At(m, Len(queue) + 1) = Done(m) /\ At(m, Len(queue) + 2) = pend[m]

LEMMA PlacesAre == Places
  BY AtIs DEF Places

LEMMA PlacesNext == Places'
  BY PlacesAre, PTL

\* Of m nothing else changes, and of the script nothing but that it may end
Keeps(m) ==
    /\ told'[m] = told[m] /\ changed'[m] = changed[m]
    /\ lost'[m] = lost[m] /\ pats'[m] = pats[m]
    /\ ticP'[m] /\ interp' = "alive" => ticP[m] /\ interp = "alive"

\* What is done and what is kept stays, ends with the monitor, or moves on
Reads(m) ==
    \/ Done(m)' = Done(m) /\ pend'[m] = pend[m]
    \/ Done(m)' = <<>> /\ pend'[m] = <<>> /\ ~(ticP'[m] /\ interp' = "alive")
    \/ Done(m) = <<>> /\ Done(m)' = pend[m] /\ pend'[m] = <<>>

\* A step of the kernel or of the pool that sends nothing
LEMMA FlowStays ==
  ASSUME NEW m \in Monitors, Flows(m), Keeps(m), Reads(m), queue' = queue,
         Len(queue) \in Nat, \A k \in 1 .. Len(queue) : Sent(m, k)' = Sent(m, k)
  PROVE  Flows(m)'
<1> DEFINE moved == Done(m) = <<>> /\ Done(m)' = pend[m] /\ pend'[m] = <<>>
<1>n. PICK N \in Nat : N = Len(queue)
  OBVIOUS
<1>1. Stages = 0 .. N + 2 /\ Stages' = 0 .. N + 2 /\ N \in Nat
  BY <1>n DEF Stages
<1>2. /\ At(m, 0)' = At(m, 0) /\ At(m, N + 1) = Done(m) /\ At(m, N + 2) = pend[m]
      /\ At(m, N + 1)' = Done(m)' /\ At(m, N + 2)' = pend'[m]
      /\ \A k \in 1 .. N : At(m, k)' = At(m, k)
  <2>1. Len(queue') \in Nat /\ Len(queue') = N
    BY <1>n
  <2>2. /\ \A k \in 1 .. N : At(m, k)' = Sent(m, k)'
        /\ At(m, N + 1)' = Done(m)' /\ At(m, N + 2)' = pend'[m] /\ At(m, 0)' = told'[m]
    BY <2>1, PlacesNext DEF Places
  <2>3. /\ At(m, 0) = told[m] /\ \A k \in 1 .. N : At(m, k) = Sent(m, k)
        /\ At(m, N + 1) = Done(m) /\ At(m, N + 2) = pend[m]
    BY <1>n, PlacesAre DEF Places
  <2> QED  BY <1>n, <2>2, <2>3 DEF Keeps
<1>3. \A k \in Stages : k = 0 \/ k \in 1 .. N \/ k = N + 1 \/ k = N + 2
  BY <1>1
<1> HIDE DEF moved
<1>4. PICK f : f = [k \in 0 .. N + 2 |-> IF moved /\ k = N + 1 THEN N + 2 ELSE k]
  OBVIOUS
<1>5. /\ f \in [Stages' -> Stages]
      /\ \A k \in Stages : f[k] = IF moved /\ k = N + 1 THEN N + 2 ELSE k
  BY <1>1, <1>4
<1>6. CASE Done(m)' = Done(m) /\ pend'[m] = pend[m] /\ ~moved
  <2>1. \A k \in Stages : At(m, k)' = At(m, k) /\ f[k] = k
    BY <1>2, <1>3, <1>5, <1>6
  <2>2. Moves(m, f)
    BY <1>1, <2>1 DEF Moves, Keeps
  <2> QED  BY <1>5, <2>2, FlowMoves DEF Keeps
<1>7. CASE Done(m)' = <<>> /\ pend'[m] = <<>> /\ ~(ticP'[m] /\ interp' = "alive") /\ ~moved
  <2>1. \A k \in Stages : f[k] = k /\ (At(m, k)' = At(m, k) \/ At(m, k)' = <<>>)
    BY <1>2, <1>3, <1>5, <1>7
  <2>2. Moves(m, f)
    BY <1>1, <1>7, <2>1 DEF Moves
  <2> QED  BY <1>5, <2>2, FlowMoves DEF Keeps
<1>8. CASE moved
  <2>f. N + 1 \in Stages /\ f[N + 1] = N + 2
    BY <1>1, <1>5, <1>8
  <2>m. Done(m) = <<>> /\ Done(m)' = pend[m] /\ pend'[m] = <<>>
    BY <1>8 DEF moved
  <2>1. /\ At(m, N + 2)' = <<>> /\ At(m, N + 1)' = At(m, N + 2) /\ At(m, N + 1) = <<>>
        /\ f[N + 1] = N + 2
    BY <1>2, <2>f, <2>m
  <2>2. \A k \in Stages : k # N + 1 => f[k] = k /\ (At(m, k)' = At(m, k) \/ k = N + 2)
    BY <1>2, <1>3, <1>5
  <2>3. ASSUME NEW k \in Stages'
        PROVE  At(m, k)' = <<>> \/ At(m, k)' = At(m, f[k])
    BY <1>1, <2>1, <2>2
  <2>4. ASSUME NEW j \in Stages', NEW k \in Stages', j < k
        PROVE  f[j] < f[k] \/ At(m, k)' = <<>>
    BY <1>1, <2>1, <2>2, <2>4
  <2>5. ASSUME NEW k \in Stages
        PROVE  At(m, k) = <<>> \/ \E j \in Stages' : At(m, j)' = At(m, k)
    <3>1. CASE k = N + 1
      BY <2>1, <3>1
    <3>2. CASE k = N + 2
      <4>1. N + 1 \in Stages'
        BY <1>1
      <4> QED  BY <2>1, <3>2, <4>1
    <3>3. CASE k # N + 1 /\ k # N + 2
      <4>1. k \in Stages'
        BY <1>1
      <4> QED  BY <2>2, <3>3, <4>1
    <3> QED  BY <3>1, <3>2, <3>3
  <2>6. Moves(m, f)
    BY <2>3, <2>4, <2>5 DEF Moves, Keeps
  <2> QED  BY <1>5, <2>6, FlowMoves DEF Keeps
<1> QED  BY <1>6, <1>7, <1>8 DEF Reads, moved

\* A worker queues a callback, for m with what is done or with nothing that is of m
LEMMA FlowSends ==
  ASSUME NEW m \in Monitors, Flows(m), Keeps(m), queue \in Seq(Callback),
         NEW e \in Callback, queue' = Append(queue, e), data' = data,
         pend'[m] = pend[m],
         \/ e.m = m /\ e.b # None /\ Done(m) = data[e.b] /\ Done(m)' = <<>>
         \/ (e.m # m \/ e.b = None) /\ Done(m)' = Done(m)
  PROVE  Flows(m)'
<1>n. PICK N \in Nat : N = Len(queue)
  OBVIOUS
<1>1. /\ N \in Nat /\ Len(queue) = N /\ Len(queue') = N + 1 /\ queue'[N + 1] = e
      /\ \A k \in 1 .. N : queue'[k] = queue[k]
  BY <1>n
<1>2. Stages = 0 .. N + 2 /\ Stages' = 0 .. N + 3
  BY <1>1 DEF Stages
<1>3. \A k \in 1 .. N : Sent(m, k)' = Sent(m, k)
  BY <1>1 DEF Sent
<1>4. Sent(m, N + 1)' = IF e.m = m /\ e.b # None THEN data[e.b] ELSE <<>>
  BY <1>1 DEF Sent
<1>5. /\ At(m, 0)' = At(m, 0) /\ At(m, N + 1) = Done(m) /\ At(m, N + 2) = pend[m]
      /\ \A k \in 1 .. N : At(m, k)' = At(m, k)
      /\ At(m, N + 1)' = Sent(m, N + 1)' /\ At(m, N + 2)' = Done(m)'
      /\ At(m, N + 3)' = pend'[m]
  <2>1. Len(queue') \in Nat /\ (N + 1) + 1 = N + 2 /\ (N + 1) + 2 = N + 3
    BY <1>1
  <2>2. /\ \A k \in 1 .. N + 1 : At(m, k)' = Sent(m, k)'
        /\ At(m, N + 2)' = Done(m)' /\ At(m, N + 3)' = pend'[m] /\ At(m, 0)' = told'[m]
    BY <1>1, <2>1, PlacesNext DEF Places
  <2>3. /\ At(m, 0) = told[m] /\ \A k \in 1 .. N : At(m, k) = Sent(m, k)
        /\ At(m, N + 1) = Done(m) /\ At(m, N + 2) = pend[m]
    BY <1>1, PlacesAre DEF Places
  <2> QED  BY <1>1, <1>3, <2>2, <2>3 DEF Keeps
<1>f. PICK f : f = [k \in 0 .. N + 3 |-> IF k <= N + 1 THEN k ELSE k - 1]
  OBVIOUS
<1>6. f \in [Stages' -> Stages]
  BY <1>1, <1>2, <1>f
<1>7. \A k \in Stages' : f[k] = IF k <= N + 1 THEN k ELSE k - 1
  BY <1>2, <1>f
<1>8. \/ At(m, N + 1)' = At(m, N + 1) /\ At(m, N + 2)' = <<>>
      \/ At(m, N + 1)' = <<>> /\ At(m, N + 2)' = At(m, N + 1)
  BY <1>4, <1>5
<1>9. At(m, N + 3)' = At(m, N + 2)
  BY <1>5
<1>10. /\ f[N + 1] = N + 1 /\ f[N + 2] = N + 1 /\ f[N + 3] = N + 2 /\ f[0] = 0
       /\ \A k \in 1 .. N : f[k] = k
  BY <1>1, <1>2, <1>7
<1>11. ASSUME NEW k \in Stages'
       PROVE  At(m, k)' = <<>> \/ At(m, k)' = At(m, f[k])
  <2>1. k = 0 \/ k \in 1 .. N \/ k = N + 1 \/ k = N + 2 \/ k = N + 3
    BY <1>1, <1>2
  <2> QED  BY <1>5, <1>8, <1>9, <1>10, <2>1
<1>12. ASSUME NEW j \in Stages', NEW k \in Stages', j < k
       PROVE  f[j] < f[k] \/ At(m, j)' = <<>> \/ At(m, k)' = <<>>
  <2>1. CASE j = N + 1 /\ k = N + 2
    BY <1>8, <2>1
  <2>2. CASE ~(j = N + 1 /\ k = N + 2)
    BY <1>1, <1>2, <1>7, <1>12, <2>2
  <2> QED  BY <2>1, <2>2
<1>13. ASSUME NEW k \in Stages
       PROVE  At(m, k) = <<>> \/ \E j \in Stages' : At(m, j)' = At(m, k)
  <2>1. k \in 0 .. N \/ k = N + 1 \/ k = N + 2
    BY <1>1, <1>2
  <2>2. N + 1 \in Stages' /\ N + 2 \in Stages' /\ N + 3 \in Stages' /\ k \in Stages'
    BY <1>1, <1>2
  <2>3. CASE k \in 0 .. N
    <3>1. k = 0 \/ k \in 1 .. N
      BY <1>1, <2>3
    <3> QED  BY <1>5, <2>2, <3>1
  <2> QED  BY <1>8, <1>9, <2>1, <2>2, <2>3
<1>14. Moves(m, f)
  BY <1>11, <1>12, <1>13 DEF Moves, Keeps
<1> QED  BY <1>6, <1>14, FlowMoves DEF Keeps

\* The places move up when the thread takes a callback, the first of them to nowhere
LEMMA TakenPlaces ==
  ASSUME NEW m \in Monitors, queue \in Seq(Callback), queue # <<>>, queue' = Tail(queue),
         data' = data
  PROVE  \E N \in Nat :
            /\ Len(queue) = N + 1 /\ Stages = 0 .. N + 3 /\ Stages' = 0 .. N + 2
            /\ At(m, 0)' = told'[m] /\ At(m, 0) = told[m]
            /\ At(m, 1) = Sent(m, 1)
            /\ \A k \in 1 .. N : At(m, k)' = At(m, k + 1)
            /\ At(m, N + 1)' = Done(m)' /\ At(m, N + 2)' = pend'[m]
            /\ At(m, N + 2) = Done(m) /\ At(m, N + 3) = pend[m]
<1>n. PICK N \in Nat : N = Len(queue')
  BY HeadTail
<1>1. /\ Len(queue') = N /\ Len(queue) = N + 1 /\ N + 1 \in Nat
      /\ \A k \in 1 .. N : queue'[k] = queue[k + 1]
  BY <1>n, HeadTail
<1>2. Stages = 0 .. N + 3 /\ Stages' = 0 .. N + 2
  BY <1>1 DEF Stages
<1>3. /\ \A k \in 1 .. N : At(m, k)' = Sent(m, k)'
      /\ At(m, N + 1)' = Done(m)' /\ At(m, N + 2)' = pend'[m] /\ At(m, 0)' = told'[m]
  BY <1>1, PlacesNext DEF Places
<1>4. /\ At(m, 0) = told[m] /\ \A k \in 1 .. N + 1 : At(m, k) = Sent(m, k)
      /\ At(m, N + 2) = Done(m) /\ At(m, N + 3) = pend[m]
  <2>1. (N + 1) + 1 = N + 2 /\ (N + 1) + 2 = N + 3
    OBVIOUS
  <2> QED  BY <1>1, <2>1, PlacesAre DEF Places
<1>5. \A k \in 1 .. N : Sent(m, k)' = Sent(m, k + 1)
  BY <1>1 DEF Sent
<1>6. \A k \in 1 .. N : k + 1 \in 1 .. N + 1
  OBVIOUS
<1>7. \A k \in 1 .. N : At(m, k)' = At(m, k + 1)
  BY <1>3, <1>4, <1>5, <1>6
<1>8. At(m, 1) = Sent(m, 1)
  BY <1>4
<1> QED  BY <1>1, <1>2, <1>3, <1>4, <1>7, <1>8

\* A callback is taken that the script is not told of
LEMMA FlowTakes ==
  ASSUME NEW m \in Monitors, Flows(m), Keeps(m), queue \in Seq(Callback),
         queue # <<>>, queue' = Tail(queue), data' = data,
         \/ Done(m)' = Done(m) /\ pend'[m] = pend[m]
         \/ Done(m)' = <<>> /\ pend'[m] = <<>> /\ ~(ticP'[m] /\ interp' = "alive"),
         ticP'[m] /\ interp' = "alive" => Sent(m, 1) = <<>>
  PROVE  Flows(m)'
<1>1. PICK N \in Nat :
            /\ Len(queue) = N + 1 /\ Stages = 0 .. N + 3 /\ Stages' = 0 .. N + 2
            /\ At(m, 0)' = told'[m] /\ At(m, 0) = told[m]
            /\ At(m, 1) = Sent(m, 1)
            /\ \A k \in 1 .. N : At(m, k)' = At(m, k + 1)
            /\ At(m, N + 1)' = Done(m)' /\ At(m, N + 2)' = pend'[m]
            /\ At(m, N + 2) = Done(m) /\ At(m, N + 3) = pend[m]
  BY TakenPlaces
<1>f. PICK f : f = [k \in 0 .. N + 2 |-> IF k = 0 THEN 0 ELSE k + 1]
  OBVIOUS
<1>2. f \in [Stages' -> Stages] /\ \A k \in Stages' : f[k] = IF k = 0 THEN 0 ELSE k + 1
  BY <1>1, <1>f
<1>3. ASSUME NEW k \in Stages'
      PROVE  /\ At(m, k)' = <<>> \/ At(m, k)' = At(m, f[k])
             /\ ticP'[m] /\ interp' = "alive" => At(m, k)' = At(m, f[k])
  <2>1. k = 0 \/ k \in 1 .. N \/ k = N + 1 \/ k = N + 2
    BY <1>1
  <2>2. CASE k = 0
    BY <1>1, <1>2, <2>2 DEF Keeps
  <2>3. CASE k \in 1 .. N
    <3>1. f[k] = k + 1
      BY <1>2, <2>3
    <3> QED  BY <1>1, <2>3, <3>1
  <2>4. CASE k = N + 1
    <3>1. f[k] = N + 2
      BY <1>2, <2>4
    <3> QED  BY <1>1, <2>4, <3>1
  <2>5. CASE k = N + 2
    <3>0. k # 0 /\ k + 1 = N + 3
      BY <2>5
    <3>1. f[k] = N + 3
      BY <1>2, <3>0
    <3> QED  BY <1>1, <2>5, <3>1
  <2> QED  BY <2>1, <2>2, <2>3, <2>4, <2>5
<1>4. ASSUME NEW j \in Stages', NEW k \in Stages', j < k
      PROVE  f[j] < f[k]
  <2>1. j \in Nat /\ k \in Nat /\ k # 0
    BY <1>1, <1>4
  <2>2. f[k] = k + 1 /\ f[j] \in {0, j + 1}
    BY <1>2, <2>1
  <2> QED  BY <1>4, <2>1, <2>2
<1>5. ASSUME NEW k \in Stages, ticP'[m], interp' = "alive"
      PROVE  At(m, k) = <<>> \/ \E j \in Stages' : At(m, j)' = At(m, k)
  <2>1. CASE k = 1
    BY <1>1, <1>5, <2>1
  <2>2. CASE k # 1
    <3>1. \E j \in Stages' : f[j] = k
      <4>1. CASE k = 0
        <5>1. 0 \in Stages'
          BY <1>1
        <5> QED  BY <1>2, <4>1, <5>1
      <4>2. CASE k # 0
        <5>1. k - 1 \in Stages' /\ k - 1 # 0 /\ (k - 1) + 1 = k
          BY <1>1, <2>2, <4>2
        <5>2. f[k - 1] = k
          BY <1>2, <5>1
        <5> QED  BY <5>1, <5>2
      <4> QED  BY <4>1, <4>2
    <3> QED  BY <1>3, <1>5, <3>1
  <2> QED  BY <2>1, <2>2
<1>6. Moves(m, f)
  BY <1>3, <1>4, <1>5 DEF Moves, Keeps
<1> QED  BY <1>2, <1>6, FlowMoves DEF Keeps

\* The change i is lost, with those that go with it, or the last of those of m, in the
\* last place that has any.
Grows(m, i) ==
    /\ lost[m] \subseteq lost'[m] /\ lost'[m] \subseteq 1 .. i
    /\ \A k \in Stages : Increasing(At(m, k)')
    /\ \A k \in Stages : \A x \in ToSet(At(m, k)') :
          x \notin lost'[m] /\ (x = i \/ x \in ToSet(At(m, k)))
    /\ \A j, k \in Stages : j < k /\ i \in ToSet(At(m, j)') => At(m, k)' = <<>>
    /\ \A k \in Stages : \A x \in ToSet(At(m, k)) :
          x \in lost'[m] \/ x \in ToSet(At(m, k)')
    /\ i \in lost'[m] \/ \E k \in Stages : i \in ToSet(At(m, k)')

LEMMA FlowGrows ==
  ASSUME NEW m \in Monitors, Flows(m), NEW i \in Nat, i = Len(changed[m]) + 1,
         Len(changed[m]) \in Nat, Len(changed'[m]) = i, pats'[m] = pats[m],
         \A x \in 1 .. Len(changed[m]) : changed'[m][x] = changed[m][x],
         told'[m] = told[m], ticP'[m] = ticP[m], interp' = interp, Stages' = Stages,
         0 \in Stages, Grows(m, i)
  PROVE  Flows(m)'
<1>g. /\ lost[m] \subseteq lost'[m] /\ lost'[m] \subseteq 1 .. i
      /\ \A k \in Stages : Increasing(At(m, k)')
      /\ \A k \in Stages : \A x \in ToSet(At(m, k)') :
            x \notin lost'[m] /\ (x = i \/ x \in ToSet(At(m, k)))
      /\ \A j, k \in Stages : j < k /\ i \in ToSet(At(m, j)') => At(m, k)' = <<>>
      /\ \A k \in Stages : \A x \in ToSet(At(m, k)) :
            x \in lost'[m] \/ x \in ToSet(At(m, k)')
      /\ i \in lost'[m] \/ \E k \in Stages : i \in ToSet(At(m, k)')
  BY DEF Grows
<1> DEFINE L == 1 .. Len(changed[m])
<1>1. \A x \in L : Wanted(m, x)' <=> Wanted(m, x)
  BY DEF Wanted
<1>2. i \notin L /\ 1 .. Len(changed'[m]) = L \union {i} /\ \A x \in L : x < i
  OBVIOUS
<1>3. \A k \in Stages : ToSet(At(m, k)) \subseteq L \ lost[m]
  BY DEF Flows, InOrder
<1>e. ToSet(<<>>) = {}
  BY EmptyHasNone
<1>t. ToSet(told[m]) \subseteq L
  <2>1. ToSet(At(m, 0)) \subseteq L
    BY <1>3
  <2> QED  BY <2>1 DEF At
<1>4. InOrder(m)'
  <2>1. lost'[m] \subseteq 1 .. Len(changed'[m])
    BY <1>g
  <2>2. \A k \in Stages : ToSet(At(m, k)') \subseteq (1 .. Len(changed'[m])) \ lost'[m]
    BY <1>2, <1>3, <1>g
  <2>3. ASSUME NEW j \in Stages, NEW k \in Stages, j < k,
               NEW x \in ToSet(At(m, j)'), NEW y \in ToSet(At(m, k)')
        PROVE  x < y
    <3>1. x # i
      BY <1>e, <1>g, <2>3
    <3>2. x \in ToSet(At(m, j)) /\ x \in L
      BY <1>3, <1>g, <2>3, <3>1
    <3>3. CASE y = i
      BY <1>2, <3>2, <3>3
    <3>4. CASE y \in ToSet(At(m, k))
      BY <2>3, <3>2, <3>4 DEF Flows, InOrder, Below
    <3> QED  BY <1>g, <2>3, <3>3, <3>4
  <2>4. \A j, k \in Stages' : j < k => Below(At(m, j), At(m, k))'
    BY <2>3 DEF Below, ToSet
  <2>5. \A k \in Stages' :
           Increasing(At(m, k))' /\ (ToSet(At(m, k)) \subseteq (1 .. Len(changed[m])) \ lost[m])'
    BY <1>g, <2>2 DEF Increasing, ToSet
  <2> QED  BY <2>1, <2>4, <2>5 DEF InOrder
<1>5. Covered(m)'
  <2> SUFFICES ASSUME ticP'[m], interp' = "alive", NEW x \in 1 .. Len(changed'[m])
               PROVE  \/ x \in lost'[m] \/ ~Wanted(m, x)'
                      \/ \E k \in Stages : x \in ToSet(At(m, k)')
    BY DEF Covered, ToSet
  <2>1. CASE x = i
    BY <1>g, <2>1
  <2>2. CASE x \in L
    <3>1. x \in lost[m] \/ ~Wanted(m, x) \/ \E k \in Stages : x \in ToSet(At(m, k))
      BY <2>2 DEF Flows, Covered
    <3> QED  BY <1>1, <1>g, <2>2, <3>1
  <2> QED  BY <1>2, <2>1, <2>2
<1>6. ToldAll(m)'
  <2>1. \A x \in ToSet(told'[m]) : Wanted(m, x)'
    BY <1>1, <1>t DEF Flows, ToldAll
  <2>2. ASSUME NEW x \in 1 .. Len(changed'[m]), NEW y \in ToSet(told'[m]),
               Wanted(m, x)', x \notin lost'[m], x <= y
        PROVE  x \in ToSet(told'[m])
    <3>1. y \in L /\ y < i
      BY <1>2, <1>t, <2>2
    <3>2. x \in L
      BY <1>2, <2>2, <3>1
    <3>3. Wanted(m, x) /\ x \notin lost[m]
      BY <1>1, <1>g, <2>2, <3>2
    <3> QED  BY <2>2, <3>2, <3>3 DEF Flows, ToldAll
  <2>3. \A x \in 1 .. Len(changed'[m]), y \in ToSet(told'[m]) :
           Wanted(m, x)' /\ x \notin lost'[m] /\ x <= y => x \in ToSet(told'[m])
    BY <2>2
  <2> QED  BY <2>1, <2>3 DEF ToldAll, ToSet
<1> QED  BY <1>4, <1>5, <1>6 DEF Flows

\* The script is told of what it wanted of the changes that the callback has
LEMMA FlowTells ==
  ASSUME NEW m \in Monitors, Flows(m), queue \in Seq(Callback), queue # <<>>,
         queue' = Tail(queue), data' = data, ticP[m], interp = "alive",
         changed'[m] = changed[m], lost'[m] = lost[m], pats'[m] = pats[m],
         Done(m)' = Done(m), pend'[m] = pend[m],
         told[m] \in Seq(Int), Sent(m, 1) \in Seq(Int),
         NEW M, \A x \in 1 .. Len(changed[m]) : x \in M <=> Wanted(m, x),
         told'[m] = told[m] \o Keep(Sent(m, 1), M)
  PROVE  Flows(m)'
<1> DEFINE L == 1 .. Len(changed[m])
           t == told[m]
           s == Sent(m, 1)
           u == Keep(s, M)
<1>1. PICK N \in Nat :
            /\ Len(queue) = N + 1 /\ Stages = 0 .. N + 3 /\ Stages' = 0 .. N + 2
            /\ At(m, 0)' = told'[m] /\ At(m, 0) = told[m]
            /\ At(m, 1) = Sent(m, 1)
            /\ \A k \in 1 .. N : At(m, k)' = At(m, k + 1)
            /\ At(m, N + 1)' = Done(m)' /\ At(m, N + 2)' = pend'[m]
            /\ At(m, N + 2) = Done(m) /\ At(m, N + 3) = pend[m]
  BY TakenPlaces
<1>2. \A k \in Stages' : k # 0 => k + 1 \in Stages /\ At(m, k)' = At(m, k + 1)
  <2> SUFFICES ASSUME NEW k \in Stages', k # 0
               PROVE  k + 1 \in Stages /\ At(m, k)' = At(m, k + 1)
    OBVIOUS
  <2>1. k \in 1 .. N \/ k = N + 1 \/ k = N + 2
    BY <1>1
  <2>2. (N + 1) + 1 = N + 2 /\ (N + 2) + 1 = N + 3
    OBVIOUS
  <2>3. At(m, k)' = At(m, k + 1)
    BY <1>1, <2>1, <2>2
  <2> QED  BY <1>1, <2>3
<1>3. 0 \in Stages /\ 1 \in Stages /\ 0 \in Stages'
  BY <1>1
<1>4. /\ Increasing(t) /\ Increasing(s) /\ Below(t, s)
      /\ ToSet(t) \subseteq L \ lost[m] /\ ToSet(s) \subseteq L \ lost[m]
  BY <1>1, <1>3 DEF Flows, InOrder
<1>5. u \in Seq(Int) /\ Increasing(u) /\ \A x : x \in ToSet(u) <=> x \in ToSet(s) /\ x \in M
  BY <1>4, KeepType, KeepIncreasing, KeepElements
<1>6. told'[m] = t \o u
  OBVIOUS
<1> HIDE DEF u, t, s
<1>t. t \in Seq(Int) /\ s \in Seq(Int)
  BY DEF t, s
<1>7. \A x : x \in ToSet(told'[m]) <=> x \in ToSet(t) \/ (x \in ToSet(s) /\ x \in M)
  <2>1. \A x : x \in ToSet(t \o u) <=> x \in ToSet(t) \/ x \in ToSet(u)
    BY <1>5, <1>t, ConcatElements
  <2> QED  BY <1>5, <1>6, <2>1
<1>8. Increasing(told'[m])
  <2>1. \A j \in 1 .. Len(t) : \A k \in 1 .. Len(u) : t[j] < u[k]
    <3> SUFFICES ASSUME NEW j \in 1 .. Len(t), NEW k \in 1 .. Len(u)
                 PROVE  t[j] < u[k]
      OBVIOUS
    <3>1. t[j] \in ToSet(t) /\ u[k] \in ToSet(u)
      BY <1>5, <1>t, Elements
    <3> QED  BY <1>4, <1>5, <3>1 DEF Below
  <2>2. Increasing(t \o u)
    BY <1>4, <1>5, <1>t, <2>1, IncreasingConcat
  <2> QED  BY <1>6, <2>2
<1>w. \A x : Wanted(m, x)' <=> Wanted(m, x)
  BY DEF Wanted
<1>a. At(m, 0) = t /\ At(m, 1) = s /\ At(m, 0)' = told'[m]
  BY <1>1 DEF t, s
<1>9. InOrder(m)'
  <2>1. ASSUME NEW k \in Stages'
        PROVE  Increasing(At(m, k)') /\ ToSet(At(m, k)') \subseteq L \ lost[m]
    <3>1. CASE k = 0
      BY <1>4, <1>7, <1>8, <1>a, <3>1
    <3>2. CASE k # 0
      BY <1>2, <3>2 DEF Flows, InOrder
    <3> QED  BY <3>1, <3>2
  <2>2. ASSUME NEW j \in Stages', NEW k \in Stages', j < k,
               NEW x \in ToSet(At(m, j)'), NEW y \in ToSet(At(m, k)')
        PROVE  x < y
    <3>1. k # 0 /\ k + 1 \in Stages /\ y \in ToSet(At(m, k + 1)) /\ j + 1 < k + 1 /\ 0 < k
          /\ j \in Nat /\ k \in Nat
      BY <1>1, <1>2, <2>2
    <3>2. CASE j = 0
      <4>1. x \in ToSet(At(m, 0)) \/ x \in ToSet(At(m, 1))
        BY <1>7, <1>a, <2>2, <3>2
      <4>2. 0 < k + 1 /\ 1 < k + 1
        BY <3>1
      <4> QED  BY <1>3, <3>1, <4>1, <4>2 DEF Flows, InOrder, Below
    <3>3. CASE j # 0
      <4>1. j + 1 \in Stages /\ x \in ToSet(At(m, j + 1))
        BY <1>2, <2>2, <3>3
      <4> QED  BY <3>1, <4>1 DEF Flows, InOrder, Below
    <3> QED  BY <3>2, <3>3
  <2>3. \A j, k \in Stages' : j < k => Below(At(m, j), At(m, k))'
    BY <2>2 DEF Below, ToSet
  <2>4. \A k \in Stages' :
           Increasing(At(m, k))' /\ (ToSet(At(m, k)) \subseteq (1 .. Len(changed[m])) \ lost[m])'
    BY <2>1 DEF Increasing, ToSet
  <2>5. lost'[m] \subseteq 1 .. Len(changed'[m])
    BY DEF Flows, InOrder
  <2> QED  BY <2>3, <2>4, <2>5 DEF InOrder
<1>10. \A x \in L : \/ x \in lost[m] \/ ~Wanted(m, x) \/ x \in ToSet(told'[m])
                    \/ \E k \in Stages' : k # 0 /\ x \in ToSet(At(m, k)')
  <2> SUFFICES ASSUME NEW x \in L, x \notin lost[m], Wanted(m, x)
               PROVE  \/ x \in ToSet(told'[m])
                      \/ \E k \in Stages' : k # 0 /\ x \in ToSet(At(m, k)')
    OBVIOUS
  <2>1. PICK k \in Stages : x \in ToSet(At(m, k))
    BY DEF Flows, Covered
  <2>2. CASE k = 0 \/ k = 1
    <3>1. x \in M
      OBVIOUS
    <3> QED  BY <1>7, <1>a, <2>1, <2>2, <3>1
  <2>3. CASE ~(k = 0 \/ k = 1)
    <3>1. k - 1 \in Stages' /\ k - 1 # 0 /\ (k - 1) + 1 = k
      BY <1>1, <2>3
    <3>2. At(m, k - 1)' = At(m, k)
      BY <1>2, <3>1
    <3> QED  BY <2>1, <3>1, <3>2
  <2> QED  BY <2>2, <2>3
<1>11. Covered(m)'
  <2> SUFFICES ASSUME NEW x \in L
               PROVE  x \in lost[m] \/ ~Wanted(m, x)
                      \/ \E k \in Stages' : x \in ToSet(At(m, k)')
    BY <1>w DEF Covered, ToSet
  <2> QED  BY <1>3, <1>10, <1>a
<1>12. ToldAll(m)'
  <2>1. ASSUME NEW x \in ToSet(told'[m])
        PROVE  Wanted(m, x)
    BY <1>4, <1>7, <2>1 DEF Flows, ToldAll, t
  <2>2. ASSUME NEW x \in L, NEW y \in ToSet(told'[m]), Wanted(m, x), x \notin lost[m], x <= y
        PROVE  x \in ToSet(told'[m])
    <3>1. CASE \E k \in Stages' : k # 0 /\ x \in ToSet(At(m, k)')
      <4>1. PICK k \in Stages' : k # 0 /\ x \in ToSet(At(m, k)')
        BY <3>1
      <4>2. 0 < k
        BY <1>1, <4>1
      <4>3. Below(At(m, 0)', At(m, k)')
        BY <1>3, <1>9, <4>2 DEF InOrder, Below, ToSet
      <4>4. y < x
        BY <1>a, <2>2, <4>1, <4>3 DEF Below
      <4>5. x \in Int /\ y \in Int
        BY <1>4, <1>7, <2>2
      <4> QED  BY <2>2, <4>4, <4>5
    <3>2. CASE x \in ToSet(told'[m])
      BY <3>2
    <3> QED  BY <1>10, <2>2, <3>1, <3>2
  <2>3. (\A x \in ToSet(told'[m]) : Wanted(m, x)')
        /\ (\A x \in 1 .. Len(changed'[m]), y \in ToSet(told'[m]) :
               Wanted(m, x)' /\ x \notin lost'[m] /\ x <= y => x \in ToSet(told'[m]))
    BY <1>w, <2>1, <2>2
  <2> QED  BY <2>3 DEF ToldAll, ToSet
<1> QED  BY <1>9, <1>11, <1>12 DEF Flows

\* The code and its documentation agree on what a pattern list wants
LEMMA WantedIs ==
  ASSUME IoInv, NEW m \in Monitors, NEW x
  PROVE  PatternMatched(pats[m], changed[m][x]) <=> Wanted(m, x)
<1> DEFINE P == [include : BOOLEAN, names : SUBSET Names]
<1>1. \A ps \in PatternLists : ps \in Seq(P)
  BY DirMonitorAssumption
<1>2. pats[m] \in PatternLists \union {<<>>}
  BY DEF IoInv, IoTypes
<1>3. <<>> \in Seq(P)
  OBVIOUS
<1>4. pats[m] \in Seq(P)
  BY <1>1, <1>2, <1>3
<1> QED  BY <1>4, FirstMatchDecides DEF Wanted

\* What is written to a buffer of m is seen by m alone
LEMMA WriteSeen ==
  ASSUME IoInv, BufferInv, NEW m \in Monitors, NEW b \in Buffers, NEW z,
         data' = [data EXCEPT ![b] = z], b \notin used \/ b = iob[m]
  PROVE  /\ \A o, k : k \in 1 .. Len(queue) /\ queue[k].b # None
                         => data'[queue[k].b] = data[queue[k].b]
         /\ \A o \in Monitors : o # m /\ io'[o] = io[o] /\ iob'[o] = iob[o]
                                   => Done(o)' = Done(o)
<1>1. b # None
  BY DirMonitorAssumption
<1>2. ASSUME NEW k \in 1 .. Len(queue), queue[k].b # None
      PROVE  data'[queue[k].b] = data[queue[k].b]
  <2>1. queue[k].b # b
    BY <1>1, <1>2 DEF BufferInv
  <2>2. queue[k].b \in Buffers
    BY <1>2 DEF BufferInv, IoInv, IoTypes, BufTypes
  <2> QED  BY <2>1, <2>2 DEF IoInv, IoTypes
<1>3. ASSUME NEW o \in Monitors, o # m, io'[o] = io[o], iob'[o] = iob[o]
      PROVE  Done(o)' = Done(o)
  <2>1. CASE io[o] = "done"
    <3>1. iob[o] # None /\ iob[o] \in used
      BY <2>1 DEF IoInv, HandleInv, BufferInv
    <3>2. iob[o] # b
      BY <1>1, <1>3, <3>1 DEF BufferInv
    <3>3. iob[o] \in Buffers
      BY <3>1 DEF IoInv, IoTypes, BufTypes
    <3>4. data'[iob[o]] = data[iob[o]]
      BY <3>2, <3>3 DEF IoInv, IoTypes
    <3> QED  BY <1>3, <3>4 DEF Done
  <2>2. CASE io[o] # "done"
    BY <1>3, <2>2 DEF Done
  <2> QED  BY <2>1, <2>2
<1> QED  BY <1>2, <1>3

\* A step that keeps the queue and what its buffers have keeps what is sent
LEMMA SentStays ==
  ASSUME queue' = queue,
         \A k \in 1 .. Len(queue) : queue[k].b # None => data'[queue[k].b] = data[queue[k].b]
  PROVE  \A m : \A k \in 1 .. Len(queue) : Sent(m, k)' = Sent(m, k)
  BY DEF Sent

LEMMA FlowRead ==
  ASSUME IoInv, BufferInv, FlowInv, NEW m \in Monitors, InitiateRead(m), io[m] = "none",
         queue' = queue, UNCHANGED histVars, NEW o \in Monitors,
         o = m => Keeps(o) \/ changed[o] = <<>>,
         o # m => Keeps(o)
  PROVE  Flows(o)'
<1>t. IoTypes /\ RefInv /\ Flows(o) /\ Flows(m)
  BY DEF IoInv, FlowInv
<1>q. Len(queue) \in Nat
  BY DEF IoInv, RefInv, MonTypes
<1>1. PICK b \in ReadBuffer(m) :
         /\ b \in Buffers /\ iob' = [iob EXCEPT ![m] = b]
         /\ data' = [data EXCEPT ![b] = pend[m]]
  BY <1>t, ReadStarts
<1>2. PICK x \in {"done", "pending"} : io' = [io EXCEPT ![m] = x]
  BY <1>t, ReadStarts
<1>3. pend' = [pend EXCEPT ![m] = <<>>] /\ (x = "pending" => pend[m] = <<>>)
  <2>1. pend[m] # <<>> => io' = [io EXCEPT ![m] = "done"]
    BY DEF InitiateRead
  <2>2. pend[m] # <<>> => io'[m] = "done"
    BY <1>t, <2>1 DEF IoTypes
  <2>3. io'[m] = x
    BY <1>t, <1>2 DEF IoTypes
  <2> QED  BY <1>t, <2>2, <2>3, ReadStarts
<1>4. b \notin used \/ b = iob[m]
  <2>1. BuffersLeft => FreeBuffer \notin used
    <3>1. BuffersLeft => \E y \in Buffers : y \notin used
      BY <1>t DEF BuffersLeft, IoTypes, BufTypes
    <3> QED  BY <3>1 DEF FreeBuffer
  <2> QED  BY <1>1, <2>1 DEF ReadBuffer
<1>5. /\ \A k \in 1 .. Len(queue) : queue[k].b # None
                                        => data'[queue[k].b] = data[queue[k].b]
      /\ \A a \in Monitors : a # m /\ io'[a] = io[a] /\ iob'[a] = iob[a]
                                => Done(a)' = Done(a)
  BY <1>1, <1>4, WriteSeen
<1>6. \A k \in 1 .. Len(queue) : Sent(o, k)' = Sent(o, k)
  BY <1>5, SentStays
<1>7. CASE o # m
  <2>1. io'[o] = io[o] /\ iob'[o] = iob[o] /\ pend'[o] = pend[o]
    BY <1>t, <1>1, <1>2, <1>3, <1>7 DEF IoTypes, BufTypes
  <2>2. Done(o)' = Done(o)
    BY <1>5, <1>7, <2>1
  <2> QED  BY <1>6, <1>7, <1>q, <1>t, <2>1, <2>2, FlowStays DEF Reads
<1>8. CASE o = m
  <2>1. io'[m] = x /\ iob'[m] = b /\ data'[b] = pend[m] /\ pend'[m] = <<>>
    BY <1>t, <1>1, <1>2, <1>3 DEF IoTypes, BufTypes
  <2>2. Done(m) = <<>> /\ Done(m)' = pend[m]
    BY <1>3, <2>1 DEF Done
  <2>3. CASE Keeps(m)
    BY <1>6, <1>8, <1>q, <1>t, <2>1, <2>2, <2>3, FlowStays DEF Reads
  <2>4. CASE changed[m] = <<>>
    <3>e. /\ ToSet(<<>>) = {} /\ Increasing(<<>>)
          /\ \A s : Below(<<>>, s) /\ Below(s, <<>>)
      BY EmptyHasNone
    <3>0. 1 .. Len(changed[m]) = {}
      BY <2>4
    <3>1. \A k \in Stages : ToSet(At(m, k)) = {} /\ Increasing(At(m, k))
      BY <1>t, <3>0 DEF Flows, InOrder
    <3>2. lost[m] = {}
      BY <1>t, <3>0 DEF Flows, InOrder
    <3>3. Stages' = Stages /\ Stages = 0 .. Len(queue) + 2 /\ changed' = changed /\ lost' = lost
          /\ told' = told
      BY DEF Stages, histVars
    <3>4. ASSUME NEW k \in Stages'
          PROVE  ToSet(At(m, k)') = {} /\ Increasing(At(m, k)')
      <4>n. PICK N \in Nat : N = Len(queue)
        BY <1>q
      <4>1. k = 0 \/ k \in 1 .. N \/ k = N + 1 \/ k = N + 2
        BY <3>3, <4>n
      <4>2. /\ At(m, 0) = told[m] /\ \A j \in 1 .. N : At(m, j) = Sent(m, j)
            /\ At(m, N + 2) = pend[m]
        BY <4>n, PlacesAre DEF Places
      <4>3. /\ At(m, 0)' = told'[m] /\ \A j \in 1 .. N : At(m, j)' = Sent(m, j)'
            /\ At(m, N + 1)' = Done(m)' /\ At(m, N + 2)' = pend'[m]
        <5>1. Len(queue') = N
          BY <4>n
        <5> QED  BY <5>1, PlacesNext DEF Places
      <4>4. N + 2 \in Stages /\ k \in Stages
        BY <3>3, <4>n
      <4> QED  BY <1>6, <1>8, <2>1, <2>2, <3>1, <3>3, <3>e, <4>1, <4>2, <4>3, <4>4, <4>n
    <3>5. InOrder(m)'
      <4>1. \A j, k \in Stages' : j < k => Below(At(m, j), At(m, k))'
        BY <3>4 DEF Below, ToSet
      <4>2. \A k \in Stages' :
           Increasing(At(m, k))' /\ (ToSet(At(m, k)) \subseteq (1 .. Len(changed[m])) \ lost[m])'
        BY <3>4 DEF Increasing, ToSet
      <4>3. lost'[m] \subseteq 1 .. Len(changed'[m])
        BY <3>2, <3>3
      <4> QED  BY <4>1, <4>2, <4>3 DEF InOrder
    <3>6. Covered(m)'
      BY <3>0, <3>3 DEF Covered
    <3>7. ToldAll(m)'
      <4>1. ToSet(told'[m]) = {}
        <5>1. 0 \in Stages'
          BY <1>q, <3>3
        <5>2. At(m, 0)' = told'[m]
          BY <1>q, PlacesNext DEF Places
        <5> QED  BY <3>4, <5>1, <5>2
      <4> QED  BY <4>1 DEF ToldAll, ToSet
    <3> QED  BY <1>8, <3>5, <3>6, <3>7 DEF Flows
  <2> QED  BY <1>8, <2>3, <2>4
<1> QED  BY <1>7, <1>8

\* The places of one monitor as they are before and after a step that sends nothing
LEMMA SamePlaces ==
  ASSUME Len(queue) \in Nat, queue' = queue, NEW m \in Monitors, told'[m] = told[m],
         \A k \in 1 .. Len(queue) : Sent(m, k)' = Sent(m, k)
  PROVE  \E N \in Nat :
            /\ Stages = 0 .. N + 2 /\ Stages' = 0 .. N + 2
            /\ \A k \in 0 .. N : At(m, k)' = At(m, k)
            /\ At(m, 0) = told[m]
            /\ At(m, N + 1) = Done(m) /\ At(m, N + 2) = pend[m]
            /\ At(m, N + 1)' = Done(m)' /\ At(m, N + 2)' = pend'[m]
<1>n. PICK N \in Nat : N = Len(queue)
  OBVIOUS
<1>1. Stages = 0 .. N + 2 /\ Stages' = 0 .. N + 2
  BY <1>n DEF Stages
<1>2. /\ At(m, 0) = told[m] /\ \A j \in 1 .. N : At(m, j) = Sent(m, j)
      /\ At(m, N + 1) = Done(m) /\ At(m, N + 2) = pend[m]
  BY <1>n, PlacesAre DEF Places
<1>3. /\ At(m, 0)' = told'[m] /\ \A j \in 1 .. N : At(m, j)' = Sent(m, j)'
      /\ At(m, N + 1)' = Done(m)' /\ At(m, N + 2)' = pend'[m]
  <2>1. Len(queue') = N
    BY <1>n
  <2> QED  BY <2>1, PlacesNext DEF Places
<1>4. \A k \in 0 .. N : k = 0 \/ k \in 1 .. N
  OBVIOUS
<1>5. \A k \in 0 .. N : At(m, k)' = At(m, k)
  BY <1>2, <1>3, <1>4, <1>n
<1> QED  BY <1>1, <1>2, <1>3, <1>5

LEMMA OneElement == \A i : ToSet(<<i>>) = {i} /\ Increasing(<<i>>)
  BY DEF ToSet, Increasing

\* A later number keeps a sequence in order
LEMMA IncreasingAppend ==
  ASSUME NEW s \in Seq(Int), NEW i \in Int, Increasing(s), \A x \in ToSet(s) : x < i
  PROVE  Increasing(Append(s, i)) /\ ToSet(Append(s, i)) = ToSet(s) \union {i}
<1>1. <<i>> \in Seq(Int) /\ Append(s, i) = s \o <<i>> /\ <<i>>[1] = i /\ Len(<<i>>) = 1
  OBVIOUS
<1>2. \A j \in 1 .. Len(s) : s[j] \in ToSet(s)
  BY Elements
<1>3. \A j \in 1 .. Len(s) : \A k \in 1 .. Len(<<i>>) : s[j] < <<i>>[k]
  BY <1>1, <1>2
<1>4. Increasing(s \o <<i>>)
  BY <1>1, <1>3, OneElement, IncreasingConcat
<1>5. \A x : x \in ToSet(Append(s, i)) <=> x \in ToSet(s) \/ x = i
  BY AppendElements
<1> QED  BY <1>1, <1>4, <1>5

LEMMA FlowChange ==
  ASSUME IoInv, BufferInv, FlowInv, NEW m \in Monitors, NEW n \in Names, Change(m, n)
  PROVE  Flows(m)'
<1>t. IoTypes /\ RefInv /\ Flows(m) /\ HandleInv
  BY DEF IoInv, FlowInv
<1>q. Len(queue) \in Nat
  BY DEF IoInv, RefInv, MonTypes
<1>c. changed[m] \in Seq(Names) /\ pend[m] \in Seq(1 .. MaxChanges) /\ MaxChanges \in Nat
  BY <1>t, DirMonitorAssumption DEF IoTypes
<1>p. pend[m] \in Seq(Int)
  BY <1>c
<1>i. PICK i \in Nat : i = Len(changed[m]) + 1
  BY <1>c
<1>1. changed' = [changed EXCEPT ![m] = Append(changed[m], n)]
  BY DEF Change
<1>2. /\ Len(changed'[m]) = i /\ Len(changed[m]) \in Nat
      /\ \A x \in 1 .. Len(changed[m]) : changed'[m][x] = changed[m][x]
  <2>1. changed'[m] = Append(changed[m], n)
    BY <1>t, <1>1 DEF IoTypes
  <2> QED  BY <1>c, <1>i, <2>1
<1>3. UNCHANGED <<ticP, interp, told, pats, queue, iob>>
  BY DEF Change
<1>4. \/ /\ io[m] = "pending" /\ io'[m] = "done" /\ data' = [data EXCEPT ![iob[m]] = <<i>>]
         /\ pend' = pend /\ lost' = lost
      \/ /\ io[m] # "pending" /\ io' = io /\ data' = data /\ lost' = lost
         /\ pend'[m] = Append(pend[m], i)
      \/ /\ io[m] # "pending" /\ io' = io /\ data' = data /\ pend'[m] = <<>>
         /\ lost'[m] = lost[m] \union {i} \union ToSet(pend[m])
  BY <1>t, <1>i DEF Change, IoTypes
<1>5. \A k \in 1 .. Len(queue) : Sent(m, k)' = Sent(m, k)
  <2>1. CASE data' = data
    BY <1>3, <2>1, SentStays
  <2>2. CASE io[m] = "pending" /\ data' = [data EXCEPT ![iob[m]] = <<i>>]
    <3>1. iob[m] \in Buffers
      BY <1>t, <2>2 DEF HandleInv, IoTypes, BufTypes
    <3> QED  BY <1>3, <2>2, <3>1, WriteSeen, SentStays
  <2> QED  BY <1>4, <2>1, <2>2
<1>6. PICK N \in Nat :
            /\ Stages = 0 .. N + 2 /\ Stages' = 0 .. N + 2
            /\ \A k \in 0 .. N : At(m, k)' = At(m, k)
            /\ At(m, 0) = told[m]
            /\ At(m, N + 1) = Done(m) /\ At(m, N + 2) = pend[m]
            /\ At(m, N + 1)' = Done(m)' /\ At(m, N + 2)' = pend'[m]
  BY <1>3, <1>5, <1>q, SamePlaces
<1>7. \A k \in Stages : k \in 0 .. N \/ k = N + 1 \/ k = N + 2
  BY <1>6
<1>8. 0 \in Stages /\ N + 1 \in Stages /\ N + 2 \in Stages
  BY <1>6
<1> DEFINE L == 1 .. Len(changed[m])
<1>9. i \notin L /\ 1 .. i = L \union {i} /\ \A x \in L : x < i
  BY <1>2, <1>i
<1>10. /\ lost[m] \subseteq L
       /\ \A k \in Stages : Increasing(At(m, k)) /\ ToSet(At(m, k)) \subseteq L \ lost[m]
       /\ \A j, k \in Stages : j < k => Below(At(m, j), At(m, k))
  BY <1>t DEF Flows, InOrder
<1>e. ToSet(<<>>) = {} /\ Increasing(<<>>)
  BY EmptyHasNone
<1> HIDE DEF L
<1>11. ASSUME io[m] = "pending", io'[m] = "done",
              data' = [data EXCEPT ![iob[m]] = <<i>>], pend' = pend, lost' = lost
       PROVE  Grows(m, i)
  <2>1. iob[m] \in Buffers /\ pend[m] = <<>>
    BY <1>t, <1>11 DEF HandleInv, IoTypes, BufTypes
  <2>2. Done(m) = <<>> /\ Done(m)' = <<i>>
    BY <1>t, <1>3, <1>11, <2>1 DEF Done, IoTypes
  <2>3. At(m, N + 1)' = <<i>> /\ At(m, N + 2)' = <<>>
        /\ At(m, N + 1) = <<>> /\ At(m, N + 2) = <<>>
    BY <1>6, <1>11, <2>1, <2>2
  <2>4. ToSet(<<i>>) = {i} /\ Increasing(<<i>>)
    BY OneElement
  <2>5. \A k \in Stages : Increasing(At(m, k)')
    BY <1>6, <1>7, <1>10, <1>e, <2>3, <2>4
  <2>6. \A k \in Stages : \A x \in ToSet(At(m, k)') :
           x \notin lost'[m] /\ (x = i \/ x \in ToSet(At(m, k)))
    BY <1>6, <1>7, <1>9, <1>10, <1>11, <1>e, <2>3, <2>4
  <2>7. ASSUME NEW j \in Stages, NEW k \in Stages, j < k, i \in ToSet(At(m, j)')
        PROVE  At(m, k)' = <<>>
    <3>1. j \notin 0 .. N
      BY <1>6, <1>9, <1>10, <2>7
    <3>2. k = N + 2
      BY <1>6, <1>7, <2>7, <3>1
    <3> QED  BY <2>3, <3>2
  <2>8. \A k \in Stages : \A x \in ToSet(At(m, k)) : x \in ToSet(At(m, k)')
    BY <1>6, <1>7, <1>e, <2>3
  <2>9. i \in ToSet(At(m, N + 1)')
    BY <2>3, <2>4
  <2> QED  BY <1>8, <1>9, <1>10, <1>11, <2>5, <2>6, <2>7, <2>8, <2>9 DEF Grows
<1>12. ASSUME io' = io, data' = data, lost' = lost, pend'[m] = Append(pend[m], i)
       PROVE  Grows(m, i)
  <2>2. Done(m)' = Done(m)
    BY <1>3, <1>12 DEF Done
  <2>3. \A k \in Stages : k # N + 2 => At(m, k)' = At(m, k)
    BY <1>6, <1>7, <2>2
  <2>4. \A x \in ToSet(pend[m]) : x < i
    BY <1>6, <1>8, <1>9, <1>10
  <2>5. Increasing(At(m, N + 2)') /\ ToSet(At(m, N + 2)') = ToSet(At(m, N + 2)) \union {i}
    <3>1. Increasing(pend[m])
      BY <1>6, <1>8, <1>10
    <3>2. i \in Int
      OBVIOUS
    <3>3. /\ Increasing(Append(pend[m], i))
          /\ ToSet(Append(pend[m], i)) = ToSet(pend[m]) \union {i}
      BY <1>p, <2>4, <3>1, <3>2, IncreasingAppend
    <3> QED  BY <1>6, <1>12, <3>3
  <2>6. \A k \in Stages : \A x \in ToSet(At(m, k)') :
           x \notin lost'[m] /\ (x = i \/ x \in ToSet(At(m, k)))
    BY <1>9, <1>10, <1>12, <2>3, <2>5
  <2>7. ASSUME NEW j \in Stages, NEW k \in Stages, j < k, i \in ToSet(At(m, j)')
        PROVE  At(m, k)' = <<>>
    <3>1. j = N + 2
      BY <1>9, <1>10, <2>3, <2>7
    <3> QED  BY <1>6, <2>7, <3>1
  <2>8. \A k \in Stages : \A x \in ToSet(At(m, k)) : x \in ToSet(At(m, k)')
    BY <2>3, <2>5
  <2>9. \A k \in Stages : Increasing(At(m, k)')
    BY <1>10, <2>3, <2>5
  <2> QED  BY <1>8, <1>9, <1>10, <1>12, <2>5, <2>6, <2>7, <2>8, <2>9 DEF Grows
<1>13. ASSUME io' = io, data' = data, pend'[m] = <<>>,
              lost'[m] = lost[m] \union {i} \union ToSet(pend[m])
       PROVE  Grows(m, i)
  <2>2. Done(m)' = Done(m)
    BY <1>3, <1>13 DEF Done
  <2>3. \A k \in Stages : k # N + 2 => At(m, k)' = At(m, k)
    BY <1>6, <1>7, <2>2
  <2>4. At(m, N + 2)' = <<>> /\ ToSet(At(m, N + 2)) = ToSet(pend[m])
    BY <1>6, <1>13
  <2>5. ASSUME NEW k \in Stages, NEW x \in ToSet(At(m, k)')
        PROVE  x \notin lost'[m] /\ x \in ToSet(At(m, k))
    <3>1. k # N + 2 /\ x \in ToSet(At(m, k)) /\ x \in L \ lost[m]
      BY <1>10, <1>e, <2>3, <2>4, <2>5
    <3>2. k < N + 2
      BY <1>6, <3>1
    <3>3. \A y \in ToSet(pend[m]) : x < y
      BY <1>8, <1>10, <2>4, <3>1, <3>2 DEF Below
    <3>4. ~(x < x)
      BY <1>2, <3>1 DEF L
    <3> QED  BY <1>9, <1>13, <3>1, <3>3, <3>4
  <2>6. lost'[m] \subseteq 1 .. i
    BY <1>8, <1>9, <1>10, <1>13, <2>4
  <2>7. \A k \in Stages : Increasing(At(m, k)')
    BY <1>10, <1>e, <2>3, <2>4
  <2>8. \A k \in Stages : i \notin ToSet(At(m, k)')
    BY <1>9, <1>10, <2>5
  <2>9. \A k \in Stages : \A x \in ToSet(At(m, k)) :
           x \in lost'[m] \/ x \in ToSet(At(m, k)')
    BY <1>13, <2>3, <2>4
  <2> QED  BY <1>13, <2>5, <2>6, <2>7, <2>8, <2>9 DEF Grows
<1>14. Grows(m, i)
  BY <1>4, <1>11, <1>12, <1>13
<1> HIDE DEF L
<1> QED  BY <1>2, <1>3, <1>6, <1>8, <1>14, <1>i, <1>t, FlowGrows

LEMMA DoneStays ==
  ASSUME NEW m, data' = data,
         \/ io'[m] = io[m] /\ iob'[m] = iob[m]
         \/ io'[m] # "done" /\ io[m] # "done"
  PROVE  Done(m)' = Done(m)
  BY DEF Done

\* A step that sends nothing and puts nothing into a buffer
LEMMA FlowQuiet ==
  ASSUME IoInv, NEW m \in Monitors, Flows(m), Keeps(m), queue' = queue, data' = data,
         pend'[m] = pend[m],
         \/ io'[m] = io[m] /\ iob'[m] = iob[m]
         \/ io'[m] # "done" /\ io[m] # "done"
  PROVE  Flows(m)'
<1>1. Done(m)' = Done(m)
  BY DoneStays
<1>2. Reads(m)
  BY <1>1 DEF Reads
<1>3. \A k \in 1 .. Len(queue) : Sent(m, k)' = Sent(m, k)
  BY SentStays
<1>4. Len(queue) \in Nat
  BY DEF IoInv, RefInv, MonTypes
<1> QED  BY <1>2, <1>3, <1>4, FlowStays

\* The read of a monitor that is shut down is gone, and that of another is kept
LEMMA ShutdownReads ==
  ASSUME IoInv, RefInv', NEW S \in SUBSET Monitors, S \subseteq ToSet(list),
         NEW c, Shutdown(S, c), interp' = "alive" => interp = "alive", NEW m \in Monitors
  PROVE  /\ \/ Done(m)' = Done(m) /\ pend'[m] = pend[m]
            \/ Done(m)' = <<>> /\ pend'[m] = <<>> /\ ~(ticP'[m] /\ interp' = "alive")
         /\ ticP'[m] /\ interp' = "alive" => ticP[m] /\ interp = "alive"
         /\ life'[m] = "none" => life[m] = "none"
         /\ UNCHANGED <<data, pats>>
<1>1. /\ io'[m] = IF m \in S THEN "none" ELSE io[m]
      /\ pend'[m] = IF m \in S THEN <<>> ELSE pend[m]
      /\ ticP'[m] <=> ticP[m] /\ ~(m \in S /\ HasList)
      /\ pooled'[m] <=> pooled[m] /\ m \notin S
      /\ UNCHANGED <<data, pats>>
  BY DEF Shutdown
<1>2. life'[m] = "none" => life[m] = "none"
  BY DEF Shutdown, Release
<1>3. CASE m \in S
  <2>1. Done(m)' = <<>>
    BY <1>1, <1>3 DEF Done
  <2>2. interp = "alive" => HasList
    BY DEF HasList
  <2> QED  BY <1>1, <1>2, <1>3, <2>1, <2>2
<1>4. CASE m \notin S
  <2>1. io[m] = "done" => pooled'[m]
    BY <1>1, <1>4 DEF IoInv, HandleInv
  <2>2. io[m] = "done" => iob'[m] = iob[m]
    BY <2>1, ShutdownKeepsBuffer
  <2>3. Done(m)' = Done(m)
    BY <1>1, <1>4, <2>2 DEF Done
  <2> QED  BY <1>1, <1>2, <1>4, <2>3
<1> QED  BY <1>3, <1>4

LEMMA FlowShutdown ==
  ASSUME IoInv, RefInv', NEW S \in SUBSET Monitors, S \subseteq ToSet(list),
         NEW c, Shutdown(S, c), interp' = "alive" => interp = "alive", NEW m \in Monitors,
         Flows(m), queue' = queue, UNCHANGED histVars
  PROVE  Flows(m)'
<1>1. Reads(m) /\ Keeps(m) /\ data' = data
  BY ShutdownReads DEF Reads, Keeps, histVars
<1>2. \A k \in 1 .. Len(queue) : Sent(m, k)' = Sent(m, k)
  BY <1>1, SentStays
<1>3. Len(queue) \in Nat
  BY DEF IoInv, RefInv, MonTypes
<1> QED  BY <1>1, <1>2, <1>3, FlowStays

LEMMA FlowDispatch ==
  ASSUME IoInv, RefInv', BufferInv, FlowInv, Dispatch, NEW o \in Monitors
  PROVE  Flows(o)'
<1> DEFINE c == Head(queue)
           S == {m \in {c.m} : ticP[m] /\ (~ticP[c.m] \/ interp # "alive")}
<1>q. queue \in Seq(Callback) /\ queue # <<>> /\ queue' = Tail(queue) /\ interp' = interp
  BY DEF Dispatch, IoInv, RefInv, MonTypes
<1>c. c \in Callback /\ queue[1] = c
  BY <1>q, HeadTail
<1>s. /\ S \in SUBSET Monitors /\ S \subseteq ToSet(list) /\ Shutdown(S, c)
  BY DispatchShutsDown DEF IoInv
<1>f. Flows(o)
  BY DEF FlowInv
<1> HIDE DEF S
<1>1. /\ \/ Done(o)' = Done(o) /\ pend'[o] = pend[o]
         \/ Done(o)' = <<>> /\ pend'[o] = <<>> /\ ~(ticP'[o] /\ interp' = "alive")
      /\ ticP'[o] /\ interp' = "alive" => ticP[o] /\ interp = "alive"
      /\ UNCHANGED <<data, pats>>
  BY <1>q, <1>s, ShutdownReads
<1>t. c.m \in Monitors /\ c.b \in Buffers \union {None}
  BY <1>c DEF Callback
<1>k. Sent(o, 1) = IF c.m = o /\ c.b # None THEN data[c.b] ELSE <<>>
  BY <1>c DEF Sent
<1>2. CASE ~ticP[c.m] \/ interp # "alive"
  <2>1. UNCHANGED histVars
    BY <1>2 DEF Dispatch
  <2>2. Keeps(o)
    BY <1>1, <2>1 DEF Keeps, histVars
  <2>3. ticP'[o] /\ interp' = "alive" => Sent(o, 1) = <<>>
    BY <1>1, <1>2, <1>k
  <2> QED  BY <1>1, <1>f, <1>q, <2>2, <2>3, FlowTakes
<1>3. CASE ticP[c.m] /\ interp = "alive"
  <2>1. Tell(c)
    BY <1>3 DEF Dispatch
  <2>2. handle[c.m] \in Handles /\ scripts[handle[c.m]] = c.m /\ c.m # None
    BY <1>3, <1>t, ScriptOf
  <2>3. told \in [Monitors -> Seq(1 .. MaxChanges)] /\ MaxChanges \in Nat
    BY DirMonitorAssumption DEF IoInv, IoTypes
  <2>4. CASE c.m # o \/ c.b = None
    <3>1. told'[o] = told[o] /\ changed' = changed /\ lost' = lost
      BY <2>1, <2>2, <2>3, <2>4 DEF Tell
    <3>2. Keeps(o)
      BY <1>1, <3>1 DEF Keeps
    <3> QED  BY <1>1, <1>f, <1>k, <1>q, <2>4, <3>2, FlowTakes
  <2>5. CASE c.m = o /\ c.b # None
    <3> DEFINE M == {i \in 1 .. Len(changed[o]) : PatternMatched(pats[o], changed[o][i])}
    <3>1. /\ told' = [told EXCEPT ![o] = told[o] \o Keep(data[c.b], M)]
          /\ UNCHANGED <<changed, lost>>
      BY <2>1, <2>2, <2>5 DEF Tell
    <3>2. \A x \in 1 .. Len(changed[o]) : x \in M <=> Wanted(o, x)
      BY WantedIs
    <3> HIDE DEF M
    <3>3. Sent(o, 1) = data[c.b]
      BY <1>k, <2>5
    <3>4. told'[o] = told[o] \o Keep(Sent(o, 1), M)
      BY <2>3, <3>1, <3>3
    <3>5. Sent(o, 1) \in Seq(1 .. MaxChanges)
      BY <1>t, <2>5, <3>3 DEF IoInv, IoTypes
    <3>6. told[o] \in Seq(Int) /\ Sent(o, 1) \in Seq(Int)
      BY <2>3, <3>5
    <3>7. S = {}
      BY <1>3 DEF S
    <3>8. Done(o)' = Done(o) /\ pend'[o] = pend[o]
      <4>1. pend'[o] = pend[o] /\ ticP'[o] /\ interp' = "alive"
        BY <1>3, <1>q, <1>s, <2>5, <3>7 DEF Shutdown
      <4> QED  BY <1>1, <4>1
    <3>9. ticP[o] /\ interp = "alive"
      BY <1>3, <2>5
    <3>10. changed'[o] = changed[o] /\ lost'[o] = lost[o] /\ pats'[o] = pats[o] /\ data' = data
      BY <1>1, <3>1
    <3> QED  BY <1>f, <1>q, <3>2, <3>4, <3>6, <3>8, <3>9, <3>10, FlowTells
  <2> QED  BY <2>4, <2>5
<1> QED  BY <1>2, <1>3

\* What is done is lost when another read writes over its status
LEMMA FlowSpoils ==
  ASSUME IoInv, NEW m \in Monitors, Flows(m), queue' = queue, data' = data, pend' = pend,
         told' = told, changed' = changed, pats' = pats, ticP' = ticP, interp' = interp,
         Done(m)' = <<>>, lost'[m] = lost[m] \union ToSet(Done(m))
  PROVE  Flows(m)'
<1>e. /\ ToSet(<<>>) = {} /\ Increasing(<<>>)
      /\ \A s : Below(<<>>, s) /\ Below(s, <<>>)
  BY EmptyHasNone
<1>w. \A x : Wanted(m, x)' <=> Wanted(m, x)
  BY DEF Wanted
<1>n. PICK N \in Nat : N = Len(queue)
  BY DEF IoInv, RefInv, MonTypes
<1>1. Stages = 0 .. N + 2 /\ Stages' = Stages /\ N + 1 \in Stages
  BY <1>n DEF Stages
<1>2. At(m, N + 1) = Done(m) /\ At(m, N + 1)' = <<>>
  <2>1. Len(queue') \in Nat /\ Len(queue') = N
    BY <1>n
  <2>2. At(m, N + 1)' = Done(m)'
    BY <2>1, PlacesNext DEF Places
  <2> QED  BY <1>n, <2>2, PlacesAre DEF Places
<1>3. ASSUME NEW k \in Stages, k # N + 1
      PROVE  At(m, k)' = At(m, k)
  <2>1. k = 0 \/ k \in 1 .. N \/ k = N + 2
    BY <1>1, <1>3
  <2>2. /\ At(m, 0)' = told'[m] /\ At(m, N + 2)' = pend'[m]
        /\ \A j \in 1 .. N : At(m, j)' = Sent(m, j)'
    BY <1>n, PlacesNext DEF Places
  <2>3. /\ At(m, 0) = told[m] /\ At(m, N + 2) = pend[m]
        /\ \A j \in 1 .. N : At(m, j) = Sent(m, j)
    BY <1>n, PlacesAre DEF Places
  <2>4. \A j \in 1 .. N : Sent(m, j)' = Sent(m, j)
    BY DEF Sent
  <2> QED  BY <2>1, <2>2, <2>3, <2>4
<1> DEFINE L == 1 .. Len(changed[m])
           D == ToSet(Done(m))
<1>4. /\ lost[m] \subseteq L /\ D \subseteq L \ lost[m]
      /\ \A k \in Stages : Increasing(At(m, k)) /\ ToSet(At(m, k)) \subseteq L \ lost[m]
      /\ \A j, k \in Stages : j < k => Below(At(m, j), At(m, k))
  BY <1>1, <1>2 DEF Flows, InOrder
<1>5. ASSUME NEW k \in Stages, k # N + 1
      PROVE  ToSet(At(m, k)) \cap D = {}
  <2>1. k < N + 1 \/ N + 1 < k
    BY <1>1, <1>5
  <2>2. Below(At(m, k), Done(m)) \/ Below(Done(m), At(m, k))
    BY <1>1, <1>2, <1>4, <2>1
  <2>3. \A x \in L : ~(x < x)
    OBVIOUS
  <2> HIDE DEF L
  <2> QED  BY <1>4, <2>2, <2>3 DEF Below
<1>6. InOrder(m)'
  <2>1. lost'[m] \subseteq L
    BY <1>4
  <2>2. ASSUME NEW k \in Stages
        PROVE  Increasing(At(m, k)') /\ ToSet(At(m, k)') \subseteq L \ lost'[m]
    <3>1. CASE k = N + 1
      BY <1>e, <1>2, <3>1
    <3>2. CASE k # N + 1
      <4>1. At(m, k)' = At(m, k) /\ ToSet(At(m, k)) \cap D = {}
        BY <1>3, <1>5, <3>2
      <4>2. Increasing(At(m, k)) /\ ToSet(At(m, k)) \subseteq L \ lost[m]
        BY <1>4
      <4> HIDE DEF L
      <4> QED  BY <4>1, <4>2
    <3> QED  BY <3>1, <3>2
  <2>3. ASSUME NEW j \in Stages, NEW k \in Stages, j < k
        PROVE  Below(At(m, j)', At(m, k)')
    BY <1>e, <1>2, <1>3, <1>4, <2>3
  <2>4. \A k \in Stages' :
           Increasing(At(m, k))' /\ (ToSet(At(m, k)) \subseteq (1 .. Len(changed[m])) \ lost[m])'
    BY <1>1, <2>2 DEF Increasing, ToSet
  <2>5. \A j, k \in Stages' : j < k => Below(At(m, j), At(m, k))'
    BY <1>1, <2>3 DEF Below, ToSet
  <2> QED  BY <2>1, <2>4, <2>5 DEF InOrder
<1>7. Covered(m)'
  <2> SUFFICES ASSUME ticP[m], interp = "alive", NEW x \in L
               PROVE  \/ x \in lost'[m] \/ ~Wanted(m, x)
                      \/ \E k \in Stages : x \in ToSet(At(m, k)')
    BY <1>w, <1>1 DEF Covered
  <2>1. x \in lost[m] \/ ~Wanted(m, x) \/ \E k \in Stages : x \in ToSet(At(m, k))
    BY DEF Flows, Covered
  <2> HIDE DEF L
  <2>2. ASSUME NEW k \in Stages, x \in ToSet(At(m, k))
        PROVE  x \in lost'[m] \/ \E j \in Stages : x \in ToSet(At(m, j)')
    BY <1>2, <1>3, <2>2
  <2> QED  BY <2>1, <2>2
<1>8. ToldAll(m)'
  BY <1>w DEF Flows, ToldAll
<1> QED  BY <1>6, <1>7, <1>8 DEF Flows

FullInv == IoInv /\ BufferInv

LEMMA FlowStep ==
  ASSUME FullInv, RefInv', FlowInv, [Next]_vars, NEW o \in Monitors
  PROVE  Flows(o)'
<1>t. IoInv /\ BufferInv /\ IoTypes /\ HandleInv /\ MonTypes /\ RefInv /\ BufTypes
  BY DEF FullInv, IoInv, RefInv, IoTypes
<1>f. Flows(o)
  BY DEF FlowInv
<1>q. queue \in Seq(Callback) /\ None \notin Buffers
  BY <1>t, DirMonitorAssumption DEF MonTypes
<1>1. ASSUME NEW m \in Monitors, PoolFires(m)
      PROVE  Flows(o)'
  BY <1>t, <1>f, <1>1, FlowQuiet DEF PoolFires, Keeps, ioVars, histVars
<1>2. ASSUME NEW m \in Monitors, PoolSends(m)
      PROVE  Flows(o)'
  <2>1. Keeps(o) /\ pend' = pend /\ data' = data
    BY <1>2 DEF PoolSends, Keeps, histVars
  <2>2. CASE /\ io[m] = "done" /\ Enqueue(m, iob[m])
             /\ iob' = [iob EXCEPT ![m] = None] /\ io' = [io EXCEPT ![m] = "none"]
    <3> DEFINE e == [m |-> m, b |-> iob[m]]
    <3>1. iob[m] # None /\ iob[m] \in Buffers
      BY <1>t, <2>2 DEF HandleInv, BufTypes
    <3>2. e \in Callback /\ queue' = Append(queue, e) /\ e.m = m /\ e.b = iob[m]
      BY <2>2, <3>1 DEF Callback, Enqueue
    <3> HIDE DEF e
    <3>3. CASE o = m
      <4>1. Done(o) = data[e.b] /\ e.b # None
        BY <2>2, <3>1, <3>2, <3>3 DEF Done
      <4>2. io'[m] = "none"
        BY <1>t, <2>2 DEF IoTypes
      <4>3. Done(o)' = <<>>
        BY <3>3, <4>2 DEF Done
      <4> QED  BY <1>f, <1>q, <2>1, <3>2, <3>3, <4>1, <4>3, FlowSends
    <3>4. CASE o # m
      <4>1. io'[o] = io[o] /\ iob'[o] = iob[o]
        BY <1>t, <2>2, <3>4 DEF IoTypes, BufTypes
      <4>2. Done(o)' = Done(o)
        BY <2>1, <4>1, DoneStays
      <4> QED  BY <1>f, <1>q, <2>1, <3>2, <3>4, <4>2, FlowSends
    <3> QED  BY <3>3, <3>4
  <2>3. CASE /\ io[m] = "failed" /\ io' = [io EXCEPT ![m] = "none"]
             /\ UNCHANGED <<queue, iob>>
    <3>1. \/ io'[o] = io[o] /\ iob'[o] = iob[o]
          \/ io'[o] # "done" /\ io[o] # "done"
      BY <1>t, <2>3 DEF IoTypes
    <3> QED  BY <1>t, <1>f, <2>1, <2>3, <3>1, FlowQuiet
  <2> QED  BY <1>2, <2>2, <2>3 DEF PoolSends
<1>3. ASSUME NEW m \in Monitors, PoolRereads(m)
      PROVE  Flows(o)'
  <2>1. UNCHANGED histVars /\ queue' = queue /\ io[m] = "none" /\ \A a \in Monitors : Keeps(a)
    BY <1>t, <1>3 DEF PoolRereads, HandleInv, Keeps, histVars
  <2>2. CASE InitiateRead(m)
    BY <1>t, <2>1, <2>2, FlowRead
  <2>3. CASE UNCHANGED <<event, iob, ioVars>>
    BY <1>t, <1>f, <2>1, <2>3, FlowQuiet DEF ioVars
  <2> QED  BY <1>3, <2>2, <2>3 DEF PoolRereads
<1>4. ASSUME NEW m \in Monitors, PoolErrs(m)
      PROVE  Flows(o)'
  <2> DEFINE e == [m |-> m, b |-> None]
  <2>1. Keeps(o) /\ pend' = pend /\ data' = data /\ io' = io
    BY <1>4 DEF PoolErrs, Keeps
  <2>2. e \in Callback /\ queue' = Append(queue, e) /\ e.b = None
    BY <1>4 DEF PoolErrs, Callback, Enqueue
  <2> HIDE DEF e
  <2>3. io[m] = "none"
    BY <1>t, <1>4 DEF PoolErrs, HandleInv
  <2>4. o # m => iob'[o] = iob[o]
    BY <1>t, <1>4 DEF PoolErrs, BufTypes
  <2>5. Done(o)' = Done(o)
    BY <2>1, <2>3, <2>4, DoneStays
  <2> QED  BY <1>f, <1>q, <2>1, <2>2, <2>5, FlowSends
<1>5. ASSUME NEW m \in Monitors, ReadFails(m)
      PROVE  Flows(o)'
  <2>1. Keeps(o) /\ pend' = pend /\ data' = data /\ iob' = iob /\ queue' = queue
    BY <1>5 DEF ReadFails, Keeps, histVars
  <2>2. \/ io'[o] = io[o]
        \/ io'[o] # "done" /\ io[o] # "done"
    BY <1>t, <1>5 DEF ReadFails, IoTypes
  <2> QED  BY <1>t, <1>f, <2>1, <2>2, FlowQuiet
<1>6. ASSUME NEW m \in Monitors, RegisterFails(m) \/ RegisterRefused(m)
      PROVE  Flows(o)'
  <2>1. Keeps(o) /\ pend' = pend /\ data' = data /\ io' = io /\ queue' = queue
    BY <1>6 DEF RegisterFails, RegisterRefused, Keeps, histVars, ioVars
  <2>2. o # m => iob'[o] = iob[o]
    BY <1>t, <1>6 DEF RegisterFails, RegisterRefused, BufTypes
  <2>3. io[m] = "none"
    <3>1. life[m] = "none"
      BY <1>6 DEF RegisterFails, RegisterRefused
    <3>2. ~pooled[m]
      BY <1>t, <3>1, HolderLives
    <3> QED  BY <1>t, <3>2 DEF HandleInv
  <2> QED  BY <1>t, <1>f, <2>1, <2>2, <2>3, FlowQuiet
<1>7. ASSUME NEW m \in Monitors, NEW n \in Names, Change(m, n)
      PROVE  Flows(o)'
  <2>1. CASE o = m
    BY <1>t, <1>7, <2>1, FlowChange
  <2>2. CASE o # m
    <3>1. Keeps(o) /\ pend'[o] = pend[o] /\ queue' = queue
      BY <1>t, <1>7, <2>2 DEF Change, Keeps, IoTypes
    <3>2. io'[o] = io[o] /\ iob'[o] = iob[o]
      BY <1>t, <1>7, <2>2 DEF Change, IoTypes
    <3>3. CASE data' = data
      BY <1>t, <1>f, <3>1, <3>2, <3>3, FlowQuiet
    <3>4. CASE io[m] = "pending"
               /\ data' = [data EXCEPT ![iob[m]] = <<Len(changed[m]) + 1>>]
      <4>1. iob[m] \in Buffers
        BY <1>t, <3>4 DEF HandleInv, BufTypes
      <4>2. Done(o)' = Done(o)
        BY <1>t, <2>2, <3>2, <3>4, <4>1, WriteSeen
      <4>3. \A k \in 1 .. Len(queue) : Sent(o, k)' = Sent(o, k)
        BY <1>t, <3>1, <3>4, <4>1, WriteSeen, SentStays
      <4>4. Len(queue) \in Nat /\ Reads(o)
        BY <1>q, <3>1, <4>2 DEF Reads
      <4> QED  BY <1>f, <3>1, <4>3, <4>4, FlowStays
    <3> QED  BY <1>7, <3>3, <3>4 DEF Change
  <2> QED  BY <2>1, <2>2
<1>8. ASSUME NEW m \in Monitors, NEW h \in Handles, NEW p \in PatternLists,
             Register(m, h, p)
      PROVE  Flows(o)'
  <2>1. UNCHANGED histVars /\ queue' = queue /\ InitiateRead(m)
    BY <1>8 DEF Register
  <2>2. life[m] = "none" /\ changed[m] = <<>>
    BY <1>8 DEF Register, FlowInv
  <2>3. io[m] = "none"
    <3>1. ~pooled[m]
      BY <1>t, <2>2, HolderLives
    <3> QED  BY <1>t, <3>1 DEF HandleInv
  <2>4. o # m => Keeps(o)
    BY <1>t, <1>8 DEF Register, Keeps, histVars, IoTypes, MonTypes
  <2> QED  BY <1>t, <2>1, <2>2, <2>3, <2>4, FlowRead
<1>9. ASSUME NEW h \in Handles, Cancel(h)
      PROVE  Flows(o)'
  <2>1. PICK m \in ToSet(list) : Shutdown({m}, NoCallback)
    BY <1>9 DEF Cancel
  <2>2. {m} \in SUBSET Monitors /\ {m} \subseteq ToSet(list)
    BY <1>t DEF MonTypes, ToSet
  <2>3. queue' = queue /\ UNCHANGED histVars /\ interp' = interp
    BY <1>9 DEF Cancel
  <2> QED  BY <1>t, <1>f, <2>1, <2>2, <2>3, FlowShutdown
<1>10. CASE Dispatch
  BY <1>t, <1>10, FlowDispatch
<1>11. CASE InterpDelete
  BY <1>t, <1>f, <1>11, FlowQuiet DEF InterpDelete, Keeps, dmcVars, ioVars, histVars
<1>12. CASE StorageCleanup
  <2> DEFINE S == ToSet(SubSeq(list, 1, count))
  <2>1. S \subseteq ToSet(list) /\ S \in SUBSET Monitors
    BY <1>t, <1>12, CleanupShutsDown
  <2>2. interp' = "gone" /\ Shutdown(S, NoCallback) /\ queue' = queue /\ UNCHANGED histVars
    BY <1>12 DEF StorageCleanup
  <2> HIDE DEF S
  <2> QED  BY <1>t, <1>f, <2>1, <2>2, FlowShutdown
<1>13. CASE UNCHANGED vars
  BY <1>t, <1>f, <1>13, FlowQuiet DEF vars, Keeps, dmcVars, ioVars, histVars
<1>14. ASSUME NEW m \in Monitors, LateEnds(m)
       PROVE  Flows(o)'
  <2>1. /\ queue' = queue /\ data' = data /\ pend' = pend /\ iob' = iob
        /\ told' = told /\ changed' = changed /\ pats' = pats /\ ticP' = ticP
        /\ interp' = interp
    BY <1>14 DEF LateEnds, dmcVars
  <2>2. CASE io'[o] = io[o] /\ lost'[o] = lost[o]
    BY <1>t, <1>f, <2>1, <2>2, FlowQuiet DEF Keeps
  <2>3. CASE /\ io[o] = "done" /\ io'[o] = "failed"
             /\ lost'[o] = lost[o] \union ToSet(data[iob[o]])
    <3>1. Done(o)' = <<>> /\ Done(o) = data[iob[o]]
      BY <2>3 DEF Done
    <3> QED  BY <1>t, <1>f, <2>1, <2>3, <3>1, FlowSpoils
  <2> QED  BY <1>t, <1>14, <2>2, <2>3, LateEnd
<1> QED  BY <1>1, <1>2, <1>3, <1>4, <1>5, <1>6, <1>7, <1>8, <1>9, <1>10, <1>11, <1>12,
            <1>13, <1>14 DEF Next

LEMMA FreshStep ==
  ASSUME FullInv, FlowInv, [Next]_vars, NEW o \in Monitors, life'[o] = "none"
  PROVE  changed'[o] = <<>>
<1>t. IoInv /\ IoTypes /\ HandleInv /\ MonTypes /\ RefInv
  BY DEF FullInv, IoInv, RefInv
<1>f. life[o] = "none" => changed[o] = <<>>
  BY DEF FlowInv
<1>1. ASSUME NEW m \in Monitors, NEW n \in Names, Change(m, n)
      PROVE  changed'[o] = <<>>
  <2>1. handle[m] # None /\ life' = life
    BY <1>1 DEF Change
  <2>2. life[m] = "live"
    BY <1>t, <2>1, HolderLives DEF HandleInv
  <2>3. o # m
    BY <2>1, <2>2
  <2> QED  BY <1>t, <1>1, <1>f, <2>1, <2>3 DEF Change, IoTypes
<1>2. ASSUME NEW S, NEW c, Shutdown(S, c)
      PROVE  life[o] = "none"
  BY <1>2 DEF Shutdown, Release
<1>3. ASSUME NEW m \in Monitors,
             \/ PoolFires(m) \/ PoolSends(m) \/ PoolRereads(m) \/ PoolErrs(m)
             \/ ReadFails(m) \/ LateEnds(m)
      PROVE  changed'[o] = <<>>
  BY <1>3, <1>f DEF PoolFires, PoolSends, PoolRereads, PoolErrs, ReadFails, LateEnds,
                    histVars, dmcVars
<1>4. ASSUME NEW m \in Monitors, NEW x \in {"live", "leaked"},
             life' = [life EXCEPT ![m] = x], changed' = changed
      PROVE  changed'[o] = <<>>
  BY <1>t, <1>f, <1>4 DEF MonTypes
<1>5. ASSUME NEW m \in Monitors, RegisterFails(m) \/ RegisterRefused(m)
      PROVE  changed'[o] = <<>>
  BY <1>4, <1>5 DEF RegisterFails, RegisterRefused, histVars
<1>6. ASSUME NEW m \in Monitors, NEW h \in Handles, NEW p \in PatternLists,
             Register(m, h, p)
      PROVE  changed'[o] = <<>>
  BY <1>4, <1>6 DEF Register, histVars
<1>7. CASE (\E h \in Handles : Cancel(h)) \/ StorageCleanup
  BY <1>2, <1>7, <1>f DEF Cancel, StorageCleanup, histVars
<1>8. CASE Dispatch
  <2>1. life[o] = "none"
    BY <1>2, <1>8 DEF Dispatch
  <2>2. changed' = changed
    BY <1>8 DEF Dispatch, Tell, histVars
  <2> QED  BY <1>f, <2>1, <2>2
<1>9. CASE InterpDelete \/ UNCHANGED vars
  BY <1>9, <1>f DEF InterpDelete, vars, dmcVars, histVars
<1> QED  BY <1>1, <1>3, <1>5, <1>6, <1>7, <1>8, <1>9 DEF Next

LEMMA FlowInvInit == Init => FlowInv
<1> SUFFICES ASSUME Init, NEW m \in Monitors PROVE Flows(m) /\ changed[m] = <<>>
  BY DEF FlowInv
<1>e. /\ ToSet(<<>>) = {} /\ Increasing(<<>>)
      /\ \A s : Below(<<>>, s) /\ Below(s, <<>>)
  BY EmptyHasNone
<1>1. /\ changed[m] = <<>> /\ told[m] = <<>> /\ pend[m] = <<>> /\ lost[m] = {}
      /\ io[m] = "none" /\ queue = <<>>
  BY DEF Init
<1>2. Len(queue) = 0 /\ 1 .. Len(changed[m]) = {}
  BY <1>1
<1>3. \A k \in Stages : At(m, k) = <<>>
  <2>1. Done(m) = <<>>
    BY <1>1 DEF Done
  <2>2. At(m, 0) = <<>> /\ At(m, 1) = <<>> /\ At(m, 2) = <<>>
    BY <1>1, <1>2, <2>1, PlacesAre DEF Places
  <2>3. Stages = 0 .. 2
    BY <1>2 DEF Stages
  <2> QED  BY <2>2, <2>3
<1>4. InOrder(m)
  BY <1>1, <1>2, <1>3, <1>e DEF InOrder
<1>5. Covered(m) /\ ToldAll(m)
  BY <1>1, <1>2, <1>e DEF Covered, ToldAll
<1> QED  BY <1>1, <1>4, <1>5 DEF Flows

LEMMA InOrderTells ==
  ASSUME IoInv, FlowInv
  PROVE  ToldInOrder
<1> SUFFICES ASSUME NEW m \in Monitors
             PROVE  LET all == [i \in 1 .. Len(changed[m]) |-> i]
                    IN IsPrefix(told[m],
                                Keep(all, {i \in ToSet(all) : Wanted(m, i)} \ lost[m]))
  BY DEF ToldInOrder
<1> DEFINE all == [i \in 1 .. Len(changed[m]) |-> i]
           W == {i \in ToSet(all) : Wanted(m, i)} \ lost[m]
           u == Keep(all, W)
           t == told[m]
           L == 1 .. Len(changed[m])
<1>1. Flows(m)
  BY DEF FlowInv
<1>2. changed[m] \in Seq(Names) /\ told[m] \in Seq(1 .. MaxChanges) /\ MaxChanges \in Nat
  BY DirMonitorAssumption DEF IoInv, IoTypes
<1>3. t \in Seq(Int)
  BY <1>2
<1>4. all \in Seq(Int) /\ Len(all) = Len(changed[m]) /\ \A i \in L : all[i] = i
  BY <1>2
<1>5. Increasing(all) /\ ToSet(all) = L
  BY <1>4 DEF Increasing, ToSet
<1> HIDE DEF all
<1>6. u \in Seq(Int) /\ Increasing(u) /\ \A x : x \in ToSet(u) <=> x \in ToSet(all) /\ x \in W
  BY <1>4, <1>5, KeepType, KeepIncreasing, KeepElements
<1>7. \A x : x \in ToSet(u) <=> x \in L /\ Wanted(m, x) /\ x \notin lost[m]
  BY <1>5, <1>6
<1>8. At(m, 0) = t /\ 0 \in Stages
  <2>1. Len(queue) \in Nat
    BY DEF IoInv, RefInv, MonTypes
  <2> QED  BY <2>1, PlacesAre DEF Places, Stages
<1>9. Increasing(t) /\ ToSet(t) \subseteq L \ lost[m]
  BY <1>1, <1>8 DEF Flows, InOrder
<1>10. /\ \A x \in ToSet(t) : Wanted(m, x)
       /\ \A x \in L, y \in ToSet(t) :
             Wanted(m, x) /\ x \notin lost[m] /\ x <= y => x \in ToSet(t)
  BY <1>1 DEF Flows, ToldAll
<1> HIDE DEF u, W, L, t
<1>11. ASSUME NEW i \in 1 .. Len(t)
       PROVE  \E k \in 1 .. Len(u) : u[k] = t[i]
  <2>1. t[i] \in ToSet(t)
    BY <1>3, Elements
  <2>2. t[i] \in ToSet(u)
    BY <1>7, <1>9, <1>10, <2>1
  <2> QED  BY <1>6, <2>2, Elements
<1>12. ASSUME NEW k \in 1 .. Len(u), NEW i \in 1 .. Len(t), u[k] <= t[i]
       PROVE  \E l \in 1 .. Len(t) : t[l] = u[k]
  <2>1. t[i] \in ToSet(t) /\ u[k] \in ToSet(u)
    BY <1>3, <1>6, Elements
  <2>2. u[k] \in ToSet(t)
    BY <1>7, <1>10, <1>12, <2>1
  <2> QED  BY <1>3, <2>2, Elements
<1>13. IsPrefix(t, u)
  BY <1>3, <1>6, <1>9, <1>11, <1>12, IncreasingPrefix
<1> QED  BY <1>13 DEF t, u, W, all

\* What happens between the kernel, the worker and the script keeps the changes in the
\* order in which they happened, repeats none and leaves out none that was wanted.
THEOREM ToldInOrderAlways == Spec => []ToldInOrder
<1>1. Init => FullInv
  BY IoInvInit DEF Init, FullInv, BufferInv
<1>2. FullInv /\ [Next]_vars => FullInv'
  BY IoInvStep, BufferInvStep DEF FullInv
<1>3. FullInv /\ FlowInv /\ [Next]_vars => FlowInv'
  <2> SUFFICES ASSUME FullInv, FlowInv, [Next]_vars PROVE FlowInv'
    OBVIOUS
  <2>1. RefInv'
    BY IoInvStep DEF FullInv, IoInv
  <2>2. ASSUME NEW o \in Monitors
        PROVE  Flows(o)' /\ (life'[o] = "none" => changed'[o] = <<>>)
    BY <2>1, FlowStep, FreshStep
  <2> QED  BY <2>2 DEF FlowInv
<1>4. FullInv /\ FlowInv => ToldInOrder
  BY InOrderTells DEF FullInv
<1> QED  BY <1>1, <1>2, <1>3, <1>4, FlowInvInit, PTL DEF Spec
=============================================================================
