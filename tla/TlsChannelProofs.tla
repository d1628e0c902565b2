--------------------------- MODULE TlsChannelProofs ---------------------------
(***************************************************************************)
(* Proofs about TlsChannel: its types, the acceptance of a connection to a *)
(* listener, and that both directions are streams to their end.  The       *)
(* invariant speaks of the record of the channel together with those of    *)
(* the peer and the application, so that each of the operators that the    *)
(* actions are put together from has a lemma of its own.                   *)
(***************************************************************************)
EXTENDS TlsChannel, FiniteSetTheorems, SequenceTheorems, WellFoundedInduction, TLAPS

-----------------------------------------------------------------------------
(* Induction, and what is read of units. *)

LEMMA LeastNumber ==
  ASSUME NEW S \in SUBSET Nat, S # {}
  PROVE  \E n \in S : \A k \in S : n <= k
<1>1. PICK n \in S : \A k \in S : ~(<<k, n>> \in OpToRel(<, Nat))
  BY NatLessThanWellFounded, WFMin
<1>2. ASSUME NEW k \in S
      PROVE  n <= k
  <2>1. ~(k < n)
    BY <1>1, <1>2 DEF OpToRel
  <2> QED  BY <2>1
<1> QED  BY <1>2

\* Induction up to a bound, for the members of a set
LEMMA UpTo ==
  ASSUME NEW N \in Nat, NEW G, 0 \in G, \A n \in 1 .. N : n - 1 \in G => n \in G
  PROVE  \A n \in 0 .. N : n \in G
<1> DEFINE Bad == (0 .. N) \ G
<1>1. SUFFICES ASSUME Bad # {} PROVE FALSE
  OBVIOUS
<1>2. Bad \in SUBSET Nat
  OBVIOUS
<1>3. PICK n \in Bad : \A k \in Bad : n <= k
  <2> HIDE DEF Bad
  <2> QED  BY <1>1, <1>2, LeastNumber
<1>4. n # 0
  BY <1>3
<1>5. n \in 1 .. N /\ n - 1 \in G
  BY <1>3, <1>4
<1> QED  BY <1>3, <1>5

Units == [kind : {"flight", "alert", "part", "data"}, n : Int]

\* What has been read up to the k-th unit, from what has been read before it
Next1(r, s, k) == IF IsData(s[k]) THEN Append(r, s[k].n) ELSE r

IsRead(f, s) == f[0] = <<>> /\ \A k \in 1 .. Len(s) : f[k] = Next1(f[k - 1], s, k)

LEMMA ReadExists ==
  ASSUME NEW s \in Seq(Units)
  PROVE  \E f \in [0 .. Len(s) -> Seq(Int)] : IsRead(f, s)
<1> DEFINE Goes(n, f) ==
        /\ f \in [0 .. n -> Seq(Int)] /\ f[0] = <<>>
        /\ \A k \in 1 .. n : f[k] = Next1(f[k - 1], s, k)
           G == {n \in 0 .. Len(s) : \E f : Goes(n, f)}
<1>1. 0 \in G
  <2>1. Goes(0, [k \in 0 .. 0 |-> <<>>])
    OBVIOUS
  <2> HIDE DEF Goes
  <2> QED  BY <2>1
<1>2. ASSUME NEW n \in 1 .. Len(s), n - 1 \in G
      PROVE  n \in G
  <2>1. PICK f : Goes(n - 1, f)
    BY <1>2
  <2> DEFINE x == Next1(f[n - 1], s, n)
             g == [k \in 0 .. n |-> IF k = n THEN x ELSE f[k]]
  <2>2. f[n - 1] \in Seq(Int) /\ x \in Seq(Int)
    <3>1. f[n - 1] \in Seq(Int) /\ s[n] \in Units
      BY <2>1
    <3>2. s[n].n \in Int
      BY <3>1 DEF Units
    <3> QED  BY <3>1, <3>2 DEF Next1
  <2> HIDE DEF x
  <2>3. g \in [0 .. n -> Seq(Int)] /\ g[0] = <<>>
    BY <2>1, <2>2
  <2>4. ASSUME NEW k \in 1 .. n
        PROVE  g[k] = Next1(g[k - 1], s, k)
    <3>1. CASE k = n
      BY <2>1, <3>1 DEF x
    <3>2. CASE k # n
      BY <2>1, <3>2
    <3> QED  BY <3>1, <3>2
  <2>5. Goes(n, g)
    BY <2>3, <2>4
  <2> HIDE DEF Goes
  <2> QED  BY <2>5
<1> HIDE DEF G
<1>3. Len(s) \in Nat /\ Len(s) \in 0 .. Len(s)
  OBVIOUS
<1>4. \A n \in 0 .. Len(s) : n \in G
  BY <1>1, <1>2, <1>3, UpTo
<1> QED  BY <1>3, <1>4 DEF G, IsRead

LEMMA NumbersIs ==
  ASSUME NEW s \in Seq(Units)
  PROVE  \E f \in [0 .. Len(s) -> Seq(Int)] : IsRead(f, s) /\ Numbers(s) = f[Len(s)]
<1> DEFINE D(f) == [k \in 0 .. Len(s) |->
                      IF k = 0 THEN <<>>
                      ELSE IF IsData(s[k]) THEN Append(f[k - 1], s[k].n) ELSE f[k - 1]]
           read == CHOOSE f : f = D(f)
<1>1. PICK f \in [0 .. Len(s) -> Seq(Int)] : IsRead(f, s)
  BY ReadExists
<1>2. f = D(f)
  <2>1. ASSUME NEW n \in 0 .. Len(s)
        PROVE  f[n] = D(f)[n]
    <3>1. CASE n = 0
      BY <1>1, <3>1 DEF IsRead
    <3>2. CASE n # 0
      <4>1. n \in 1 .. Len(s)
        BY <3>2
      <4> QED  BY <1>1, <3>2, <4>1 DEF IsRead, Next1
    <3> QED  BY <3>1, <3>2
  <2> QED  BY <2>1
<1>3. read = D(read)
  BY <1>2
<1>4. Numbers(s) = read[Len(s)]
  BY DEF Numbers
<1> HIDE DEF read
<1>5. \A n \in 0 .. Len(s) : read[n] = D(read)[n]
  BY <1>3
<1>6. IsRead(read, s)
  BY <1>5 DEF IsRead, Next1
<1> DEFINE G == {n \in 0 .. Len(s) : read[n] = f[n]}
<1>7. 0 \in G /\ \A n \in 1 .. Len(s) : n - 1 \in G => n \in G
  BY <1>1, <1>6 DEF IsRead
<1> HIDE DEF G
<1>8. Len(s) \in Nat /\ Len(s) \in 0 .. Len(s)
  OBVIOUS
<1>9. \A n \in 0 .. Len(s) : n \in G
  BY <1>7, <1>8, UpTo
<1> QED  BY <1>1, <1>4, <1>8, <1>9 DEF G

LEMMA NumbersEmpty == Numbers(<<>>) = <<>>
<1>1. <<>> \in Seq(Units) /\ Len(<<>>) = 0
  OBVIOUS
<1>2. PICK f \in [0 .. Len(<<>>) -> Seq(Int)] : IsRead(f, <<>>) /\ Numbers(<<>>) = f[Len(<<>>)]
  BY <1>1, NumbersIs
<1> QED  BY <1>1, <1>2 DEF IsRead

LEMMA NumbersType ==
  ASSUME NEW s \in Seq(Units)
  PROVE  Numbers(s) \in Seq(Int)
  BY NumbersIs

\* Data adds its number, anything else nothing
LEMMA NumbersAppend ==
  ASSUME NEW s \in Seq(Units), NEW u \in Units
  PROVE  Numbers(Append(s, u)) = IF IsData(u) THEN Append(Numbers(s), u.n) ELSE Numbers(s)
<1> DEFINE t == Append(s, u)
           N == Len(s)
<1>1. /\ t \in Seq(Units) /\ N \in Nat /\ Len(t) = N + 1 /\ t[N + 1] = u
      /\ \A k \in 1 .. N : t[k] = s[k]
  OBVIOUS
<1>2. PICK f \in [0 .. N -> Seq(Int)] : IsRead(f, s) /\ Numbers(s) = f[N]
  BY NumbersIs
<1> HIDE DEF t
<1>3. PICK g \in [0 .. N + 1 -> Seq(Int)] : IsRead(g, t) /\ Numbers(t) = g[N + 1]
  BY <1>1, NumbersIs
<1> HIDE DEF N
<1> DEFINE G == {n \in 0 .. N : g[n] = f[n]}
<1>4. 0 \in G
  BY <1>1, <1>2, <1>3 DEF IsRead
<1>5. ASSUME NEW n \in 1 .. N, n - 1 \in G
      PROVE  n \in G
  <2>1. f[n] = Next1(f[n - 1], s, n)
    BY <1>2 DEF IsRead, N
  <2>2. n \in 1 .. Len(t)
    BY <1>1
  <2>3. g[n] = Next1(g[n - 1], t, n)
    BY <1>3, <2>2 DEF IsRead
  <2>4. t[n] = s[n] /\ g[n - 1] = f[n - 1]
    BY <1>1, <1>5
  <2> QED  BY <2>1, <2>3, <2>4 DEF Next1
<1> HIDE DEF G
<1>6. \A n \in 0 .. N : n \in G
  BY <1>1, <1>4, <1>5, UpTo
<1>7. g[N] = f[N]
  BY <1>1, <1>6 DEF G
<1>8. g[N + 1] = Next1(g[N], t, N + 1)
  <2>1. N + 1 \in 1 .. Len(t) /\ (N + 1) - 1 = N
    BY <1>1
  <2> QED  BY <1>3, <2>1 DEF IsRead
<1> QED  BY <1>1, <1>2, <1>3, <1>7, <1>8 DEF Next1, t

-----------------------------------------------------------------------------
(* Flights among units, and runs of numbers. *)

LEMMA AppendElements ==
  ASSUME NEW A, NEW s \in Seq(A), NEW e \in A, NEW x
  PROVE  x \in ToSet(Append(s, e)) <=> x \in ToSet(s) \/ x = e
<1> DEFINE t == Append(s, e)
<1>1. /\ t \in Seq(A) /\ Len(t) = Len(s) + 1 /\ t[Len(s) + 1] = e
      /\ \A k \in 1 .. Len(s) : t[k] = s[k]
  OBVIOUS
<1> HIDE DEF t
<1>2. (\E k \in 1 .. Len(t) : t[k] = x) <=> x = e \/ \E k \in 1 .. Len(s) : s[k] = x
  <2>1. ASSUME NEW k \in 1 .. Len(t), t[k] = x
        PROVE  x = e \/ \E l \in 1 .. Len(s) : s[l] = x
    BY <1>1, <2>1
  <2>2. ASSUME NEW k \in 1 .. Len(s), s[k] = x
        PROVE  \E l \in 1 .. Len(t) : t[l] = x
    <3>1. k \in 1 .. Len(t) /\ t[k] = x
      BY <1>1, <2>2
    <3> QED  BY <3>1
  <2>3. x = e => \E l \in 1 .. Len(t) : t[l] = x
    <3>1. Len(s) + 1 \in 1 .. Len(t)
      BY <1>1
    <3> QED  BY <1>1, <3>1
  <2> QED  BY <2>1, <2>2, <2>3
<1>3. /\ x \in ToSet(s) <=> \E k \in 1 .. Len(s) : s[k] = x
      /\ x \in ToSet(t) <=> \E k \in 1 .. Len(t) : t[k] = x
  BY <1>1 DEF ToSet
<1> QED  BY <1>2, <1>3 DEF t

LEMMA FlightsFinite ==
  ASSUME NEW s \in Seq(Units)
  PROVE  IsFiniteSet(Flights(s)) /\ Cardinality(Flights(s)) \in Nat
<1>1. IsFiniteSet(1 .. Len(s)) /\ Flights(s) \subseteq 1 .. Len(s)
  BY FS_Interval DEF Flights
<1> QED  BY <1>1, FS_Subset, FS_CardinalityType

LEMMA FlightsEmpty == Cardinality(Flights(<<>>)) = 0
<1>1. Flights(<<>>) = {}
  BY DEF Flights
<1> QED  BY <1>1, FS_EmptySet

LEMMA FlightsAppend ==
  ASSUME NEW s \in Seq(Units), NEW u \in Units
  PROVE  Cardinality(Flights(Append(s, u))) =
            Cardinality(Flights(s)) + IF u = Flight THEN 1 ELSE 0
<1> DEFINE t == Append(s, u)
           N == Len(s)
<1>1. /\ N \in Nat /\ Len(t) = N + 1 /\ t[N + 1] = u
      /\ \A k \in 1 .. N : t[k] = s[k]
  OBVIOUS
<1> HIDE DEF t, N
<1>2. \A k : k \in 1 .. N + 1 <=> k \in 1 .. N \/ k = N + 1
  BY <1>1
<1>3. N + 1 \notin Flights(s)
  BY <1>1 DEF Flights, N
<1>4. IsFiniteSet(Flights(s)) /\ Cardinality(Flights(s)) \in Nat
  BY FlightsFinite
<1>5. CASE u = Flight
  <2>1. Flights(t) = Flights(s) \cup {N + 1}
    BY <1>1, <1>2, <1>5 DEF Flights, N
  <2> QED  BY <1>3, <1>4, <1>5, <2>1, FS_AddElement DEF t
<1>6. CASE u # Flight
  <2>1. Flights(t) = Flights(s)
    BY <1>1, <1>2, <1>6 DEF Flights, N
  <2> QED  BY <1>4, <1>6, <2>1 DEF t
<1> QED  BY <1>5, <1>6

LEMMA UnitTypes ==
  /\ Flight \in Units /\ Alert \in Units /\ Part \in Units
  /\ \A n \in Int : Unit("data", n) \in Units
  /\ ~IsData(Flight) /\ ~IsData(Alert) /\ ~IsData(Part)
  /\ \A n \in Int : IsData(Unit("data", n)) /\ Unit("data", n).n = n
  /\ Flight # Alert /\ Flight # Part /\ Alert # Part
  /\ \A n \in Int : Unit("data", n) # Flight /\ Unit("data", n) # Alert
  BY DEF Flight, Alert, Part, Unit, Units, IsData

\* What has come of a unit is neither data nor a flight
LEMMA WholeKeeps ==
  ASSUME NEW s \in Seq(Units)
  PROVE  /\ Whole(s) \in Seq(Units) /\ Numbers(Whole(s)) = Numbers(s)
         /\ Cardinality(Flights(Whole(s))) = Cardinality(Flights(s))
         /\ Alert \in ToSet(Whole(s)) => Alert \in ToSet(s)
<1>1. CASE ~(s # <<>> /\ Last(s) = Part)
  <2>1. Whole(s) = s
    BY <1>1 DEF Whole
  <2> QED  BY <2>1
<1>2. CASE s # <<>> /\ Last(s) = Part
  <2> DEFINE f == Front(s)
  <2>1. Whole(s) = f
    BY <1>2 DEF Whole
  <2>2. Len(s) \in Nat /\ Len(s) # 0 /\ Len(s) - 1 \in Nat
    BY <1>2
  <2>3. f \in Seq(Units) /\ s = Append(f, Part)
    <3>1. f = SubSeq(s, 1, Len(s) - 1)
      BY DEF Front
    <3>2. s[Len(s)] = Part
      BY <1>2 DEF Last
    <3>t. \A i \in 1 .. Len(s) - 1 : s[i] \in Units
      BY <2>2
    <3>a. f \in Seq(Units) /\ Len(f) = Len(s) - 1
      <4>1. f \in Seq(Units)
        BY <2>2, <3>1, <3>t, SubSeqProperties
      <4> DEFINE n == Len(s) - 1
      <4>n. n \in Nat
        BY <2>2
      <4> HIDE DEF n
      <4>2. Len(SubSeq(s, 1, n)) = IF 1 <= n THEN n - 1 + 1 ELSE 0
        <5>1. \A i \in 1 .. n : s[i] \in Units
          BY <3>t DEF n
        <5> QED  BY <4>n, <5>1, SubSeqProperties
      <4>3. Len(SubSeq(s, 1, n)) = n
        BY <4>n, <4>2
      <4>4. Len(f) = Len(s) - 1
        BY <3>1, <4>3 DEF n
      <4> QED  BY <4>1, <4>4
    <3>b. \A k \in 1 .. Len(s) - 1 : f[k] = s[k]
      BY <2>2, <3>1, SubSeqProperties
    <3>3. f \in Seq(Units) /\ Len(f) = Len(s) - 1 /\ \A k \in 1 .. Len(f) : f[k] = s[k]
      BY <3>a, <3>b
    <3> DEFINE t == Append(f, Part)
    <3> HIDE DEF f
    <3>4. t \in Seq(Units) /\ Len(t) = Len(s)
      BY <2>2, <3>3, UnitTypes
    <3>5. \A k \in 1 .. Len(t) : t[k] = s[k]
      BY <2>2, <3>2, <3>3
    <3> HIDE DEF t
    <3>6. t = s
      BY <3>4, <3>5, SeqEqual
    <3> QED  BY <3>3, <3>6 DEF t
  <2> HIDE DEF f
  <2>4. Numbers(s) = Numbers(f)
    BY <2>3, NumbersAppend, UnitTypes
  <2>5. Cardinality(Flights(s)) = Cardinality(Flights(f))
    BY <2>3, FlightsAppend, FlightsFinite, UnitTypes
  <2>6. Alert \in ToSet(f) => Alert \in ToSet(s)
    BY <2>3, AppendElements, UnitTypes
  <2> QED  BY <2>1, <2>3, <2>4, <2>5, <2>6
<1> QED  BY <1>1, <1>2

\* s goes on after n
IsRun(s, n) == \A i \in 1 .. Len(s) : s[i] = n + i

LEMMA RunEmpty == \A n : IsRun(<<>>, n)
  BY DEF IsRun

LEMMA RunAppend ==
  ASSUME NEW s \in Seq(Int), NEW n \in Int, IsRun(s, n)
  PROVE  IsRun(Append(s, n + Len(s) + 1), n)
<1> DEFINE t == Append(s, n + Len(s) + 1)
<1>1. /\ Len(t) = Len(s) + 1 /\ Len(s) \in Nat /\ t[Len(s) + 1] = n + Len(s) + 1
      /\ \A k \in 1 .. Len(s) : t[k] = s[k]
  OBVIOUS
<1> HIDE DEF t
<1>2. IsRun(t, n)
  BY <1>1 DEF IsRun
<1> QED  BY <1>2 DEF t

LEMMA RunConcat ==
  ASSUME NEW s \in Seq(Int), NEW t \in Seq(Int), NEW n \in Int,
         IsRun(s, n), IsRun(t, n + Len(s))
  PROVE  /\ s \o t \in Seq(Int) /\ Len(s \o t) = Len(s) + Len(t) /\ IsRun(s \o t, n)
<1> DEFINE v == s \o t
<1>1. /\ v \in Seq(Int) /\ Len(v) = Len(s) + Len(t) /\ Len(s) \in Nat /\ Len(t) \in Nat
      /\ \A i \in 1 .. Len(s) : v[i] = s[i]
      /\ \A i \in 1 .. Len(t) : v[Len(s) + i] = t[i]
  BY ConcatProperties
<1> HIDE DEF v
<1>2. ASSUME NEW i \in 1 .. Len(v)
      PROVE  v[i] = n + i
  <2>1. CASE i <= Len(s)
    BY <1>1, <2>1 DEF IsRun
  <2>2. CASE i > Len(s)
    <3>1. i - Len(s) \in 1 .. Len(t) /\ i = Len(s) + (i - Len(s))
      BY <1>1, <2>2
    <3>2. v[i] = t[i - Len(s)] /\ t[i - Len(s)] = n + Len(s) + (i - Len(s))
      BY <1>1, <3>1 DEF IsRun
    <3> QED  BY <1>1, <3>2
  <2> QED  BY <1>1, <2>1, <2>2
<1>3. IsRun(v, n)
  BY <1>2 DEF IsRun
<1> QED  BY <1>1, <1>3 DEF v

\* A run taken apart: its first m numbers, and the others
LEMMA RunSplits ==
  ASSUME NEW s \in Seq(Int), NEW n \in Int, IsRun(s, n), NEW m \in 0 .. Len(s)
  PROVE  LET front == SubSeq(s, 1, m)
             rest  == SubSeq(s, m + 1, Len(s))
         IN  /\ front \in Seq(Int) /\ Len(front) = m /\ IsRun(front, n)
             /\ rest \in Seq(Int) /\ Len(rest) = Len(s) - m /\ IsRun(rest, n + m)
<1> DEFINE front == SubSeq(s, 1, m)
           rest  == SubSeq(s, m + 1, Len(s))
<1>n. Len(s) \in Nat /\ m \in Nat /\ m <= Len(s)
  OBVIOUS
<1>1. front \in Seq(Int) /\ Len(front) = m /\ \A i \in 1 .. m : front[i] = s[i]
  BY <1>n
<1>2. rest \in Seq(Int) /\ Len(rest) = Len(s) - m /\ \A i \in 1 .. Len(s) - m : rest[i] = s[m + i]
  <2>1. rest \in Seq(Int)
    BY <1>n, SubSeqProperties
  <2>2. Len(rest) = Len(s) - m
    BY <1>n, SubSeqProperties
  <2>3. \A i \in 1 .. Len(s) - m : rest[i] = s[m + i]
    BY <1>n, SubSeqProperties
  <2> QED  BY <2>1, <2>2, <2>3
<1> HIDE DEF front, rest
<1>3. IsRun(front, n)
  <2>1. ASSUME NEW i \in 1 .. Len(front)
        PROVE  front[i] = n + i
    <3>1. i \in 1 .. Len(s) /\ front[i] = s[i]
      BY <1>n, <1>1
    <3>2. s[i] = n + i
      BY <3>1 DEF IsRun
    <3> QED  BY <3>1, <3>2
  <2> QED  BY <2>1 DEF IsRun
<1>4. IsRun(rest, n + m)
  <2>1. ASSUME NEW i \in 1 .. Len(rest)
        PROVE  rest[i] = n + m + i
    <3>1. m + i \in 1 .. Len(s) /\ rest[i] = s[m + i]
      BY <1>n, <1>2
    <3>2. s[m + i] = n + (m + i)
      BY <3>1 DEF IsRun
    <3> QED  BY <1>n, <3>1, <3>2
  <2> QED  BY <2>1 DEF IsRun
<1> QED  BY <1>1, <1>2, <1>3, <1>4 DEF front, rest

-----------------------------------------------------------------------------
(* The invariant: of a channel c, a peer p and an application a. *)

Channels ==
    [made : AllMakes, life : {"new", "live", "gone", "stray"}, blocking : BOOLEAN,
     state : Negotiating \cup {"OPEN", "CLOSED"}, mask : SUBSET Events,
     socket : {"open", "stale", "none"}, readable : BOOLEAN, writable : BOOLEAN,
     input : Seq(Int), output : Seq(Int), writeDisabled : BOOLEAN, scripts : Seq(Scripts),
     flights : Int, steps : Int, opened : BOOLEAN, inbox : Seq(Units), fin : BOOLEAN,
     out : Seq(Int)]

Peers == [flights : 0 .. 2, data : 0 .. MaxData, parts : Int, alert : BOOLEAN]

Apps == [known : BOOLEAN, told : BOOLEAN, taken : Seq(Int), got : Seq(Int), eof : BOOLEAN,
         lost : BOOLEAN, written : 0 .. MaxWrites, closed : BOOLEAN]

\* What comes from the peer is still read
Reading(c) == c.socket = "open" /\ c.state # "CLOSED"

\* What the application has, what is in Input and what the socket has are the data of
\* the peer, in order.  An open channel is closed with nothing left in the socket.
DataInv(c, p, a) ==
    /\ IsRun(a.taken, 0) /\ IsRun(c.input, Len(a.taken))
    /\ Len(a.taken) + Len(c.input) <= p.data
    /\ Reading(c) => /\ Len(a.taken) + Len(c.input) + Len(Numbers(c.inbox)) = p.data
                     /\ IsRun(Numbers(c.inbox), Len(a.taken) + Len(c.input))
    /\ p.flights < 2 => p.data = 0 /\ ~p.alert
    /\ Alert \in ToSet(c.inbox) => p.alert
    /\ c.opened /\ c.state = "CLOSED" =>
          Len(a.taken) + Len(c.input) = p.data /\ (c.socket # "open" \/ p.alert)
    /\ a.eof => c.state = "CLOSED" /\ (c.opened => c.input = <<>>)

\* What the application has written is on the socket or in Output, in order
OutInv(c, a) ==
    /\ IsRun(c.out, 0) /\ IsRun(c.output, Len(c.out))
    /\ Len(c.out) + Len(c.output) = a.written

\* The flights of the peer are taken or in the socket, and answered
FlightInv(c, p) ==
    /\ c.steps >= 0 /\ c.steps + Cardinality(Flights(c.inbox)) <= p.flights
    /\ Reading(c) => c.steps + Cardinality(Flights(c.inbox)) = p.flights
    /\ IsServer(c) => c.flights = c.steps
    /\ ~IsServer(c) => c.flights \in 0 .. 2 /\ (c.steps < 2 => c.flights <= 1 + c.steps)
    /\ c.state = "OPEN" => c.steps = 2
    /\ c.state = "CLIENTINIT" => ~IsServer(c)

Has(c, s) == s \in ToSet(c.scripts)

\* The accept callback waits from the moment when the channel is open until the
\* application knows it; a channel is cleaned up behind its back when it is closed.
ScriptInv(c, a) ==
    /\ IsInjective(c.scripts)
    /\ Has(c, "accept") => c.opened /\ c.made = "accept"
    /\ Has(c, "cleanup") => c.state = "CLOSED"
    /\ c.opened => c.state \in {"OPEN", "CLOSED"}
    /\ c.state = "OPEN" => c.opened
    /\ c.made = "accept" =>
          (a.known => c.opened) /\ (c.opened => (a.known <=> ~Has(c, "accept")))

Good(c, p, a) ==
    /\ c \in Channels /\ p \in Peers /\ a \in Apps
    /\ DataInv(c, p, a) /\ OutInv(c, a) /\ FlightInv(c, p) /\ ScriptInv(c, a)

\* A blocking call needs a socket, and so does an open channel while it exists
CallInv(c, l, a) ==
    /\ l # "none" => c.socket = "open" /\ c.state \in {"NEGOTIATING", "OPEN"}
    /\ l \notin {"none", "create"} => c.life = "live"
    /\ l = "create" => c.life = "new" /\ c.made # "accept"
    /\ l = "write" => a.written < MaxWrites
    /\ c.state = "OPEN" /\ c.life = "live" => c.socket = "open"
    /\ c.life = "new" => /\ ~a.known /\ c.state \in Negotiating /\ c.socket = "open"
                         /\ l = "none" => c.steps # 2

TlsInv == Good(ch, peer, app) /\ call \in Calls /\ CallInv(ch, call, app)

\* c and d differ in nothing that Good speaks of
Alike(c, d) ==
    /\ d.made = c.made /\ d.state = c.state /\ d.socket = c.socket
    /\ d.input = c.input /\ d.output = c.output /\ d.out = c.out
    /\ d.flights = c.flights /\ d.steps = c.steps /\ d.opened = c.opened
    /\ d.inbox = c.inbox
    /\ IsInjective(c.scripts) => IsInjective(d.scripts)
    /\ Has(d, "accept") <=> Has(c, "accept")
    /\ Has(d, "cleanup") <=> Has(c, "cleanup")

LEMMA AlikeGood ==
  ASSUME NEW c, NEW p, NEW a, NEW d \in Channels, Good(c, p, a), Alike(c, d)
  PROVE  Good(d, p, a)
<1>1. DataInv(d, p, a)
  BY DEF Good, Alike, DataInv, Reading
<1>2. OutInv(d, a)
  BY DEF Good, Alike, OutInv
<1>3. FlightInv(d, p)
  BY DEF Good, Alike, FlightInv, Reading, IsServer
<1>4. ScriptInv(d, a)
  BY DEF Good, Alike, ScriptInv
<1> QED  BY <1>1, <1>2, <1>3, <1>4 DEF Good

LEMMA ScriptsAppend ==
  ASSUME NEW c \in Channels, NEW s \in Scripts, s \notin ToSet(c.scripts)
  PROVE  LET d == [c EXCEPT !.scripts = Append(@, s)] IN
         /\ d \in Channels
         /\ IsInjective(c.scripts) => IsInjective(d.scripts)
         /\ \A t : Has(d, t) <=> Has(c, t) \/ t = s
<1> DEFINE q == c.scripts
           r == Append(q, s)
           d == [c EXCEPT !.scripts = Append(@, s)]
<1>1. q \in Seq(Scripts)
  BY DEF Channels
<1>2. d.scripts = r
  BY DEF Channels
<1>3. d \in Channels
  <2>1. Append(c.scripts, s) \in Seq(Scripts)
    BY <1>1
  <2> QED  BY <2>1, Zenon DEF Channels
<1> HIDE DEF q, d
<1>4. \A t : t \in ToSet(r) <=> t \in ToSet(q) \/ t = s
  BY <1>1, AppendElements
<1>5. IsInjective(q) => IsInjective(r)
  <2> SUFFICES ASSUME IsInjective(q) PROVE IsInjective(r)
    OBVIOUS
  <2>1. /\ r \in Seq(Scripts) /\ Len(r) = Len(q) + 1 /\ Len(q) \in Nat /\ r[Len(q) + 1] = s
        /\ \A k \in 1 .. Len(q) : r[k] = q[k]
    BY <1>1
  <2>2. \A k \in 1 .. Len(q) : q[k] # s
    BY <1>1 DEF ToSet, q
  <2> HIDE DEF r
  <2>3. ASSUME NEW i \in 1 .. Len(r), NEW j \in 1 .. Len(r), r[i] = r[j]
        PROVE  i = j
    <3>1. \A k, l \in 1 .. Len(q) : q[k] = q[l] => k = l
      BY <1>1 DEF IsInjective
    <3>2. CASE i \in 1 .. Len(q) /\ j \in 1 .. Len(q)
      BY <2>1, <2>3, <3>1, <3>2
    <3>3. CASE i \notin 1 .. Len(q) \/ j \notin 1 .. Len(q)
      BY <2>1, <2>2, <2>3, <3>3
    <3> QED  BY <3>2, <3>3
  <2> QED  BY <2>1, <2>3 DEF IsInjective
<1> QED  BY <1>2, <1>3, <1>4, <1>5 DEF Has, q, d

LEMMA GoodTypes ==
  ASSUME NEW c, NEW p, NEW a, Good(c, p, a)
  PROVE  /\ c \in Channels /\ p \in Peers /\ a \in Apps
         /\ c.made \in AllMakes /\ c.life \in {"new", "live", "gone", "stray"}
         /\ c.blocking \in BOOLEAN /\ c.state \in Negotiating \cup {"OPEN", "CLOSED"}
         /\ c.mask \subseteq Events /\ c.socket \in {"open", "stale", "none"}
         /\ c.input \in Seq(Int) /\ Len(c.input) \in Nat
         /\ c.output \in Seq(Int) /\ Len(c.output) \in Nat
         /\ c.out \in Seq(Int) /\ Len(c.out) \in Nat
         /\ c.scripts \in Seq(Scripts) /\ c.inbox \in Seq(Units)
         /\ c.flights \in Int /\ c.steps \in Int /\ c.opened \in BOOLEAN
         /\ p.flights \in 0 .. 2 /\ p.data \in Nat /\ p.alert \in BOOLEAN
         /\ a.taken \in Seq(Int) /\ Len(a.taken) \in Nat /\ a.known \in BOOLEAN
         /\ a.eof \in BOOLEAN /\ a.written \in Nat
<1>1. c \in Channels /\ p \in Peers /\ a \in Apps
  BY DEF Good
<1>2. /\ c.made \in AllMakes /\ c.life \in {"new", "live", "gone", "stray"}
      /\ c.blocking \in BOOLEAN /\ c.state \in Negotiating \cup {"OPEN", "CLOSED"}
      /\ c.mask \subseteq Events /\ c.socket \in {"open", "stale", "none"}
      /\ c.input \in Seq(Int) /\ c.output \in Seq(Int) /\ c.out \in Seq(Int)
      /\ c.scripts \in Seq(Scripts) /\ c.inbox \in Seq(Units)
      /\ c.flights \in Int /\ c.steps \in Int /\ c.opened \in BOOLEAN
  BY <1>1 DEF Channels
<1>3. /\ p.flights \in 0 .. 2 /\ p.data \in 0 .. MaxData /\ p.alert \in BOOLEAN
  BY <1>1 DEF Peers
<1>4. /\ a.taken \in Seq(Int) /\ a.known \in BOOLEAN /\ a.eof \in BOOLEAN
      /\ a.written \in 0 .. MaxWrites
  BY <1>1 DEF Apps
<1>5. MaxData \in Nat /\ MaxWrites \in Nat
  BY TlsAssumption
<1>6. \A s \in Seq(Int) : Len(s) \in Nat
  OBVIOUS
<1> QED  BY <1>1, <1>2, <1>3, <1>4, <1>5, <1>6

LEMMA NegotiatingIs ==
  /\ \A s \in Negotiating : s # "OPEN" /\ s # "CLOSED"
  /\ Negotiating = {"CLIENTINIT", "SERVERINIT", "NEGOTIATING"}
  BY DEF Negotiating

-----------------------------------------------------------------------------
(* The operators: each turns a good channel into a good one. *)

LEMMA PostAlike ==
  ASSUME NEW c \in Channels, NEW e \in Events
  PROVE  Post(c, e) \in Channels /\ Alike(c, Post(c, e)) /\ Post(c, e).life = c.life
<1>1. CASE e \in ToSet(c.scripts)
  <2>1. Post(c, e) = c
    BY <1>1 DEF Post
  <2> QED  BY <2>1 DEF Alike
<1>2. CASE e \notin ToSet(c.scripts)
  <2> DEFINE d == [c EXCEPT !.scripts = Append(@, e)]
  <2>1. Post(c, e) = d
    BY <1>2 DEF Post
  <2>2. e \in Scripts /\ e # "accept" /\ e # "cleanup"
    BY DEF Events, Scripts
  <2>3. /\ d.made = c.made /\ d.state = c.state /\ d.socket = c.socket
        /\ d.input = c.input /\ d.output = c.output /\ d.out = c.out
        /\ d.flights = c.flights /\ d.steps = c.steps /\ d.opened = c.opened
        /\ d.inbox = c.inbox /\ d.life = c.life
    BY DEF Channels
  <2>4. /\ d \in Channels
        /\ IsInjective(c.scripts) => IsInjective(d.scripts)
        /\ \A t : Has(d, t) <=> Has(c, t) \/ t = e
    BY <1>2, <2>2, ScriptsAppend
  <2> HIDE DEF d
  <2> QED  BY <2>1, <2>2, <2>3, <2>4 DEF Alike
<1> QED  BY <1>1, <1>2

\* d is c without its socket, and perhaps without what was in it: it promises less
Drops(c, d) ==
    /\ d.made = c.made /\ d.state = c.state /\ d.socket # "open"
    /\ d.input = c.input /\ d.output = c.output /\ d.out = c.out
    /\ d.flights = c.flights /\ d.steps = c.steps /\ d.opened = c.opened
    /\ d.inbox \in {c.inbox, <<>>} /\ d.scripts = c.scripts

LEMMA DropsGood ==
  ASSUME NEW c, NEW p, NEW a, NEW d \in Channels, Good(c, p, a), Drops(c, d)
  PROVE  Good(d, p, a)
<1>1. ~Reading(d)
  BY DEF Reading, Drops
<1>2. Alert \in ToSet(d.inbox) => Alert \in ToSet(c.inbox)
  BY DEF Drops, ToSet
<1>3. DataInv(d, p, a)
  BY <1>1, <1>2 DEF Good, DataInv, Drops
<1>4. OutInv(d, a)
  BY DEF Good, OutInv, Drops
<1>5. /\ Cardinality(Flights(c.inbox)) \in Nat /\ c.steps \in Int /\ p.flights \in Int
      /\ d.inbox = c.inbox \/ Cardinality(Flights(d.inbox)) = 0
  BY GoodTypes, FlightsFinite, FlightsEmpty DEF Drops
<1>6. d.steps + Cardinality(Flights(d.inbox)) <= p.flights
  BY <1>5 DEF Good, FlightInv, Drops
<1>7. FlightInv(d, p)
  BY <1>1, <1>6 DEF Good, FlightInv, IsServer, Drops
<1>8. ScriptInv(d, a)
  BY DEF Good, ScriptInv, Drops, Has
<1> QED  BY <1>3, <1>4, <1>7, <1>8 DEF Good

LEMMA SocketClosedGood ==
  ASSUME NEW c, NEW p, NEW a, Good(c, p, a), NEW how \in {"stale", "none"}
  PROVE  LET d == SocketClosed(c, how) IN
         /\ Good(d, p, a) /\ d.socket = how
         /\ d.made = c.made /\ d.life = c.life /\ d.state = c.state /\ d.out = c.out
         /\ d.opened = c.opened
<1> DEFINE d == [c EXCEPT !.socket = how, !.readable = FALSE, !.writable = FALSE]
<1>0. SocketClosed(c, how) = d
  BY DEF SocketClosed
<1>1. c \in Channels
  BY DEF Good
<1>2. how \in {"open", "stale", "none"} /\ FALSE \in BOOLEAN /\ how # "open"
  OBVIOUS
<1>3. d \in Channels
  BY <1>1, <1>2, Zenon DEF Channels
<1>4. /\ d.made = c.made /\ d.life = c.life /\ d.state = c.state /\ d.out = c.out
      /\ d.opened = c.opened /\ d.socket = how
  BY <1>1 DEF Channels
<1>5. Drops(c, d)
  BY <1>1, <1>2 DEF Channels, Drops
<1> HIDE DEF d
<1>6. Good(d, p, a)
  BY <1>3, <1>5, DropsGood
<1> QED  BY <1>0, <1>4, <1>6

LEMMA CleanedUpGood ==
  ASSUME NEW c, NEW p, NEW a, Good(c, p, a), NEW life \in {"gone", "stray"}
  PROVE  LET d == CleanedUp(c, life) IN
         /\ Good(d, p, a) /\ d.life = life /\ d.socket = "none"
         /\ d.made = c.made /\ d.state = c.state /\ d.out = c.out
<1> DEFINE b == SocketClosed(c, "none")
           d == [b EXCEPT !.life = life]
<1>0. CleanedUp(c, life) = d
  BY DEF CleanedUp
<1>1. /\ Good(b, p, a) /\ b.socket = "none"
      /\ b.made = c.made /\ b.state = c.state /\ b.out = c.out
  BY SocketClosedGood
<1> HIDE DEF b
<1>2. b \in Channels
  BY <1>1 DEF Good
<1>3. life \in {"new", "live", "gone", "stray"}
  OBVIOUS
<1>4. d \in Channels
  BY <1>2, <1>3, Zenon DEF Channels
<1>5. /\ d.made = b.made /\ d.state = b.state /\ d.socket = b.socket
      /\ d.input = b.input /\ d.output = b.output /\ d.out = b.out
      /\ d.flights = b.flights /\ d.steps = b.steps /\ d.opened = b.opened
      /\ d.inbox = b.inbox /\ d.scripts = b.scripts /\ d.life = life
  BY <1>2 DEF Channels
<1> HIDE DEF d
<1>6. Alike(b, d)
  BY <1>5 DEF Alike, Has
<1>7. Good(d, p, a)
  BY <1>1, <1>4, <1>6, AlikeGood
<1> QED  BY <1>0, <1>1, <1>5, <1>7

\* d is c a little later: nothing is taken back from the socket
Onward(c, d) == d.made = c.made /\ d.life = c.life /\ Len(d.out) >= Len(c.out)

LEMMA FlushedGood ==
  ASSUME NEW c, NEW p, NEW a, Good(c, p, a)
  PROVE  LET d == Flushed(c) IN
         /\ Good(d, p, a) /\ Onward(c, d) /\ d.output = <<>>
         /\ d.state = c.state /\ d.socket = c.socket /\ d.opened = c.opened
         /\ d.inbox = c.inbox /\ d.input = c.input
<1> DEFINE d == [c EXCEPT !.out = @ \o c.output, !.output = <<>>]
<1>0. Flushed(c) = d
  BY DEF Flushed
<1>1. /\ c \in Channels /\ c.out \in Seq(Int) /\ c.output \in Seq(Int)
      /\ Len(c.out) \in Nat /\ Len(c.output) \in Nat
  BY GoodTypes
<1>2. IsRun(c.out, 0) /\ IsRun(c.output, 0 + Len(c.out))
  BY <1>1 DEF Good, OutInv
<1>3. /\ c.out \o c.output \in Seq(Int) /\ IsRun(c.out \o c.output, 0)
      /\ Len(c.out \o c.output) = Len(c.out) + Len(c.output)
  BY <1>1, <1>2, RunConcat
<1>4. d \in Channels
  <2>1. <<>> \in Seq(Int)
    OBVIOUS
  <2> QED  BY <1>1, <1>3, <2>1, Zenon DEF Channels
<1>5. /\ d.made = c.made /\ d.life = c.life /\ d.state = c.state /\ d.socket = c.socket
      /\ d.input = c.input /\ d.output = <<>> /\ d.out = c.out \o c.output
      /\ d.flights = c.flights /\ d.steps = c.steps /\ d.opened = c.opened
      /\ d.inbox = c.inbox /\ d.scripts = c.scripts
  BY <1>1 DEF Channels
<1> HIDE DEF d
<1>6. DataInv(d, p, a)
  BY <1>5 DEF Good, DataInv, Reading
<1>7. OutInv(d, a)
  <2>1. Len(c.out) + Len(c.output) = a.written
    BY DEF Good, OutInv
  <2>2. Len(d.output) = 0 /\ IsRun(d.output, Len(d.out))
    BY <1>5, RunEmpty
  <2>3. IsRun(d.out, 0) /\ Len(d.out) = a.written
    BY <1>3, <1>5, <2>1
  <2>4. Len(d.out) + Len(d.output) = a.written
    BY <1>1, <2>1, <2>2, <2>3
  <2> QED  BY <2>2, <2>3, <2>4 DEF OutInv
<1>8. FlightInv(d, p)
  BY <1>5 DEF Good, FlightInv, Reading, IsServer
<1>9. ScriptInv(d, a)
  BY <1>5 DEF Good, ScriptInv, Has
<1>10. Len(d.out) >= Len(c.out)
  <2>1. Len(d.out) = Len(c.out) + Len(c.output)
    BY <1>3, <1>5, Zenon
  <2>2. Len(c.out) \in Nat /\ Len(c.output) \in Nat
    BY <1>1
  <2>3. \A x, y, z \in Nat : z = x + y => z >= x
    OBVIOUS
  <2>5. \A x, y \in Nat : x + y \in Nat
    OBVIOUS
  <2>4. Len(d.out) \in Nat
    BY <2>1, <2>2, <2>5, Zenon
  <2> QED  BY <2>1, <2>2, <2>3, <2>4, Zenon
<1> QED  BY <1>0, <1>4, <1>5, <1>6, <1>7, <1>8, <1>9, <1>10 DEF Good, Onward

LEMMA OutcomeIs ==
  ASSUME NEW c, NEW ok
  PROVE  Outcome(c, ok).ch = c /\ Outcome(c, ok).ok = ok
  BY DEF Outcome

\* The channel that _open makes of c
Accepted(c) ==
    IF c.made = "accept" THEN [c EXCEPT !.readable = FALSE, !.scripts = Append(@, "accept")]
    ELSE c

LEMMA OpenedGood ==
  ASSUME NEW c, NEW p, NEW a, Good(c, p, a), c.state \in Negotiating, c.steps = 2
  PROVE  LET d == [Accepted(c) EXCEPT !.state = "OPEN", !.opened = TRUE] IN
         /\ Good(d, p, a) /\ Onward(c, d)
         /\ d.state = "OPEN" /\ d.socket = c.socket /\ d.opened
<1> DEFINE b == Accepted(c)
           d == [b EXCEPT !.state = "OPEN", !.opened = TRUE]
<1>1. c \in Channels /\ ~c.opened /\ c.state # "CLOSED" /\ c.opened \in BOOLEAN
  BY NegotiatingIs, GoodTypes DEF Good, ScriptInv
<1>2. ~Has(c, "accept") /\ ~Has(c, "cleanup") /\ (c.made = "accept" => ~a.known)
  BY <1>1 DEF Good, ScriptInv
<1>3. /\ b \in Channels /\ b.made = c.made /\ b.life = c.life /\ b.socket = c.socket
      /\ b.input = c.input /\ b.output = c.output /\ b.out = c.out
      /\ b.flights = c.flights /\ b.steps = c.steps /\ b.inbox = c.inbox
      /\ IsInjective(b.scripts) /\ ~Has(b, "cleanup")
      /\ Has(b, "accept") <=> c.made = "accept"
  <2>1. IsInjective(c.scripts)
    BY DEF Good, ScriptInv
  <2>2. CASE c.made # "accept"
    <3>1. b = c
      BY <2>2 DEF Accepted
    <3> QED  BY <1>1, <1>2, <2>1, <2>2, <3>1
  <2>3. CASE c.made = "accept"
    <3> DEFINE e == [c EXCEPT !.scripts = Append(@, "accept")]
    <3>1. b = [c EXCEPT !.readable = FALSE, !.scripts = Append(@, "accept")]
      BY <2>3 DEF Accepted
    <3>2. "accept" \in Scripts /\ "accept" \notin ToSet(c.scripts)
      BY <1>2 DEF Scripts, Has
    <3>3. /\ e \in Channels /\ IsInjective(e.scripts)
          /\ \A t : Has(e, t) <=> Has(c, t) \/ t = "accept"
      BY <1>1, <2>1, <3>2, ScriptsAppend
    <3>4. e.scripts = Append(c.scripts, "accept") /\ e.scripts \in Seq(Scripts)
      BY <1>1, <3>3 DEF Channels
    <3>5. FALSE \in BOOLEAN /\ Append(c.scripts, "accept") \in Seq(Scripts)
      BY <3>4
    <3>6. b \in Channels
      BY <1>1, <3>1, <3>5, Zenon DEF Channels
    <3>7. /\ b.made = c.made /\ b.life = c.life /\ b.socket = c.socket
          /\ b.input = c.input /\ b.output = c.output /\ b.out = c.out
          /\ b.flights = c.flights /\ b.steps = c.steps /\ b.inbox = c.inbox
          /\ b.scripts = Append(c.scripts, "accept")
      BY <1>1, <3>1 DEF Channels
    <3> HIDE DEF b, e
    <3>8. Has(b, "accept") /\ ~Has(b, "cleanup") /\ IsInjective(b.scripts)
      BY <1>2, <3>3, <3>4, <3>7 DEF Has
    <3> QED  BY <2>3, <3>6, <3>7, <3>8
  <2> QED  BY <2>2, <2>3
<1> HIDE DEF b
<1>4. d \in Channels
  <2>1. TRUE \in BOOLEAN /\ "OPEN" \in Negotiating \cup {"OPEN", "CLOSED"}
    OBVIOUS
  <2> QED  BY <1>3, <2>1, Zenon DEF Channels
<1>5. /\ d.made = c.made /\ d.life = c.life /\ d.state = "OPEN" /\ d.socket = c.socket
      /\ d.input = c.input /\ d.output = c.output /\ d.out = c.out
      /\ d.flights = c.flights /\ d.steps = c.steps /\ d.opened = TRUE
      /\ d.inbox = c.inbox /\ d.scripts = b.scripts
  BY <1>3 DEF Channels
<1> HIDE DEF d
<1>6. DataInv(d, p, a)
  BY <1>1, <1>5 DEF Good, DataInv, Reading
<1>7. OutInv(d, a)
  BY <1>5 DEF Good, OutInv
<1>8. FlightInv(d, p)
  BY <1>1, <1>5 DEF Good, FlightInv, Reading, IsServer
<1>9. ScriptInv(d, a)
  BY <1>2, <1>3, <1>5 DEF ScriptInv, Has
<1>10. Len(d.out) >= Len(c.out)
  BY <1>5, GoodTypes
<1> QED  BY <1>4, <1>5, <1>6, <1>7, <1>8, <1>9, <1>10 DEF Good, Onward, b, d

LEMMA OpenGood ==
  ASSUME NEW c, NEW p, NEW a, Good(c, p, a), c.state \in Negotiating, c.steps = 2,
         NEW r \in Open(c)
  PROVE  /\ Good(r.ch, p, a) /\ Onward(c, r.ch) /\ r.ch.socket = c.socket
         /\ r.ok \in BOOLEAN /\ (r.ok => r.ch.state = "OPEN") /\ (~r.ok => r.ch = c)
<1> DEFINE d == [Accepted(c) EXCEPT !.state = "OPEN", !.opened = TRUE]
<1>1. \/ r = Outcome(Flushed(d), TRUE)
      \/ r = Outcome(c, FALSE)
  BY DEF Open, Accepted
<1>2. Good(d, p, a) /\ Onward(c, d) /\ d.state = "OPEN" /\ d.socket = c.socket
  BY OpenedGood
<1> HIDE DEF d
<1>3. CASE r = Outcome(Flushed(d), TRUE)
  <2> DEFINE f == Flushed(d)
  <2>1. /\ Good(f, p, a) /\ Onward(d, f) /\ f.state = "OPEN" /\ f.socket = c.socket
    BY <1>2, FlushedGood
  <2> HIDE DEF f
  <2>2. r.ch = f /\ r.ok = TRUE
    BY <1>3, OutcomeIs DEF f
  <2>3. Onward(c, f)
    <3>1. Len(f.out) \in Nat /\ Len(d.out) \in Nat /\ Len(c.out) \in Nat
      BY <1>2, <2>1, GoodTypes
    <3> QED  BY <1>2, <2>1, <3>1 DEF Onward
  <2> QED  BY <2>1, <2>2, <2>3
<1>4. CASE r = Outcome(c, FALSE)
  <2>1. r.ch = c /\ r.ok = FALSE
    BY <1>4, OutcomeIs
  <2>2. Len(c.out) \in Nat
    BY GoodTypes
  <2>3. Onward(c, c)
    BY <2>2 DEF Onward
  <2> QED  BY <2>1, <2>3
<1> QED  BY <1>1, <1>3, <1>4

\* A channel that has lost its socket, or is about to
Shut(c) == [c EXCEPT !.socket = "none"]

LEMMA ShutIs ==
  ASSUME NEW c \in Channels
  PROVE  LET b == Shut(c) IN
         /\ b \in Channels /\ b.socket = "none" /\ b.made = c.made /\ b.life = c.life
         /\ b.state = c.state /\ b.input = c.input /\ b.output = c.output /\ b.out = c.out
         /\ b.flights = c.flights /\ b.steps = c.steps /\ b.opened = c.opened
         /\ b.inbox = c.inbox /\ b.scripts = c.scripts
<1>1. "none" \in {"open", "stale", "none"}
  OBVIOUS
<1>2. Shut(c) \in Channels
  BY <1>1, Zenon DEF Shut, Channels
<1> QED  BY <1>2 DEF Shut, Channels

LEMMA ShutGood ==
  ASSUME NEW c, NEW p, NEW a, Good(c, p, a)
  PROVE  Good(Shut(c), p, a)
<1>1. c \in Channels
  BY DEF Good
<1>2. Shut(c) \in Channels /\ Drops(c, Shut(c))
  BY <1>1, ShutIs DEF Drops
<1> QED  BY <1>2, DropsGood

LEMMA FailedGood ==
  ASSUME NEW c \in Channels, NEW p, NEW a, Good(Shut(c), p, a), c.state \in Negotiating
  PROVE  LET d == Failed(c) IN
         /\ Good(d, p, a) /\ Onward(c, d) /\ d.state = "CLOSED" /\ d.socket = "none"
<1> DEFINE b == Shut(c)
           e == IF IsServer(c) /\ c.state \in {"SERVERINIT", "NEGOTIATING"}
                THEN [c EXCEPT !.scripts = Append(@, "cleanup")] ELSE c
           f == [e EXCEPT !.state = "CLOSED"]
           d == [f EXCEPT !.socket = "none", !.readable = FALSE, !.writable = FALSE]
<1>1. Failed(c) = d
  BY DEF Failed, SocketClosed
<1>2. /\ b \in Channels /\ b.socket = "none" /\ b.made = c.made /\ b.life = c.life
      /\ b.state = c.state /\ b.input = c.input /\ b.output = c.output /\ b.out = c.out
      /\ b.flights = c.flights /\ b.steps = c.steps /\ b.opened = c.opened
      /\ b.inbox = c.inbox /\ b.scripts = c.scripts
  BY ShutIs
<1> HIDE DEF b
<1>3. /\ ~b.opened /\ ~Has(b, "cleanup") /\ ~a.eof /\ IsInjective(b.scripts)
      /\ b.opened \in BOOLEAN /\ b.state # "CLOSED"
  BY <1>2, NegotiatingIs, GoodTypes DEF Good, ScriptInv, DataInv, b
<1>4. /\ e \in Channels /\ IsInjective(e.scripts)
      /\ Has(e, "accept") <=> Has(c, "accept")
      /\ e.made = c.made /\ e.life = c.life
      /\ e.input = c.input /\ e.output = c.output /\ e.out = c.out
      /\ e.flights = c.flights /\ e.steps = c.steps /\ e.opened = c.opened
      /\ e.inbox = c.inbox
  <2> DEFINE g == [c EXCEPT !.scripts = Append(@, "cleanup")]
  <2>1. "cleanup" \in Scripts /\ "cleanup" \notin ToSet(c.scripts)
    BY <1>2, <1>3 DEF Scripts, Has
  <2>2. /\ g \in Channels
        /\ IsInjective(c.scripts) => IsInjective(g.scripts)
        /\ \A t : Has(g, t) <=> Has(c, t) \/ t = "cleanup"
    BY <2>1, ScriptsAppend
  <2>3. /\ g.made = c.made /\ g.life = c.life
        /\ g.input = c.input /\ g.output = c.output /\ g.out = c.out
        /\ g.flights = c.flights /\ g.steps = c.steps /\ g.opened = c.opened
        /\ g.inbox = c.inbox
    BY DEF Channels
  <2>4. e = c \/ e = g
    OBVIOUS
  <2> HIDE DEF e, g
  <2>5. CASE e = c
    BY <1>2, <1>3, <2>5
  <2>6. CASE e = g
    BY <1>2, <1>3, <2>2, <2>3, <2>6
  <2> QED  BY <2>4, <2>5, <2>6
<1> HIDE DEF e
<1>5. /\ f \in Channels /\ f.state = "CLOSED" /\ f.scripts = e.scripts
      /\ f.made = e.made /\ f.life = e.life
      /\ f.input = e.input /\ f.output = e.output /\ f.out = e.out
      /\ f.flights = e.flights /\ f.steps = e.steps /\ f.opened = e.opened
      /\ f.inbox = e.inbox
  <2>1. "CLOSED" \in Negotiating \cup {"OPEN", "CLOSED"}
    OBVIOUS
  <2>2. f \in Channels
    BY <1>4, <2>1, Zenon DEF Channels
  <2> QED  BY <1>4, <2>2 DEF Channels
<1> HIDE DEF f
<1>6. /\ d \in Channels /\ d.state = "CLOSED" /\ d.socket = "none" /\ d.scripts = e.scripts
      /\ d.made = b.made /\ d.life = b.life
      /\ d.input = b.input /\ d.output = b.output /\ d.out = b.out
      /\ d.flights = b.flights /\ d.steps = b.steps /\ d.opened = b.opened
      /\ d.inbox = b.inbox
  <2>1. "none" \in {"open", "stale", "none"} /\ FALSE \in BOOLEAN
    OBVIOUS
  <2>2. d \in Channels
    BY <1>5, <2>1, Zenon DEF Channels
  <2>3. /\ d.state = f.state /\ d.socket = "none" /\ d.scripts = f.scripts
        /\ d.made = f.made /\ d.life = f.life
        /\ d.input = f.input /\ d.output = f.output /\ d.out = f.out
        /\ d.flights = f.flights /\ d.steps = f.steps /\ d.opened = f.opened
        /\ d.inbox = f.inbox
    BY <1>5 DEF Channels
  <2> HIDE DEF d
  <2> QED  BY <1>2, <1>4, <1>5, <2>2, <2>3
<1> HIDE DEF d
<1>7. Has(d, "accept") <=> Has(b, "accept")
  BY <1>2, <1>4, <1>6 DEF Has
<1>8. Good(b, p, a) /\ ~Reading(d) /\ ~Reading(b)
  BY <1>2, <1>6 DEF Reading, b
<1>9. DataInv(d, p, a)
  BY <1>3, <1>6, <1>8 DEF Good, DataInv
<1>10. OutInv(d, a)
  BY <1>6, <1>8 DEF Good, OutInv
<1>11. FlightInv(d, p)
  BY <1>6, <1>8 DEF Good, FlightInv, IsServer
<1>12. ScriptInv(d, a)
  BY <1>3, <1>4, <1>6, <1>7, <1>8 DEF Good, ScriptInv
<1>13. Len(c.out) \in Nat
  BY <1>2, <1>8, GoodTypes
<1>14. Onward(c, d)
  BY <1>2, <1>6, <1>13 DEF Onward
<1> QED  BY <1>1, <1>6, <1>8, <1>9, <1>10, <1>11, <1>12, <1>14 DEF Good

\* The socket's units are read and their flights taken
LEMMA SteppedIs ==
  ASSUME NEW c, NEW p, NEW a, Good(c, p, a), Reading(c), c.state # "OPEN"
  PROVE  LET d == Stepped([c EXCEPT !.inbox = <<>>], c.inbox) IN
         /\ d \in Channels /\ d.inbox = <<>> /\ d.steps = p.flights
         /\ d.made = c.made /\ d.life = c.life /\ d.state = c.state /\ d.socket = c.socket
         /\ d.input = c.input /\ d.output = c.output /\ d.out = c.out
         /\ d.opened = c.opened /\ d.scripts = c.scripts
         /\ FlightInv(d, p)
<1> DEFINE b == [c EXCEPT !.inbox = <<>>]
           k == Cardinality(Flights(c.inbox))
           d == [b EXCEPT !.steps = @ + k,
                          !.flights = IF IsServer(b) \/ b.steps + k < 2 THEN @ + k ELSE @]
<1>0. Stepped(b, c.inbox) = d
  BY DEF Stepped
<1>1. /\ c \in Channels /\ k \in Nat /\ c.steps \in Int /\ c.flights \in Int
      /\ p.flights \in 0 .. 2
  BY GoodTypes, FlightsFinite
<1>2. /\ b \in Channels /\ b.inbox = <<>> /\ b.steps = c.steps /\ b.flights = c.flights
      /\ b.made = c.made /\ b.life = c.life /\ b.state = c.state /\ b.socket = c.socket
      /\ b.input = c.input /\ b.output = c.output /\ b.out = c.out
      /\ b.opened = c.opened /\ b.scripts = c.scripts
  <2>1. <<>> \in Seq(Units)
    OBVIOUS
  <2>2. b \in Channels
    BY <1>1, <2>1, Zenon DEF Channels
  <2> QED  BY <1>1, <2>2 DEF Channels
<1>3. c.steps + k = p.flights /\ c.steps >= 0
  BY DEF Good, FlightInv
<1> HIDE DEF b, k
<1> DEFINE s == b.steps + k
           v == IF IsServer(b) \/ b.steps + k < 2 THEN b.flights + k ELSE b.flights
<1>4. s \in Int /\ v \in Int /\ s = p.flights
  BY <1>1, <1>2, <1>3
<1>5. d \in Channels
  BY <1>2, <1>4, Zenon DEF Channels
<1>6. /\ d.steps = s /\ d.flights = v /\ d.inbox = b.inbox
      /\ d.made = b.made /\ d.life = b.life /\ d.state = b.state /\ d.socket = b.socket
      /\ d.input = b.input /\ d.output = b.output /\ d.out = b.out
      /\ d.opened = b.opened /\ d.scripts = b.scripts
  BY <1>2 DEF Channels
<1>7. /\ IsServer(c) => c.flights = c.steps
      /\ ~IsServer(c) => c.flights \in 0 .. 2 /\ (c.steps < 2 => c.flights <= 1 + c.steps)
      /\ IsServer(b) <=> IsServer(c)
  BY <1>2 DEF Good, FlightInv, IsServer
<1> HIDE DEF d
<1>8. /\ IsServer(c) => v = s
      /\ ~IsServer(c) => v \in 0 .. 2 /\ (s < 2 => v <= 1 + s)
  <2>1. b.steps = c.steps /\ b.flights = c.flights
    BY <1>2
  <2>2. CASE IsServer(c)
    BY <1>1, <1>3, <1>7, <2>1, <2>2
  <2>3. CASE ~IsServer(c) /\ c.steps + k < 2
    BY <1>1, <1>3, <1>7, <2>1, <2>3
  <2>4. CASE ~IsServer(c) /\ ~(c.steps + k < 2)
    BY <1>1, <1>3, <1>7, <2>1, <2>4
  <2> QED  BY <2>2, <2>3, <2>4
<1>9. Cardinality(Flights(d.inbox)) = 0
  BY <1>2, <1>6, FlightsEmpty
<1> HIDE DEF s, v
<1>10. FlightInv(d, p)
  <2>1. IsServer(d) <=> IsServer(c)
    BY <1>2, <1>6 DEF IsServer
  <2>2. d.steps = p.flights /\ p.flights >= 0 /\ p.flights \in Int
    BY <1>1, <1>4, <1>6
  <2>3. d.steps >= 0 /\ d.steps + Cardinality(Flights(d.inbox)) = p.flights
    BY <1>9, <2>2
  <2>4. d.steps + Cardinality(Flights(d.inbox)) <= p.flights
    BY <1>1, <2>3
  <2>5. /\ IsServer(d) => d.flights = d.steps
        /\ ~IsServer(d) => d.flights \in 0 .. 2 /\ (d.steps < 2 => d.flights <= 1 + d.steps)
    BY <1>6, <1>8, <2>1
  <2>6. d.state # "OPEN" /\ (d.state = "CLIENTINIT" => ~IsServer(d))
    BY <1>2, <1>6, <2>1 DEF Good, FlightInv
  <2> QED  BY <2>3, <2>4, <2>5, <2>6 DEF FlightInv
<1> QED  BY <1>0, <1>2, <1>4, <1>5, <1>6, <1>10 DEF b

\* What the socket has is data in Input now
LEMMA DrainedData ==
  ASSUME NEW c, NEW p, NEW a, Good(c, p, a), Reading(c), NEW d \in Channels,
         d.state = c.state, d.socket = c.socket, d.opened = c.opened,
         d.inbox = <<>>, d.input = c.input \o Numbers(c.inbox)
  PROVE  DataInv(d, p, a) /\ Len(a.taken) + Len(d.input) = p.data
<1> DEFINE n == Numbers(c.inbox)
           i == c.input
           g == a.taken
<1>1. /\ n \in Seq(Int) /\ i \in Seq(Int) /\ g \in Seq(Int)
      /\ Len(n) \in Nat /\ Len(i) \in Nat /\ Len(g) \in Nat /\ p.data \in Nat
  <2>1. i \in Seq(Int) /\ g \in Seq(Int) /\ c.inbox \in Seq(Units) /\ p.data \in Nat
    BY GoodTypes
  <2>2. n \in Seq(Int)
    BY <2>1, NumbersType
  <2> QED  BY <2>1, <2>2
<1>2. /\ IsRun(g, 0) /\ IsRun(i, Len(g)) /\ Len(g) + Len(i) + Len(n) = p.data
      /\ IsRun(n, Len(g) + Len(i))
      /\ p.flights < 2 => p.data = 0 /\ ~p.alert
      /\ ~a.eof /\ c.state # "CLOSED"
  BY DEF Good, DataInv, Reading
<1>3. d.input = i \o n /\ d.inbox = <<>>
  OBVIOUS
<1> HIDE DEF n, i, g
<1>4. /\ i \o n \in Seq(Int) /\ Len(i \o n) = Len(i) + Len(n) /\ IsRun(i \o n, Len(g))
  BY <1>1, <1>2, RunConcat
<1>5. Len(g) + Len(d.input) = p.data /\ IsRun(d.input, Len(g))
  BY <1>1, <1>2, <1>3, <1>4
<1>6. Numbers(d.inbox) = <<>> /\ Len(Numbers(d.inbox)) = 0 /\ Alert \notin ToSet(d.inbox)
  BY <1>3, NumbersEmpty DEF ToSet
<1>a. Len(d.input) \in Nat
  BY <1>1, <1>3, <1>4
<1>b. \A x, y, z \in Nat : \A w : x + y = z /\ w = 0 => x + y + w = z /\ x + y <= z
  OBVIOUS
<1>7. Len(g) + Len(d.input) + Len(Numbers(d.inbox)) = p.data
  <2>1. Len(g) \in Nat /\ p.data \in Nat /\ Len(g) + Len(d.input) = p.data
    BY <1>1, <1>5
  <2>2. Len(Numbers(d.inbox)) = 0
    BY <1>6
  <2> DEFINE m == Len(Numbers(d.inbox))
             k == Len(d.input)
  <2>3. k \in Nat /\ m = 0 /\ Len(g) + k = p.data
    BY <1>a, <2>1, <2>2
  <2> HIDE DEF m, k
  <2>4. Len(g) + k + m = p.data
    BY <2>1, <2>3
  <2> QED  BY <2>4 DEF m, k
<1>8. IsRun(Numbers(d.inbox), Len(g) + Len(d.input))
  BY <1>6, RunEmpty
<1>9. Len(g) + Len(d.input) <= p.data
  BY <1>1, <1>5, <1>6, <1>a, <1>b, Zenon
<1> QED  BY <1>2, <1>5, <1>6, <1>7, <1>8, <1>9 DEF DataInv, g

LEMMA AdvanceGood ==
  ASSUME NEW c, NEW p, NEW a, Good(c, p, a), c.state \in {"SERVERINIT", "NEGOTIATING"},
         c.socket = "open", NEW strict \in BOOLEAN, NEW r \in Advance(c, strict)
  PROVE  /\ r.ok \in BOOLEAN /\ r.ch \in Channels /\ Onward(c, r.ch)
         /\ r.ok => /\ Good(r.ch, p, a) /\ r.ch.socket = "open"
                    /\ r.ch.state \in {c.state, "OPEN"}
         /\ ~r.ok => /\ Good(Shut(r.ch), p, a) /\ r.ch.state = c.state
                     /\ strict => Good(r.ch, p, a)
<1> DEFINE read == [c EXCEPT !.inbox = <<>>]
           next == Stepped(read, c.inbox)
           done == [next EXCEPT !.input = @ \o Numbers(c.inbox)]
<1>1. /\ c \in Channels /\ Len(c.out) \in Nat /\ c.input \in Seq(Int)
      /\ c.inbox \in Seq(Units) /\ c.state \in Negotiating /\ Reading(c) /\ c.state # "OPEN"
      /\ p.flights \in 0 .. 2
  BY GoodTypes, NegotiatingIs DEF Reading
<1>2. Onward(c, c)
  BY <1>1 DEF Onward
<1>3. /\ next \in Channels /\ next.inbox = <<>> /\ next.steps = p.flights
      /\ next.made = c.made /\ next.life = c.life /\ next.state = c.state
      /\ next.socket = c.socket
      /\ next.input = c.input /\ next.output = c.output /\ next.out = c.out
      /\ next.opened = c.opened /\ next.scripts = c.scripts
      /\ FlightInv(next, p)
  BY <1>1, SteppedIs
<1>r. /\ read \in Channels /\ read.inbox = <<>> /\ read.steps = c.steps
      /\ read.flights = c.flights
      /\ read.made = c.made /\ read.life = c.life /\ read.state = c.state
      /\ read.socket = c.socket
      /\ read.input = c.input /\ read.output = c.output /\ read.out = c.out
      /\ read.opened = c.opened /\ read.scripts = c.scripts
  <2>1. <<>> \in Seq(Units)
    OBVIOUS
  <2>2. read \in Channels
    BY <1>1, <2>1, Zenon DEF Channels
  <2> QED  BY <1>1, <2>2 DEF Channels
<1>4. \/ c.inbox = <<>> /\ r = Outcome(c, ~c.fin)
      \/ next.steps < 2 /\ r = Outcome(next, TRUE)
      \/ ~(next.steps < 2) /\ strict /\ r = Outcome(done, FALSE)
      \/ ~(next.steps < 2) /\ r \in Open(done)
      \/ r = Outcome(IF strict THEN SocketClosed(read, "stale") ELSE read, FALSE)
  BY DEF Advance
<1> HIDE DEF next
<1>5. CASE c.inbox = <<>> /\ r = Outcome(c, ~c.fin)
  <2>1. r.ch = c /\ r.ok = ~c.fin
    BY <1>5, OutcomeIs
  <2>2. r.ok \in BOOLEAN
    BY <1>1, <2>1 DEF Channels
  <2> QED  BY <1>1, <1>2, <2>1, <2>2, ShutGood
<1>6. CASE next.steps < 2 /\ r = Outcome(next, TRUE)
  <2>1. r.ch = next /\ r.ok = TRUE
    BY <1>6, OutcomeIs
  <2>2. DataInv(next, p, a)
    <3>1. p.data = 0 /\ ~p.alert
      BY <1>3, <1>6 DEF Good, DataInv
    <3>2. /\ Len(a.taken) + Len(c.input) + Len(Numbers(c.inbox)) = p.data
          /\ Len(a.taken) \in Nat /\ Len(c.input) \in Nat
      BY <1>1, GoodTypes DEF Good, DataInv
    <3>3. Len(Numbers(c.inbox)) \in Nat
      BY <1>1, NumbersType
    <3>4. Len(a.taken) + Len(c.input) = 0
      <4>1. \A x, y, z \in Nat : x + y + z = 0 => x + y = 0
        OBVIOUS
      <4> QED  BY <3>1, <3>2, <3>3, <4>1, Zenon
    <3>5. Len(Numbers(next.inbox)) = 0 /\ Alert \notin ToSet(next.inbox)
      BY <1>3, NumbersEmpty DEF ToSet
    <3>6. IsRun(Numbers(next.inbox), Len(a.taken) + Len(next.input))
      BY <1>3, NumbersEmpty, RunEmpty
    <3>7. Len(a.taken) + Len(next.input) = 0 /\ p.data = 0
      BY <1>3, <3>1, <3>4
    <3>8. /\ Len(a.taken) + Len(next.input) <= p.data
          /\ Len(a.taken) + Len(next.input) + Len(Numbers(next.inbox)) = p.data
      <4>1. \A x, y, z, w : x + y = 0 /\ z = 0 /\ w = 0 => x + y <= w /\ x + y + z = w
        OBVIOUS
      <4> QED  BY <3>5, <3>7, <4>1, Zenon
    <3>9. IsRun(a.taken, 0) /\ IsRun(next.input, Len(a.taken)) /\ ~a.eof /\ next.state # "CLOSED"
      BY <1>1, <1>3 DEF Good, DataInv, Reading
    <3> QED  BY <3>1, <3>5, <3>6, <3>8, <3>9 DEF DataInv
  <2>3. OutInv(next, a) /\ ScriptInv(next, a)
    BY <1>3 DEF Good, OutInv, ScriptInv, Has
  <2>4. Good(next, p, a)
    BY <1>3, <2>2, <2>3 DEF Good
  <2>5. Onward(c, next)
    BY <1>1, <1>3 DEF Onward
  <2> QED  BY <1>3, <2>1, <2>4, <2>5
<1>7. ASSUME ~(next.steps < 2)
      PROVE  /\ Good(done, p, a) /\ done.socket = "open" /\ done.state = c.state
             /\ done.steps = 2 /\ Onward(c, done) /\ done.state \in Negotiating
  <2>1. c.input \o Numbers(c.inbox) \in Seq(Int)
    BY <1>1, NumbersType
  <2>2. done \in Channels
    BY <1>3, <2>1, Zenon DEF Channels
  <2>3. /\ done.inbox = next.inbox /\ done.steps = next.steps /\ done.flights = next.flights
        /\ done.made = next.made /\ done.life = next.life /\ done.state = next.state
        /\ done.socket = next.socket
        /\ done.input = c.input \o Numbers(c.inbox)
        /\ done.output = next.output /\ done.out = next.out
        /\ done.opened = next.opened /\ done.scripts = next.scripts
    BY <1>3 DEF Channels
  <2> HIDE DEF done
  <2>4. DataInv(done, p, a)
    BY <1>1, <1>3, <2>2, <2>3, DrainedData
  <2>5. OutInv(done, a) /\ ScriptInv(done, a)
    BY <1>3, <2>3 DEF Good, OutInv, ScriptInv, Has
  <2>6. FlightInv(done, p)
    BY <1>3, <2>3 DEF FlightInv, Reading, IsServer
  <2>7. Good(done, p, a)
    BY <2>2, <2>4, <2>5, <2>6 DEF Good
  <2>8. done.steps = 2
    BY <1>1, <1>3, <1>7, <2>3
  <2>9. Onward(c, done)
    BY <1>1, <1>3, <2>3 DEF Onward
  <2> QED  BY <1>1, <1>3, <2>3, <2>7, <2>8, <2>9
<1>8. CASE ~(next.steps < 2) /\ strict /\ r = Outcome(done, FALSE)
  <2> HIDE DEF done
  <2>1. r.ch = done /\ r.ok = FALSE
    BY <1>8, OutcomeIs
  <2>2. done \in Channels
    BY <1>7, <1>8 DEF Good
  <2> QED  BY <1>7, <1>8, <2>1, <2>2, ShutGood
<1>9. CASE ~(next.steps < 2) /\ r \in Open(done)
  <2> HIDE DEF done
  <2>1. /\ Good(r.ch, p, a) /\ Onward(done, r.ch) /\ r.ch.socket = done.socket
        /\ r.ok \in BOOLEAN /\ (r.ok => r.ch.state = "OPEN") /\ (~r.ok => r.ch = done)
    BY <1>7, <1>9, OpenGood
  <2>2. Onward(c, r.ch)
    <3>1. Len(r.ch.out) \in Nat /\ Len(done.out) \in Nat
      BY <1>7, <1>9, <2>1, GoodTypes
    <3> QED  BY <1>1, <1>7, <1>9, <2>1, <3>1 DEF Onward
  <2>3. r.ch \in Channels
    BY <2>1 DEF Good
  <2> QED  BY <1>7, <1>9, <2>1, <2>2, <2>3, ShutGood
<1>10. CASE r = Outcome(IF strict THEN SocketClosed(read, "stale") ELSE read, FALSE)
  <2> DEFINE d == IF strict THEN SocketClosed(read, "stale") ELSE read
             e == [read EXCEPT !.socket = "stale", !.readable = FALSE, !.writable = FALSE]
  <2>1. r.ch = d /\ r.ok = FALSE
    BY <1>10, OutcomeIs
  <2>2. SocketClosed(read, "stale") = e
    BY DEF SocketClosed
  <2> HIDE DEF read
  <2>3. /\ e \in Channels /\ e.inbox = <<>> /\ e.steps = c.steps /\ e.flights = c.flights
        /\ e.made = c.made /\ e.life = c.life /\ e.state = c.state /\ e.socket = "stale"
        /\ e.input = c.input /\ e.output = c.output /\ e.out = c.out
        /\ e.opened = c.opened /\ e.scripts = c.scripts
    <3>1. "stale" \in {"open", "stale", "none"} /\ FALSE \in BOOLEAN
      OBVIOUS
    <3>2. e \in Channels
      BY <1>r, <3>1, Zenon DEF Channels
    <3>3. /\ e.inbox = read.inbox /\ e.steps = read.steps /\ e.flights = read.flights
          /\ e.made = read.made /\ e.life = read.life /\ e.state = read.state
          /\ e.socket = "stale"
          /\ e.input = read.input /\ e.output = read.output /\ e.out = read.out
          /\ e.opened = read.opened /\ e.scripts = read.scripts
      BY <1>r DEF Channels
    <3> HIDE DEF e
    <3> QED  BY <1>r, <3>2, <3>3
  <2> HIDE DEF e
  <2>4. CASE strict
    <3>1. d = e
      BY <2>2, <2>4
    <3>2. Drops(c, e)
      BY <2>3 DEF Drops
    <3>3. Good(e, p, a)
      BY <2>3, <3>2, DropsGood
    <3>4. Onward(c, e)
      BY <1>1, <2>3 DEF Onward
    <3> QED  BY <2>1, <2>3, <3>1, <3>3, <3>4, ShutGood
  <2>5. CASE ~strict
    <3>1. d = read
      BY <2>5
    <3>2. Drops(c, Shut(read)) /\ Shut(read) \in Channels
      BY <1>r, ShutIs DEF Drops
    <3>3. Good(Shut(read), p, a)
      BY <3>2, DropsGood
    <3>4. Onward(c, read)
      BY <1>1, <1>r DEF Onward
    <3> QED  BY <1>r, <2>1, <2>5, <3>1, <3>3, <3>4
  <2> QED  BY <2>4, <2>5
<1> QED  BY <1>4, <1>5, <1>6, <1>8, <1>9, <1>10

LEMMA BegunGood ==
  ASSUME NEW c, NEW p, NEW a, NEW d \in Channels, Good(c, p, a), c.state \in Negotiating,
         d.state = "NEGOTIATING",
         d.flights = IF c.state = "CLIENTINIT" THEN 1 ELSE c.flights,
         d.inbox = c.inbox, d.steps = c.steps, d.made = c.made, d.life = c.life,
         d.socket = c.socket, d.input = c.input, d.output = c.output, d.out = c.out,
         d.opened = c.opened, d.scripts = c.scripts
  PROVE  Good(d, p, a) /\ Onward(c, d)
<1>1. /\ c.state # "OPEN" /\ c.state # "CLOSED" /\ c.steps \in Int /\ c.flights \in Int
      /\ Len(c.out) \in Nat
  BY NegotiatingIs, GoodTypes
<1>2. DataInv(d, p, a)
  BY <1>1 DEF Good, DataInv, Reading
<1>3. OutInv(d, a)
  BY DEF Good, OutInv
<1>4. /\ c.steps >= 0 /\ c.steps + Cardinality(Flights(c.inbox)) <= p.flights
      /\ Reading(c) => c.steps + Cardinality(Flights(c.inbox)) = p.flights
      /\ IsServer(c) => c.flights = c.steps
      /\ ~IsServer(c) => c.flights \in 0 .. 2 /\ (c.steps < 2 => c.flights <= 1 + c.steps)
      /\ c.state = "CLIENTINIT" => ~IsServer(c)
  BY DEF Good, FlightInv
<1>5. (IsServer(d) <=> IsServer(c)) /\ (Reading(d) <=> Reading(c))
  BY <1>1 DEF IsServer, Reading
<1>6. /\ IsServer(c) => d.flights = c.steps
      /\ ~IsServer(c) => d.flights \in 0 .. 2 /\ (c.steps < 2 => d.flights <= 1 + c.steps)
  BY <1>1, <1>4
<1>7. FlightInv(d, p)
  BY <1>4, <1>5, <1>6 DEF FlightInv
<1>8. ScriptInv(d, a)
  BY <1>1 DEF Good, ScriptInv, Has
<1> QED  BY <1>1, <1>2, <1>3, <1>7, <1>8 DEF Good, Onward

LEMMA BlockingStartGood ==
  ASSUME NEW c, NEW p, NEW a, Good(c, p, a), c.state \in Negotiating
  PROVE  LET r == BlockingStart(c) IN
         /\ Good(r.ch, p, a) /\ Onward(c, r.ch) /\ r.ok \in BOOLEAN
         /\ r.ok => r.ch.state = "NEGOTIATING" /\ r.ch.socket = "open"
         /\ ~r.ok => r.ch = c
<1> DEFINE r == BlockingStart(c)
           d == [c EXCEPT !.state = "NEGOTIATING",
                          !.flights = IF c.state = "CLIENTINIT" THEN 1 ELSE @]
<1>1. c \in Channels /\ c.flights \in Int /\ Len(c.out) \in Nat
  BY GoodTypes
<1>2. CASE c.socket # "open" \/ c.steps = 2
  <2>1. r = Outcome(c, FALSE)
    BY <1>2 DEF BlockingStart
  <2> HIDE DEF r
  <2>2. r.ch = c /\ r.ok = FALSE
    BY <2>1, OutcomeIs
  <2>3. Onward(c, c)
    BY <1>1 DEF Onward
  <2> QED  BY <2>2, <2>3 DEF r
<1>3. CASE ~(c.socket # "open" \/ c.steps = 2)
  <2>1. r = Outcome(d, TRUE)
    BY <1>3 DEF BlockingStart
  <2>2. d \in Channels
    <3>1. (IF c.state = "CLIENTINIT" THEN 1 ELSE c.flights) \in Int
      BY <1>1
    <3>2. "NEGOTIATING" \in Negotiating \cup {"OPEN", "CLOSED"}
      BY DEF Negotiating
    <3> QED  BY <1>1, <3>1, <3>2, Zenon DEF Channels
  <2>3. /\ d.state = "NEGOTIATING"
        /\ d.flights = IF c.state = "CLIENTINIT" THEN 1 ELSE c.flights
        /\ d.inbox = c.inbox /\ d.steps = c.steps /\ d.made = c.made /\ d.life = c.life
        /\ d.socket = c.socket /\ d.input = c.input /\ d.output = c.output
        /\ d.out = c.out /\ d.opened = c.opened /\ d.scripts = c.scripts
    BY <1>1 DEF Channels
  <2> HIDE DEF r, d
  <2>4. r.ch = d /\ r.ok = TRUE
    BY <2>1, OutcomeIs
  <2>5. Good(d, p, a) /\ Onward(c, d)
    BY <2>2, <2>3, BegunGood
  <2> QED  BY <1>3, <2>3, <2>4, <2>5 DEF r
<1> QED  BY <1>2, <1>3

LEMMA Negotiated2Good ==
  ASSUME NEW c, NEW p, NEW a, Good(c, p, a), c.state \in Negotiating,
         NEW r \in Negotiated2(c)
  PROVE  /\ r.ok \in BOOLEAN /\ r.ch \in Channels /\ Onward(c, r.ch)
         /\ r.ok => /\ Good(r.ch, p, a) /\ r.ch.socket = "open"
                    /\ r.ch.state \in Negotiating \cup {"OPEN"}
         /\ ~r.ok => Good(Shut(r.ch), p, a) /\ r.ch.state \in Negotiating
<1>1. c \in Channels /\ c.flights \in Int /\ Len(c.out) \in Nat
  BY GoodTypes
<1>2. CASE c.socket # "open"
  <2>1. r = Outcome(c, FALSE)
    BY <1>2 DEF Negotiated2
  <2>2. r.ch = c /\ r.ok = FALSE
    BY <2>1, OutcomeIs
  <2>3. Good(Shut(c), p, a) /\ Onward(c, c)
    BY <1>1, ShutGood DEF Onward
  <2> QED  BY <1>1, <2>2, <2>3
<1>3. CASE c.socket = "open" /\ c.state = "CLIENTINIT"
  <2> DEFINE d == [c EXCEPT !.state = "NEGOTIATING", !.flights = 1]
  <2>1. r = Outcome(d, TRUE)
    BY <1>3 DEF Negotiated2
  <2>2. d \in Channels
    <3>1. 1 \in Int /\ "NEGOTIATING" \in Negotiating \cup {"OPEN", "CLOSED"}
      BY DEF Negotiating
    <3> QED  BY <1>1, <3>1, Zenon DEF Channels
  <2>3. /\ d.state = "NEGOTIATING" /\ d.flights = 1
        /\ d.inbox = c.inbox /\ d.steps = c.steps /\ d.made = c.made /\ d.life = c.life
        /\ d.socket = c.socket /\ d.input = c.input /\ d.output = c.output
        /\ d.out = c.out /\ d.opened = c.opened /\ d.scripts = c.scripts
    BY <1>1 DEF Channels
  <2> HIDE DEF d
  <2>4. r.ch = d /\ r.ok = TRUE
    BY <2>1, OutcomeIs
  <2>5. Good(d, p, a) /\ Onward(c, d)
    BY <1>3, <2>2, <2>3, BegunGood
  <2> QED  BY <1>3, <2>2, <2>3, <2>4, <2>5, NegotiatingIs
<1>4. CASE c.socket = "open" /\ c.state = "SERVERINIT"
  <2> DEFINE d == IF c.inbox = <<>> THEN c ELSE [c EXCEPT !.state = "NEGOTIATING"]
  <2>1. r \in Advance(d, FALSE)
    BY <1>4 DEF Negotiated2
  <2>2. Good(d, p, a) /\ Onward(c, d) /\ d.state \in {"SERVERINIT", "NEGOTIATING"}
        /\ d.socket = "open"
    <3>1. CASE c.inbox = <<>>
      BY <1>1, <1>4, <3>1 DEF Onward
    <3>2. CASE c.inbox # <<>>
      <4> DEFINE e == [c EXCEPT !.state = "NEGOTIATING"]
      <4>1. d = e
        BY <3>2
      <4>2. e \in Channels
        <5>1. "NEGOTIATING" \in Negotiating \cup {"OPEN", "CLOSED"}
          BY DEF Negotiating
        <5> QED  BY <1>1, <5>1, Zenon DEF Channels
      <4>3. /\ e.state = "NEGOTIATING" /\ e.flights = c.flights
            /\ e.inbox = c.inbox /\ e.steps = c.steps /\ e.made = c.made /\ e.life = c.life
            /\ e.socket = c.socket /\ e.input = c.input /\ e.output = c.output
            /\ e.out = c.out /\ e.opened = c.opened /\ e.scripts = c.scripts
        BY <1>1 DEF Channels
      <4> HIDE DEF d, e
      <4>4. Good(e, p, a) /\ Onward(c, e)
        BY <1>4, <4>2, <4>3, BegunGood
      <4> QED  BY <1>4, <4>1, <4>3, <4>4
    <3> QED  BY <3>1, <3>2
  <2> HIDE DEF d
  <2>3. /\ r.ok \in BOOLEAN /\ r.ch \in Channels /\ Onward(d, r.ch)
        /\ r.ok => /\ Good(r.ch, p, a) /\ r.ch.socket = "open"
                   /\ r.ch.state \in {d.state, "OPEN"}
        /\ ~r.ok => Good(Shut(r.ch), p, a) /\ r.ch.state = d.state
    BY <2>1, <2>2, AdvanceGood
  <2>4. Onward(c, r.ch)
    <3>1. Len(r.ch.out) \in Nat /\ Len(d.out) \in Nat
      BY <2>2, <2>3, GoodTypes DEF Channels
    <3> QED  BY <1>1, <2>2, <2>3, <3>1 DEF Onward
  <2> QED  BY <2>2, <2>3, <2>4, NegotiatingIs
<1>5. CASE c.socket = "open" /\ c.state = "NEGOTIATING"
  <2>1. r \in Advance(c, FALSE)
    BY <1>5 DEF Negotiated2
  <2>2. /\ r.ok \in BOOLEAN /\ r.ch \in Channels /\ Onward(c, r.ch)
        /\ r.ok => /\ Good(r.ch, p, a) /\ r.ch.socket = "open"
                   /\ r.ch.state \in {c.state, "OPEN"}
        /\ ~r.ok => Good(Shut(r.ch), p, a) /\ r.ch.state = c.state
    BY <1>5, <2>1, AdvanceGood
  <2> QED  BY <2>2
<1> QED  BY <1>2, <1>3, <1>4, <1>5, NegotiatingIs

LEMMA NegotiatedGood ==
  ASSUME NEW c, NEW p, NEW a, Good(c, p, a), c.state \in Negotiating, NEW r \in Negotiated(c)
  PROVE  /\ r.ok \in BOOLEAN /\ Good(r.ch, p, a) /\ Onward(c, r.ch)
         /\ r.ok => r.ch.socket = "open" /\ r.ch.state \in Negotiating \cup {"OPEN"}
         /\ ~r.ok => r.ch.socket = "none" /\ r.ch.state = "CLOSED"
<1>1. PICK q \in Negotiated2(c) : r = IF q.ok THEN q ELSE Outcome(Failed(q.ch), FALSE)
  BY DEF Negotiated
<1>2. /\ q.ok \in BOOLEAN /\ q.ch \in Channels /\ Onward(c, q.ch)
      /\ q.ok => /\ Good(q.ch, p, a) /\ q.ch.socket = "open"
                 /\ q.ch.state \in Negotiating \cup {"OPEN"}
      /\ ~q.ok => Good(Shut(q.ch), p, a) /\ q.ch.state \in Negotiating
  BY Negotiated2Good
<1>3. CASE q.ok
  <2>1. r = q
    BY <1>1, <1>3
  <2> QED  BY <1>2, <1>3, <2>1
<1>4. CASE ~q.ok
  <2> DEFINE d == Failed(q.ch)
  <2>1. r = Outcome(d, FALSE)
    BY <1>1, <1>4
  <2>2. Good(d, p, a) /\ Onward(q.ch, d) /\ d.state = "CLOSED" /\ d.socket = "none"
    BY <1>2, <1>4, FailedGood
  <2> HIDE DEF d
  <2>3. r.ch = d /\ r.ok = FALSE
    BY <2>1, OutcomeIs
  <2>4. Onward(c, d)
    <3>1. Len(d.out) \in Nat /\ Len(c.out) \in Nat
      BY <2>2, GoodTypes
    <3>2. Len(q.ch.out) \in Nat
      BY <1>2 DEF Channels
    <3> QED  BY <1>2, <2>2, <3>1, <3>2 DEF Onward
  <2> QED  BY <2>2, <2>3, <2>4
<1> QED  BY <1>2, <1>3, <1>4

-----------------------------------------------------------------------------
(* The methods of the channel. *)

\* Another application, but for what it was told
LEMMA AppGood ==
  ASSUME NEW c, NEW p, NEW a, NEW b \in Apps, Good(c, p, a),
         b.taken = a.taken, b.written = a.written,
         c.made = "accept" => b.known = a.known,
         b.eof => c.state = "CLOSED" /\ (c.opened => c.input = <<>>)
  PROVE  Good(c, p, b)
<1>1. DataInv(c, p, b)
  BY DEF Good, DataInv
<1>2. OutInv(c, b)
  BY DEF Good, OutInv
<1>3. ScriptInv(c, b)
  BY DEF Good, ScriptInv
<1> QED  BY <1>1, <1>2, <1>3 DEF Good

LEMMA TakenGood ==
  ASSUME NEW c, NEW p, NEW a, Good(c, p, a), c.state = "OPEN", c.socket = "open"
  PROVE  LET d == Taken(c) IN
         /\ Good(d, p, a) /\ d.inbox = <<>> /\ Onward(c, d)
         /\ d.state = "OPEN" /\ d.socket = "open" /\ d.life = c.life
         /\ d.writeDisabled = c.writeDisabled
<1> DEFINE d == [c EXCEPT !.inbox = <<>>, !.input = @ \o Numbers(c.inbox)]
<1>0. Taken(c) = d
  BY DEF Taken
<1>1. /\ c \in Channels /\ Len(c.out) \in Nat /\ c.input \in Seq(Int)
      /\ c.inbox \in Seq(Units) /\ Reading(c) /\ p.flights \in 0 .. 2
  BY GoodTypes DEF Reading
<1>2. d \in Channels
  <2>1. c.input \o Numbers(c.inbox) \in Seq(Int) /\ <<>> \in Seq(Units)
    BY <1>1, NumbersType
  <2> QED  BY <1>1, <2>1, Zenon DEF Channels
<1>3. /\ d.inbox = <<>> /\ d.input = c.input \o Numbers(c.inbox)
      /\ d.steps = c.steps /\ d.flights = c.flights
      /\ d.made = c.made /\ d.life = c.life /\ d.state = c.state /\ d.socket = c.socket
      /\ d.output = c.output /\ d.out = c.out /\ d.opened = c.opened
      /\ d.scripts = c.scripts /\ d.writeDisabled = c.writeDisabled
  BY <1>1 DEF Channels
<1> HIDE DEF d
<1>4. DataInv(d, p, a)
  BY <1>1, <1>2, <1>3, DrainedData
<1>5. OutInv(d, a) /\ ScriptInv(d, a)
  BY <1>3 DEF Good, OutInv, ScriptInv, Has
<1>6. FlightInv(d, p)
  <2>1. Cardinality(Flights(c.inbox)) \in Nat
    BY <1>1, FlightsFinite
  <2>2. c.steps + Cardinality(Flights(c.inbox)) = p.flights /\ c.steps = 2
    BY <1>1 DEF Good, FlightInv
  <2>3. p.flights = 2
    BY <1>1, <2>1, <2>2
  <2>4. Cardinality(Flights(d.inbox)) = 0
    BY <1>3, FlightsEmpty
  <2>5. d.steps + Cardinality(Flights(d.inbox)) = p.flights /\ d.steps >= 0
    BY <1>3, <2>2, <2>3, <2>4
  <2>6. d.steps + Cardinality(Flights(d.inbox)) <= p.flights
    BY <1>1, <2>5
  <2> QED  BY <1>3, <2>5, <2>6 DEF Good, FlightInv, IsServer
<1>7. Onward(c, d)
  BY <1>1, <1>3 DEF Onward
<1> QED  BY <1>0, <1>2, <1>3, <1>4, <1>5, <1>6, <1>7 DEF Good

\* The first m numbers of Input are given to the application
LEMMA KeptGood ==
  ASSUME NEW c, NEW p, NEW a, Good(c, p, a), NEW m \in 0 .. Len(c.input),
         NEW b \in Apps, b.taken = a.taken \o SubSeq(c.input, 1, m),
         b.written = a.written, b.known = a.known, b.eof = a.eof
  PROVE  LET d == Kept(c, SubSeq(c.input, 1, m)) IN
         /\ Good(d, p, b) /\ d.inbox = c.inbox /\ d.life = c.life /\ d.made = c.made
         /\ d.state = c.state /\ d.socket = c.socket /\ d.out = c.out /\ d.opened = c.opened
         /\ d.input = SubSeq(c.input, m + 1, Len(c.input))
         /\ Len(b.taken) >= Len(a.taken)
<1> DEFINE ret  == SubSeq(c.input, 1, m)
           rest == SubSeq(c.input, m + 1, Len(c.input))
           d    == [c EXCEPT !.input = SubSeq(@, Len(ret) + 1, Len(@))]
<1>1. /\ c \in Channels /\ c.input \in Seq(Int) /\ Len(c.input) \in Nat
      /\ a.taken \in Seq(Int) /\ Len(a.taken) \in Nat /\ p.data \in Nat
  BY GoodTypes
<1>2. IsRun(a.taken, 0) /\ IsRun(c.input, 0 + Len(a.taken))
  BY <1>1 DEF Good, DataInv
<1>3. /\ ret \in Seq(Int) /\ Len(ret) = m /\ IsRun(ret, 0 + Len(a.taken))
      /\ rest \in Seq(Int) /\ Len(rest) = Len(c.input) - m
      /\ IsRun(rest, 0 + Len(a.taken) + m)
  <2>1. 0 + Len(a.taken) \in Int
    BY <1>1
  <2> QED  BY <1>1, <1>2, <2>1, RunSplits
<1>4. d.input = rest
  BY <1>1, <1>3 DEF Channels
<1>5. d \in Channels
  <2>1. SubSeq(c.input, Len(ret) + 1, Len(c.input)) \in Seq(Int)
    BY <1>3
  <2> QED  BY <1>1, <2>1, Zenon DEF Channels
<1>6. /\ d.inbox = c.inbox /\ d.steps = c.steps /\ d.flights = c.flights
      /\ d.made = c.made /\ d.life = c.life /\ d.state = c.state /\ d.socket = c.socket
      /\ d.output = c.output /\ d.out = c.out /\ d.opened = c.opened
      /\ d.scripts = c.scripts
  BY <1>1 DEF Channels
<1>7. Kept(c, ret) = IF "read" \in d.mask /\ d.input # <<>> THEN Post(d, "read") ELSE d
  BY DEF Kept
<1> HIDE DEF d, ret, rest
<1>8. /\ a.taken \o ret \in Seq(Int) /\ Len(a.taken \o ret) = Len(a.taken) + m
      /\ IsRun(a.taken \o ret, 0)
  <2> DEFINE g == a.taken
  <2>1. g \in Seq(Int) /\ IsRun(g, 0) /\ ret \in Seq(Int) /\ IsRun(ret, 0 + Len(g))
    BY <1>1, <1>2, <1>3
  <2> HIDE DEF g
  <2>2. g \o ret \in Seq(Int) /\ Len(g \o ret) = Len(g) + Len(ret) /\ IsRun(g \o ret, 0)
    BY <2>1, RunConcat
  <2> QED  BY <1>3, <2>2 DEF g
<1>9. b.taken = a.taken \o ret
  BY DEF ret
<1>10. /\ Len(b.taken) = Len(a.taken) + m /\ IsRun(b.taken, 0) /\ Len(b.taken) \in Nat
       /\ Len(b.taken) >= Len(a.taken)
  <2> DEFINE x == Len(a.taken)
             v == a.taken \o ret
  <2>1. x \in Nat /\ m \in Nat /\ Len(v) = x + m /\ IsRun(v, 0) /\ b.taken = v
    <3>1. x \in Nat /\ m \in Nat
      BY <1>1
    <3>2. Len(v) = x + m /\ IsRun(v, 0) /\ b.taken = v
      BY <1>8, <1>9, Zenon
    <3> QED  BY <3>1, <3>2
  <2> HIDE DEF x, v
  <2>2. Len(v) \in Nat /\ Len(v) >= x
    BY <2>1
  <2> QED  BY <2>1, <2>2 DEF x
<1>11. Len(b.taken) + Len(d.input) = Len(a.taken) + Len(c.input)
  <2>1. Len(d.input) = Len(c.input) - m
    BY <1>3, <1>4
  <2> DEFINE x == Len(a.taken)
             y == Len(b.taken)
             z == Len(d.input)
             w == Len(c.input)
  <2>2. x \in Int /\ w \in Int /\ y = x + m /\ z = w - m
    <3>1. x \in Nat /\ w \in Nat
      BY <1>1
    <3>2. y = x + m
      BY <1>10, Zenon
    <3>3. z = w - m
      BY <2>1, Zenon
    <3> HIDE DEF x, y, z, w
    <3> QED  BY <3>1, <3>2, <3>3
  <2> HIDE DEF x, y, z, w
  <2>3. y + z = x + w
    BY <2>2
  <2> QED  BY <2>3 DEF x, y, z, w
<1>12. IsRun(d.input, Len(b.taken))
  BY <1>1, <1>3, <1>4, <1>10
<1>13. a.eof /\ c.opened => d.input = <<>>
  <2>1. a.eof /\ c.opened => Len(c.input) = 0
    BY DEF Good, DataInv
  <2>2. a.eof /\ c.opened => Len(rest) = 0
    BY <1>1, <1>3, <2>1
  <2> QED  BY <1>3, <1>4, <2>2
<1>14. DataInv(d, p, b)
  BY <1>6, <1>10, <1>11, <1>12, <1>13 DEF Good, DataInv, Reading
<1>15. OutInv(d, b) /\ ScriptInv(d, b) /\ FlightInv(d, p)
  BY <1>6 DEF Good, OutInv, ScriptInv, Has, FlightInv, Reading, IsServer
<1>16. Good(d, p, b)
  BY <1>5, <1>14, <1>15 DEF Good
<1>17. CASE "read" \in d.mask /\ d.input # <<>>
  <2> DEFINE e == Post(d, "read")
  <2>1. "read" \in Events
    BY DEF Events
  <2>2. e \in Channels /\ Alike(d, e) /\ e.life = d.life
    BY <1>5, <2>1, PostAlike
  <2> HIDE DEF e
  <2>3. Good(e, p, b)
    BY <1>16, <2>2, AlikeGood
  <2>4. Kept(c, ret) = e
    BY <1>7, <1>17 DEF e
  <2> QED  BY <1>4, <1>6, <1>10, <2>2, <2>3, <2>4 DEF Alike, ret, rest
<1>18. CASE ~("read" \in d.mask /\ d.input # <<>>)
  BY <1>4, <1>6, <1>7, <1>10, <1>16, <1>18 DEF ret, rest
<1> QED  BY <1>17, <1>18

\* The end of the stream: nothing is left in the socket
LEMMA EndedGood ==
  ASSUME NEW c, NEW p, NEW a, NEW d \in Channels, Good(c, p, a),
         c.state = "OPEN", c.socket = "open", c.inbox = <<>>,
         d.state = "CLOSED", d.socket # "open" \/ p.alert,
         d.made = c.made, d.input = c.input, d.output = c.output, d.out = c.out,
         d.flights = c.flights, d.steps = c.steps, d.opened = c.opened,
         d.inbox = c.inbox, d.scripts = c.scripts
  PROVE  Good(d, p, a)
<1>1. Reading(c) /\ ~Reading(d)
  BY DEF Reading
<1>2. Len(Numbers(c.inbox)) = 0
  BY NumbersEmpty
<1>3. Len(a.taken) + Len(c.input) + Len(Numbers(c.inbox)) = p.data
  BY <1>1 DEF Good, DataInv
<1>4. Len(a.taken) + Len(c.input) = p.data
  <2>1. Len(a.taken) \in Nat /\ Len(c.input) \in Nat
    BY GoodTypes
  <2> DEFINE x == Len(a.taken)
             y == Len(c.input)
             z == Len(Numbers(c.inbox))
  <2>2. x \in Nat /\ y \in Nat /\ z = 0 /\ x + y + z = p.data
    BY <1>2, <1>3, <2>1
  <2> HIDE DEF x, y, z
  <2>3. x + y = p.data
    BY <2>2
  <2> QED  BY <2>3 DEF x, y
<1>5. DataInv(d, p, a)
  BY <1>1, <1>4 DEF Good, DataInv
<1>6. OutInv(d, a) /\ ScriptInv(d, a)
  BY DEF Good, OutInv, ScriptInv, Has
<1>7. FlightInv(d, p)
  BY <1>1 DEF Good, FlightInv, IsServer
<1> QED  BY <1>5, <1>6, <1>7 DEF Good

-----------------------------------------------------------------------------
(* The methods and the handlers, as the ends of a step. *)

\* Nothing that was read or put on the socket is taken back
After(c, a, d, b) ==
    /\ d.made = c.made /\ Len(d.out) >= Len(c.out) /\ Len(b.taken) >= Len(a.taken)
    /\ b.written \in {a.written, a.written + 1}

\* The step that has c in hand ends well
Goes(c) ==
    /\ Good(ch', peer, app') /\ call' \in Calls /\ CallInv(ch', call', app')
    /\ After(c, app, ch', app')

\* c may be the channel when no call is in progress, once it has been created
Rests(c) == c.life # "new" /\ (c.state = "OPEN" /\ c.life = "live" => c.socket = "open")

LEMMA RestsIs ==
  ASSUME NEW c, NEW a, c.life # "new"
  PROVE  CallInv(c, "none", a) <=> Rests(c)
  BY DEF CallInv, Rests

LEMMA ReturnGoes ==
  ASSUME NEW c, NEW d, Good(d, peer, app'), Rests(d), Return(d), After(c, app, d, app')
  PROVE  Goes(c)
<1>1. ch' = d /\ call' = "none" /\ "none" \in Calls
  BY DEF Return, Calls
<1> QED  BY <1>1, RestsIs DEF Goes, Rests

LEMMA OnwardAfter ==
  ASSUME NEW c, NEW d, NEW p, NEW a, Good(d, p, a), Onward(c, d)
  PROVE  After(c, a, d, a)
<1>1. Len(a.taken) \in Nat
  BY GoodTypes
<1> QED  BY <1>1 DEF After, Onward

LEMMA GoesOnward ==
  ASSUME NEW c, NEW d, Len(c.out) \in Nat, Len(d.out) \in Nat, Onward(c, d), Goes(d)
  PROVE  Goes(c)
<1>1. Len(ch'.out) \in Nat
  BY GoodTypes DEF Goes
<1>2. After(c, app, ch', app')
  BY <1>1 DEF Goes, After, Onward
<1> QED  BY <1>2 DEF Goes

LEMMA ReadReturnsGoes ==
  ASSUME NEW c, NEW status \in {"ok", "eof", "expired"},
         Good(c, peer, app), Rests(c), ReadReturns(c, status),
         status # "ok" => c.state = "OPEN" /\ c.socket = "open" /\ c.inbox = <<>>,
         status = "expired" => peer.alert,
         status = "ok" => c.state = "CLOSED" \/ c.input # <<>>
  PROVE  Goes(c)
<1> DEFINE m   == Min({ReadSize, Len(c.input)})
           ret == SubSeq(c.input, 1, m)
           k   == Kept(c, ret)
           bad == status = "expired" /\ c.writeDisabled
           b   == [app EXCEPT !.taken = @ \o ret]
           e   == [k EXCEPT !.state = "CLOSED"]
           f   == SocketClosed(e, "none")
<1>1. /\ c \in Channels /\ c.input \in Seq(Int) /\ Len(c.input) \in Nat
      /\ app \in Apps /\ app.taken \in Seq(Int) /\ Len(app.taken) \in Nat
      /\ app.eof \in BOOLEAN /\ app.written \in Nat
      /\ Len(c.out) \in Nat
  BY GoodTypes
<1>2. m \in 0 .. Len(c.input) /\ (m = 0 => Len(c.input) = 0)
  <2>1. ReadSize \in Nat /\ ReadSize # 0
    BY TlsAssumption
  <2> DEFINE l == Len(c.input)
             S == {ReadSize, l}
  <2>2. l \in Nat
    BY <1>1
  <2> HIDE DEF l
  <2>3. \E x \in S : \A y \in S : x =< y
    BY <2>1, <2>2
  <2>4. Min(S) \in S /\ Min(S) <= l
    BY <2>3 DEF Min
  <2>5. Min(S) \in 0 .. l /\ (Min(S) = 0 => l = 0)
    BY <2>1, <2>2, <2>4
  <2> QED  BY <2>5 DEF l
<1>3. /\ Return(CASE status = "ok" -> k [] bad -> e [] OTHER -> f)
      /\ app' = [app EXCEPT !.taken = @ \o ret, !.got = IF bad THEN @ ELSE @ \o ret,
                            !.told = FALSE, !.eof = @ \/ (ret = <<>> /\ ~bad),
                            !.lost = @ \/ (ret # <<>> /\ bad)]
  BY DEF ReadReturns
<1> HIDE DEF m
<1>4. /\ app.taken \o ret \in Seq(Int)
      /\ (IF bad THEN app.got ELSE app.got \o ret) \in Seq(Int)
  <2>1. ret \in Seq(Int)
    BY <1>1, <1>2
  <2>2. app.got \in Seq(Int)
    BY <1>1 DEF Apps
  <2>3. app.got \o ret \in Seq(Int)
    BY <2>1, <2>2
  <2> QED  BY <1>1, <2>1, <2>2, <2>3
<1>5. ret = <<>> => c.input = <<>>
  <2>1. Len(ret) = m
    BY <1>1, <1>2
  <2>2. ret = <<>> => Len(c.input) = 0
    BY <1>2, <2>1
  <2> QED  BY <1>1, <2>2
<1>6. /\ b \in Apps /\ b.taken = app.taken \o ret /\ b.written = app.written
      /\ b.known = app.known /\ b.eof = app.eof
  <2>1. b \in Apps
    BY <1>1, <1>4, Zenon DEF Apps
  <2> QED  BY <1>1, <2>1 DEF Apps
<1>7. /\ app' \in Apps /\ app'.taken = b.taken /\ app'.written = b.written
      /\ app'.known = b.known /\ app'.eof = (app.eof \/ (ret = <<>> /\ ~bad))
  <2>1. bad \in BOOLEAN /\ app.lost \in BOOLEAN /\ FALSE \in BOOLEAN
    BY <1>1 DEF Apps
  <2>2. /\ (app.eof \/ (ret = <<>> /\ ~bad)) \in BOOLEAN
        /\ (app.lost \/ (ret # <<>> /\ bad)) \in BOOLEAN
    BY <2>1, <1>1
  <2>3. app' \in Apps
    BY <1>1, <1>3, <1>4, <2>1, <2>2, Zenon DEF Apps
  <2>4. app'.taken = app.taken \o ret /\ app'.written = app.written /\ app'.known = app.known
    BY <1>1, <1>3 DEF Apps
  <2>5. app'.eof = (app.eof \/ (ret = <<>> /\ ~bad))
    BY <1>1, <1>3 DEF Apps
  <2> QED  BY <1>6, <2>3, <2>4, <2>5
<1> HIDE DEF b
<1>8. /\ Good(k, peer, b) /\ k.inbox = c.inbox /\ k.life = c.life /\ k.made = c.made
      /\ k.state = c.state /\ k.socket = c.socket /\ k.out = c.out /\ k.opened = c.opened
      /\ k.input = SubSeq(c.input, m + 1, Len(c.input))
      /\ Len(b.taken) >= Len(app.taken)
  BY <1>2, <1>6, KeptGood
<1>9. c.input = <<>> => k.input = <<>>
  <2>1. c.input = <<>> => Len(c.input) = 0 /\ m = 0
    BY <1>2
  <2>2. SubSeq(<<>>, 1, 0) = <<>>
    OBVIOUS
  <2>3. c.input = <<>> => SubSeq(c.input, m + 1, Len(c.input)) = <<>>
    <3> SUFFICES ASSUME c.input = <<>> PROVE SubSeq(<<>>, m + 1, Len(c.input)) = <<>>
      OBVIOUS
    <3>1. m + 1 = 1 /\ Len(c.input) = 0
      BY <2>1
    <3> QED  BY <2>2, <3>1
  <2>4. k.input = SubSeq(c.input, m + 1, Len(c.input))
    BY <1>8
  <2> HIDE DEF k
  <2> QED  BY <2>3, <2>4
<1> HIDE DEF k, ret
<1>10. (app.eof => c.state = "CLOSED") /\ (app.eof /\ c.opened => k.input = <<>>)
  BY <1>6, <1>8, <1>9 DEF Good, DataInv
<1>11. ASSUME NEW d, Good(d, peer, b), d.made = c.made, d.life = c.life, d.out = c.out,
              d.opened = c.opened, d.input = k.input,
              d.state = "CLOSED" \/ (status = "ok" /\ d.state = c.state),
              d.state = c.state \/ c.state = "OPEN",
              d.state = "OPEN" => d.socket = c.socket,
              Return(d)
       PROVE  Goes(c)
  <2>1. app'.eof => d.state = "CLOSED" /\ (d.opened => d.input = <<>>)
    BY <1>5, <1>7, <1>9, <1>10, <1>11
  <2>2. Good(d, peer, app')
    BY <1>7, <1>11, <2>1, AppGood
  <2>3. Rests(d)
    BY <1>6, <1>7, <1>11, NegotiatingIs DEF Rests
  <2>4. After(c, app, d, app')
    BY <1>1, <1>6, <1>7, <1>8, <1>11 DEF After
  <2> QED  BY <1>11, <2>2, <2>3, <2>4, ReturnGoes
<1>12. CASE status = "ok"
  <2>1. Return(k)
    BY <1>3, <1>12
  <2> QED  BY <1>8, <1>11, <1>12, <2>1
<1>13. CASE status # "ok"
  <2>1. c.state = "OPEN" /\ c.socket = "open" /\ c.inbox = <<>>
    BY <1>13
  <2>2. /\ e \in Channels /\ e.state = "CLOSED" /\ e.socket = k.socket
        /\ e.made = k.made /\ e.life = k.life /\ e.input = k.input /\ e.output = k.output
        /\ e.out = k.out /\ e.flights = k.flights /\ e.steps = k.steps
        /\ e.opened = k.opened /\ e.inbox = k.inbox /\ e.scripts = k.scripts
    <3>1. k \in Channels /\ "CLOSED" \in Negotiating \cup {"OPEN", "CLOSED"}
      BY <1>8 DEF Good
    <3>2. e \in Channels
      BY <3>1, Zenon DEF Channels
    <3> QED  BY <3>1, <3>2 DEF Channels
  <2>3. CASE bad
    <3>1. Return(e)
      BY <1>3, <1>13, <2>3
    <3> HIDE DEF e
    <3>2. Good(e, peer, b)
      BY <1>8, <2>1, <2>2, <2>3, EndedGood
    <3> QED  BY <1>8, <1>11, <2>1, <2>2, <3>1, <3>2
  <2>4. CASE ~bad
    <3>1. Return(f)
      BY <1>3, <1>13, <2>4
    <3> DEFINE h == [e EXCEPT !.socket = "none", !.readable = FALSE, !.writable = FALSE]
    <3>2. f = h
      BY DEF SocketClosed
    <3> HIDE DEF e, f
    <3>3. /\ h \in Channels /\ h.state = "CLOSED" /\ h.socket = "none"
          /\ h.made = e.made /\ h.life = e.life /\ h.input = e.input
          /\ h.output = e.output
          /\ h.out = e.out /\ h.flights = e.flights /\ h.steps = e.steps
          /\ h.opened = e.opened /\ h.inbox = e.inbox /\ h.scripts = e.scripts
      <4>1. "none" \in {"open", "stale", "none"} /\ FALSE \in BOOLEAN
        OBVIOUS
      <4>2. h \in Channels
        BY <2>2, <4>1, Zenon DEF Channels
      <4>3. h.state = e.state /\ h.socket = "none"
        BY <2>2 DEF Channels
      <4>4. /\ h.made = e.made /\ h.life = e.life /\ h.input = e.input
            /\ h.output = e.output
            /\ h.out = e.out /\ h.flights = e.flights /\ h.steps = e.steps
            /\ h.opened = e.opened /\ h.inbox = e.inbox /\ h.scripts = e.scripts
        BY <2>2 DEF Channels
      <4> QED  BY <2>2, <4>2, <4>3, <4>4
    <3> HIDE DEF h
    <3>a. /\ h.made = k.made /\ h.life = k.life /\ h.input = k.input
          /\ h.output = k.output
          /\ h.out = k.out /\ h.flights = k.flights /\ h.steps = k.steps
          /\ h.opened = k.opened /\ h.inbox = k.inbox /\ h.scripts = k.scripts
      BY <2>2, <3>3
    <3>4. Good(h, peer, b)
      <4>1. k.state = "OPEN" /\ k.socket = "open" /\ k.inbox = <<>>
        BY <1>8, <2>1
      <4>2. h.state = "CLOSED" /\ h.socket # "open" /\ h \in Channels /\ Good(k, peer, b)
        BY <1>8, <3>3
      <4> QED  BY <3>a, <4>1, <4>2, EndedGood
    <3> QED  BY <1>8, <1>11, <2>1, <2>2, <3>1, <3>2, <3>3, <3>4
  <2> QED  BY <2>3, <2>4
<1> QED  BY <1>12, <1>13

LEMMA NotTold ==
  ASSUME NEW a \in Apps
  PROVE  LET b == [a EXCEPT !.told = FALSE] IN
         /\ b \in Apps /\ b.taken = a.taken /\ b.written = a.written /\ b.known = a.known
         /\ b.eof = a.eof
<1> DEFINE b == [a EXCEPT !.told = FALSE]
<1>1. FALSE \in BOOLEAN
  OBVIOUS
<1>2. b \in Apps
  BY <1>1, Zenon DEF Apps
<1> QED  BY <1>2 DEF Apps

\* Nothing happens but that the application is to be told again
LEMMA NotToldGoes ==
  ASSUME NEW c, Good(c, peer, app), Rests(c), app' = [app EXCEPT !.told = FALSE]
  PROVE  Good(c, peer, app') /\ Rests(c) /\ After(c, app, c, app')
<1>1. app \in Apps /\ Len(c.out) \in Nat /\ Len(app.taken) \in Nat
  BY GoodTypes
<1>2. /\ app' \in Apps /\ app'.taken = app.taken /\ app'.written = app.written
      /\ app'.known = app.known /\ app'.eof = app.eof
  BY <1>1, NotTold
<1>3. app.eof => c.state = "CLOSED" /\ (c.opened => c.input = <<>>)
  BY DEF Good, DataInv
<1>4. Good(c, peer, app')
  BY <1>2, <1>3, AppGood
<1>5. Rests(c) /\ After(c, app, c, app')
  BY <1>1, <1>2 DEF Rests, After
<1> QED  BY <1>4, <1>5

LEMMA Read2Goes ==
  ASSUME NEW c, Good(c, peer, app), Rests(c), Read2(c),
         c.state = "OPEN", c.socket = "open", c.life = "live"
  PROVE  Goes(c)
<1> DEFINE d == Taken(c)
           s == Status(c)
<1>1. /\ Good(d, peer, app) /\ d.inbox = <<>> /\ Onward(c, d)
      /\ d.state = "OPEN" /\ d.socket = "open" /\ d.life = c.life
  BY TakenGood
<1>2. Len(c.out) \in Nat /\ Len(d.out) \in Nat
  BY <1>1, GoodTypes
<1>3. s \in {"ok", "eof", "expired"} /\ (s = "expired" => peer.alert)
  <2>1. s = "expired" => Alert \in ToSet(c.inbox)
    BY DEF Status, Expired
  <2> QED  BY <2>1 DEF Status, Good, DataInv
<1>4. Rests(d)
  BY <1>1 DEF Rests
<1>5. \/ (d.input # <<>> \/ s # "ok") /\ ReadReturns(d, s)
      \/ /\ ch' = d /\ call' = (IF c.blocking THEN "read" ELSE "none")
         /\ app' = [app EXCEPT !.told = FALSE]
  BY DEF Read2
<1> HIDE DEF d, s
<1>6. CASE (d.input # <<>> \/ s # "ok") /\ ReadReturns(d, s)
  <2>1. Goes(d)
    BY <1>1, <1>3, <1>4, <1>6, ReadReturnsGoes
  <2> QED  BY <1>1, <1>2, <2>1, GoesOnward
<1>7. CASE /\ ch' = d /\ call' = (IF c.blocking THEN "read" ELSE "none")
           /\ app' = [app EXCEPT !.told = FALSE]
  <2>1. Good(d, peer, app') /\ Rests(d) /\ After(d, app, d, app')
    BY <1>1, <1>4, <1>7, NotToldGoes
  <2>2. call' \in {"read", "none"} /\ call' \in Calls
    BY <1>7 DEF Calls
  <2>3. CallInv(d, call', app')
    BY <1>1, <2>1, <2>2, NegotiatingIs DEF CallInv, Rests
  <2>4. Goes(d)
    BY <1>7, <2>1, <2>2, <2>3 DEF Goes
  <2> QED  BY <1>1, <1>2, <2>4, GoesOnward
<1> QED  BY <1>5, <1>6, <1>7

LEMMA ReadOpenGoes ==
  ASSUME NEW c, Good(c, peer, app), Rests(c), ReadOpen(c), c.life = "live"
  PROVE  Goes(c)
<1>1. CASE c.state \in Negotiating
  <2>1. Return(c) /\ app' = [app EXCEPT !.told = FALSE]
    BY <1>1 DEF ReadOpen
  <2>2. Good(c, peer, app') /\ Rests(c) /\ After(c, app, c, app')
    BY <2>1, NotToldGoes
  <2> QED  BY <2>1, <2>2, ReturnGoes
<1>2. CASE /\ c.state \notin Negotiating
           /\ c.state = "OPEN" /\ Len(c.input) < ReadSize /\ ~(c.blocking /\ c.input # <<>>)
  <2>1. Read2(c) /\ c.socket = "open"
    BY <1>2 DEF ReadOpen, Rests
  <2> QED  BY <1>2, <2>1, Read2Goes
<1>3. CASE /\ c.state \notin Negotiating
           /\ ~(c.state = "OPEN" /\ Len(c.input) < ReadSize /\ ~(c.blocking /\ c.input # <<>>))
  <2>1. ReadReturns(c, "ok")
    BY <1>3 DEF ReadOpen
  <2>2. c.state = "CLOSED" \/ c.input # <<>>
    <3>1. c.state = "CLOSED" \/ c.state = "OPEN"
      BY <1>3, GoodTypes
    <3>2. ReadSize \in Nat /\ ReadSize # 0
      BY TlsAssumption
    <3>3. c.input = <<>> => Len(c.input) = 0
      OBVIOUS
    <3> QED  BY <1>3, <3>1, <3>2, <3>3
  <2> QED  BY <2>1, <2>2, ReadReturnsGoes
<1> QED  BY <1>1, <1>2, <1>3

\* The application has written a number more, onto the socket or into Output
LEMMA WrittenGood ==
  ASSUME NEW c, NEW p, NEW a, NEW d \in Channels, NEW b \in Apps, Good(c, p, a),
         b.written = a.written + 1,
         b.taken = a.taken, b.known = a.known, b.eof = a.eof,
         d.made = c.made, d.state = c.state, d.socket = c.socket, d.input = c.input,
         d.flights = c.flights, d.steps = c.steps, d.opened = c.opened,
         d.inbox = c.inbox, d.scripts = c.scripts,
         \/ d.out = c.out /\ d.output = Append(c.output, b.written)
         \/ d.output = c.output /\ c.output = <<>> /\ d.out = Append(c.out, b.written)
  PROVE  Good(d, p, b) /\ Len(d.out) >= Len(c.out)
<1> DEFINE x == c.out
           y == c.output
           n == b.written
<1>1. /\ x \in Seq(Int) /\ y \in Seq(Int) /\ Len(x) \in Nat /\ Len(y) \in Nat
      /\ a.written \in Nat
  BY GoodTypes
<1>2. IsRun(x, 0) /\ IsRun(y, Len(x)) /\ Len(x) + Len(y) = a.written
  BY DEF Good, OutInv
<1> HIDE DEF x, y
<1>3. n = Len(x) + Len(y) + 1 /\ n \in Int
  BY <1>1, <1>2
<1>4. OutInv(d, b) /\ Len(d.out) >= Len(x)
  <2>1. CASE d.out = x /\ d.output = Append(y, n)
    <3>1. Len(Append(y, n)) = Len(y) + 1
      BY <1>1, <1>3
    <3>2. IsRun(Append(y, Len(x) + Len(y) + 1), Len(x))
      BY <1>1, <1>2, RunAppend
    <3>3. Len(x) + Len(Append(y, n)) = n /\ IsRun(Append(y, n), Len(x))
      BY <1>1, <1>3, <3>1, <3>2
    <3>4. OutInv(d, b)
      BY <1>2, <2>1, <3>3 DEF OutInv
    <3> QED  BY <1>1, <2>1, <3>4
  <2>2. CASE d.output = y /\ y = <<>> /\ d.out = Append(x, n)
    <3>1. Len(y) = 0 /\ n = 0 + Len(x) + 1
      BY <1>1, <1>3, <2>2
    <3>2. IsRun(Append(x, 0 + Len(x) + 1), 0) /\ Len(Append(x, n)) = Len(x) + 1
      BY <1>1, <1>2, RunAppend
    <3>3. IsRun(Append(x, n), 0) /\ Len(Append(x, n)) + Len(y) = n
      BY <1>1, <1>3, <3>1, <3>2
    <3>4. IsRun(y, Len(Append(x, n)))
      BY <2>2, RunEmpty
    <3>5. OutInv(d, b)
      BY <2>2, <3>3, <3>4 DEF OutInv
    <3> QED  BY <1>1, <2>2, <3>2, <3>5
  <2> QED  BY <2>1, <2>2 DEF x, y
<1>5. DataInv(d, p, b)
  BY DEF Good, DataInv, Reading
<1>6. FlightInv(d, p) /\ ScriptInv(d, b)
  BY DEF Good, FlightInv, Reading, IsServer, ScriptInv, Has
<1> QED  BY <1>4, <1>5, <1>6 DEF Good, x

LEMMA WriteOpenGoes ==
  ASSUME NEW c, Good(c, peer, app), Rests(c), WriteOpen(c), app.written < MaxWrites
  PROVE  Goes(c)
<1> DEFINE n == app.written + 1
           b == [app EXCEPT !.written = n]
<1>1. /\ c \in Channels /\ app \in Apps /\ app.written \in Nat /\ Len(app.taken) \in Nat
      /\ Len(c.out) \in Nat /\ c.output \in Seq(Int) /\ c.out \in Seq(Int)
  BY GoodTypes
<1>2. /\ b \in Apps /\ b.written = n /\ b.taken = app.taken /\ b.known = app.known
      /\ b.eof = app.eof
  <2>1. n \in 0 .. MaxWrites
    BY <1>1, TlsAssumption
  <2>2. b \in Apps
    BY <1>1, <2>1, Zenon DEF Apps
  <2> QED  BY <1>1, <2>2 DEF Apps
<1>3. n \in Int
  BY <1>1
<1>4. CASE /\ c.state \in Negotiating
           /\ ch' = [c EXCEPT !.output = Append(@, n)] /\ app' = b /\ call' = "none"
  <2> DEFINE d == [c EXCEPT !.output = Append(@, n)]
  <2>1. d \in Channels
    <3>1. Append(c.output, n) \in Seq(Int)
      BY <1>1, <1>3
    <3> QED  BY <1>1, <3>1, Zenon DEF Channels
  <2>2. /\ d.made = c.made /\ d.state = c.state /\ d.socket = c.socket /\ d.input = c.input
        /\ d.flights = c.flights /\ d.steps = c.steps /\ d.opened = c.opened
        /\ d.inbox = c.inbox /\ d.scripts = c.scripts /\ d.life = c.life
        /\ d.out = c.out /\ d.output = Append(c.output, n)
    BY <1>1 DEF Channels
  <2>3. Return(d) /\ app' = b
    BY <1>4 DEF Return
  <2> HIDE DEF d, b
  <2>4. Good(d, peer, b) /\ Len(d.out) >= Len(c.out)
    <3> HIDE DEF n
    <3>1. b.written = app.written + 1
      BY <1>2 DEF n
    <3>2. d.output = Append(c.output, b.written)
      BY <1>2, <2>2
    <3> QED  BY <1>2, <2>1, <2>2, <3>1, <3>2, WrittenGood
  <2>5. Rests(d) /\ After(c, app, d, b)
    BY <1>1, <1>2, <2>2, <2>4 DEF Rests, After
  <2> QED  BY <2>3, <2>4, <2>5, ReturnGoes
<1>5. CASE /\ c.state = "OPEN" /\ ~c.writeDisabled
           /\ ch' = [Flushed(c) EXCEPT !.out = Append(@, n)] /\ app' = b /\ call' = "none"
  <2> DEFINE f == Flushed(c)
             d == [f EXCEPT !.out = Append(@, n)]
  <2>1. /\ Good(f, peer, app) /\ Onward(c, f) /\ f.output = <<>>
        /\ f.state = c.state /\ f.socket = c.socket
    BY FlushedGood
  <2> HIDE DEF f
  <2>2. f \in Channels /\ f.out \in Seq(Int) /\ Len(f.out) \in Nat
    BY <2>1, GoodTypes
  <2>3. d \in Channels
    <3>1. Append(f.out, n) \in Seq(Int)
      BY <1>3, <2>2
    <3> QED  BY <2>2, <3>1, Zenon DEF Channels
  <2>4. /\ d.made = f.made /\ d.state = f.state /\ d.socket = f.socket /\ d.input = f.input
        /\ d.flights = f.flights /\ d.steps = f.steps /\ d.opened = f.opened
        /\ d.inbox = f.inbox /\ d.scripts = f.scripts /\ d.life = f.life
        /\ d.output = f.output /\ d.out = Append(f.out, n)
    BY <2>2 DEF Channels
  <2>5. Return(d) /\ app' = b
    BY <1>5 DEF Return, f
  <2> HIDE DEF d, b
  <2>6. Good(d, peer, b) /\ Len(d.out) >= Len(f.out)
    <3> HIDE DEF n
    <3>1. b.written = app.written + 1
      BY <1>2 DEF n
    <3>2. d.out = Append(f.out, b.written)
      BY <1>2, <2>4
    <3> QED  BY <1>2, <2>1, <2>3, <2>4, <3>1, <3>2, WrittenGood
  <2>7. Rests(d)
    BY <1>2, <2>1, <2>4 DEF Rests, Onward
  <2>8. Len(d.out) \in Nat
    BY <2>6, GoodTypes
  <2>9. After(c, app, d, b)
    BY <1>1, <1>2, <2>1, <2>2, <2>4, <2>6, <2>8 DEF After, Onward
  <2> QED  BY <2>5, <2>6, <2>7, <2>9, ReturnGoes
<1>6. CASE Return(c) /\ app' = app
  <2>1. After(c, app, c, app')
    BY <1>1, <1>6 DEF After
  <2> QED  BY <1>6, <2>1, ReturnGoes
<1> QED  BY <1>4, <1>5, <1>6 DEF WriteOpen

LEMMA ReadableDoneAlike ==
  ASSUME NEW c \in Channels
  PROVE  LET d == ReadableDone(c) IN d \in Channels /\ Alike(c, d) /\ d.life = c.life
<1>1. CASE "read" \in c.mask
  <2>1. ReadableDone(c) = Post(c, "read") /\ "read" \in Events
    BY <1>1 DEF ReadableDone, Events
  <2> QED  BY <2>1, PostAlike
<1>2. CASE "read" \notin c.mask /\ c.state \in Negotiating
  <2>1. ReadableDone(c) = c
    BY <1>2 DEF ReadableDone
  <2> QED  BY <2>1 DEF Alike
<1>3. CASE "read" \notin c.mask /\ c.state \notin Negotiating
  <2> DEFINE d == [c EXCEPT !.readable = FALSE]
  <2>1. ReadableDone(c) = d
    BY <1>3 DEF ReadableDone
  <2>2. d \in Channels
    <3>1. FALSE \in BOOLEAN
      OBVIOUS
    <3> QED  BY <3>1, Zenon DEF Channels
  <2>3. /\ d.made = c.made /\ d.state = c.state /\ d.socket = c.socket
        /\ d.input = c.input /\ d.output = c.output /\ d.out = c.out
        /\ d.flights = c.flights /\ d.steps = c.steps /\ d.opened = c.opened
        /\ d.inbox = c.inbox /\ d.scripts = c.scripts /\ d.life = c.life
    BY DEF Channels
  <2> HIDE DEF d
  <2> QED  BY <2>1, <2>2, <2>3 DEF Alike, Has
<1> QED  BY <1>1, <1>2, <1>3

\* A channel that has lost its socket is cleaned up
LEMMA ShutCleanedUp ==
  ASSUME NEW c \in Channels, NEW p, NEW a, Good(Shut(c), p, a), NEW life \in {"gone", "stray"}
  PROVE  LET d == CleanedUp(c, life) IN
         /\ Good(d, p, a) /\ d.life = life /\ d.made = c.made /\ d.out = c.out
<1> DEFINE b == [c EXCEPT !.socket = "none", !.readable = FALSE, !.writable = FALSE]
           d == [b EXCEPT !.life = life]
           s == Shut(c)
<1>0. CleanedUp(c, life) = d
  BY DEF CleanedUp, SocketClosed
<1>1. /\ s.socket = "none" /\ s.made = c.made /\ s.state = c.state
      /\ s.input = c.input /\ s.output = c.output /\ s.out = c.out
      /\ s.flights = c.flights /\ s.steps = c.steps /\ s.opened = c.opened
      /\ s.inbox = c.inbox /\ s.scripts = c.scripts
  BY ShutIs
<1> HIDE DEF s
<1>2. /\ b \in Channels /\ b.made = c.made /\ b.state = c.state /\ b.socket = "none"
      /\ b.input = c.input /\ b.output = c.output /\ b.out = c.out
      /\ b.flights = c.flights /\ b.steps = c.steps /\ b.opened = c.opened
      /\ b.inbox = c.inbox /\ b.scripts = c.scripts
  <2>1. "none" \in {"open", "stale", "none"} /\ FALSE \in BOOLEAN
    OBVIOUS
  <2>2. b \in Channels
    BY <2>1, Zenon DEF Channels
  <2> QED  BY <2>2 DEF Channels
<1> HIDE DEF b
<1>3. /\ d \in Channels /\ d.made = b.made /\ d.state = b.state /\ d.socket = b.socket
      /\ d.input = b.input /\ d.output = b.output /\ d.out = b.out
      /\ d.flights = b.flights /\ d.steps = b.steps /\ d.opened = b.opened
      /\ d.inbox = b.inbox /\ d.scripts = b.scripts /\ d.life = life
  <2>1. life \in {"new", "live", "gone", "stray"}
    OBVIOUS
  <2>2. d \in Channels
    BY <1>2, <2>1, Zenon DEF Channels
  <2> QED  BY <1>2, <2>2 DEF Channels
<1> HIDE DEF d
<1>4. Alike(s, d)
  BY <1>1, <1>2, <1>3 DEF Alike, Has
<1>5. Good(s, p, a)
  BY DEF s
<1>6. Good(d, p, a)
  BY <1>3, <1>4, <1>5, AlikeGood
<1> QED  BY <1>0, <1>2, <1>3, <1>6

\* A channel that comes to be known to the application, or not
LEMMA KnownGood ==
  ASSUME NEW c, NEW p, NEW a, NEW k \in BOOLEAN, Good(c, p, a),
         c.made = "accept" => k = a.known
  PROVE  LET b == [a EXCEPT !.known = k] IN
         /\ Good(c, p, b) /\ b.known = k /\ b.taken = a.taken /\ b.written = a.written
<1> DEFINE b == [a EXCEPT !.known = k]
<1>1. a \in Apps
  BY DEF Good
<1>2. b \in Apps
  BY <1>1, Zenon DEF Apps
<1>3. b.known = k /\ b.taken = a.taken /\ b.written = a.written /\ b.eof = a.eof
  BY <1>1 DEF Apps
<1> HIDE DEF b
<1>4. a.eof => c.state = "CLOSED" /\ (c.opened => c.input = <<>>)
  BY DEF Good, DataInv
<1>5. Good(c, p, b)
  BY <1>2, <1>3, <1>4, AppGood
<1> QED  BY <1>3, <1>5 DEF b

LEMMA LiveGood ==
  ASSUME NEW c, NEW p, NEW a, Good(c, p, a)
  PROVE  LET d == [c EXCEPT !.life = "live"] IN
         /\ Good(d, p, a) /\ d.life = "live" /\ d.made = c.made /\ d.out = c.out
         /\ d.state = c.state /\ d.socket = c.socket
<1> DEFINE d == [c EXCEPT !.life = "live"]
<1>1. c \in Channels /\ "live" \in {"new", "live", "gone", "stray"}
  BY DEF Good
<1>2. d \in Channels
  BY <1>1, Zenon DEF Channels
<1>3. /\ d.made = c.made /\ d.state = c.state /\ d.socket = c.socket
      /\ d.input = c.input /\ d.output = c.output /\ d.out = c.out
      /\ d.flights = c.flights /\ d.steps = c.steps /\ d.opened = c.opened
      /\ d.inbox = c.inbox /\ d.scripts = c.scripts /\ d.life = "live"
  BY <1>1 DEF Channels
<1> HIDE DEF d
<1>4. Good(d, p, a)
  BY <1>2, <1>3, AlikeGood DEF Alike, Has
<1> QED  BY <1>3, <1>4 DEF d

LEMMA EndedGoes ==
  ASSUME NEW op \in Calls \ {"none"}, NEW r, r.ok \in BOOLEAN, r.ch \in Channels,
         op = "create" => r.ch.life = "new" /\ r.ch.made # "accept",
         op # "create" => r.ch.life = "live",
         op = "write" => app.written < MaxWrites,
         r.ok => Good(r.ch, peer, app) /\ r.ch.socket = "open",
         ~r.ok => Good(Shut(r.ch), peer, app) /\ r.ch.state \in Negotiating,
         op = "handshake" => Good(r.ch, peer, app),
         Ended(op, r)
  PROVE  Goes(r.ch)
<1> DEFINE c == r.ch
<1>1. /\ c \in Channels /\ Len(c.out) \in Nat /\ app \in Apps /\ Len(app.taken) \in Nat
      /\ app.written \in Nat
  <2>1. CASE r.ok
    BY <2>1, GoodTypes
  <2>2. CASE ~r.ok
    BY <2>2, GoodTypes, ShutIs DEF Channels
  <2> QED  BY <2>1, <2>2
<1>2. r.ok /\ op # "create" => Rests(c)
  BY DEF Rests
<1>3. CASE op = "create" /\ r.ok
  <2> DEFINE d == [c EXCEPT !.life = "live"]
             b == [app EXCEPT !.known = TRUE]
  <2>1. Return(d) /\ app' = b
    BY <1>3 DEF Ended
  <2>2. /\ Good(d, peer, app) /\ d.life = "live" /\ d.made = c.made /\ d.out = c.out
        /\ d.state = c.state /\ d.socket = c.socket
    BY <1>3, LiveGood
  <2> HIDE DEF d
  <2>3. Good(d, peer, b) /\ b.known = TRUE /\ b.taken = app.taken /\ b.written = app.written
    BY <1>3, <2>2, KnownGood
  <2> HIDE DEF b
  <2>4. Rests(d) /\ After(c, app, d, b)
    BY <1>1, <1>3, <2>2, <2>3 DEF Rests, After
  <2> QED  BY <2>1, <2>3, <2>4, ReturnGoes
<1>4. CASE op = "create" /\ ~r.ok
  <2> DEFINE d == CleanedUp(c, "gone")
             b == [app EXCEPT !.known = FALSE]
  <2>1. Return(d) /\ app' = b
    BY <1>4 DEF Ended
  <2>2. Good(d, peer, app) /\ d.life = "gone" /\ d.made = c.made /\ d.out = c.out
    BY <1>1, <1>4, ShutCleanedUp
  <2> HIDE DEF d
  <2>3. Good(d, peer, b) /\ b.known = FALSE /\ b.taken = app.taken /\ b.written = app.written
    BY <1>4, <2>2, KnownGood
  <2> HIDE DEF b
  <2>4. Rests(d) /\ After(c, app, d, b)
    BY <1>1, <2>2, <2>3 DEF Rests, After
  <2> QED  BY <2>1, <2>3, <2>4, ReturnGoes
<1>5. ASSUME app' = app
      PROVE  After(c, app, c, app')
  BY <1>1, <1>5 DEF After
<1>6. CASE op = "handshake"
  <2>1. Return(c) /\ app' = app
    BY <1>6 DEF Ended
  <2>2. ~r.ok => c.state # "OPEN"
    BY NegotiatingIs
  <2>3. Rests(c)
    BY <1>2, <1>6, <2>2 DEF Rests
  <2> QED  BY <1>5, <1>6, <2>1, <2>3, ReturnGoes
<1>7. CASE op \in {"read", "write", "readable"} /\ ~r.ok
  <2> DEFINE d == Failed(c)
  <2>1. Return(d) /\ app' = app
    BY <1>7 DEF Ended
  <2>2. Good(d, peer, app) /\ Onward(c, d) /\ d.state = "CLOSED"
    BY <1>1, <1>7, FailedGood
  <2> HIDE DEF d
  <2>3. Rests(d)
    BY <1>7, <2>2 DEF Rests, Onward
  <2>4. After(c, app, d, app)
    BY <2>2, OnwardAfter
  <2> QED  BY <2>1, <2>2, <2>3, <2>4, ReturnGoes
<1>8. CASE op = "read" /\ r.ok
  <2>1. ReadOpen(c)
    BY <1>8 DEF Ended
  <2> QED  BY <1>2, <1>8, <2>1, ReadOpenGoes
<1>9. CASE op = "write" /\ r.ok
  <2>1. WriteOpen(c)
    BY <1>9 DEF Ended
  <2> QED  BY <1>2, <1>9, <2>1, WriteOpenGoes
<1>10. CASE op = "readable" /\ r.ok
  <2> DEFINE d == ReadableDone(c)
  <2>1. Return(d) /\ app' = app
    BY <1>10 DEF Ended
  <2>2. d \in Channels /\ Alike(c, d) /\ d.life = c.life
    BY <1>1, ReadableDoneAlike
  <2> HIDE DEF d
  <2>3. Good(d, peer, app)
    BY <1>10, <2>2, AlikeGood
  <2>4. Rests(d)
    BY <1>2, <1>10, <2>2 DEF Rests, Alike
  <2>5. After(c, app, d, app)
    BY <1>1, <2>2 DEF After, Alike
  <2> QED  BY <2>1, <2>3, <2>4, <2>5, ReturnGoes
<1>11. \/ op = "create" \/ op = "handshake" \/ op = "read" \/ op = "write"
       \/ op = "readable"
  BY DEF Calls
<1> QED  BY <1>3, <1>4, <1>6, <1>7, <1>8, <1>9, <1>10, <1>11

LEMMA NegotiateGoes ==
  ASSUME NEW c, c = ch, NEW op \in {"read", "write", "readable"},
         Good(c, peer, app), Rests(c), c.life = "live", c.state \in Negotiating,
         op = "write" => app.written < MaxWrites, Negotiate(op)
  PROVE  Goes(c)
<1>1. /\ c \in Channels /\ Len(c.out) \in Nat /\ Len(app.taken) \in Nat
      /\ op \in Calls \ {"none"} /\ op # "create" /\ op # "handshake"
  BY GoodTypes DEF Calls
<1>2. CASE MustBlock(c)
  <2> DEFINE r == BlockingStart(c)
  <2>1. /\ Good(r.ch, peer, app) /\ Onward(c, r.ch) /\ r.ok \in BOOLEAN
        /\ r.ok => r.ch.state = "NEGOTIATING" /\ r.ch.socket = "open"
        /\ ~r.ok => r.ch = c
    BY BlockingStartGood
  <2>2. IF r.ok THEN ch' = r.ch /\ call' = op /\ app' = app ELSE Ended(op, r)
    BY <1>2 DEF Negotiate
  <2> HIDE DEF r
  <2>3. CASE r.ok
    <3>1. CallInv(r.ch, op, app)
      BY <1>1, <2>1, <2>3 DEF CallInv, Onward
    <3>2. After(c, app, r.ch, app)
      BY <2>1, OnwardAfter
    <3> QED  BY <1>1, <2>1, <2>2, <2>3, <3>1, <3>2 DEF Goes
  <2>4. CASE ~r.ok
    <3>1. Ended(op, r) /\ r.ch = c
      BY <2>1, <2>2, <2>4
    <3>2. Good(Shut(r.ch), peer, app) /\ r.ch.state \in Negotiating
      BY <3>1, ShutGood
    <3>3. Goes(r.ch)
      BY <1>1, <2>1, <2>4, <3>1, <3>2, EndedGoes
    <3> QED  BY <3>1, <3>3
  <2> QED  BY <2>1, <2>3, <2>4
<1>3. CASE ~MustBlock(c)
  <2>1. PICK r \in Negotiated(c) :
          IF r.ok THEN Ended(op, r) ELSE Return(r.ch) /\ app' = app
    BY <1>3 DEF Negotiate
  <2>2. /\ r.ok \in BOOLEAN /\ Good(r.ch, peer, app) /\ Onward(c, r.ch)
        /\ r.ok => r.ch.socket = "open" /\ r.ch.state \in Negotiating \cup {"OPEN"}
        /\ ~r.ok => r.ch.socket = "none" /\ r.ch.state = "CLOSED"
    BY NegotiatedGood
  <2>3. CASE r.ok
    <3>1. r.ch \in Channels /\ Len(r.ch.out) \in Nat /\ r.ch.life = "live"
      BY <2>2, GoodTypes DEF Onward
    <3>a. Ended(op, r)
      BY <2>1, <2>3
    <3>b. /\ r.ok \in BOOLEAN /\ Good(r.ch, peer, app) /\ r.ch.socket = "open"
      BY <2>2, <2>3, <3>1
    <3>2. Goes(r.ch)
      <4>1. op \in Calls \ {"none"} /\ r.ok \in BOOLEAN /\ r.ch \in Channels
        BY <1>1, <3>b, <3>1
      <4>3. /\ op = "create" => r.ch.life = "new" /\ r.ch.made # "accept"
            /\ op # "create" => r.ch.life = "live"
            /\ op = "write" => app.written < MaxWrites
            /\ op = "handshake" => Good(r.ch, peer, app)
        BY <1>1, <3>1
      <4>4. r.ok => Good(r.ch, peer, app) /\ r.ch.socket = "open"
        BY <3>b
      <4>5. ~r.ok => Good(Shut(r.ch), peer, app) /\ r.ch.state \in Negotiating
        BY <2>3
      <4> QED  BY <3>a, <4>1, <4>3, <4>4, <4>5, EndedGoes
    <3> QED  BY <1>1, <2>2, <3>1, <3>2, GoesOnward
  <2>4. CASE ~r.ok
    <3>1. Return(r.ch) /\ app' = app
      BY <2>1, <2>4
    <3>2. Rests(r.ch)
      BY <2>2, <2>4 DEF Rests, Onward
    <3>3. After(c, app, r.ch, app)
      BY <2>2, OnwardAfter
    <3> QED  BY <2>2, <3>1, <3>2, <3>3, ReturnGoes
  <2> QED  BY <2>2, <2>3, <2>4
<1> QED  BY <1>2, <1>3

-----------------------------------------------------------------------------
(* The steps. *)

LEMMA InvTypes ==
  ASSUME TlsInv
  PROVE  /\ Good(ch, peer, app) /\ ch \in Channels /\ app \in Apps /\ call \in Calls
         /\ Len(ch.out) \in Nat /\ Len(app.taken) \in Nat /\ app.written \in Nat
         /\ CallInv(ch, call, app) /\ (call = "none" /\ ch.life # "new" => Rests(ch))
  BY GoodTypes DEF TlsInv, CallInv, Rests

LEMMA AlikeGoes ==
  ASSUME TlsInv, NEW d \in Channels, Alike(ch, d), d.life = ch.life,
         ch' = d, call' = call, app' = app
  PROVE  Goes(ch)
<1>1. Good(d, peer, app)
  BY InvTypes, AlikeGood
<1>2. CallInv(d, call, app)
  BY InvTypes DEF CallInv, Alike
<1>3. After(ch, app, d, app)
  BY InvTypes DEF After, Alike
<1> QED  BY <1>1, <1>2, <1>3, InvTypes DEF Goes

LEMMA CreateGoes ==
  ASSUME TlsInv, Create
  PROVE  Goes(ch)
<1> DEFINE wrapped == ch.made \in {"client", "server"} /\ ~ch.blocking
           c == [ch EXCEPT !.readable = wrapped \/ ch.made = "accept", !.writable = wrapped]
           live(d) == [d EXCEPT !.life = "live"]
           known(k) == app' = [app EXCEPT !.known = k]
<1>1. /\ Good(ch, peer, app) /\ ch \in Channels /\ app \in Apps /\ Len(ch.out) \in Nat
      /\ Len(app.taken) \in Nat /\ app.written \in Nat
      /\ ch.life = "new" /\ call = "none"
      /\ ~app.known /\ ch.state \in Negotiating /\ ch.socket = "open" /\ ch.steps # 2
  BY InvTypes DEF Create, CallInv
<1>2. \/ /\ ch.made = "async"
         /\ Return(live(c)) /\ known(TRUE)
      \/ /\ ch.made # "async" /\ MustBlock(c)
         /\ ch' = BlockingStart(c).ch /\ call' = "create" /\ app' = app
      \/ /\ ~MustBlock(c)
         /\ \E r \in Negotiated(c) :
              IF r.ok THEN Return(live(r.ch)) /\ known(ch.made # "accept")
              ELSE /\ Return(CleanedUp(r.ch, IF ch.made = "accept" THEN "stray" ELSE "gone"))
                   /\ app' = app
  BY DEF Create
<1>3. c \in Channels
  <2>1. (wrapped \/ ch.made = "accept") \in BOOLEAN /\ wrapped \in BOOLEAN
    OBVIOUS
  <2> QED  BY <1>1, <2>1, Zenon DEF Channels
<1>4. /\ c.made = ch.made /\ c.state = ch.state /\ c.socket = ch.socket
      /\ c.input = ch.input /\ c.output = ch.output /\ c.out = ch.out
      /\ c.flights = ch.flights /\ c.steps = ch.steps /\ c.opened = ch.opened
      /\ c.inbox = ch.inbox /\ c.scripts = ch.scripts /\ c.life = ch.life
  BY <1>1 DEF Channels
<1> HIDE DEF c
<1>5. Good(c, peer, app)
  <2>1. Alike(ch, c)
    BY <1>4 DEF Alike, Has
  <2> QED  BY <1>1, <1>3, <2>1, AlikeGood
<1>6. CASE ch.made = "async" /\ Return(live(c)) /\ known(TRUE)
  <2> DEFINE d == live(c)
             b == [app EXCEPT !.known = TRUE]
  <2>1. Return(d) /\ app' = b
    BY <1>6
  <2>2. /\ Good(d, peer, app) /\ d.life = "live" /\ d.made = c.made /\ d.out = c.out
        /\ d.state = c.state /\ d.socket = c.socket
    BY <1>5, LiveGood
  <2> HIDE DEF d
  <2>3. Good(d, peer, b) /\ b.known = TRUE /\ b.taken = app.taken /\ b.written = app.written
    BY <1>4, <1>6, <2>2, KnownGood
  <2> HIDE DEF b
  <2>4. Rests(d) /\ After(ch, app, d, b)
    BY <1>1, <1>4, <2>2, <2>3 DEF Rests, After
  <2> QED  BY <2>1, <2>3, <2>4, ReturnGoes
<1>7. CASE /\ ch.made # "async" /\ MustBlock(c)
           /\ ch' = BlockingStart(c).ch /\ call' = "create" /\ app' = app
  <2> DEFINE r == BlockingStart(c)
  <2>1. r.ok
    <3> DEFINE e == [c EXCEPT !.state = "NEGOTIATING",
                              !.flights = IF c.state = "CLIENTINIT" THEN 1 ELSE @]
    <3>1. r = Outcome(e, TRUE)
      BY <1>1, <1>4 DEF BlockingStart
    <3> HIDE DEF r, e
    <3>2. r.ok = TRUE
      BY <3>1, OutcomeIs
    <3> QED  BY <3>2
  <2>2. /\ Good(r.ch, peer, app) /\ Onward(c, r.ch)
        /\ r.ok => r.ch.state = "NEGOTIATING" /\ r.ch.socket = "open"
    BY <1>1, <1>4, <1>5, BlockingStartGood
  <2>3. ch' = r.ch /\ call' = "create" /\ app' = app
    BY <1>7
  <2> HIDE DEF r
  <2>4. r.ch.made # "accept" /\ r.ch.life = "new"
    BY <1>1, <1>4, <1>7, <2>2 DEF MustBlock, Onward
  <2>5. CallInv(r.ch, "create", app) /\ "create" \in Calls
    BY <1>1, <2>1, <2>2, <2>4, NegotiatingIs DEF CallInv, Calls
  <2>6. After(ch, app, r.ch, app)
    BY <1>1, <1>4, <2>2, OnwardAfter DEF After
  <2> QED  BY <2>2, <2>3, <2>5, <2>6 DEF Goes
<1>8. CASE /\ ~MustBlock(c)
           /\ \E r \in Negotiated(c) :
                IF r.ok THEN Return(live(r.ch)) /\ known(ch.made # "accept")
                ELSE /\ Return(CleanedUp(r.ch, IF ch.made = "accept" THEN "stray" ELSE "gone"))
                     /\ app' = app
  <2>1. PICK r \in Negotiated(c) :
                IF r.ok THEN Return(live(r.ch)) /\ known(ch.made # "accept")
                ELSE /\ Return(CleanedUp(r.ch, IF ch.made = "accept" THEN "stray" ELSE "gone"))
                     /\ app' = app
    BY <1>8
  <2>2. /\ r.ok \in BOOLEAN /\ Good(r.ch, peer, app) /\ Onward(c, r.ch)
        /\ r.ok => r.ch.socket = "open" /\ r.ch.state \in Negotiating \cup {"OPEN"}
    BY <1>1, <1>4, <1>5, NegotiatedGood
  <2>3. r.ch.made = ch.made /\ Len(r.ch.out) >= Len(ch.out)
    BY <1>4, <2>2 DEF Onward
  <2>4. CASE r.ok
    <3> DEFINE d == live(r.ch)
               k == ch.made # "accept"
               b == [app EXCEPT !.known = k]
    <3>1. Return(d) /\ app' = b
      BY <2>1, <2>4
    <3>2. /\ Good(d, peer, app) /\ d.life = "live" /\ d.made = r.ch.made /\ d.out = r.ch.out
          /\ d.state = r.ch.state /\ d.socket = r.ch.socket
      BY <2>2, LiveGood
    <3> HIDE DEF d
    <3>3. k \in BOOLEAN /\ (d.made = "accept" => k = app.known)
      <4>1. app.known \in BOOLEAN
        BY <1>1 DEF Apps
      <4> QED  BY <1>1, <2>3, <3>2, <4>1
    <3> HIDE DEF k
    <3>4. Good(d, peer, b) /\ b.taken = app.taken /\ b.written = app.written
      BY <3>2, <3>3, KnownGood
    <3> HIDE DEF b
    <3>5. Rests(d) /\ After(ch, app, d, b)
      BY <1>1, <2>2, <2>3, <2>4, <3>2, <3>4 DEF Rests, After
    <3> QED  BY <3>1, <3>4, <3>5, ReturnGoes
  <2>5. CASE ~r.ok
    <3> DEFINE life == IF ch.made = "accept" THEN "stray" ELSE "gone"
               d == CleanedUp(r.ch, life)
    <3>1. Return(d) /\ app' = app
      BY <2>1, <2>5
    <3>2. life \in {"gone", "stray"}
      OBVIOUS
    <3> HIDE DEF life
    <3>3. Good(d, peer, app) /\ d.life = life /\ d.made = r.ch.made /\ d.out = r.ch.out
      BY <2>2, <3>2, CleanedUpGood
    <3> HIDE DEF d
    <3>4. Rests(d) /\ After(ch, app, d, app)
      BY <1>1, <2>3, <3>2, <3>3 DEF Rests, After
    <3> QED  BY <3>1, <3>3, <3>4, ReturnGoes
  <2> QED  BY <2>2, <2>4, <2>5
<1> QED  BY <1>2, <1>6, <1>7, <1>8

LEMMA CallStepGoes ==
  ASSUME TlsInv, CallStep
  PROVE  Goes(ch)
<1>1. PICK c : c = ch
  OBVIOUS
<1>2. /\ Good(c, peer, app) /\ c \in Channels /\ app \in Apps /\ Len(c.out) \in Nat
      /\ Len(app.taken) \in Nat
      /\ CallInv(c, call, app) /\ call \in Calls /\ call # "none" /\ c.socket = "open"
  BY <1>1, InvTypes DEF CallStep, CallInv
<1>3. PICK op : op = call
  OBVIOUS
<1>4. /\ op \in Calls \ {"none"} /\ CallInv(c, op, app)
  BY <1>2, <1>3
<1>5. CASE c.state = "NEGOTIATING"
  <2>1. PICK r \in Advance(c, TRUE) :
          IF r.ok /\ r.ch.state = "NEGOTIATING"
          THEN ch' = r.ch /\ call' = op /\ app' = app
          ELSE Ended(op, r)
    BY <1>1, <1>3, <1>5 DEF CallStep
  <2>2. TRUE \in BOOLEAN /\ c.state \in {"SERVERINIT", "NEGOTIATING"}
    BY <1>5
  <2>3. /\ r.ok \in BOOLEAN /\ r.ch \in Channels /\ Onward(c, r.ch)
        /\ r.ok => /\ Good(r.ch, peer, app) /\ r.ch.socket = "open"
                   /\ r.ch.state \in {c.state, "OPEN"}
        /\ ~r.ok => /\ Good(Shut(r.ch), peer, app) /\ r.ch.state = c.state
                    /\ Good(r.ch, peer, app)
    BY <1>2, <2>2, AdvanceGood
  <2>4. r.ch.made = c.made /\ r.ch.life = c.life /\ Len(r.ch.out) \in Nat
    BY <2>3, GoodTypes DEF Onward
  <2>5. CASE r.ok /\ r.ch.state = "NEGOTIATING"
    <3>1. ch' = r.ch /\ call' = op /\ app' = app
      BY <2>1, <2>5
    <3>2. CallInv(r.ch, op, app)
      BY <1>4, <2>3, <2>4, <2>5, NegotiatingIs DEF CallInv
    <3>3. After(c, app, r.ch, app)
      BY <2>3, <2>5, OnwardAfter
    <3> QED  BY <1>1, <1>2, <1>3, <2>3, <2>5, <3>1, <3>2, <3>3 DEF Goes
  <2>6. CASE ~(r.ok /\ r.ch.state = "NEGOTIATING")
    <3>1. Ended(op, r)
      BY <2>1, <2>6
    <3>2. op \in Calls \ {"none"} /\ r.ok \in BOOLEAN /\ r.ch \in Channels
      BY <1>4, <2>3
    <3>3. /\ op = "create" => r.ch.life = "new" /\ r.ch.made # "accept"
          /\ op # "create" => r.ch.life = "live"
          /\ op = "write" => app.written < MaxWrites
      BY <1>4, <2>4 DEF CallInv
    <3>4. r.ok => Good(r.ch, peer, app) /\ r.ch.socket = "open"
      BY <2>3
    <3>5. ~r.ok => Good(Shut(r.ch), peer, app) /\ r.ch.state \in Negotiating
      BY <1>5, <2>3 DEF Negotiating
    <3>6. op = "handshake" => Good(r.ch, peer, app)
      BY <2>3
    <3>7. Goes(r.ch)
      BY <3>1, <3>2, <3>3, <3>4, <3>5, <3>6, EndedGoes
    <3> QED  BY <1>1, <1>2, <2>3, <2>4, <3>7, GoesOnward
  <2> QED  BY <2>5, <2>6
<1>6. CASE c.state = "OPEN"
  <2>1. Read2(c)
    BY <1>1, <1>6 DEF CallStep
  <2>2. Rests(c) /\ c.life = "live"
    BY <1>4, <1>6, NegotiatingIs DEF CallInv, Rests
  <2>3. Goes(c)
    BY <1>2, <1>6, <2>1, <2>2, Read2Goes
  <2> QED  BY <1>1, <2>3
<1> QED  BY <1>1, <1>5, <1>6 DEF CallStep

LEMMA LoopIs ==
  ASSUME TlsInv, EventLoop
  PROVE  call = "none" /\ ch.life = "live" /\ Rests(ch)
  BY InvTypes DEF EventLoop, Exists

LEMMA OnReadableGoes ==
  ASSUME TlsInv, OnReadable
  PROVE  Goes(ch)
<1>1. PICK c : c = ch
  OBVIOUS
<1>2. Good(c, peer, app) /\ Rests(c) /\ c.life = "live" /\ call = "none" /\ c \in Channels
  BY <1>1, InvTypes, LoopIs DEF OnReadable
<1>3. CASE c.state \in Negotiating
  <2>1. Negotiate("readable")
    BY <1>1, <1>3 DEF OnReadable
  <2> QED  BY <1>1, <1>2, <1>3, <2>1, NegotiateGoes
<1>4. CASE c.state \notin Negotiating
  <2> DEFINE d == ReadableDone(c)
  <2>1. Return(d) /\ app' = app
    BY <1>1, <1>4 DEF OnReadable
  <2>2. d \in Channels /\ Alike(c, d) /\ d.life = c.life
    BY <1>2, ReadableDoneAlike
  <2> HIDE DEF d
  <2> QED  BY <1>1, <1>2, <2>1, <2>2, AlikeGoes DEF Return
<1> QED  BY <1>3, <1>4

LEMMA OnWritableGoes ==
  ASSUME TlsInv, OnWritable
  PROVE  Goes(ch)
<1> DEFINE c == IF "write" \in ch.mask THEN ch ELSE [ch EXCEPT !.writable = FALSE]
           done(d) == IF "write" \in ch.mask /\ d.state = "OPEN" THEN Post(d, "write") ELSE d
<1>1. /\ Good(ch, peer, app) /\ Rests(ch) /\ ch.life = "live" /\ call = "none"
      /\ ch \in Channels /\ Len(ch.out) \in Nat /\ Len(app.taken) \in Nat
      /\ app.written \in Nat
  BY InvTypes, LoopIs DEF OnWritable
<1>2. /\ call' = "none" /\ app' = app
      /\ IF c.state \in Negotiating
         THEN \E r \in Negotiated(c) : ch' = IF r.ok THEN done(r.ch) ELSE r.ch
         ELSE ch' = done(c)
  BY <1>1 DEF OnWritable
<1>3. c \in Channels /\ Alike(ch, c) /\ c.life = ch.life
  <2>1. CASE "write" \in ch.mask
    BY <1>1, <2>1 DEF Alike
  <2>2. CASE "write" \notin ch.mask
    <3> DEFINE e == [ch EXCEPT !.writable = FALSE]
    <3>1. e \in Channels
      <4>1. FALSE \in BOOLEAN
        OBVIOUS
      <4> QED  BY <1>1, <4>1, Zenon DEF Channels
    <3>2. /\ e.made = ch.made /\ e.state = ch.state /\ e.socket = ch.socket
          /\ e.input = ch.input /\ e.output = ch.output /\ e.out = ch.out
          /\ e.flights = ch.flights /\ e.steps = ch.steps /\ e.opened = ch.opened
          /\ e.inbox = ch.inbox /\ e.scripts = ch.scripts /\ e.life = ch.life
      BY <1>1 DEF Channels
    <3>3. c = e
      BY <2>2
    <3> HIDE DEF c, e
    <3> QED  BY <3>1, <3>2, <3>3 DEF Alike, Has
  <2> QED  BY <2>1, <2>2
<1> HIDE DEF c
<1>4. Good(c, peer, app) /\ Rests(c) /\ c.life = "live" /\ c.out = ch.out /\ c.made = ch.made
  <2>1. Good(c, peer, app)
    BY <1>1, <1>3, AlikeGood
  <2> QED  BY <1>1, <1>3, <2>1 DEF Alike, Rests
<1>5. ASSUME NEW d, Good(d, peer, app), Rests(d), d.made = ch.made,
             Len(d.out) >= Len(ch.out), NEW e \in {d, Post(d, "write")}, ch' = e
      PROVE  Goes(ch)
  <2>1. d \in Channels /\ "write" \in Events
    BY <1>5 DEF Good, Events
  <2>2. e \in Channels /\ Alike(d, e) /\ e.life = d.life
    <3>1. CASE e = d
      BY <2>1, <3>1 DEF Alike
    <3>2. CASE e = Post(d, "write")
      BY <2>1, <3>2, PostAlike
    <3> QED  BY <3>1, <3>2
  <2>3. Good(e, peer, app)
    BY <1>5, <2>2, AlikeGood
  <2>4. Rests(e) /\ After(ch, app, e, app)
    BY <1>1, <1>5, <2>2 DEF Rests, Alike, After
  <2>5. Return(e)
    BY <1>2, <1>5 DEF Return
  <2> QED  BY <1>2, <2>3, <2>4, <2>5, ReturnGoes
<1>6. \A d : done(d) \in {d, Post(d, "write")}
  OBVIOUS
<1> HIDE DEF done
<1>7. CASE c.state \in Negotiating
  <2>1. PICK r \in Negotiated(c) : ch' = IF r.ok THEN done(r.ch) ELSE r.ch
    BY <1>2, <1>7
  <2>2. /\ r.ok \in BOOLEAN /\ Good(r.ch, peer, app) /\ Onward(c, r.ch)
        /\ r.ok => r.ch.socket = "open" /\ r.ch.state \in Negotiating \cup {"OPEN"}
        /\ ~r.ok => r.ch.socket = "none" /\ r.ch.state = "CLOSED"
    BY <1>4, <1>7, NegotiatedGood
  <2>3. Rests(r.ch) /\ r.ch.made = ch.made /\ Len(r.ch.out) >= Len(ch.out)
    BY <1>4, <2>2 DEF Rests, Onward
  <2>4. ch' \in {r.ch, Post(r.ch, "write")}
    BY <1>6, <2>1
  <2> QED  BY <1>5, <2>2, <2>3, <2>4
<1>8. CASE c.state \notin Negotiating
  <2>1. ch' \in {c, Post(c, "write")}
    BY <1>2, <1>6, <1>8
  <2>2. Len(c.out) >= Len(ch.out)
    BY <1>1, <1>4
  <2> QED  BY <1>4, <1>5, <2>1, <2>2
<1> QED  BY <1>7, <1>8

\* The first of the scripts is taken out of them
LEMMA ScriptsTail ==
  ASSUME NEW s \in Seq(Scripts), s # <<>>, IsInjective(s)
  PROVE  /\ Tail(s) \in Seq(Scripts) /\ IsInjective(Tail(s)) /\ Head(s) \in ToSet(s)
         /\ \A x : x \in ToSet(Tail(s)) <=> x \in ToSet(s) /\ x # Head(s)
<1> DEFINE t == Tail(s)
           h == Head(s)
<1>1. /\ t \in Seq(Scripts) /\ Len(s) \in Nat /\ Len(s) # 0 /\ Len(t) = Len(s) - 1
      /\ h = s[1] /\ \A k \in 1 .. Len(t) : t[k] = s[k + 1]
  OBVIOUS
<1>2. \A i, j \in 1 .. Len(s) : s[i] = s[j] => i = j
  BY DEF IsInjective
<1> HIDE DEF t, h
<1>3. IsInjective(t)
  <2>1. ASSUME NEW i \in 1 .. Len(t), NEW j \in 1 .. Len(t), t[i] = t[j]
        PROVE  i = j
    <3>1. i + 1 \in 1 .. Len(s) /\ j + 1 \in 1 .. Len(s)
      BY <1>1
    <3>2. s[i + 1] = s[j + 1]
      BY <1>1, <2>1
    <3>3. i + 1 = j + 1
      BY <1>2, <3>1, <3>2
    <3> QED  BY <3>3
  <2> QED  BY <1>1, <2>1 DEF IsInjective
<1>4. 1 \in 1 .. Len(s) /\ h \in ToSet(s)
  <2>1. 1 \in 1 .. Len(s)
    BY <1>1
  <2> QED  BY <1>1, <2>1 DEF ToSet
<1>5. ASSUME NEW x, x \in ToSet(t)
      PROVE  x \in ToSet(s) /\ x # h
  <2>1. PICK k \in 1 .. Len(t) : t[k] = x
    BY <1>1, <1>5 DEF ToSet
  <2>2. k + 1 \in 1 .. Len(s) /\ s[k + 1] = x /\ k + 1 # 1
    BY <1>1, <2>1
  <2> QED  BY <1>1, <1>2, <1>4, <2>2 DEF ToSet
<1>6. ASSUME NEW x, x \in ToSet(s), x # h
      PROVE  x \in ToSet(t)
  <2>1. PICK k \in 1 .. Len(s) : s[k] = x
    BY <1>6 DEF ToSet
  <2>2. k # 1
    BY <1>1, <1>6, <2>1
  <2>3. k - 1 \in 1 .. Len(t) /\ (k - 1) + 1 = k
    BY <1>1, <2>2
  <2>4. t[k - 1] = x
    BY <1>1, <2>1, <2>3
  <2> QED  BY <1>1, <2>3, <2>4 DEF ToSet
<1>7. \A x : x \in ToSet(t) <=> x \in ToSet(s) /\ x # h
  BY <1>5, <1>6
<1> QED  BY <1>1, <1>3, <1>4, <1>7 DEF t, h

LEMMA RunScriptGoes ==
  ASSUME TlsInv, RunScript
  PROVE  Goes(ch)
<1> DEFINE s == Head(ch.scripts)
           c == [ch EXCEPT !.scripts = Tail(@)]
           known == app.known \/ s = "accept"
           b == [app EXCEPT !.known = known]
<1>1. /\ Good(ch, peer, app) /\ ch \in Channels /\ app \in Apps /\ Len(ch.out) \in Nat
      /\ Len(app.taken) \in Nat /\ app.written \in Nat /\ CallInv(ch, "none", app)
      /\ call = "none" /\ ch.scripts # <<>>
      /\ ch.scripts \in Seq(Scripts) /\ IsInjective(ch.scripts)
  BY InvTypes, GoodTypes DEF RunScript, Good, ScriptInv
<1>2. /\ ch' = (IF s = "cleanup" /\ Exists /\ IsServer(c) /\ c.state = "CLOSED"
                THEN CleanedUp(c, "gone") ELSE c)
      /\ app' = [app EXCEPT
            !.told  = @ \/ (s = "read" /\ Exists /\ "read" \in c.mask),
            !.known = @ \/ s = "accept"]
      /\ call' = "none"
  BY <1>1 DEF RunScript
<1>3. /\ Tail(ch.scripts) \in Seq(Scripts) /\ IsInjective(Tail(ch.scripts))
      /\ s \in ToSet(ch.scripts)
      /\ \A x : x \in ToSet(Tail(ch.scripts)) <=> x \in ToSet(ch.scripts) /\ x # s
  BY <1>1, ScriptsTail
<1>4. c \in Channels
  BY <1>1, <1>3, Zenon DEF Channels
<1>5. /\ c.made = ch.made /\ c.state = ch.state /\ c.socket = ch.socket
      /\ c.input = ch.input /\ c.output = ch.output /\ c.out = ch.out
      /\ c.flights = ch.flights /\ c.steps = ch.steps /\ c.opened = ch.opened
      /\ c.inbox = ch.inbox /\ c.life = ch.life /\ c.scripts = Tail(ch.scripts)
  BY <1>1 DEF Channels
<1>6. /\ app' \in Apps /\ app'.taken = app.taken /\ app'.written = app.written
      /\ app'.eof = app.eof /\ app'.known = known
  <2> DEFINE told == app.told \/ (s = "read" /\ Exists /\ "read" \in c.mask)
  <2>1. app.known \in BOOLEAN /\ app.told \in BOOLEAN
    BY <1>1 DEF Apps
  <2>2. told \in BOOLEAN /\ known \in BOOLEAN
    BY <2>1
  <2>3. app' = [app EXCEPT !.told = told, !.known = known]
    BY <1>1, <1>2 DEF Apps
  <2> HIDE DEF told, known
  <2>4. app' \in Apps
    BY <1>1, <2>2, <2>3, Zenon DEF Apps
  <2>5. /\ app'.taken = app.taken /\ app'.written = app.written
        /\ app'.eof = app.eof /\ app'.known = known
    BY <1>1, <2>3 DEF Apps
  <2> QED  BY <2>4, <2>5
<1> HIDE DEF c, s
<1>7. Good(c, peer, app')
  <2>1. DataInv(c, peer, app') /\ OutInv(c, app') /\ FlightInv(c, peer)
    BY <1>1, <1>5, <1>6 DEF Good, DataInv, Reading, OutInv, FlightInv, IsServer
  <2>2. \A x : Has(c, x) <=> Has(ch, x) /\ x # s
    BY <1>3, <1>5 DEF Has
  <2>3. Has(ch, s)
    BY <1>3 DEF Has
  <2>4. /\ Has(ch, "accept") => ch.opened /\ ch.made = "accept"
        /\ Has(ch, "cleanup") => ch.state = "CLOSED"
        /\ ch.opened => ch.state \in {"OPEN", "CLOSED"}
        /\ ch.state = "OPEN" => ch.opened
        /\ ch.made = "accept" =>
             (app.known => ch.opened) /\ (ch.opened => (app.known <=> ~Has(ch, "accept")))
    BY <1>1 DEF Good, ScriptInv
  <2>5. app'.known <=> app.known \/ s = "accept"
    BY <1>6
  <2>6. c.made = "accept" =>
          (app'.known => c.opened) /\ (c.opened => (app'.known <=> ~Has(c, "accept")))
    BY <1>5, <2>2, <2>3, <2>4, <2>5
  <2>7. ScriptInv(c, app')
    BY <1>3, <1>5, <2>2, <2>4, <2>6 DEF ScriptInv
  <2> QED  BY <1>1, <1>4, <1>6, <2>1, <2>7 DEF Good
<1>8. c.life = "new" => ~app'.known
  <2>1. s = "accept" => ch.opened
    BY <1>1, <1>3 DEF Good, ScriptInv, Has
  <2>2. ch.life = "new" => ~app.known /\ ch.state \in Negotiating
    BY <1>1 DEF CallInv
  <2>3. ch.opened => ch.state \in {"OPEN", "CLOSED"}
    BY <1>1 DEF Good, ScriptInv
  <2>4. ch.life = "new" => s # "accept"
    BY <2>1, <2>2, <2>3, NegotiatingIs
  <2>5. app'.known = (app.known \/ s = "accept")
    BY <1>6
  <2> QED  BY <1>5, <2>2, <2>4, <2>5
<1>9. CASE ch' = c
  <2>1. CallInv(c, "none", app')
    BY <1>1, <1>5, <1>8 DEF CallInv
  <2>2. After(ch, app, c, app')
    BY <1>1, <1>5, <1>6 DEF After
  <2>3. "none" \in Calls
    BY DEF Calls
  <2> QED  BY <1>2, <1>7, <1>9, <2>1, <2>2, <2>3 DEF Goes
<1>10. CASE ch' = CleanedUp(c, "gone")
  <2> DEFINE d == CleanedUp(c, "gone")
  <2>1. Good(d, peer, app') /\ d.life = "gone" /\ d.made = c.made /\ d.out = c.out
    BY <1>7, CleanedUpGood
  <2>2. ch' = d
    BY <1>10
  <2> HIDE DEF d
  <2>3. Rests(d) /\ After(ch, app, d, app') /\ Return(d)
    BY <1>1, <1>2, <1>5, <1>6, <2>1, <2>2 DEF Rests, After, Return
  <2> QED  BY <2>1, <2>3, ReturnGoes
<1> QED  BY <1>2, <1>9, <1>10

LEMMA ReadGoes ==
  ASSUME TlsInv, Read
  PROVE  Goes(ch)
<1>1. PICK c : c = ch
  OBVIOUS
<1>2. Good(c, peer, app) /\ Rests(c) /\ c.life = "live"
  BY <1>1, InvTypes, LoopIs DEF Read, AppRuns
<1>3. CASE c.state \in Negotiating
  <2>1. Negotiate("read")
    BY <1>1, <1>3 DEF Read
  <2> QED  BY <1>1, <1>2, <1>3, <2>1, NegotiateGoes
<1>4. CASE c.state \notin Negotiating
  <2>1. ReadOpen(c)
    BY <1>1, <1>4 DEF Read
  <2> QED  BY <1>1, <1>2, <2>1, ReadOpenGoes
<1> QED  BY <1>3, <1>4

LEMMA WriteGoes ==
  ASSUME TlsInv, Write
  PROVE  Goes(ch)
<1>1. PICK c : c = ch
  OBVIOUS
<1>2. /\ Good(c, peer, app) /\ Rests(c) /\ c.life = "live"
      /\ app.written < MaxWrites
  BY <1>1, InvTypes, LoopIs DEF Write, AppRuns
<1>3. CASE c.state \in Negotiating
  <2>1. Negotiate("write")
    BY <1>1, <1>3 DEF Write
  <2> QED  BY <1>1, <1>2, <1>3, <2>1, NegotiateGoes
<1>4. CASE c.state \notin Negotiating
  <2>1. WriteOpen(c)
    BY <1>1, <1>4 DEF Write
  <2> QED  BY <1>1, <1>2, <2>1, WriteOpenGoes
<1> QED  BY <1>3, <1>4

LEMMA HandshakeGoes ==
  ASSUME TlsInv, Handshake
  PROVE  Goes(ch)
<1> DEFINE r == BlockingStart(ch)
<1>1. Good(ch, peer, app) /\ ch.life = "live" /\ ch.state \in Negotiating /\ r.ok
  BY InvTypes, LoopIs DEF Handshake, AppRuns
<1>2. /\ Good(r.ch, peer, app) /\ Onward(ch, r.ch)
      /\ r.ok => r.ch.state = "NEGOTIATING" /\ r.ch.socket = "open"
  BY <1>1, BlockingStartGood
<1>3. ch' = r.ch /\ call' = "handshake" /\ app' = app /\ "handshake" \in Calls
  BY DEF Handshake, Calls
<1> HIDE DEF r
<1>4. CallInv(r.ch, "handshake", app)
  BY <1>1, <1>2 DEF CallInv, Onward
<1>5. After(ch, app, r.ch, app)
  BY <1>2, OnwardAfter
<1> QED  BY <1>2, <1>3, <1>4, <1>5 DEF Goes

LEMMA SetBlockingGoes ==
  ASSUME TlsInv, SetBlocking
  PROVE  Goes(ch)
<1> DEFINE c == [ch EXCEPT !.blocking = ~@]
           d == [c EXCEPT !.readable = ~c.blocking, !.writable = ~c.blocking]
<1>1. ch \in Channels /\ call' = call /\ app' = app /\ ch' \in {c, d}
  BY InvTypes DEF SetBlocking
<1>2. /\ c \in Channels /\ c.made = ch.made /\ c.state = ch.state /\ c.socket = ch.socket
      /\ c.input = ch.input /\ c.output = ch.output /\ c.out = ch.out
      /\ c.flights = ch.flights /\ c.steps = ch.steps /\ c.opened = ch.opened
      /\ c.inbox = ch.inbox /\ c.scripts = ch.scripts /\ c.life = ch.life
  <2>1. (~ch.blocking) \in BOOLEAN
    BY <1>1 DEF Channels
  <2>2. c \in Channels
    BY <1>1, <2>1, Zenon DEF Channels
  <2> QED  BY <1>1, <2>2 DEF Channels
<1> HIDE DEF c
<1>3. /\ d \in Channels /\ d.made = c.made /\ d.state = c.state /\ d.socket = c.socket
      /\ d.input = c.input /\ d.output = c.output /\ d.out = c.out
      /\ d.flights = c.flights /\ d.steps = c.steps /\ d.opened = c.opened
      /\ d.inbox = c.inbox /\ d.scripts = c.scripts /\ d.life = c.life
  <2>1. (~c.blocking) \in BOOLEAN
    BY <1>2 DEF Channels
  <2>2. d \in Channels
    BY <1>2, <2>1, Zenon DEF Channels
  <2> QED  BY <1>2, <2>2 DEF Channels
<1> HIDE DEF d
<1>4. Alike(ch, c) /\ Alike(ch, d) /\ d.life = ch.life
  BY <1>2, <1>3 DEF Alike, Has
<1>5. ch' \in Channels /\ Alike(ch, ch') /\ ch'.life = ch.life
  BY <1>1, <1>2, <1>3, <1>4
<1> QED  BY <1>1, <1>5, AlikeGoes

LEMMA WatchedAlike ==
  ASSUME NEW c \in Channels
  PROVE  LET d == Watched(c) IN d \in Channels /\ Alike(c, d) /\ d.life = c.life
<1>1. CASE "read" \notin c.mask
  <2>1. Watched(c) = c
    BY <1>1 DEF Watched
  <2> QED  BY <2>1 DEF Alike
<1>2. CASE "read" \in c.mask
  <2> DEFINE b == IF c.input # <<>> \/ c.socket = "none" THEN Post(c, "read") ELSE c
             d == [b EXCEPT !.readable = c.socket = "open"]
  <2>1. Watched(c) = d
    BY <1>2 DEF Watched
  <2>2. b \in Channels /\ Alike(c, b) /\ b.life = c.life
    <3>1. "read" \in Events
      BY DEF Events
    <3>2. CASE c.input # <<>> \/ c.socket = "none"
      BY <3>1, <3>2, PostAlike
    <3>3. CASE ~(c.input # <<>> \/ c.socket = "none")
      BY <3>3 DEF Alike
    <3> QED  BY <3>2, <3>3
  <2> HIDE DEF b
  <2>3. /\ d \in Channels /\ d.made = b.made /\ d.state = b.state /\ d.socket = b.socket
        /\ d.input = b.input /\ d.output = b.output /\ d.out = b.out
        /\ d.flights = b.flights /\ d.steps = b.steps /\ d.opened = b.opened
        /\ d.inbox = b.inbox /\ d.scripts = b.scripts /\ d.life = b.life
    <3>1. (c.socket = "open") \in BOOLEAN
      OBVIOUS
    <3>2. d \in Channels
      BY <2>2, <3>1, Zenon DEF Channels
    <3> QED  BY <2>2, <3>2 DEF Channels
  <2> HIDE DEF d
  <2> QED  BY <2>1, <2>2, <2>3 DEF Alike, Has
<1> QED  BY <1>1, <1>2

LEMMA WatchGoes ==
  ASSUME TlsInv, NEW mask \in SUBSET Events, Watch(mask)
  PROVE  Goes(ch)
<1> DEFINE b == [ch EXCEPT !.mask = mask]
           c == Watched(b)
<1>1. ch \in Channels /\ call' = call /\ app' = app /\ ch' \in {c, Post(c, "write")}
  BY InvTypes DEF Watch
<1>2. /\ b \in Channels /\ b.made = ch.made /\ b.state = ch.state /\ b.socket = ch.socket
      /\ b.input = ch.input /\ b.output = ch.output /\ b.out = ch.out
      /\ b.flights = ch.flights /\ b.steps = ch.steps /\ b.opened = ch.opened
      /\ b.inbox = ch.inbox /\ b.scripts = ch.scripts /\ b.life = ch.life
  <2>1. b \in Channels
    BY <1>1, Zenon DEF Channels
  <2> QED  BY <1>1, <2>1 DEF Channels
<1> HIDE DEF b
<1>3. c \in Channels /\ Alike(b, c) /\ c.life = b.life
  BY <1>2, WatchedAlike
<1> HIDE DEF c
<1>4. /\ Post(c, "write") \in Channels /\ Alike(c, Post(c, "write"))
      /\ Post(c, "write").life = c.life
  <2>1. "write" \in Events
    BY DEF Events
  <2> QED  BY <1>3, <2>1, PostAlike
<1>5. \A d : Alike(c, d) => Alike(ch, d)
  BY <1>2, <1>3 DEF Alike, Has
<1>6. Alike(c, c)
  BY DEF Alike
<1>7. ch' \in Channels /\ Alike(ch, ch') /\ ch'.life = ch.life
  BY <1>1, <1>2, <1>3, <1>4, <1>5, <1>6
<1> QED  BY <1>1, <1>7, AlikeGoes

LEMMA CloseWriteGoes ==
  ASSUME TlsInv, CloseWrite
  PROVE  Goes(ch)
<1> DEFINE c == Flushed(ch)
           d == [c EXCEPT !.writeDisabled = TRUE]
<1>1. /\ Good(ch, peer, app) /\ Rests(ch) /\ ch.life = "live" /\ call = "none"
  BY InvTypes, LoopIs DEF CloseWrite, AppRuns
<1>2. ch' = d /\ call' = "none" /\ app' = app
  BY <1>1 DEF CloseWrite
<1>3. /\ Good(c, peer, app) /\ Onward(ch, c) /\ c.state = ch.state /\ c.socket = ch.socket
  BY <1>1, FlushedGood
<1> HIDE DEF c
<1>4. /\ d \in Channels /\ d.made = c.made /\ d.state = c.state /\ d.socket = c.socket
      /\ d.input = c.input /\ d.output = c.output /\ d.out = c.out
      /\ d.flights = c.flights /\ d.steps = c.steps /\ d.opened = c.opened
      /\ d.inbox = c.inbox /\ d.scripts = c.scripts /\ d.life = c.life
  <2>1. TRUE \in BOOLEAN /\ c \in Channels
    BY <1>3 DEF Good
  <2>2. d \in Channels
    BY <2>1, Zenon DEF Channels
  <2> QED  BY <2>1, <2>2 DEF Channels
<1> HIDE DEF d
<1>5. Good(d, peer, app)
  BY <1>3, <1>4, AlikeGood DEF Alike, Has
<1>6. Rests(d) /\ Onward(ch, d)
  BY <1>1, <1>3, <1>4 DEF Rests, Onward
<1>7. After(ch, app, d, app)
  BY <1>5, <1>6, OnwardAfter
<1> QED  BY <1>2, <1>5, <1>6, <1>7, ReturnGoes DEF Return

LEMMA CloseGoes ==
  ASSUME TlsInv, Close
  PROVE  Goes(ch)
<1> DEFINE d == CleanedUp(ch, "gone")
<1>1. /\ Good(ch, peer, app) /\ call = "none" /\ app \in Apps /\ Len(ch.out) \in Nat
      /\ Len(app.taken) \in Nat /\ app.written \in Nat
  BY InvTypes, LoopIs DEF Close, AppRuns
<1>2. ch' = d /\ call' = "none" /\ app' = [app EXCEPT !.closed = TRUE]
  BY <1>1 DEF Close
<1>3. Good(d, peer, app) /\ d.life = "gone" /\ d.made = ch.made /\ d.out = ch.out
  BY <1>1, CleanedUpGood
<1> HIDE DEF d
<1>4. /\ app' \in Apps /\ app'.taken = app.taken /\ app'.written = app.written
      /\ app'.known = app.known /\ app'.eof = app.eof
  <2>1. TRUE \in BOOLEAN
    OBVIOUS
  <2>2. app' \in Apps
    BY <1>1, <1>2, <2>1, Zenon DEF Apps
  <2> QED  BY <1>1, <1>2, <2>2 DEF Apps
<1>5. app.eof => d.state = "CLOSED" /\ (d.opened => d.input = <<>>)
  BY <1>3 DEF Good, DataInv
<1>6. Good(d, peer, app')
  BY <1>3, <1>4, <1>5, AppGood
<1>7. Rests(d) /\ After(ch, app, d, app')
  BY <1>1, <1>3, <1>4 DEF Rests, After
<1> QED  BY <1>2, <1>6, <1>7, ReturnGoes DEF Return

\* The peer puts a unit on the socket
LEMMA SentGood ==
  ASSUME NEW c, NEW p, NEW a, Good(c, p, a), c.socket = "open", NEW u \in Units, NEW q \in Peers,
         q.flights = p.flights + IF u = Flight THEN 1 ELSE 0,
         q.data = p.data + IF IsData(u) THEN 1 ELSE 0,
         IsData(u) => u.n = p.data + 1 /\ ~p.alert,
         q.alert <=> p.alert \/ u = Alert,
         IsData(u) \/ u = Alert => p.flights = 2
  PROVE  LET d == [c EXCEPT !.inbox = Append(Whole(@), u)] IN
         /\ Good(d, q, a) /\ d.made = c.made /\ d.life = c.life /\ d.state = c.state
         /\ d.socket = c.socket /\ d.steps = c.steps /\ d.out = c.out
<1> DEFINE w == Whole(c.inbox)
           v == Append(w, u)
           d == [c EXCEPT !.inbox = Append(Whole(@), u)]
           N == Len(Numbers(c.inbox))
           M == Len(Numbers(v))
           F == Cardinality(Flights(c.inbox))
           G == Cardinality(Flights(v))
           L == Len(a.taken) + Len(c.input)
<1>1. /\ c \in Channels /\ c.inbox \in Seq(Units) /\ p.flights \in 0 .. 2 /\ p.data \in Nat
      /\ Len(a.taken) \in Nat /\ Len(c.input) \in Nat /\ c.steps \in Int
      /\ p.alert \in BOOLEAN
  BY GoodTypes
<1>2. /\ w \in Seq(Units) /\ Numbers(w) = Numbers(c.inbox)
      /\ Cardinality(Flights(w)) = F /\ (Alert \in ToSet(w) => Alert \in ToSet(c.inbox))
  BY <1>1, WholeKeeps
<1> HIDE DEF w
<1>3. v \in Seq(Units)
  BY <1>2
<1>4. Numbers(v) = IF IsData(u) THEN Append(Numbers(c.inbox), u.n) ELSE Numbers(c.inbox)
  BY <1>2, NumbersAppend
<1>5. F \in Nat /\ G = F + IF u = Flight THEN 1 ELSE 0
  BY <1>1, <1>2, FlightsFinite, FlightsAppend
<1>6. Alert \in ToSet(v) => Alert \in ToSet(c.inbox) \/ u = Alert
  BY <1>2, AppendElements
<1> HIDE DEF v
<1>7. Numbers(c.inbox) \in Seq(Int) /\ N \in Nat
  <2>1. Numbers(c.inbox) \in Seq(Int)
    BY <1>1, NumbersType
  <2> QED  BY <2>1
<1>8. M = N + IF IsData(u) THEN 1 ELSE 0
  <2>1. CASE IsData(u)
    <3>1. u.n \in Int
      BY <1>1, <2>1
    <3>2. Numbers(v) = Append(Numbers(c.inbox), u.n)
      BY <1>4, <2>1
    <3>3. Len(Append(Numbers(c.inbox), u.n)) = Len(Numbers(c.inbox)) + 1
      BY <1>7, <3>1
    <3> QED  BY <2>1, <3>2, <3>3
  <2>2. CASE ~IsData(u)
    BY <1>4, <1>7, <2>2
  <2> QED  BY <2>1, <2>2
<1>9. /\ d \in Channels /\ d.inbox = v /\ d.made = c.made /\ d.life = c.life
      /\ d.state = c.state /\ d.socket = c.socket /\ d.input = c.input
      /\ d.output = c.output /\ d.out = c.out /\ d.flights = c.flights /\ d.steps = c.steps
      /\ d.opened = c.opened /\ d.scripts = c.scripts
  <2>1. d = [c EXCEPT !.inbox = v]
    BY <1>1 DEF Channels, v, w
  <2>2. d \in Channels
    BY <1>1, <1>3, <2>1, Zenon DEF Channels
  <2> QED  BY <1>1, <2>1, <2>2 DEF Channels
<1> HIDE DEF d
<1>a. L \in Nat
  <2> DEFINE x == Len(a.taken)
             y == Len(c.input)
  <2>1. x \in Nat /\ y \in Nat
    BY <1>1
  <2> HIDE DEF x, y
  <2>2. x + y \in Nat
    BY <2>1
  <2> QED  BY <2>2 DEF x, y
<1>10. /\ IsRun(a.taken, 0) /\ IsRun(c.input, Len(a.taken)) /\ L <= p.data
       /\ Reading(c) => L + N = p.data /\ IsRun(Numbers(c.inbox), L)
       /\ p.flights < 2 => p.data = 0 /\ ~p.alert
       /\ Alert \in ToSet(c.inbox) => p.alert
       /\ c.opened /\ c.state = "CLOSED" => L = p.data /\ (c.socket # "open" \/ p.alert)
       /\ a.eof => c.state = "CLOSED" /\ (c.opened => c.input = <<>>)
  BY DEF Good, DataInv
<1>11. (Reading(d) <=> Reading(c)) /\ (IsServer(d) <=> IsServer(c))
  BY <1>9 DEF Reading, IsServer
<1>12. DataInv(d, q, a)
  <2> DEFINE R == Numbers(v)
  <2> HIDE DEF L, N, M
  <2>1. L <= q.data
    BY <1>1, <1>a, <1>10
  <2>2. Reading(c) => L + M = q.data
    BY <1>1, <1>7, <1>8, <1>10, <1>a
  <2>3. Reading(c) => IsRun(R, L)
    <3>1. CASE Reading(c) /\ IsData(u)
      <4>1. u.n = L + N + 1
        BY <1>10, <3>1
      <4>2. IsRun(Append(Numbers(c.inbox), L + N + 1), L)
        BY <1>7, <1>10, <1>a, <3>1, RunAppend DEF N
      <4> QED  BY <1>4, <3>1, <4>1, <4>2
    <3>2. CASE Reading(c) /\ ~IsData(u)
      BY <1>4, <1>10, <3>2
    <3> QED  BY <3>1, <3>2
  <2>4. q.flights < 2 => q.data = 0 /\ ~q.alert
    <3>1. ~IsData(Flight) /\ Flight # Alert
      BY UnitTypes
    <3>2. q.flights < 2 => p.flights < 2
      BY <1>1
    <3>3. p.flights < 2 => ~IsData(u) /\ u # Alert
      BY <1>1
    <3>4. ~IsData(u) => q.data = p.data
      BY <1>1
    <3>5. p.flights < 2 => p.data = 0 /\ ~p.alert
      BY <1>10
    <3> QED  BY <3>2, <3>3, <3>4, <3>5
  <2>5. Alert \in ToSet(v) => q.alert
    BY <1>6, <1>10
  <2>6. c.opened /\ c.state = "CLOSED" => L = q.data /\ (c.socket # "open" \/ q.alert)
    BY <1>1, <1>10
  <2> HIDE DEF R
  <2> QED  BY <1>9, <1>10, <1>11, <2>1, <2>2, <2>3, <2>4, <2>5, <2>6 DEF DataInv, L, M, R
<1>13. OutInv(d, a) /\ ScriptInv(d, a)
  BY <1>9 DEF Good, OutInv, ScriptInv, Has
<1>14. FlightInv(d, q)
  <2>1. c.steps + F <= p.flights /\ (Reading(c) => c.steps + F = p.flights)
    BY DEF Good, FlightInv
  <2> HIDE DEF F, G
  <2>2. d.steps + G <= q.flights /\ (Reading(d) => d.steps + G = q.flights)
    BY <1>1, <1>5, <1>9, <1>11, <2>1
  <2> QED  BY <1>9, <1>11, <2>2 DEF Good, FlightInv, G
<1> QED  BY <1>9, <1>12, <1>13, <1>14 DEF Good, d

PeerMoves == PeerFlight \/ PeerData \/ PeerPart \/ PeerAlert \/ PeerFin

LEMMA PeerGood ==
  ASSUME TlsInv, PeerMoves
  PROVE  /\ TlsInv' /\ After(ch, app, ch', app')
         /\ peer'.data \in {peer.data, peer.data + 1}
<1>1. /\ Good(ch, peer, app) /\ ch \in Channels /\ app \in Apps /\ call \in Calls
      /\ Len(ch.out) \in Nat /\ Len(app.taken) \in Nat /\ app.written \in Nat
      /\ CallInv(ch, call, app) /\ ch.socket = "open" /\ call' = call /\ app' = app
  BY InvTypes DEF PeerMoves, PeerFlight, PeerData, PeerPart, PeerAlert, PeerFin, Connected
<1>2. /\ peer \in Peers /\ peer.flights \in 0 .. 2 /\ peer.data \in 0 .. MaxData
      /\ peer.parts \in Int /\ peer.alert \in BOOLEAN
  BY <1>1 DEF Good, Peers
<1>3. ASSUME Good(ch', peer', app), ch'.made = ch.made, ch'.life = ch.life,
             ch'.state = ch.state, ch'.socket = ch.socket, ch'.steps = ch.steps,
             ch'.out = ch.out, peer'.data \in {peer.data, peer.data + 1}
      PROVE  /\ TlsInv' /\ After(ch, app, ch', app')
             /\ peer'.data \in {peer.data, peer.data + 1}
  <2>1. CallInv(ch', call', app')
    BY <1>1, <1>3 DEF CallInv
  <2>2. After(ch, app, ch', app')
    BY <1>1, <1>3 DEF After
  <2> QED  BY <1>1, <1>3, <2>1, <2>2 DEF TlsInv
<1>4. ASSUME NEW u \in Units, Sends(u), peer' \in Peers,
             peer'.flights = peer.flights + IF u = Flight THEN 1 ELSE 0,
             peer'.data = peer.data + IF IsData(u) THEN 1 ELSE 0,
             IsData(u) => u.n = peer.data + 1 /\ ~peer.alert,
             peer'.alert <=> peer.alert \/ u = Alert,
             IsData(u) \/ u = Alert => peer.flights = 2
      PROVE  /\ TlsInv' /\ After(ch, app, ch', app')
             /\ peer'.data \in {peer.data, peer.data + 1}
  <2> DEFINE d == [ch EXCEPT !.inbox = Append(Whole(@), u)]
  <2>1. ch' = d
    BY <1>4 DEF Sends
  <2>2. /\ Good(d, peer', app) /\ d.made = ch.made /\ d.life = ch.life /\ d.state = ch.state
        /\ d.socket = ch.socket /\ d.steps = ch.steps /\ d.out = ch.out
    BY <1>1, <1>4, SentGood
  <2> HIDE DEF d
  <2>3. peer'.data \in {peer.data, peer.data + 1}
    BY <1>2, <1>4
  <2> QED  BY <1>3, <2>1, <2>2, <2>3
<1>5. CASE PeerFlight
  <2>1. Flight \in Units /\ ~IsData(Flight) /\ Flight # Alert
    BY UnitTypes
  <2>2. Sends(Flight) /\ peer' = [peer EXCEPT !.flights = @ + 1] /\ peer.flights < 2
    BY <1>5 DEF PeerFlight
  <2>3. peer.flights + 1 \in 0 .. 2
    BY <1>2, <2>2
  <2>4. peer' \in Peers
    BY <1>2, <2>2, <2>3, Zenon DEF Peers
  <2>5. /\ peer'.flights = peer.flights + 1 /\ peer'.data = peer.data
        /\ peer'.alert = peer.alert
    BY <1>2, <2>2 DEF Peers
  <2> QED  BY <1>2, <1>4, <2>1, <2>2, <2>4, <2>5
<1>6. CASE PeerData
  <2> DEFINE n == peer.data + 1
             u == Unit("data", n)
  <2>1. /\ Sends(u) /\ peer' = [peer EXCEPT !.data = @ + 1]
        /\ peer.flights = 2 /\ ~peer.alert /\ peer.data < MaxData
    BY <1>6 DEF PeerData
  <2>2. n \in 0 .. MaxData /\ n \in Int
    BY <1>2, <2>1, TlsAssumption
  <2>3. u \in Units /\ IsData(u) /\ u.n = n /\ u # Flight /\ u # Alert
    BY <2>2, UnitTypes
  <2>4. peer' \in Peers
    BY <1>2, <2>1, <2>2, Zenon DEF Peers
  <2>5. /\ peer'.flights = peer.flights /\ peer'.data = n /\ peer'.alert = peer.alert
    BY <1>2, <2>1 DEF Peers
  <2> HIDE DEF u
  <2>6. /\ peer'.flights = peer.flights + IF u = Flight THEN 1 ELSE 0
        /\ peer'.data = peer.data + IF IsData(u) THEN 1 ELSE 0
    BY <1>2, <2>3, <2>5
  <2> QED  BY <1>4, <2>1, <2>3, <2>4, <2>5, <2>6
<1>7. CASE PeerPart
  <2>1. Part \in Units /\ ~IsData(Part) /\ Part # Alert /\ Part # Flight
    BY UnitTypes
  <2>2. Sends(Part) /\ peer' = [peer EXCEPT !.parts = @ + 1]
    BY <1>7 DEF PeerPart
  <2>3. peer.parts + 1 \in Int
    BY <1>2
  <2>4. peer' \in Peers
    BY <1>2, <2>2, <2>3, Zenon DEF Peers
  <2>5. /\ peer'.flights = peer.flights /\ peer'.data = peer.data
        /\ peer'.alert = peer.alert
    BY <1>2, <2>2 DEF Peers
  <2>6. /\ peer'.flights = peer.flights + IF Part = Flight THEN 1 ELSE 0
        /\ peer'.data = peer.data + IF IsData(Part) THEN 1 ELSE 0
    BY <1>2, <2>1, <2>5
  <2> QED  BY <1>4, <2>1, <2>2, <2>4, <2>5, <2>6
<1>8. CASE PeerAlert
  <2>1. Alert \in Units /\ ~IsData(Alert) /\ Alert # Flight
    BY UnitTypes
  <2>2. Sends(Alert) /\ peer' = [peer EXCEPT !.alert = TRUE] /\ peer.flights = 2
    BY <1>8 DEF PeerAlert
  <2>3. TRUE \in BOOLEAN
    OBVIOUS
  <2>4. peer' \in Peers
    BY <1>2, <2>2, <2>3, Zenon DEF Peers
  <2>5. /\ peer'.flights = peer.flights /\ peer'.data = peer.data
        /\ peer'.alert = TRUE
    BY <1>2, <2>2 DEF Peers
  <2>6. /\ peer'.flights = peer.flights + IF Alert = Flight THEN 1 ELSE 0
        /\ peer'.data = peer.data + IF IsData(Alert) THEN 1 ELSE 0
    BY <1>2, <2>1, <2>5
  <2> QED  BY <1>4, <2>1, <2>2, <2>4, <2>5, <2>6
<1>9. CASE PeerFin
  <2> DEFINE d == [ch EXCEPT !.fin = TRUE]
  <2>1. ch' = d /\ peer' = peer
    BY <1>9 DEF PeerFin
  <2>2. /\ d \in Channels /\ d.made = ch.made /\ d.state = ch.state /\ d.socket = ch.socket
        /\ d.input = ch.input /\ d.output = ch.output /\ d.out = ch.out
        /\ d.flights = ch.flights /\ d.steps = ch.steps /\ d.opened = ch.opened
        /\ d.inbox = ch.inbox /\ d.scripts = ch.scripts /\ d.life = ch.life
    <3>1. TRUE \in BOOLEAN
      OBVIOUS
    <3>2. d \in Channels
      BY <1>1, <3>1, Zenon DEF Channels
    <3> QED  BY <1>1, <3>2 DEF Channels
  <2> HIDE DEF d
  <2>3. Good(d, peer, app)
    BY <1>1, <2>2, AlikeGood DEF Alike, Has
  <2> QED  BY <1>3, <2>1, <2>2, <2>3
<1> QED  BY <1>5, <1>6, <1>7, <1>8, <1>9 DEF PeerMoves

-----------------------------------------------------------------------------
(* The theorems. *)

LEMMA TlsInvInit == Init => TlsInv
<1> SUFFICES ASSUME Init PROVE TlsInv
  OBVIOUS
<1>1. PICK made \in Makes, blocking \in BOOLEAN : ch = Fresh(made, blocking)
  BY DEF Init
<1>2. made \in AllMakes /\ MaxData \in Nat /\ MaxWrites \in Nat
  BY TlsAssumption
<1>3. /\ ch.made = made /\ ch.life = "new" /\ ch.blocking = blocking
      /\ ch.state = (IF made \in {"server", "accept"} THEN "SERVERINIT" ELSE "CLIENTINIT")
      /\ ch.mask = {} /\ ch.socket = "open" /\ ch.readable = FALSE /\ ch.writable = FALSE
      /\ ch.input = <<>> /\ ch.output = <<>> /\ ch.writeDisabled = FALSE
      /\ ch.scripts = <<>> /\ ch.flights = 0 /\ ch.steps = 0 /\ ch.opened = FALSE
      /\ ch.inbox = <<>> /\ ch.fin = FALSE /\ ch.out = <<>>
  BY <1>1 DEF Fresh
<1>4. ch \in Channels
  <2> DEFINE state == IF made \in {"server", "accept"} THEN "SERVERINIT" ELSE "CLIENTINIT"
  <2>1. /\ "new" \in {"new", "live", "gone", "stray"} /\ {} \in SUBSET Events
        /\ "open" \in {"open", "stale", "none"} /\ FALSE \in BOOLEAN /\ 0 \in Int
        /\ <<>> \in Seq(Int) /\ <<>> \in Seq(Units) /\ <<>> \in Seq(Scripts)
        /\ state \in Negotiating \cup {"OPEN", "CLOSED"}
    BY DEF Negotiating
  <2> HIDE DEF state
  <2>2. ch = [made |-> made, life |-> "new", blocking |-> blocking, state |-> state,
              mask |-> {}, socket |-> "open", readable |-> FALSE, writable |-> FALSE,
              input |-> <<>>, output |-> <<>>, writeDisabled |-> FALSE, scripts |-> <<>>,
              flights |-> 0, steps |-> 0, opened |-> FALSE, inbox |-> <<>>, fin |-> FALSE,
              out |-> <<>>]
    BY <1>1, Zenon DEF Fresh, state
  <2> QED  BY <1>2, <2>1, <2>2, Zenon DEF Channels
<1>5. /\ peer \in Peers /\ peer.flights = 0 /\ peer.data = 0 /\ ~peer.alert
      /\ app \in Apps /\ app.taken = <<>> /\ ~app.eof /\ app.written = 0 /\ ~app.known
  BY <1>2 DEF Init, Peers, Apps
<1>6. /\ Len(<<>>) = 0 /\ ToSet(<<>>) = {} /\ IsInjective(<<>>)
      /\ Numbers(<<>>) = <<>> /\ Cardinality(Flights(<<>>)) = 0
  BY NumbersEmpty, FlightsEmpty DEF ToSet, IsInjective
<1>7. DataInv(ch, peer, app) /\ OutInv(ch, app)
  BY <1>3, <1>5, <1>6, RunEmpty DEF DataInv, OutInv
<1>8. FlightInv(ch, peer)
  BY <1>3, <1>5, <1>6 DEF FlightInv, IsServer
<1>9. ScriptInv(ch, app)
  BY <1>3, <1>5, <1>6 DEF ScriptInv, Has
<1>10. call = "none" /\ call \in Calls
  BY DEF Init, Calls
<1>11. CallInv(ch, call, app)
  BY <1>3, <1>5, <1>10 DEF CallInv, Negotiating
<1> QED  BY <1>4, <1>5, <1>7, <1>8, <1>9, <1>10, <1>11 DEF TlsInv, Good

LEMMA TlsStep ==
  ASSUME TlsInv, [Next]_vars
  PROVE  /\ TlsInv' /\ After(ch, app, ch', app')
         /\ peer'.data \in {peer.data, peer.data + 1}
<1>1. CASE UNCHANGED vars
  <2>1. ch' = ch /\ call' = call /\ peer' = peer /\ app' = app
    BY <1>1 DEF vars
  <2>2. After(ch, app, ch', app')
    BY <2>1, InvTypes DEF After
  <2> QED  BY <2>1, <2>2 DEF TlsInv
<1>2. ASSUME Goes(ch), peer' = peer
      PROVE  /\ TlsInv' /\ After(ch, app, ch', app')
             /\ peer'.data \in {peer.data, peer.data + 1}
  BY <1>2 DEF Goes, TlsInv
<1>3. CASE PeerMoves
  BY <1>3, PeerGood
<1>4. CASE Create
  BY <1>2, <1>4, CreateGoes DEF Create
<1>5. CASE CallStep
  BY <1>2, <1>5, CallStepGoes DEF CallStep
<1>6. CASE OnReadable
  BY <1>2, <1>6, OnReadableGoes DEF OnReadable
<1>7. CASE OnWritable
  BY <1>2, <1>7, OnWritableGoes DEF OnWritable
<1>8. CASE RunScript
  BY <1>2, <1>8, RunScriptGoes DEF RunScript
<1>9. CASE Read
  BY <1>2, <1>9, ReadGoes DEF Read
<1>10. CASE Write
  BY <1>2, <1>10, WriteGoes DEF Write
<1>11. CASE Handshake
  BY <1>2, <1>11, HandshakeGoes DEF Handshake
<1>12. CASE SetBlocking
  BY <1>2, <1>12, SetBlockingGoes DEF SetBlocking
<1>13. CASE CloseWrite
  BY <1>2, <1>13, CloseWriteGoes DEF CloseWrite
<1>14. CASE Close
  BY <1>2, <1>14, CloseGoes DEF Close
<1>15. CASE \E mask \in SUBSET Events : Watch(mask)
  BY <1>2, <1>15, WatchGoes DEF Watch
<1> QED
  BY <1>1, <1>3, <1>4, <1>5, <1>6, <1>7, <1>8, <1>9, <1>10, <1>11, <1>12, <1>13, <1>14, <1>15
  DEF Next, PeerMoves

\* What the reads of the application have returned is what they took out of Input, as
\* long as none has lost any of it; and what is lost stays so.
ReturnsAll(a) == ~a.lost => a.got = a.taken

Returns(a, b) == (a.lost => b.lost) /\ (ReturnsAll(a) => ReturnsAll(b))

LEMMA ReadReturnsReturns ==
  ASSUME app \in Apps, NEW c, NEW status, ReadReturns(c, status)
  PROVE  Returns(app, app')
<1> DEFINE ret == SubSeq(c.input, 1, Min({ReadSize, Len(c.input)}))
           bad == status = "expired" /\ c.writeDisabled
<1>1. app' = [app EXCEPT !.taken = @ \o ret, !.got = IF bad THEN @ ELSE @ \o ret,
                         !.told = FALSE, !.eof = @ \/ (ret = <<>> /\ ~bad),
                         !.lost = @ \/ (ret # <<>> /\ bad)]
  BY DEF ReadReturns
<1> HIDE DEF ret, bad
<1>2. /\ app'.taken = app.taken \o ret
      /\ app'.got = (IF bad THEN app.got ELSE app.got \o ret)
      /\ app'.lost = (app.lost \/ (ret # <<>> /\ bad))
      /\ app.got \in Seq(Int) /\ app.taken \in Seq(Int)
  BY <1>1 DEF Apps
<1>3. ret = <<>> => app.taken \o ret = app.taken
  BY <1>2
<1> QED  BY <1>2, <1>3 DEF Returns, ReturnsAll

LEMMA OthersReturn ==
  ASSUME app \in Apps,
         \/ app' = app
         \/ app' = [app EXCEPT !.told = FALSE]
         \/ \E n : app' = [app EXCEPT !.written = n]
         \/ \E k : app' = [app EXCEPT !.known = k]
         \/ \E t, k : app' = [app EXCEPT !.told = t, !.known = k]
         \/ app' = [app EXCEPT !.closed = TRUE]
  PROVE  Returns(app, app')
<1>1. app'.got = app.got /\ app'.taken = app.taken /\ app'.lost = app.lost
  BY DEF Apps
<1> QED  BY <1>1 DEF Returns, ReturnsAll

LEMMA Read2Returns ==
  ASSUME app \in Apps, NEW c, Read2(c)
  PROVE  Returns(app, app')
  BY ReadReturnsReturns, OthersReturn DEF Read2

LEMMA ReadOpenReturns ==
  ASSUME app \in Apps, NEW c, ReadOpen(c)
  PROVE  Returns(app, app')
  BY Read2Returns, ReadReturnsReturns, OthersReturn DEF ReadOpen

LEMMA WriteOpenReturns ==
  ASSUME app \in Apps, NEW c, WriteOpen(c)
  PROVE  Returns(app, app')
  BY OthersReturn DEF WriteOpen

LEMMA EndedReturns ==
  ASSUME app \in Apps, NEW op, NEW r, Ended(op, r)
  PROVE  Returns(app, app')
  BY ReadOpenReturns, WriteOpenReturns, OthersReturn DEF Ended

LEMMA NegotiateReturns ==
  ASSUME app \in Apps, NEW op, Negotiate(op)
  PROVE  Returns(app, app')
  BY EndedReturns, OthersReturn DEF Negotiate

LEMMA StepReturns ==
  ASSUME app \in Apps, [Next]_vars
  PROVE  Returns(app, app')
<1>1. CASE UNCHANGED vars
  BY <1>1, OthersReturn DEF vars
<1>2. CASE PeerMoves
  BY <1>2, OthersReturn
  DEF PeerMoves, PeerFlight, PeerData, PeerPart, PeerAlert, PeerFin
<1>3. CASE Create
  BY <1>3, OthersReturn DEF Create
<1>4. CASE CallStep
  BY <1>4, EndedReturns, Read2Returns, OthersReturn DEF CallStep
<1>5. CASE OnReadable
  BY <1>5, NegotiateReturns, OthersReturn DEF OnReadable
<1>6. CASE RunScript
  BY <1>6, OthersReturn DEF RunScript
<1>7. CASE Read
  BY <1>7, NegotiateReturns, ReadOpenReturns DEF Read
<1>8. CASE Write
  BY <1>8, NegotiateReturns, WriteOpenReturns DEF Write
<1>9. CASE Close
  BY <1>9, OthersReturn DEF Close
<1>10. CASE \/ OnWritable \/ Handshake \/ SetBlocking \/ CloseWrite
            \/ \E mask \in SUBSET Events : Watch(mask)
  <2>1. app' = app
    BY <1>10 DEF OnWritable, Handshake, SetBlocking, CloseWrite, Watch
  <2> QED  BY <2>1, OthersReturn
<1> QED
  BY <1>1, <1>2, <1>3, <1>4, <1>5, <1>6, <1>7, <1>8, <1>9, <1>10 DEF Next, PeerMoves

LEMMA TlsInvAlways == Spec => [](TlsInv /\ ReturnsAll(app))
<1>1. Init => TlsInv /\ ReturnsAll(app)
  BY TlsInvInit DEF Init, ReturnsAll
<1>2. TlsInv /\ ReturnsAll(app) /\ [Next]_vars => TlsInv' /\ ReturnsAll(app)'
  BY TlsStep, StepReturns DEF Returns, TlsInv, Good, ReturnsAll
<1> QED  BY <1>1, <1>2, PTL DEF Spec

\* A connection to a listener that has been opened and verified has its accept callback
\* waiting or run, once, and the application knows no other; and every field keeps its
\* type, the scripts of "after 0" being each there once.
THEOREM AcceptsOnce == Spec => []AcceptOnce
<1>1. TlsInv => TypeOK
  <2> SUFFICES ASSUME TlsInv PROVE TypeOK
    OBVIOUS
  <2>1. /\ ch \in Channels /\ peer \in Peers /\ app \in Apps /\ call \in Calls
        /\ FlightInv(ch, peer) /\ IsInjective(ch.scripts)
    BY DEF TlsInv, Good, ScriptInv
  <2>2. /\ ch.life \in {"new", "live", "gone", "stray"}
        /\ ch.state \in Negotiating \cup {"OPEN", "CLOSED"}
        /\ ch.mask \subseteq Events /\ ch.socket \in {"open", "stale", "none"}
        /\ ch.scripts \in Seq(Scripts) /\ ch.inbox \in Seq(Units)
        /\ ch.steps \in Int /\ ch.flights \in Int
        /\ {ch.readable, ch.writable, ch.writeDisabled, ch.opened, ch.fin} \subseteq BOOLEAN
    BY <2>1 DEF Channels
  <2>3. app.written \in 0 .. MaxWrites /\ peer.data \in 0 .. MaxData /\ peer.flights \in 0 .. 2
    BY <2>1 DEF Apps, Peers
  <2>4. Cardinality(Flights(ch.inbox)) \in Nat
    BY <2>2, FlightsFinite
  <2>5. ch.steps \in 0 .. peer.flights
    BY <2>1, <2>2, <2>3, <2>4 DEF FlightInv
  <2>6. ch.flights \in 0 .. 2
    BY <2>1, <2>2, <2>3, <2>5 DEF FlightInv
  <2> QED  BY <2>1, <2>2, <2>3, <2>5, <2>6 DEF TypeOK
<1>2. ASSUME TlsInv, ch.made = "accept"
      PROVE  /\ app.known => ch.opened
             /\ ch.opened => app.known # ("accept" \in ToSet(ch.scripts))
  <2>1. app.known \in BOOLEAN
    BY <1>2, GoodTypes DEF TlsInv
  <2>2. (app.known => ch.opened) /\ (ch.opened => (app.known <=> ~Has(ch, "accept")))
    BY <1>2 DEF TlsInv, Good, ScriptInv
  <2>3. ("accept" \in ToSet(ch.scripts)) \in BOOLEAN
    BY DEF ToSet
  <2> QED  BY <2>1, <2>2, <2>3 DEF Has
<1>3. TlsInv => AcceptOnce
  BY <1>1, <1>2 DEF AcceptOnce
<1> QED  BY <1>3, TlsInvAlways, PTL

\* When an application that has been told the end of the stream looks at what it has
\* read, all that the peer sent is in it, unless a read failed with some of it.
THEOREM EndIsLast == Spec => []EofIsLast
<1>1. TlsInv /\ ReturnsAll(app) => EofIsLast
  <2> SUFFICES ASSUME TlsInv, ReturnsAll(app), app.eof, ch.opened, ~app.lost
               PROVE  Len(app.taken) = peer.data
    BY DEF EofIsLast, ReturnsAll
  <2>1. ch.state = "CLOSED" /\ ch.input = <<>> /\ Len(app.taken) + Len(ch.input) = peer.data
    BY DEF TlsInv, Good, DataInv
  <2>2. Len(ch.input) = 0
    BY <2>1
  <2>3. Len(app.taken) \in Nat
    BY InvTypes
  <2> DEFINE x == Len(app.taken)
             y == Len(ch.input)
  <2> HIDE DEF x, y
  <2>4. x \in Nat /\ y = 0 /\ x + y = peer.data
    BY <2>1, <2>2, <2>3 DEF x, y
  <2> QED  BY <2>4 DEF x
<1> QED  BY <1>1, TlsInvAlways, PTL

\* A run that has become longer has got the numbers in between
LEMMA RunGrows ==
  ASSUME NEW s \in Seq(Int), NEW t \in Seq(Int), IsRun(s, 0), IsRun(t, 0), Len(t) >= Len(s)
  PROVE  t = s \o [i \in 1 .. (Len(t) - (Len(s) + 1) + 1) |-> (Len(s) + 1) + i - 1]
<1> DEFINE m == Len(s)
           n == Len(t)
           r == [i \in 1 .. (n - (m + 1) + 1) |-> (m + 1) + i - 1]
           v == s \o r
<1>1. m \in Nat /\ n \in Nat /\ n >= m
  OBVIOUS
<1>2. /\ \A i \in 1 .. m : s[i] = 0 + i
      /\ \A i \in 1 .. n : t[i] = 0 + i
  BY DEF IsRun
<1> HIDE DEF m, n
<1>3. r \in Seq(Int) /\ Len(r) = n - m /\ \A i \in 1 .. n - m : r[i] = m + i
  <2>1. n - (m + 1) + 1 = n - m /\ n - m \in Nat
    BY <1>1
  <2>2. r = [i \in 1 .. n - m |-> (m + 1) + i - 1]
    BY <2>1
  <2>3. \A i \in 1 .. n - m : (m + 1) + i - 1 = m + i /\ m + i \in Int
    BY <1>1, <2>1
  <2> DEFINE k == n - m
  <2>4. k \in Nat /\ \A i \in 1 .. k : (m + 1) + i - 1 = m + i /\ m + i \in Int
    BY <2>1, <2>3
  <2>5. r = [i \in 1 .. k |-> (m + 1) + i - 1]
    BY <2>2
  <2> HIDE DEF r, k
  <2>6. r \in Seq(Int) /\ Len(r) = k /\ \A i \in 1 .. k : r[i] = m + i
    BY <2>4, <2>5
  <2> QED  BY <2>6 DEF k
<1> HIDE DEF r
<1>4. /\ v \in Seq(Int) /\ Len(v) = m + (n - m)
      /\ \A i \in 1 .. m : v[i] = s[i]
      /\ \A i \in 1 .. n - m : v[m + i] = r[i]
  BY <1>3, ConcatProperties DEF m
<1> HIDE DEF v
<1>5. ASSUME NEW i \in 1 .. n
      PROVE  v[i] = t[i]
  <2>1. CASE i <= m
    BY <1>1, <1>2, <1>4, <2>1
  <2>2. CASE i > m
    <3>1. i - m \in 1 .. n - m /\ m + (i - m) = i
      BY <1>1, <2>2
    <3>2. v[i] = r[i - m] /\ r[i - m] = m + (i - m)
      BY <1>3, <1>4, <3>1
    <3> QED  BY <1>2, <3>1, <3>2
  <2> QED  BY <1>1, <2>1, <2>2
<1>6. Len(v) = n
  BY <1>1, <1>4
<1>7. v = t
  BY <1>4, <1>5, <1>6, SeqEqual DEF n
<1> QED  BY <1>7 DEF v, r, m, n

LEMMA RunStays ==
  ASSUME NEW s \in Seq(Int), NEW t \in Seq(Int), IsRun(s, 0), IsRun(t, 0), Len(t) = Len(s)
  PROVE  t = s
<1>1. \A i \in 1 .. Len(s) : s[i] = t[i]
  BY DEF IsRun
<1> QED  BY <1>1, SeqEqual

LEMMA ReceivedStep ==
  ASSUME TlsInv, ReturnsAll(app), [Next]_vars
  PROVE  [app'.lost \/ Received!Next]_<<peer.data, app.got>>
<1>0. SUFFICES ASSUME ~app'.lost
               PROVE  [Received!Next]_<<peer.data, app.got>>
  OBVIOUS
<1> DEFINE s == app.taken
           t == app'.taken
           m == peer.data
           n == peer'.data
<1>1. TlsInv' /\ After(ch, app, ch', app') /\ n \in {m, m + 1}
  BY TlsStep
<1>2. /\ s \in Seq(Int) /\ IsRun(s, 0) /\ t \in Seq(Int) /\ IsRun(t, 0)
      /\ Len(s) \in Nat /\ Len(t) \in Nat /\ Len(t) >= Len(s) /\ m \in Nat
  <2>1. s \in Seq(Int) /\ IsRun(s, 0) /\ m \in Nat
    BY GoodTypes DEF TlsInv, Good, DataInv
  <2>2. t \in Seq(Int) /\ IsRun(t, 0)
    BY <1>1, GoodTypes DEF TlsInv, Good, DataInv
  <2>3. Len(t) >= Len(s)
    BY <1>1 DEF After
  <2> QED  BY <2>1, <2>2, <2>3
<1>3. Len(t) <= n
  <2> DEFINE x == Len(t)
             y == Len(ch'.input)
  <2>1. x + y <= n /\ y \in Nat
    BY <1>1, GoodTypes DEF TlsInv, Good, DataInv
  <2>2. x \in Nat /\ n \in Nat
    BY <1>1, <1>2
  <2> HIDE DEF x, y, n
  <2>3. x <= n
    BY <2>1, <2>2
  <2> QED  BY <2>3 DEF x
<1>0a. s = app.got /\ t = app'.got
  <2>1. Returns(app, app')
    BY StepReturns DEF TlsInv, Good
  <2>2. ~app.lost /\ ReturnsAll(app')
    BY <1>0, <2>1 DEF Returns
  <2> QED  BY <1>0, <2>2 DEF ReturnsAll
<1> HIDE DEF s, t, m, n
<1>4. CASE Len(t) = Len(s)
  <2>1. t = s
    BY <1>2, <1>4, RunStays
  <2>2. n = m \/ n = m + 1
    BY <1>1
  <2> QED  BY <1>0a, <2>1, <2>2 DEF Received!Next, Received!Produce, m, n
<1>5. CASE Len(t) # Len(s)
  <2>1. Len(t) \in (Len(s) + 1) .. n
    <3>1. n \in Nat
      BY <1>1, <1>2
    <3> QED  BY <1>2, <1>3, <1>5, <3>1
  <2>2. t = s \o Received!Numbers(Len(s) + 1, Len(t))
    BY <1>2, RunGrows DEF Received!Numbers
  <2>3. \E k \in (Len(s) + 1) .. n : t = s \o Received!Numbers(Len(s) + 1, k)
    BY <2>1, <2>2
  <2> QED  BY <1>0a, <1>1, <2>3 DEF Received!Next, Received!Consume, m, n
<1> QED  BY <1>4, <1>5

LEMMA SentStep ==
  ASSUME TlsInv, [Next]_vars
  PROVE  [Sent!Next]_<<app.written, ch.out>>
<1> DEFINE s == ch.out
           t == ch'.out
           m == app.written
           n == app'.written
<1>1. TlsInv' /\ After(ch, app, ch', app')
  BY TlsStep
<1>2. /\ s \in Seq(Int) /\ IsRun(s, 0) /\ t \in Seq(Int) /\ IsRun(t, 0)
      /\ Len(s) \in Nat /\ Len(t) \in Nat /\ Len(t) >= Len(s) /\ m \in Nat
      /\ n \in {m, m + 1}
  <2>1. s \in Seq(Int) /\ IsRun(s, 0) /\ m \in Nat
    BY GoodTypes DEF TlsInv, Good, OutInv
  <2>2. t \in Seq(Int) /\ IsRun(t, 0)
    BY <1>1, GoodTypes DEF TlsInv, Good, OutInv
  <2>3. Len(t) >= Len(s) /\ n \in {m, m + 1}
    BY <1>1 DEF After
  <2> QED  BY <2>1, <2>2, <2>3
<1>3. Len(t) <= n
  <2> DEFINE x == Len(t)
             y == Len(ch'.output)
  <2>1. x + y = n /\ y \in Nat
    BY <1>1, GoodTypes DEF TlsInv, Good, OutInv
  <2>2. x \in Nat /\ n \in Nat
    BY <1>2
  <2> HIDE DEF x, y, n
  <2>3. x <= n
    BY <2>1, <2>2
  <2> QED  BY <2>3 DEF x
<1> HIDE DEF s, t, m, n
<1>4. CASE Len(t) = Len(s)
  <2>1. t = s
    BY <1>2, <1>4, RunStays
  <2>2. n = m \/ n = m + 1
    BY <1>2
  <2> QED  BY <2>1, <2>2 DEF Sent!Next, Sent!Produce, s, t, m, n
<1>5. CASE Len(t) # Len(s)
  <2>1. Len(t) \in (Len(s) + 1) .. n
    <3>1. n \in Nat
      BY <1>2
    <3> QED  BY <1>2, <1>3, <1>5, <3>1
  <2>2. t = s \o Sent!Numbers(Len(s) + 1, Len(t))
    BY <1>2, RunGrows DEF Sent!Numbers
  <2>3. \E k \in (Len(s) + 1) .. n : t = s \o Sent!Numbers(Len(s) + 1, k)
    BY <2>1, <2>2
  <2> QED  BY <1>2, <2>3 DEF Sent!Next, Sent!Consume, s, t, m, n
<1> QED  BY <1>4, <1>5

\* What the application reads is what the peer sent, once each and in order, whether it
\* came with the handshake, in parts or with the closing alert, until a read fails with
\* data that it does not return.
THEOREM ReceivedIsByteStream == Spec => ReceivedUntilLost
<1>1. Init => Received!Init
  BY DEF Init, Received!Init
<1>2. TlsInv /\ ReturnsAll(app) /\ [Next]_vars
         => [app'.lost \/ Received!Next]_<<peer.data, app.got>>
  BY ReceivedStep
<1> QED  BY <1>1, <1>2, TlsInvAlways, PTL DEF Spec, ReceivedUntilLost

\* What goes out on the socket is what the application wrote, once each and in order,
\* whether it was written before the connection was open or after.
THEOREM SentIsByteStream == Spec => Sent!Spec
<1>1. Init => Sent!Init
  BY DEF Init, Fresh, Sent!Init
<1>2. TlsInv /\ [Next]_vars => [Sent!Next]_<<app.written, ch.out>>
  BY SentStep
<1> QED  BY <1>1, <1>2, TlsInvAlways, PTL DEF Spec, Sent!Spec

\* Both directions of the channel implement ByteStream, to the end of the stream or to
\* the first read that fails with data.
THEOREM BothAreStreams == Spec => TlsStreams
  BY ReceivedIsByteStream, SentIsByteStream, EndIsLast, PTL DEF TlsStreams
=============================================================================
