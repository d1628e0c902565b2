---------------------------- MODULE ComSinkProofs ----------------------------
(***************************************************************************)
(* The COM objects of TWAPI, proved for any structures, Automation objects *)
(* and depth of calls: the count of a structure is exact and the process   *)
(* is told to shut down only when it is idle.                              *)
(***************************************************************************)
EXTENDS ComSink, FiniteSetTheorems, SequenceTheorems, TLAPS

Call(s) == [op |-> "invoke", s |-> s]

\* The frames that hold a reference to s: of a call that it serves, and of -bind,
\* before and after Advise has been decided
Calls(s) == {f \in Frames : f.op = "invoke" /\ f.s = s}
Asks(s) == {f \in Frames : f.op = "bind" /\ f.s = s /\ f.result = "none"}
Keeps(s) == {f \in Frames : f.op = "bind" /\ f.s = s /\ f.result # "none"}

FramesIn(F, q) == {i \in 1 .. Len(q) : q[i] \in F}
Count(F, q) == Cardinality(FramesIn(F, q))

\* Two stacks have the same frames that hold a reference to s
SameFor(s, q, r) ==
    /\ Count(Calls(s), q) = Count(Calls(s), r)
    /\ Count(Asks(s), q) = Count(Asks(s), r)
    /\ Count(Keeps(s), q) = Count(Keeps(s), r)
Same(q, r) == \A s : SameFor(s, q, r)

Live == {s \in Servers : life[s] = "live"}
\* s is in _sinks of an object
Sunk(s) == \E a \in Automation : s \in sinks[a]

-----------------------------------------------------------------------------
(* Stacks. *)

LEMMA AppendLast ==
  ASSUME NEW S, NEW q \in Seq(S), NEW e \in S
  PROVE  /\ Append(q, e) \in Seq(S) /\ Len(Append(q, e)) = Len(q) + 1 /\ Len(q) \in Nat
         /\ Append(q, e)[Len(q) + 1] = e
         /\ \A i \in 1 .. Len(q) : Append(q, e)[i] = q[i]
  OBVIOUS

LEMMA FrontLast ==
  ASSUME NEW S, NEW q \in Seq(S), q # <<>>
  PROVE  /\ Front(q) \in Seq(S) /\ Last(q) \in S /\ Len(q) \in Nat \ {0}
         /\ q = Append(Front(q), Last(q))
         /\ Last(q) = q[Len(q)] /\ Len(Front(q)) + 1 = Len(q)
         /\ \A i \in 1 .. Len(Front(q)) : Front(q)[i] = q[i]
<1>1. Len(q) \in Nat \ {0}
  OBVIOUS
<1>2. Front(q) \in Seq(S) /\ Len(Front(q)) = Len(q) - 1
      /\ \A i \in 1 .. Len(q) - 1 : Front(q)[i] = q[i]
  <2> DEFINE N == Len(q) - 1
  <2>1. N \in Nat /\ \A i \in 1 .. N : q[i] \in S
    BY <1>1
  <2> HIDE DEF N
  <2>2. /\ SubSeq(q, 1, N) \in Seq(S)
        /\ Len(SubSeq(q, 1, N)) = IF 1 <= N THEN N - 1 + 1 ELSE 0
        /\ \A i \in 1 .. N - 1 + 1 : SubSeq(q, 1, N)[i] = q[1 + i - 1]
    BY <2>1, SubSeqProperties
  <2>3. Len(SubSeq(q, 1, N)) = N /\ \A i \in 1 .. N : SubSeq(q, 1, N)[i] = q[i]
    BY <2>1, <2>2
  <2> QED  BY <2>2, <2>3 DEF Front, N
<1>3. Last(q) = q[Len(q)] /\ Last(q) \in S
  BY <1>1 DEF Last
<1>4. q = Append(Front(q), Last(q))
  <2> DEFINE f == Front(q)
             a == Append(f, Last(q))
  <2>1. /\ a \in Seq(S) /\ Len(a) = Len(f) + 1 /\ a[Len(f) + 1] = Last(q)
        /\ \A i \in 1 .. Len(f) : a[i] = f[i]
    BY <1>2, <1>3, AppendLast
  <2>2. Len(a) = Len(q) /\ Len(f) + 1 = Len(q)
    BY <1>1, <1>2, <2>1
  <2>3. ASSUME NEW i \in 1 .. Len(q)
        PROVE  q[i] = a[i]
    <3>1. i = Len(q) \/ i \in 1 .. Len(f)
      BY <1>1, <1>2
    <3> QED  BY <1>2, <1>3, <2>1, <2>2, <3>1
  <2> HIDE DEF a
  <2>4. q = a
    BY <2>1, <2>2, <2>3, SeqEqual
  <2> QED  BY <2>4 DEF a
<1> QED  BY <1>1, <1>2, <1>3, <1>4

\* Pushing a frame raises the number of those it belongs to by one
LEMMA PushCounts ==
  ASSUME NEW S, NEW q \in Seq(S), NEW e \in S, NEW F
  PROVE  /\ Count(F, q) \in Nat
         /\ Count(F, Append(q, e)) = Count(F, q) + One(e \in F)
<1> DEFINE a == Append(q, e)
           N == Len(q)
           C == FramesIn(F, q)
<1>1. /\ a \in Seq(S) /\ Len(a) = N + 1 /\ N \in Nat /\ a[N + 1] = e
      /\ \A i \in 1 .. N : a[i] = q[i]
  BY AppendLast
<1>2. C = {i \in 1 .. N : q[i] \in F}
  BY DEF FramesIn
<1> HIDE DEF a, N, C
<1>3. FramesIn(F, a) = {i \in 1 .. N + 1 : a[i] \in F}
  BY <1>1 DEF FramesIn
<1>4. IsFiniteSet(C) /\ Cardinality(C) \in Nat /\ N + 1 \notin C
  <2>1. IsFiniteSet(1 .. N) /\ C \subseteq 1 .. N
    BY <1>1, <1>2, FS_Interval
  <2>2. IsFiniteSet(C)
    BY <2>1, FS_Subset
  <2>3. N + 1 \notin C
    BY <1>1, <1>2
  <2> QED  BY <2>2, <2>3, FS_CardinalityType
<1>5. CASE e \in F
  <2>1. FramesIn(F, a) = C \union {N + 1}
    BY <1>1, <1>2, <1>3, <1>5
  <2>2. Cardinality(C \union {N + 1}) = Cardinality(C) + 1
    BY <1>4, FS_AddElement
  <2> QED  BY <1>4, <1>5, <2>1, <2>2 DEF Count, One, a, C
<1>6. CASE e \notin F
  <2>1. FramesIn(F, a) = C
    BY <1>1, <1>2, <1>3, <1>6
  <2> QED  BY <1>4, <1>6, <2>1 DEF Count, One, a, C
<1> QED  BY <1>5, <1>6

LEMMA PopCounts ==
  ASSUME NEW S, NEW q \in Seq(S), q # <<>>, NEW F
  PROVE  /\ Count(F, q) \in Nat /\ Count(F, Front(q)) \in Nat
         /\ Count(F, q) = Count(F, Front(q)) + One(Last(q) \in F)
<1>1. Front(q) \in Seq(S) /\ Last(q) \in S /\ q = Append(Front(q), Last(q))
  BY FrontLast
<1>2. /\ Count(F, Front(q)) \in Nat
      /\ Count(F, Append(Front(q), Last(q))) = Count(F, Front(q)) + One(Last(q) \in F)
  BY <1>1, PushCounts
<1>3. Count(F, q) \in Nat
  BY PushCounts, <1>1
<1> QED  BY <1>1, <1>2, <1>3

LEMMA NoFrames == \A F : Count(F, <<>>) = 0
<1> SUFFICES ASSUME NEW F PROVE Count(F, <<>>) = 0
  OBVIOUS
<1>1. FramesIn(F, <<>>) = {}
  BY DEF FramesIn
<1> QED  BY <1>1, FS_EmptySet DEF Count

LEMMA SameIsEquality ==
  ASSUME NEW q, NEW r, NEW t, Same(q, r), Same(r, t)
  PROVE  Same(q, t) /\ Same(r, q) /\ Same(q, q)
  BY DEF Same, SameFor

\* What the operation of a frame tells
LEMMA FrameTypes ==
  ASSUME NEW f, f \in Frames
  PROVE  /\ f.op \in {"invoke", "find", "bind", "unbind", "destroy"}
         /\ f.op = "invoke" => f.s \in Servers /\ f = Call(f.s)
         /\ f.op \in {"bind", "unbind"} => f \in [op : {"bind", "unbind"}, s : Servers,
                                                  result : Results]
         /\ f.op = "destroy" => f \in [op : {"destroy"}, a : Automation, todo : SUBSET Servers]
<1>1. CASE f \in [op : {"invoke"}, s : Servers]
  BY <1>1 DEF Call
<1>2. CASE f \in [op : {"bind", "unbind"}, s : Servers, result : Results]
  BY <1>2
<1>3. CASE f \in [op : {"destroy"}, a : Automation, todo : SUBSET Servers]
  BY <1>3
<1>4. CASE f \in [op : {"find"}, a : Automation]
  BY <1>4
<1> QED  BY <1>1, <1>2, <1>3, <1>4 DEF Frames

\* The frames that the steps make
LEMMA NewFrames ==
  /\ \A s \in Servers : Call(s) \in Frames /\ Call(s).op = "invoke" /\ Call(s).s = s
  /\ \A o \in {"bind", "unbind"} : \A s \in Servers : \A r \in Results :
        LET f == [op |-> o, s |-> s, result |-> r]
        IN  f \in Frames /\ f.op = o /\ f.s = s /\ f.result = r
  /\ \A a \in Automation : \A td \in SUBSET Servers :
        LET f == [op |-> "destroy", a |-> a, todo |-> td]
        IN  f \in Frames /\ f.op = "destroy"
  /\ \A a \in Automation :
        LET f == [op |-> "find", a |-> a]
        IN  f \in Frames /\ f.op = "find"
  BY DEF Frames, Call

-----------------------------------------------------------------------------
(* The inductive invariant. *)

TypeCom ==
    /\ refc \in [Servers -> Nat] /\ life \in [Servers -> {"none", "live", "freed"}]
    /\ outside \subseteq Servers

TypeBound ==
    /\ owner \in [Servers -> Automation \union {Nobody}]
    /\ sinks \in [Automation -> SUBSET Servers]
    /\ points \in [Automation -> SUBSET Servers]

TypeObj ==
    /\ advised \subseteq Servers /\ proxy \subseteq Automation /\ leaky \subseteq Automation
    /\ obj \in [Automation -> {"alive", "destroying", "gone"}]

TypeProc == servers \in Nat /\ locks \in 0 .. MaxLocks /\ signal \in BOOLEAN

\* A stack in which only sinks of objects are being bound and unbound
Good(q, ow) ==
    /\ q \in Seq(Frames)
    /\ \A i \in 1 .. Len(q) : q[i].op \in {"bind", "unbind"} => ow[q[i].s] # Nobody

\* The references to s
Held(s) ==
    Count(Asks(s), stack) + Count(Keeps(s), stack) + One(Sunk(s)) + One(s \in outside)
        + Count(Calls(s), stack)

\* A sink is bound once: while -bind keeps it, it is not in _sinks, and while Advise
\* is not decided, the source has no reference.
Counted(s) ==
    /\ refc[s] = Held(s)
    /\ life[s] = "live" <=> refc[s] > 0
    /\ Count(Asks(s), stack) + Count(Keeps(s), stack) + One(Sunk(s)) <= 1
    /\ Count(Asks(s), stack) + One(s \in outside) <= 1

\* _sinks and _connection_pts have the same sinks, and those belong to the object.
Bound ==
    \A a \in Automation : points[a] = sinks[a] /\ \A s \in sinks[a] : owner[s] = a

\* The process counts the structures and the locks.
Total == servers = locks + Cardinality(Live)

ComInv ==
    /\ TypeCom /\ TypeBound /\ TypeObj /\ TypeProc
    /\ Good(stack, owner) /\ (\A s \in Servers : Counted(s)) /\ Bound /\ Total

LEMMA LiveFinite == IsFiniteSet(Live) /\ Cardinality(Live) \in Nat
<1>1. Live \subseteq Servers /\ IsFiniteSet(Servers)
  BY ComSinkAssumption DEF Live, ComSinkAssumption
<1>2. IsFiniteSet(Live)
  BY <1>1, FS_Subset
<1> QED  BY <1>2, FS_CardinalityType

LEMMA GoodPush ==
  ASSUME NEW q, NEW ow, Good(q, ow), NEW f \in Frames,
         f.op \in {"bind", "unbind"} => ow[f.s] # Nobody
  PROVE  Good(Append(q, f), ow)
<1> DEFINE a == Append(q, f)
           N == Len(q)
<1>1. /\ a \in Seq(Frames) /\ Len(a) = N + 1 /\ N \in Nat /\ a[N + 1] = f
      /\ \A i \in 1 .. N : a[i] = q[i]
  BY AppendLast DEF Good
<1>2. \A i \in 1 .. N : q[i].op \in {"bind", "unbind"} => ow[q[i].s] # Nobody
  BY DEF Good
<1> HIDE DEF a, N
<1>3. ASSUME NEW i \in 1 .. Len(a), a[i].op \in {"bind", "unbind"}
      PROVE  ow[a[i].s] # Nobody
  <2>1. i \in 1 .. N \/ i = N + 1
    BY <1>1
  <2> QED  BY <1>1, <1>2, <1>3, <2>1
<1> QED  BY <1>1, <1>3 DEF Good, a

LEMMA GoodPop ==
  ASSUME NEW q, NEW ow, Good(q, ow), q # <<>>
  PROVE  /\ Good(Front(q), ow) /\ Last(q) \in Frames
         /\ Last(q).op \in {"bind", "unbind"} => ow[Last(q).s] # Nobody
<1>1. /\ Front(q) \in Seq(Frames) /\ Last(q) \in Frames /\ Len(q) \in Nat \ {0}
      /\ Last(q) = q[Len(q)] /\ Len(Front(q)) + 1 = Len(q)
      /\ \A i \in 1 .. Len(Front(q)) : Front(q)[i] = q[i]
  BY FrontLast DEF Good
<1>2. \A i \in 1 .. Len(q) : q[i].op \in {"bind", "unbind"} => ow[q[i].s] # Nobody
  BY DEF Good
<1>3. /\ Len(q) \in 1 .. Len(q) /\ Len(Front(q)) \in Nat
      /\ \A i \in 1 .. Len(Front(q)) : i \in 1 .. Len(q)
  <2>1. Len(Front(q)) \in Nat
    BY <1>1
  <2> QED  BY <1>1, <2>1
<1> QED  BY <1>1, <1>2, <1>3 DEF Good

\* What a frame changes in the counts
LEMMA GoodCounts ==
  ASSUME NEW q, NEW ow, Good(q, ow)
  PROVE  /\ \A F : Count(F, q) \in Nat
         /\ \A f \in Frames : \A F : Count(F, Append(q, f)) = Count(F, q) + One(f \in F)
         /\ q # <<>> => \A F : /\ Count(F, Front(q)) \in Nat
                               /\ Count(F, q) = Count(F, Front(q)) + One(Last(q) \in F)
<1>1. q \in Seq(Frames)
  BY DEF Good
<1>2. ASSUME NEW f \in Frames, NEW F
      PROVE  Count(F, Append(q, f)) = Count(F, q) + One(f \in F)
  BY <1>1, PushCounts
<1>3. ASSUME q # <<>>, NEW F
      PROVE  /\ Count(F, q) \in Nat /\ Count(F, Front(q)) \in Nat
             /\ Count(F, q) = Count(F, Front(q)) + One(Last(q) \in F)
  BY <1>1, <1>3, PopCounts
<1>4. ASSUME NEW F
      PROVE  Count(F, q) \in Nat
  <2>1. CASE q = <<>>
    BY <2>1, NoFrames
  <2>2. CASE q # <<>>
    BY <1>3, <2>2
  <2> QED  BY <2>1, <2>2
<1> QED  BY <1>2, <1>3, <1>4

LEMMA AddsNothing ==
  ASSUME NEW f, f.op \notin {"invoke", "bind"}
  PROVE  \A s : f \notin Calls(s) /\ f \notin Asks(s) /\ f \notin Keeps(s)
  BY DEF Calls, Asks, Keeps

LEMMA AddsToOne ==
  ASSUME NEW f, NEW s, f.op = "invoke" \/ f.op = "bind", f.s = s
  PROVE  \A x : x # s => f \notin Calls(x) /\ f \notin Asks(x) /\ f \notin Keeps(x)
  BY DEF Calls, Asks, Keeps

\* What comes and goes at the top of the stack is no call and no -bind.
LEMMA QuietPush ==
  ASSUME NEW q, NEW ow, Good(q, ow), NEW f \in Frames, f.op \notin {"invoke", "bind"},
         f.op = "unbind" => ow[f.s] # Nobody
  PROVE  Good(Append(q, f), ow) /\ Same(Append(q, f), q)
<1>1. Good(Append(q, f), ow)
  BY GoodPush
<1>2. ASSUME NEW s
      PROVE  SameFor(s, Append(q, f), q)
  <2>1. \A F : Count(F, q) \in Nat /\ Count(F, Append(q, f)) = Count(F, q) + One(f \in F)
    BY GoodCounts
  <2>2. f \notin Calls(s) /\ f \notin Asks(s) /\ f \notin Keeps(s)
    BY AddsNothing
  <2>3. ASSUME NEW F, f \notin F
        PROVE  Count(F, Append(q, f)) = Count(F, q)
    BY <2>1, <2>3 DEF One
  <2> QED  BY <2>2, <2>3 DEF SameFor
<1> QED  BY <1>1, <1>2 DEF Same

LEMMA QuietPop ==
  ASSUME NEW q, NEW ow, Good(q, ow), q # <<>>, Last(q).op \notin {"invoke", "bind"}
  PROVE  Good(Front(q), ow) /\ Same(Front(q), q)
<1>1. Good(Front(q), ow)
  BY GoodPop
<1>2. ASSUME NEW s
      PROVE  SameFor(s, Front(q), q)
  <2>1. \A F : /\ Count(F, Front(q)) \in Nat
               /\ Count(F, q) = Count(F, Front(q)) + One(Last(q) \in F)
    BY GoodCounts
  <2>2. Last(q) \notin Calls(s) /\ Last(q) \notin Asks(s) /\ Last(q) \notin Keeps(s)
    BY AddsNothing
  <2>3. ASSUME NEW F, Last(q) \notin F
        PROVE  Count(F, Front(q)) = Count(F, q)
    BY <2>1, <2>3 DEF One
  <2> QED  BY <2>2, <2>3 DEF SameFor
<1> QED  BY <1>1, <1>2 DEF Same

\* Steps that touch no reference
LEMMA QuietKeeps ==
  ASSUME ComInv, UNCHANGED <<comVars, sinks, points, owner, procVars>>,
         TypeObj', Good(stack', owner), Same(stack', stack)
  PROVE  ComInv'
<1>1. /\ TypeCom' /\ TypeBound' /\ TypeProc' /\ Bound' /\ Total'
  BY DEF ComInv, TypeCom, TypeBound, TypeProc, Bound, Total, Live, comVars, procVars
<1>2. Good(stack, owner)'
  BY DEF Good
<1>3. ASSUME NEW s \in Servers
      PROVE  Counted(s)'
  <2>1. Counted(s) /\ SameFor(s, stack', stack)
    BY DEF ComInv, Same
  <2>2. UNCHANGED <<refc, life, outside, sinks>>
    BY DEF comVars
  <2>3. Sunk(s)' <=> Sunk(s)
    BY <2>2 DEF Sunk
  <2> QED  BY <2>1, <2>2, <2>3 DEF Counted, Held, SameFor, One
<1> QED  BY <1>1, <1>2, <1>3 DEF ComInv

-----------------------------------------------------------------------------
(* Unbinding and destroying, but for the release of a sink. *)

\* -bind or -unbind is at the top of the stack
LEMMA BindTop ==
  ASSUME ComInv, NEW o \in {"bind", "unbind"}, NEW s, NEW r, stack # <<>>,
         Top = [op |-> o, s |-> s, result |-> r]
  PROVE  /\ s \in Servers /\ owner[s] \in Automation /\ r \in Results
         /\ Top.op = o /\ Top.s = s /\ Top.result = r /\ Top \in Frames
         /\ Good(Below, owner)
         /\ o = "unbind" => Same(Below, stack)
<1>1. Good(stack, owner) /\ TypeBound
  BY DEF ComInv
<1>2. /\ Top.op = o /\ Top.s = s /\ Top.result = r
      /\ Top = Last(stack) /\ Below = Front(stack)
  BY DEF Top, Below
<1>3. /\ Good(Front(stack), owner) /\ Last(stack) \in Frames
      /\ Last(stack).op \in {"bind", "unbind"} => owner[Last(stack).s] # Nobody
  BY <1>1, GoodPop
<1>4. Last(stack) \in [op : {"bind", "unbind"}, s : Servers, result : Results]
  BY <1>2, <1>3, FrameTypes
<1>5. s \in Servers /\ owner[s] # Nobody /\ r \in Results
  BY <1>2, <1>3, <1>4
<1>6. owner[s] \in Automation
  BY <1>1, <1>5 DEF TypeBound
<1>7. ASSUME o = "unbind"
      PROVE  Same(Front(stack), stack)
  <2>1. Last(stack).op \notin {"invoke", "bind"}
    BY <1>2, <1>7
  <2> QED  BY <1>1, <2>1, QuietPop
<1> QED  BY <1>2, <1>3, <1>5, <1>6, <1>7

\* The frame of -unbind is exchanged for another.
LEMMA UnbindReplaced ==
  ASSUME ComInv, NEW s, NEW r, NEW g \in Results, stack # <<>>,
         Top = [op |-> "unbind", s |-> s, result |-> r], stack' = Decided(g)
  PROVE  Good(stack', owner) /\ Same(stack', stack)
<1> DEFINE f == [op |-> "unbind", s |-> s, result |-> g]
<1>1. /\ s \in Servers /\ owner[s] # Nobody /\ Good(Below, owner) /\ Same(Below, stack)
  <2>1. s \in Servers /\ owner[s] \in Automation /\ Good(Below, owner) /\ Same(Below, stack)
    BY BindTop
  <2> QED  BY <2>1, ComSinkAssumption DEF ComSinkAssumption
<1>2. f \in Frames /\ f.op = "unbind" /\ f.s = s
  BY <1>1, NewFrames
<1>3. [Top EXCEPT !.result = g] = f
  OBVIOUS
<1>4. stack' = Append(Below, f)
  BY <1>3 DEF Decided
<1> HIDE DEF f
<1>5. Good(Append(Below, f), owner) /\ Same(Append(Below, f), Below)
  BY <1>1, <1>2, QuietPush
<1> QED  BY <1>1, <1>4, <1>5, SameIsEquality

\* An error takes the call, and the destructor that made it, from the stack.
LEMMA FailKeeps ==
  ASSUME ComInv, NEW s, NEW r, stack # <<>>,
         Top = [op |-> "unbind", s |-> s, result |-> r], Fail
  PROVE  /\ Good(stack', owner) /\ Same(stack', stack)
         /\ obj' \in [Automation -> {"alive", "destroying", "gone"}]
<1>1. Good(Below, owner) /\ Same(Below, stack)
  BY BindTop
<1>2. obj \in [Automation -> {"alive", "destroying", "gone"}]
  BY DEF ComInv, TypeObj
<1>3. CASE Below # <<>> /\ Last(Below).op = "destroy"
  <2>1. stack' = Front(Below) /\ obj' = [obj EXCEPT ![Last(Below).a] = "gone"]
    BY <1>3 DEF Fail
  <2>2. Last(Below).op \notin {"invoke", "bind"}
    BY <1>3
  <2>3. Good(Front(Below), owner) /\ Same(Front(Below), Below)
    BY <1>1, <1>3, <2>2, QuietPop
  <2>4. Same(Front(Below), stack)
    BY <1>1, <2>3, SameIsEquality
  <2> QED  BY <1>2, <2>1, <2>3, <2>4
<1>4. CASE ~(Below # <<>> /\ Last(Below).op = "destroy")
  BY <1>1, <1>2, <1>4 DEF Fail
<1> QED  BY <1>3, <1>4

LEMMA UnbindStep ==
  ASSUME ComInv, NEW s \in Servers, Unbind(s)
  PROVE  ComInv'
<1> DEFINE f == [op |-> "unbind", s |-> s, result |-> "none"]
<1>1. /\ owner[s] # Nobody /\ stack' = Append(stack, f)
      /\ UNCHANGED <<comVars, autoVars, procVars, leaky>>
  BY DEF Unbind, Push
<1>2. f \in Frames /\ f.op = "unbind" /\ f.s = s
  BY NewFrames DEF Results
<1> HIDE DEF f
<1>3. Good(stack, owner) /\ TypeObj
  BY DEF ComInv
<1>4. Good(stack', owner) /\ Same(stack', stack)
  BY <1>1, <1>2, <1>3, QuietPush
<1>5. TypeObj' /\ UNCHANGED <<comVars, sinks, points, owner, procVars>>
  BY <1>1, <1>3 DEF TypeObj, autoVars
<1> QED  BY <1>4, <1>5, QuietKeeps

LEMMA UnadviseStep ==
  ASSUME ComInv, NEW s \in Servers, Unadvise(s)
  PROVE  ComInv'
<1>1. /\ stack # <<>> /\ Top = [op |-> "unbind", s |-> s, result |-> "none"]
      /\ UNCHANGED <<comVars, obj, owner, sinks, points, proxy, procVars>>
      /\ stack' = Decided("ok") \/ stack' = Decided("error")
      /\ advised' \subseteq advised /\ leaky' \subseteq leaky \union {owner[s]}
  BY DEF Unadvise
<1>2. Good(stack', owner) /\ Same(stack', stack)
  <2>1. "ok" \in Results /\ "error" \in Results
    BY DEF Results
  <2> QED  BY <1>1, <2>1, UnbindReplaced
<1>3. owner[s] \in Automation
  BY <1>1, BindTop
<1>4. TypeObj'
  BY <1>1, <1>3 DEF ComInv, TypeObj
<1> QED  BY <1>1, <1>2, <1>4, QuietKeeps

LEMMA UnbindFailsStep ==
  ASSUME ComInv, NEW s \in Servers, UnbindFails(s)
  PROVE  ComInv'
<1>1. /\ stack # <<>> /\ Top = [op |-> "unbind", s |-> s, result |-> "error"] /\ Fail
      /\ UNCHANGED <<comVars, owner, sinks, points, advised, proxy, procVars, leaky>>
  BY DEF UnbindFails
<1>2. /\ Good(stack', owner) /\ Same(stack', stack)
      /\ obj' \in [Automation -> {"alive", "destroying", "gone"}]
  BY <1>1, FailKeeps
<1>3. TypeObj'
  BY <1>1, <1>2 DEF ComInv, TypeObj
<1> QED  BY <1>1, <1>2, <1>3, QuietKeeps

LEMMA BindStep ==
  ASSUME ComInv, NEW a \in Automation, Bind(a)
  PROVE  ComInv'
<1> DEFINE f == [op |-> "find", a |-> a]
<1>1. /\ stack' = Append(stack, f) /\ UNCHANGED <<comVars, autoVars, procVars, leaky>>
  BY DEF Bind, Push
<1>2. f \in Frames /\ f.op = "find"
  BY NewFrames
<1> HIDE DEF f
<1>3. Good(stack, owner) /\ TypeObj
  BY DEF ComInv
<1>4. Good(stack', owner) /\ Same(stack', stack)
  BY <1>1, <1>2, <1>3, QuietPush
<1>5. TypeObj' /\ UNCHANGED <<comVars, sinks, points, owner, procVars>>
  BY <1>1, <1>3 DEF TypeObj, autoVars
<1> QED  BY <1>4, <1>5, QuietKeeps

LEMMA FindFailsStep ==
  ASSUME ComInv, NEW a \in Automation, FindFails(a)
  PROVE  ComInv'
<1>1. /\ stack # <<>> /\ Top = [op |-> "find", a |-> a]
      /\ stack' = Front(stack) /\ UNCHANGED <<comVars, autoVars, procVars, leaky>>
  BY DEF FindFails, Below
<1>2. Good(stack, owner) /\ TypeObj /\ Last(stack).op \notin {"invoke", "bind"}
  BY <1>1 DEF ComInv, Top
<1>3. Good(stack', owner) /\ Same(stack', stack)
  BY <1>1, <1>2, QuietPop
<1>4. TypeObj' /\ UNCHANGED <<comVars, sinks, points, owner, procVars>>
  BY <1>1, <1>2 DEF TypeObj, autoVars
<1> QED  BY <1>3, <1>4, QuietKeeps

LEMMA DestroyStep ==
  ASSUME ComInv, NEW a \in Automation, Destroy(a)
  PROVE  ComInv'
<1> DEFINE f == [op |-> "destroy", a |-> a, todo |-> sinks[a]]
<1>1. /\ stack' = Append(stack, f) /\ obj' = [obj EXCEPT ![a] = "destroying"]
      /\ UNCHANGED <<comVars, owner, sinks, points, advised, proxy, procVars, leaky>>
  BY DEF Destroy, Push
<1>2. f \in Frames /\ f.op = "destroy"
  <2>1. sinks[a] \in SUBSET Servers
    BY DEF ComInv, TypeBound
  <2> QED  BY <2>1, NewFrames
<1> HIDE DEF f
<1>3. Good(stack, owner) /\ TypeObj
  BY DEF ComInv
<1>4. Good(stack', owner) /\ Same(stack', stack)
  BY <1>1, <1>2, <1>3, QuietPush
<1>5. TypeObj'
  BY <1>1, <1>3 DEF TypeObj
<1> QED  BY <1>1, <1>4, <1>5, QuietKeeps

LEMMA DestroyAgainStep ==
  ASSUME ComInv, NEW a \in Automation, DestroyAgain(a)
  PROVE  ComInv'
<1>1. /\ obj' = [obj EXCEPT ![a] = "gone"] /\ leaky' = leaky \union {a}
      /\ UNCHANGED <<comVars, owner, sinks, points, advised, proxy, stack, procVars>>
  BY DEF DestroyAgain
<1>2. TypeObj' /\ Good(stack', owner) /\ Same(stack', stack)
  BY <1>1 DEF ComInv, TypeObj, Same, SameFor
<1> QED  BY <1>1, <1>2, QuietKeeps

LEMMA DestroyNextStep ==
  ASSUME ComInv, NEW a \in Automation, NEW s \in Servers, DestroyNext(a, s)
  PROVE  ComInv'
<1> DEFINE g == [Top EXCEPT !.todo = @ \ {s}]
           rest == Append(Below, g)
           f == [op |-> "unbind", s |-> s, result |-> "none"]
<1>1. /\ stack # <<>> /\ Top.op = "destroy" /\ Top.a = a
      /\ \/ s \in points[a] /\ stack' = Append(rest, f)
         \/ stack' = rest
      /\ UNCHANGED <<comVars, autoVars, procVars, leaky>>
  BY DEF DestroyNext
<1>2. /\ Good(stack, owner) /\ TypeObj /\ TypeBound /\ Bound
  BY DEF ComInv
<1>3. Good(Below, owner) /\ Top \in Frames /\ Same(Below, stack)
  <2>1. Top = Last(stack) /\ Below = Front(stack) /\ Last(stack).op \notin {"invoke", "bind"}
    BY <1>1 DEF Top, Below
  <2> QED  BY <1>1, <1>2, <2>1, GoodPop, QuietPop
<1>4. g \in Frames /\ g.op = "destroy"
  <2>1. Top \in [op : {"destroy"}, a : Automation, todo : SUBSET Servers]
    BY <1>1, <1>3, FrameTypes
  <2>2. g \in [op : {"destroy"}, a : Automation, todo : SUBSET Servers]
    BY <2>1
  <2> QED  BY <2>2 DEF Frames
<1> HIDE DEF g
<1>5. Good(rest, owner) /\ Same(rest, stack)
  BY <1>3, <1>4, QuietPush, SameIsEquality
<1>6. f \in Frames /\ f.op = "unbind" /\ f.s = s
  BY NewFrames DEF Results
<1> HIDE DEF rest, f
<1>7. ASSUME s \in points[a]
      PROVE  /\ Good(Append(rest, f), owner)
             /\ Same(Append(rest, f), stack)
  <2>1. owner[s] = a /\ a # Nobody
    BY <1>2, <1>7, ComSinkAssumption DEF Bound, ComSinkAssumption
  <2> QED  BY <1>5, <1>6, <2>1, QuietPush, SameIsEquality
<1>8. Good(stack', owner) /\ Same(stack', stack)
  BY <1>1, <1>5, <1>7
<1>9. TypeObj' /\ UNCHANGED <<comVars, sinks, points, owner, procVars>>
  BY <1>1, <1>2 DEF TypeObj, autoVars
<1> QED  BY <1>8, <1>9, QuietKeeps

LEMMA DestroyedStep ==
  ASSUME ComInv, NEW a \in Automation, Destroyed(a)
  PROVE  ComInv'
<1>1. /\ stack # <<>> /\ Top = [op |-> "destroy", a |-> a, todo |-> {}]
      /\ stack' = Front(stack) /\ proxy' = proxy \ {a} /\ obj' = [obj EXCEPT ![a] = "gone"]
      /\ UNCHANGED <<comVars, owner, sinks, points, advised, procVars, leaky>>
  BY DEF Destroyed, Below
<1>2. Good(stack, owner) /\ TypeObj /\ Last(stack).op \notin {"invoke", "bind"}
  BY <1>1 DEF ComInv, Top
<1>3. Good(stack', owner) /\ Same(stack', stack)
  BY <1>1, <1>2, QuietPop
<1>4. TypeObj'
  BY <1>1, <1>2 DEF TypeObj
<1> QED  BY <1>1, <1>3, <1>4, QuietKeeps

-----------------------------------------------------------------------------
(* Making and releasing a structure. *)

LEMMA HeldTypes ==
  ASSUME ComInv, NEW s
  PROVE  /\ Count(Asks(s), stack) \in Nat /\ Count(Keeps(s), stack) \in Nat
         /\ Count(Calls(s), stack) \in Nat
         /\ One(Sunk(s)) \in Nat /\ One(s \in outside) \in Nat /\ Held(s) \in Nat
<1>1. \A F : Count(F, stack) \in Nat
  BY GoodCounts DEF ComInv
<1>2. One(Sunk(s)) \in Nat /\ One(s \in outside) \in Nat
  BY DEF One
<1> QED  BY <1>1, <1>2 DEF Held

\* A structure that is not there has no references.
LEMMA Unmade ==
  ASSUME ComInv, NEW s \in Servers, life[s] # "live"
  PROVE  /\ refc[s] = 0 /\ ~Sunk(s) /\ s \notin outside /\ s \notin Live
         /\ Count(Asks(s), stack) = 0 /\ Count(Keeps(s), stack) = 0
         /\ Count(Calls(s), stack) = 0
<1>1. refc[s] = Held(s) /\ refc[s] \in Nat /\ ~(refc[s] > 0)
  BY DEF ComInv, Counted, TypeCom
<1>2. /\ Count(Asks(s), stack) = 0 /\ Count(Keeps(s), stack) = 0
      /\ Count(Calls(s), stack) = 0 /\ One(Sunk(s)) = 0 /\ One(s \in outside) = 0
  <2>1. /\ Count(Asks(s), stack) \in Nat /\ Count(Keeps(s), stack) \in Nat
        /\ Count(Calls(s), stack) \in Nat
        /\ One(Sunk(s)) \in Nat /\ One(s \in outside) \in Nat
    BY HeldTypes
  <2> DEFINE b == One(Sunk(s))
             o == One(s \in outside)
  <2>2. Count(Asks(s), stack) + Count(Keeps(s), stack) + b + o + Count(Calls(s), stack) = 0
    BY <1>1 DEF Held
  <2>3. b \in Nat /\ o \in Nat
    BY <2>1
  <2> HIDE DEF b, o
  <2>4. b = 0 /\ o = 0 /\ Count(Asks(s), stack) = 0 /\ Count(Keeps(s), stack) = 0
        /\ Count(Calls(s), stack) = 0
    BY <2>1, <2>2, <2>3
  <2> QED  BY <2>4 DEF b, o
<1> QED  BY <1>1, <1>2 DEF One, Live

LEMMA NewCounts ==
  ASSUME ComInv, NEW s \in Servers, NEW n \in Nat, New(s, n)
  PROVE  /\ refc' \in [Servers -> Nat] /\ life' \in [Servers -> {"none", "live", "freed"}]
         /\ refc'[s] = n /\ life'[s] = "live" /\ life[s] # "live"
         /\ \A x \in Servers \ {s} : refc'[x] = refc[x] /\ life'[x] = life[x]
         /\ servers' \in Nat /\ servers' = locks + Cardinality(Live')
<1>1. /\ life[s] = "none" /\ life' = [life EXCEPT ![s] = "live"]
      /\ refc' = [refc EXCEPT ![s] = n] /\ servers' = servers + 1
  BY DEF New
<1>2. TypeCom /\ TypeProc /\ Total
  BY DEF ComInv
<1>3. /\ refc' \in [Servers -> Nat] /\ life' \in [Servers -> {"none", "live", "freed"}]
      /\ refc'[s] = n /\ life'[s] = "live"
      /\ \A x \in Servers \ {s} : refc'[x] = refc[x] /\ life'[x] = life[x]
  BY <1>1, <1>2 DEF TypeCom
<1>4. Live' = Live \union {s} /\ s \notin Live
  BY <1>1, <1>3 DEF Live
<1>5. Cardinality(Live') = Cardinality(Live) + 1 /\ Cardinality(Live) \in Nat
  BY <1>4, LiveFinite, FS_AddElement
<1>6. servers' \in Nat /\ servers' = locks + Cardinality(Live')
  BY <1>1, <1>2, <1>5 DEF TypeProc, Total
<1> QED  BY <1>1, <1>3, <1>6

\* The last reference takes the structure from the process; when nothing else is
\* left, that is the end of its work.
LEMMA ReleaseCounts ==
  ASSUME ComInv, NEW s \in Servers, refc[s] > 0, Release(s)
  PROVE  /\ refc' \in [Servers -> Nat] /\ life' \in [Servers -> {"none", "live", "freed"}]
         /\ refc'[s] + 1 = refc[s] /\ (life'[s] = "live" <=> refc'[s] > 0)
         /\ \A x \in Servers \ {s} : refc'[x] = refc[x] /\ life'[x] = life[x]
         /\ servers' \in Nat /\ servers' = locks + Cardinality(Live')
         /\ signal' \in BOOLEAN
         /\ signal' /\ ~signal => locks = 0 /\ \A x \in Servers : life'[x] # "live"
<1>1. TypeCom /\ TypeProc /\ Total /\ Counted(s) /\ refc[s] \in Nat \ {0}
  BY DEF ComInv, TypeCom
<1>2. refc' = [refc EXCEPT ![s] = refc[s] - 1]
  BY DEF Release
<1>3. refc[s] - 1 \in Nat
  BY <1>1
<1>4. /\ refc' \in [Servers -> Nat] /\ refc'[s] = refc[s] - 1
      /\ \A x \in Servers \ {s} : refc'[x] = refc[x]
  BY <1>1, <1>2, <1>3 DEF TypeCom
<1>5. s \in Live /\ life[s] = "live"
  BY <1>1 DEF Counted, Live
<1>6. /\ IsFiniteSet(Live) /\ Cardinality(Live) \in Nat
      /\ Cardinality(Live \ {s}) = Cardinality(Live) - 1 /\ Cardinality(Live \ {s}) \in Nat
  <2>1. IsFiniteSet(Live \ {s}) /\ Cardinality(Live \ {s}) = Cardinality(Live) - 1
    BY <1>5, LiveFinite, FS_RemoveElement
  <2> QED  BY <2>1, LiveFinite, FS_CardinalityType
<1>7. CASE refc[s] = 1
  <2>1. /\ life' = [life EXCEPT ![s] = "freed"] /\ servers' = servers - 1
        /\ signal' = (signal \/ servers = 1)
    BY <1>7 DEF Release
  <2>2. /\ life' \in [Servers -> {"none", "live", "freed"}] /\ life'[s] = "freed"
        /\ \A x \in Servers \ {s} : life'[x] = life[x]
    BY <1>1, <2>1 DEF TypeCom
  <2>3. Live' = Live \ {s}
    BY <2>2 DEF Live
  <2>4. servers' = locks + Cardinality(Live') /\ servers' \in Nat
    BY <1>1, <1>6, <2>1, <2>3 DEF Total, TypeProc
  <2>5. signal' \in BOOLEAN
    BY <1>1, <2>1 DEF TypeProc
  <2>6. ASSUME signal', ~signal
        PROVE  locks = 0 /\ \A x \in Servers : life'[x] # "live"
    <3>1. servers = 1
      BY <2>1, <2>6
    <3>2. locks = 0 /\ Cardinality(Live \ {s}) = 0
      BY <1>1, <1>6, <3>1 DEF Total, TypeProc
    <3>3. IsFiniteSet(Live \ {s})
      BY <1>6, FS_RemoveElement
    <3>4. Live \ {s} = {}
      BY <3>2, <3>3, FS_EmptySet
    <3> QED  BY <2>3, <3>2, <3>4 DEF Live
  <2>7. refc'[s] = 0
    BY <1>4, <1>7
  <2> QED  BY <1>4, <1>7, <2>2, <2>4, <2>5, <2>6, <2>7
<1>8. CASE refc[s] # 1
  <2>1. UNCHANGED <<life, servers, signal>>
    BY <1>8 DEF Release
  <2>2. Live' = Live
    BY <2>1 DEF Live
  <2>3. refc'[s] > 0 /\ refc'[s] + 1 = refc[s]
    BY <1>1, <1>4, <1>8
  <2> QED  BY <1>1, <1>4, <1>5, <2>1, <2>2, <2>3 DEF TypeCom, TypeProc, Total
<1> QED  BY <1>7, <1>8

\* Putting the invariant together after a step about s
LEMMA StepOf ==
  ASSUME ComInv, NEW s \in Servers, TypeCom', TypeBound', TypeObj', TypeProc',
         Good(stack, owner)', Bound', Total', Counted(s)',
         \A x \in Servers \ {s} :
            /\ refc'[x] = refc[x] /\ life'[x] = life[x] /\ (x \in outside' <=> x \in outside)
            /\ (Sunk(x)' <=> Sunk(x)) /\ SameFor(x, stack', stack)
  PROVE  ComInv'
<1>1. ASSUME NEW x \in Servers, x # s
      PROVE  Counted(x)'
  <2>1. /\ refc'[x] = refc[x] /\ life'[x] = life[x] /\ (x \in outside' <=> x \in outside)
        /\ (Sunk(x)' <=> Sunk(x)) /\ SameFor(x, stack', stack)
    BY <1>1
  <2>2. Counted(x)
    BY DEF ComInv
  <2> QED  BY <2>1, <2>2 DEF Counted, Held, SameFor, One
<1> QED  BY <1>1 DEF ComInv

\* What is told when the signal is set
Told == signal' /\ ~signal => locks' = 0 /\ \A x \in Servers : life'[x] # "live"

\* A reference to s goes, and its structure is released.
LEMMA ReleaseStep ==
  ASSUME ComInv, NEW s \in Servers, Release(s), locks' = locks, outside' \subseteq Servers,
         TypeBound', TypeObj', Good(stack, owner)', Bound',
         Held(s)' \in Nat, Held(s)' + 1 = Held(s),
         (Count(Asks(s), stack) + Count(Keeps(s), stack) + One(Sunk(s)) <= 1)',
         (Count(Asks(s), stack) + One(s \in outside) <= 1)',
         \A x \in Servers \ {s} :
            /\ (x \in outside' <=> x \in outside) /\ (Sunk(x)' <=> Sunk(x))
            /\ SameFor(x, stack', stack)
  PROVE  ComInv' /\ Told
<1>1. refc[s] = Held(s) /\ refc[s] \in Nat
  BY DEF ComInv, Counted, TypeCom
<1>2. refc[s] > 0
  BY <1>1
<1>3. /\ refc' \in [Servers -> Nat] /\ life' \in [Servers -> {"none", "live", "freed"}]
      /\ refc'[s] + 1 = refc[s] /\ (life'[s] = "live" <=> refc'[s] > 0)
      /\ \A x \in Servers \ {s} : refc'[x] = refc[x] /\ life'[x] = life[x]
      /\ servers' \in Nat /\ servers' = locks + Cardinality(Live')
      /\ signal' \in BOOLEAN
      /\ signal' /\ ~signal => locks = 0 /\ \A x \in Servers : life'[x] # "live"
  BY <1>2, ReleaseCounts
<1>4. TypeCom' /\ TypeProc' /\ Total'
  BY <1>3 DEF ComInv, TypeCom, TypeProc, Total
<1>5. refc'[s] = Held(s)'
  <2>1. refc'[s] \in Nat
    BY <1>3
  <2> QED  BY <1>1, <1>3, <2>1
<1>6. Counted(s)'
  BY <1>3, <1>5 DEF Counted
<1>7. ComInv'
  BY <1>3, <1>4, <1>6, StepOf
<1> QED  BY <1>3, <1>7 DEF Told

\* A frame of s comes and goes: nothing changes for the others.
LEMMA PushOne ==
  ASSUME NEW q, NEW ow, Good(q, ow), NEW f \in Frames, NEW s,
         f.op = "invoke" \/ f.op = "bind", f.s = s
  PROVE  \A x : x # s => SameFor(x, Append(q, f), q)
<1> SUFFICES ASSUME NEW x, x # s PROVE SameFor(x, Append(q, f), q)
  OBVIOUS
<1>1. \A F : Count(F, q) \in Nat /\ Count(F, Append(q, f)) = Count(F, q) + One(f \in F)
  BY GoodCounts
<1>2. f \notin Calls(x) /\ f \notin Asks(x) /\ f \notin Keeps(x)
  BY AddsToOne
<1>3. ASSUME NEW F, f \notin F
      PROVE  Count(F, Append(q, f)) = Count(F, q)
  BY <1>1, <1>3 DEF One
<1> QED  BY <1>2, <1>3 DEF SameFor

LEMMA PopOne ==
  ASSUME NEW q, NEW ow, Good(q, ow), q # <<>>, NEW s,
         Last(q).op = "invoke" \/ Last(q).op = "bind", Last(q).s = s
  PROVE  \A x : x # s => SameFor(x, Front(q), q)
<1> SUFFICES ASSUME NEW x, x # s PROVE SameFor(x, Front(q), q)
  OBVIOUS
<1>1. \A F : /\ Count(F, Front(q)) \in Nat
             /\ Count(F, q) = Count(F, Front(q)) + One(Last(q) \in F)
  BY GoodCounts
<1>2. Last(q) \notin Calls(x) /\ Last(q) \notin Asks(x) /\ Last(q) \notin Keeps(x)
  BY AddsToOne
<1>3. ASSUME NEW F, Last(q) \notin F
      PROVE  Count(F, Front(q)) = Count(F, q)
  BY <1>1, <1>3 DEF One
<1> QED  BY <1>2, <1>3 DEF SameFor

\* What is taken from the count of s with its frame at the top
LEMMA TopCounts ==
  ASSUME ComInv, NEW s \in Servers, stack # <<>>, NEW o \in {"invoke", "bind"},
         NEW r, Last(stack).op = o, Last(stack).s = s, o = "bind" => Last(stack).result = r
  PROVE  /\ Good(Below, owner) /\ \A x : x # s => SameFor(x, Below, stack)
         /\ Count(Calls(s), Below) \in Nat /\ Count(Asks(s), Below) \in Nat
         /\ Count(Keeps(s), Below) \in Nat
         /\ Count(Calls(s), stack) = Count(Calls(s), Below) + One(o = "invoke")
         /\ Count(Asks(s), stack) = Count(Asks(s), Below) + One(o = "bind" /\ r = "none")
         /\ Count(Keeps(s), stack) = Count(Keeps(s), Below) + One(o = "bind" /\ r # "none")
<1>1. Good(stack, owner)
  BY DEF ComInv
<1>2. Good(Below, owner) /\ Last(stack) \in Frames
  BY <1>1, GoodPop DEF Below
<1>3. \A x : x # s => SameFor(x, Below, stack)
  BY <1>1, PopOne DEF Below
<1>4. \A F : /\ Count(F, Below) \in Nat
             /\ Count(F, stack) = Count(F, Below) + One(Last(stack) \in F)
  BY <1>1, GoodCounts DEF Below
<1>5. /\ (Last(stack) \in Calls(s)) = (o = "invoke")
      /\ (Last(stack) \in Asks(s)) = (o = "bind" /\ r = "none")
      /\ (Last(stack) \in Keeps(s)) = (o = "bind" /\ r # "none")
  <2>1. CASE o = "invoke"
    BY <1>2, <2>1 DEF Calls, Asks, Keeps
  <2>2. CASE o = "bind"
    BY <1>2, <2>2 DEF Calls, Asks, Keeps
  <2> QED  BY <2>1, <2>2
<1> QED  BY <1>2, <1>3, <1>4, <1>5

-----------------------------------------------------------------------------
(* Steps that change references. *)

LEMMA CreateInstanceStep ==
  ASSUME ComInv, NEW s \in Servers, CreateInstance(s)
  PROVE  ComInv'
<1>1. /\ New(s, 1) /\ outside' = outside \union {s}
      /\ UNCHANGED <<obj, owner, sinks, points, advised, proxy, leaky, stack, locks, signal>>
  BY DEF CreateInstance, autoVars
<1>2. /\ refc' \in [Servers -> Nat] /\ life' \in [Servers -> {"none", "live", "freed"}]
      /\ refc'[s] = 1 /\ life'[s] = "live" /\ life[s] # "live"
      /\ \A x \in Servers \ {s} : refc'[x] = refc[x] /\ life'[x] = life[x]
      /\ servers' \in Nat /\ servers' = locks + Cardinality(Live')
  BY <1>1, NewCounts
<1>3. /\ ~Sunk(s) /\ s \notin outside /\ Count(Asks(s), stack) = 0
      /\ Count(Keeps(s), stack) = 0 /\ Count(Calls(s), stack) = 0
  BY <1>2, Unmade
<1>4. TypeCom' /\ TypeBound' /\ TypeObj' /\ TypeProc' /\ Good(stack, owner)' /\ Bound' /\ Total'
  BY <1>1, <1>2
  DEF ComInv, TypeCom, TypeBound, TypeObj, TypeProc, Good, Bound, Total
<1>5. stack' = stack /\ \A x : (Sunk(x)' <=> Sunk(x)) /\ SameFor(x, stack', stack)
  BY <1>1 DEF Sunk, SameFor
<1>6. Counted(s)'
  BY <1>1, <1>2, <1>3, <1>5 DEF Counted, Held, One
<1> QED  BY <1>1, <1>2, <1>4, <1>5, <1>6, StepOf

LEMMA OutsideReleasesStep ==
  ASSUME ComInv, NEW s \in Servers, OutsideReleases(s)
  PROVE  ComInv' /\ Told
<1>1. /\ s \in outside /\ outside' = outside \ {s} /\ Release(s) /\ locks' = locks
      /\ UNCHANGED <<obj, owner, sinks, points, advised, proxy, leaky, stack>>
  BY DEF OutsideReleases, autoVars
<1>2. outside' \subseteq Servers /\ TypeBound' /\ TypeObj' /\ Good(stack, owner)' /\ Bound'
  BY <1>1 DEF ComInv, TypeCom, TypeBound, TypeObj, Good, Bound
<1>3. stack' = stack /\ \A x : (Sunk(x)' <=> Sunk(x)) /\ SameFor(x, stack', stack)
  BY <1>1 DEF Sunk, SameFor
<1>4. One(Sunk(s))' = One(Sunk(s)) /\ One(s \in outside) = 1 /\ One(s \in outside)' = 0
  BY <1>1, <1>3 DEF One
<1>5. /\ Count(Asks(s), stack) \in Nat /\ Count(Keeps(s), stack) \in Nat
      /\ Count(Calls(s), stack) \in Nat /\ One(Sunk(s)) \in Nat
  BY HeldTypes
<1>6. /\ Count(Asks(s), stack) + Count(Keeps(s), stack) + One(Sunk(s)) <= 1
      /\ Count(Asks(s), stack) + One(s \in outside) <= 1
  BY DEF ComInv, Counted
<1> DEFINE n == One(Sunk(s))
<1>7. /\ Held(s)' = Count(Asks(s), stack) + Count(Keeps(s), stack) + n + 0
                    + Count(Calls(s), stack)
      /\ Held(s) = Count(Asks(s), stack) + Count(Keeps(s), stack) + n + 1
                   + Count(Calls(s), stack)
  BY <1>3, <1>4 DEF Held
<1>8. n \in Nat
  BY <1>5
<1> HIDE DEF n
<1>9. Held(s)' \in Nat /\ Held(s)' + 1 = Held(s)
  BY <1>5, <1>7, <1>8
<1>10. /\ (Count(Asks(s), stack) + Count(Keeps(s), stack) + One(Sunk(s)) <= 1)'
       /\ (Count(Asks(s), stack) + One(s \in outside) <= 1)'
  BY <1>3, <1>4, <1>5, <1>6
<1> QED  BY <1>1, <1>2, <1>3, <1>9, <1>10, ReleaseStep

LEMMA InvokeStep ==
  ASSUME ComInv, NEW s \in Servers, Invoke(s)
  PROVE  ComInv'
<1>1. /\ s \in outside /\ stack' = Append(stack, Call(s)) /\ refc' = [refc EXCEPT ![s] = @ + 1]
      /\ UNCHANGED <<life, outside, obj, owner, sinks, points, advised, proxy, leaky,
                     servers, locks, signal>>
  BY DEF Invoke, Push, Call, autoVars, procVars
<1>2. /\ Good(stack, owner) /\ Call(s) \in Frames
      /\ Call(s).op = "invoke" /\ Call(s).s = s /\ Call(s).op \notin {"bind", "unbind"}
  <2>1. Call(s) \in Frames /\ Call(s).op = "invoke" /\ Call(s).s = s
    BY NewFrames
  <2> QED  BY <2>1 DEF ComInv
<1>3. Good(stack', owner) /\ \A x : x # s => SameFor(x, stack', stack)
  BY <1>1, <1>2, GoodPush, PushOne
<1>4. /\ Count(Calls(s), stack') = Count(Calls(s), stack) + 1
      /\ Count(Asks(s), stack') = Count(Asks(s), stack)
      /\ Count(Keeps(s), stack') = Count(Keeps(s), stack)
  <2>1. \A F : /\ Count(F, stack) \in Nat
               /\ Count(F, stack') = Count(F, stack) + One(Call(s) \in F)
    BY <1>1, <1>2, GoodCounts
  <2>2. Call(s) \in Calls(s) /\ Call(s) \notin Asks(s) /\ Call(s) \notin Keeps(s)
    BY <1>2 DEF Calls, Asks, Keeps
  <2> QED  BY <2>1, <2>2 DEF One
<1>5. /\ refc' \in [Servers -> Nat] /\ refc'[s] = refc[s] + 1 /\ refc[s] \in Nat
      /\ \A x \in Servers \ {s} : refc'[x] = refc[x]
  BY <1>1 DEF ComInv, TypeCom
<1>6. TypeCom' /\ TypeBound' /\ TypeObj' /\ TypeProc' /\ Good(stack, owner)' /\ Bound' /\ Total'
  BY <1>1, <1>3, <1>5
  DEF ComInv, TypeCom, TypeBound, TypeObj, TypeProc, Good, Bound, Total, Live
<1>7. /\ One(Sunk(s))' = One(Sunk(s)) /\ One(s \in outside)' = One(s \in outside)
      /\ One(s \in outside) = 1 /\ \A x : Sunk(x)' <=> Sunk(x)
  BY <1>1 DEF Sunk, One
<1>8. /\ Count(Asks(s), stack) \in Nat /\ Count(Keeps(s), stack) \in Nat
      /\ Count(Calls(s), stack) \in Nat /\ One(Sunk(s)) \in Nat
  BY HeldTypes
<1>9. Counted(s)'
  <2>1. Counted(s)
    BY DEF ComInv
  <2> DEFINE n == One(Sunk(s))
  <2>2. /\ Held(s)' = Count(Asks(s), stack) + Count(Keeps(s), stack) + n + 1
                      + (Count(Calls(s), stack) + 1)
        /\ Held(s) = Count(Asks(s), stack) + Count(Keeps(s), stack) + n + 1
                     + Count(Calls(s), stack)
    BY <1>4, <1>7 DEF Held
  <2>3. n \in Nat
    BY <1>8
  <2> HIDE DEF n
  <2>4. Held(s)' = Held(s) + 1 /\ Held(s) \in Nat /\ Held(s) > 0
    BY <1>8, <2>2, <2>3
  <2>5. refc'[s] = Held(s)' /\ refc'[s] > 0 /\ refc[s] > 0
    BY <1>5, <2>1, <2>4 DEF Counted
  <2>6. life'[s] = life[s] /\ life[s] = "live"
    BY <1>1, <2>1, <2>5 DEF Counted
  <2>7. /\ (Count(Asks(s), stack) + Count(Keeps(s), stack) + One(Sunk(s)) <= 1)'
        /\ (Count(Asks(s), stack) + One(s \in outside) <= 1)'
    BY <1>4, <1>7, <2>1 DEF Counted
  <2> QED  BY <2>5, <2>6, <2>7 DEF Counted
<1> QED  BY <1>1, <1>3, <1>5, <1>6, <1>7, <1>9, StepOf

LEMMA InvokeEndsStep ==
  ASSUME ComInv, NEW s \in Servers, InvokeEnds(s)
  PROVE  ComInv' /\ Told
<1>1. /\ stack # <<>> /\ Last(stack) = Call(s) /\ stack' = Below /\ Release(s)
      /\ locks' = locks
      /\ UNCHANGED <<outside, obj, owner, sinks, points, advised, proxy, leaky>>
  BY DEF InvokeEnds, Top, Call, autoVars, Below
<1>2. Last(stack).op = "invoke" /\ Last(stack).s = s
  BY <1>1 DEF Call
<1>3. /\ Good(Below, owner) /\ \A x : x # s => SameFor(x, Below, stack)
      /\ Count(Calls(s), Below) \in Nat /\ Count(Asks(s), Below) \in Nat
      /\ Count(Keeps(s), Below) \in Nat
      /\ Count(Calls(s), stack) = Count(Calls(s), Below) + 1
      /\ Count(Asks(s), stack) = Count(Asks(s), Below)
      /\ Count(Keeps(s), stack) = Count(Keeps(s), Below)
  <2>1. /\ Good(Below, owner) /\ \A x : x # s => SameFor(x, Below, stack)
        /\ Count(Calls(s), Below) \in Nat /\ Count(Asks(s), Below) \in Nat
        /\ Count(Keeps(s), Below) \in Nat
        /\ Count(Calls(s), stack) = Count(Calls(s), Below) + One("invoke" = "invoke")
        /\ Count(Asks(s), stack) = Count(Asks(s), Below) + One("invoke" = "bind" /\ 0 = "none")
        /\ Count(Keeps(s), stack) = Count(Keeps(s), Below) + One("invoke" = "bind" /\ 0 # "none")
    BY <1>1, <1>2, TopCounts
  <2> QED  BY <2>1 DEF One
<1>4. outside' \subseteq Servers /\ TypeBound' /\ TypeObj' /\ Good(stack, owner)' /\ Bound'
  BY <1>1, <1>3 DEF ComInv, TypeCom, TypeBound, TypeObj, Good, Bound
<1>5. /\ One(Sunk(s))' = One(Sunk(s)) /\ One(s \in outside)' = One(s \in outside)
      /\ \A x : (Sunk(x)' <=> Sunk(x)) /\ (x \in outside' <=> x \in outside)
  BY <1>1 DEF Sunk, One
<1>6. One(Sunk(s)) \in Nat /\ One(s \in outside) \in Nat
  BY HeldTypes
<1> DEFINE n == One(Sunk(s))
           m == One(s \in outside)
<1>7. /\ Held(s)' = Count(Asks(s), Below) + Count(Keeps(s), Below) + n + m
                    + Count(Calls(s), Below)
      /\ Held(s) = Count(Asks(s), Below) + Count(Keeps(s), Below) + n + m
                   + (Count(Calls(s), Below) + 1)
  BY <1>1, <1>3, <1>5 DEF Held
<1>8. n \in Nat /\ m \in Nat
  BY <1>6
<1> HIDE DEF n, m
<1>9. Held(s)' \in Nat /\ Held(s)' + 1 = Held(s)
  BY <1>3, <1>7, <1>8
<1>10. /\ (Count(Asks(s), stack) + Count(Keeps(s), stack) + One(Sunk(s)) <= 1)'
       /\ (Count(Asks(s), stack) + One(s \in outside) <= 1)'
  BY <1>1, <1>3, <1>5 DEF ComInv, Counted
<1> QED  BY <1>1, <1>3, <1>4, <1>5, <1>9, <1>10, ReleaseStep

-----------------------------------------------------------------------------
(* Binding. *)

\* The frame of -bind for s is at the top: it is the only one of s.
LEMMA OneBind ==
  ASSUME ComInv, NEW s, NEW r, stack # <<>>,
         Top = [op |-> "bind", s |-> s, result |-> r]
  PROVE  /\ s \in Servers /\ owner[s] \in Automation /\ Good(Below, owner)
         /\ \A x : x # s => SameFor(x, Below, stack)
         /\ Count(Asks(s), Below) = 0 /\ Count(Keeps(s), Below) = 0 /\ ~Sunk(s)
         /\ Count(Calls(s), Below) \in Nat /\ Count(Calls(s), stack) = Count(Calls(s), Below)
         /\ r = "none" => /\ Count(Asks(s), stack) = 1 /\ Count(Keeps(s), stack) = 0
                          /\ s \notin outside
         /\ r # "none" => Count(Asks(s), stack) = 0 /\ Count(Keeps(s), stack) = 1
<1>1. s \in Servers /\ owner[s] \in Automation
  BY BindTop
<1>2. Last(stack).op = "bind" /\ Last(stack).s = s /\ Last(stack).result = r
  BY DEF Top
<1>3. /\ Good(Below, owner) /\ \A x : x # s => SameFor(x, Below, stack)
      /\ Count(Calls(s), Below) \in Nat /\ Count(Asks(s), Below) \in Nat
      /\ Count(Keeps(s), Below) \in Nat
      /\ Count(Calls(s), stack) = Count(Calls(s), Below) + One("bind" = "invoke")
      /\ Count(Asks(s), stack) = Count(Asks(s), Below) + One("bind" = "bind" /\ r = "none")
      /\ Count(Keeps(s), stack) = Count(Keeps(s), Below) + One("bind" = "bind" /\ r # "none")
  BY <1>1, <1>2, TopCounts
<1>4. /\ Count(Asks(s), stack) + Count(Keeps(s), stack) + One(Sunk(s)) <= 1
      /\ Count(Asks(s), stack) + One(s \in outside) <= 1
  BY <1>1 DEF ComInv, Counted
<1>5. Count(Calls(s), stack) = Count(Calls(s), Below)
  BY <1>3 DEF One
<1>6. CASE r = "none"
  <2>1. /\ Count(Asks(s), stack) = Count(Asks(s), Below) + 1
        /\ Count(Keeps(s), stack) = Count(Keeps(s), Below)
    BY <1>3, <1>6 DEF One
  <2>2. /\ Sunk(s) => One(Sunk(s)) = 1
        /\ ~Sunk(s) => One(Sunk(s)) = 0
        /\ s \in outside => One(s \in outside) = 1
    BY DEF One
  <2>3. ~Sunk(s) /\ s \notin outside
    BY <1>3, <1>4, <2>1, <2>2
  <2>4. Count(Asks(s), Below) = 0 /\ Count(Keeps(s), Below) = 0
    BY <1>3, <1>4, <2>1, <2>2, <2>3
  <2> QED  BY <1>1, <1>3, <1>5, <1>6, <2>1, <2>3, <2>4
<1>7. CASE r # "none"
  <2>1. /\ Count(Asks(s), stack) = Count(Asks(s), Below)
        /\ Count(Keeps(s), stack) = Count(Keeps(s), Below) + 1
    BY <1>3, <1>7 DEF One
  <2>2. /\ Sunk(s) => One(Sunk(s)) = 1
        /\ ~Sunk(s) => One(Sunk(s)) = 0
    BY DEF One
  <2>3. ~Sunk(s)
    BY <1>3, <1>4, <2>1, <2>2
  <2>4. Count(Asks(s), Below) = 0 /\ Count(Keeps(s), Below) = 0
    BY <1>3, <1>4, <2>1, <2>2, <2>3
  <2> QED  BY <1>1, <1>3, <1>5, <1>7, <2>1, <2>3, <2>4
<1> QED  BY <1>6, <1>7

\* A frame of -bind for s is pushed.
LEMMA BindPush ==
  ASSUME NEW q, NEW ow, Good(q, ow), NEW s \in Servers, NEW r \in Results, ow[s] # Nobody,
         NEW f, f = [op |-> "bind", s |-> s, result |-> r]
  PROVE  /\ Good(Append(q, f), ow) /\ \A x : x # s => SameFor(x, Append(q, f), q)
         /\ Count(Calls(s), Append(q, f)) = Count(Calls(s), q)
         /\ Count(Asks(s), Append(q, f)) = Count(Asks(s), q) + One(r = "none")
         /\ Count(Keeps(s), Append(q, f)) = Count(Keeps(s), q) + One(r # "none")
<1>1. f \in Frames /\ f.op = "bind" /\ f.s = s /\ f.result = r
  BY NewFrames
<1>2. Good(Append(q, f), ow) /\ \A x : x # s => SameFor(x, Append(q, f), q)
  BY <1>1, GoodPush, PushOne
<1>3. \A F : Count(F, q) \in Nat /\ Count(F, Append(q, f)) = Count(F, q) + One(f \in F)
  BY <1>1, GoodCounts
<1>4. /\ f \notin Calls(s) /\ (f \in Asks(s)) = (r = "none") /\ (f \in Keeps(s)) = (r # "none")
  BY <1>1 DEF Calls, Asks, Keeps
<1>5. Count(Calls(s), Append(q, f)) = Count(Calls(s), q)
  BY <1>3, <1>4 DEF One
<1> QED  BY <1>2, <1>3, <1>4, <1>5

LEMMA BindSinkStep ==
  ASSUME ComInv, NEW a \in Automation, NEW s \in Servers, BindSink(a, s)
  PROVE  ComInv'
<1> DEFINE f == [op |-> "bind", s |-> s, result |-> "none"]
<1>1. /\ stack # <<>> /\ Last(stack) = [op |-> "find", a |-> a] /\ New(s, 1)
      /\ owner' = [owner EXCEPT ![s] = a] /\ stack' = Append(Below, f)
      /\ UNCHANGED <<outside, obj, sinks, points, advised, proxy, locks, signal, leaky>>
  BY DEF BindSink, Top
<1>2. TypeCom /\ TypeBound /\ TypeObj /\ TypeProc /\ Good(stack, owner) /\ Bound
  BY DEF ComInv
<1>3. /\ refc' \in [Servers -> Nat] /\ life' \in [Servers -> {"none", "live", "freed"}]
      /\ refc'[s] = 1 /\ life'[s] = "live" /\ life[s] # "live"
      /\ \A x \in Servers \ {s} : refc'[x] = refc[x] /\ life'[x] = life[x]
      /\ servers' \in Nat /\ servers' = locks + Cardinality(Live')
  BY <1>1, NewCounts
<1>4. /\ ~Sunk(s) /\ s \notin outside /\ Count(Asks(s), stack) = 0
      /\ Count(Keeps(s), stack) = 0 /\ Count(Calls(s), stack) = 0
  BY <1>3, Unmade
<1>5. /\ owner' \in [Servers -> Automation \union {Nobody}]
      /\ owner'[s] = a /\ \A x \in Servers \ {s} : owner'[x] = owner[x]
      /\ a # Nobody
  BY <1>1, <1>2, ComSinkAssumption DEF TypeBound, ComSinkAssumption
<1>6. Good(Below, owner) /\ Same(Below, stack)
  <2>1. Last(stack).op \notin {"invoke", "bind"}
    BY <1>1
  <2> QED  BY <1>1, <1>2, <2>1, QuietPop DEF Below
<1>7. Good(Below, owner')
  <2>1. Below \in Seq(Frames)
    BY <1>6 DEF Good
  <2>2. ASSUME NEW i \in 1 .. Len(Below), Below[i].op \in {"bind", "unbind"}
        PROVE  owner'[Below[i].s] # Nobody
    <3>1. Below[i] \in Frames
      BY <2>1
    <3>2. Below[i].s \in Servers /\ owner[Below[i].s] # Nobody
      <4>1. Below[i] \in [op : {"bind", "unbind"}, s : Servers, result : Results]
        BY <2>2, <3>1, FrameTypes
      <4> QED  BY <1>6, <2>2, <4>1 DEF Good
    <3> QED  BY <1>5, <3>2
  <2> QED  BY <2>1, <2>2 DEF Good
<1>8. /\ Good(stack', owner') /\ \A x : x # s => SameFor(x, stack', Below)
      /\ Count(Calls(s), stack') = Count(Calls(s), Below)
      /\ Count(Asks(s), stack') = Count(Asks(s), Below) + One("none" = "none")
      /\ Count(Keeps(s), stack') = Count(Keeps(s), Below) + One("none" # "none")
  <2>1. "none" \in Results
    BY DEF Results
  <2> HIDE DEF f
  <2>2. owner'[s] # Nobody
    BY <1>5
  <2>3. f = [op |-> "bind", s |-> s, result |-> "none"]
    BY DEF f
  <2> DEFINE ow == owner'
             q == Below
  <2>4. Good(q, ow) /\ ow[s] # Nobody /\ stack' = Append(q, f)
    BY <1>1, <1>7, <2>2
  <2> HIDE DEF ow, q
  <2>5. /\ Good(Append(q, f), ow) /\ \A x : x # s => SameFor(x, Append(q, f), q)
        /\ Count(Calls(s), Append(q, f)) = Count(Calls(s), q)
        /\ Count(Asks(s), Append(q, f)) = Count(Asks(s), q) + One("none" = "none")
        /\ Count(Keeps(s), Append(q, f)) = Count(Keeps(s), q) + One("none" # "none")
    BY <2>1, <2>3, <2>4, BindPush
  <2> QED  BY <2>4, <2>5 DEF ow, q
<1> HIDE DEF f
<1>9. \A x : x # s => SameFor(x, stack', stack)
  BY <1>6, <1>8 DEF Same, SameFor
<1>10. /\ Count(Calls(s), stack') = 0 /\ Count(Asks(s), stack') = 1
       /\ Count(Keeps(s), stack') = 0
  BY <1>4, <1>6, <1>8 DEF Same, SameFor, One
<1>11. Bound'
  <2>1. ASSUME NEW b \in Automation, NEW x \in sinks[b]
        PROVE  owner'[x] = b
    <3>1. x \in Servers /\ owner[x] = b /\ x # s
      BY <1>2, <1>4 DEF Bound, TypeBound, Sunk
    <3> QED  BY <1>5, <3>1
  <2> QED  BY <1>1, <1>2, <2>1 DEF Bound
<1>12. TypeCom' /\ TypeBound' /\ TypeObj' /\ TypeProc' /\ Good(stack, owner)' /\ Total'
  BY <1>1, <1>2, <1>3, <1>5, <1>8 DEF TypeCom, TypeBound, TypeObj, TypeProc, Total, Good
<1>13. \A x : Sunk(x)' <=> Sunk(x)
  BY <1>1 DEF Sunk
<1>14. Counted(s)'
  BY <1>1, <1>3, <1>4, <1>10, <1>13 DEF Counted, Held, One
<1> QED  BY <1>1, <1>3, <1>9, <1>11, <1>12, <1>13, <1>14, StepOf

LEMMA AdviseStep ==
  ASSUME ComInv, NEW s \in Servers, Advise(s)
  PROVE  ComInv'
<1>1. /\ stack # <<>> /\ Top = [op |-> "bind", s |-> s, result |-> "none"]
      /\ UNCHANGED <<life, obj, owner, sinks, points, proxy, leaky, servers, locks, signal>>
  BY DEF Advise, procVars
<1>2. PICK g \in {"ok", "error"} :
         /\ stack' = Decided(g)
         /\ g = "ok" => /\ refc' = [refc EXCEPT ![s] = @ + 1]
                        /\ outside' = outside \union {s} /\ advised' = advised \union {s}
         /\ g = "error" => UNCHANGED <<refc, outside, advised>>
  <2>1. CASE stack' = Decided("ok") /\ refc' = [refc EXCEPT ![s] = @ + 1]
             /\ outside' = outside \union {s} /\ advised' = advised \union {s}
    BY <2>1
  <2>2. CASE stack' = Decided("error") /\ UNCHANGED <<refc, outside, advised>>
    BY <2>2
  <2> QED  BY <2>1, <2>2 DEF Advise
<1>3. /\ owner[s] \in Automation /\ Good(Below, owner)
      /\ \A x : x # s => SameFor(x, Below, stack)
      /\ Count(Asks(s), Below) = 0 /\ Count(Keeps(s), Below) = 0 /\ ~Sunk(s)
      /\ Count(Calls(s), Below) \in Nat /\ Count(Calls(s), stack) = Count(Calls(s), Below)
      /\ Count(Asks(s), stack) = 1 /\ Count(Keeps(s), stack) = 0 /\ s \notin outside
  BY <1>1, OneBind
<1> DEFINE f == [Top EXCEPT !.result = g]
<1>4. stack' = Append(Below, f) /\ f = [op |-> "bind", s |-> s, result |-> g]
  BY <1>1, <1>2 DEF Decided
<1> HIDE DEF f
<1>5. /\ Good(stack', owner) /\ \A x : x # s => SameFor(x, stack', Below)
      /\ Count(Calls(s), stack') = Count(Calls(s), Below)
      /\ Count(Asks(s), stack') = Count(Asks(s), Below) + One(g = "none")
      /\ Count(Keeps(s), stack') = Count(Keeps(s), Below) + One(g # "none")
  <2>1. g \in Results /\ owner[s] # Nobody
    BY <1>3, ComSinkAssumption DEF Results, ComSinkAssumption
  <2> QED  BY <1>3, <1>4, <2>1, BindPush
<1>6. \A x : x # s => SameFor(x, stack', stack)
  BY <1>3, <1>5 DEF SameFor
<1>7. /\ Count(Calls(s), stack') = Count(Calls(s), Below) /\ Count(Asks(s), stack') = 0
      /\ Count(Keeps(s), stack') = 1
  BY <1>3, <1>5 DEF One
<1>8. TypeCom /\ TypeObj /\ Counted(s) /\ Good(stack, owner) /\ TypeBound /\ Bound
  BY DEF ComInv
<1>9. \A x : Sunk(x)' <=> Sunk(x)
  BY <1>1 DEF Sunk
<1>10. refc[s] = 1 + Count(Calls(s), Below) /\ refc[s] > 0 /\ life[s] = "live"
  BY <1>3, <1>8 DEF Counted, Held, One
<1>11. /\ TypeCom' /\ TypeObj' /\ Counted(s)'
       /\ \A x \in Servers \ {s} : refc'[x] = refc[x] /\ (x \in outside' <=> x \in outside)
  <2>1. CASE g = "ok"
    <3>1. /\ refc' = [refc EXCEPT ![s] = refc[s] + 1] /\ refc[s] \in Nat
          /\ outside' = outside \union {s} /\ advised' = advised \union {s}
      BY <1>2, <1>8, <2>1 DEF TypeCom
    <3>2. /\ refc' \in [Servers -> Nat] /\ refc'[s] = refc[s] + 1
          /\ \A x \in Servers \ {s} : refc'[x] = refc[x]
      BY <1>8, <3>1 DEF TypeCom
    <3>3. TypeCom' /\ TypeObj'
      BY <1>1, <1>8, <3>1, <3>2 DEF TypeCom, TypeObj
    <3>4. Counted(s)'
      BY <1>1, <1>3, <1>7, <1>9, <1>10, <3>1, <3>2 DEF Counted, Held, One
    <3> QED  BY <3>1, <3>2, <3>3, <3>4
  <2>2. CASE g = "error"
    <3>1. UNCHANGED <<refc, outside, advised>>
      BY <1>2, <2>2
    <3>2. TypeCom' /\ TypeObj'
      BY <1>1, <1>8, <3>1 DEF TypeCom, TypeObj
    <3>3. Counted(s)'
      BY <1>1, <1>3, <1>7, <1>8, <1>9, <1>10, <3>1 DEF Counted, Held, One
    <3> QED  BY <3>1, <3>2, <3>3
  <2> QED  BY <2>1, <2>2
<1>12. TypeBound' /\ TypeProc' /\ Good(stack, owner)' /\ Bound' /\ Total'
  BY <1>1, <1>5, <1>8 DEF ComInv, TypeBound, TypeProc, Good, Bound, Total, Live
<1> QED  BY <1>1, <1>6, <1>9, <1>11, <1>12, StepOf

LEMMA StoreSinkStep ==
  ASSUME ComInv, NEW s \in Servers, StoreSink(s)
  PROVE  ComInv' /\ Told
<1> DEFINE a == owner[s]
<1>1. /\ stack # <<>> /\ Top = [op |-> "bind", s |-> s, result |-> "ok"] /\ stack' = Below
      /\ UNCHANGED <<outside, obj, owner, advised, proxy, locks>>
      /\ leaky' \subseteq leaky \union {a}
  BY DEF StoreSink
<1>2. /\ a \in Automation /\ Good(Below, owner)
      /\ \A x : x # s => SameFor(x, Below, stack)
      /\ Count(Asks(s), Below) = 0 /\ Count(Keeps(s), Below) = 0 /\ ~Sunk(s)
      /\ Count(Calls(s), Below) \in Nat /\ Count(Calls(s), stack) = Count(Calls(s), Below)
      /\ Count(Asks(s), stack) = 0 /\ Count(Keeps(s), stack) = 1
  BY <1>1, OneBind
<1>3. TypeCom /\ TypeBound /\ TypeObj /\ TypeProc /\ Good(stack, owner) /\ Bound /\ Counted(s)
  BY DEF ComInv
<1>4. TypeObj' /\ Good(stack, owner)' /\ outside' \subseteq Servers
  BY <1>1, <1>2, <1>3 DEF TypeObj, TypeCom, Good
<1>5. CASE obj[a] # "gone"
  <2>1. /\ sinks' = [sinks EXCEPT ![a] = @ \union {s}]
        /\ points' = [points EXCEPT ![a] = @ \union {s}]
        /\ UNCHANGED <<refc, life, servers, signal>>
    BY <1>5 DEF StoreSink
  <2>2. /\ sinks' \in [Automation -> SUBSET Servers] /\ points' \in [Automation -> SUBSET Servers]
        /\ sinks'[a] = sinks[a] \union {s} /\ points'[a] = points[a] \union {s}
        /\ \A b \in Automation \ {a} : sinks'[b] = sinks[b] /\ points'[b] = points[b]
    BY <1>2, <1>3, <2>1 DEF TypeBound
  <2>3. Bound'
    BY <1>1, <1>2, <1>3, <2>2 DEF Bound
  <2>4. Sunk(s)' /\ \A x \in Servers \ {s} : Sunk(x)' <=> Sunk(x)
    BY <1>2, <2>2 DEF Sunk
  <2>5. TypeCom' /\ TypeBound' /\ TypeProc' /\ Total'
    BY <1>1, <1>3, <2>1, <2>2 DEF ComInv, TypeCom, TypeBound, TypeProc, Total, Live
  <2>6. One(Sunk(s)) = 0 /\ One(Sunk(s))' = 1 /\ One(s \in outside)' = One(s \in outside)
        /\ One(s \in outside) \in Nat
    BY <1>1, <1>2, <2>4 DEF One
  <2> DEFINE m == One(s \in outside)
             c == Count(Calls(s), Below)
  <2>7. Held(s) = 0 + 1 + 0 + m + c /\ Held(s)' = 0 + 0 + 1 + m + c
    BY <1>1, <1>2, <2>6 DEF Held
  <2>8. m \in Nat /\ c \in Nat
    BY <1>2, <2>6
  <2> HIDE DEF m, c
  <2>9. Held(s)' = Held(s)
    BY <2>7, <2>8
  <2>10. /\ (Count(Asks(s), stack) + Count(Keeps(s), stack) + One(Sunk(s)) <= 1)'
         /\ (Count(Asks(s), stack) + One(s \in outside) <= 1)'
    <3>1. One(s \in outside) <= 1
      BY DEF One
    <3> QED  BY <1>1, <1>2, <2>6, <3>1
  <2>11. Counted(s)'
    BY <1>3, <2>1, <2>9, <2>10 DEF Counted
  <2>12. ComInv'
    BY <1>1, <1>2, <1>4, <2>1, <2>3, <2>4, <2>5, <2>11, StepOf
  <2> QED  BY <2>1, <2>12 DEF Told
<1>6. CASE obj[a] = "gone"
  <2>1. Release(s) /\ UNCHANGED <<sinks, points>>
    BY <1>6 DEF StoreSink
  <2>2. TypeBound' /\ Bound' /\ locks' = locks
    BY <1>1, <1>3, <2>1 DEF TypeBound, Bound
  <2>3. \A x : (Sunk(x)' <=> Sunk(x)) /\ (x \in outside' <=> x \in outside)
    BY <1>1, <2>1 DEF Sunk
  <2>4. One(Sunk(s)) = 0 /\ One(Sunk(s))' = 0 /\ One(s \in outside)' = One(s \in outside)
        /\ One(s \in outside) \in Nat /\ One(s \in outside) <= 1
    BY <1>1, <1>2, <2>3 DEF One
  <2> DEFINE m == One(s \in outside)
             c == Count(Calls(s), Below)
  <2>5. Held(s) = 0 + 1 + 0 + m + c /\ Held(s)' = 0 + 0 + 0 + m + c
    BY <1>1, <1>2, <2>4 DEF Held
  <2>6. m \in Nat /\ c \in Nat
    BY <1>2, <2>4
  <2> HIDE DEF m, c
  <2>7. Held(s)' \in Nat /\ Held(s)' + 1 = Held(s)
    BY <2>5, <2>6
  <2>8. /\ (Count(Asks(s), stack) + Count(Keeps(s), stack) + One(Sunk(s)) <= 1)'
        /\ (Count(Asks(s), stack) + One(s \in outside) <= 1)'
    BY <1>1, <1>2, <2>4
  <2> QED  BY <1>1, <1>2, <1>4, <2>1, <2>2, <2>3, <2>7, <2>8, ReleaseStep
<1> QED  BY <1>5, <1>6

LEMMA BindFailsStep ==
  ASSUME ComInv, NEW s \in Servers, BindFails(s)
  PROVE  ComInv' /\ Told
<1>1. /\ stack # <<>> /\ Top = [op |-> "bind", s |-> s, result |-> "error"] /\ stack' = Below
      /\ Release(s) /\ locks' = locks
      /\ UNCHANGED <<outside, obj, owner, sinks, points, advised, proxy, leaky>>
  BY DEF BindFails, autoVars
<1>2. /\ Good(Below, owner)
      /\ \A x : x # s => SameFor(x, Below, stack)
      /\ Count(Asks(s), Below) = 0 /\ Count(Keeps(s), Below) = 0 /\ ~Sunk(s)
      /\ Count(Calls(s), Below) \in Nat /\ Count(Calls(s), stack) = Count(Calls(s), Below)
      /\ Count(Asks(s), stack) = 0 /\ Count(Keeps(s), stack) = 1
  BY <1>1, OneBind
<1>3. /\ TypeBound' /\ TypeObj' /\ Good(stack, owner)' /\ Bound' /\ outside' \subseteq Servers
  BY <1>1, <1>2 DEF ComInv, TypeBound, TypeObj, TypeCom, Good, Bound
<1>4. \A x : (Sunk(x)' <=> Sunk(x)) /\ (x \in outside' <=> x \in outside)
  BY <1>1 DEF Sunk
<1>5. One(Sunk(s)) = 0 /\ One(Sunk(s))' = 0 /\ One(s \in outside)' = One(s \in outside)
      /\ One(s \in outside) \in Nat /\ One(s \in outside) <= 1
  BY <1>1, <1>2, <1>4 DEF One
<1> DEFINE m == One(s \in outside)
           c == Count(Calls(s), Below)
<1>6. Held(s) = 0 + 1 + 0 + m + c /\ Held(s)' = 0 + 0 + 0 + m + c
  BY <1>1, <1>2, <1>5 DEF Held
<1>7. m \in Nat /\ c \in Nat
  BY <1>2, <1>5
<1> HIDE DEF m, c
<1>8. Held(s)' \in Nat /\ Held(s)' + 1 = Held(s)
  BY <1>6, <1>7
<1>9. /\ (Count(Asks(s), stack) + Count(Keeps(s), stack) + One(Sunk(s)) <= 1)'
      /\ (Count(Asks(s), stack) + One(s \in outside) <= 1)'
  BY <1>1, <1>2, <1>5
<1> QED  BY <1>1, <1>2, <1>3, <1>4, <1>8, <1>9, ReleaseStep

LEMMA UnboundStep ==
  ASSUME ComInv, NEW s \in Servers, Unbound(s)
  PROVE  ComInv' /\ Told
<1> DEFINE a == owner[s]
<1>1. /\ stack # <<>> /\ Top = [op |-> "unbind", s |-> s, result |-> "ok"]
      /\ UNCHANGED <<outside, owner, advised, proxy, locks, leaky>>
  BY DEF Unbound
<1>2. a \in Automation /\ Good(Below, owner) /\ Same(Below, stack)
  BY <1>1, BindTop
<1>3. TypeCom /\ TypeBound /\ TypeObj /\ TypeProc /\ Bound /\ Counted(s)
  BY DEF ComInv
<1>4. CASE s \in points[a] /\ obj[a] # "gone"
  <2>1. /\ points' = [points EXCEPT ![a] = @ \ {s}] /\ sinks' = [sinks EXCEPT ![a] = @ \ {s}]
        /\ Release(s) /\ stack' = Below /\ UNCHANGED obj
    BY <1>4 DEF Unbound
  <2>2. /\ sinks' \in [Automation -> SUBSET Servers] /\ points' \in [Automation -> SUBSET Servers]
        /\ sinks'[a] = sinks[a] \ {s} /\ points'[a] = points[a] \ {s}
        /\ \A b \in Automation \ {a} : sinks'[b] = sinks[b] /\ points'[b] = points[b]
    BY <1>2, <1>3, <2>1 DEF TypeBound
  <2>3. Sunk(s) /\ \A b \in Automation \ {a} : s \notin sinks[b]
    BY <1>2, <1>3, <1>4 DEF Bound, Sunk
  <2>4. ~Sunk(s)' /\ \A x \in Servers \ {s} : Sunk(x)' <=> Sunk(x)
    BY <1>2, <2>2, <2>3 DEF Sunk
  <2>5. Bound'
    BY <1>1, <1>2, <1>3, <2>2 DEF Bound
  <2>6. TypeBound' /\ TypeObj' /\ Good(stack, owner)' /\ outside' \subseteq Servers
    BY <1>1, <1>2, <1>3, <2>1, <2>2 DEF TypeBound, TypeObj, TypeCom, Good
  <2>7. /\ Count(Asks(s), Below) = Count(Asks(s), stack)
        /\ Count(Keeps(s), Below) = Count(Keeps(s), stack)
        /\ Count(Calls(s), Below) = Count(Calls(s), stack)
        /\ \A x : SameFor(x, Below, stack)
    BY <1>2 DEF Same, SameFor
  <2>8. One(Sunk(s)) = 1 /\ One(Sunk(s))' = 0 /\ One(s \in outside)' = One(s \in outside)
    BY <1>1, <2>3, <2>4 DEF One
  <2>9. /\ Count(Asks(s), stack) \in Nat /\ Count(Keeps(s), stack) \in Nat
        /\ Count(Calls(s), stack) \in Nat /\ One(s \in outside) \in Nat
    BY HeldTypes
  <2> DEFINE m == One(s \in outside)
             p == Count(Asks(s), stack)
             k == Count(Keeps(s), stack)
             c == Count(Calls(s), stack)
  <2>10. /\ Held(s) = p + k + 1 + m + c /\ Held(s)' = p + k + 0 + m + c
         /\ p + k + 1 <= 1 /\ p + m <= 1
    BY <1>3, <2>1, <2>7, <2>8 DEF Held, Counted
  <2>11. m \in Nat /\ p \in Nat /\ k \in Nat /\ c \in Nat
    BY <2>9
  <2>12. /\ (Count(Asks(s), stack) + Count(Keeps(s), stack) + One(Sunk(s)))' = p + k + 0
         /\ (Count(Asks(s), stack) + One(s \in outside))' = p + m
    BY <2>1, <2>7, <2>8
  <2> HIDE DEF m, p, k, c
  <2>13. Held(s)' \in Nat /\ Held(s)' + 1 = Held(s) /\ p + k + 0 <= 1
    BY <2>10, <2>11
  <2>14. /\ (Count(Asks(s), stack) + Count(Keeps(s), stack) + One(Sunk(s)) <= 1)'
         /\ (Count(Asks(s), stack) + One(s \in outside) <= 1)'
    BY <2>10, <2>12, <2>13
  <2> QED  BY <1>1, <2>1, <2>4, <2>5, <2>6, <2>7, <2>13, <2>14, ReleaseStep
<1>5. CASE ~(s \in points[a] /\ obj[a] # "gone")
  <2>1. Fail /\ UNCHANGED <<points, sinks, refc, life, servers, signal>>
    BY <1>5 DEF Unbound
  <2>2. /\ Good(stack', owner) /\ Same(stack', stack)
        /\ obj' \in [Automation -> {"alive", "destroying", "gone"}]
    BY <1>1, <2>1, FailKeeps
  <2>3. TypeObj' /\ UNCHANGED <<comVars, sinks, points, owner, procVars>>
    BY <1>1, <1>3, <2>1, <2>2 DEF TypeObj, comVars, procVars
  <2>4. ComInv'
    BY <2>2, <2>3, QuietKeeps
  <2> QED  BY <2>1, <2>4 DEF Told
<1> QED  BY <1>4, <1>5

\* Only the counts of the process change
LEMMA ProcessOnly ==
  ASSUME ComInv, TypeProc', Total',
         UNCHANGED <<refc, life, outside, obj, owner, sinks, points, advised, proxy, stack,
                     leaky>>
  PROVE  ComInv'
<1>1. TypeCom' /\ TypeBound' /\ TypeObj' /\ Good(stack, owner)' /\ Bound'
  BY DEF ComInv, TypeCom, TypeBound, TypeObj, Good, Bound
<1>2. ASSUME NEW s \in Servers
      PROVE  Counted(s)'
  <2>1. Counted(s) /\ (Sunk(s)' <=> Sunk(s))
    BY DEF ComInv, Sunk
  <2> QED  BY <2>1 DEF Counted, Held, One
<1> QED  BY <1>1, <1>2 DEF ComInv

LEMMA LockStep ==
  ASSUME ComInv, Lock
  PROVE  ComInv'
<1>1. /\ locks < MaxLocks /\ locks' = locks + 1 /\ servers' = servers + 1
      /\ UNCHANGED <<refc, life, outside, obj, owner, sinks, points, advised, proxy, stack,
                     signal, leaky>>
  BY DEF Lock, comVars, autoVars
<1>2. MaxLocks \in Nat /\ Cardinality(Live) \in Nat /\ Cardinality(Live') = Cardinality(Live)
  BY <1>1, LiveFinite, ComSinkAssumption DEF Live, ComSinkAssumption
<1>3. servers = locks + Cardinality(Live) /\ locks \in 0 .. MaxLocks /\ signal \in BOOLEAN
  BY DEF ComInv, Total, TypeProc
<1>4. locks' \in 0 .. MaxLocks /\ servers' \in Nat /\ servers' = locks' + Cardinality(Live)
  BY <1>1, <1>2, <1>3
<1>5. TypeProc' /\ Total'
  BY <1>1, <1>2, <1>3, <1>4 DEF TypeProc, Total
<1> QED  BY <1>1, <1>5, ProcessOnly

LEMMA UnlockStep ==
  ASSUME ComInv, Unlock
  PROVE  ComInv' /\ Told
<1>1. /\ locks > 0 /\ locks' = locks - 1 /\ servers' = servers - 1
      /\ signal' = (signal \/ servers = 1)
      /\ UNCHANGED <<refc, life, outside, obj, owner, sinks, points, advised, proxy, stack,
                     leaky>>
  BY DEF Unlock, comVars, autoVars
<1>2. MaxLocks \in Nat /\ Cardinality(Live) \in Nat /\ Cardinality(Live') = Cardinality(Live)
  BY <1>1, LiveFinite, ComSinkAssumption DEF Live, ComSinkAssumption
<1>3. servers = locks + Cardinality(Live) /\ locks \in 0 .. MaxLocks /\ signal \in BOOLEAN
  BY DEF ComInv, Total, TypeProc
<1>4. locks' \in 0 .. MaxLocks /\ servers' \in Nat /\ servers' = locks' + Cardinality(Live)
  BY <1>1, <1>2, <1>3
<1>5. TypeProc' /\ Total'
  BY <1>1, <1>2, <1>3, <1>4 DEF TypeProc, Total
<1>6. ComInv'
  BY <1>1, <1>5, ProcessOnly
<1>7. ASSUME signal', ~signal
      PROVE  locks' = 0 /\ \A x \in Servers : life'[x] # "live"
  <2>1. servers = 1
    BY <1>1, <1>7
  <2>2. locks = 1 /\ Cardinality(Live) = 0
    BY <1>1, <1>2, <1>3, <2>1
  <2>3. Live = {}
    BY <2>2, LiveFinite, FS_EmptySet
  <2>4. \A x \in Servers : life'[x] # "live"
    BY <1>1, <2>3 DEF Live
  <2> QED  BY <1>1, <2>2, <2>4
<1> QED  BY <1>6, <1>7 DEF Told

-----------------------------------------------------------------------------
(* The theorems. *)

LEMMA ComInvInit == Init => ComInv
<1> SUFFICES ASSUME Init PROVE ComInv
  OBVIOUS
<1>1. Live = {} /\ Cardinality(Live) = 0
  <2>1. Live = {}
    BY DEF Init, Live
  <2> QED  BY <2>1, FS_EmptySet
<1>2. TypeCom /\ TypeBound /\ TypeObj /\ Bound
  BY DEF Init, TypeCom, TypeBound, TypeObj, Bound
<1>3. TypeProc /\ Total
  <2>1. MaxLocks \in Nat /\ servers = 0 /\ locks = 0 /\ signal = FALSE
    BY ComSinkAssumption DEF Init, ComSinkAssumption
  <2>2. locks \in 0 .. MaxLocks /\ servers \in Nat
    BY <2>1
  <2>3. servers = locks + Cardinality(Live)
    BY <1>1, <2>1
  <2>4. TypeProc
    BY <2>1, <2>2 DEF TypeProc
  <2> QED  BY <2>3, <2>4 DEF Total
<1>4. Good(stack, owner)
  BY DEF Init, Good
<1>5. ASSUME NEW s \in Servers
      PROVE  Counted(s)
  <2>1. \A F : Count(F, stack) = 0
    BY NoFrames DEF Init
  <2>2. ~Sunk(s) /\ s \notin outside /\ refc[s] = 0 /\ life[s] = "none"
    BY DEF Init, Sunk
  <2> QED  BY <2>1, <2>2 DEF Counted, Held, One
<1> QED  BY <1>2, <1>3, <1>4, <1>5 DEF ComInv

\* The invariant is kept, and the signal is set only by a step that leaves nothing.
LEMMA ComStep ==
  ASSUME ComInv, [Next]_vars
  PROVE  ComInv' /\ Told
<1>1. ASSUME UNCHANGED signal
      PROVE  Told
  BY <1>1 DEF Told
<1>2. ASSUME NEW s \in Servers, CreateInstance(s) \/ OutsideReleases(s)
      PROVE  ComInv' /\ Told
  <2>1. CASE CreateInstance(s)
    BY <1>1, <2>1, CreateInstanceStep DEF CreateInstance
  <2>2. CASE OutsideReleases(s)
    BY <2>2, OutsideReleasesStep
  <2> QED  BY <1>2, <2>1, <2>2
<1>3. ASSUME NEW s \in Servers, Invoke(s) \/ InvokeEnds(s) \/ BindGoes(s)
      PROVE  ComInv' /\ Told
  <2>1. CASE Invoke(s)
    BY <1>1, <2>1, InvokeStep DEF Invoke, procVars
  <2>2. CASE InvokeEnds(s)
    BY <2>2, InvokeEndsStep
  <2>3. CASE Advise(s)
    BY <1>1, <2>3, AdviseStep DEF Advise, procVars
  <2>4. CASE StoreSink(s)
    BY <2>4, StoreSinkStep
  <2>5. CASE BindFails(s)
    BY <2>5, BindFailsStep
  <2> QED  BY <1>3, <2>1, <2>2, <2>3, <2>4, <2>5 DEF BindGoes
<1>4. ASSUME NEW s \in Servers, Unbind(s) \/ UnbindGoes(s)
      PROVE  ComInv' /\ Told
  <2>1. CASE Unbind(s)
    BY <1>1, <2>1, UnbindStep DEF Unbind, procVars
  <2>2. CASE Unadvise(s)
    BY <1>1, <2>2, UnadviseStep DEF Unadvise, procVars
  <2>3. CASE Unbound(s)
    BY <2>3, UnboundStep
  <2>4. CASE UnbindFails(s)
    BY <1>1, <2>4, UnbindFailsStep DEF UnbindFails, procVars
  <2> QED  BY <1>4, <2>1, <2>2, <2>3, <2>4 DEF UnbindGoes
<1>5. ASSUME NEW a \in Automation, Bind(a) \/ FindGoes(a)
      PROVE  ComInv' /\ Told
  <2>1. CASE Bind(a)
    BY <1>1, <2>1, BindStep DEF Bind, procVars
  <2>2. CASE FindFails(a)
    BY <1>1, <2>2, FindFailsStep DEF FindFails, procVars
  <2>3. ASSUME NEW s \in Servers, BindSink(a, s)
        PROVE  ComInv' /\ Told
    BY <1>1, <2>3, BindSinkStep DEF BindSink
  <2> QED  BY <1>5, <2>1, <2>2, <2>3 DEF FindGoes
<1>6. ASSUME NEW a \in Automation, Destroy(a) \/ DestroyAgain(a) \/ DestroyGoes(a)
      PROVE  ComInv' /\ Told
  <2>1. CASE Destroy(a)
    BY <1>1, <2>1, DestroyStep DEF Destroy, procVars
  <2>2. CASE DestroyAgain(a)
    BY <1>1, <2>2, DestroyAgainStep DEF DestroyAgain, procVars
  <2>3. ASSUME NEW s \in Servers, DestroyNext(a, s)
        PROVE  ComInv' /\ Told
    BY <1>1, <2>3, DestroyNextStep DEF DestroyNext, procVars
  <2>4. CASE Destroyed(a)
    BY <1>1, <2>4, DestroyedStep DEF Destroyed, procVars
  <2> QED  BY <1>6, <2>1, <2>2, <2>3, <2>4 DEF DestroyGoes
<1>7. CASE Lock
  BY <1>1, <1>7, LockStep DEF Lock
<1>8. CASE Unlock
  BY <1>8, UnlockStep
<1>9. CASE UNCHANGED vars
  <2>1. /\ UNCHANGED <<comVars, sinks, points, owner, procVars>> /\ UNCHANGED signal
        /\ UNCHANGED <<obj, advised, proxy, leaky, stack>>
    BY <1>9 DEF vars, autoVars, procVars
  <2>2. TypeObj' /\ Good(stack', owner) /\ Same(stack', stack)
    BY <2>1 DEF ComInv, TypeObj, Same, SameFor
  <2>3. ComInv'
    BY <2>1, <2>2, QuietKeeps
  <2> QED  BY <1>1, <2>1, <2>3
<1> QED  BY <1>2, <1>3, <1>4, <1>5, <1>6, <1>7, <1>8, <1>9 DEF Next

LEMMA InvImpliesExact == ComInv => SinkRefsExact
<1> SUFFICES ASSUME ComInv PROVE SinkRefsExact
  OBVIOUS
<1>1. TypeOK /\ stack \in Seq(Frames)
  <2>1. stack \in Seq(Frames) /\ \A i \in 1 .. Len(stack) : stack[i] \in Frames
    BY DEF ComInv, Good
  <2> QED  BY <2>1 DEF ComInv, TypeCom, TypeBound, TypeObj, TypeProc, TypeOK
<1>2. ASSUME NEW s \in Servers
      PROVE  /\ refc[s] = One(Binding(s)) + One(s \in UNION Range(sinks))
                          + One(s \in outside) + Cardinality(Invocations(s))
             /\ life[s] = "live" <=> refc[s] > 0
  <2>1. s \in UNION Range(sinks) <=> Sunk(s)
    BY DEF ComInv, TypeBound, Range, Sunk
  <2>2. Invocations(s) = FramesIn(Calls(s), stack)
    <3>1. ASSUME NEW i \in 1 .. Len(stack)
          PROVE  stack[i] = [op |-> "invoke", s |-> s] <=> stack[i] \in Calls(s)
      <4>1. stack[i] \in Frames
        BY <1>1
      <4> QED  BY <4>1, FrameTypes DEF Calls, Call
    <3> QED  BY <3>1 DEF Invocations, FramesIn
  <2>3. Counted(s)
    BY DEF ComInv
  <2>4. One(Binding(s)) = Count(Asks(s), stack) + Count(Keeps(s), stack)
    <3> DEFINE A == FramesIn(Asks(s), stack)
               K == FramesIn(Keeps(s), stack)
    <3>1. IsFiniteSet(A) /\ IsFiniteSet(K)
      <4>1. Len(stack) \in Nat
        BY <1>1
      <4>2. IsFiniteSet(1 .. Len(stack)) /\ A \subseteq 1 .. Len(stack) /\ K \subseteq 1 .. Len(stack)
        BY <4>1, FS_Interval DEF FramesIn
      <4> QED  BY <4>2, FS_Subset
    <3>2. Binding(s) <=> A # {} \/ K # {}
      BY <1>1 DEF Binding, FramesIn, Asks, Keeps
    <3>3. /\ Count(Asks(s), stack) \in Nat /\ Count(Keeps(s), stack) \in Nat
          /\ (Count(Asks(s), stack) = 0) <=> (A = {})
          /\ (Count(Keeps(s), stack) = 0) <=> (K = {})
      <4>1. Count(Asks(s), stack) \in Nat /\ Count(Keeps(s), stack) \in Nat
        BY HeldTypes
      <4> QED  BY <3>1, <4>1, FS_EmptySet DEF Count
    <3>4. Count(Asks(s), stack) + Count(Keeps(s), stack) <= 1
      <4> DEFINE n == One(Sunk(s))
      <4>1. n \in Nat /\ Count(Asks(s), stack) + Count(Keeps(s), stack) + n <= 1
        BY <2>3, HeldTypes DEF Counted
      <4> HIDE DEF n
      <4> QED  BY <3>3, <4>1
    <3> HIDE DEF A, K
    <3> QED  BY <3>2, <3>3, <3>4 DEF One
  <2>5. Held(s) = One(Binding(s)) + One(s \in UNION Range(sinks)) + One(s \in outside)
                  + Cardinality(Invocations(s))
    BY <2>1, <2>2, <2>4 DEF Held, Count, One
  <2> QED  BY <2>3, <2>5 DEF Counted
<1> QED  BY <1>1, <1>2 DEF SinkRefsExact

\* Whatever comes in during a script, an Advise, an Unadvise or a destructor, the
\* count of a structure is that of -bind, of _sinks, of the source or client and of the
\* calls it serves (Twapi_ComServer_Invoke, Twapi_ComServer_Release).
THEOREM SinkRefsAreExact == Spec => []SinkRefsExact
<1>1. ComInv /\ [Next]_vars => ComInv'
  BY ComStep
<1> QED  BY <1>1, ComInvInit, InvImpliesExact, PTL DEF Spec

\* com_shutdown_signal is set only when no structure is left and no client has a
\* lock (Twapi_ComServer_Release, Twapi_ClassFactory_LockServer).
THEOREM ShutsDownWhenIdle == Spec => ShutdownWhenIdle
<1>1. ComInv /\ [Next]_vars => ComInv'
  BY ComStep
<1>2. ComInv /\ [Next]_vars =>
         [signal' /\ ~signal => locks' = 0 /\ \A s \in Servers : life'[s] # "live"]_vars
  BY ComStep DEF Told
<1> QED  BY <1>1, <1>2, ComInvInit, PTL DEF Spec, ShutdownWhenIdle
=============================================================================
