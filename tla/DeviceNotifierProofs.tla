------------------------ MODULE DeviceNotifierProofs ------------------------
(***************************************************************************)
(* The context of a device notifier, proved for any notifiers, events and  *)
(* faults: its count is exact, it is deleted with its last reference, and  *)
(* nothing of a deleted context is left with the system.                   *)
(***************************************************************************)
EXTENDS DeviceNotifier, TLAPS

AddMsg(n) == [op |-> "add", n |-> n]
RemoveMsg(n) == [op |-> "remove", n |-> n]

\* m is in the sequence at most once
AtMostOnce(m, q) ==
    \A i, j \in 1 .. Len(q) : q[i] = m /\ q[j] = m => i = j

-----------------------------------------------------------------------------
(* Messages and sequences. *)

LEMMA InRange ==
  ASSUME NEW S, NEW q \in Seq(S), NEW m
  PROVE  m \in Range(q) <=> \E i \in 1 .. Len(q) : q[i] = m
  BY DEF Range

LEMMA HeadTail ==
  ASSUME NEW S, NEW q \in Seq(S), q # <<>>
  PROVE  /\ Head(q) \in S /\ Tail(q) \in Seq(S) /\ Len(Tail(q)) + 1 = Len(q)
         /\ Len(q) \in Nat \ {0} /\ Head(q) = q[1]
         /\ \A i \in 1 .. Len(Tail(q)) : Tail(q)[i] = q[i + 1]
  OBVIOUS

LEMMA AppendLast ==
  ASSUME NEW S, NEW q \in Seq(S), NEW e \in S
  PROVE  /\ Append(q, e) \in Seq(S) /\ Len(Append(q, e)) = Len(q) + 1 /\ Len(q) \in Nat
         /\ Append(q, e)[Len(q) + 1] = e
         /\ \A i \in 1 .. Len(q) : Append(q, e)[i] = q[i]
  OBVIOUS

\* What appending and taking the first do to membership
LEMMA AppendHas ==
  ASSUME NEW S, NEW q \in Seq(S), NEW e \in S, NEW m
  PROVE  /\ m \in Range(Append(q, e)) <=> m \in Range(q) \/ m = e
         /\ AtMostOnce(m, q) /\ (m = e => m \notin Range(q)) => AtMostOnce(m, Append(q, e))
<1> DEFINE a == Append(q, e)
           N == Len(q)
<1>1. /\ a \in Seq(S) /\ Len(a) = N + 1 /\ N \in Nat /\ a[N + 1] = e
      /\ \A i \in 1 .. N : a[i] = q[i]
  BY AppendLast
<1>2. m \in Range(q) <=> \E i \in 1 .. N : q[i] = m
  BY InRange
<1>3. AtMostOnce(m, q) <=> \A i, j \in 1 .. N : q[i] = m /\ q[j] = m => i = j
  BY DEF AtMostOnce
<1> HIDE DEF a, N
<1>4. m \in Range(a) <=> \E i \in 1 .. N + 1 : a[i] = m
  BY <1>1, InRange
<1>5. AtMostOnce(m, a) <=> \A i, j \in 1 .. N + 1 : a[i] = m /\ a[j] = m => i = j
  BY <1>1 DEF AtMostOnce
<1>6. /\ \A i \in 1 .. N + 1 : i \in 1 .. N \/ i = N + 1
      /\ N + 1 \in 1 .. N + 1 /\ \A i \in 1 .. N : i \in 1 .. N + 1
  BY <1>1
<1>7. m \in Range(a) <=> m \in Range(q) \/ m = e
  BY <1>1, <1>2, <1>4, <1>6
<1>8. ASSUME AtMostOnce(m, q), m = e => m \notin Range(q)
      PROVE  AtMostOnce(m, a)
  BY <1>1, <1>2, <1>3, <1>5, <1>6, <1>8
<1> QED  BY <1>7, <1>8 DEF a

LEMMA TailHas ==
  ASSUME NEW S, NEW q \in Seq(S), q # <<>>, NEW m
  PROVE  /\ m \in Range(q) <=> m = Head(q) \/ m \in Range(Tail(q))
         /\ AtMostOnce(m, q) => AtMostOnce(m, Tail(q))
         /\ AtMostOnce(m, q) /\ m = Head(q) => m \notin Range(Tail(q))
<1> DEFINE t == Tail(q)
           N == Len(t)
<1>1. /\ t \in Seq(S) /\ N + 1 = Len(q) /\ N \in Nat /\ Head(q) = q[1]
      /\ \A i \in 1 .. N : t[i] = q[i + 1]
  BY HeadTail
<1>2. m \in Range(q) <=> \E i \in 1 .. N + 1 : q[i] = m
  BY <1>1, InRange
<1>3. m \in Range(t) <=> \E i \in 1 .. N : t[i] = m
  BY <1>1, InRange
<1>4. 1 \in 1 .. N + 1 /\ \A i \in 1 .. N : i + 1 \in 1 .. N + 1 /\ i + 1 # 1
  BY <1>1
<1>5. \A i \in 1 .. N + 1 : i = 1 \/ \E k \in 1 .. N : i = k + 1
  <2> SUFFICES ASSUME NEW i \in 1 .. N + 1, i # 1
               PROVE  \E k \in 1 .. N : i = k + 1
    OBVIOUS
  <2>1. i - 1 \in 1 .. N /\ i = (i - 1) + 1
    BY <1>1
  <2> QED  BY <2>1
<1>6. \A i, j \in 1 .. N : i + 1 = j + 1 => i = j
  BY <1>1
<1>7. AtMostOnce(m, q) <=> \A i, j \in 1 .. N + 1 : q[i] = m /\ q[j] = m => i = j
  BY <1>1 DEF AtMostOnce
<1>8. AtMostOnce(m, t) <=> \A i, j \in 1 .. N : t[i] = m /\ t[j] = m => i = j
  BY DEF AtMostOnce
<1> HIDE DEF t, N
<1>9. m \in Range(q) <=> m = Head(q) \/ m \in Range(t)
  BY <1>1, <1>2, <1>3, <1>4, <1>5
<1>10. AtMostOnce(m, q) => AtMostOnce(m, t)
  BY <1>1, <1>4, <1>6, <1>7, <1>8
<1>11. AtMostOnce(m, q) /\ m = Head(q) => m \notin Range(t)
  BY <1>1, <1>3, <1>4, <1>7
<1> QED  BY <1>9, <1>10, <1>11 DEF t

LEMMA MessagesDiffer ==
  ASSUME NEW n \in Notifiers, NEW m \in Notifiers
  PROVE  /\ AddMsg(n) \in Messages /\ RemoveMsg(n) \in Messages /\ AddMsg(m) # RemoveMsg(n)
         /\ AddMsg(m) = AddMsg(n) => m = n
<1>1. AddMsg(n) \in Messages /\ RemoveMsg(n) \in Messages
  BY DEF AddMsg, RemoveMsg, Messages
<1>2. AddMsg(m).op = "add" /\ RemoveMsg(n).op = "remove" /\ "add" # "remove"
  BY DEF AddMsg, RemoveMsg
<1>3. AddMsg(m).n = m /\ AddMsg(n).n = n
  BY DEF AddMsg
<1> QED  BY <1>1, <1>2, <1>3

-----------------------------------------------------------------------------
(* The inductive invariant. *)

TypeRefs ==
    /\ life \in [Notifiers -> {"none", "live", "deleted"}]
    /\ nrefs \in [Notifiers -> Nat]
    /\ hnotif \in [Notifiers -> BOOLEAN]
    /\ window \in [Notifiers -> {"none", "open", "destroyed", "unlisted", "lost"}]
    /\ registry \subseteq Notifiers /\ posted \in Seq(Messages)

TypeTcl ==
    /\ sent \in [Notifiers -> Seq(1 .. MaxEvents)]
    /\ waiting \in Callbacks \union {None}
    /\ interp \in {"alive", "deleted"} /\ active \subseteq Notifiers
    /\ queue \in Seq(Callbacks) /\ running \in Callbacks \union {None}
    /\ response \in [Callbacks -> Answers] /\ events \in Seq(Events)
    /\ told \subseteq Callbacks /\ vetoed \subseteq Callbacks
    /\ reply \in [Callbacks -> {"none", "true", "false"}]

\* The window of n has a reference
Windowed(n) == window[n] \in {"open", "unlisted", "lost"}

\* What makes the count inductive: n is in the registry as long as its window is
\* open, and it has no window yet while the one message that adds it is on its way.
Held(n) ==
    /\ nrefs[n] = One(AddMsg(n) \in Range(posted)) + One(n \in registry) + One(Windowed(n))
    /\ life[n] = "live" <=> nrefs[n] > 0
    /\ life[n] = "none" => window[n] = "none"
    /\ n \in registry <=> window[n] = "open"
    /\ hnotif[n] => window[n] = "open"
    /\ AddMsg(n) \in Range(posted) => window[n] = "none"
    /\ AtMostOnce(AddMsg(n), posted)

RefInv == TypeRefs /\ \A n \in Notifiers : Held(n)

LEMMA RefInvInit == Init => RefInv
<1> SUFFICES ASSUME Init PROVE RefInv
  OBVIOUS
<1>1. TypeRefs
  BY DEF Init, TypeRefs
<1>2. ASSUME NEW n \in Notifiers
      PROVE  Held(n)
  <2>1. AddMsg(n) \notin Range(posted) /\ AtMostOnce(AddMsg(n), posted)
    BY DEF Init, Range, AtMostOnce
  <2>2. /\ nrefs[n] = 0 /\ life[n] = "none" /\ window[n] = "none" /\ n \notin registry
        /\ hnotif[n] = FALSE
    BY DEF Init
  <2> QED  BY <2>1, <2>2 DEF Held, Windowed, One
<1> QED  BY <1>1, <1>2 DEF RefInv

\* A notifier of which nothing changes
LEMMA Untouched ==
  ASSUME NEW m \in Notifiers, Held(m),
         nrefs'[m] = nrefs[m], life'[m] = life[m], window'[m] = window[m],
         hnotif'[m] = hnotif[m], m \in registry' <=> m \in registry,
         AddMsg(m) \in Range(posted') <=> AddMsg(m) \in Range(posted),
         AtMostOnce(AddMsg(m), posted')
  PROVE  Held(m)'
  BY DEF Held, Windowed

\* Actions that leave contexts and messages alone
LEMMA QuietKeeps ==
  ASSUME RefInv, UNCHANGED <<dncVars, registry, posted>>
  PROVE  RefInv'
  BY DEF RefInv, TypeRefs, Held, Windowed, dncVars

\* What a message that is posted or taken does to the messages that add
LEMMA PostKeeps ==
  ASSUME TypeRefs, NEW e \in Messages, posted' = Append(posted, e),
         NEW m \in Notifiers, AtMostOnce(AddMsg(m), posted),
         AddMsg(m) = e => AddMsg(m) \notin Range(posted)
  PROVE  /\ posted' \in Seq(Messages)
         /\ AddMsg(m) \in Range(posted') <=> AddMsg(m) \in Range(posted) \/ AddMsg(m) = e
         /\ AtMostOnce(AddMsg(m), posted')
  BY AppendHas, AppendLast DEF TypeRefs

LEMMA TakeKeeps ==
  ASSUME TypeRefs, NEW n \in Notifiers, NEW op \in {"add", "remove"}, Message(op, n)
  PROVE  /\ posted' \in Seq(Messages)
         /\ \A m \in Notifiers :
               /\ AtMostOnce(AddMsg(m), posted) => AtMostOnce(AddMsg(m), posted')
               /\ op = "remove" \/ m # n =>
                     (AddMsg(m) \in Range(posted') <=> AddMsg(m) \in Range(posted))
         /\ op = "add" /\ AtMostOnce(AddMsg(n), posted) =>
               AddMsg(n) \in Range(posted) /\ AddMsg(n) \notin Range(posted')
<1>1. /\ posted \in Seq(Messages) /\ posted # <<>> /\ posted' = Tail(posted)
      /\ Head(posted) = [op |-> op, n |-> n]
  BY DEF TypeRefs, Message
<1>2. op = "add" => Head(posted) = AddMsg(n)
  BY <1>1 DEF AddMsg
<1>3. op = "remove" => Head(posted) = RemoveMsg(n)
  BY <1>1 DEF RemoveMsg
<1>4. posted' \in Seq(Messages)
  BY <1>1, HeadTail
<1>5. ASSUME NEW m \in Notifiers
      PROVE  /\ AtMostOnce(AddMsg(m), posted) => AtMostOnce(AddMsg(m), posted')
             /\ op = "remove" \/ m # n =>
                   (AddMsg(m) \in Range(posted') <=> AddMsg(m) \in Range(posted))
  <2>1. /\ AddMsg(m) \in Range(posted) <=> AddMsg(m) = Head(posted) \/ AddMsg(m) \in Range(posted')
        /\ AtMostOnce(AddMsg(m), posted) => AtMostOnce(AddMsg(m), posted')
    BY <1>1, TailHas
  <2>2. op = "remove" \/ m # n => AddMsg(m) # Head(posted)
    BY <1>2, <1>3, MessagesDiffer
  <2> QED  BY <2>1, <2>2
<1>6. ASSUME op = "add", AtMostOnce(AddMsg(n), posted)
      PROVE  AddMsg(n) \in Range(posted) /\ AddMsg(n) \notin Range(posted')
  BY <1>1, <1>2, <1>6, TailHas
<1> QED  BY <1>4, <1>5, <1>6

-----------------------------------------------------------------------------
(* Steps that change references. *)

\* What Unref does
LEMMA Unreffed ==
  ASSUME TypeRefs, NEW n \in Notifiers, NEW up \in Nat, NEW k \in Nat, Unref(n, up, k)
  PROVE  /\ nrefs' \in [Notifiers -> Nat]
         /\ life' \in [Notifiers -> {"none", "live", "deleted"}]
         /\ \A m \in Notifiers \ {n} : nrefs'[m] = nrefs[m] /\ life'[m] = life[m]
         /\ nrefs[n] + up > k => nrefs'[n] + k = nrefs[n] + up /\ life'[n] = life[n]
         /\ ~(nrefs[n] + up > k) => nrefs'[n] = 0 /\ life'[n] = "deleted"
<1> DEFINE left == nrefs[n] + up
           new == IF left > k THEN left - k ELSE 0
<1>1. left \in Nat /\ new \in Nat
  BY DEF TypeRefs
<1>2. /\ left > k => new + k = left
      /\ ~(left > k) => new = 0
  BY <1>1
<1>3. /\ nrefs' = [nrefs EXCEPT ![n] = new]
      /\ life' = [life EXCEPT ![n] = IF left > k THEN @ ELSE "deleted"]
  BY DEF Unref
<1> HIDE DEF left, new
<1>4. /\ nrefs' \in [Notifiers -> Nat] /\ nrefs'[n] = new
      /\ \A m \in Notifiers \ {n} : nrefs'[m] = nrefs[m]
  BY <1>1, <1>3 DEF TypeRefs
<1>5. /\ life' \in [Notifiers -> {"none", "live", "deleted"}]
      /\ life'[n] = IF left > k THEN life[n] ELSE "deleted"
      /\ \A m \in Notifiers \ {n} : life'[m] = life[m]
  BY <1>3 DEF TypeRefs
<1> QED  BY <1>2, <1>4, <1>5 DEF left

\* An action about n leaves other notifiers alone when it does this.
LEMMA OnlyOne ==
  ASSUME RefInv, TypeRefs', NEW n \in Notifiers, Held(n)',
         \A m \in Notifiers \ {n} :
            /\ nrefs'[m] = nrefs[m] /\ life'[m] = life[m] /\ window'[m] = window[m]
            /\ hnotif'[m] = hnotif[m] /\ (m \in registry' <=> m \in registry)
            /\ (AddMsg(m) \in Range(posted') <=> AddMsg(m) \in Range(posted))
            /\ AtMostOnce(AddMsg(m), posted')
  PROVE  RefInv'
<1>1. ASSUME NEW m \in Notifiers, m # n
      PROVE  Held(m)'
  <2>1. /\ Held(m) /\ nrefs'[m] = nrefs[m] /\ life'[m] = life[m] /\ window'[m] = window[m]
        /\ hnotif'[m] = hnotif[m] /\ (m \in registry' <=> m \in registry)
        /\ (AddMsg(m) \in Range(posted') <=> AddMsg(m) \in Range(posted))
        /\ AtMostOnce(AddMsg(m), posted')
    BY <1>1 DEF RefInv
  <2> QED  BY <2>1, Untouched
<1> QED  BY <1>1 DEF RefInv

LEMMA StartStep ==
  ASSUME RefInv, NEW n \in Notifiers, Start(n)
  PROVE  RefInv'
<1>1. /\ TypeRefs /\ Held(n) /\ \A m \in Notifiers : AtMostOnce(AddMsg(m), posted)
  BY DEF RefInv, Held
<1>2. /\ life[n] = "none" /\ posted' = Append(posted, AddMsg(n))
      /\ life' = [life EXCEPT ![n] = "live"] /\ nrefs' = [nrefs EXCEPT ![n] = 1]
      /\ UNCHANGED <<hnotif, window, registry>>
  BY DEF Start, AddMsg
<1>3. /\ window[n] = "none" /\ n \notin registry /\ AddMsg(n) \notin Range(posted)
      /\ hnotif[n] = FALSE
  <2>1. /\ window[n] = "none" /\ n \notin registry /\ ~hnotif[n]
        /\ nrefs[n] \in Nat /\ ~(nrefs[n] > 0)
    BY <1>1, <1>2 DEF Held, TypeRefs
  <2>2. ASSUME AddMsg(n) \in Range(posted)
        PROVE  FALSE
    BY <1>1, <2>1, <2>2 DEF Held, One, Windowed
  <2> QED  BY <1>1, <2>1, <2>2 DEF TypeRefs
<1>4. /\ life' \in [Notifiers -> {"none", "live", "deleted"}] /\ life'[n] = "live"
      /\ nrefs' \in [Notifiers -> Nat] /\ nrefs'[n] = 1
      /\ \A m \in Notifiers \ {n} : nrefs'[m] = nrefs[m] /\ life'[m] = life[m]
  BY <1>1, <1>2 DEF TypeRefs
<1>5. \A m \in Notifiers :
         /\ posted' \in Seq(Messages)
         /\ AddMsg(m) \in Range(posted') <=> AddMsg(m) \in Range(posted) \/ AddMsg(m) = AddMsg(n)
         /\ AtMostOnce(AddMsg(m), posted')
  BY <1>1, <1>2, <1>3, MessagesDiffer, PostKeeps
<1>6. TypeRefs'
  BY <1>1, <1>2, <1>4, <1>5 DEF TypeRefs
<1>7. Held(n)'
  BY <1>2, <1>3, <1>4, <1>5 DEF Held, One, Windowed
<1> QED  BY <1>2, <1>4, <1>5, <1>6, <1>7, MessagesDiffer, OnlyOne

LEMMA StartFailsStep ==
  ASSUME RefInv, NEW n \in Notifiers, StartFails(n)
  PROVE  RefInv'
<1>1. /\ TypeRefs /\ Held(n) /\ nrefs[n] \in Nat
      /\ \A m \in Notifiers : AtMostOnce(AddMsg(m), posted)
  BY DEF RefInv, Held, TypeRefs
<1>2. /\ life[n] = "none" /\ Unref(n, 1, 1)
      /\ UNCHANGED <<hnotif, window, registry, posted>>
  BY DEF StartFails
<1>3. ~(nrefs[n] + 1 > 1)
  BY <1>1, <1>2 DEF Held
<1>4. /\ nrefs' \in [Notifiers -> Nat]
      /\ life' \in [Notifiers -> {"none", "live", "deleted"}]
      /\ \A m \in Notifiers \ {n} : nrefs'[m] = nrefs[m] /\ life'[m] = life[m]
      /\ nrefs'[n] = 0 /\ life'[n] = "deleted"
  BY <1>1, <1>2, <1>3, Unreffed
<1>5. TypeRefs'
  BY <1>1, <1>2, <1>4 DEF TypeRefs
<1>6. nrefs[n] = 0
  BY <1>1, <1>3
<1>7. Held(n)'
  BY <1>1, <1>2, <1>4, <1>6 DEF Held, Windowed
<1> QED  BY <1>1, <1>2, <1>4, <1>5, <1>7, OnlyOne

LEMMA StopStep ==
  ASSUME RefInv, NEW n \in Notifiers, Stop(n)
  PROVE  RefInv'
<1>1. TypeRefs /\ \A m \in Notifiers : Held(m) /\ AtMostOnce(AddMsg(m), posted)
  BY DEF RefInv, Held
<1>2. /\ posted' = Append(posted, RemoveMsg(n))
      /\ UNCHANGED <<life, nrefs, hnotif, window, registry>>
  BY DEF Stop, RemoveMsg, dncVars
<1>3. \A m \in Notifiers :
         /\ posted' \in Seq(Messages)
         /\ AddMsg(m) \in Range(posted') <=> AddMsg(m) \in Range(posted)
         /\ AtMostOnce(AddMsg(m), posted')
  BY <1>1, <1>2, MessagesDiffer, PostKeeps
<1>4. posted' \in Seq(Messages)
  BY <1>1, <1>2, MessagesDiffer, AppendLast DEF TypeRefs
<1>5. TypeRefs'
  BY <1>1, <1>2, <1>4 DEF TypeRefs
<1>6. ASSUME NEW m \in Notifiers
      PROVE  Held(m)'
  BY <1>1, <1>2, <1>3, Untouched
<1> QED  BY <1>5, <1>6 DEF RefInv

\* The message that adds n is taken: its reference is the only one.
LEMMA AddTaken ==
  ASSUME RefInv, NEW n \in Notifiers, Message("add", n)
  PROVE  /\ nrefs[n] = 1 /\ life[n] = "live" /\ window[n] = "none" /\ n \notin registry
         /\ hnotif[n] = FALSE
         /\ posted' \in Seq(Messages) /\ AddMsg(n) \notin Range(posted')
         /\ \A m \in Notifiers : AtMostOnce(AddMsg(m), posted')
         /\ \A m \in Notifiers \ {n} : AddMsg(m) \in Range(posted') <=> AddMsg(m) \in Range(posted)
<1>1. /\ TypeRefs /\ Held(n) /\ \A m \in Notifiers : AtMostOnce(AddMsg(m), posted)
  BY DEF RefInv, Held
<1>2. /\ posted' \in Seq(Messages) /\ AddMsg(n) \in Range(posted) /\ AddMsg(n) \notin Range(posted')
      /\ \A m \in Notifiers :
            /\ AtMostOnce(AddMsg(m), posted')
            /\ m # n => (AddMsg(m) \in Range(posted') <=> AddMsg(m) \in Range(posted))
  BY <1>1, TakeKeeps
<1>3. window[n] = "none" /\ n \notin registry /\ ~hnotif[n]
  BY <1>1, <1>2 DEF Held
<1>4. nrefs[n] = 1 /\ life[n] = "live"
  BY <1>1, <1>2, <1>3 DEF Held, One, Windowed
<1> QED  BY <1>1, <1>2, <1>3, <1>4 DEF TypeRefs

LEMMA OpenStep ==
  ASSUME RefInv, NEW n \in Notifiers, Open(n)
  PROVE  RefInv'
<1>1. TypeRefs /\ Message("add", n) /\ Unref(n, 2, 1)
  BY DEF RefInv, Open
<1>2. /\ window' = [window EXCEPT ![n] = "open"]
      /\ hnotif' = [hnotif EXCEPT ![n] = DevType[n] # "volume"]
      /\ registry' = registry \union {n}
  BY DEF Open
<1>3. /\ nrefs[n] = 1 /\ life[n] = "live"
      /\ posted' \in Seq(Messages) /\ AddMsg(n) \notin Range(posted')
      /\ \A m \in Notifiers : AtMostOnce(AddMsg(m), posted')
      /\ \A m \in Notifiers \ {n} : AddMsg(m) \in Range(posted') <=> AddMsg(m) \in Range(posted)
  BY <1>1, AddTaken
<1>4. /\ nrefs' \in [Notifiers -> Nat]
      /\ life' \in [Notifiers -> {"none", "live", "deleted"}]
      /\ \A m \in Notifiers \ {n} : nrefs'[m] = nrefs[m] /\ life'[m] = life[m]
      /\ nrefs'[n] = 2 /\ life'[n] = "live"
  <2>1. nrefs[n] + 2 = 3
    BY <1>3
  <2>2. /\ nrefs' \in [Notifiers -> Nat]
        /\ life' \in [Notifiers -> {"none", "live", "deleted"}]
        /\ \A m \in Notifiers \ {n} : nrefs'[m] = nrefs[m] /\ life'[m] = life[m]
        /\ nrefs'[n] + 1 = nrefs[n] + 2 /\ life'[n] = life[n]
    BY <1>1, <2>1, Unreffed
  <2>3. nrefs'[n] \in Nat /\ nrefs'[n] + 1 = 3
    BY <2>1, <2>2
  <2> QED  BY <1>3, <2>2, <2>3
<1>5. /\ window' \in [Notifiers -> {"none", "open", "destroyed", "unlisted", "lost"}]
      /\ window'[n] = "open" /\ \A m \in Notifiers \ {n} : window'[m] = window[m]
  BY <1>1, <1>2 DEF TypeRefs
<1>6. /\ hnotif' \in [Notifiers -> BOOLEAN]
      /\ \A m \in Notifiers \ {n} : hnotif'[m] = hnotif[m]
  BY <1>1, <1>2 DEF TypeRefs
<1>7. /\ registry' \subseteq Notifiers /\ n \in registry'
      /\ \A m \in Notifiers \ {n} : m \in registry' <=> m \in registry
  BY <1>1, <1>2 DEF TypeRefs
<1>8. TypeRefs'
  BY <1>3, <1>4, <1>5, <1>6, <1>7 DEF TypeRefs
<1>9. Held(n)'
  BY <1>3, <1>4, <1>5, <1>7 DEF Held, One, Windowed
<1> QED  BY <1>3, <1>4, <1>5, <1>6, <1>7, <1>8, <1>9, OnlyOne

LEMMA OpenFailsStep ==
  ASSUME RefInv, NEW n \in Notifiers, OpenFails(n)
  PROVE  RefInv'
<1>1. /\ TypeRefs /\ Message("add", n) /\ Unref(n, 0, 1)
      /\ UNCHANGED <<hnotif, window, registry>>
  BY DEF RefInv, OpenFails
<1>2. /\ nrefs[n] = 1 /\ window[n] = "none" /\ n \notin registry /\ hnotif[n] = FALSE
      /\ posted' \in Seq(Messages) /\ AddMsg(n) \notin Range(posted')
      /\ \A m \in Notifiers : AtMostOnce(AddMsg(m), posted')
      /\ \A m \in Notifiers \ {n} : AddMsg(m) \in Range(posted') <=> AddMsg(m) \in Range(posted)
  BY <1>1, AddTaken
<1>3. /\ nrefs' \in [Notifiers -> Nat]
      /\ life' \in [Notifiers -> {"none", "live", "deleted"}]
      /\ \A m \in Notifiers \ {n} : nrefs'[m] = nrefs[m] /\ life'[m] = life[m]
      /\ nrefs'[n] = 0 /\ life'[n] = "deleted"
  BY <1>1, <1>2, Unreffed
<1>4. TypeRefs'
  BY <1>1, <1>2, <1>3 DEF TypeRefs
<1>5. Held(n)'
  BY <1>1, <1>2, <1>3 DEF Held, One, Windowed
<1> QED  BY <1>1, <1>2, <1>3, <1>4, <1>5, OnlyOne

LEMMA OpenRefusedStep ==
  ASSUME RefInv, NEW n \in Notifiers, OpenRefused(n)
  PROVE  RefInv'
<1> DEFINE new == IF DevType[n] = "handle" THEN "lost" ELSE "unlisted"
<1>1. /\ TypeRefs /\ Message("add", n) /\ Unref(n, 1, 1)
      /\ window' = [window EXCEPT ![n] = new] /\ UNCHANGED <<hnotif, registry>>
  BY DEF RefInv, OpenRefused
<1>2. /\ nrefs[n] = 1 /\ life[n] = "live" /\ n \notin registry /\ hnotif[n] = FALSE
      /\ posted' \in Seq(Messages) /\ AddMsg(n) \notin Range(posted')
      /\ \A m \in Notifiers : AtMostOnce(AddMsg(m), posted')
      /\ \A m \in Notifiers \ {n} : AddMsg(m) \in Range(posted') <=> AddMsg(m) \in Range(posted)
  BY <1>1, AddTaken
<1>3. /\ nrefs' \in [Notifiers -> Nat]
      /\ life' \in [Notifiers -> {"none", "live", "deleted"}]
      /\ \A m \in Notifiers \ {n} : nrefs'[m] = nrefs[m] /\ life'[m] = life[m]
      /\ nrefs'[n] + 1 = 2 /\ life'[n] = "live"
  BY <1>1, <1>2, Unreffed
<1>4. /\ window' \in [Notifiers -> {"none", "open", "destroyed", "unlisted", "lost"}]
      /\ window'[n] \in {"unlisted", "lost"}
      /\ \A m \in Notifiers \ {n} : window'[m] = window[m]
  BY <1>1 DEF TypeRefs
<1>5. TypeRefs'
  BY <1>1, <1>2, <1>3, <1>4 DEF TypeRefs
<1>6. nrefs'[n] = 1
  BY <1>3
<1>7. Held(n)'
  BY <1>1, <1>2, <1>3, <1>4, <1>6 DEF Held, One, Windowed
<1> QED  BY <1>1, <1>2, <1>3, <1>4, <1>5, <1>7, OnlyOne

LEMMA CloseStep ==
  ASSUME RefInv, NEW n \in Notifiers, Close(n)
  PROVE  RefInv'
<1>1. /\ TypeRefs /\ Held(n) /\ \A m \in Notifiers : AtMostOnce(AddMsg(m), posted)
  BY DEF RefInv, Held
<1>2. /\ Message("remove", n) /\ n \in registry /\ Unref(n, 0, 2)
      /\ registry' = registry \ {n}
      /\ window' = [window EXCEPT ![n] = "destroyed"]
      /\ hnotif' = [hnotif EXCEPT ![n] = FALSE]
  BY DEF Close
<1>3. /\ posted' \in Seq(Messages)
      /\ \A m \in Notifiers :
            /\ AtMostOnce(AddMsg(m), posted')
            /\ AddMsg(m) \in Range(posted') <=> AddMsg(m) \in Range(posted)
  BY <1>1, <1>2, TakeKeeps
<1>4. window[n] = "open" /\ AddMsg(n) \notin Range(posted)
  BY <1>1, <1>2 DEF Held
<1>5. nrefs[n] = 2
  BY <1>1, <1>2, <1>4 DEF Held, One, Windowed
<1>6. /\ nrefs' \in [Notifiers -> Nat]
      /\ life' \in [Notifiers -> {"none", "live", "deleted"}]
      /\ \A m \in Notifiers \ {n} : nrefs'[m] = nrefs[m] /\ life'[m] = life[m]
      /\ nrefs'[n] = 0 /\ life'[n] = "deleted"
  BY <1>1, <1>2, <1>5, Unreffed
<1>7. /\ window' \in [Notifiers -> {"none", "open", "destroyed", "unlisted", "lost"}]
      /\ window'[n] = "destroyed" /\ \A m \in Notifiers \ {n} : window'[m] = window[m]
      /\ hnotif' \in [Notifiers -> BOOLEAN] /\ hnotif'[n] = FALSE
      /\ \A m \in Notifiers \ {n} : hnotif'[m] = hnotif[m]
  BY <1>1, <1>2 DEF TypeRefs
<1>8. /\ registry' \subseteq Notifiers /\ n \notin registry'
      /\ \A m \in Notifiers \ {n} : m \in registry' <=> m \in registry
  BY <1>1, <1>2 DEF TypeRefs
<1>9. TypeRefs'
  BY <1>3, <1>6, <1>7, <1>8 DEF TypeRefs
<1>10. Held(n)'
  BY <1>3, <1>4, <1>6, <1>7, <1>8 DEF Held, One, Windowed
<1> QED  BY <1>3, <1>6, <1>7, <1>8, <1>9, <1>10, OnlyOne

LEMMA CloseUnknownStep ==
  ASSUME RefInv, NEW n \in Notifiers, CloseUnknown(n)
  PROVE  RefInv'
<1>1. TypeRefs /\ \A m \in Notifiers : Held(m) /\ AtMostOnce(AddMsg(m), posted)
  BY DEF RefInv, Held
<1>2. Message("remove", n) /\ UNCHANGED <<life, nrefs, hnotif, window, registry>>
  BY DEF CloseUnknown, dncVars
<1>3. /\ posted' \in Seq(Messages)
      /\ \A m \in Notifiers :
            /\ AtMostOnce(AddMsg(m), posted')
            /\ AddMsg(m) \in Range(posted') <=> AddMsg(m) \in Range(posted)
  BY <1>1, <1>2, TakeKeeps
<1>4. TypeRefs'
  BY <1>1, <1>2, <1>3 DEF TypeRefs
<1>5. ASSUME NEW m \in Notifiers
      PROVE  Held(m)'
  BY <1>1, <1>2, <1>3, Untouched
<1> QED  BY <1>4, <1>5 DEF RefInv

\* The thread's work on windows, waits and callbacks leaves contexts alone
LEMMA RefInvStep == RefInv /\ [Next]_vars => RefInv'
<1> SUFFICES ASSUME RefInv, [Next]_vars PROVE RefInv'
  OBVIOUS
<1>1. ASSUME NEW n \in Notifiers, Start(n) \/ StartFails(n) \/ Stop(n)
      PROVE  RefInv'
  BY <1>1, StartStep, StartFailsStep, StopStep
<1>2. ASSUME NEW n \in Notifiers, Post(n)
      PROVE  RefInv'
  BY <1>2, OpenStep, OpenFailsStep, OpenRefusedStep, CloseStep, CloseUnknownStep DEF Post
<1>3. ASSUME NEW e \in Events, Send(e)
      PROVE  RefInv'
  BY <1>3, QuietKeeps DEF Send
<1>4. ASSUME NEW c \in Callbacks, WinProc(c)
      PROVE  RefInv'
  BY <1>4, QuietKeeps DEF WinProc, Ignore, Notify, Query, QueryFails
<1>5. CASE WaitEnds
  BY <1>5, QuietKeeps DEF WaitEnds, Answered, TimedOut
<1>6. CASE InterpDelete
  BY <1>6, QuietKeeps DEF InterpDelete
<1>7. CASE Serve
  BY <1>7, QuietKeeps DEF Serve, Discard, Tell
<1>8. ASSUME NEW r \in Answers \ {"none"}, ScriptEnds(r)
      PROVE  RefInv'
  BY <1>8, QuietKeeps DEF ScriptEnds
<1>9. CASE UNCHANGED vars
  BY <1>9, QuietKeeps DEF vars
<1> QED
  BY <1>1, <1>2, <1>3, <1>4, <1>5, <1>6, <1>7, <1>8, <1>9 DEF Next, ThreadStep

-----------------------------------------------------------------------------
(* Types of the rest. *)

\* Sequences of the Tcl thread and of the windows
LEMMA TypeTclStep ==
  ASSUME TypeTcl, registry \subseteq Notifiers, [Next]_vars
  PROVE  TypeTcl'
<1>1. ASSUME NEW n \in Notifiers, Start(n) \/ StartFails(n) \/ Stop(n)
      PROVE  TypeTcl'
  BY <1>1 DEF Start, StartFails, Stop, TypeTcl, tclVars, histVars
<1>2. ASSUME NEW n \in Notifiers, Post(n)
      PROVE  TypeTcl'
  <2>1. /\ UNCHANGED <<waiting, tclVars, response, events, histVars, reply>>
        /\ UNCHANGED sent \/ sent' = [sent EXCEPT ![n] = <<>>]
    BY <1>2 DEF Post, Open, OpenFails, OpenRefused, Close, CloseUnknown
  <2>2. sent' \in [Notifiers -> Seq(1 .. MaxEvents)]
    <3> DEFINE S == Seq(1 .. MaxEvents)
    <3>1. <<>> \in S /\ sent \in [Notifiers -> S]
      BY DEF TypeTcl
    <3> HIDE DEF S
    <3>2. sent' \in [Notifiers -> S]
      BY <2>1, <3>1
    <3> QED  BY <3>2 DEF S
  <2> QED  BY <2>1, <2>2 DEF TypeTcl, tclVars, histVars
<1>3. ASSUME NEW e \in Events, Send(e)
      PROVE  TypeTcl'
  <2>1. /\ events' = Append(events, e) /\ Len(events) < MaxEvents
        /\ sent' = [n \in Notifiers |->
                      IF Receives(n, e) THEN Append(sent[n], Len(events) + 1) ELSE sent[n]]
        /\ UNCHANGED <<waiting, tclVars, response, histVars, reply>>
    BY <1>3 DEF Send
  <2>2. events' \in Seq(Events) /\ Len(events) + 1 \in 1 .. MaxEvents
    <3>1. events \in Seq(Events) /\ MaxEvents \in Nat
      BY DeviceNotifierAssumption DEF TypeTcl, DeviceNotifierAssumption
    <3>2. events' \in Seq(Events) /\ Len(events) \in Nat
      BY <2>1, <3>1, AppendLast
    <3> QED  BY <2>1, <3>1, <3>2
  <2>3. ASSUME NEW n \in Notifiers
        PROVE  Append(sent[n], Len(events) + 1) \in Seq(1 .. MaxEvents)
    BY <2>2 DEF TypeTcl
  <2>4. sent' \in [Notifiers -> Seq(1 .. MaxEvents)]
    BY <2>1, <2>3 DEF TypeTcl
  <2> QED  BY <2>1, <2>2, <2>4 DEF TypeTcl, tclVars, histVars
<1>4. ASSUME NEW c \in Callbacks, WinProc(c)
      PROVE  TypeTcl'
  <2>1. c[1] \in Notifiers
    BY DEF Callbacks
  <2>2. Receive(c)
    BY <1>4 DEF WinProc, Ignore, Notify, Query, QueryFails
  <2>3. sent' \in [Notifiers -> Seq(1 .. MaxEvents)]
    <3>1. /\ sent[c[1]] \in Seq(1 .. MaxEvents) /\ sent[c[1]] # <<>>
          /\ sent' = [sent EXCEPT ![c[1]] = Tail(@)]
      BY <2>1, <2>2 DEF TypeTcl, Receive
    <3>2. Tail(sent[c[1]]) \in Seq(1 .. MaxEvents)
      BY <3>1, HeadTail
    <3> QED  BY <2>1, <3>1, <3>2 DEF TypeTcl
  <2>4. Append(queue, c) \in Seq(Callbacks)
    BY DEF TypeTcl
  <2>5. ASSUME Return(c, "true")
        PROVE  reply' \in [Callbacks -> {"none", "true", "false"}]
    BY <2>5 DEF Return, TypeTcl
  <2>6. CASE Ignore(c) \/ QueryFails(c)
    BY <2>3, <2>5, <2>6 DEF Ignore, QueryFails, TypeTcl, tclVars, histVars
  <2>7. CASE Notify(c)
    BY <2>3, <2>4, <2>7 DEF Notify, TypeTcl, tclVars, histVars
  <2>8. CASE Query(c)
    BY <2>3, <2>4, <2>8 DEF Query, TypeTcl, tclVars, histVars
  <2> QED  BY <1>4, <2>6, <2>7, <2>8 DEF WinProc
<1>5. CASE WaitEnds
  <2>1. /\ waiting \in Callbacks /\ waiting' = None
        /\ UNCHANGED <<sent, tclVars, response, events, histVars>>
        /\ Return(waiting, Granted(response[waiting])) \/ Return(waiting, "true")
    BY <1>5 DEF WaitEnds, Answered, TimedOut, TypeTcl
  <2>2. Granted(response[waiting]) \in {"none", "true", "false"}
    BY DEF Granted
  <2>3. reply' \in [Callbacks -> {"none", "true", "false"}]
    BY <2>1, <2>2 DEF Return, TypeTcl
  <2> QED  BY <2>1, <2>3 DEF TypeTcl, tclVars, histVars
<1>6. CASE InterpDelete
  BY <1>6 DEF InterpDelete, TypeTcl, histVars
<1>7. CASE Serve
  <2>1. PICK c \in Callbacks : Discard(c) \/ Tell(c)
    BY <1>7 DEF Serve
  <2>2. queue # <<>> /\ queue' = Tail(queue)
    BY <2>1 DEF Discard, Tell, Dispatch
  <2>3. queue' \in Seq(Callbacks)
    BY <2>2, HeadTail DEF TypeTcl
  <2>4. CASE Discard(c)
    <3>1. response' \in [Callbacks -> Answers]
      BY <2>4 DEF Discard, Answer, Answers, TypeTcl
    <3> QED  BY <2>3, <2>4, <3>1 DEF Discard, TypeTcl, histVars
  <2>5. CASE Tell(c)
    BY <2>3, <2>5 DEF Tell, TypeTcl
  <2> QED  BY <2>1, <2>4, <2>5
<1>8. ASSUME NEW r \in Answers \ {"none"}, ScriptEnds(r)
      PROVE  TypeTcl'
  <2>1. running \in Callbacks
    BY <1>8 DEF ScriptEnds, TypeTcl
  <2>2. response' \in [Callbacks -> Answers]
    BY <1>8, <2>1 DEF ScriptEnds, Answer, TypeTcl
  <2> QED  BY <1>8, <2>1, <2>2 DEF ScriptEnds, TypeTcl
<1>9. CASE UNCHANGED vars
  BY <1>9 DEF vars, TypeTcl, tclVars, histVars
<1> QED
  BY <1>1, <1>2, <1>3, <1>4, <1>5, <1>6, <1>7, <1>8, <1>9 DEF Next, ThreadStep

-----------------------------------------------------------------------------
(* The theorems. *)

LEMMA InvImpliesExact == RefInv /\ TypeTcl => NotifierRefsExact
<1> SUFFICES ASSUME RefInv, TypeTcl PROVE NotifierRefsExact
  OBVIOUS
<1>1. ASSUME NEW n \in Notifiers
      PROVE  /\ nrefs[n] = One(Adding(n)) + One(n \in registry)
                            + One(window[n] = "open" \/ Refused(n))
             /\ nrefs[n] \in 0 .. 2 /\ (life[n] = "live" <=> nrefs[n] > 0)
             /\ hnotif[n] => life[n] = "live" /\ window[n] = "open"
  <2>1. Held(n) /\ nrefs[n] \in Nat
    BY DEF RefInv, TypeRefs
  <2>2. /\ Adding(n) <=> AddMsg(n) \in Range(posted)
        /\ Windowed(n) <=> window[n] = "open" \/ Refused(n)
    BY DEF Adding, AddMsg, Windowed, Refused
  <2>3. nrefs[n] = One(Adding(n)) + One(n \in registry)
                   + One(window[n] = "open" \/ Refused(n))
    BY <2>1, <2>2 DEF Held, One
  <2>4. /\ Adding(n) => n \notin registry /\ ~Windowed(n)
        /\ n \in registry => Windowed(n)
    BY <2>1, <2>2 DEF Held, Windowed
  <2>5. nrefs[n] \in 0 .. 2
    BY <2>2, <2>3, <2>4 DEF One
  <2>6. hnotif[n] => life[n] = "live" /\ window[n] = "open"
    BY <2>1, <2>2, <2>3 DEF Held, One
  <2> QED  BY <2>1, <2>3, <2>5, <2>6 DEF Held
<1>2. TypeOK
  BY <1>1 DEF RefInv, TypeRefs, TypeTcl, TypeOK
<1> QED  BY <1>1, <1>2 DEF NotifierRefsExact

\* Whatever fails, the message, the window and the registry hold exactly the
\* references that are counted, and the context is deleted with the last of them
\* (TwapiDeviceNotificationContextUnref, device.c:524 and 791).
THEOREM NotifierRefsAreExact == Spec => []NotifierRefsExact
<1>1. Init => RefInv /\ TypeTcl
  <2>1. Init => TypeTcl
    BY DEF Init, TypeTcl, Answers
  <2> QED  BY <2>1, RefInvInit
<1>2. RefInv /\ TypeTcl /\ [Next]_vars => RefInv' /\ TypeTcl'
  <2>1. RefInv => registry \subseteq Notifiers
    BY DEF RefInv, TypeRefs
  <2> QED  BY <2>1, RefInvStep, TypeTclStep
<1>3. RefInv /\ TypeTcl => NotifierRefsExact
  BY InvImpliesExact
<1> QED  BY <1>1, <1>2, <1>3, PTL DEF Spec
=============================================================================
