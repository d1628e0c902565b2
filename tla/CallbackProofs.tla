---------------------------- MODULE CallbackProofs ----------------------------
(***************************************************************************)
(* The callback framework, proved for any callbacks, sources and failures: *)
(* the reference counts of callbacks and of the context are exact, an      *)
(* event is open as long as anyone may use it, a context without a console *)
(* control handler is deleted once, when nobody posts to it, and callers   *)
(* have what AsyncCall promises them.  And the waits on handles, proved    *)
(* for any waits, handles and callbacks: every step of theirs is one of    *)
(* the callback framework, so that what is proved of it holds with the     *)
(* registrations in place, and the pool never runs for a registration that *)
(* has been freed.                                                         *)
(*                                                                         *)
(* The counts are not inductive by themselves: that Dispatch takes         *)
(* references from one place to another without loss needs the queue to    *)
(* hold the queued callbacks, each once (QueueInv).                        *)
(***************************************************************************)
EXTENDS ThreadPoolWait, FiniteSetTheorems, TLAPS

-----------------------------------------------------------------------------
(* THE CALLBACK FRAMEWORK, with any sources. *)

(* The references of callbacks. *)

\* What the argument needs of the types
PostTypes ==
    /\ DOMAIN pc = Callbacks /\ DOMAIN at = Callbacks /\ DOMAIN event = Callbacks
    /\ nrefs \in [Callbacks -> Int]
    /\ queue \in Seq(Callbacks)

\* The queue holds queued callbacks, each once; a callback that has not been
\* posted is nowhere.
QueueInv ==
    /\ \A i \in 1 .. Len(queue) : at[queue[i]] = "queued"
    /\ \A i, j \in 1 .. Len(queue) : queue[i] = queue[j] => i = j
    /\ \A c \in Callbacks :
          pc[c] \in {"none", "new", "refused"} => at[c] = "none" /\ event[c] = "none"

\* An event is closed with the last reference, and that callback is over
ClosedInv ==
    \A c \in Callbacks :
        event[c] = "closed" => nrefs[c] = 0

\* The references that are made for callers, the one that a caller leaves behind
\* when it times out included
Charged(c) == pc[c] \in {"waiting", "answered", "timedout"}

\* The counts, case by case
RefCounts ==
    \A c \in Callbacks :
        /\ Pending(c) /\ Charged(c) => nrefs[c] = 2
        /\ Pending(c) /\ ~Charged(c) => nrefs[c] = 1
        /\ ~Pending(c) /\ Charged(c) => nrefs[c] = 1
        /\ ~Pending(c) /\ ~Charged(c) => nrefs[c] = 0

LEMMA RefCountsExact == RefCounts => CallbackRefsExact
  BY DEF RefCounts, CallbackRefsExact, Charged, Held, One

RefInv == PostTypes /\ QueueInv /\ RefCounts /\ ClosedInv

LEMMA RefInvInit == Init => RefInv
  BY DEF Init, RefInv, PostTypes, QueueInv, RefCounts, ClosedInv, Pending, Charged

\* A step that leaves the thread that posts and the queue alone, and moves a
\* callback within the Tcl thread.
LEMMA RunStep ==
  ASSUME RefInv, NEW c \in Callbacks,
         at[c] \in {"call", "eval", "plain", "signal"},
         NEW p \in {"eval", "plain", "signal", "unref"},
         at' = [at EXCEPT ![c] = p],
         UNCHANGED <<postVars, nrefs, event, queue>>
  PROVE  RefInv'
  BY DEF RefInv, PostTypes, QueueInv, RefCounts, ClosedInv, Pending, Charged, postVars

\* A step elsewhere
LEMMA StillStep ==
  ASSUME RefInv, UNCHANGED <<postVars, nrefs, event, at, queue>>
  PROVE  RefInv'
  BY DEF RefInv, PostTypes, QueueInv, RefCounts, ClosedInv, Pending, Charged, postVars

\* Dropping a reference, of the event that has been serviced or of the caller
LEMMA UnrefStep ==
  ASSUME RefInv, NEW c \in Callbacks, CallbackUnref(c),
         UNCHANGED queue,
         \/ at[c] = "unref" /\ at' = [at EXCEPT ![c] = "done"] /\ UNCHANGED pc
         \/ Charged(c) /\ pc' = [pc EXCEPT ![c] = "back"] /\ UNCHANGED at
  PROVE  RefInv'
<1> USE DEF RefInv, PostTypes, RefCounts, ClosedInv, Pending, Charged
<1>1. nrefs[c] \in {1, 2} /\ nrefs' = [nrefs EXCEPT ![c] = nrefs[c] - 1]
  BY DEF CallbackUnref
<1>2. /\ DOMAIN event' = Callbacks
      /\ \A d \in Callbacks \ {c} : event'[d] = event[d]
      /\ event[c] = "none" => event'[c] = "none"
      /\ event'[c] = "closed" => nrefs[c] = 1
  BY <1>1 DEF CallbackUnref
<1>3. PostTypes'
  BY <1>1, <1>2
<1>4. QueueInv'
  BY <1>2 DEF QueueInv
<1>5. RefCounts'
  BY <1>1
<1>6. ClosedInv'
  BY <1>1, <1>2
<1> QED  BY <1>3, <1>4, <1>5, <1>6

LEMMA PostStep ==
  ASSUME RefInv, NEW c \in Callbacks, Post(c)
  PROVE  RefInv'
<1> USE DEF RefInv, PostTypes, QueueInv, RefCounts, ClosedInv, Pending, Charged
<1>1. CASE EnqueueRefused(c)
  BY <1>1 DEF EnqueueRefused, cbVars, tclVars
<1>2. CASE Enqueue(c)
  <2>1. pc[c] = "new" /\ at[c] = "none" /\ event[c] = "none"
        /\ nrefs[c] = 0
    BY <1>2 DEF Enqueue
  <2>2. /\ pc' = [pc EXCEPT ![c] = IF timed[c] THEN "waiting" ELSE "back"]
        /\ nrefs' = [nrefs EXCEPT ![c] = IF timed[c] THEN 2 ELSE 1]
        /\ event' = [event EXCEPT ![c] = IF timed[c] THEN "open" ELSE @]
    BY <1>2, <2>1 DEF Enqueue, EnqueueRefs
  <2>3. CASE thread = "alive"
    <3>1. at' = [at EXCEPT ![c] = "queued"] /\ queue' = Append(queue, c)
      BY <1>2, <2>3 DEF Enqueue, Queued
    <3>2. /\ queue' \in Seq(Callbacks) /\ Len(queue') = Len(queue) + 1
          /\ \A i \in 1 .. Len(queue) : queue'[i] = queue[i] /\ queue[i] # c
          /\ queue'[Len(queue) + 1] = c
      BY <2>1, <3>1
    <3>3. QueueInv'
      BY <2>1, <2>2, <3>1, <3>2
    <3> QED  BY <2>1, <2>2, <3>1, <3>2, <3>3
  <2>4. CASE thread # "alive"
    BY <1>2, <2>1, <2>2, <2>4 DEF Enqueue
  <2> QED  BY <2>3, <2>4
<1>3. CASE WaitAnswered(c)
  <2>1. CASE CallbackUnref(c)
    BY <1>3, <2>1, UnrefStep DEF WaitAnswered, tclVars
  <2>2. CASE pc' = [pc EXCEPT ![c] = "answered"] /\ UNCHANGED <<nrefs, event>>
    BY <1>3, <2>2 DEF WaitAnswered, tclVars
  <2> QED  BY <1>3, <2>1, <2>2 DEF WaitAnswered
<1>4. CASE WaitTimedOut(c)
  BY <1>4 DEF WaitTimedOut, cbVars, tclVars
<1>5. CASE CallerUnref(c)
  BY <1>5, UnrefStep DEF CallerUnref, tclVars
<1> QED  BY <1>1, <1>2, <1>3, <1>4, <1>5 DEF Post

LEMMA DispatchStep ==
  ASSUME RefInv, Dispatch
  PROVE  RefInv'
<1> USE DEF RefInv, PostTypes, QueueInv, RefCounts, ClosedInv, Pending, Charged
<1> DEFINE h == Head(queue)
<1>1. /\ Len(queue) \in Nat \ {0} /\ h = queue[1] /\ h \in Callbacks
      /\ at[h] = "queued"
  BY DEF Dispatch
<1>2. /\ queue' \in Seq(Callbacks) /\ Len(queue') = Len(queue) - 1
      /\ \A i \in 1 .. Len(queue') : queue'[i] = queue[i + 1] /\ queue[i + 1] # h
  BY <1>1 DEF Dispatch
<1>3. at' = [at EXCEPT ![h] = "call"]
      /\ UNCHANGED <<pc, nrefs, event>>
  BY DEF Dispatch, postVars, cbVars
<1> HIDE DEF h
<1>4. QueueInv'
  <2>1. ASSUME NEW i \in 1 .. Len(queue')
        PROVE  /\ i + 1 \in 1 .. Len(queue) /\ queue'[i] = queue[i + 1]
               /\ queue'[i] \in Callbacks /\ queue'[i] # h
    <3>1. i \in Nat /\ i + 1 \in 1 .. Len(queue)
      BY <1>1, <1>2
    <3>2. queue[i + 1] \in Callbacks
      BY <3>1
    <3> QED  BY <1>2, <3>1, <3>2
  <2>2. \A i \in 1 .. Len(queue') : at'[queue'[i]] = "queued"
    BY <2>1, <1>3
  <2>3. \A i, j \in 1 .. Len(queue') : queue'[i] = queue'[j] => i = j
    BY <2>1
  <2>4. \A c \in Callbacks :
          pc'[c] \in {"none", "new", "refused"} => at'[c] = "none" /\ event'[c] = "none"
    BY <1>1, <1>3
  <2> QED  BY <2>2, <2>3, <2>4
<1>5. RefCounts'
  BY <1>1, <1>3
<1>6. PostTypes' /\ ClosedInv'
  BY <1>2, <1>3
<1> QED  BY <1>4, <1>5, <1>6

LEMMA RefInvStep == RefInv /\ [Next]_vars => RefInv'
<1> SUFFICES ASSUME RefInv, [Next]_vars PROVE RefInv'
  OBVIOUS
<1>1. CASE \E c \in Callbacks, s \in Sources : CallbackNew(c, s)
  <2>1. PICK c \in Callbacks, s \in Sources : CallbackNew(c, s)
    BY <1>1
  <2>2. MayWait(s) \subseteq BOOLEAN
    BY CallbackQueueAssumption DEF MayWait
  <2> QED
    BY <2>1, <2>2
    DEF CallbackNew, cbVars, tclVars, RefInv, PostTypes, QueueInv, RefCounts,
        ClosedInv, Pending, Charged
<1>2. CASE \E c \in Callbacks : Post(c)
  BY <1>2, PostStep
<1>3. CASE \E c \in Callbacks : Run(c)
  <2>1. PICK c \in Callbacks : Run(c)
    BY <1>3
  <2>2. CASE CallbackReturns(c) \/ EvalEnds(c) \/ PlainEnds(c)
    BY <2>2, RunStep DEF CallbackReturns, EvalEnds, PlainEnds, Answers
  <2>3. CASE EvalBegins(c) \/ PlainBegins(c) \/ Signal(c)
    BY <2>3, RunStep DEF EvalBegins, PlainBegins, Signal, cbVars
  <2>4. CASE EventEnds(c)
    BY <2>4, UnrefStep DEF EventEnds, postVars
  <2> QED  BY <2>1, <2>2, <2>3, <2>4 DEF Run
<1>4. CASE Dispatch
  BY <1>4, DispatchStep
<1>5. CASE ThreadExits
  BY <1>5 DEF ThreadExits, postVars, cbVars, RefInv, PostTypes, QueueInv,
              RefCounts, ClosedInv, Pending, Charged
<1>6. CASE \/ \E s \in Sources : SourceOn(s) \/ SourceOff(s)
           \/ InterpDelete \/ InterpContextCleanup \/ UNCHANGED vars
  BY <1>6, StillStep
  DEF SourceOn, SourceOff, InterpDelete, InterpContextCleanup, cbVars, tclVars, vars
<1> QED  BY <1>1, <1>2, <1>3, <1>4, <1>5, <1>6 DEF Next

LEMMA RefInvAlways == Spec => []RefInv
<1> QED  BY RefInvInit, RefInvStep, PTL DEF Spec

\* nrefs of every TwapiCallback counts its event and the caller that waits for it
\* or has it, and nothing else unless that caller timed out (TwapiEnqueueCallback,
\* Twapi_TclEventProc).
THEOREM CallbackRefsAreExact == Spec => []CallbackRefsExact
<1>1. RefInv => CallbackRefsExact
  BY RefCountsExact DEF RefInv
<1> QED  BY <1>1, RefInvAlways, PTL

\* The completion event stays open until it is signalled and waited for: the
\* two sides drop their references in either order.
THEOREM EventIsOpenInUse == Spec => []EventOpenInUse
<1>1. RefInv => EventOpenInUse
  <2> SUFFICES ASSUME RefInv, NEW c \in Callbacks,
                      Pending(c) \/ pc[c] \in {"waiting", "answered"},
                      event[c] = "closed"
               PROVE  FALSE
    BY DEF EventOpenInUse
  <2>1. nrefs[c] = 0
    BY DEF RefInv, ClosedInv
  <2> QED
    BY <2>1 DEF RefInv, PostTypes, RefCounts, Charged
<1> QED  BY <1>1, RefInvAlways, PTL

-----------------------------------------------------------------------------
(* The references of the context. *)

PendingSet == {c \in Callbacks : Pending(c)}
EvalSet == {c \in Callbacks : at[c] = "eval"}

ContextInv ==
    /\ tic \in [refs : Int, deletes : Int] /\ sources \subseteq Sources
    /\ interp \in {"alive", "deleted", "gone"}
    /\ ContextRefsExact

LEMMA Finite ==
  ASSUME sources \subseteq Sources
  PROVE  /\ IsFiniteSet(sources) /\ IsFiniteSet(PendingSet) /\ IsFiniteSet(EvalSet)
         /\ Cardinality(sources) \in Nat /\ Cardinality(PendingSet) \in Nat
         /\ Cardinality(EvalSet) \in Nat
<1>1. PendingSet \subseteq Callbacks /\ EvalSet \subseteq Callbacks
  BY DEF PendingSet, EvalSet
<1>2. IsFiniteSet(sources) /\ IsFiniteSet(PendingSet) /\ IsFiniteSet(EvalSet)
  BY <1>1, CallbackQueueAssumption, FS_Subset
<1> QED  BY <1>2, FS_CardinalityType

\* The count in words of the sets above
LEMMA Owed ==
  ContextRefsExact <=> tic.refs = (IF interp = "gone" THEN 0 ELSE 2)
                          + Cardinality(sources) + Cardinality(PendingSet)
                          + Cardinality(EvalSet)
  BY DEF ContextRefsExact, One, PendingSet, EvalSet

\* A cleanup of the context drops what the interpreter and the sources held
LEMMA CleanupStep ==
  ASSUME ContextInv, ContextCleanup
  PROVE  /\ sources' \subseteq Sources
         /\ Cardinality(Finalized) \in Nat
         /\ Cardinality(Finalized) <= Cardinality(sources)
         /\ Cardinality(sources') = Cardinality(sources) - Cardinality(Finalized)
<1>1. Finalized \subseteq sources /\ sources' = sources \ Finalized
  BY DEF ContextCleanup, Finalized
<1>2. IsFiniteSet(sources) /\ Cardinality(sources) \in Nat
  BY Finite DEF ContextInv
<1>3. /\ IsFiniteSet(Finalized) /\ Cardinality(Finalized) \in Nat
      /\ Cardinality(Finalized) <= Cardinality(sources)
  BY <1>1, <1>2, FS_Subset, FS_CardinalityType
<1>4. sources \intersect Finalized = Finalized
  BY <1>1
<1>5. Cardinality(sources \ Finalized) = Cardinality(sources) - Cardinality(Finalized)
  BY <1>2, <1>4, FS_Difference
<1> QED  BY <1>1, <1>3, <1>5 DEF ContextInv

LEMMA Removed ==
  ASSUME NEW S, IsFiniteSet(S), NEW x \in S
  PROVE  Cardinality(S \ {x}) = Cardinality(S) + (-1)
<1>1. Cardinality(S) \in Nat
  BY FS_CardinalityType
<1>2. Cardinality(S \ {x}) = Cardinality(S) - 1
  BY FS_RemoveElement
<1> QED  BY <1>1, <1>2

\* The places at changes to and what becomes of the two sets
LEMMA MoveStep ==
  ASSUME DOMAIN at = Callbacks, NEW c \in Callbacks, NEW p,
         at' = [at EXCEPT ![c] = p], sources \subseteq Sources
  PROVE  /\ at[c] # "eval" /\ p # "eval" => EvalSet' = EvalSet
         /\ at[c] # "eval" /\ p = "eval" =>
               Cardinality(EvalSet') = Cardinality(EvalSet) + 1
         /\ at[c] = "eval" /\ p # "eval" =>
               Cardinality(EvalSet') = Cardinality(EvalSet) + (-1)
         /\ (Pending(c) <=> Pending(c)') => PendingSet' = PendingSet
         /\ ~Pending(c) /\ Pending(c)' =>
               Cardinality(PendingSet') = Cardinality(PendingSet) + 1
         /\ Pending(c) /\ ~Pending(c)' =>
               Cardinality(PendingSet') = Cardinality(PendingSet) + (-1)
<1>1. IsFiniteSet(PendingSet) /\ IsFiniteSet(EvalSet)
  BY Finite
<1>2. at[c] # "eval" /\ p # "eval" => EvalSet' = EvalSet
  BY DEF EvalSet
<1>3. at[c] # "eval" /\ p = "eval" =>
         EvalSet' = EvalSet \union {c} /\ c \notin EvalSet
  BY DEF EvalSet
<1>4. at[c] = "eval" /\ p # "eval" => EvalSet' = EvalSet \ {c} /\ c \in EvalSet
  BY DEF EvalSet
<1>5. \A d \in Callbacks \ {c} : Pending(d)' <=> Pending(d)
  BY DEF Pending
<1>6. (Pending(c) <=> Pending(c)') => PendingSet' = PendingSet
  BY <1>5 DEF PendingSet
<1>7. ~Pending(c) /\ Pending(c)' =>
         PendingSet' = PendingSet \union {c} /\ c \notin PendingSet
  BY <1>5 DEF PendingSet
<1>8. Pending(c) /\ ~Pending(c)' =>
         PendingSet' = PendingSet \ {c} /\ c \in PendingSet
  BY <1>5 DEF PendingSet
<1> QED
  BY <1>1, <1>2, <1>3, <1>4, <1>6, <1>7, <1>8, FS_AddElement, Removed

Tics == [refs : Int, deletes : Int]
DeletedOnce(t) == t.deletes = One(t.refs = 0)

LEMMA RefTic ==
  ASSUME NEW t \in Tics
  PROVE  /\ Ref(t, 1) \in Tics /\ Ref(t, 1).refs = t.refs + 1
         /\ DeletedOnce(t) /\ t.refs >= 1 => DeletedOnce(Ref(t, 1))
  BY DEF Ref, Tics, DeletedOnce, One

LEMMA UnrefTic ==
  ASSUME NEW t \in Tics, NEW n \in Int
  PROVE  /\ Unref(t, n) \in Tics /\ t.refs = Unref(t, n).refs + n
         /\ DeletedOnce(t) /\ n >= 1 /\ t.refs >= n => DeletedOnce(Unref(t, n))
  BY DEF Unref, Tics, DeletedOnce, One

\* The count stays exact if it changes by what the sets change
LEMMA CountsKept ==
  ASSUME ContextInv, tic' \in Tics, sources' \subseteq Sources,
         interp' \in {"alive", "deleted", "gone"},
         NEW i \in Int, NEW s \in Int, NEW p \in Int, NEW e \in Int,
         (IF interp' = "gone" THEN 0 ELSE 2) = (IF interp = "gone" THEN 0 ELSE 2) + i,
         Cardinality(sources') = Cardinality(sources) + s,
         Cardinality(PendingSet') = Cardinality(PendingSet) + p,
         Cardinality(EvalSet') = Cardinality(EvalSet) + e,
         tic'.refs = tic.refs + i + s + p + e
  PROVE  ContextInv'
<1>1. tic.refs = (IF interp = "gone" THEN 0 ELSE 2) + Cardinality(sources)
                 + Cardinality(PendingSet) + Cardinality(EvalSet)
  BY Owed DEF ContextInv
<1>2. /\ Cardinality(sources) \in Nat /\ Cardinality(PendingSet) \in Nat
      /\ Cardinality(EvalSet) \in Nat
  BY Finite DEF ContextInv
<1>3. tic'.refs = (IF interp' = "gone" THEN 0 ELSE 2) + Cardinality(sources')
                  + Cardinality(PendingSet') + Cardinality(EvalSet')
  BY <1>1, <1>2 DEF ContextInv
<1>4. ContextRefsExact'
  BY <1>3 DEF ContextRefsExact, One, PendingSet, EvalSet
<1> QED  BY <1>4 DEF ContextInv, Tics

LEMMA SameCounts ==
  ASSUME ContextInv, UNCHANGED <<interp, sources, tic>>,
         EvalSet' = EvalSet, PendingSet' = PendingSet
  PROVE  ContextInv'
<1>1. tic.refs = (IF interp = "gone" THEN 0 ELSE 2) + Cardinality(sources)
                 + Cardinality(PendingSet) + Cardinality(EvalSet)
  BY Owed DEF ContextInv
<1>2. tic'.refs = (IF interp' = "gone" THEN 0 ELSE 2) + Cardinality(sources')
                  + Cardinality(PendingSet') + Cardinality(EvalSet')
  BY <1>1
<1>3. ContextRefsExact'
  BY <1>2 DEF ContextRefsExact, One, PendingSet, EvalSet
<1> QED  BY <1>3 DEF ContextInv

LEMMA SourcesType == ContextInv => sources \subseteq Sources
  BY DEF ContextInv

LEMMA TicType == ContextInv => tic \in Tics
  BY DEF ContextInv, Tics

\* What a step that drops n references leaves
LEMMA DropStep ==
  ASSUME ContextInv, NEW n \in Int, tic' = Unref(tic, n)
  PROVE  /\ tic' \in Tics /\ tic'.refs = tic.refs + (-n)
         /\ DeletedOnce(tic) /\ n >= 1 /\ tic.refs >= n => DeletedOnce(tic')
<1>1. /\ tic' \in Tics /\ tic.refs = tic'.refs + n
      /\ DeletedOnce(tic) /\ n >= 1 /\ tic.refs >= n => DeletedOnce(tic')
  BY TicType, UnrefTic
<1>2. tic.refs \in Int /\ tic'.refs \in Int
  BY <1>1, TicType DEF Tics
<1>3. tic'.refs = tic.refs + (-n)
  BY <1>1, <1>2
<1> QED  BY <1>1, <1>3

LEMMA DropTwice ==
  ASSUME ContextInv, NEW n \in Int, NEW m \in Int, tic' = Unref(Unref(tic, n), m)
  PROVE  /\ tic' \in Tics /\ tic'.refs = tic.refs + (-n) + (-m)
         /\ DeletedOnce(tic) /\ n >= 1 /\ m >= 1 /\ tic.refs >= n + m =>
               DeletedOnce(tic')
<1> DEFINE u == Unref(tic, n)
<1>1. /\ u \in Tics /\ tic.refs = u.refs + n
      /\ DeletedOnce(tic) /\ n >= 1 /\ tic.refs >= n => DeletedOnce(u)
  BY TicType, UnrefTic
<1>2. tic' = Unref(u, m)
  OBVIOUS
<1> HIDE DEF u
<1>3. /\ tic' \in Tics /\ u.refs = tic'.refs + m
      /\ DeletedOnce(u) /\ m >= 1 /\ u.refs >= m => DeletedOnce(tic')
  BY <1>1, <1>2, UnrefTic
<1>4. tic.refs \in Int /\ u.refs \in Int /\ tic'.refs \in Int
  BY <1>1, <1>3, TicType DEF Tics
<1>5. tic'.refs = tic.refs + (-n) + (-m)
  BY <1>1, <1>3, <1>4
<1>6. n >= 1 /\ m >= 1 /\ tic.refs >= n + m => tic.refs >= n /\ u.refs >= m
  BY <1>1, <1>4
<1> QED  BY <1>1, <1>3, <1>5, <1>6

\* What there is at least
LEMMA AtLeast ==
  ASSUME ContextInv
  PROVE  /\ tic \in Tics /\ tic.refs \in Int
         /\ sources # {} => tic.refs >= 1
         /\ interp # "gone" => tic.refs >= 2 + Cardinality(sources)
         /\ \A c \in PendingSet : tic.refs >= 1
         /\ \A c \in PendingSet \intersect EvalSet :
               tic.refs >= IF interp = "gone" THEN 2 ELSE 4 + Cardinality(sources)
         /\ Cardinality(sources) \in Nat
<1>1. tic.refs = (IF interp = "gone" THEN 0 ELSE 2) + Cardinality(sources)
                 + Cardinality(PendingSet) + Cardinality(EvalSet)
  BY Owed DEF ContextInv
<1>2. /\ Cardinality(sources) \in Nat /\ Cardinality(PendingSet) \in Nat
      /\ Cardinality(EvalSet) \in Nat
      /\ IsFiniteSet(sources) /\ IsFiniteSet(PendingSet) /\ IsFiniteSet(EvalSet)
  BY Finite DEF ContextInv
<1>3. /\ sources # {} => Cardinality(sources) # 0
      /\ PendingSet # {} => Cardinality(PendingSet) # 0
      /\ EvalSet # {} => Cardinality(EvalSet) # 0
  BY <1>2, FS_EmptySet
<1>4. tic \in Tics /\ tic.refs \in Int
  BY DEF ContextInv, Tics
<1> QED  BY <1>1, <1>2, <1>3, <1>4

LEMMA EnqueueCounts ==
  ASSUME RefInv, ContextInv, NEW c \in Callbacks, Enqueue(c)
  PROVE  /\ ContextInv'
         /\ from[c] \in sources /\ DeletedOnce(tic) => DeletedOnce(tic')
<1>1. DOMAIN at = Callbacks /\ at[c] = "none"
  BY DEF RefInv, PostTypes, QueueInv, Enqueue
<1>2. /\ tic' = Ref(tic, 1) /\ UNCHANGED <<interp, sources>>
      /\ \E p \in {"queued", "lost"} : at' = [at EXCEPT ![c] = p]
  BY DEF Enqueue
<1>3. /\ EvalSet' = EvalSet
      /\ Cardinality(PendingSet') = Cardinality(PendingSet) + 1
  BY <1>1, <1>2, MoveStep DEF ContextInv, Pending
<1>4. tic' \in Tics /\ tic'.refs = tic.refs + 0 + 0 + 1 + 0
  BY <1>2, AtLeast, RefTic
<1>5. ContextInv'
  <2>1. /\ Cardinality(sources') = Cardinality(sources) + 0
        /\ Cardinality(EvalSet') = Cardinality(EvalSet) + 0
        /\ (IF interp' = "gone" THEN 0 ELSE 2) = (IF interp = "gone" THEN 0 ELSE 2) + 0
        /\ sources' \subseteq Sources /\ interp' \in {"alive", "deleted", "gone"}
    BY <1>2, <1>3, Finite DEF ContextInv
  <2> QED  BY <1>3, <1>4, <2>1, CountsKept
<1> QED  BY <1>2, <1>5, AtLeast, RefTic

\* A step of the Tcl thread that keeps the callback in its hands
LEMMA RunCounts ==
  ASSUME RefInv, ContextInv, NEW c \in Callbacks,
         CallbackReturns(c) \/ PlainBegins(c) \/ PlainEnds(c) \/ Signal(c)
  PROVE  ContextInv' /\ tic' = tic
<1>1. DOMAIN at = Callbacks
  BY DEF RefInv, PostTypes
<1>2. /\ UNCHANGED <<tic, interp, sources>>
      /\ at[c] \in {"call", "plain", "signal"}
      /\ \E p \in {"plain", "signal", "unref"} : at' = [at EXCEPT ![c] = p]
  BY DEF CallbackReturns, PlainBegins, PlainEnds, Signal, Answers, ticVars
<1>3. Pending(c) /\ Pending(c)'
  BY <1>1, <1>2 DEF Pending
<1>4. EvalSet' = EvalSet /\ PendingSet' = PendingSet
  BY <1>1, <1>2, <1>3, MoveStep, SourcesType
<1> QED  BY <1>2, <1>4, SameCounts

LEMMA EvalBeginsCounts ==
  ASSUME RefInv, ContextInv, NEW c \in Callbacks, EvalBegins(c)
  PROVE  ContextInv' /\ (DeletedOnce(tic) => DeletedOnce(tic'))
<1>1. DOMAIN at = Callbacks
  BY DEF RefInv, PostTypes
<1>2. /\ tic' = Ref(tic, 1) /\ UNCHANGED <<interp, sources>> /\ interp = "alive"
      /\ at[c] = "call" /\ at' = [at EXCEPT ![c] = "eval"]
  BY DEF EvalBegins
<1>3. Pending(c) /\ Pending(c)'
  BY <1>1, <1>2 DEF Pending
<1>4. /\ Cardinality(EvalSet') = Cardinality(EvalSet) + 1
      /\ PendingSet' = PendingSet
  BY <1>1, <1>2, <1>3, MoveStep, SourcesType
<1>5. tic' \in Tics /\ tic'.refs = tic.refs + 0 + 0 + 0 + 1
  BY <1>2, AtLeast, RefTic
<1>6. /\ Cardinality(sources') = Cardinality(sources) + 0
      /\ Cardinality(PendingSet') = Cardinality(PendingSet) + 0
      /\ (IF interp' = "gone" THEN 0 ELSE 2) = (IF interp = "gone" THEN 0 ELSE 2) + 0
      /\ sources' \subseteq Sources /\ interp' \in {"alive", "deleted", "gone"}
  BY <1>2, <1>4, Finite DEF ContextInv
<1>7. ContextInv'
  BY <1>4, <1>5, <1>6, CountsKept
<1> QED  BY <1>2, <1>7, AtLeast, RefTic

LEMMA EvalEndsCounts ==
  ASSUME RefInv, ContextInv, NEW c \in Callbacks, EvalEnds(c)
  PROVE  ContextInv' /\ (DeletedOnce(tic) => DeletedOnce(tic'))
<1>1. DOMAIN at = Callbacks
  BY DEF RefInv, PostTypes
<1>2. at[c] = "eval" /\ at' = [at EXCEPT ![c] = "signal"]
  BY DEF EvalEnds, Answers
<1>3. Pending(c) /\ Pending(c)'
  BY <1>1, <1>2 DEF Pending
<1>4. /\ Cardinality(EvalSet') = Cardinality(EvalSet) + (-1)
      /\ PendingSet' = PendingSet
  <2>1. sources \subseteq Sources
    BY SourcesType
  <2>2. "signal" # "eval"
    OBVIOUS
  <2>3. Cardinality(EvalSet') = Cardinality(EvalSet) + (-1)
    BY <1>1, <1>2, <2>1, <2>2, MoveStep
  <2>4. PendingSet' = PendingSet
    BY <1>1, <1>2, <1>3, <2>1, MoveStep
  <2> QED  BY <2>3, <2>4
<1>5. Cardinality(PendingSet') = Cardinality(PendingSet) + 0
  BY <1>4, Finite DEF ContextInv
<1>6. c \in PendingSet \intersect EvalSet
  BY <1>2, <1>3 DEF PendingSet, EvalSet
<1>7. CASE tic' = Unref(tic, 1) /\ UNCHANGED <<interp, sources>>
  <2>1. tic' \in Tics /\ tic'.refs = tic.refs + (-1) /\ tic.refs \in Int
    BY <1>7, DropStep, TicType DEF Tics
  <2>5. tic'.refs = tic.refs + 0 + 0 + 0 + (-1)
    BY <2>1
  <2>2. /\ Cardinality(sources') = Cardinality(sources) + 0
        /\ (IF interp' = "gone" THEN 0 ELSE 2) = (IF interp = "gone" THEN 0 ELSE 2) + 0
        /\ sources' \subseteq Sources /\ interp' \in {"alive", "deleted", "gone"}
    BY <1>7, Finite DEF ContextInv
  <2>3. ContextInv'
    BY <1>4, <1>5, <2>1, <2>5, <2>2, CountsKept
  <2>4. tic.refs >= 1
    BY <1>6, AtLeast
  <2> QED  BY <1>7, <2>3, <2>4, DropStep
<1>8. CASE ContextCleanup /\ tic' = Unref(CleanedUp(tic), 1)
  <2> DEFINE f == Cardinality(Finalized)
  <2>1. /\ sources' \subseteq Sources /\ f \in Nat /\ f <= Cardinality(sources)
        /\ Cardinality(sources') = Cardinality(sources) - f
    BY <1>8, CleanupStep
  <2>2. interp = "deleted" /\ interp' = "gone"
    BY <1>8 DEF ContextCleanup
  <2>3. tic' = Unref(Unref(tic, 2 + f), 1)
    BY <1>8 DEF CleanedUp
  <2> HIDE DEF f
  <2>4. /\ tic.refs >= 4 + Cardinality(sources) /\ Cardinality(sources) \in Nat
        /\ 2 + f \in Int /\ tic.refs \in Int
    BY <1>6, <2>1, <2>2, AtLeast
  <2>5. tic.refs >= (2 + f) + 1 /\ 2 + f >= 1
    BY <2>1, <2>4
  <2>6. /\ tic' \in Tics /\ tic'.refs = tic.refs + (-(2 + f)) + (-1)
        /\ DeletedOnce(tic) => DeletedOnce(tic')
    BY <2>3, <2>4, <2>5, DropTwice
  <2>7. tic'.refs = tic.refs + (-2) + (-f) + 0 + (-1) /\ -f \in Int
    BY <2>1, <2>4, <2>6
  <2>8. /\ Cardinality(sources') = Cardinality(sources) + (-f)
        /\ (IF interp' = "gone" THEN 0 ELSE 2) = (IF interp = "gone" THEN 0 ELSE 2) + (-2)
    BY <2>1, <2>2, <2>4
  <2>9. ContextInv'
    BY <1>4, <1>5, <2>1, <2>2, <2>6, <2>7, <2>8, CountsKept
  <2> QED  BY <2>6, <2>9
<1> QED  BY <1>7, <1>8 DEF EvalEnds

LEMMA EventEndsCounts ==
  ASSUME RefInv, ContextInv, NEW c \in Callbacks, EventEnds(c)
  PROVE  ContextInv' /\ (DeletedOnce(tic) => DeletedOnce(tic'))
<1>1. DOMAIN at = Callbacks
  BY DEF RefInv, PostTypes
<1>2. /\ tic' = Unref(tic, 1) /\ UNCHANGED <<interp, sources>>
      /\ at[c] = "unref" /\ at' = [at EXCEPT ![c] = "done"]
  BY DEF EventEnds
<1>3. Pending(c) /\ ~Pending(c)' /\ c \in PendingSet
  BY <1>1, <1>2 DEF Pending, PendingSet
<1>4. /\ Cardinality(PendingSet') = Cardinality(PendingSet) + (-1)
      /\ EvalSet' = EvalSet
  <2>1. sources \subseteq Sources
    BY SourcesType
  <2>2. "done" # "eval" /\ "unref" # "eval"
    OBVIOUS
  <2> QED  BY <1>1, <1>2, <1>3, <2>1, <2>2, MoveStep
<1>5. tic' \in Tics /\ tic'.refs = tic.refs + 0 + 0 + (-1) + 0
  <2>1. tic' \in Tics /\ tic'.refs = tic.refs + (-1) /\ tic.refs \in Int
    BY <1>2, DropStep, TicType DEF Tics
  <2> QED  BY <2>1
<1>6. /\ Cardinality(sources') = Cardinality(sources) + 0
      /\ Cardinality(EvalSet') = Cardinality(EvalSet) + 0
      /\ (IF interp' = "gone" THEN 0 ELSE 2) = (IF interp = "gone" THEN 0 ELSE 2) + 0
      /\ sources' \subseteq Sources /\ interp' \in {"alive", "deleted", "gone"}
  BY <1>2, <1>4, Finite DEF ContextInv
<1>7. ContextInv'
  BY <1>4, <1>5, <1>6, CountsKept
<1>8. tic.refs >= 1
  BY <1>3, AtLeast
<1> QED  BY <1>2, <1>7, <1>8, DropStep

\* A source comes or goes, or the context is cleaned up, while no callback moves
LEMMA ContextCounts ==
  ASSUME RefInv, ContextInv, EvalSet' = EvalSet, PendingSet' = PendingSet,
         (\E s \in Sources : SourceOn(s) \/ SourceOff(s)) \/ InterpContextCleanup
  PROVE  ContextInv' /\ (DeletedOnce(tic) => DeletedOnce(tic'))
<1>1. /\ Cardinality(EvalSet') = Cardinality(EvalSet) + 0
      /\ Cardinality(PendingSet') = Cardinality(PendingSet) + 0
      /\ IsFiniteSet(sources) /\ Cardinality(sources) \in Nat
  BY Finite DEF ContextInv
<1>2. ASSUME NEW s \in Sources, SourceOn(s)
      PROVE  ContextInv' /\ (DeletedOnce(tic) => DeletedOnce(tic'))
  <2>1. /\ interp = "alive" /\ s \notin sources /\ sources' = sources \union {s}
        /\ tic' = Ref(tic, 1) /\ interp' = interp
    BY <1>2 DEF SourceOn
  <2>2. /\ Cardinality(sources') = Cardinality(sources) + 1
        /\ sources' \subseteq Sources
        /\ (IF interp' = "gone" THEN 0 ELSE 2) = (IF interp = "gone" THEN 0 ELSE 2) + 0
        /\ interp' \in {"alive", "deleted", "gone"}
    BY <1>1, <2>1, FS_AddElement DEF ContextInv
  <2>3. tic' \in Tics /\ tic'.refs = tic.refs + 0 + 1 + 0 + 0
    BY <2>1, AtLeast, RefTic
  <2>4. ContextInv'
    BY <1>1, <2>2, <2>3, CountsKept
  <2> QED  BY <2>1, <2>4, AtLeast, RefTic
<1>3. ASSUME NEW s \in Sources, SourceOff(s)
      PROVE  ContextInv' /\ (DeletedOnce(tic) => DeletedOnce(tic'))
  <2>1. /\ s \in sources /\ sources' = sources \ {s}
        /\ tic' = Unref(tic, 1) /\ interp' = interp
    BY <1>3 DEF SourceOff
  <2>2. /\ Cardinality(sources') = Cardinality(sources) + (-1)
        /\ sources' \subseteq Sources
    BY <1>1, <2>1, Removed DEF ContextInv
  <2>3. /\ (IF interp' = "gone" THEN 0 ELSE 2) = (IF interp = "gone" THEN 0 ELSE 2) + 0
        /\ interp' \in {"alive", "deleted", "gone"}
    BY <1>1, <2>1, <2>2 DEF ContextInv
  <2>4. tic' \in Tics /\ tic'.refs = tic.refs + 0 + (-1) + 0 + 0
    <3>1. tic' \in Tics /\ tic'.refs = tic.refs + (-1) /\ tic.refs \in Int
      BY <2>1, DropStep, TicType DEF Tics
    <3> QED  BY <3>1
  <2>5. ContextInv'
    BY <1>1, <2>2, <2>3, <2>4, CountsKept
  <2>6. tic.refs >= 1
    BY <2>1, AtLeast
  <2> QED  BY <2>1, <2>5, <2>6, DropStep
<1>4. CASE InterpContextCleanup
  <2> DEFINE f == Cardinality(Finalized)
  <2>1. /\ sources' \subseteq Sources /\ f \in Nat /\ f <= Cardinality(sources)
        /\ Cardinality(sources') = Cardinality(sources) - f
    BY <1>4, CleanupStep DEF InterpContextCleanup
  <2>2. interp = "deleted" /\ interp' = "gone" /\ tic' = Unref(tic, 2 + f)
    BY <1>4 DEF InterpContextCleanup, ContextCleanup, CleanedUp
  <2> HIDE DEF f
  <2>3. tic.refs >= 2 + f /\ 2 + f >= 1 /\ 2 + f \in Int /\ tic.refs \in Int
    BY <1>1, <2>1, <2>2, AtLeast
  <2>4. /\ tic' \in Tics /\ tic'.refs = tic.refs + (-(2 + f))
        /\ DeletedOnce(tic) => DeletedOnce(tic')
    BY <2>2, <2>3, DropStep
  <2>5. tic'.refs = tic.refs + (-2) + (-f) + 0 + 0 /\ -f \in Int
    BY <2>1, <2>3, <2>4
  <2>6. /\ Cardinality(sources') = Cardinality(sources) + (-f)
        /\ (IF interp' = "gone" THEN 0 ELSE 2) = (IF interp = "gone" THEN 0 ELSE 2) + (-2)
    BY <1>1, <2>1, <2>2
  <2>7. ContextInv'
    BY <1>1, <2>1, <2>2, <2>4, <2>5, <2>6, CountsKept
  <2> QED  BY <2>4, <2>7
<1> QED  BY <1>2, <1>3, <1>4

\* A callback that Tcl takes from the queue, or discards, stays in its set
LEMMA QueueCounts ==
  ASSUME RefInv, ContextInv, Dispatch \/ ThreadExits
  PROVE  ContextInv' /\ tic' = tic
<1>1. /\ UNCHANGED <<tic, interp, sources>> /\ DOMAIN at = Callbacks
  BY DEF RefInv, PostTypes, Dispatch, ThreadExits, ticVars
<1>2. \A c \in Callbacks : /\ at'[c] = "eval" <=> at[c] = "eval"
                           /\ Pending(c)' <=> Pending(c)
  <2>1. CASE Dispatch
    <3>1. Head(queue) \in Callbacks /\ at[Head(queue)] = "queued"
      BY <2>1 DEF Dispatch, RefInv, PostTypes, QueueInv
    <3>2. at' = [at EXCEPT ![Head(queue)] = "call"]
      BY <2>1 DEF Dispatch
    <3> QED  BY <1>1, <3>1, <3>2 DEF Pending
  <2>2. CASE ThreadExits
    BY <2>2 DEF ThreadExits, Pending
  <2> QED  BY <2>1, <2>2
<1>3. EvalSet' = EvalSet
  BY <1>2 DEF EvalSet
<1>4. PendingSet' = PendingSet
  BY <1>2 DEF PendingSet
<1> QED  BY <1>1, <1>3, <1>4, SameCounts

\* A source is not gone while it posts, unless it is the console control handler
PosterInv ==
    /\ DOMAIN from = Callbacks
    /\ \A c \in Callbacks : Posting(c) => from[c] \in sources \union Consoles

\* A step keeps the count, and without the console control handler keeps it from
\* running out twice.
LEMMA CountStep ==
  ASSUME RefInv, ContextInv, [Next]_vars
  PROVE  ContextInv' /\ (Consoles = {} /\ PosterInv /\ DeletedOnce(tic)
                                   => DeletedOnce(tic'))
<1>1. CASE /\ UNCHANGED <<tic, interp, sources, at>>
  BY <1>1, SameCounts DEF EvalSet, PendingSet, Pending
<1>2. ASSUME NEW c \in Callbacks, Post(c)
      PROVE  ContextInv' /\ (Consoles = {} /\ PosterInv /\ DeletedOnce(tic)
                                   => DeletedOnce(tic'))
  <2>1. CASE Enqueue(c)
    <3>1. Consoles = {} /\ PosterInv => from[c] \in sources
      BY <2>1 DEF PosterInv, Posting, Enqueue
    <3> QED  BY <2>1, <3>1, EnqueueCounts
  <2>2. CASE EnqueueRefused(c) \/ WaitAnswered(c) \/ WaitTimedOut(c) \/ CallerUnref(c)
    BY <1>1, <2>2
    DEF EnqueueRefused, WaitAnswered, WaitTimedOut, CallerUnref, tclVars, ticVars
  <2> QED  BY <1>2, <2>1, <2>2 DEF Post
<1>3. ASSUME NEW c \in Callbacks, Run(c)
      PROVE  ContextInv' /\ (Consoles = {} /\ PosterInv /\ DeletedOnce(tic)
                                   => DeletedOnce(tic'))
  <2>1. CASE CallbackReturns(c) \/ PlainBegins(c) \/ PlainEnds(c) \/ Signal(c)
    BY <2>1, RunCounts
  <2> QED
    BY <1>3, <2>1, EvalBeginsCounts, EvalEndsCounts, EventEndsCounts DEF Run
<1>4. CASE Dispatch \/ ThreadExits
  BY <1>4, QueueCounts
<1>5. CASE (\E s \in Sources : SourceOn(s) \/ SourceOff(s)) \/ InterpContextCleanup
  <2>1. at' = at
    BY <1>5 DEF SourceOn, SourceOff, InterpContextCleanup, tclVars
  <2>2. EvalSet' = EvalSet /\ PendingSet' = PendingSet
    BY <2>1 DEF EvalSet, PendingSet, Pending
  <2> QED  BY <1>5, <2>2, ContextCounts
<1>6. CASE \E c \in Callbacks, s \in Sources : CallbackNew(c, s)
  BY <1>1, <1>6 DEF CallbackNew, tclVars, ticVars
<1>7. CASE InterpDelete
  <2>1. /\ interp = "alive" /\ interp' = "deleted" /\ UNCHANGED <<tic, sources, at>>
    BY <1>7 DEF InterpDelete, tclVars
  <2>2. ContextInv'
    BY <2>1 DEF ContextInv, ContextRefsExact, One, Pending
  <2> QED  BY <2>1, <2>2
<1>8. CASE UNCHANGED vars
  BY <1>1, <1>8 DEF vars, tclVars, ticVars
<1> QED  BY <1>2, <1>3, <1>4, <1>5, <1>6, <1>7, <1>8 DEF Next

LEMMA CountInit == Init => ContextInv /\ ContextDeletedOnce
<1> SUFFICES ASSUME Init PROVE ContextInv /\ ContextDeletedOnce
  OBVIOUS
<1>1. PendingSet = {} /\ EvalSet = {} /\ sources = {}
  BY DEF Init, PendingSet, EvalSet, Pending
<1>2. Cardinality({}) = 0
  BY FS_EmptySet
<1>3. tic = [refs |-> 2, deletes |-> 0] /\ interp = "alive"
  BY DEF Init
<1>4. ContextRefsExact
  BY <1>1, <1>2, <1>3, Owed
<1> QED
  BY <1>1, <1>3, <1>4 DEF ContextInv, ContextDeletedOnce, One

\* nrefs of the TwapiInterpContext counts the interpreter, the list, the sources,
\* the events and the scripts, whatever happens in which order.
THEOREM ContextRefsAreExact == Spec => []ContextRefsExact
<1>1. Init => RefInv /\ ContextInv
  BY RefInvInit, CountInit
<1>2. RefInv /\ ContextInv /\ [Next]_vars => RefInv' /\ ContextInv'
  BY RefInvStep, CountStep
<1>3. ContextInv => ContextRefsExact
  BY DEF ContextInv
<1> QED  BY <1>1, <1>2, <1>3, PTL DEF Spec

LEMMA PosterStep ==
  ASSUME DOMAIN pc = Callbacks, PosterInv, [Next]_vars
  PROVE  PosterInv'
<1>1. CASE UNCHANGED <<pc, from>> /\ sources \subseteq sources'
  BY <1>1 DEF PosterInv, Posting
<1>2. ASSUME NEW c \in Callbacks, NEW s \in Sources, CallbackNew(c, s)
      PROVE  PosterInv'
  BY <1>2 DEF CallbackNew, ticVars, PosterInv, Posting
<1>3. ASSUME NEW c \in Callbacks, Post(c)
      PROVE  PosterInv'
  <2>1. Posting(c)' => Posting(c)
    BY <1>3 DEF Post, EnqueueRefused, Enqueue, WaitAnswered, WaitTimedOut,
                CallerUnref, Posting
  <2>2. \A d \in Callbacks \ {c} : pc'[d] = pc[d]
    BY <1>3 DEF Post, EnqueueRefused, Enqueue, WaitAnswered, WaitTimedOut,
                CallerUnref
  <2>3. UNCHANGED <<from, sources>>
    BY <1>3 DEF Post, EnqueueRefused, Enqueue, WaitAnswered, WaitTimedOut,
                CallerUnref, ticVars
  <2> QED  BY <2>1, <2>2, <2>3 DEF PosterInv, Posting
<1>4. CASE ContextCleanup /\ UNCHANGED <<pc, from>>
  <2>1. /\ \A c \in Callbacks : from[c] \in Waits => ~Posting(c)
        /\ sources \ (Waits \union Consoles) \subseteq sources'
    BY <1>4 DEF ContextCleanup, Finalized
  <2> QED  BY <1>4, <2>1 DEF PosterInv, Posting
<1>5. ASSUME NEW s \in Sources, SourceOn(s) \/ SourceOff(s)
      PROVE  PosterInv'
  <2>1. CASE SourceOn(s)
    BY <1>1, <2>1 DEF SourceOn, postVars
  <2>2. CASE SourceOff(s)
    <3>1. /\ s \in Consoles \/ \A c \in Callbacks : from[c] = s => ~Posting(c)
          /\ sources' = sources \ {s} /\ UNCHANGED <<pc, from>>
      BY <2>2 DEF SourceOff, postVars
    <3> QED  BY <3>1 DEF PosterInv, Posting
  <2> QED  BY <1>5, <2>1, <2>2
<1>6. ASSUME NEW c \in Callbacks, Run(c)
      PROVE  PosterInv'
  BY <1>1, <1>4, <1>6
  DEF Run, CallbackReturns, EvalBegins, EvalEnds, PlainBegins, PlainEnds, Signal,
      EventEnds, postVars, ticVars
<1>7. CASE \/ Dispatch \/ InterpDelete \/ InterpContextCleanup \/ ThreadExits
            \/ UNCHANGED vars
  BY <1>1, <1>4, <1>7
  DEF Dispatch, InterpDelete, InterpContextCleanup, ThreadExits, vars, postVars, ticVars
<1> QED  BY <1>2, <1>3, <1>5, <1>6, <1>7 DEF Next

\* What is true of the context when no console control handler is hooked
LifeInv == RefInv /\ ContextInv /\ PosterInv /\ ContextDeletedOnce

LEMMA LifeInvAlways ==
  ASSUME Consoles = {}
  PROVE  Spec => []LifeInv
<1>1. Init => LifeInv
  <2>1. Init => PosterInv
    BY DEF Init, PosterInv, Posting
  <2> QED  BY <2>1, RefInvInit, CountInit DEF LifeInv
<1>2. LifeInv /\ [Next]_vars => LifeInv'
  BY RefInvStep, CountStep, PosterStep
  DEF LifeInv, RefInv, PostTypes, ContextDeletedOnce, DeletedOnce
<1> QED  BY <1>1, <1>2, PTL DEF Spec

\* TwapiInterpContextDelete is called once, with the last reference, also by
\* events that are serviced after the interpreter has gone.
THEOREM ContextIsDeletedOnce ==
  ASSUME Consoles = {}
  PROVE  Spec => []ContextDeletedOnce
<1>1. LifeInv => ContextDeletedOnce
  BY DEF LifeInv
<1> QED  BY <1>1, LifeInvAlways, PTL

\* "Caller has to ensure this does not go away until this function returns"
\* (TwapiEnqueueCallback): notification threads and pool waits do.
THEOREM PostersHoldContext ==
  ASSUME Consoles = {}
  PROVE  Spec => []ContextOutlivesPosters
<1>1. LifeInv => ContextOutlivesPosters
  <2> SUFFICES ASSUME LifeInv, NEW c \in Callbacks, Posting(c)
               PROVE  tic.deletes = 0
    BY DEF ContextOutlivesPosters
  <2>1. sources # {} /\ ContextInv
    BY DEF LifeInv, PosterInv
  <2>2. tic.refs >= 1 /\ tic.refs \in Int
    BY <2>1, AtLeast
  <2> QED  BY <2>2 DEF LifeInv, ContextDeletedOnce, One
<1> QED  BY <1>1, LifeInvAlways, PTL

-----------------------------------------------------------------------------
(* Types. *)

\* What the steps of the poster and of the Tcl thread assign to a callback
CallbackTypes ==
    /\ pc \in [Callbacks -> PCs] /\ at \in [Callbacks -> Places]
    /\ event \in [Callbacks -> {"none", "open", "closed"}]
    /\ winerr \in [Callbacks -> WinErrs] /\ response \in [Callbacks -> Responses]
    /\ outcome \in [Callbacks -> Outcomes] /\ signaled \in [Callbacks -> BOOLEAN]
    /\ from \in [Callbacks -> Sources \union {NoSource}]
    /\ timed \in [Callbacks -> BOOLEAN]

\* The rest, but for the two counts
OtherTypes ==
    /\ queue \in Seq(Callbacks) /\ stack \in Seq(Callbacks)
    /\ posted \in Seq(Callbacks) /\ started \in Seq(Callbacks)
    /\ thread \in {"alive", "exited"} /\ interp \in {"alive", "deleted", "gone"}
    /\ sources \subseteq Sources

LEMMA PostTypesStep ==
  ASSUME CallbackTypes, NEW c \in Callbacks, Post(c)
  PROVE  CallbackTypes'
<1>1. CASE EnqueueRefused(c)
  BY <1>1 DEF EnqueueRefused, CallbackTypes, cbVars, tclVars, histVars, PCs
<1>2. CASE Enqueue(c)
  BY <1>2 DEF Enqueue, CallbackTypes, PCs, Places
<1>3. CASE WaitAnswered(c)
  BY <1>3 DEF WaitAnswered, CallbackUnref, CallbackTypes, tclVars, histVars, PCs,
              Responses
<1>4. CASE WaitTimedOut(c)
  BY <1>4 DEF WaitTimedOut, CallbackTypes, cbVars, tclVars, histVars, PCs
<1>5. CASE CallerUnref(c)
  BY <1>5 DEF CallerUnref, CallbackUnref, CallbackTypes, tclVars, histVars, PCs,
              Responses
<1> QED  BY <1>1, <1>2, <1>3, <1>4, <1>5 DEF Post

LEMMA AnswerTypes ==
  ASSUME CallbackTypes, NEW c \in Callbacks,
         NEW o \in {"ok", "error", "bad", "gone", "quiet"}, Answers(c, o),
         UNCHANGED <<postVars, event, signaled>>
  PROVE  CallbackTypes'
<1>1. Answer(o).winerr \in WinErrs /\ Answer(o).response \in Responses
  BY DEF Answer, WinErrs, Responses
<1> QED  BY <1>1 DEF Answers, CallbackTypes, postVars, Places, Outcomes

LEMMA RunTypesStep ==
  ASSUME CallbackTypes, NEW c \in Callbacks, Run(c)
  PROVE  CallbackTypes'
<1>1. CASE CallbackReturns(c) \/ EvalEnds(c) \/ PlainEnds(c)
  BY <1>1, AnswerTypes DEF CallbackReturns, EvalEnds, PlainEnds
<1>2. CASE EvalBegins(c) \/ PlainBegins(c)
  BY <1>2 DEF EvalBegins, PlainBegins, CallbackTypes, postVars, cbVars, histVars, Places
<1>3. CASE Signal(c)
  BY <1>3 DEF Signal, CallbackTypes, postVars, histVars, Places
<1>4. CASE EventEnds(c)
  BY <1>4 DEF EventEnds, CallbackUnref, CallbackTypes, postVars, histVars, Places,
              Responses
<1> QED  BY <1>1, <1>2, <1>3, <1>4 DEF Run

LEMMA OtherTypesStep ==
  ASSUME OtherTypes, [Next]_vars
  PROVE  OtherTypes'
<1>1. ASSUME NEW c \in Callbacks, Post(c)
      PROVE  OtherTypes'
  <2>1. CASE Enqueue(c)
    <3>1. queue' = Append(queue, c) \/ queue' = queue
      BY <2>1 DEF Enqueue, Queued
    <3>2. /\ posted' = Append(posted, c)
          /\ UNCHANGED <<stack, started, thread, interp, sources>>
      BY <2>1 DEF Enqueue
    <3>3. queue' \in Seq(Callbacks)
      <4>1. queue \in Seq(Callbacks) /\ Append(queue, c) \in Seq(Callbacks)
        BY DEF OtherTypes
      <4> QED  BY <3>1, <4>1
    <3>4. posted' \in Seq(Callbacks)
      BY <3>2 DEF OtherTypes
    <3> QED  BY <3>2, <3>3, <3>4 DEF OtherTypes
  <2> QED
    BY <1>1, <2>1 DEF Post, EnqueueRefused, WaitAnswered, WaitTimedOut, CallerUnref,
                      OtherTypes, tclVars, ticVars, histVars
<1>2. ASSUME NEW c \in Callbacks, Run(c)
      PROVE  OtherTypes'
  <2>1. CASE EventEnds(c)
    BY <2>1 DEF EventEnds, Running, Front, OtherTypes, histVars
  <2>2. CASE EvalEnds(c)
    BY <2>2 DEF EvalEnds, ContextCleanup, OtherTypes
  <2> QED
    BY <1>2, <2>1, <2>2
    DEF Run, CallbackReturns, EvalBegins, PlainBegins, PlainEnds, Signal, OtherTypes,
        ticVars, histVars
<1>3. CASE Dispatch
  BY <1>3 DEF Dispatch, OtherTypes, ticVars
<1>4. CASE \/ \E s \in Sources : SourceOn(s) \/ SourceOff(s)
           \/ InterpDelete \/ InterpContextCleanup \/ ThreadExits
  BY <1>4 DEF SourceOn, SourceOff, InterpDelete, InterpContextCleanup, ThreadExits,
              ContextCleanup, OtherTypes, tclVars, ticVars, histVars
<1>5. CASE (\E c \in Callbacks, s \in Sources : CallbackNew(c, s)) \/ UNCHANGED vars
  BY <1>5 DEF CallbackNew, OtherTypes, vars, tclVars, ticVars, histVars
<1> QED  BY <1>1, <1>2, <1>3, <1>4, <1>5 DEF Next

LEMMA CallbackTypesStep ==
  ASSUME CallbackTypes, OtherTypes, [Next]_vars
  PROVE  CallbackTypes'
<1>1. ASSUME NEW c \in Callbacks, NEW s \in Sources, CallbackNew(c, s)
      PROVE  CallbackTypes'
  <2>1. MayWait(s) \subseteq BOOLEAN
    BY CallbackQueueAssumption DEF MayWait
  <2> QED  BY <1>1, <2>1 DEF CallbackNew, CallbackTypes, cbVars, tclVars, histVars, PCs
<1>2. ASSUME NEW c \in Callbacks, Post(c) \/ Run(c)
      PROVE  CallbackTypes'
  BY <1>2, PostTypesStep, RunTypesStep
<1>3. CASE Dispatch
  <2>1. Head(queue) \in Callbacks
    BY <1>3 DEF Dispatch, OtherTypes
  <2> QED  BY <1>3, <2>1 DEF Dispatch, CallbackTypes, postVars, cbVars, Places
<1>4. CASE ThreadExits
  BY <1>4 DEF ThreadExits, CallbackTypes, postVars, cbVars, histVars, Places
<1>5. CASE \/ \E s \in Sources : SourceOn(s) \/ SourceOff(s)
           \/ InterpDelete \/ InterpContextCleanup \/ UNCHANGED vars
  BY <1>5 DEF SourceOn, SourceOff, InterpDelete, InterpContextCleanup, CallbackTypes,
              vars, postVars, cbVars, tclVars, histVars
<1> QED  BY <1>1, <1>2, <1>3, <1>4, <1>5 DEF Next

\* Unrefs add to the calls of TwapiInterpContextDelete, nothing takes one away
LEMMA DeletesStep ==
  ASSUME tic \in Tics, tic.deletes \in Nat, [Next]_vars
  PROVE  tic'.deletes \in Nat
<1>1. ASSUME NEW t, t.deletes \in Nat, NEW n
      PROVE  Unref(t, n).deletes \in Nat
  BY <1>1 DEF Unref, One
<1>2. Ref(tic, 1).deletes \in Nat
  BY DEF Ref, Tics
<1>3. CleanedUp(tic).deletes \in Nat
  BY <1>1 DEF CleanedUp
<1>4. \/ tic' \in {tic, Ref(tic, 1), CleanedUp(tic)}
      \/ tic' = Unref(tic, 1) \/ tic' = Unref(CleanedUp(tic), 1)
  BY DEF Next, CallbackNew, Post, EnqueueRefused, Enqueue, WaitAnswered, WaitTimedOut,
         CallerUnref, Run, CallbackReturns, EvalBegins, EvalEnds, PlainBegins, PlainEnds,
         Signal, EventEnds, Dispatch, SourceOn, SourceOff, InterpDelete,
         InterpContextCleanup, ThreadExits, vars, ticVars
<1> QED  BY <1>1, <1>2, <1>3, <1>4

\* Every variable keeps its type; the counts are bounded because they are exact
THEOREM TypesAreKept == Spec => []TypeOK
<1> DEFINE Inv == /\ CallbackTypes /\ OtherTypes /\ RefInv /\ ContextInv
                  /\ tic.deletes \in Nat
<1>1. Init => Inv
  <2> SUFFICES ASSUME Init PROVE Inv
    OBVIOUS
  <2>1. CallbackTypes
    BY DEF Init, CallbackTypes, PCs, Places, WinErrs, Responses, Outcomes
  <2>2. OtherTypes /\ tic.deletes \in Nat
    BY DEF Init, OtherTypes
  <2> QED  BY <2>1, <2>2, RefInvInit, CountInit
<1>2. Inv /\ [Next]_vars => Inv'
  BY CallbackTypesStep, OtherTypesStep, RefInvStep, CountStep, DeletesStep, TicType
<1>3. Inv => TypeOK
  <2> SUFFICES ASSUME Inv PROVE TypeOK
    OBVIOUS
  <2>1. nrefs \in [Callbacks -> 0 .. 2]
    BY DEF RefInv, PostTypes, RefCounts
  <2>2. tic.refs \in Nat
    BY Owed, Finite DEF ContextInv
  <2>3. tic \in [refs : Nat, deletes : Nat]
    BY <2>2 DEF ContextInv
  <2> QED  BY <2>1, <2>3 DEF TypeOK, CallbackTypes, OtherTypes
<1> HIDE DEF Inv
<1> QED  BY <1>1, <1>2, <1>3, PTL DEF Spec

-----------------------------------------------------------------------------
(* What callers are promised. *)

\* The posted callbacks are those that were begun, in that order, and then those
\* on the queue; a thread that ended has lost the latter.
OrderInv ==
    thread = "alive" =>
        /\ Len(posted) = Len(started) + Len(queue)
        /\ \A i \in 1 .. Len(queue) : posted[Len(started) + i] = queue[i]

\* A callback is posted once, begins before it is run, and its event is signalled,
\* and so its poster answered, when its function has returned.
CallInv ==
    /\ \A i \in 1 .. Len(posted) : pc[posted[i]] \notin {"none", "new", "refused"}
    /\ \A c \in Callbacks :
          at[c] \in {"call", "eval", "plain", "signal"}
              => \E i \in 1 .. Len(started) : started[i] = c
    /\ \A c \in Callbacks :
          /\ pc[c] \in {"waiting", "answered", "timedout"} => timed[c]
          /\ signaled[c] \/ pc[c] = "answered" => at[c] \in {"unref", "done"}

PromiseInv == CallbackTypes /\ OtherTypes /\ RefInv /\ OrderInv /\ CallInv

LEMMA PromiseInit == Init => PromiseInv
<1> SUFFICES ASSUME Init PROVE PromiseInv
  OBVIOUS
<1>1. CallbackTypes
  BY DEF Init, CallbackTypes, PCs, Places, WinErrs, Responses, Outcomes
<1>2. OtherTypes
  BY DEF Init, OtherTypes
<1>3. OrderInv /\ CallInv
  BY DEF Init, OrderInv, CallInv
<1> QED  BY <1>1, <1>2, <1>3, RefInvInit DEF PromiseInv

LEMMA OrderStep == PromiseInv /\ [Next]_vars => OrderInv'
<1> SUFFICES ASSUME PromiseInv, [Next]_vars PROVE OrderInv'
  OBVIOUS
<1>1. ASSUME NEW c \in Callbacks, Enqueue(c)
      PROVE  OrderInv'
  <2>1. CASE thread = "alive"
    <3>1. /\ queue' = Append(queue, c) /\ posted' = Append(posted, c)
          /\ started' = started /\ thread' = thread
      BY <1>1, <2>1 DEF Enqueue, Queued
    <3>2. queue \in Seq(Callbacks) /\ posted \in Seq(Callbacks) /\ Len(started) \in Nat
      BY DEF PromiseInv, OtherTypes
    <3>3. /\ Len(posted) = Len(started) + Len(queue)
          /\ \A i \in 1 .. Len(queue) : posted[Len(started) + i] = queue[i]
      BY <2>1 DEF PromiseInv, OrderInv
    <3>4. /\ Len(queue') = Len(queue) + 1 /\ Len(posted') = Len(posted) + 1
          /\ queue'[Len(queue) + 1] = c /\ posted'[Len(posted) + 1] = c
          /\ \A i \in 1 .. Len(queue) : queue'[i] = queue[i]
          /\ \A i \in 1 .. Len(posted) : posted'[i] = posted[i]
      BY <3>1, <3>2
    <3>5. Len(posted') = Len(started') + Len(queue')
      BY <3>1, <3>2, <3>3, <3>4
    <3>6. ASSUME NEW i \in 1 .. Len(queue')
          PROVE  posted'[Len(started') + i] = queue'[i]
      <4>1. CASE i = Len(queue) + 1
        BY <3>1, <3>2, <3>3, <3>4, <4>1
      <4>2. CASE i # Len(queue) + 1
        <5>1. i \in 1 .. Len(queue) /\ Len(started) + i \in 1 .. Len(posted)
          BY <3>2, <3>3, <3>4, <4>2
        <5> QED  BY <3>1, <3>3, <3>4, <5>1
      <4> QED  BY <4>1, <4>2
    <3> QED  BY <3>5, <3>6 DEF OrderInv
  <2>2. CASE thread # "alive"
    BY <1>1, <2>2 DEF Enqueue, OrderInv
  <2> QED  BY <2>1, <2>2
<1>2. CASE Dispatch
  <2>1. /\ queue # <<>> /\ queue' = Tail(queue) /\ posted' = posted
        /\ started' = Append(started, Head(queue)) /\ thread = "alive"
    BY <1>2 DEF Dispatch, Scripting
  <2>2. /\ queue \in Seq(Callbacks) /\ started \in Seq(Callbacks)
        /\ posted \in Seq(Callbacks) /\ OrderInv
    BY DEF PromiseInv, OtherTypes
  <2>3. /\ Len(started') = Len(started) + 1 /\ Len(queue') + 1 = Len(queue)
        /\ Len(queue') \in Nat
        /\ \A i \in 1 .. Len(queue') : queue'[i] = queue[i + 1]
    BY <2>1, <2>2
  <2>4. Len(posted') = Len(started') + Len(queue')
    <3>1. Len(posted) = Len(started) + Len(queue) /\ Len(posted') = Len(posted)
      BY <2>1, <2>2 DEF OrderInv
    <3>2. Len(started) \in Nat /\ Len(queue) \in Nat
      BY <2>2
    <3>3. \A s, q, r \in Nat : r + 1 = q => s + q = (s + 1) + r
      OBVIOUS
    <3>4. Len(started) + Len(queue) = (Len(started) + 1) + Len(queue')
      BY <2>3, <3>2, <3>3
    <3> QED  BY <2>3, <3>1, <3>4
  <2>5. ASSUME NEW i \in 1 .. Len(queue')
        PROVE  posted'[Len(started') + i] = queue'[i]
    <3>1. i + 1 \in 1 .. Len(queue) /\ Len(started') + i = Len(started) + (i + 1)
      BY <2>2, <2>3
    <3> QED  BY <2>1, <2>2, <2>3, <3>1 DEF OrderInv
  <2> QED  BY <2>4, <2>5 DEF OrderInv
<1>3. CASE ThreadExits
  BY <1>3 DEF ThreadExits, OrderInv
<1>4. CASE UNCHANGED <<thread, posted, started, queue>>
  BY <1>4 DEF PromiseInv, OrderInv
<1>5. ASSUME NEW c \in Callbacks, Run(c)
      PROVE  OrderInv'
  BY <1>4, <1>5
  DEF Run, CallbackReturns, EvalBegins, EvalEnds, PlainBegins, PlainEnds, Signal,
      EventEnds, histVars
<1>6. CASE \/ \E c \in Callbacks, s \in Sources : CallbackNew(c, s)
           \/ \E c \in Callbacks :
                EnqueueRefused(c) \/ WaitAnswered(c) \/ WaitTimedOut(c) \/ CallerUnref(c)
           \/ \E s \in Sources : SourceOn(s) \/ SourceOff(s)
           \/ InterpDelete \/ InterpContextCleanup \/ UNCHANGED vars
  BY <1>4, <1>6
  DEF CallbackNew, EnqueueRefused, WaitAnswered, WaitTimedOut, CallerUnref, SourceOn,
      SourceOff, InterpDelete, InterpContextCleanup, vars, tclVars, histVars
<1> QED  BY <1>1, <1>2, <1>3, <1>5, <1>6 DEF Next, Post

LEMMA CallStep == PromiseInv /\ [Next]_vars => CallInv'
<1> SUFFICES ASSUME PromiseInv, [Next]_vars PROVE CallInv'
  OBVIOUS
<1> USE DEF PromiseInv, CallInv
<1>t. /\ pc \in [Callbacks -> PCs] /\ at \in [Callbacks -> Places]
      /\ timed \in [Callbacks -> BOOLEAN] /\ signaled \in [Callbacks -> BOOLEAN]
      /\ posted \in Seq(Callbacks) /\ started \in Seq(Callbacks)
      /\ queue \in Seq(Callbacks)
  BY DEF CallbackTypes, OtherTypes
<1>1. ASSUME NEW c \in Callbacks, Enqueue(c)
      PROVE  CallInv'
  <2>1. /\ pc[c] = "new" /\ at[c] = "none" /\ UNCHANGED <<started, timed, signaled>>
        /\ pc' = [pc EXCEPT ![c] = IF timed[c] THEN "waiting" ELSE "back"]
        /\ \/ at' = [at EXCEPT ![c] = "queued"]
           \/ at' = [at EXCEPT ![c] = "lost"]
        /\ posted' = Append(posted, c)
    BY <1>1 DEF Enqueue, RefInv, QueueInv
  <2>2. /\ Len(posted') = Len(posted) + 1 /\ posted'[Len(posted) + 1] = c
        /\ \A i \in 1 .. Len(posted) : posted'[i] = posted[i] /\ posted[i] \in Callbacks
    BY <1>t, <2>1
  <2>3. \A i \in 1 .. Len(posted') : pc'[posted'[i]] \notin {"none", "new", "refused"}
    BY <1>t, <2>1, <2>2
  <2>4. \A d \in Callbacks :
          at'[d] \in {"call", "eval", "plain", "signal"}
              => \E i \in 1 .. Len(started') : started'[i] = d
    BY <1>t, <2>1
  <2>5. \A d \in Callbacks :
          /\ pc'[d] \in {"waiting", "answered", "timedout"} => timed'[d]
          /\ signaled'[d] \/ pc'[d] = "answered" => at'[d] \in {"unref", "done"}
    BY <1>t, <2>1
  <2> QED  BY <2>3, <2>4, <2>5
<1>2. ASSUME NEW c \in Callbacks,
             \/ EnqueueRefused(c) \/ WaitTimedOut(c) \/ CallerUnref(c)
             \/ WaitAnswered(c)
      PROVE  CallInv'
  BY <1>t, <1>2
  DEF EnqueueRefused, WaitTimedOut, CallerUnref, WaitAnswered, cbVars, tclVars, histVars
<1>3. ASSUME NEW c \in Callbacks, NEW s \in Sources, CallbackNew(c, s)
      PROVE  CallInv'
  <2>1. /\ pc[c] = "none" /\ at[c] = "none" /\ pc' = [pc EXCEPT ![c] = "new"]
        /\ \E w : timed' = [timed EXCEPT ![c] = w]
        /\ UNCHANGED <<posted, started, at, signaled>>
    BY <1>3 DEF CallbackNew, cbVars, tclVars, histVars, RefInv, QueueInv
  <2>2. \A d \in Callbacks \ {c} : pc'[d] = pc[d] /\ timed'[d] = timed[d]
    BY <1>t, <2>1
  <2>3. pc'[c] = "new" /\ \A i \in 1 .. Len(posted) : posted[i] # c
    BY <1>t, <2>1
  <2>4. ~signaled[c]
    BY <2>1
  <2>5. \A i \in 1 .. Len(posted) :
          posted[i] \in Callbacks /\ pc'[posted[i]] = pc[posted[i]]
    BY <1>t, <2>2, <2>3
  <2>6. \A i \in 1 .. Len(posted') : pc'[posted'[i]] \notin {"none", "new", "refused"}
    BY <2>1, <2>5
  <2>7. \A d \in Callbacks :
          /\ pc'[d] \in {"waiting", "answered", "timedout"} => timed'[d]
          /\ signaled'[d] \/ pc'[d] = "answered" => at'[d] \in {"unref", "done"}
    BY <2>1, <2>2, <2>3, <2>4
  <2> QED  BY <2>1, <2>6, <2>7
<1>4. ASSUME NEW c \in Callbacks, Run(c)
      PROVE  CallInv'
  BY <1>t, <1>4
  DEF Run, CallbackReturns, EvalBegins, EvalEnds, PlainBegins, PlainEnds, Signal,
      EventEnds, Answers, postVars, cbVars, histVars
<1>5. CASE Dispatch
  <2> DEFINE h == Head(queue)
  <2>1. /\ h = queue[1] /\ h \in Callbacks /\ 1 \in 1 .. Len(queue)
    BY <1>t, <1>5 DEF Dispatch
  <2>2. /\ at[h] = "queued" /\ at' = [at EXCEPT ![h] = "call"]
        /\ started' = Append(started, h)
        /\ UNCHANGED <<pc, timed, signaled, posted>>
    BY <1>5, <2>1 DEF Dispatch, postVars, cbVars, RefInv, QueueInv
  <2>3. /\ Len(started') = Len(started) + 1 /\ started'[Len(started) + 1] = h
        /\ \A i \in 1 .. Len(started) : started'[i] = started[i]
    BY <1>t, <2>1, <2>2
  <2> HIDE DEF h
  <2>4. \A d \in Callbacks :
          at'[d] \in {"call", "eval", "plain", "signal"}
              => \E i \in 1 .. Len(started') : started'[i] = d
    BY <1>t, <2>1, <2>2, <2>3
  <2> QED  BY <1>t, <2>1, <2>2, <2>4
<1>6. CASE ThreadExits
  <2>1. /\ \A d \in Callbacks : at'[d] = IF at[d] = "queued" THEN "lost" ELSE at[d]
        /\ UNCHANGED <<pc, timed, signaled, posted, started>>
    BY <1>6 DEF ThreadExits, postVars, cbVars, histVars
  <2> QED  BY <1>t, <2>1
<1>7. CASE \/ \E s \in Sources : SourceOn(s) \/ SourceOff(s)
           \/ InterpDelete \/ InterpContextCleanup \/ UNCHANGED vars
  BY <1>7
  DEF SourceOn, SourceOff, InterpDelete, InterpContextCleanup, vars, postVars, cbVars,
      tclVars, histVars
<1> QED  BY <1>1, <1>2, <1>3, <1>4, <1>5, <1>6, <1>7 DEF Next, Post

LEMMA PromiseAlways == Spec => []PromiseInv
<1>1. PromiseInv /\ [Next]_vars => PromiseInv'
  BY CallbackTypesStep, OtherTypesStep, RefInvStep, OrderStep, CallStep DEF PromiseInv
<1> QED  BY <1>1, PromiseInit, PTL DEF Spec

\* What the refinement mapping makes of a callback
Ended == {c \in Callbacks : at[c] \in {"unref", "done"}}
ReplyTo(c) ==
    CASE pc[c] = "timedout" -> "gaveup"
      [] pc[c] \in {"answered", "back"} /\ timed[c] -> "answer"
      [] OTHER -> "none"
Replies == [c \in Callbacks |-> ReplyTo(c)]

\* Steps that callers do not see
LEMMA CallerStutters ==
  ASSUME UNCHANGED <<posted, started>>,
         \A c \in Callbacks : at'[c] \in {"unref", "done"} <=> at[c] \in {"unref", "done"},
         \A c \in Callbacks : ReplyTo(c)' = ReplyTo(c)
  PROVE  UNCHANGED Calls!vars
<1>1. Ended' = Ended /\ Replies' = Replies
  BY DEF Ended, Replies
<1> QED  BY <1>1 DEF Calls!vars, Ended, Replies, ReplyTo

LEMMA CallRefines == PromiseInv /\ [Next]_vars => [Calls!Next]_(Calls!vars)
<1> SUFFICES ASSUME PromiseInv, [Next]_vars PROVE Calls!Next \/ UNCHANGED Calls!vars
  OBVIOUS
<1>t. /\ pc \in [Callbacks -> PCs] /\ at \in [Callbacks -> Places]
      /\ timed \in [Callbacks -> BOOLEAN]
      /\ posted \in Seq(Callbacks) /\ started \in Seq(Callbacks)
      /\ queue \in Seq(Callbacks)
  BY DEF PromiseInv, CallbackTypes, OtherTypes
<1>s. UNCHANGED postVars => \A c \in Callbacks : ReplyTo(c)' = ReplyTo(c)
  BY DEF ReplyTo, postVars
<1>1. ASSUME NEW c \in Callbacks, Enqueue(c)
      PROVE  Calls!Next
  <2>1. /\ pc[c] = "new" /\ at[c] = "none"
        /\ pc' = [pc EXCEPT ![c] = IF timed[c] THEN "waiting" ELSE "back"]
        /\ \/ at' = [at EXCEPT ![c] = "queued"]
           \/ at' = [at EXCEPT ![c] = "lost"]
        /\ posted' = Append(posted, c) /\ UNCHANGED <<started, timed>>
    BY <1>1 DEF Enqueue, PromiseInv, RefInv, QueueInv
  <2>2. \A i \in 1 .. Len(posted) : posted[i] # c
    BY <2>1 DEF PromiseInv, CallInv
  <2>3. Ended' = Ended
    BY <1>t, <2>1 DEF Ended
  <2>4. \A d \in Callbacks : ReplyTo(d)' = ReplyTo(d)
    BY <1>t, <2>1 DEF ReplyTo
  <2>5. Replies' = Replies
    BY <2>4 DEF Replies
  <2>6. Calls!Post(c)
    BY <2>1, <2>2, <2>3, <2>5 DEF Calls!Post, Ended, Replies, ReplyTo
  <2> QED  BY <2>6 DEF Calls!Next
<1>2. CASE Dispatch
  <2> DEFINE h == Head(queue)
  <2>1. /\ h = queue[1] /\ h \in Callbacks /\ 1 \in 1 .. Len(queue)
    BY <1>t, <1>2 DEF Dispatch
  <2>2. /\ at[h] = "queued" /\ at' = [at EXCEPT ![h] = "call"]
        /\ started' = Append(started, h) /\ thread = "alive"
        /\ UNCHANGED <<posted, pc, timed>>
    BY <1>2, <2>1
    DEF Dispatch, Scripting, postVars, PromiseInv, RefInv, QueueInv
  <2>3. /\ Len(started) \in Nat /\ Len(queue) \in Nat \ {0}
        /\ Len(posted) = Len(started) + Len(queue)
        /\ h = posted[Len(started) + 1]
    BY <1>t, <2>1, <2>2 DEF PromiseInv, OrderInv
  <2> HIDE DEF h
  <2>4. Ended' = Ended
    BY <1>t, <2>2 DEF Ended
  <2>5. Replies' = Replies
    BY <2>2 DEF Replies, ReplyTo
  <2>6. Calls!Begin
    BY <2>2, <2>3, <2>4, <2>5 DEF Calls!Begin, Ended, Replies, ReplyTo
  <2> QED  BY <2>6 DEF Calls!Next
<1>3. ASSUME NEW c \in Callbacks, Signal(c)
      PROVE  Calls!Next
  <2>1. /\ at[c] = "signal" /\ at' = [at EXCEPT ![c] = "unref"]
        /\ UNCHANGED <<posted, started, pc, timed>>
    BY <1>3 DEF Signal, postVars, histVars
  <2>2. \E i \in 1 .. Len(started) : started[i] = c
    BY <2>1 DEF PromiseInv, CallInv
  <2>3. c \notin Ended /\ Ended' = Ended \union {c}
    BY <1>t, <2>1 DEF Ended
  <2>4. Replies' = Replies
    BY <2>1 DEF Replies, ReplyTo
  <2>5. Calls!Finish(c)
    BY <2>1, <2>2, <2>3, <2>4 DEF Calls!Finish, Ended, Replies, ReplyTo
  <2> QED  BY <2>5 DEF Calls!Next
<1>4. ASSUME NEW c \in Callbacks, WaitAnswered(c) \/ WaitTimedOut(c)
      PROVE  Calls!Next
  <2>1. /\ pc[c] = "waiting" /\ timed[c] /\ UNCHANGED <<posted, started, at, timed>>
        /\ \/ /\ signaled[c]
              /\ \/ pc' = [pc EXCEPT ![c] = "answered"]
                 \/ pc' = [pc EXCEPT ![c] = "back"]
           \/ pc' = [pc EXCEPT ![c] = "timedout"]
    BY <1>4 DEF WaitAnswered, WaitTimedOut, tclVars, histVars, PromiseInv, CallInv
  <2>2. Ended' = Ended /\ ReplyTo(c) = "none"
    BY <2>1 DEF Ended, ReplyTo
  <2>3. \A d \in Callbacks \ {c} : ReplyTo(d)' = ReplyTo(d)
    BY <1>t, <2>1 DEF ReplyTo
  <2>4. \/ c \in Ended /\ ReplyTo(c)' = "answer"
        \/ ReplyTo(c)' = "gaveup"
    BY <1>t, <2>1 DEF ReplyTo, Ended, PromiseInv, CallInv
  <2>5. \/ c \in Ended /\ Replies' = [Replies EXCEPT ![c] = "answer"]
        \/ Replies' = [Replies EXCEPT ![c] = "gaveup"]
    BY <2>3, <2>4 DEF Replies
  <2>6. Replies[c] = "none"
    BY <2>2 DEF Replies
  <2>7. Calls!Reply(c)
    BY <2>1, <2>2, <2>5, <2>6 DEF Calls!Reply, Ended, Replies, ReplyTo
  <2> QED  BY <2>7 DEF Calls!Next
<1>5. ASSUME NEW c \in Callbacks, EnqueueRefused(c) \/ CallerUnref(c)
      PROVE  UNCHANGED Calls!vars
  <2>1. /\ UNCHANGED <<posted, started, at, timed>>
        /\ \/ pc[c] = "new" /\ pc' = [pc EXCEPT ![c] = "refused"]
           \/ pc[c] = "answered" /\ timed[c] /\ pc' = [pc EXCEPT ![c] = "back"]
    BY <1>5 DEF EnqueueRefused, CallerUnref, tclVars, histVars, PromiseInv, CallInv
  <2>2. \A d \in Callbacks : ReplyTo(d)' = ReplyTo(d)
    BY <1>t, <2>1 DEF ReplyTo
  <2> QED  BY <2>1, <2>2, CallerStutters
<1>6. ASSUME NEW c \in Callbacks, NEW s \in Sources, CallbackNew(c, s)
      PROVE  UNCHANGED Calls!vars
  <2>1. /\ pc[c] = "none" /\ pc' = [pc EXCEPT ![c] = "new"]
        /\ UNCHANGED <<posted, started, at>>
        /\ \A d \in Callbacks \ {c} : timed'[d] = timed[d]
    BY <1>t, <1>6 DEF CallbackNew, tclVars, histVars
  <2>2. \A d \in Callbacks : ReplyTo(d)' = ReplyTo(d)
    BY <1>t, <2>1 DEF ReplyTo
  <2> QED  BY <2>1, <2>2, CallerStutters
<1>7. ASSUME NEW c \in Callbacks, Run(c), ~Signal(c)
      PROVE  UNCHANGED Calls!vars
  <2>1. UNCHANGED <<posted, started, postVars>>
    BY <1>7
    DEF Run, CallbackReturns, EvalBegins, EvalEnds, PlainBegins, PlainEnds, EventEnds,
        histVars
  <2>2. \A d \in Callbacks : at'[d] \in {"unref", "done"} <=> at[d] \in {"unref", "done"}
    BY <1>t, <1>7
    DEF Run, CallbackReturns, EvalBegins, EvalEnds, PlainBegins, PlainEnds, EventEnds,
        Answers
  <2> QED  BY <1>s, <2>1, <2>2, CallerStutters
<1>8. CASE ThreadExits
  <2>1. UNCHANGED <<posted, started, postVars>>
    BY <1>8 DEF ThreadExits, histVars
  <2>2. \A d \in Callbacks : at'[d] \in {"unref", "done"} <=> at[d] \in {"unref", "done"}
    BY <1>8 DEF ThreadExits
  <2> QED  BY <1>s, <2>1, <2>2, CallerStutters
<1>9. CASE \/ \E s \in Sources : SourceOn(s) \/ SourceOff(s)
           \/ InterpDelete \/ InterpContextCleanup \/ UNCHANGED vars
  <2>1. UNCHANGED <<posted, started, postVars, at>>
    BY <1>9
    DEF SourceOn, SourceOff, InterpDelete, InterpContextCleanup, vars, tclVars, histVars
  <2> QED  BY <1>s, <2>1, CallerStutters
<1> QED
  BY <1>1, <1>2, <1>3, <1>4, <1>5, <1>6, <1>7, <1>8, <1>9 DEF Next, Post

\* The framework keeps the promise of AsyncCall to the threads that post: calls
\* begin one at a time and in order, none begins twice, nested event loops or not,
\* and no poster is answered before its call has finished (Twapi_TclEventProc,
\* TwapiEnqueueCallback).
THEOREM FrameworkServesCalls == Spec => ServesCalls
<1>1. Init => Calls!Init
  <2> SUFFICES ASSUME Init PROVE Calls!Init
    OBVIOUS
  <2>1. Ended = {} /\ Replies = [c \in Callbacks |-> "none"]
    BY DEF Init, Ended, Replies, ReplyTo
  <2> QED  BY <2>1 DEF Init, Calls!Init, Ended, Replies, ReplyTo
<1> QED  BY <1>1, PromiseAlways, CallRefines, PTL DEF Spec, ServesCalls, Calls!Spec

-----------------------------------------------------------------------------
(* The answer. *)

\* c holds what its function left behind
HasAnswer(c) ==
    /\ outcome[c] \in Outcomes \ {"none"}
    /\ winerr[c] = Answer(outcome[c]).winerr
    /\ response[c] = Answer(outcome[c]).response

\* From the return of the function on, as long as a caller may ask for it
AnswerInv ==
    \A c \in Callbacks :
        \/ at[c] \in {"signal", "unref"}
        \/ at[c] = "done" /\ pc[c] \in {"waiting", "answered", "timedout"}
        => HasAnswer(c)

LEMMA AnswerStep == PromiseInv /\ AnswerInv /\ [Next]_vars => AnswerInv'
<1> SUFFICES ASSUME PromiseInv, AnswerInv, [Next]_vars PROVE AnswerInv'
  OBVIOUS
<1>t. /\ pc \in [Callbacks -> PCs] /\ at \in [Callbacks -> Places]
      /\ winerr \in [Callbacks -> WinErrs] /\ response \in [Callbacks -> Responses]
      /\ outcome \in [Callbacks -> Outcomes] /\ nrefs \in [Callbacks -> Int]
  BY DEF PromiseInv, CallbackTypes, RefInv, PostTypes
<1> USE DEF AnswerInv, HasAnswer
<1>1. ASSUME NEW c \in Callbacks, NEW o \in Outcomes \ {"none"}, Answers(c, o),
             at[c] \in {"call", "eval", "plain"}, UNCHANGED pc
      PROVE  AnswerInv'
  <2>1. Answer(o).winerr \in WinErrs /\ Answer(o).response \in Responses
    BY <1>1 DEF Answer, WinErrs, Responses, Outcomes
  <2>2. HasAnswer(c)'
    BY <1>t, <1>1, <2>1 DEF Answers
  <2>3. ASSUME NEW d \in Callbacks \ {c}
        PROVE  /\ at'[d] = at[d] /\ pc'[d] = pc[d]
               /\ outcome'[d] = outcome[d] /\ winerr'[d] = winerr[d]
               /\ response'[d] = response[d]
    BY <1>t, <1>1 DEF Answers
  <2> QED  BY <2>2, <2>3
<1>2. ASSUME NEW c \in Callbacks, CallbackReturns(c) \/ EvalEnds(c) \/ PlainEnds(c)
      PROVE  AnswerInv'
  BY <1>1, <1>2 DEF CallbackReturns, EvalEnds, PlainEnds, postVars, Outcomes
<1>3. ASSUME NEW c \in Callbacks, EvalBegins(c) \/ PlainBegins(c) \/ Signal(c)
      PROVE  AnswerInv'
  BY <1>t, <1>3 DEF EvalBegins, PlainBegins, Signal, postVars, cbVars, histVars
<1>4. ASSUME NEW c \in Callbacks, CallbackUnref(c), UNCHANGED <<winerr, outcome>>,
             \/ /\ at[c] = "unref" /\ at' = [at EXCEPT ![c] = "done"] /\ UNCHANGED pc
             \/ /\ pc[c] \in {"waiting", "answered"} /\ UNCHANGED at
                /\ pc' = [pc EXCEPT ![c] = "back"]
      PROVE  AnswerInv'
  <2>1. nrefs[c] <= 1 => ~(Pending(c) /\ Charged(c))
    BY DEF PromiseInv, RefInv, RefCounts
  <2>2. \A d \in Callbacks \ {c} :
          response'[d] = response[d] /\ at'[d] = at[d] /\ pc'[d] = pc[d]
    BY <1>t, <1>4 DEF CallbackUnref
  <2>3. nrefs[c] > 1 => response' = response
    BY <1>t, <1>4 DEF CallbackUnref
  <2>4. CASE at[c] = "unref" /\ at' = [at EXCEPT ![c] = "done"] /\ UNCHANGED pc
    <3>1. Charged(c) => nrefs[c] > 1
      BY <1>t, <2>1, <2>4 DEF Pending
    <3> QED  BY <1>t, <1>4, <2>2, <2>3, <2>4, <3>1 DEF Charged
  <2>5. CASE /\ pc[c] \in {"waiting", "answered"} /\ UNCHANGED at
             /\ pc' = [pc EXCEPT ![c] = "back"]
    <3>1. Pending(c) => nrefs[c] > 1
      BY <1>t, <2>1, <2>5 DEF Charged
    <3> QED  BY <1>t, <1>4, <2>2, <2>3, <2>5, <3>1 DEF Pending
  <2> QED  BY <1>4, <2>4, <2>5
<1>5. ASSUME NEW c \in Callbacks, EventEnds(c) \/ CallerUnref(c)
      PROVE  AnswerInv'
  BY <1>4, <1>5 DEF EventEnds, CallerUnref, postVars, tclVars, histVars
<1>6. ASSUME NEW c \in Callbacks, WaitAnswered(c)
      PROVE  AnswerInv'
  <2>1. CASE CallbackUnref(c) /\ pc' = [pc EXCEPT ![c] = "back"]
    BY <1>4, <1>6, <2>1 DEF WaitAnswered, tclVars, histVars
  <2>2. CASE UNCHANGED response /\ pc' = [pc EXCEPT ![c] = "answered"]
    BY <1>t, <1>6, <2>2 DEF WaitAnswered, tclVars, histVars
  <2> QED  BY <1>6, <2>1, <2>2 DEF WaitAnswered
<1>7. ASSUME NEW c \in Callbacks, EnqueueRefused(c) \/ Enqueue(c) \/ WaitTimedOut(c)
      PROVE  AnswerInv'
  BY <1>t, <1>7
  DEF EnqueueRefused, Enqueue, WaitTimedOut, cbVars, tclVars, histVars, PromiseInv,
      RefInv, QueueInv
<1>8. CASE \E c \in Callbacks, s \in Sources : CallbackNew(c, s)
  BY <1>t, <1>8 DEF CallbackNew, cbVars, tclVars, histVars
<1>9. CASE Dispatch
  <2>1. Head(queue) \in Callbacks
    BY <1>9 DEF Dispatch, PromiseInv, OtherTypes
  <2> QED  BY <1>t, <1>9, <2>1 DEF Dispatch, postVars, cbVars
<1>10. CASE ThreadExits
  BY <1>10 DEF ThreadExits, postVars, cbVars, histVars
<1>11. CASE \/ \E s \in Sources : SourceOn(s) \/ SourceOff(s)
            \/ InterpDelete \/ InterpContextCleanup \/ UNCHANGED vars
  BY <1>11
  DEF SourceOn, SourceOff, InterpDelete, InterpContextCleanup, vars, postVars, cbVars,
      tclVars, histVars
<1> QED
  BY <1>2, <1>3, <1>5, <1>6, <1>7, <1>8, <1>9, <1>10, <1>11 DEF Next, Run, Post

\* Who is answered reads what the callback left behind when it had run, not the
\* values it was created with nor those of a callback already deleted.
THEOREM AnswersAreOutcomes == Spec => []AnswerIsOutcome
<1>1. Init => AnswerInv
  BY DEF Init, AnswerInv
<1>2. PromiseInv /\ AnswerInv => AnswerIsOutcome
  <2> SUFFICES ASSUME PromiseInv, AnswerInv, NEW c \in Callbacks, pc[c] = "answered"
               PROVE  /\ outcome[c] # "none"
                      /\ [winerr |-> winerr[c], response |-> response[c]]
                           = Answer(outcome[c])
    BY DEF AnswerIsOutcome
  <2>1. at[c] \in {"unref", "done"}
    BY DEF PromiseInv, CallInv
  <2>2. HasAnswer(c)
    BY <2>1 DEF AnswerInv
  <2> QED  BY <2>2 DEF HasAnswer, Answer, Outcomes
<1> QED  BY <1>1, <1>2, AnswerStep, PromiseAlways, PTL DEF Spec

-----------------------------------------------------------------------------
(* THE WAITS ON HANDLES. *)

LEMMA WaitStepIsStep == [WaitNext]_allVars => [Next]_vars
<1> SUFFICES ASSUME [WaitNext]_allVars PROVE [Next]_vars
  OBVIOUS
<1>1. CASE \E r \in Waits : WaitOnHandle(r) \/ Registered(r) \/ WaitRefused(r)
  BY <1>1 DEF WaitOnHandle, Registered, WaitRefused, Next, Sources
<1>2. CASE \E h \in Handles : CancelWait(h) \/ CloseTyped(h)
  BY <1>2 DEF CancelWait, CloseTyped, Listed, Next, Sources
<1>3. CASE \E c \in Callbacks, r \in Waits : Fire(c, r)
  BY <1>3 DEF Fire, Next, Sources
<1>4. ASSUME NEW c \in Callbacks,
             \/ Posts(c) \/ RegistrationIgnored(c) \/ RegistrationCalls(c)
             \/ OtherRuns(c) \/ Continues(c)
      PROVE  Next
  BY <1>4 DEF Posts, RegistrationIgnored, RegistrationCalls, OtherRuns, Continues,
              Next, Run, Sources
<1>5. CASE Dispatches \/ Cleans \/ Others
  BY <1>5 DEF Dispatches, Cleans, Others, Next, Run, Sources
<1>6. CASE UNCHANGED allVars
  BY <1>6 DEF allVars
<1> QED  BY <1>1, <1>2, <1>3, <1>4, <1>5, <1>6 DEF WaitNext

\* Registrations use the callback framework as any other source does: its
\* invariants hold with them in place (threadpool.c over async.c).
LEMMA WaitsUseQueue == WaitSpec => Spec
<1>1. WaitInit => Init
  BY DEF WaitInit
<1> QED  BY <1>1, WaitStepIsStep, PTL DEF WaitSpec, Spec

\* The reference counts of callbacks and context with registrations in place
COROLLARY WaitsKeepCounts == WaitSpec => [](CallbackRefsExact /\ ContextRefsExact)
  BY WaitsUseQueue, CallbackRefsAreExact, ContextRefsAreExact, PTL

\* The promise to callers, with registrations as sources
COROLLARY WaitsServeCalls == WaitSpec => ServesCalls
  BY WaitsUseQueue, FrameworkServesCalls, PTL

-----------------------------------------------------------------------------
(* The life of registrations. *)

\* The registrations on the list are the sources of the context, and the list
\* and the pool each have a reference.
ListInv ==
    /\ DOMAIN life = Waits /\ rrefs \in [Waits -> Nat]
    /\ \A r \in Waits : r \in sources <=> life[r] = "listed"
    /\ \A r \in Waits : life[r] = "listed" => rrefs[r] >= 2

LEMMA ListInvInit == WaitInit => ListInv
  BY ThreadPoolAssumption DEF WaitInit, Init, ListInv

\* Steps that leave the list alone
LEMMA ListStill ==
  ASSUME ListInv, UNCHANGED <<life, rrefs, sources>>
  PROVE  ListInv'
  BY DEF ListInv

\* Registrations that leave the list cease to be sources
LEMMA ShutdownStep ==
  ASSUME ListInv, NEW S \in SUBSET Waits, Shutdown(S),
         \A r \in S : life[r] = "listed",
         \A r \in Waits : r \in sources' <=> r \in sources /\ r \notin S
  PROVE  ListInv'
<1>1. /\ rrefs' = [r \in Waits |-> IF r \in S THEN rrefs[r] - 2 ELSE rrefs[r]]
      /\ life' = [r \in Waits |-> IF r \in S THEN End(rrefs'[r]) ELSE life[r]]
  BY DEF Shutdown
<1>2. \A r \in S : rrefs[r] - 2 \in Nat
  BY DEF ListInv
<1>3. rrefs' \in [Waits -> Nat]
  BY <1>1, <1>2 DEF ListInv
<1>4. \A r \in S : life'[r] # "listed"
  BY <1>1 DEF End
<1> QED  BY <1>1, <1>3, <1>4 DEF ListInv

LEMMA CleansStep ==
  ASSUME ListInv, Cleans
  PROVE  ListInv'
<1> DEFINE S == Listed \ sources'
<1>1. Shutdown(S) /\ S \subseteq Waits
  BY DEF Cleans, Listed
<1>2. sources' \subseteq sources
  BY DEF Cleans, InterpContextCleanup, EvalEnds, ContextCleanup
<1>3. \A r \in S : life[r] = "listed"
  BY DEF Listed
<1>4. \A r \in Waits : r \in sources' <=> r \in sources /\ r \notin S
  BY <1>2 DEF ListInv, Listed
<1> HIDE DEF S
<1> QED  BY <1>1, <1>3, <1>4, ShutdownStep

LEMMA ListInvStep == ListInv /\ [WaitNext]_allVars => ListInv'
<1> SUFFICES ASSUME ListInv, [WaitNext]_allVars PROVE ListInv'
  OBVIOUS
<1>1. ASSUME NEW r \in Waits, WaitOnHandle(r)
      PROVE  ListInv'
  <2>1. /\ life[r] = "none" /\ sources' = sources \union {r}
        /\ life' = [life EXCEPT ![r] = "listed"]
    BY <1>1 DEF WaitOnHandle, SourceOn
  <2>2. PICK g \in HeapGarbage : rrefs' = [rrefs EXCEPT ![r] = g + 2]
    BY <1>1 DEF WaitOnHandle, RegRefs
  <2>3. g \in Nat
    BY ThreadPoolAssumption
  <2> QED  BY <2>1, <2>2, <2>3 DEF ListInv
<1>2. ASSUME NEW r \in Waits, WaitRefused(r)
      PROVE  ListInv'
  <2>1. /\ life[r] = "none" /\ sources' = sources
        /\ life' = [life EXCEPT ![r] = End(rrefs'[r])]
    BY <1>2 DEF WaitRefused, vars, ticVars
  <2>2. PICK g \in HeapGarbage : rrefs' = [rrefs EXCEPT ![r] = g + 2 - 2]
    BY <1>2 DEF WaitRefused, RegRefs
  <2>3. g \in Nat /\ g + 2 - 2 = g /\ End(rrefs'[r]) # "listed"
    BY ThreadPoolAssumption DEF End
  <2> QED  BY <2>1, <2>2, <2>3 DEF ListInv
<1>11. CASE \/ \E r \in Waits : Registered(r)
            \/ \E h \in Handles : CloseTyped(h)
            \/ Dispatches
  BY <1>11, ListStill
  DEF Registered, CloseTyped, Dispatches, Dispatch, vars, ticVars, waitVars, regVars
<1>3. ASSUME NEW h \in Handles, CancelWait(h)
      PROVE  ListInv'
  <2>1. /\ ids[h] \in Waits /\ life[ids[h]] = "listed"
        /\ sources' = sources \ {ids[h]} /\ Shutdown({ids[h]})
    BY <1>3 DEF CancelWait, SourceOff, Listed
  <2> QED  BY <2>1, ShutdownStep
<1>4. CASE \E c \in Callbacks, r \in Waits : Fire(c, r)
  BY <1>4, ListStill DEF Fire, CallbackNew, ticVars
<1>5. ASSUME NEW c \in Callbacks, Posts(c)
      PROVE  ListInv'
  BY <1>5, ListStill
  DEF Posts, Post, EnqueueRefused, Enqueue, WaitAnswered, WaitTimedOut, CallerUnref,
      CallbackNew, ticVars, waitVars, regVars
<1>6. ASSUME NEW c \in Callbacks, RegistrationIgnored(c) \/ RegistrationCalls(c)
      PROVE  ListInv'
  BY <1>6, ListStill
  DEF RegistrationIgnored, RegistrationCalls, CallbackReturns, PlainBegins, ticVars,
      waitVars, regVars
<1>7. ASSUME NEW c \in Callbacks, OtherRuns(c) \/ Continues(c)
      PROVE  ListInv'
  BY <1>7, ListStill
  DEF OtherRuns, Continues, CallbackReturns, EvalBegins, PlainBegins, PlainEnds,
      Signal, EventEnds, ticVars, waitVars, regVars
<1>8. CASE Cleans
  BY <1>8, CleansStep
<1>9. CASE Others
  <2>1. UNCHANGED <<life, rrefs>>
    BY <1>9 DEF Others, waitVars, regVars
  <2>2. \A r \in Waits : r \in sources' <=> r \in sources
    BY <1>9, CallbackQueueAssumption
    DEF Others, InterpDelete, ThreadExits, SourceOn, SourceOff, ticVars
  <2> QED  BY <2>1, <2>2 DEF ListInv
<1>10. CASE UNCHANGED allVars
  BY <1>10, ListStill DEF allVars, vars, ticVars, waitVars, regVars
<1> QED
  BY <1>1, <1>2, <1>3, <1>4, <1>5, <1>6, <1>7, <1>8, <1>9, <1>10, <1>11 DEF WaitNext

\* "tprP is guaranteed to not have disappeared as it is ref counted and not
\* unref'ed until the handle is unregistered" (TwapiThreadPoolRegistrationProc).
THEOREM PoolAlwaysHasRegistration == WaitSpec => []PoolHasRegistration
<1> DEFINE Inv == ListInv /\ RefInv /\ PosterInv
<1>1. WaitInit => Inv
  BY ListInvInit, RefInvInit DEF WaitInit, Init, PosterInv, Posting
<1>2. Inv /\ [WaitNext]_allVars => Inv'
  BY ListInvStep, WaitStepIsStep, RefInvStep, PosterStep DEF RefInv, PostTypes
<1>3. Inv => PoolHasRegistration
  <2> SUFFICES ASSUME ListInv, PosterInv, NEW c \in Callbacks, OfWait(c), Posting(c)
               PROVE  life[from[c]] = "listed" /\ rrefs[from[c]] >= 1
    BY DEF PoolHasRegistration
  <2>1. from[c] \in Waits /\ from[c] \in sources
    BY CallbackQueueAssumption DEF PosterInv, OfWait
  <2> QED  BY <2>1 DEF ListInv
<1> HIDE DEF Inv
<1> QED  BY <1>1, <1>2, <1>3, PTL DEF WaitSpec

-----------------------------------------------------------------------------
(* Types. *)

\* The variables of this module, those of CallbackQueue aside
RegTypes ==
    /\ life \in [Waits -> {"none", "listed", "freed", "leaked"}]
    /\ rrefs \in [Waits -> Nat]
    /\ hval \in [Waits -> Handles]
    /\ once \in [Waits -> BOOLEAN] /\ fired \in [Waits -> BOOLEAN]
    /\ ids \in [Handles -> Waits \union {NoSource}]
    /\ reg \in Waits \union {NoSource}
    /\ told \in [Handles -> Seq(Callbacks)] /\ closed \subseteq Waits

LEMMA RegTypesInit == WaitInit => RegTypes
<1> SUFFICES ASSUME WaitInit PROVE RegTypes
  OBVIOUS
<1>1. rrefs \in [Waits -> Nat]
  BY ThreadPoolAssumption DEF WaitInit
<1>2. told \in [Handles -> Seq(Callbacks)]
  BY DEF WaitInit
<1> QED  BY <1>1, <1>2 DEF WaitInit, RegTypes

LEMMA EndType == \A n : End(n) \in {"freed", "leaked"}
  BY DEF End

LEMMA ShutdownTypes ==
  ASSUME RegTypes, ListInv, NEW S \in SUBSET Waits, Shutdown(S),
         \A r \in S : life[r] = "listed", UNCHANGED <<reg, told, closed>>,
         \/ UNCHANGED ids
         \/ \E h \in Handles : ids' = [ids EXCEPT ![h] = NoSource]
  PROVE  RegTypes'
<1>1. /\ rrefs' = [r \in Waits |-> IF r \in S THEN rrefs[r] - 2 ELSE rrefs[r]]
      /\ life' = [r \in Waits |-> IF r \in S THEN End(rrefs'[r]) ELSE life[r]]
      /\ UNCHANGED <<hval, once, fired>>
  BY DEF Shutdown
<1>2. \A r \in S : rrefs[r] - 2 \in Nat
  BY DEF ListInv
<1>3. rrefs' \in [Waits -> Nat]
  BY <1>1, <1>2 DEF RegTypes
<1>4. life' \in [Waits -> {"none", "listed", "freed", "leaked"}]
  BY <1>1, EndType DEF RegTypes
<1>5. ids' \in [Handles -> Waits \union {NoSource}]
  BY DEF RegTypes
<1> QED  BY <1>1, <1>3, <1>4, <1>5 DEF RegTypes

LEMMA RegTypesStep == RegTypes /\ ListInv /\ [WaitNext]_allVars => RegTypes'
<1> SUFFICES ASSUME RegTypes, ListInv, [WaitNext]_allVars PROVE RegTypes'
  OBVIOUS
<1>1. ASSUME NEW r \in Waits, WaitOnHandle(r)
      PROVE  RegTypes'
  <2>1. \A g \in HeapGarbage : g + RegRefs \in Nat
    BY ThreadPoolAssumption DEF RegRefs
  <2>2. PICK g \in HeapGarbage : rrefs' = [rrefs EXCEPT ![r] = g + RegRefs]
    BY <1>1 DEF WaitOnHandle
  <2>3. PICK o \in BOOLEAN : once' = [once EXCEPT ![r] = o]
    BY <1>1 DEF WaitOnHandle
  <2> QED  BY <1>1, <2>1, <2>2, <2>3 DEF WaitOnHandle, RegTypes, histories
<1>2. ASSUME NEW r \in Waits, WaitRefused(r)
      PROVE  RegTypes'
  <2>1. \A g \in HeapGarbage : g + RegRefs - 2 \in Nat
    BY ThreadPoolAssumption DEF RegRefs
  <2>2. PICK g \in HeapGarbage : rrefs' = [rrefs EXCEPT ![r] = g + RegRefs - 2]
    BY <1>2 DEF WaitRefused
  <2> QED  BY <1>2, <2>1, <2>2, EndType DEF WaitRefused, RegTypes, histories
<1>10. ASSUME NEW r \in Waits, Registered(r)
       PROVE  RegTypes'
  <2>1. hval[r] \in Handles
    BY DEF RegTypes
  <2> QED  BY <1>10, <2>1 DEF Registered, RegTypes, regVars, histories
<1>11. ASSUME NEW h \in Handles, CloseTyped(h)
       PROVE  RegTypes'
  <2>1. ids[h] \in Waits
    BY <1>11 DEF CloseTyped, Listed
  <2> QED  BY <1>11, <2>1 DEF CloseTyped, RegTypes, regVars
<1>3. ASSUME NEW h \in Handles, CancelWait(h)
      PROVE  RegTypes'
  <2>1. /\ ids[h] \in Waits /\ life[ids[h]] = "listed" /\ Shutdown({ids[h]})
        /\ ids' = [ids EXCEPT ![h] = NoSource] /\ UNCHANGED <<reg, told, closed>>
    BY <1>3 DEF CancelWait, Listed, histories
  <2> QED  BY <2>1, ShutdownTypes
<1>4. ASSUME NEW c \in Callbacks, NEW r \in Waits, Fire(c, r)
      PROVE  RegTypes'
  BY <1>4 DEF Fire, RegTypes, histories
<1>5. ASSUME NEW c \in Callbacks, RegistrationCalls(c)
      PROVE  RegTypes'
  <2>1. from[c] \in Waits /\ hval[from[c]] \in Handles
    BY <1>5 DEF RegistrationCalls, OfWait, RegTypes
  <2>2. Append(told[hval[from[c]]], c) \in Seq(Callbacks)
    BY <2>1 DEF RegTypes
  <2>3. UNCHANGED <<regVars, reg, ids, closed>>
    BY <1>5 DEF RegistrationCalls
  <2>4. told' \in [Handles -> Seq(Callbacks)]
    BY <1>5, <2>1, <2>2 DEF RegistrationCalls, RegTypes
  <2> QED  BY <2>3, <2>4 DEF regVars, RegTypes
<1>6. CASE Cleans
  <2> DEFINE S == Listed \ sources'
  <2>1. Shutdown(S) /\ S \subseteq Waits /\ \A r \in S : life[r] = "listed"
    BY <1>6 DEF Cleans, Listed
  <2>2. UNCHANGED <<reg, ids, told, closed>>
    BY <1>6 DEF Cleans, histories
  <2> HIDE DEF S
  <2> QED  BY <2>1, <2>2, ShutdownTypes
<1>7. CASE UNCHANGED waitVars
  BY <1>7 DEF waitVars, regVars, histories, RegTypes
<1>8. CASE Dispatches \/ Others \/ UNCHANGED allVars
  BY <1>7, <1>8 DEF Dispatches, Others, allVars
<1>9. ASSUME NEW c \in Callbacks,
             Posts(c) \/ RegistrationIgnored(c) \/ OtherRuns(c) \/ Continues(c)
      PROVE  RegTypes'
  BY <1>7, <1>9 DEF Posts, RegistrationIgnored, OtherRuns, Continues
<1> QED
  BY <1>1, <1>2, <1>3, <1>4, <1>5, <1>6, <1>8, <1>9, <1>10, <1>11 DEF WaitNext

LEMMA RegTypesAlways == WaitSpec => [](RegTypes /\ ListInv)
<1>1. WaitInit => RegTypes /\ ListInv
  BY RegTypesInit, ListInvInit
<1>2. (RegTypes /\ ListInv) /\ [WaitNext]_allVars => (RegTypes /\ ListInv)'
  BY RegTypesStep, ListInvStep
<1> QED  BY <1>1, <1>2, PTL DEF WaitSpec

\* Every variable keeps its type, whatever a new block holds: the count of a
\* registration does not go below zero (TwapiThreadPoolRegistrationUnref).
THEOREM WaitTypesAreKept == WaitSpec => []WaitTypeOK
<1>1. RegTypes /\ TypeOK => WaitTypeOK
  BY DEF RegTypes, WaitTypeOK
<1>2. WaitSpec => []TypeOK
  BY WaitsUseQueue, TypesAreKept, PTL
<1> QED  BY <1>1, <1>2, RegTypesAlways, PTL
=============================================================================
