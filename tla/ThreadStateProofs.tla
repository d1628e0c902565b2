--------------------------- MODULE ThreadStateProofs ---------------------------
(***************************************************************************)
(* The state a thread keeps in its TwapiTls, proved for any interpreters,  *)
(* threads and modules and for pools of any sizes.                         *)
(*                                                                         *)
(* The block itself: a context is deleted with its last user, and the      *)
(* local state of a thread outlives those that point to it, when the       *)
(* initializer of a module may fail but no command of that module is used  *)
(* thereafter.                                                             *)
(*                                                                         *)
(* The LIFO pool in it, which the contexts of the thread point to: what    *)
(* the pool holds is what its marks and blocks need, no two of which share *)
(* memory, and the pool implements the stack of frames of memlifo.h.       *)
(***************************************************************************)
EXTENDS InterpContext, MemLifo, FiniteSetTheorems, SequenceTheorems, TLAPS

-----------------------------------------------------------------------------
(* Contexts and the local state they point to. *)

One(b) == IF b THEN 1 ELSE 0

Names == {Base} \union Modules
Loaded == {"ready", "failed"}

\* The types, of the variables that count and of the others
TypeCounts ==
    /\ nrefs \in [Contexts -> Int] /\ tls \in [Threads -> Nat]
    /\ holders \in [Contexts -> 0 .. MaxHolders]
TypeStates ==
    /\ interp \in [Interps -> {"new", "runs", "dying", "deleted"}]
    /\ ctx \in [Contexts -> {"none", "ready", "failed", "deleted"}]
    /\ callback \subseteq Interps
    /\ attached \subseteq Contexts /\ listed \subseteq Contexts
    /\ finalizer \subseteq Names /\ finalized \subseteq Contexts

\* What a context counts: a ready one its holders, its interpreter and the list; one
\* whose module failed has lost one of the last two, and nothing holds it.
Counted(c) ==
    /\ c \in listed <=> c \in attached
    /\ ctx[c] \in {"none", "deleted"} => holders[c] = 0 /\ c \notin attached
    /\ ctx[c] = "ready" =>
          nrefs[c] = holders[c] + One(c \in attached) + One(c \in attached) /\ nrefs[c] > 0
    /\ ctx[c] = "failed" => nrefs[c] = 1 /\ holders[c] = 0 /\ c \in attached

\* What the local state of a thread counts
Used(t) ==
    /\ IsFiniteSet(InterpUsers(t)) /\ IsFiniteSet(ContextUsers(t))
    /\ tls[t] >= Cardinality(InterpUsers(t)) + Cardinality(ContextUsers(t))

\* An interpreter has no context before it has the base package.
NewHasNone == \A i \in Interps : interp[i] = "new" => ctx[<<i, Base>>] = "none"

ContextInv ==
    /\ TypeCounts /\ TypeStates /\ NewHasNone
    /\ \A c \in Contexts : Counted(c)
    /\ \A t \in Threads : Used(t)

-----------------------------------------------------------------------------
LEMMA Pairs ==
  /\ \A i \in Interps, m \in Names : <<i, m>> \in Contexts /\ <<i, m>>[1] = i /\ <<i, m>>[2] = m
  /\ \A c \in Contexts : c[1] \in Interps /\ c[2] \in Names /\ c = <<c[1], c[2]>>
  /\ \A c \in Contexts : Thread(c) \in Threads
  /\ Base \in Names /\ \A m \in Modules : m \in Names /\ m # Base
<1>1. /\ \A i \in Interps, m \in Names : <<i, m>> \in Contexts /\ <<i, m>>[1] = i /\ <<i, m>>[2] = m
      /\ \A c \in Contexts : c[1] \in Interps /\ c[2] \in Names /\ c = <<c[1], c[2]>>
  BY DEF Contexts, Names
<1>2. \A c \in Contexts : Thread(c) \in Threads
  BY <1>1, InterpAssumption DEF InterpAssumption, Thread
<1>3. Base \in Names /\ \A m \in Modules : m \in Names /\ m # Base
  BY InterpAssumption DEF InterpAssumption, Names
<1> QED  BY <1>1, <1>2, <1>3

LEMMA ContextInvInit == Init => ContextInv
<1> SUFFICES ASSUME Init PROVE ContextInv
  OBVIOUS
<1>1. TypeCounts
  BY InterpAssumption DEF Init, TypeCounts, InterpAssumption
<1>2. TypeStates
  BY DEF Init, TypeStates, Names
<1>3. NewHasNone
  BY Pairs DEF Init, NewHasNone
<1>4. \A c \in Contexts : Counted(c)
  BY DEF Init, Counted
<1>5. ASSUME NEW t \in Threads
      PROVE  Used(t)
  <2>1. InterpUsers(t) = {} /\ ContextUsers(t) = {}
    BY DEF Init, InterpUsers, ContextUsers
  <2>2. tls[t] = 0
    BY DEF Init
  <2> QED  BY <2>1, <2>2, FS_EmptySet DEF Used
<1> QED  BY <1>1, <1>2, <1>3, <1>4, <1>5 DEF ContextInv

-----------------------------------------------------------------------------
(* The users of the local state of a thread. *)

\* A context that is loaded is one more user.
LEMMA LoadedIsUsed ==
  ASSUME ContextInv, NEW c \in Contexts, NEW x \in Loaded, ctx' = [ctx EXCEPT ![c] = x],
         NEW t \in Threads
  PROVE  /\ IsFiniteSet(ContextUsers(t)') /\ Cardinality(ContextUsers(t)') \in Nat
         /\ Cardinality(ContextUsers(t)) \in Nat
         /\ Cardinality(ContextUsers(t)') <= Cardinality(ContextUsers(t)) + One(Thread(c) = t)
<1> DEFINE U == ContextUsers(t)
           V == ContextUsers(t)'
<1>1. IsFiniteSet(U) /\ Cardinality(U) \in Nat
  BY FS_CardinalityType DEF ContextInv, Used
<1>2. V = IF Thread(c) = t THEN U \union {c} ELSE U
  BY DEF ContextInv, TypeStates, ContextUsers, Loaded, Thread
<1> HIDE DEF U, V
<1>3. CASE Thread(c) = t
  <2>1. /\ V = U \union {c} /\ IsFiniteSet(V)
        /\ Cardinality(V) = IF c \in U THEN Cardinality(U) ELSE Cardinality(U) + 1
    BY <1>1, <1>2, <1>3, FS_AddElement
  <2> QED  BY <1>1, <1>3, <2>1 DEF One, U, V
<1>4. CASE Thread(c) # t
  <2>1. V = U
    BY <1>2, <1>4
  <2> QED  BY <1>1, <1>4, <2>1 DEF One, U, V
<1> QED  BY <1>3, <1>4

\* A loaded context that is deleted is one user less.
LEMMA DeletedIsUnused ==
  ASSUME ContextInv, NEW c \in Contexts, ctx[c] \in Loaded,
         ctx' = [ctx EXCEPT ![c] = "deleted"], NEW t \in Threads
  PROVE  /\ IsFiniteSet(ContextUsers(t)') /\ Cardinality(ContextUsers(t)') \in Nat
         /\ Cardinality(ContextUsers(t)) \in Nat
         /\ Cardinality(ContextUsers(t)') + One(Thread(c) = t) = Cardinality(ContextUsers(t))
<1> DEFINE U == ContextUsers(t)
           V == ContextUsers(t)'
<1>1. IsFiniteSet(U) /\ Cardinality(U) \in Nat
  BY FS_CardinalityType DEF ContextInv, Used
<1>2. V = U \ {c} /\ (c \in U <=> Thread(c) = t)
  BY DEF ContextInv, TypeStates, ContextUsers, Loaded, Thread
<1> HIDE DEF U, V
<1>3. /\ IsFiniteSet(V)
      /\ Cardinality(V) = IF c \in U THEN Cardinality(U) - 1 ELSE Cardinality(U)
  BY <1>1, <1>2, FS_RemoveElement
<1>4. Cardinality(V) \in Nat
  BY <1>3, FS_CardinalityType
<1>5. CASE Thread(c) = t
  BY <1>1, <1>2, <1>3, <1>4, <1>5 DEF One, U, V
<1>6. CASE Thread(c) # t
  BY <1>1, <1>2, <1>3, <1>4, <1>6 DEF One, U, V
<1> QED  BY <1>5, <1>6

LEMMA InterpUsersFinite ==
  ASSUME ContextInv, NEW t \in Threads
  PROVE  /\ IsFiniteSet(InterpUsers(t)) /\ Cardinality(InterpUsers(t)) \in Nat
         /\ tls[t] \in Nat /\ Cardinality(ContextUsers(t)) \in Nat
         /\ tls[t] >= Cardinality(InterpUsers(t)) + Cardinality(ContextUsers(t))
  BY FS_CardinalityType DEF ContextInv, Used, TypeCounts

-----------------------------------------------------------------------------
(* Loading a module. *)

\* Allocation and registration of a context that was not there
LEMMA RegisterKeeps ==
  ASSUME ContextInv, NEW c \in Contexts, ctx[c] = "none", Allocate(c), Register(c),
         UNCHANGED holders
  PROVE  /\ \A d \in Contexts : Counted(d)'
         /\ nrefs' \in [Contexts -> Int]
         /\ \E x \in Loaded : ctx' = [ctx EXCEPT ![c] = x]
         /\ attached' \subseteq Contexts /\ listed' \subseteq Contexts
<1>1. TypeCounts /\ TypeStates /\ \A d \in Contexts : Counted(d)
  BY DEF ContextInv
<1>2. /\ nrefs' \in [Contexts -> Int]
      /\ \A d \in Contexts : d # c => nrefs'[d] = nrefs[d] /\ ctx'[d] = ctx[d]
      /\ nrefs'[c] = IF ctx'[c] = "ready" THEN 2 ELSE 1
      /\ ctx'[c] \in Loaded
  BY <1>1 DEF Register, TypeCounts, TypeStates, Loaded
<1>3. \E x \in Loaded : ctx' = [ctx EXCEPT ![c] = x]
  BY DEF Register, Loaded
<1>4. attached' = attached \union {c} /\ listed' = listed \union {c} /\ holders' = holders
  BY DEF Allocate
<1>5. holders[c] = 0
  BY <1>1 DEF Counted
<1>6. Counted(c)'
  BY <1>2, <1>4, <1>5 DEF Counted, One, Loaded
<1>7. ASSUME NEW d \in Contexts, d # c
      PROVE  Counted(d)'
  BY <1>1, <1>2, <1>4, <1>7 DEF Counted
<1> QED  BY <1>1, <1>2, <1>3, <1>4, <1>6, <1>7 DEF TypeStates

LEMMA LoadBaseStep ==
  ASSUME ContextInv, NEW i \in Interps, LoadBase(i)
  PROVE  ContextInv'
<1> DEFINE c == <<i, Base>>
<1>1. /\ c \in Contexts /\ Thread(c) = ThreadOf[i] /\ ThreadOf[i] \in Threads
      /\ TypeCounts /\ TypeStates /\ NewHasNone
  <2>1. c \in Contexts /\ c[1] = i
    BY Pairs
  <2> QED  BY <2>1, Pairs DEF ContextInv, Thread
<1>2. /\ interp[i] = "new" /\ interp' = [interp EXCEPT ![i] = "runs"]
      /\ tls' = [tls EXCEPT ![ThreadOf[i]] = @ + 1 + 1]
      /\ Allocate(c) /\ Register(c)
      /\ callback' = IF ctx'[c] = "ready" THEN callback \union {i} ELSE callback
      /\ finalizer' = finalizer /\ finalized' = finalized /\ holders' = holders
  BY DEF LoadBase
<1>3. ctx[c] = "none"
  BY <1>1, <1>2 DEF NewHasNone
<1> HIDE DEF c
<1>4. /\ \A d \in Contexts : Counted(d)'
      /\ nrefs' \in [Contexts -> Int]
      /\ \E x \in Loaded : ctx' = [ctx EXCEPT ![c] = x]
      /\ attached' \subseteq Contexts /\ listed' \subseteq Contexts
  BY <1>1, <1>2, <1>3, RegisterKeeps
<1>5. PICK x \in Loaded : ctx' = [ctx EXCEPT ![c] = x]
  BY <1>4
<1>6. TypeCounts'
  BY <1>1, <1>2, <1>4 DEF TypeCounts
<1>7. TypeStates'
  <2>1. ctx' \in [Contexts -> {"none", "ready", "failed", "deleted"}]
    BY <1>1, <1>5 DEF TypeStates, Loaded
  <2> QED  BY <1>1, <1>2, <1>4, <2>1 DEF TypeStates
<1>8. NewHasNone'
  <2> SUFFICES ASSUME NEW j \in Interps, interp'[j] = "new"
               PROVE  ctx'[<<j, Base>>] = "none"
    BY DEF NewHasNone
  <2>1. j # i /\ interp[j] = "new"
    BY <1>1, <1>2 DEF TypeStates
  <2>2. <<j, Base>> # c /\ <<j, Base>> \in Contexts
    BY <2>1, Pairs DEF c
  <2> QED  BY <1>1, <1>5, <2>1, <2>2 DEF NewHasNone, TypeStates
<1>9. ASSUME NEW t \in Threads
      PROVE  Used(t)'
  <2>1. /\ IsFiniteSet(ContextUsers(t)') /\ Cardinality(ContextUsers(t)') \in Nat
        /\ Cardinality(ContextUsers(t)) \in Nat
        /\ Cardinality(ContextUsers(t)') <= Cardinality(ContextUsers(t)) + One(ThreadOf[i] = t)
    BY <1>1, <1>5, LoadedIsUsed
  <2>2. /\ IsFiniteSet(InterpUsers(t)) /\ Cardinality(InterpUsers(t)) \in Nat
        /\ tls[t] \in Nat
        /\ tls[t] >= Cardinality(InterpUsers(t)) + Cardinality(ContextUsers(t))
    BY InterpUsersFinite
  <2>3. \/ InterpUsers(t)' = InterpUsers(t)
        \/ InterpUsers(t)' = InterpUsers(t) \union {i} /\ ThreadOf[i] = t
    BY <1>2 DEF InterpUsers
  <2>4. /\ IsFiniteSet(InterpUsers(t)') /\ Cardinality(InterpUsers(t)') \in Nat
        /\ Cardinality(InterpUsers(t)') <= Cardinality(InterpUsers(t)) + One(ThreadOf[i] = t)
    <3>1. /\ IsFiniteSet(InterpUsers(t) \union {i})
          /\ Cardinality(InterpUsers(t) \union {i}) =
                IF i \in InterpUsers(t) THEN Cardinality(InterpUsers(t))
                ELSE Cardinality(InterpUsers(t)) + 1
      BY <2>2, FS_AddElement
    <3>2. CASE InterpUsers(t)' = InterpUsers(t)
      BY <2>2, <3>2 DEF One
    <3>3. CASE InterpUsers(t)' = InterpUsers(t) \union {i} /\ ThreadOf[i] = t
      BY <2>2, <3>1, <3>3 DEF One
    <3> QED  BY <2>3, <3>2, <3>3
  <2>5. tls'[t] = tls[t] + One(ThreadOf[i] = t) + One(ThreadOf[i] = t)
    BY <1>1, <1>2, <2>2 DEF TypeCounts, One
  <2>6. One(ThreadOf[i] = t) \in Nat
    BY DEF One
  <2> QED  BY <2>1, <2>2, <2>4, <2>5, <2>6 DEF Used
<1> QED  BY <1>4, <1>6, <1>7, <1>8, <1>9 DEF ContextInv

LEMMA LoadModuleStep ==
  ASSUME ContextInv, NEW i \in Interps, NEW m \in Modules, LoadModule(i, m)
  PROVE  ContextInv'
<1> DEFINE c == <<i, m>>
<1>1. /\ c \in Contexts /\ Thread(c) = ThreadOf[i] /\ ThreadOf[i] \in Threads
      /\ TypeCounts /\ TypeStates /\ NewHasNone
  <2>1. c \in Contexts /\ c[1] = i
    BY Pairs
  <2> QED  BY <2>1, Pairs DEF ContextInv, Thread
<1>2. /\ interp' = interp /\ callback' = callback
      /\ tls' = [tls EXCEPT ![ThreadOf[i]] = @ + 1]
      /\ ctx[c] = "none" /\ Allocate(c) /\ Register(c)
      /\ finalizer' = finalizer /\ finalized' = finalized /\ holders' = holders
  BY DEF LoadModule
<1>3. \A j \in Interps : <<j, Base>> # c /\ <<j, Base>> \in Contexts
  BY Pairs
<1> HIDE DEF c
<1>4. /\ \A d \in Contexts : Counted(d)'
      /\ nrefs' \in [Contexts -> Int]
      /\ \E x \in Loaded : ctx' = [ctx EXCEPT ![c] = x]
      /\ attached' \subseteq Contexts /\ listed' \subseteq Contexts
  BY <1>1, <1>2, RegisterKeeps
<1>5. PICK x \in Loaded : ctx' = [ctx EXCEPT ![c] = x]
  BY <1>4
<1>6. TypeCounts'
  BY <1>1, <1>2, <1>4 DEF TypeCounts
<1>7. TypeStates'
  <2>1. ctx' \in [Contexts -> {"none", "ready", "failed", "deleted"}]
    BY <1>1, <1>5 DEF TypeStates, Loaded
  <2> QED  BY <1>1, <1>2, <1>4, <2>1 DEF TypeStates
<1>8. NewHasNone'
  BY <1>1, <1>2, <1>3, <1>5 DEF NewHasNone, TypeStates
<1>9. ASSUME NEW t \in Threads
      PROVE  Used(t)'
  <2>1. /\ IsFiniteSet(ContextUsers(t)') /\ Cardinality(ContextUsers(t)') \in Nat
        /\ Cardinality(ContextUsers(t)) \in Nat
        /\ Cardinality(ContextUsers(t)') <= Cardinality(ContextUsers(t)) + One(ThreadOf[i] = t)
    BY <1>1, <1>5, LoadedIsUsed
  <2>2. /\ IsFiniteSet(InterpUsers(t)) /\ Cardinality(InterpUsers(t)) \in Nat
        /\ tls[t] \in Nat
        /\ tls[t] >= Cardinality(InterpUsers(t)) + Cardinality(ContextUsers(t))
    BY InterpUsersFinite
  <2>3. InterpUsers(t)' = InterpUsers(t)
    BY <1>2 DEF InterpUsers
  <2>4. tls'[t] = tls[t] + One(ThreadOf[i] = t)
    BY <1>1, <1>2, <2>2 DEF TypeCounts, One
  <2>5. One(ThreadOf[i] = t) \in Nat
    BY DEF One
  <2> QED  BY <2>1, <2>2, <2>3, <2>4, <2>5 DEF Used
<1> QED  BY <1>4, <1>6, <1>7, <1>8, <1>9 DEF ContextInv

-----------------------------------------------------------------------------
(* Giving up references. *)

\* A loaded context gives up n references, all it has or fewer.
LEMMA UnrefKeeps ==
  ASSUME ContextInv, NEW c \in Contexts, ctx[c] \in Loaded, NEW n \in {1, 2},
         NEW t \in Threads \union {Pool}, t \in Threads => t = Thread(c),
         Unref(c, n, t), UNCHANGED <<interp, callback>>
  PROVE  /\ nrefs' \in [Contexts -> Int]
         /\ tls' \in [Threads -> Nat]
         /\ ctx' \in [Contexts -> {"none", "ready", "failed", "deleted"}]
         /\ \A d \in Contexts : d # c => ctx'[d] = ctx[d] /\ nrefs'[d] = nrefs[d]
         /\ nrefs'[c] = nrefs[c] - n
         /\ ctx'[c] = IF nrefs[c] <= n THEN "deleted" ELSE ctx[c]
         /\ NewHasNone'
         /\ \A u \in Threads : Used(u)'
<1>1. TypeCounts /\ TypeStates /\ NewHasNone
  BY DEF ContextInv
<1>2. /\ nrefs' \in [Contexts -> Int]
      /\ \A d \in Contexts : d # c => nrefs'[d] = nrefs[d]
      /\ nrefs'[c] = nrefs[c] - n
  BY <1>1 DEF Unref, TypeCounts
<1>3. CASE nrefs[c] <= n
  <2>1. ctx' = [ctx EXCEPT ![c] = "deleted"] /\ tls' = TlsUnref(1, t)
    BY <1>3 DEF Unref, Delete
  <2>2. /\ ctx' \in [Contexts -> {"none", "ready", "failed", "deleted"}]
        /\ ctx'[c] = "deleted" /\ \A d \in Contexts : d # c => ctx'[d] = ctx[d]
    BY <1>1, <2>1 DEF TypeStates
  <2>3. NewHasNone'
    <3> SUFFICES ASSUME NEW j \in Interps, interp[j] = "new"
                 PROVE  ctx'[<<j, Base>>] = "none"
      BY DEF NewHasNone
    <3>1. <<j, Base>> \in Contexts /\ ctx[<<j, Base>>] = "none" /\ <<j, Base>> # c
      BY <1>1, Pairs DEF NewHasNone, Loaded
    <3> QED  BY <2>2, <3>1
  <2>4. tls' \in [Threads -> Nat]
    BY <1>1, <2>1 DEF TlsUnref, TypeCounts
  <2>5. ASSUME NEW u \in Threads
        PROVE  Used(u)'
    <3>1. /\ IsFiniteSet(ContextUsers(u)') /\ Cardinality(ContextUsers(u)') \in Nat
          /\ Cardinality(ContextUsers(u)) \in Nat
          /\ Cardinality(ContextUsers(u)') + One(Thread(c) = u) = Cardinality(ContextUsers(u))
      BY <2>1, DeletedIsUnused
    <3>2. /\ IsFiniteSet(InterpUsers(u)) /\ Cardinality(InterpUsers(u)) \in Nat
          /\ tls[u] \in Nat
          /\ tls[u] >= Cardinality(InterpUsers(u)) + Cardinality(ContextUsers(u))
      BY InterpUsersFinite
    <3>3. InterpUsers(u)' = InterpUsers(u)
      BY DEF InterpUsers
    <3>4. tls'[u] = IF u = t /\ tls[u] > 0 THEN tls[u] - 1 ELSE tls[u]
      BY <2>1 DEF TlsUnref
    <3>5. u = t => Thread(c) = u
      OBVIOUS
    <3>6. tls'[u] \in Nat
      BY <3>2, <3>4
    <3>7. tls'[u] >= Cardinality(InterpUsers(u)) + Cardinality(ContextUsers(u)')
      <4>1. CASE Thread(c) = u
        BY <3>1, <3>2, <3>4, <4>1 DEF One
      <4>2. CASE Thread(c) # u
        BY <3>1, <3>2, <3>4, <3>5, <4>2 DEF One
      <4> QED  BY <4>1, <4>2
    <3> QED  BY <3>1, <3>2, <3>3, <3>6, <3>7 DEF Used
  <2> QED  BY <1>2, <1>3, <2>2, <2>3, <2>4, <2>5
<1>4. CASE ~(nrefs[c] <= n)
  <2>1. ctx' = ctx /\ tls' = tls
    BY <1>4 DEF Unref
  <2>2. ASSUME NEW u \in Threads
        PROVE  Used(u)'
    <3>1. InterpUsers(u)' = InterpUsers(u) /\ ContextUsers(u)' = ContextUsers(u)
      BY <2>1 DEF InterpUsers, ContextUsers
    <3> QED  BY <2>1, <3>1 DEF ContextInv, Used
  <2>3. NewHasNone'
    BY <1>1, <2>1 DEF NewHasNone
  <2> QED  BY <1>1, <1>2, <1>4, <2>1, <2>2, <2>3 DEF TypeCounts, TypeStates
<1> QED  BY <1>3, <1>4

LEMMA ReleaseStep ==
  ASSUME ContextInv, NEW c \in Contexts, Release(c)
  PROVE  ContextInv'
<1>1. TypeCounts /\ TypeStates /\ \A d \in Contexts : Counted(d)
  BY DEF ContextInv
<1>2. PICK t \in {Thread(c), Pool} : Unref(c, 1, t)
  BY DEF Release
<1>3. /\ holders[c] > 0 /\ holders' = [holders EXCEPT ![c] = @ - 1]
      /\ interp' = interp /\ callback' = callback /\ attached' = attached
      /\ listed' = listed /\ finalizer' = finalizer /\ finalized' = finalized
  BY DEF Release
<1>4. /\ holders[c] \in Nat /\ nrefs[c] \in Int /\ ctx[c] = "ready"
      /\ nrefs[c] = holders[c] + One(c \in attached) + One(c \in attached)
  BY <1>1, <1>3, InterpAssumption DEF TypeCounts, TypeStates, Counted, InterpAssumption
<1>5. t \in Threads \union {Pool} /\ (t \in Threads => t = Thread(c))
  BY <1>2, Pairs, InterpAssumption DEF InterpAssumption
<1>6. /\ nrefs' \in [Contexts -> Int]
      /\ tls' \in [Threads -> Nat]
      /\ ctx' \in [Contexts -> {"none", "ready", "failed", "deleted"}]
      /\ \A d \in Contexts : d # c => ctx'[d] = ctx[d] /\ nrefs'[d] = nrefs[d]
      /\ nrefs'[c] = nrefs[c] - 1
      /\ ctx'[c] = IF nrefs[c] <= 1 THEN "deleted" ELSE ctx[c]
      /\ NewHasNone'
      /\ \A u \in Threads : Used(u)'
  BY <1>2, <1>3, <1>4, <1>5, UnrefKeeps DEF Loaded
<1>7. /\ holders'[c] = holders[c] - 1
      /\ \A d \in Contexts : d # c => holders'[d] = holders[d]
  BY <1>1, <1>3 DEF TypeCounts
<1>8. holders' \in [Contexts -> 0 .. MaxHolders]
  BY <1>1, <1>3, <1>7, InterpAssumption DEF TypeCounts, InterpAssumption
<1>9. TypeCounts'
  BY <1>6, <1>8 DEF TypeCounts
<1>10. TypeStates'
  BY <1>1, <1>3, <1>6 DEF TypeStates
<1>11. Counted(c)'
  <2>1. c \in listed' <=> c \in attached'
    BY <1>1, <1>3 DEF Counted
  <2>2. CASE c \in attached
    <3>1. nrefs[c] = holders[c] + 2 /\ nrefs'[c] = holders'[c] + 1 + 1 /\ nrefs'[c] > 0
      BY <1>3, <1>4, <1>6, <1>7, <2>2 DEF One
    <3>2. ctx'[c] = "ready"
      BY <1>3, <1>4, <1>6, <3>1
    <3> QED  BY <1>3, <2>1, <2>2, <3>1, <3>2 DEF Counted, One
  <2>3. CASE c \notin attached
    <3>1. nrefs[c] = holders[c] /\ nrefs'[c] = holders'[c]
      BY <1>4, <1>6, <1>7, <2>3 DEF One
    <3>2. ctx'[c] = IF holders'[c] = 0 THEN "deleted" ELSE "ready"
      BY <1>3, <1>4, <1>6, <1>7, <3>1
    <3>3. holders'[c] # 0 => nrefs'[c] > 0
      BY <1>3, <1>4, <1>7, <3>1
    <3>4. holders'[c] = holders'[c] + 0 + 0
      BY <1>4, <1>7
    <3> QED  BY <1>3, <2>1, <2>3, <3>1, <3>2, <3>3, <3>4 DEF Counted, One
  <2> QED  BY <2>2, <2>3
<1>12. ASSUME NEW d \in Contexts, d # c
       PROVE  Counted(d)'
  BY <1>1, <1>3, <1>6, <1>7, <1>12 DEF Counted
<1> QED  BY <1>6, <1>9, <1>10, <1>11, <1>12 DEF ContextInv

LEMMA ContextCleanupStep ==
  ASSUME ContextInv, NEW c \in Contexts, ContextCleanup(c)
  PROVE  ContextInv'
<1>1. TypeCounts /\ TypeStates /\ \A d \in Contexts : Counted(d)
  BY DEF ContextInv
<1>2. /\ c \in attached /\ Unref(c, 2, Thread(c))
      /\ attached' = attached \ {c} /\ listed' = listed \ {c}
      /\ holders' = holders /\ interp' = interp /\ callback' = callback
      /\ finalizer' \subseteq finalizer /\ finalized' \subseteq finalized \union {c}
  BY DEF ContextCleanup
<1>3. /\ ctx[c] \in Loaded /\ nrefs[c] \in Int /\ holders[c] \in Nat
      /\ ctx[c] = "ready" => nrefs[c] = holders[c] + 2
      /\ ctx[c] = "failed" => nrefs[c] = 1 /\ holders[c] = 0
  BY <1>1, <1>2, InterpAssumption DEF TypeCounts, TypeStates, Counted, One, Loaded, InterpAssumption
<1>4. /\ nrefs' \in [Contexts -> Int]
      /\ tls' \in [Threads -> Nat]
      /\ ctx' \in [Contexts -> {"none", "ready", "failed", "deleted"}]
      /\ \A d \in Contexts : d # c => ctx'[d] = ctx[d] /\ nrefs'[d] = nrefs[d]
      /\ nrefs'[c] = nrefs[c] - 2
      /\ ctx'[c] = IF nrefs[c] <= 2 THEN "deleted" ELSE ctx[c]
      /\ NewHasNone'
      /\ \A u \in Threads : Used(u)'
  BY <1>2, <1>3, Pairs, UnrefKeeps
<1>5. TypeCounts'
  BY <1>1, <1>2, <1>4 DEF TypeCounts
<1>6. TypeStates'
  BY <1>1, <1>2, <1>4 DEF TypeStates
<1>7. Counted(c)'
  <2>1. c \notin listed' /\ c \notin attached'
    BY <1>2
  <2>2. CASE nrefs[c] <= 2
    BY <1>2, <1>3, <1>4, <2>1, <2>2 DEF Counted, Loaded
  <2>3. CASE ~(nrefs[c] <= 2)
    <3>1. ctx[c] = "ready" /\ ctx'[c] = "ready" /\ nrefs'[c] = holders[c] /\ nrefs'[c] > 0
      BY <1>3, <1>4, <2>3 DEF Loaded
    <3>2. holders[c] = holders[c] + 0 + 0
      BY <1>3
    <3> QED  BY <1>2, <2>1, <3>1, <3>2 DEF Counted, One
  <2> QED  BY <2>2, <2>3
<1>8. ASSUME NEW d \in Contexts, d # c
      PROVE  Counted(d)'
  BY <1>1, <1>2, <1>4, <1>8 DEF Counted
<1> QED  BY <1>4, <1>5, <1>6, <1>7, <1>8 DEF ContextInv

-----------------------------------------------------------------------------
LEMMA HoldStep ==
  ASSUME ContextInv, "orphan" \notin Faults, NEW c \in Contexts, Hold(c)
  PROVE  ContextInv'
<1>1. TypeCounts /\ TypeStates /\ NewHasNone /\ \A d \in Contexts : Counted(d)
  BY DEF ContextInv
<1>2. /\ ctx[c] = "ready" /\ holders[c] < MaxHolders
      /\ holders' = [holders EXCEPT ![c] = @ + 1] /\ nrefs' = [nrefs EXCEPT ![c] = @ + 1]
      /\ interp' = interp /\ callback' = callback /\ ctx' = ctx /\ attached' = attached
      /\ listed' = listed /\ tls' = tls /\ finalizer' = finalizer /\ finalized' = finalized
  BY DEF Hold
<1>3. /\ DOMAIN nrefs' = Contexts /\ DOMAIN holders' = Contexts
      /\ nrefs'[c] = nrefs[c] + 1 /\ holders'[c] = holders[c] + 1
      /\ \A d \in Contexts : d # c => nrefs'[d] = nrefs[d] /\ holders'[d] = holders[d]
  BY <1>1, <1>2 DEF TypeCounts
<1>4. TypeCounts'
  BY <1>1, <1>2, <1>3, InterpAssumption DEF TypeCounts, InterpAssumption
<1>5. TypeStates' /\ NewHasNone'
  BY <1>1, <1>2 DEF TypeStates, NewHasNone
<1>6. Counted(c)'
  <2>1. /\ nrefs[c] = holders[c] + One(c \in attached) + One(c \in attached) /\ nrefs[c] > 0
        /\ nrefs[c] \in Int /\ holders[c] \in Int /\ One(c \in attached) \in Int
    BY <1>1, <1>2, InterpAssumption DEF Counted, TypeCounts, One, InterpAssumption
  <2>2. nrefs'[c] = holders'[c] + One(c \in attached) + One(c \in attached) /\ nrefs'[c] > 0
    BY <1>3, <2>1
  <2> QED  BY <1>1, <1>2, <2>2 DEF Counted
<1>7. ASSUME NEW d \in Contexts, d # c
      PROVE  Counted(d)'
  BY <1>1, <1>2, <1>3, <1>7 DEF Counted
<1>8. ASSUME NEW t \in Threads
      PROVE  Used(t)'
  <2>1. InterpUsers(t)' = InterpUsers(t) /\ ContextUsers(t)' = ContextUsers(t)
    BY <1>2 DEF InterpUsers, ContextUsers
  <2> QED  BY <1>2, <2>1 DEF ContextInv, Used
<1> QED  BY <1>4, <1>5, <1>6, <1>7, <1>8 DEF ContextInv

LEMMA InterpCleanupStep ==
  ASSUME ContextInv, NEW i \in Interps, InterpCleanup(i)
  PROVE  ContextInv'
<1>1. TypeCounts /\ TypeStates /\ NewHasNone /\ \A d \in Contexts : Counted(d)
  BY DEF ContextInv
<1>2. /\ i \in callback /\ callback' = callback \ {i} /\ tls' = TlsUnref(1, ThreadOf[i])
      /\ interp' = interp /\ ctx' = ctx /\ nrefs' = nrefs /\ attached' = attached
      /\ listed' = listed /\ finalizer' = finalizer /\ finalized' = finalized
      /\ holders' = holders
  BY DEF InterpCleanup
<1>3. ASSUME NEW t \in Threads
      PROVE  Used(t)'
  <2>1. /\ IsFiniteSet(InterpUsers(t)) /\ Cardinality(InterpUsers(t)) \in Nat
        /\ tls[t] \in Nat /\ Cardinality(ContextUsers(t)) \in Nat
        /\ tls[t] >= Cardinality(InterpUsers(t)) + Cardinality(ContextUsers(t))
    BY InterpUsersFinite
  <2>2. ContextUsers(t)' = ContextUsers(t) /\ IsFiniteSet(ContextUsers(t))
    BY <1>2 DEF ContextUsers, ContextInv, Used
  <2>3. InterpUsers(t)' = InterpUsers(t) \ {i} /\ (i \in InterpUsers(t) <=> ThreadOf[i] = t)
    BY <1>2 DEF InterpUsers
  <2>4. /\ IsFiniteSet(InterpUsers(t)')
        /\ Cardinality(InterpUsers(t)') =
              IF i \in InterpUsers(t) THEN Cardinality(InterpUsers(t)) - 1
              ELSE Cardinality(InterpUsers(t))
    BY <2>1, <2>3, FS_RemoveElement
  <2>5. tls'[t] = IF t = ThreadOf[i] /\ tls[t] > 0 THEN tls[t] - 1 ELSE tls[t]
    BY <1>2 DEF TlsUnref
  <2>6. tls'[t] \in Nat
    BY <2>1, <2>5
  <2>7. tls'[t] >= Cardinality(InterpUsers(t)') + Cardinality(ContextUsers(t))
    <3>1. CASE ThreadOf[i] = t
      BY <2>1, <2>3, <2>4, <2>5, <3>1
    <3>2. CASE ThreadOf[i] # t
      BY <2>1, <2>3, <2>4, <2>5, <3>2
    <3> QED  BY <3>1, <3>2
  <2> QED  BY <2>2, <2>4, <2>6, <2>7 DEF Used
<1>4. tls' \in [Threads -> Nat]
  BY <1>1, <1>2 DEF TlsUnref, TypeCounts
<1>5. TypeCounts'
  BY <1>1, <1>2, <1>4 DEF TypeCounts
<1>6. TypeStates' /\ NewHasNone'
  BY <1>1, <1>2 DEF TypeStates, NewHasNone
<1>7. \A d \in Contexts : Counted(d)'
  BY <1>1, <1>2 DEF Counted
<1> QED  BY <1>3, <1>5, <1>6, <1>7 DEF ContextInv

\* The deletion of an interpreter begins and ends.
LEMMA InterpKeeps ==
  ASSUME ContextInv, NEW i \in Interps, NEW x \in {"dying", "deleted"},
         interp' = [interp EXCEPT ![i] = x],
         UNCHANGED <<callback, ctx, nrefs, attached, listed, tls, finalizer, finalized, holders>>
  PROVE  ContextInv'
<1>1. TypeCounts' /\ TypeStates'
  BY DEF ContextInv, TypeCounts, TypeStates
<1>2. NewHasNone'
  BY DEF ContextInv, NewHasNone, TypeStates
<1>3. \A d \in Contexts : Counted(d)'
  BY DEF ContextInv, Counted
<1>4. \A t \in Threads : Used(t)'
  BY DEF ContextInv, Used, InterpUsers, ContextUsers
<1> QED  BY <1>1, <1>2, <1>3, <1>4 DEF ContextInv

LEMMA ContextStep ==
  ASSUME ContextInv, "orphan" \notin Faults, [Next]_vars
  PROVE  ContextInv'
<1>1. ASSUME NEW i \in Interps, LoadBase(i) PROVE ContextInv'
  BY <1>1, LoadBaseStep
<1>2. ASSUME NEW i \in Interps, DeleteInterp(i) PROVE ContextInv'
  BY <1>2, InterpKeeps DEF DeleteInterp
<1>3. ASSUME NEW i \in Interps, InterpCleanup(i) PROVE ContextInv'
  BY <1>3, InterpCleanupStep
<1>4. ASSUME NEW i \in Interps, InterpGone(i) PROVE ContextInv'
  BY <1>4, InterpKeeps DEF InterpGone
<1>5. ASSUME NEW i \in Interps, NEW m \in Modules, LoadModule(i, m) PROVE ContextInv'
  BY <1>5, LoadModuleStep
<1>6. ASSUME NEW c \in Contexts, Hold(c) PROVE ContextInv'
  BY <1>6, HoldStep
<1>7. ASSUME NEW c \in Contexts, Release(c) PROVE ContextInv'
  BY <1>7, ReleaseStep
<1>8. ASSUME NEW c \in Contexts, ContextCleanup(c) PROVE ContextInv'
  BY <1>8, ContextCleanupStep
<1>9. CASE UNCHANGED vars
  BY <1>9 DEF ContextInv, TypeCounts, TypeStates, NewHasNone, Counted, Used, InterpUsers,
              ContextUsers, vars
<1> QED  BY <1>1, <1>2, <1>3, <1>4, <1>5, <1>6, <1>7, <1>8, <1>9 DEF Next

-----------------------------------------------------------------------------
LEMMA InvImplies == ContextInv => TlsOutlivesUsers /\ DeletedWhenUnused
<1> SUFFICES ASSUME ContextInv PROVE TlsOutlivesUsers /\ DeletedWhenUnused
  OBVIOUS
<1>1. TypeCounts /\ TypeStates /\ (\A c \in Contexts : Counted(c)) /\ \A t \in Threads : Used(t)
  BY DEF ContextInv
<1>2. TypeOK
  BY <1>1 DEF TypeCounts, TypeStates, TypeOK, Names
<1>3. TlsOutlivesUsers
  BY <1>1, <1>2 DEF TlsOutlivesUsers, Used
<1>4. ASSUME NEW c \in Contexts, ctx[c] # "none"
      PROVE  ctx[c] = "deleted" <=> holders[c] = 0 /\ c \notin attached \union listed
  <2>1. Counted(c) /\ ctx[c] \in {"ready", "failed", "deleted"}
    BY <1>1, <1>4 DEF TypeStates
  <2>2. CASE ctx[c] = "deleted"
    BY <2>1, <2>2 DEF Counted
  <2>3. CASE ctx[c] = "ready"
    BY <2>1, <2>3 DEF Counted, One
  <2>4. CASE ctx[c] = "failed"
    BY <2>1, <2>4 DEF Counted
  <2> QED  BY <2>1, <2>2, <2>3, <2>4
<1> QED  BY <1>3, <1>4 DEF DeletedWhenUnused

\* For any interpreters, threads and modules, the local state of a thread counts at
\* least the interpreters and contexts that point to it, in whichever thread a
\* context is deleted, as long as no command of a module that failed to load is used.
THEOREM TlsIsHeld ==
  ASSUME "orphan" \notin Faults
  PROVE  Spec => []TlsOutlivesUsers
<1>1. Init => ContextInv
  BY ContextInvInit
<1>2. ContextInv /\ [Next]_vars => ContextInv'
  BY ContextStep
<1>3. ContextInv => TlsOutlivesUsers
  BY InvImplies
<1> QED  BY <1>1, <1>2, <1>3, PTL DEF Spec

\* Under the same assumption a context is deleted exactly when nothing holds it, its
\* interpreter has cleaned up and the list has let go of it.
THEOREM DeletedWithLastUser ==
  ASSUME "orphan" \notin Faults
  PROVE  Spec => []DeletedWhenUnused
<1>1. Init => ContextInv
  BY ContextInvInit
<1>2. ContextInv /\ [Next]_vars => ContextInv'
  BY ContextStep
<1>3. ContextInv => DeletedWhenUnused
  BY InvImplies
<1> QED  BY <1>1, <1>2, <1>3, PTL DEF Spec

-----------------------------------------------------------------------------
(* The LIFO pool: the invariant, mark by mark. *)

\* s is t or what t was before it grew
Starts(s, t) == Len(s) <= Len(t) /\ \A x \in 1 .. Len(s) : s[x] = t[x]

\* No element comes twice
Differ(s) == \A x, y \in 1 .. Len(s) : s[x] = s[y] => x = y

\* The chunks a mark reaches are held and are all different; it takes memory from
\* the last of those for small blocks.
Sound(h, m) ==
    /\ m.chunks # <<>> /\ Differ(m.chunks) /\ Differ(m.big)
    /\ ToSet(m.chunks) \cap ToSet(m.big) = {}
    /\ \A c \in ToSet(m.chunks) : h[c] # 0
    /\ \A c \in ToSet(m.big) : h[c] > HeaderSize
    /\ HeaderSize <= m.free /\ m.free <= h[Last(m.chunks)]

\* The mark as it was before its last block
Before(m) ==
    IF m.last = NoBlock THEN m
    ELSE IF IsBig(m) THEN [m EXCEPT !.big = Front(@)]
    ELSE [m EXCEPT !.free = m.last.from]

\* m takes memory behind everything that k has given out
Follows(k, m) ==
    /\ Starts(k.chunks, m.chunks) /\ Starts(k.big, m.big)
    /\ Last(k.chunks) = Last(m.chunks) => k.free <= m.free

\* What m reaches
Reach(m) == ToSet(m.chunks) \cup ToSet(m.big)

\* b lies in the memory that m has given out
Holds(h, m, b) ==
    /\ b.chunk \in Reach(m)
    /\ HeaderSize <= b.from /\ b.from + b.size <= h[b.chunk]
    /\ b.chunk = Last(m.chunks) => b.from + b.size <= m.free

\* b lies outside that memory
Clear(m, b) ==
    b.chunk \in Reach(m) => b.chunk = Last(m.chunks) /\ m.free <= b.from

\* The last block is the last thing in its chunk
Placed(h, m) ==
    m.last # NoBlock =>
        /\ HeaderSize <= m.last.from
        /\ IF IsBig(m) THEN m.last.from + m.last.size <= h[m.last.chunk]
           ELSE m.last.chunk = Last(m.chunks) /\ m.last.from + m.last.size = m.free

\* A mark m and the frame f of the blocks given out since
Level(h, m, f) ==
    /\ Sound(h, m) /\ Placed(h, m)
    /\ m.last = IF f = <<>> THEN NoBlock ELSE Last(f)
    /\ Holds(h, Before(m), m.at)
    /\ \A j \in 1 .. Len(f) - 1 : Holds(h, Before(m), f[j])
    /\ \A j \in 1 .. Len(f) : Promise!Apart(f[j], m.at)

\* The same with a mark k below
Above(k, m, f) ==
    /\ Follows(k, Before(m)) /\ Clear(k, m.at)
    /\ \A j \in 1 .. Len(f) : Clear(k, f[j])

\* Every mark with its frame, and every mark with each one below it
Levels(h, ms, fs) ==
    \A i \in 1 .. Len(ms) :
        /\ Level(h, ms[i], fs[i])
        /\ \A k \in 1 .. i - 1 : Above(ms[k], ms[i], fs[i])

\* The heap has what m reaches, and no more
Exact(h, m) == {c \in Chunks : h[c] # 0} = Reach(m)

\* The marks of a pool from the bottom one to the topmost, on the heap h
Tower(h, ms, fs) ==
    /\ h \in [Chunks -> Nat] /\ ms \in Seq(Marks) /\ fs \in Seq(Seq(Blocks))
    /\ Len(ms) = Len(fs) /\ Levels(h, ms, fs)

\* The invariant, until a resize that is excessive is granted; popping a mark that is
\* not the topmost forgets the chunks of those above it, so that afterwards the heap may
\* have more than the pool
LifoInv ==
    /\ Tower(heap, marks, frames) /\ skipped \in BOOLEAN
    /\ marks # <<>> /\ ~skipped => Exact(heap, Last(marks))

-----------------------------------------------------------------------------
(* Sequences. *)

LEMMA FrontIs ==
  ASSUME NEW S, NEW s \in Seq(S), s # <<>>
  PROVE  /\ Len(s) \in Nat /\ Len(s) >= 1 /\ Last(s) \in S /\ Last(s) = s[Len(s)]
         /\ Front(s) \in Seq(S) /\ Len(Front(s)) = Len(s) - 1
         /\ \A x \in 1 .. Len(s) - 1 : Front(s)[x] = s[x]
<1>1. Len(s) \in Nat /\ Len(s) >= 1
  BY EmptySeq, LenProperties
<1>2. 1 \in 1 .. Len(s) + 1 /\ Len(s) - 1 \in 0 .. Len(s) /\ Len(s) \in 1 .. Len(s)
  BY <1>1
<1>3. s[Len(s)] \in S
  BY <1>2, ElementOfSeq
<1>4. /\ SubSeq(s, 1, Len(s) - 1) \in Seq(S)
      /\ Len(SubSeq(s, 1, Len(s) - 1)) = Len(s) - 1
      /\ \A x \in 1 .. Len(s) - 1 : SubSeq(s, 1, Len(s) - 1)[x] = s[x]
  <2>1. \A x \in 1 .. Len(s) - 1 : x \in 1 .. Len(s)
    BY <1>1
  <2>2. \A x \in 1 .. Len(s) - 1 : s[x] \in S
    BY <2>1, ElementOfSeq
  <2>3. /\ SubSeq(s, 1, Len(s) - 1) \in Seq(S)
        /\ Len(SubSeq(s, 1, Len(s) - 1)) =
              IF 1 <= Len(s) - 1 THEN (Len(s) - 1) - 1 + 1 ELSE 0
        /\ \A x \in 1 .. (Len(s) - 1) - 1 + 1 : SubSeq(s, 1, Len(s) - 1)[x] = s[1 + x - 1]
    <3> DEFINE n == Len(s) - 1
    <3>1. n \in Int /\ 1 \in Int /\ \A x \in 1 .. n : s[x] \in S
      BY <1>1, <2>2
    <3> HIDE DEF n
    <3>2. /\ SubSeq(s, 1, n) \in Seq(S)
          /\ Len(SubSeq(s, 1, n)) = IF 1 <= n THEN n - 1 + 1 ELSE 0
          /\ \A x \in 1 .. n - 1 + 1 : SubSeq(s, 1, n)[x] = s[1 + x - 1]
      BY <3>1, SubSeqProperties
    <3> QED  BY <3>2 DEF n
  <2>4. (Len(s) - 1) - 1 + 1 = Len(s) - 1 /\ \A x \in 1 .. Len(s) - 1 : 1 + x - 1 = x
    BY <1>1
  <2> QED  BY <1>1, <2>3, <2>4
<1> QED  BY <1>1, <1>3, <1>4 DEF Front, Last

LEMMA AppendIs ==
  ASSUME NEW S, NEW s \in Seq(S), NEW e \in S
  PROVE  LET t == Append(s, e) IN
         /\ t \in Seq(S) /\ t # <<>> /\ Len(s) \in Nat /\ Len(t) = Len(s) + 1
         /\ t[Len(t)] = e /\ Last(t) = e
         /\ \A x \in 1 .. Len(s) : t[x] = s[x]
<1>1. Len(s) \in Nat /\ Append(s, e) \in Seq(S) /\ Len(Append(s, e)) = Len(s) + 1
  BY AppendProperties, LenProperties
<1>2. Append(s, e) # <<>>
  BY <1>1, EmptySeq
<1> QED  BY <1>1, <1>2, AppendProperties DEF Last

LEMMA ReplaceIs ==
  ASSUME NEW S, NEW s \in Seq(S), s # <<>>, NEW e \in S
  PROVE  LET t == Replace(s, e) IN
         /\ t \in Seq(S) /\ t # <<>> /\ Len(s) \in Nat /\ Len(s) >= 1 /\ Len(t) = Len(s)
         /\ t[Len(s)] = e /\ Last(t) = e
         /\ \A x \in 1 .. Len(s) - 1 : t[x] = s[x]
<1> DEFINE f == Front(s)
           t == Append(f, e)
<1>1. /\ f \in Seq(S) /\ Len(f) = Len(s) - 1 /\ Len(s) \in Nat /\ Len(s) >= 1
      /\ \A x \in 1 .. Len(s) - 1 : f[x] = s[x]
  BY FrontIs
<1> HIDE DEF f
<1>2. /\ t \in Seq(S) /\ t # <<>> /\ Len(t) = Len(f) + 1
      /\ t[Len(t)] = e /\ Last(t) = e
      /\ \A x \in 1 .. Len(f) : t[x] = f[x]
  BY <1>1, AppendIs
<1> HIDE DEF t
<1>3. Len(t) = Len(s)
  BY <1>1, <1>2
<1>4. \A x \in 1 .. Len(s) - 1 : t[x] = s[x]
  BY <1>1, <1>2
<1> QED  BY <1>1, <1>2, <1>3, <1>4 DEF Replace, f, t

\* A sequence put together anew from its front
LEMMA FrontAppendIs ==
  ASSUME NEW S, NEW s \in Seq(S), s # <<>>, NEW e \in S
  PROVE  Replace(s, e) = [s EXCEPT ![Len(s)] = e]
<1> DEFINE t == Replace(s, e)
           u == [s EXCEPT ![Len(s)] = e]
<1>1. /\ t \in Seq(S) /\ Len(s) \in Nat /\ Len(s) >= 1 /\ Len(t) = Len(s)
      /\ t[Len(s)] = e /\ \A x \in 1 .. Len(s) - 1 : t[x] = s[x]
  BY ReplaceIs
<1>2. DOMAIN s = 1 .. Len(s)
  BY LenProperties
<1>3. u \in Seq(S) /\ Len(u) = Len(s)
  BY <1>1, <1>2, ExceptSeq
<1>4. u[Len(s)] = e /\ \A x \in 1 .. Len(s) - 1 : u[x] = s[x]
  BY <1>1, <1>2
<1> HIDE DEF t, u
<1>5. \A x \in 1 .. Len(t) : t[x] = u[x]
  <2> TAKE x \in 1 .. Len(t)
  <2>1. x = Len(s) \/ x \in 1 .. Len(s) - 1
    BY <1>1
  <2> QED  BY <2>1, <1>1, <1>4
<1>6. t = u
  BY <1>1, <1>3, <1>5, SeqEqual
<1> QED  BY <1>6 DEF t, u

\* What is in a sequence
LEMMA ToSetIs ==
  ASSUME NEW S, NEW s \in Seq(S)
  PROVE  /\ \A c : c \in ToSet(s) <=> \E x \in 1 .. Len(s) : s[x] = c
         /\ ToSet(s) \subseteq S
<1>1. DOMAIN s = 1 .. Len(s)
  BY LenProperties
<1>2. \A c : c \in ToSet(s) <=> \E x \in 1 .. Len(s) : s[x] = c
  BY <1>1 DEF ToSet
<1> QED  BY <1>2, ElementOfSeq

LEMMA ToSetAppend ==
  ASSUME NEW S, NEW s \in Seq(S), NEW e \in S
  PROVE  ToSet(Append(s, e)) = ToSet(s) \cup {e}
<1> DEFINE t == Append(s, e)
<1>1. /\ t \in Seq(S) /\ Len(s) \in Nat /\ Len(t) = Len(s) + 1 /\ t[Len(t)] = e
      /\ \A x \in 1 .. Len(s) : t[x] = s[x]
  BY AppendIs
<1> HIDE DEF t
<1>2. ASSUME NEW c \in ToSet(t)
      PROVE  c \in ToSet(s) \cup {e}
  <2>1. PICK x \in 1 .. Len(t) : t[x] = c
    BY <1>1, ToSetIs
  <2>2. x = Len(t) \/ x \in 1 .. Len(s)
    BY <1>1
  <2> QED  BY <1>1, <2>1, <2>2, ToSetIs
<1>3. ASSUME NEW c \in ToSet(s)
      PROVE  c \in ToSet(t)
  <2>1. PICK x \in 1 .. Len(s) : s[x] = c
    BY ToSetIs
  <2>2. x \in 1 .. Len(t) /\ t[x] = c
    BY <1>1, <2>1
  <2> QED  BY <1>1, <2>2, ToSetIs
<1>4. e \in ToSet(t)
  <2>1. Len(t) \in 1 .. Len(t) /\ t[Len(t)] = e
    BY <1>1
  <2> QED  BY <1>1, <2>1, ToSetIs
<1> QED  BY <1>2, <1>3, <1>4 DEF t

LEMMA DifferAppend ==
  ASSUME NEW S, NEW s \in Seq(S), NEW e \in S, Differ(s), e \notin ToSet(s)
  PROVE  Differ(Append(s, e))
<1> DEFINE t == Append(s, e)
<1>1. /\ t \in Seq(S) /\ Len(s) \in Nat /\ Len(t) = Len(s) + 1 /\ t[Len(t)] = e
      /\ \A x \in 1 .. Len(s) : t[x] = s[x]
  BY AppendIs
<1>2. \A x \in 1 .. Len(s) : s[x] # e
  BY ToSetIs
<1> HIDE DEF t
<1>3. ASSUME NEW x \in 1 .. Len(t), NEW y \in 1 .. Len(t), t[x] = t[y]
      PROVE  x = y
  <2>1. (x = Len(t) \/ x \in 1 .. Len(s)) /\ (y = Len(t) \/ y \in 1 .. Len(s))
    BY <1>1
  <2> QED  BY <1>1, <1>2, <1>3, <2>1 DEF Differ
<1> QED  BY <1>3 DEF Differ, t

LEMMA LastIn ==
  ASSUME NEW S, NEW s \in Seq(S), s # <<>>
  PROVE  Last(s) \in ToSet(s)
<1>1. Len(s) \in Nat /\ Len(s) >= 1 /\ Last(s) = s[Len(s)]
  BY FrontIs
<1>2. Len(s) \in 1 .. Len(s)
  BY <1>1
<1> QED  BY <1>1, <1>2, ToSetIs

LEMMA FrontSet ==
  ASSUME NEW S, NEW s \in Seq(S), s # <<>>, Differ(s)
  PROVE  /\ Differ(Front(s)) /\ Last(s) \in ToSet(s)
         /\ ToSet(Front(s)) = ToSet(s) \ {Last(s)}
<1> DEFINE f == Front(s)
<1>1. /\ Len(s) \in Nat /\ Len(s) >= 1 /\ Last(s) = s[Len(s)]
      /\ f \in Seq(S) /\ Len(f) = Len(s) - 1
      /\ \A x \in 1 .. Len(s) - 1 : f[x] = s[x]
  BY FrontIs
<1> HIDE DEF f
<1>2. Last(s) \in ToSet(s)
  <2>1. Len(s) \in 1 .. Len(s)
    BY <1>1
  <2> QED  BY <1>1, <2>1, ToSetIs
<1>3. ASSUME NEW x \in 1 .. Len(f), NEW y \in 1 .. Len(f), f[x] = f[y]
      PROVE  x = y
  <2>1. x \in 1 .. Len(s) /\ y \in 1 .. Len(s) /\ s[x] = s[y]
    BY <1>1, <1>3
  <2> QED  BY <2>1 DEF Differ
<1>4. ASSUME NEW c \in ToSet(f)
      PROVE  c \in ToSet(s) /\ c # Last(s)
  <2>1. PICK x \in 1 .. Len(f) : f[x] = c
    BY <1>1, ToSetIs
  <2>2. x \in 1 .. Len(s) /\ x # Len(s) /\ Len(s) \in 1 .. Len(s) /\ s[x] = c
    BY <1>1, <2>1
  <2> QED  BY <1>1, <2>2, ToSetIs DEF Differ
<1>5. ASSUME NEW c \in ToSet(s), c # Last(s)
      PROVE  c \in ToSet(f)
  <2>1. PICK x \in 1 .. Len(s) : s[x] = c
    BY ToSetIs
  <2>2. x \in 1 .. Len(f) /\ f[x] = c
    BY <1>1, <1>5, <2>1
  <2> QED  BY <1>1, <2>2, ToSetIs
<1> QED  BY <1>2, <1>3, <1>4, <1>5 DEF Differ, f

LEMMA StartsSet ==
  ASSUME NEW S, NEW s \in Seq(S), NEW t \in Seq(S), Starts(s, t)
  PROVE  ToSet(s) \subseteq ToSet(t)
<1>0. Len(s) \in Nat /\ Len(t) \in Nat
  BY LenProperties
<1> SUFFICES ASSUME NEW c \in ToSet(s) PROVE c \in ToSet(t)
  OBVIOUS
<1>1. PICK x \in 1 .. Len(s) : s[x] = c
  BY ToSetIs
<1>2. x \in 1 .. Len(t) /\ t[x] = c
  BY <1>0, <1>1 DEF Starts
<1> QED  BY <1>2, ToSetIs

\* The last of the longer one is in the shorter one only if they are the same
LEMMA StartsLast ==
  ASSUME NEW S, NEW s \in Seq(S), NEW t \in Seq(S), Starts(s, t), Differ(t),
         t # <<>>, Last(t) \in ToSet(s)
  PROVE  s = t
<1>0. Len(s) \in Nat /\ Len(t) \in Nat /\ Len(t) >= 1 /\ Last(t) = t[Len(t)]
  BY FrontIs, LenProperties
<1>1. PICK x \in 1 .. Len(s) : s[x] = Last(t)
  BY ToSetIs
<1>2. x \in 1 .. Len(t) /\ Len(t) \in 1 .. Len(t) /\ t[x] = t[Len(t)]
  BY <1>0, <1>1 DEF Starts
<1>3. x = Len(t)
  BY <1>2 DEF Differ
<1>4. Len(s) = Len(t) /\ \A y \in 1 .. Len(s) : s[y] = t[y]
  BY <1>0, <1>1, <1>3 DEF Starts
<1> QED  BY <1>4, SeqEqual

LEMMA StartsIs ==
  ASSUME NEW S, NEW s \in Seq(S)
  PROVE  /\ Starts(s, s)
         /\ s # <<>> => Starts(Front(s), s)
         /\ \A e \in S : Starts(s, Append(s, e))
         /\ \A t \in Seq(S), u \in Seq(S) : Starts(s, t) /\ Starts(t, u) => Starts(s, u)
<1>0. Len(s) \in Nat
  BY LenProperties
<1>1. Starts(s, s)
  BY <1>0 DEF Starts
<1>2. ASSUME s # <<>>
      PROVE  Starts(Front(s), s)
  BY <1>2, FrontIs DEF Starts
<1>3. ASSUME NEW e \in S
      PROVE  Starts(s, Append(s, e))
  <2>1. /\ Len(Append(s, e)) = Len(s) + 1
        /\ \A x \in 1 .. Len(s) : Append(s, e)[x] = s[x]
    BY AppendIs
  <2> QED  BY <1>0, <2>1 DEF Starts
<1>4. ASSUME NEW t \in Seq(S), NEW u \in Seq(S), Starts(s, t), Starts(t, u)
      PROVE  Starts(s, u)
  <2>1. Len(t) \in Nat /\ Len(u) \in Nat
    BY LenProperties
  <2> QED  BY <1>0, <1>4, <2>1 DEF Starts
<1> QED  BY <1>1, <1>2, <1>3, <1>4

\* A sequence and one more
LEMMA OneMoreIs ==
  ASSUME NEW S, NEW s \in Seq(S), NEW e \in S, Differ(s), e \notin ToSet(s)
  PROVE  LET t == Append(s, e) IN
         /\ t \in Seq(S) /\ t # <<>> /\ Last(t) = e
         /\ ToSet(t) = ToSet(s) \cup {e} /\ Differ(t)
         /\ Starts(s, t) /\ Starts(s, Front(t))
<1> DEFINE t == Append(s, e)
           f == Front(t)
<1>1. /\ t \in Seq(S) /\ t # <<>> /\ Len(s) \in Nat /\ Len(t) = Len(s) + 1 /\ Last(t) = e
      /\ \A x \in 1 .. Len(s) : t[x] = s[x]
  BY AppendIs
<1>2. ToSet(t) = ToSet(s) \cup {e}
  BY ToSetAppend
<1>3. Differ(t)
  BY DifferAppend
<1>4. Starts(s, t)
  BY <1>1 DEF Starts
<1> HIDE DEF t
<1>5. Len(f) = Len(t) - 1 /\ \A x \in 1 .. Len(t) - 1 : f[x] = t[x]
  BY <1>1, FrontIs
<1> HIDE DEF f
<1>6. Starts(s, f)
  BY <1>1, <1>5 DEF Starts
<1> QED  BY <1>1, <1>2, <1>3, <1>4, <1>6 DEF f, t

LEMMA MarkTypes ==
  ASSUME NEW m \in Marks
  PROVE  /\ m.chunks \in Seq(Chunks) /\ m.big \in Seq(Chunks) /\ m.free \in Nat
         /\ m.last \in Blocks \cup {NoBlock} /\ m.at \in Blocks
         /\ Reach(m) \subseteq Chunks
<1>1. /\ m.chunks \in Seq(Chunks) /\ m.big \in Seq(Chunks) /\ m.free \in Nat
      /\ m.last \in Blocks \cup {NoBlock} /\ m.at \in Blocks
  BY DEF Marks
<1> QED  BY <1>1, ToSetIs DEF Reach

LEMMA BlockTypes ==
  ASSUME NEW b \in Blocks
  PROVE  b.chunk \in Chunks /\ b.from \in Nat /\ b.size \in Nat /\ b # NoBlock
<1>1. b.chunk \in Chunks /\ b.from \in Nat /\ b.size \in Nat
  BY DEF Blocks
<1>2. NoBlock.chunk = "none"
  BY DEF NoBlock
<1> QED  BY <1>1, <1>2, SizesAssumption

\* The chunk that small blocks come from
LEMMA LastChunk ==
  ASSUME NEW h \in [Chunks -> Nat], NEW m \in Marks, Sound(h, m)
  PROVE  /\ Last(m.chunks) \in ToSet(m.chunks) /\ Last(m.chunks) \in Chunks
         /\ Last(m.chunks) \notin ToSet(m.big) /\ h[Last(m.chunks)] \in Nat
<1>1. m.chunks \in Seq(Chunks) /\ m.chunks # <<>> /\ Differ(m.chunks)
  BY MarkTypes DEF Sound
<1>2. Last(m.chunks) \in ToSet(m.chunks) /\ Last(m.chunks) \in Chunks
  BY <1>1, FrontSet, FrontIs
<1> QED  BY <1>2 DEF Sound

-----------------------------------------------------------------------------
(* What the relations of marks and blocks are good for. *)

LEMMA FollowsSelf ==
  ASSUME NEW m \in Marks
  PROVE  Follows(m, m)
  BY MarkTypes, StartsIs DEF Follows

LEMMA FollowsReach ==
  ASSUME NEW k \in Marks, NEW m \in Marks, Follows(k, m)
  PROVE  /\ ToSet(k.chunks) \subseteq ToSet(m.chunks) /\ ToSet(k.big) \subseteq ToSet(m.big)
         /\ Reach(k) \subseteq Reach(m)
<1>1. ToSet(k.chunks) \subseteq ToSet(m.chunks) /\ ToSet(k.big) \subseteq ToSet(m.big)
  BY MarkTypes, StartsSet DEF Follows
<1> QED  BY <1>1 DEF Reach

\* The last chunk of m is one of k only if it is the last there
LEMMA FollowsLast ==
  ASSUME NEW h \in [Chunks -> Nat], NEW k \in Marks, NEW m \in Marks, Follows(k, m),
         Sound(h, m), Last(m.chunks) \in Reach(k)
  PROVE  Last(k.chunks) = Last(m.chunks) /\ k.free <= m.free
<1>1. Last(m.chunks) \in ToSet(k.chunks)
  BY FollowsReach, LastChunk DEF Reach
<1>2. k.chunks = m.chunks
  BY <1>1, MarkTypes, StartsLast DEF Follows, Sound
<1> QED  BY <1>2 DEF Follows

LEMMA FollowsTransitive ==
  ASSUME NEW h \in [Chunks -> Nat], NEW k \in Marks, NEW m \in Marks, NEW n \in Marks,
         Follows(k, m), Follows(m, n), Sound(h, n), k.chunks # <<>>
  PROVE  Follows(k, n)
<1>1. k.free \in Nat /\ m.free \in Nat /\ n.free \in Nat
  BY MarkTypes
<1>2. Starts(k.chunks, n.chunks)
  BY MarkTypes, StartsIs DEF Follows
<1>3. Starts(k.big, n.big)
  BY MarkTypes, StartsIs DEF Follows
<1>4. ASSUME Last(k.chunks) = Last(n.chunks)
      PROVE  k.free <= n.free
  <2>1. Last(k.chunks) \in ToSet(k.chunks)
    BY MarkTypes, LastIn
  <2>2. Last(n.chunks) \in Reach(m)
    BY <1>4, <2>1, FollowsReach DEF Reach
  <2>3. Last(m.chunks) = Last(n.chunks) /\ m.free <= n.free
    BY <2>2, FollowsLast
  <2>4. k.free <= m.free
    BY <1>4, <2>3 DEF Follows
  <2> QED  BY <1>1, <2>3, <2>4
<1> QED  BY <1>2, <1>3, <1>4 DEF Follows

\* What a mark holds is held by those that follow
LEMMA HeldLater ==
  ASSUME NEW h \in [Chunks -> Nat], NEW k \in Marks, NEW m \in Marks, NEW b \in Blocks,
         Follows(k, m), Sound(h, m), Holds(h, k, b)
  PROVE  Holds(h, m, b)
<1>1. k.free \in Nat /\ m.free \in Nat /\ b.from + b.size \in Nat
  BY MarkTypes, BlockTypes
<1>2. b.chunk \in Reach(m)
  BY FollowsReach DEF Holds
<1>3. ASSUME b.chunk = Last(m.chunks)
      PROVE  b.from + b.size <= m.free
  <2>1. Last(k.chunks) = Last(m.chunks) /\ k.free <= m.free
    BY <1>3, FollowsLast DEF Holds
  <2>2. b.from + b.size <= k.free
    BY <1>3, <2>1 DEF Holds
  <2> QED  BY <1>1, <2>1, <2>2
<1> QED  BY <1>2, <1>3 DEF Holds

\* What is clear of a mark is clear of those it follows
LEMMA ClearEarlier ==
  ASSUME NEW h \in [Chunks -> Nat], NEW k \in Marks, NEW m \in Marks, NEW b \in Blocks,
         Follows(k, m), Sound(h, m), Clear(m, b)
  PROVE  Clear(k, b)
<1>1. k.free \in Nat /\ m.free \in Nat /\ b.from \in Nat
  BY MarkTypes, BlockTypes
<1>2. ASSUME b.chunk \in Reach(k)
      PROVE  b.chunk = Last(k.chunks) /\ k.free <= b.from
  <2>1. b.chunk = Last(m.chunks) /\ m.free <= b.from
    BY <1>2, FollowsReach DEF Clear
  <2>2. Last(k.chunks) = Last(m.chunks) /\ k.free <= m.free
    BY <1>2, <2>1, FollowsLast
  <2> QED  BY <1>1, <2>1, <2>2
<1> QED  BY <1>2 DEF Clear

\* The two do not overlap
LEMMA ApartIs ==
  ASSUME NEW h, NEW m \in Marks, NEW b \in Blocks, NEW d \in Blocks,
         Holds(h, m, d), Clear(m, b)
  PROVE  Promise!Apart(b, d) /\ Promise!Apart(d, b)
<1>1. /\ m.free \in Nat /\ b.from \in Nat /\ d.from \in Nat
      /\ b.size \in Nat /\ d.size \in Nat
  BY MarkTypes, BlockTypes
<1>2. ASSUME b.chunk = d.chunk
      PROVE  d.from + d.size <= b.from
  <2>1. d.from + d.size <= m.free /\ m.free <= b.from
    BY <1>2 DEF Holds, Clear
  <2> QED  BY <1>1, <2>1
<1> QED  BY <1>2 DEF Promise!Apart

\* What a change of the heap elsewhere leaves
Same(h, g, m) == \A c \in Reach(m) : g[c] = h[c]

LEMMA SameEarlier ==
  ASSUME NEW h, NEW g, NEW k \in Marks, NEW m \in Marks, Follows(k, m), Same(h, g, m)
  PROVE  Same(h, g, k)
  BY FollowsReach DEF Same

LEMMA SoundSame ==
  ASSUME NEW h \in [Chunks -> Nat], NEW g, NEW m \in Marks, Same(h, g, m), Sound(h, m)
  PROVE  Sound(g, m)
<1>1. Last(m.chunks) \in Reach(m)
  BY LastChunk DEF Reach
<1> QED  BY <1>1 DEF Same, Sound, Reach

LEMMA HeldSame ==
  ASSUME NEW h, NEW g, NEW m, NEW b, Same(h, g, m), Holds(h, m, b)
  PROVE  Holds(g, m, b)
  BY DEF Same, Holds

-----------------------------------------------------------------------------
(* The mark before its last block. *)

LEMMA BeforeFree ==
  ASSUME NEW m \in Marks, NEW n \in Nat
  PROVE  LET b == [m EXCEPT !.free = n] IN
         /\ b \in Marks /\ b.chunks = m.chunks /\ b.big = m.big /\ b.free = n
         /\ b.last = m.last /\ b.at = m.at
<1>1. [m EXCEPT !.free = n] \in Marks
  BY Zenon DEF Marks
<1> QED  BY <1>1 DEF Marks

LEMMA BeforeBig ==
  ASSUME NEW m \in Marks, NEW s \in Seq(Chunks)
  PROVE  LET b == [m EXCEPT !.big = s] IN
         /\ b \in Marks /\ b.chunks = m.chunks /\ b.big = s /\ b.free = m.free
         /\ b.last = m.last /\ b.at = m.at
<1>1. [m EXCEPT !.big = s] \in Marks
  BY Zenon DEF Marks
<1> QED  BY <1>1 DEF Marks

LEMMA BeforeNone ==
  ASSUME NEW m, m.last = NoBlock
  PROVE  Before(m) = m
  BY DEF Before

LEMMA BeforeIsBig ==
  ASSUME NEW m \in Marks, m.last # NoBlock, IsBig(m)
  PROVE  LET b == Before(m) IN
         /\ b \in Marks /\ b.chunks = m.chunks /\ b.big = Front(m.big) /\ b.free = m.free
         /\ b.at = m.at
<1>1. Front(m.big) \in Seq(Chunks)
  BY MarkTypes, FrontIs DEF IsBig
<1>2. Before(m) = [m EXCEPT !.big = Front(m.big)]
  BY DEF Before
<1> QED  BY <1>1, <1>2, BeforeBig

LEMMA BeforeIsSmall ==
  ASSUME NEW m \in Marks, m.last # NoBlock, ~IsBig(m)
  PROVE  LET b == Before(m) IN
         /\ b \in Marks /\ b.chunks = m.chunks /\ b.big = m.big /\ b.free = m.last.from
         /\ b.at = m.at
<1>1. m.last.from \in Nat
  BY MarkTypes, BlockTypes
<1>2. Before(m) = [m EXCEPT !.free = m.last.from]
  BY DEF Before
<1> QED  BY <1>1, <1>2, BeforeFree

LEMMA BeforeIs ==
  ASSUME NEW h \in [Chunks -> Nat], NEW m \in Marks, Sound(h, m), Placed(h, m)
  PROVE  LET b == Before(m) IN
         /\ b \in Marks /\ b.at = m.at /\ Sound(h, b) /\ Follows(b, m)
         /\ m.last # NoBlock => Clear(b, m.last) /\ Holds(h, m, m.last)
<1> DEFINE b == Before(m)
<1>t. /\ m.chunks \in Seq(Chunks) /\ m.big \in Seq(Chunks) /\ m.free \in Nat
      /\ Last(m.chunks) \in ToSet(m.chunks) /\ Last(m.chunks) \in Chunks
      /\ Last(m.chunks) \notin ToSet(m.big) /\ h[Last(m.chunks)] \in Nat
  BY MarkTypes, LastChunk
<1>1. CASE m.last = NoBlock
  BY <1>1, BeforeNone, FollowsSelf
<1>2. CASE m.last # NoBlock /\ IsBig(m)
  <2>1. /\ m.last.chunk \in Chunks /\ m.last.from \in Nat /\ m.last.size \in Nat
        /\ m.last.from + m.last.size <= h[m.last.chunk] /\ HeaderSize <= m.last.from
    BY <1>2, MarkTypes, BlockTypes DEF Placed
  <2>2. /\ b \in Marks /\ b.chunks = m.chunks /\ b.big = Front(m.big) /\ b.free = m.free
        /\ b.at = m.at
    BY <1>2, BeforeIsBig
  <2> HIDE DEF b
  <2>3. /\ m.last.chunk = Last(m.big) /\ Last(m.big) \in ToSet(m.big)
        /\ ToSet(b.big) = ToSet(m.big) \ {Last(m.big)} /\ Differ(b.big)
    BY <1>2, <1>t, <2>2, FrontSet DEF IsBig, Sound
  <2>4. Sound(h, b)
    BY <2>2, <2>3 DEF Sound
  <2>5. Follows(b, m)
    BY <1>2, <1>t, <2>2, StartsIs DEF Follows, IsBig
  <2>6. Clear(b, m.last)
    BY <2>2, <2>3 DEF Clear, Reach, Sound
  <2>7. Holds(h, m, m.last)
    BY <1>t, <2>1, <2>3 DEF Holds, Reach
  <2> QED  BY <2>2, <2>4, <2>5, <2>6, <2>7 DEF b
<1>3. CASE m.last # NoBlock /\ ~IsBig(m)
  <2>1. /\ m.last.chunk \in Chunks /\ m.last.from \in Nat /\ m.last.size \in Nat
        /\ m.last.chunk = Last(m.chunks) /\ HeaderSize <= m.last.from
        /\ m.last.from + m.last.size = m.free
    BY <1>3, <1>t, MarkTypes, BlockTypes DEF Placed
  <2>2. /\ b \in Marks /\ b.chunks = m.chunks /\ b.big = m.big /\ b.free = m.last.from
        /\ b.at = m.at
    BY <1>3, BeforeIsSmall
  <2> HIDE DEF b
  <2>h. m.free <= h[Last(m.chunks)]
    BY DEF Sound
  <2>3. HeaderSize <= b.free /\ b.free <= h[Last(b.chunks)]
    BY <1>t, <2>1, <2>2, <2>h
  <2>4. Sound(h, b)
    BY <2>2, <2>3 DEF Sound
  <2>5. Follows(b, m)
    <3>1. b.free <= m.free
      BY <1>t, <2>1, <2>2
    <3> QED  BY <1>t, <2>2, <3>1, StartsIs DEF Follows
  <2>6. Clear(b, m.last)
    BY <2>1, <2>2 DEF Clear
  <2>7. Holds(h, m, m.last)
    BY <1>t, <2>1, <2>h DEF Holds, Reach
  <2> QED  BY <2>2, <2>4, <2>5, <2>6, <2>7 DEF b
<1> QED  BY <1>1, <1>2, <1>3

-----------------------------------------------------------------------------
(* The outcomes of taking and of resizing a block. *)

\* r is the outcome of giving out a block behind what b holds, b being m or m as it
\* was before its last block
Gives(h, b, m, r) ==
    /\ r.heap \in [Chunks -> Nat] /\ r.mark \in Marks /\ r.block \in Blocks
    /\ r.mark.last = r.block /\ r.mark.at = b.at
    /\ Same(h, r.heap, b)
    /\ Sound(r.heap, r.mark) /\ Placed(r.heap, r.mark)
    /\ Follows(b, Before(r.mark)) /\ Clear(b, r.block)
    /\ Exact(h, m) => Exact(r.heap, r.mark)

\* The block comes from the chunk in use
LEMMA GivesHere ==
  ASSUME NEW h \in [Chunks -> Nat], NEW b \in Marks, NEW m \in Marks, NEW r,
         Sound(h, b), Reach(b) = Reach(m),
         r.heap = h, r.mark \in Marks, r.block \in Blocks,
         r.mark.chunks = b.chunks, r.mark.big = b.big, r.mark.at = b.at,
         r.mark.last = r.block, r.block.chunk = Last(b.chunks), r.block.from = b.free,
         r.mark.free = b.free + r.block.size, r.mark.free <= h[Last(b.chunks)]
  PROVE  Gives(h, b, m, r)
<1> DEFINE n == r.mark
           k == r.block
<1>t. /\ b.chunks \in Seq(Chunks) /\ b.big \in Seq(Chunks) /\ b.free \in Nat
      /\ k.from \in Nat /\ k.size \in Nat /\ k # NoBlock /\ n \in Marks /\ n.free \in Nat
      /\ HeaderSize \in Nat
  BY MarkTypes, BlockTypes, SizesAssumption
<1>c. /\ Last(b.chunks) \in ToSet(b.chunks) /\ Last(b.chunks) \in Chunks
      /\ Last(b.chunks) \notin ToSet(b.big)
  BY LastChunk
<1>1. ~IsBig(n)
  BY <1>t, <1>c, LastIn DEF IsBig
<1>2. Before(n) \in Marks /\ Before(n).chunks = b.chunks /\ Before(n).big = b.big
      /\ Before(n).free = b.free
  BY <1>1, <1>t, BeforeIsSmall
<1> HIDE DEF n, k
<1>3. Follows(b, Before(n))
  BY <1>2, <1>t, StartsIs DEF Follows
<1>4. Clear(b, k)
  BY <1>t DEF Clear, k
<1>5. HeaderSize <= b.free
  BY DEF Sound
<1>6. HeaderSize <= n.free
  BY <1>5, <1>t DEF n, k
<1>7. Sound(h, n)
  BY <1>6 DEF Sound, n
<1>8. Placed(h, n)
  BY <1>1, <1>5, <1>t DEF Placed, n, k
<1>9. Same(h, h, b)
  BY DEF Same
<1>10. Exact(h, m) => Exact(h, n)
  BY DEF Exact, Reach, n
<1> QED  BY <1>t, <1>3, <1>4, <1>7, <1>8, <1>9, <1>10 DEF Gives, n, k

\* The block begins a chunk of its own, which becomes the one in use
LEMMA GivesChunk ==
  ASSUME NEW h \in [Chunks -> Nat], NEW m \in Marks, NEW r, Sound(h, m),
         NEW c \in Chunks, h[c] = 0, r.heap \in [Chunks -> Nat],
         \A d \in Chunks \ {c} : r.heap[d] = h[d], r.heap[c] # 0,
         r.mark \in Marks, r.block \in Blocks,
         r.mark.chunks = Append(m.chunks, c), r.mark.big = m.big, r.mark.at = m.at,
         r.mark.last = r.block, r.block.chunk = c, r.block.from = HeaderSize,
         r.mark.free = HeaderSize + r.block.size, r.mark.free <= r.heap[c]
  PROVE  Gives(h, m, m, r)
<1> DEFINE n == r.mark
           k == r.block
           g == r.heap
<1>t. /\ m.chunks \in Seq(Chunks) /\ m.big \in Seq(Chunks) /\ m.free \in Nat
      /\ k.from \in Nat /\ k.size \in Nat /\ k # NoBlock /\ n \in Marks /\ n.free \in Nat
      /\ HeaderSize \in Nat /\ Reach(m) \subseteq Chunks
  BY MarkTypes, BlockTypes, SizesAssumption
<1>c. c \notin Reach(m) /\ c \notin ToSet(m.chunks) /\ c \notin ToSet(m.big)
  BY <1>t, SizesAssumption DEF Reach, Sound
<1>n. /\ n.chunks \in Seq(Chunks) /\ n.chunks # <<>> /\ Last(n.chunks) = c
      /\ ToSet(n.chunks) = ToSet(m.chunks) \cup {c} /\ Differ(n.chunks)
      /\ Starts(m.chunks, n.chunks)
  <2> DEFINE s == m.chunks
  <2>1. s \in Seq(Chunks) /\ Differ(s) /\ c \notin ToSet(s) /\ n.chunks = Append(s, c)
    BY <1>t, <1>c DEF Sound
  <2> HIDE DEF s, n
  <2>2. /\ n.chunks \in Seq(Chunks) /\ n.chunks # <<>> /\ Last(n.chunks) = c
        /\ ToSet(n.chunks) = ToSet(s) \cup {c} /\ Differ(n.chunks) /\ Starts(s, n.chunks)
    BY <2>1, OneMoreIs
  <2> QED  BY <2>2 DEF s
<1>1. ~IsBig(n)
  BY <1>t, <1>c, LastIn DEF IsBig
<1>2. Before(n) \in Marks /\ Before(n).chunks = n.chunks /\ Before(n).big = m.big
      /\ Before(n).free = HeaderSize
  BY <1>1, <1>t, BeforeIsSmall
<1>l. Last(m.chunks) # c
  BY <1>c, LastChunk
<1> HIDE DEF n, k, g
<1>3. Follows(m, Before(n))
  BY <1>2, <1>t, <1>n, <1>l, StartsIs DEF Follows
<1>4. Clear(m, k)
  BY <1>c DEF Clear, k
<1>5. \A d \in Reach(m) : g[d] = h[d]
  BY <1>c, <1>t DEF g
<1>6. Sound(g, n)
  <2>1. ToSet(n.chunks) \cap ToSet(n.big) = {}
    BY <1>n, <1>c DEF n, Sound
  <2>2. \A d \in ToSet(n.chunks) : g[d] # 0
    BY <1>n, <1>5 DEF g, Sound, Reach
  <2>3. Differ(n.big) /\ \A d \in ToSet(n.big) : g[d] > HeaderSize
    BY <1>5 DEF n, Sound, Reach
  <2>4. HeaderSize <= n.free
    BY <1>t DEF n, k
  <2>5. n.free <= g[Last(n.chunks)]
    BY <1>n DEF n, g
  <2> QED  BY <1>n, <2>1, <2>2, <2>3, <2>4, <2>5 DEF Sound
<1>7. Placed(g, n)
  BY <1>1, <1>n, <1>t DEF Placed, n, k
<1>8. Same(h, g, m)
  BY <1>5 DEF Same
<1>9. Exact(h, m) => Exact(g, n)
  <2>1. Reach(n) = Reach(m) \cup {c}
    BY <1>n DEF Reach, n
  <2>2. \A d \in Chunks : g[d] # 0 <=> h[d] # 0 \/ d = c
    BY DEF g
  <2> QED  BY <2>1, <2>2 DEF Exact
<1> QED  BY <1>t, <1>3, <1>4, <1>6, <1>7, <1>8, <1>9 DEF Gives, n, k, g

\* The block has a chunk to itself
LEMMA GivesBig ==
  ASSUME NEW h \in [Chunks -> Nat], NEW b \in Marks, NEW m \in Marks, NEW r, Sound(h, b),
         NEW c \in Chunks, h[c] = 0, r.heap \in [Chunks -> Nat], Same(h, r.heap, b),
         r.mark \in Marks, r.block \in Blocks,
         r.mark.chunks = b.chunks, r.mark.big = Append(b.big, c), r.mark.at = b.at,
         r.mark.free = b.free,
         r.mark.last = r.block, r.block.chunk = c, r.block.from = HeaderSize,
         r.heap[c] = HeaderSize + r.block.size, r.block.size > 0,
         Exact(h, m) => Exact(r.heap, r.mark)
  PROVE  Gives(h, b, m, r)
<1> DEFINE n == r.mark
           k == r.block
           g == r.heap
<1>t. /\ b.chunks \in Seq(Chunks) /\ b.big \in Seq(Chunks) /\ b.free \in Nat
      /\ k.from \in Nat /\ k.size \in Nat /\ k # NoBlock /\ n \in Marks /\ n.free \in Nat
      /\ HeaderSize \in Nat /\ Reach(b) \subseteq Chunks
  BY MarkTypes, BlockTypes, SizesAssumption
<1>c. c \notin Reach(b) /\ c \notin ToSet(b.chunks) /\ c \notin ToSet(b.big)
  BY <1>t, SizesAssumption DEF Reach, Sound
<1>n. /\ n.big \in Seq(Chunks) /\ n.big # <<>> /\ Last(n.big) = c
      /\ ToSet(n.big) = ToSet(b.big) \cup {c} /\ Differ(n.big)
      /\ Starts(b.big, n.big) /\ Starts(b.big, Front(n.big))
  <2> DEFINE s == b.big
  <2>1. s \in Seq(Chunks) /\ Differ(s) /\ c \notin ToSet(s) /\ n.big = Append(s, c)
    BY <1>t, <1>c DEF Sound
  <2> HIDE DEF s, n
  <2>2. /\ n.big \in Seq(Chunks) /\ n.big # <<>> /\ Last(n.big) = c
        /\ ToSet(n.big) = ToSet(s) \cup {c} /\ Differ(n.big) /\ Starts(s, n.big)
        /\ Starts(s, Front(n.big))
    BY <2>1, OneMoreIs
  <2> QED  BY <2>2 DEF s
<1>1. IsBig(n)
  BY <1>n DEF IsBig
<1>2. /\ Before(n) \in Marks /\ Before(n).chunks = b.chunks
      /\ Before(n).big = Front(n.big) /\ Before(n).free = b.free
  BY <1>1, <1>t, BeforeIsBig
<1> HIDE DEF n, k, g
<1>3. Follows(b, Before(n))
  BY <1>2, <1>n, <1>t, StartsIs DEF Follows
<1>4. Clear(b, k)
  BY <1>c DEF Clear, k
<1>5. \A d \in Reach(b) : g[d] = h[d]
  BY DEF g, Same
<1>6. Sound(g, n)
  <2>1. ToSet(n.chunks) \cap ToSet(n.big) = {}
    BY <1>n, <1>c DEF n, Sound
  <2>2. n.chunks # <<>> /\ Differ(n.chunks) /\ \A d \in ToSet(n.chunks) : g[d] # 0
    BY <1>5 DEF n, Sound, Reach
  <2>3. g[c] > HeaderSize
    BY <1>t DEF g, k
  <2>4. \A d \in ToSet(n.big) : g[d] > HeaderSize
    BY <1>n, <1>5, <2>3 DEF Sound, Reach
  <2>5. HeaderSize <= n.free /\ n.free <= g[Last(n.chunks)]
    <3>1. Last(b.chunks) \in Reach(b)
      BY LastChunk DEF Reach
    <3> QED  BY <3>1, <1>5 DEF n, Sound
  <2> QED  BY <1>n, <2>1, <2>2, <2>4, <2>5 DEF Sound
<1>7. Placed(g, n)
  <2>1. n.last = k /\ k.chunk = c /\ k.from = HeaderSize /\ g[c] = HeaderSize + k.size
    BY DEF n, k, g
  <2>2. HeaderSize <= k.from /\ k.from + k.size <= g[k.chunk]
    BY <1>t, <2>1
  <2> QED  BY <1>1, <2>1, <2>2 DEF Placed
<1> QED  BY <1>t, <1>3, <1>4, <1>6, <1>7 DEF Gives, n, k, g

LEMMA BlockIs ==
  ASSUME NEW c \in Chunks, NEW x \in Nat, NEW y \in Nat
  PROVE  [chunk |-> c, from |-> x, size |-> y] \in Blocks
  BY DEF Blocks

\* A chunk the heap has
LEMMA HeapWith ==
  ASSUME NEW h \in [Chunks -> Nat], NEW c \in Chunks, NEW n \in Nat
  PROVE  LET g == [h EXCEPT ![c] = n] IN
         /\ g \in [Chunks -> Nat] /\ g[c] = n /\ \A d \in Chunks \ {c} : g[d] = h[d]
  OBVIOUS

LEMMA RoomIs ==
  ASSUME NEW h \in [Chunks -> Nat], NEW m \in Marks, Sound(h, m)
  PROVE  Room(h, m) \in Nat /\ Room(h, m) = h[Last(m.chunks)] - m.free
<1>1. h[Last(m.chunks)] \in Nat /\ m.free \in Nat /\ m.free <= h[Last(m.chunks)]
  BY LastChunk, MarkTypes DEF Sound
<1> QED  BY <1>1 DEF Room

LEMMA AllocHereGives ==
  ASSUME NEW h \in [Chunks -> Nat], NEW m \in Marks, Sound(h, m), NEW sz \in Nat,
         sz <= Room(h, m), NEW whole \in BOOLEAN, NEW r \in AllocHere(m, h, sz, whole)
  PROVE  Gives(h, m, m, r)
<1> DEFINE z == IF whole THEN Room(h, m) ELSE sz
           k == [chunk |-> Last(m.chunks), from |-> m.free, size |-> z]
           n == [m EXCEPT !.free = m.free + z, !.last = k]
<1>1. r = [heap |-> h, block |-> k, mark |-> n]
  BY DEF AllocHere
<1>2. /\ Room(h, m) \in Nat /\ Room(h, m) = h[Last(m.chunks)] - m.free
      /\ m.free \in Nat /\ Last(m.chunks) \in Chunks /\ h[Last(m.chunks)] \in Nat
  BY RoomIs, LastChunk, MarkTypes
<1>3. z \in Nat /\ z <= Room(h, m)
  BY <1>2
<1> HIDE DEF z
<1>4. k \in Blocks /\ k.chunk = Last(m.chunks) /\ k.from = m.free /\ k.size = z
  BY <1>2, <1>3, BlockIs
<1> HIDE DEF k
<1>5. /\ n \in Marks /\ n.chunks = m.chunks /\ n.big = m.big /\ n.free = m.free + z
      /\ n.last = k /\ n.at = m.at
  <2> DEFINE f == m.free + z
  <2>1. f \in Nat
    BY <1>2, <1>3
  <2> HIDE DEF f
  <2>2. [m EXCEPT !.free = f, !.last = k] \in Marks
    BY <1>4, <2>1, Zenon DEF Marks
  <2> QED  BY <2>2 DEF Marks, f
<1> HIDE DEF n
<1>6. r.heap = h /\ r.block = k /\ r.mark = n
  BY <1>1
<1>7. n.free <= h[Last(m.chunks)]
  BY <1>2, <1>3, <1>5
<1> QED  BY <1>4, <1>5, <1>6, <1>7, GivesHere

LEMMA AllocNewChunkGives ==
  ASSUME NEW h \in [Chunks -> Nat], NEW m \in Marks, Sound(h, m), NEW sz \in Nat,
         NEW r \in AllocNewChunk(m, h, sz)
  PROVE  Gives(h, m, m, r)
<1>1. PICK c \in Unused(h) :
        r = [heap |-> [h EXCEPT ![c] = NewChunkSize(sz)],
             block |-> [chunk |-> c, from |-> HeaderSize, size |-> sz],
             mark |-> [m EXCEPT !.chunks = Append(m.chunks, c), !.free = HeaderSize + sz,
                                !.last = [chunk |-> c, from |-> HeaderSize, size |-> sz]]]
  BY DEF AllocNewChunk
<1>2. c \in Chunks /\ h[c] = 0
  BY DEF Unused
<1>3. NewChunkSize(sz) \in Nat /\ NewChunkSize(sz) # 0 /\ HeaderSize + sz <= NewChunkSize(sz)
  <2>1. /\ ChunkSize \in Nat /\ HeaderSize \in Nat /\ MarkSize \in Nat
        /\ HeaderSize + MarkSize < ChunkSize
    BY SizesAssumption
  <2>2. ChunkSize \div 2 <= ChunkSize
    BY <2>1
  <2> QED  BY <2>1, <2>2 DEF NewChunkSize
<1> DEFINE w == NewChunkSize(sz)
           g == [h EXCEPT ![c] = w]
           k == [chunk |-> c, from |-> HeaderSize, size |-> sz]
           s == Append(m.chunks, c)
           f == HeaderSize + sz
           n == [m EXCEPT !.chunks = s, !.free = f, !.last = k]
<1>4. r.heap = g /\ r.block = k /\ r.mark = n
  BY <1>1
<1>5. HeaderSize \in Nat /\ f \in Nat /\ s \in Seq(Chunks)
  BY SizesAssumption, <1>2, MarkTypes, AppendProperties
<1>6. k \in Blocks /\ k.chunk = c /\ k.from = HeaderSize /\ k.size = sz
  BY <1>2, <1>5, BlockIs
<1> HIDE DEF k, w
<1>7. g \in [Chunks -> Nat] /\ g[c] = w /\ \A d \in Chunks \ {c} : g[d] = h[d]
  BY <1>2, <1>3, HeapWith DEF w
<1> HIDE DEF s, f
<1>8. /\ n \in Marks /\ n.chunks = s /\ n.big = m.big /\ n.free = f
      /\ n.last = k /\ n.at = m.at
  <2>1. n \in Marks
    BY <1>5, <1>6, Zenon DEF Marks
  <2> QED  BY <2>1 DEF Marks
<1> HIDE DEF n, g
<1>9. g[c] # 0 /\ n.free <= g[c]
  BY <1>3, <1>7, <1>8 DEF f, w
<1>10. n.chunks = Append(m.chunks, c) /\ n.free = HeaderSize + k.size
  BY <1>6, <1>8 DEF s, f
<1> QED  BY <1>2, <1>4, <1>6, <1>7, <1>8, <1>9, <1>10, GivesChunk

LEMMA AllocBigGives ==
  ASSUME NEW h \in [Chunks -> Nat], NEW m \in Marks, Sound(h, m), NEW sz \in Nat, sz > 0,
         NEW r \in AllocBig(m, h, sz)
  PROVE  Gives(h, m, m, r)
<1>1. PICK c \in Unused(h) :
        r = [heap |-> [h EXCEPT ![c] = HeaderSize + sz],
             block |-> [chunk |-> c, from |-> HeaderSize, size |-> sz],
             mark |-> [m EXCEPT !.big = Append(m.big, c),
                                !.last = [chunk |-> c, from |-> HeaderSize, size |-> sz]]]
  BY DEF AllocBig
<1>2. c \in Chunks /\ h[c] = 0 /\ HeaderSize \in Nat
  BY SizesAssumption DEF Unused
<1> DEFINE w == HeaderSize + sz
           g == [h EXCEPT ![c] = w]
           k == [chunk |-> c, from |-> HeaderSize, size |-> sz]
           s == Append(m.big, c)
           n == [m EXCEPT !.big = s, !.last = k]
<1>4. r.heap = g /\ r.block = k /\ r.mark = n
  BY <1>1
<1>5. w \in Nat /\ w # 0 /\ s \in Seq(Chunks)
  BY <1>2, MarkTypes, AppendProperties
<1>6. k \in Blocks /\ k.chunk = c /\ k.from = HeaderSize /\ k.size = sz
  BY <1>2, <1>5, BlockIs
<1> HIDE DEF k, w
<1>7. g \in [Chunks -> Nat] /\ g[c] = w /\ \A d \in Chunks \ {c} : g[d] = h[d]
  BY <1>2, <1>5, HeapWith
<1>8. ToSet(s) = ToSet(m.big) \cup {c}
  BY <1>2, MarkTypes, ToSetAppend
<1> HIDE DEF s
<1>9. /\ n \in Marks /\ n.chunks = m.chunks /\ n.big = s /\ n.free = m.free
      /\ n.last = k /\ n.at = m.at
  <2>1. n \in Marks
    BY <1>5, <1>6, Zenon DEF Marks
  <2> QED  BY <2>1 DEF Marks
<1> HIDE DEF n, g
<1>10. c \notin Reach(m) /\ Reach(m) \subseteq Chunks /\ Reach(n) = Reach(m) \cup {c}
  <2>1. Reach(m) \subseteq Chunks
    BY MarkTypes
  <2>2. Reach(n) = Reach(m) \cup {c}
    BY <1>8, <1>9 DEF Reach
  <2>3. c \notin Reach(m)
    BY <1>2 DEF Reach, Sound
  <2> QED  BY <2>1, <2>2, <2>3
<1>11. Same(h, g, m)
  BY <1>7, <1>10 DEF Same
<1>12. Exact(h, m) => Exact(g, n)
  <2>1. \A d \in Chunks : g[d] # 0 <=> h[d] # 0 \/ d = c
    BY <1>5, <1>7
  <2> QED  BY <1>2, <2>1, <1>10 DEF Exact
<1>13. n.big = Append(m.big, c) /\ g[c] = HeaderSize + k.size /\ k.size > 0
  BY <1>6, <1>7, <1>9 DEF s, w
<1> QED  BY <1>2, <1>4, <1>6, <1>7, <1>9, <1>11, <1>12, <1>13, GivesBig

LEMMA AllocatedGives ==
  ASSUME NEW h \in [Chunks -> Nat], NEW m \in Marks, Sound(h, m), NEW sz \in Nat,
         NEW whole \in BOOLEAN, NEW r \in Allocated(m, h, sz, whole)
  PROVE  Gives(h, m, m, r)
<1>0. Room(h, m) \in Nat
  BY RoomIs
<1>1. CASE sz <= Room(h, m)
  <2>1. r \in AllocHere(m, h, sz, whole)
    BY <1>1 DEF Allocated
  <2> QED  BY <1>1, <2>1, AllocHereGives
<1>2. CASE ~(sz <= Room(h, m)) /\ Int32(Room(h, m)) < ChunkSize \div 8
  <2>1. r \in AllocNewChunk(m, h, sz)
    BY <1>2 DEF Allocated
  <2> QED  BY <2>1, AllocNewChunkGives
<1>3. CASE ~(sz <= Room(h, m)) /\ ~(Int32(Room(h, m)) < ChunkSize \div 8)
  <2>1. r \in AllocBig(m, h, sz)
    BY <1>3 DEF Allocated
  <2>2. sz > 0
    BY <1>0, <1>3
  <2> QED  BY <2>1, <2>2, AllocBigGives
<1> QED  BY <1>1, <1>2, <1>3

-----------------------------------------------------------------------------
(* Resizing the last block gives one out behind what the mark held before it. *)

\* The block is where it was or somewhere else entirely
Stays(m, r) ==
    Promise!Apart(r.block, m.last) \/
      (r.block.chunk = m.last.chunk /\ r.block.from = m.last.from)

LEMMA LastSizeIs ==
  ASSUME NEW h \in [Chunks -> Nat], NEW m \in Marks, Sound(h, m), Placed(h, m),
         m.last # NoBlock
  PROVE  /\ m.last \in Blocks
         /\ LastSize(m, h) \in Nat
         /\ IsBig(m) => LastSize(m, h) > 0
         /\ ~IsBig(m) => /\ m.last.chunk = Last(m.chunks)
                         /\ m.last.from + LastSize(m, h) = m.free
<1>1. /\ m.last \in Blocks /\ m.last.from \in Nat /\ m.last.size \in Nat
      /\ m.big \in Seq(Chunks) /\ m.free \in Nat /\ HeaderSize \in Nat
  BY MarkTypes, BlockTypes, SizesAssumption
<1>2. CASE IsBig(m)
  <2>1. Last(m.big) \in ToSet(m.big) /\ Last(m.big) \in Chunks
    BY <1>1, <1>2, LastIn, FrontIs DEF IsBig
  <2>2. h[Last(m.big)] \in Nat /\ h[Last(m.big)] > HeaderSize
    BY <2>1 DEF Sound
  <2>3. LastSize(m, h) = h[Last(m.big)] - HeaderSize
    BY <1>2 DEF LastSize
  <2> QED  BY <1>1, <1>2, <2>2, <2>3
<1>3. CASE ~IsBig(m)
  <2>1. m.last.chunk = Last(m.chunks) /\ m.last.from + m.last.size = m.free
    BY <1>3 DEF Placed
  <2>2. LastSize(m, h) = m.free - m.last.from
    BY <1>3 DEF LastSize
  <2> QED  BY <1>1, <1>3, <2>1, <2>2
<1> QED  BY <1>2, <1>3

\* A block that takes what is left of the chunk in use
LEMMA SmallGives ==
  ASSUME NEW h \in [Chunks -> Nat], NEW m \in Marks, Sound(h, m), Placed(h, m),
         m.last # NoBlock, ~IsBig(m), NEW z \in Nat, NEW f \in Nat,
         f = m.last.from + z, f <= h[Last(m.chunks)], NEW r,
         r = [heap |-> h, block |-> [m.last EXCEPT !.size = z],
              mark |-> [m EXCEPT !.free = f, !.last = [m.last EXCEPT !.size = z]]]
  PROVE  Gives(h, Before(m), m, r) /\ Stays(m, r)
<1> DEFINE k == [m.last EXCEPT !.size = z]
           n == [m EXCEPT !.free = f, !.last = k]
           b == Before(m)
<1>1. m.last \in Blocks /\ m.last.chunk = Last(m.chunks)
  BY LastSizeIs
<1>2. k \in Blocks /\ k.chunk = m.last.chunk /\ k.from = m.last.from /\ k.size = z
  <2>1. k \in Blocks
    BY <1>1, Zenon DEF Blocks
  <2> QED  BY <1>1, <2>1 DEF Blocks
<1>3. r.heap = h /\ r.block = k /\ r.mark = n
  OBVIOUS
<1> HIDE DEF k
<1>4. /\ n \in Marks /\ n.chunks = m.chunks /\ n.big = m.big /\ n.free = f
      /\ n.last = k /\ n.at = m.at
  <2>1. n \in Marks
    BY <1>2, Zenon DEF Marks
  <2> QED  BY <2>1 DEF Marks
<1>5. b \in Marks /\ b.at = m.at /\ Sound(h, b)
  BY BeforeIs
<1>6. b.chunks = m.chunks /\ b.big = m.big /\ b.free = m.last.from
  BY BeforeIsSmall
<1> HIDE DEF n, b
<1>7. Reach(b) = Reach(m)
  BY <1>6 DEF Reach
<1>8. Gives(h, b, m, r)
  <2>1. r.mark.chunks = b.chunks /\ r.mark.big = b.big /\ r.mark.at = b.at
    BY <1>3, <1>4, <1>5, <1>6
  <2>2. /\ r.block.chunk = Last(b.chunks) /\ r.block.from = b.free
        /\ r.mark.free = b.free + r.block.size /\ r.mark.free <= h[Last(b.chunks)]
    BY <1>1, <1>2, <1>3, <1>4, <1>6
  <2>3. r.mark \in Marks /\ r.block \in Blocks /\ r.mark.last = r.block /\ r.heap = h
    BY <1>2, <1>3, <1>4
  <2> QED  BY <1>5, <1>7, <2>1, <2>2, <2>3, GivesHere
<1> QED  BY <1>2, <1>3, <1>8 DEF Stays, b

LEMMA GrowBigGives ==
  ASSUME NEW h \in [Chunks -> Nat], NEW m \in Marks, Sound(h, m), Placed(h, m),
         m.last # NoBlock, IsBig(m), NEW sz \in Nat, sz > 0, NEW r \in GrowBig(m, h, sz)
  PROVE  Gives(h, Before(m), m, r) /\ Stays(m, r)
<1> DEFINE o == Last(m.big)
<1>1. PICK c \in Unused(h) :
        r = [heap |-> [h EXCEPT ![c] = HeaderSize + sz, ![o] = 0],
             block |-> [chunk |-> c, from |-> HeaderSize, size |-> sz],
             mark |-> [m EXCEPT !.big = Append(Front(m.big), c),
                                !.last = [chunk |-> c, from |-> HeaderSize, size |-> sz]]]
  BY DEF GrowBig
<1>2. sz \in Nat /\ sz > 0 /\ m.last \in Blocks
  BY LastSizeIs
<1>3. /\ o \in ToSet(m.big) /\ o \in Chunks /\ m.last.chunk = o
      /\ Front(m.big) \in Seq(Chunks) /\ ToSet(Front(m.big)) = ToSet(m.big) \ {o}
  <2>1. m.big \in Seq(Chunks) /\ m.big # <<>> /\ Differ(m.big) /\ m.last.chunk = o
    BY MarkTypes DEF IsBig, Sound
  <2> QED  BY <2>1, FrontSet, FrontIs
<1>4. c \in Chunks /\ h[c] = 0 /\ HeaderSize \in Nat
  BY SizesAssumption DEF Unused
<1>5. c # o /\ c \notin Reach(m) /\ Reach(m) \subseteq Chunks
  <2>1. c \notin Reach(m)
    BY <1>4 DEF Sound, Reach
  <2> QED  BY <2>1, <1>3, MarkTypes DEF Reach
<1> DEFINE w == HeaderSize + sz
           g == [h EXCEPT ![c] = w, ![o] = 0]
           k == [chunk |-> c, from |-> HeaderSize, size |-> sz]
           t == Front(m.big)
           s == Append(t, c)
           n == [m EXCEPT !.big = s, !.last = k]
           b == Before(m)
<1>6. r.heap = g /\ r.block = k /\ r.mark = n
  BY <1>1
<1> HIDE DEF o
<1>7. w \in Nat /\ w # 0 /\ s \in Seq(Chunks) /\ ToSet(s) = ToSet(t) \cup {c}
  BY <1>2, <1>3, <1>4, AppendProperties, ToSetAppend
<1>8. k \in Blocks /\ k.chunk = c /\ k.from = HeaderSize /\ k.size = sz
  BY <1>2, <1>4, BlockIs
<1> HIDE DEF k, w
<1>9. /\ g \in [Chunks -> Nat] /\ g[c] = w /\ g[o] = 0
      /\ \A d \in Chunks \ {c, o} : g[d] = h[d]
  BY <1>3, <1>4, <1>5, <1>7
<1> HIDE DEF s
<1>10. /\ n \in Marks /\ n.chunks = m.chunks /\ n.big = s /\ n.free = m.free
      /\ n.last = k /\ n.at = m.at
  <2>1. n \in Marks
    BY <1>7, <1>8, Zenon DEF Marks
  <2> QED  BY <2>1 DEF Marks
<1> HIDE DEF n, g
<1>11. b \in Marks /\ b.at = m.at /\ Sound(h, b)
  BY BeforeIs
<1>12. b.chunks = m.chunks /\ b.big = t /\ b.free = m.free
  BY BeforeIsBig
<1> HIDE DEF b
<1>13. o \notin ToSet(m.chunks)
  BY <1>3 DEF Sound
<1>14. Reach(b) = Reach(m) \ {o} /\ Reach(n) = Reach(b) \cup {c}
  <2>1. Reach(b) = Reach(m) \ {o}
    BY <1>3, <1>12, <1>13 DEF Reach
  <2>2. Reach(n) = Reach(b) \cup {c}
    BY <1>7, <1>10, <1>12 DEF Reach
  <2> QED  BY <2>1, <2>2
<1>15. Same(h, g, b)
  BY <1>5, <1>9, <1>14 DEF Same
<1>16. Exact(h, m) => Exact(g, n)
  <2>1. \A d \in Chunks : g[d] # 0 <=> (h[d] # 0 /\ d # o) \/ d = c
    BY <1>4, <1>5, <1>7, <1>9
  <2> QED  BY <1>4, <2>1, <1>5, <1>14 DEF Exact
<1>17. n.big = Append(b.big, c) /\ g[c] = HeaderSize + k.size /\ k.size > 0
  BY <1>2, <1>8, <1>9, <1>10, <1>12 DEF s, w
<1>18. Gives(h, b, m, r)
  <2>1. n.chunks = b.chunks /\ n.at = b.at /\ n.free = b.free
    BY <1>10, <1>11, <1>12
  <2>2. r.heap \in [Chunks -> Nat] /\ Same(h, r.heap, b) /\ (Exact(h, m) => Exact(r.heap, r.mark))
    BY <1>6, <1>9, <1>15, <1>16
  <2>3. /\ r.mark \in Marks /\ r.block \in Blocks /\ r.mark.chunks = b.chunks
        /\ r.mark.big = Append(b.big, c) /\ r.mark.at = b.at /\ r.mark.free = b.free
        /\ r.mark.last = r.block /\ r.block.chunk = c /\ r.block.from = HeaderSize
        /\ r.heap[c] = HeaderSize + r.block.size /\ r.block.size > 0
    BY <1>6, <1>8, <1>10, <1>17, <2>1
  <2> QED  BY <1>4, <1>11, <2>2, <2>3, GivesBig
<1>19. Stays(m, r)
  BY <1>3, <1>5, <1>6, <1>8 DEF Stays, Promise!Apart
<1> QED  BY <1>18, <1>19 DEF b

\* A block given out behind the last one leaves more alone than it must
LEMMA GivesEarlier ==
  ASSUME NEW h \in [Chunks -> Nat], NEW m \in Marks, Sound(h, m), Placed(h, m),
         m.last # NoBlock, NEW r, Gives(h, m, m, r)
  PROVE  Gives(h, Before(m), m, r) /\ Stays(m, r)
<1> DEFINE b == Before(m)
           n == r.mark
           g == r.heap
           p == Before(n)
<1>1. /\ b \in Marks /\ b.at = m.at /\ Sound(h, b) /\ Follows(b, m)
      /\ Holds(h, m, m.last) /\ m.last \in Blocks
  BY BeforeIs, LastSizeIs
<1>2. /\ g \in [Chunks -> Nat] /\ n \in Marks /\ r.block \in Blocks
      /\ n.last = r.block /\ n.at = m.at /\ Same(h, g, m)
      /\ Sound(g, n) /\ Placed(g, n) /\ Follows(m, p) /\ Clear(m, r.block)
      /\ Exact(h, m) => Exact(g, n)
  BY DEF Gives
<1>3. p \in Marks /\ Sound(g, p)
  BY <1>2, BeforeIs
<1> HIDE DEF b, n, g, p
<1>4. Follows(b, p)
  <2>1. b.chunks # <<>>
    BY <1>1 DEF Sound
  <2> QED  BY <1>1, <1>2, <1>3, <2>1, FollowsTransitive
<1>5. Same(h, g, b)
  BY <1>1, <1>2, SameEarlier
<1>6. Clear(b, r.block)
  BY <1>1, <1>2, ClearEarlier
<1>7. Gives(h, b, m, r)
  BY <1>1, <1>2, <1>4, <1>5, <1>6 DEF Gives, n, g, p
<1>8. Stays(m, r)
  BY <1>1, <1>2, ApartIs DEF Stays
<1> QED  BY <1>7, <1>8 DEF b

LEMMA ShrunkGives ==
  ASSUME NEW h \in [Chunks -> Nat], NEW m \in Marks, Sound(h, m), Placed(h, m),
         m.last # NoBlock, NEW decr \in Nat, NEW r \in Shrunk(m, h, decr)
  PROVE  Gives(h, Before(m), m, r) /\ Stays(m, r)
<1>0. /\ m.last \in Blocks /\ LastSize(m, h) \in Nat /\ m.free \in Nat /\ m.last.from \in Nat
      /\ h[Last(m.chunks)] \in Nat /\ m.free <= h[Last(m.chunks)]
  BY LastSizeIs, MarkTypes, BlockTypes, LastChunk DEF Sound
<1>1. CASE IsBig(m) \/ decr > LastSize(m, h)
  <2>1. r = [heap |-> h, block |-> m.last, mark |-> m]
    BY <1>1 DEF Shrunk
  <2>2. r.heap = h /\ r.block = m.last /\ r.mark = m
    BY <2>1
  <2>3. /\ Before(m) \in Marks /\ Before(m).at = m.at /\ Clear(Before(m), m.last)
        /\ Follows(Before(m), Before(m))
    BY BeforeIs, FollowsSelf
  <2>4. Same(h, h, Before(m))
    BY DEF Same
  <2>5. Gives(h, Before(m), m, r)
    BY <1>0, <2>2, <2>3, <2>4 DEF Gives
  <2> QED  BY <2>2, <2>5 DEF Stays
<1>2. CASE ~(IsBig(m) \/ decr > LastSize(m, h))
  <2> DEFINE z == LastSize(m, h) - decr
             f == m.free - decr
  <2>1. r = [heap |-> h, block |-> [m.last EXCEPT !.size = z],
             mark |-> [m EXCEPT !.free = f, !.last = [m.last EXCEPT !.size = z]]]
    BY <1>2 DEF Shrunk
  <2>2. m.last.from + LastSize(m, h) = m.free
    BY <1>2, LastSizeIs
  <2>3. z \in Nat /\ f \in Nat /\ f = m.last.from + z /\ f <= h[Last(m.chunks)]
    BY <1>0, <1>2, <2>2
  <2> HIDE DEF z, f
  <2> QED  BY <1>2, <2>1, <2>3, SmallGives
<1> QED  BY <1>1, <1>2

\* What can be said is said as it is
LEMMA WordIs ==
  /\ MaxAlloc \in Nat /\ Word \in Nat /\ MaxAlloc < Word
  /\ \A n \in Nat : n < Word => Dword(n) = n
  /\ \A n \in Nat : n <= MaxAlloc => Int32(n) = n
  /\ \A n \in Nat : Int32(n) \in Int /\ Int32(n) <= n
<1>1. MaxAlloc \in Nat
  BY SizesAssumption
<1> QED  BY <1>1 DEF Word, Dword, Int32

\* A resize that is not excessive asks for no more than the room that is there
LEMMA ExpandedGives ==
  ASSUME NEW h \in [Chunks -> Nat], NEW m \in Marks, Sound(h, m), Placed(h, m),
         m.last # NoBlock, NEW asked \in Nat, NEW fix \in BOOLEAN,
         ~Excessive(m, h, LastSize(m, h) + asked),
         NEW r \in Expanded(m, h, asked, fix)
  PROVE  Gives(h, Before(m), m, r) /\ Stays(m, r)
<1> DEFINE l  == LastSize(m, h)
           sz == l + asked
<1>0. /\ m.last \in Blocks /\ l \in Nat /\ m.free \in Nat /\ m.last.from \in Nat
      /\ h[Last(m.chunks)] \in Nat /\ m.free <= h[Last(m.chunks)]
      /\ Room(h, m) = h[Last(m.chunks)] - m.free /\ Room(h, m) \in Nat
      /\ IsBig(m) => l > 0
  BY LastSizeIs, MarkTypes, BlockTypes, LastChunk, RoomIs DEF Sound
<1>a. sz < Word /\ asked <= MaxAlloc /\ sz \in Nat /\ asked < Word
  <2>1. ~(sz >= Word) /\ ~(sz > l + MaxAlloc)
    BY DEF Excessive
  <2> HIDE DEF l
  <2> QED  BY <1>0, <2>1, WordIs
<1>b. Dword(asked) = asked /\ Dword(sz) = sz /\ Int32(asked) = asked
  <2> HIDE DEF sz
  <2> QED  BY <1>a, WordIs
<1>c. Int32(asked) <= Int32(Room(h, m)) => asked <= Room(h, m)
  <2> DEFINE room == Room(h, m)
  <2>1. room \in Nat /\ Int32(room) \in Int /\ Int32(room) <= room
    BY <1>0, WordIs
  <2> HIDE DEF room
  <2>2. asked <= Int32(room) => asked <= room
    BY <2>1
  <2> QED  BY <1>b, <2>2 DEF room
<1>d. r \in IF ~IsBig(m) /\ Int32(asked) <= Int32(Room(h, m)) THEN GrowHere(m, h, asked)
            ELSE IF fix \/ sz > MaxAlloc THEN {}
            ELSE IF IsBig(m) THEN GrowBig(m, h, sz)
            ELSE Allocated(m, h, sz, FALSE)
  BY <1>b DEF Expanded
<1>1. CASE ~IsBig(m) /\ Int32(asked) <= Int32(Room(h, m))
  <2> DEFINE f == m.free + asked
  <2>1. r = [heap |-> h, block |-> [m.last EXCEPT !.size = sz],
             mark |-> [m EXCEPT !.free = f, !.last = [m.last EXCEPT !.size = sz]]]
    BY <1>1, <1>d DEF GrowHere
  <2>2. m.last.from + l = m.free
    BY <1>1, LastSizeIs
  <2>3. sz \in Nat /\ f \in Nat /\ f = m.last.from + sz /\ f <= h[Last(m.chunks)]
    <3> HIDE DEF l
    <3> QED  BY <1>0, <1>1, <1>c, <2>2
  <2> HIDE DEF sz, f
  <2> QED  BY <1>1, <2>1, <2>3, SmallGives
<1>2. CASE IsBig(m)
  <2>1. r \in GrowBig(m, h, sz)
    BY <1>2, <1>d
  <2>2. sz > 0
    <3> HIDE DEF l
    <3> QED  BY <1>0, <1>2
  <2> HIDE DEF sz
  <2> QED  BY <1>2, <1>a, <2>1, <2>2, GrowBigGives
<1>3. CASE ~IsBig(m) /\ ~(Int32(asked) <= Int32(Room(h, m)))
  <2>1. r \in Allocated(m, h, sz, FALSE)
    BY <1>3, <1>d
  <2> HIDE DEF sz
  <2>2. Gives(h, m, m, r)
    BY <1>a, <2>1, AllocatedGives
  <2> QED  BY <2>2, GivesEarlier
<1> QED  BY <1>1, <1>2, <1>3

LEMMA ResizedGives ==
  ASSUME NEW h \in [Chunks -> Nat], NEW m \in Marks, Sound(h, m), Placed(h, m),
         m.last # NoBlock, NEW sz \in Nat, NEW fix \in BOOLEAN,
         ~Excessive(m, h, sz), NEW r \in Resized(m, h, sz, fix)
  PROVE  Gives(h, Before(m), m, r) /\ Stays(m, r)
<1> DEFINE l == LastSize(m, h)
<1>0. l \in Nat
  BY LastSizeIs
<1>a. sz < Word /\ Dword(sz) = sz
  <2>1. sz < Word
    BY WordIs DEF Excessive
  <2> QED  BY <2>1, WordIs
<1>b. r \in IF sz <= l THEN Shrunk(m, h, l - sz) ELSE Expanded(m, h, sz - l, fix)
  BY <1>a DEF Resized
<1>1. CASE sz <= l
  <2> DEFINE d == l - sz
  <2>1. r \in Shrunk(m, h, d) /\ d \in Nat
    BY <1>0, <1>1, <1>b
  <2> HIDE DEF d
  <2> QED  BY <2>1, ShrunkGives
<1>2. CASE ~(sz <= l)
  <2> DEFINE d == sz - l
  <2>1. r \in Expanded(m, h, d, fix) /\ d \in Nat /\ l + d = sz
    BY <1>0, <1>2, <1>b
  <2> HIDE DEF d
  <2>2. ~Excessive(m, h, LastSize(m, h) + d)
    BY <2>1
  <2> QED  BY <2>1, <2>2, ExpandedGives
<1> QED  BY <1>1, <1>2

-----------------------------------------------------------------------------
(* A new mark, and the block that may come with it. *)

\* r is a new mark on top of m, and the heap with it
Pushes(h, m, r) ==
    /\ r.heap \in [Chunks -> Nat] /\ r.mark \in Marks /\ r.mark.last = NoBlock
    /\ Same(h, r.heap, m) /\ Sound(r.heap, r.mark) /\ Follows(m, r.mark)
    /\ Clear(m, r.mark.at) /\ Holds(r.heap, r.mark, r.mark.at)
    /\ Exact(h, m) => Exact(r.heap, r.mark)

LEMMA NewMarkIs ==
  ASSUME NEW m \in Marks, NEW c \in Chunks, NEW x \in Nat
  PROVE  NewMark(m, c, x) \in Marks
<1> DEFINE s == IF c = Last(m.chunks) THEN m.chunks ELSE Append(m.chunks, c)
           a == [chunk |-> c, from |-> x, size |-> MarkSize]
           f == x + MarkSize
<1>1. MarkSize \in Nat /\ m.chunks \in Seq(Chunks) /\ m.big \in Seq(Chunks)
  BY SizesAssumption, MarkTypes
<1>2. s \in Seq(Chunks) /\ f \in Nat
  BY <1>1, AppendProperties
<1>3. a \in Blocks
  BY <1>1, BlockIs
<1>4. NewMark(m, c, x) = [chunks |-> s, big |-> m.big, free |-> f, last |-> NoBlock, at |-> a]
  BY DEF NewMark
<1> HIDE DEF s, a, f
<1> QED  BY <1>1, <1>2, <1>3, <1>4 DEF Marks

\* In the chunk in use
LEMMA PushesHere ==
  ASSUME NEW h \in [Chunks -> Nat], NEW m \in Marks, Sound(h, m), MarkSize <= Room(h, m)
  PROVE  Pushes(h, m, [heap |-> h, mark |-> NewMark(m, Last(m.chunks), m.free)])
<1> DEFINE n == NewMark(m, Last(m.chunks), m.free)
           c == Last(m.chunks)
           r == [heap |-> h, mark |-> n]
<1>1. /\ Room(h, m) = h[c] - m.free /\ m.free \in Nat /\ h[c] \in Nat /\ MarkSize \in Nat
      /\ c \in Chunks /\ c \in ToSet(m.chunks) /\ m.chunks \in Seq(Chunks)
      /\ m.big \in Seq(Chunks) /\ HeaderSize <= m.free /\ HeaderSize \in Nat
  BY RoomIs, LastChunk, MarkTypes, SizesAssumption DEF Sound
<1>2. /\ n \in Marks /\ n.big = m.big /\ n.free = m.free + MarkSize /\ n.last = NoBlock
      /\ n.chunks = m.chunks
      /\ n.at \in Blocks /\ n.at.chunk = c /\ n.at.from = m.free /\ n.at.size = MarkSize
  <2>1. n \in Marks
    BY <1>1, NewMarkIs
  <2>2. n.at \in Blocks
    BY <2>1, MarkTypes
  <2> QED  BY <2>1, <2>2 DEF NewMark
<1>3. r.heap = h /\ r.mark = n
  OBVIOUS
<1> HIDE DEF n, r
<1>4. n.free <= h[c] /\ HeaderSize <= n.free /\ m.free <= n.free
  BY <1>1, <1>2
<1>5. Sound(h, n)
  BY <1>2, <1>4 DEF Sound, c
<1>6. Follows(m, n)
  BY <1>1, <1>2, <1>4, StartsIs DEF Follows
<1>7. Clear(m, n.at)
  BY <1>1, <1>2 DEF Clear
<1>8. Holds(h, n, n.at)
  BY <1>1, <1>2, <1>4 DEF Holds, Reach
<1>9. Same(h, h, m)
  BY DEF Same
<1>10. Exact(h, m) => Exact(h, n)
  BY <1>2 DEF Exact, Reach
<1>11. Pushes(h, m, r)
  BY <1>2, <1>3, <1>5, <1>6, <1>7, <1>8, <1>9, <1>10 DEF Pushes
<1> QED  BY <1>11 DEF r, n

\* In a chunk of its own
LEMMA PushesChunk ==
  ASSUME NEW h \in [Chunks -> Nat], NEW m \in Marks, Sound(h, m), NEW c \in Unused(h)
  PROVE  Pushes(h, m, [heap |-> [h EXCEPT ![c] = ChunkSize],
                       mark |-> NewMark(m, c, HeaderSize)])
<1> DEFINE n == NewMark(m, c, HeaderSize)
           g == [h EXCEPT ![c] = ChunkSize]
           r == [heap |-> g, mark |-> n]
<1>1. /\ c \in Chunks /\ h[c] = 0 /\ HeaderSize \in Nat /\ MarkSize \in Nat
      /\ ChunkSize \in Nat /\ HeaderSize + MarkSize < ChunkSize
      /\ m.chunks \in Seq(Chunks) /\ m.big \in Seq(Chunks) /\ m.free \in Nat
      /\ Reach(m) \subseteq Chunks
  BY SizesAssumption, MarkTypes DEF Unused
<1>2. c \notin ToSet(m.chunks) /\ c \notin ToSet(m.big) /\ c \notin Reach(m)
  BY <1>1 DEF Sound, Reach
<1>3. c # Last(m.chunks)
  BY <1>2, LastChunk
<1>4. /\ n \in Marks /\ n.big = m.big /\ n.free = HeaderSize + MarkSize /\ n.last = NoBlock
      /\ n.chunks = Append(m.chunks, c)
      /\ n.at \in Blocks /\ n.at.chunk = c /\ n.at.from = HeaderSize /\ n.at.size = MarkSize
  <2>1. n \in Marks
    BY <1>1, NewMarkIs
  <2>2. n.at \in Blocks
    BY <2>1, MarkTypes
  <2> QED  BY <1>3, <2>1, <2>2 DEF NewMark
<1>5. r.heap = g /\ r.mark = n
  OBVIOUS
<1>6. /\ g \in [Chunks -> Nat] /\ g[c] = ChunkSize /\ \A d \in Chunks \ {c} : g[d] = h[d]
  BY <1>1, HeapWith
<1> HIDE DEF n, g, r
<1>7. /\ n.chunks \in Seq(Chunks) /\ n.chunks # <<>> /\ Last(n.chunks) = c
      /\ ToSet(n.chunks) = ToSet(m.chunks) \cup {c} /\ Differ(n.chunks)
      /\ Starts(m.chunks, n.chunks)
  <2> DEFINE s == m.chunks
  <2>1. s \in Seq(Chunks) /\ Differ(s) /\ c \notin ToSet(s) /\ n.chunks = Append(s, c)
    BY <1>1, <1>2, <1>4 DEF Sound
  <2> HIDE DEF s
  <2>2. /\ n.chunks \in Seq(Chunks) /\ n.chunks # <<>> /\ Last(n.chunks) = c
        /\ ToSet(n.chunks) = ToSet(s) \cup {c} /\ Differ(n.chunks) /\ Starts(s, n.chunks)
    BY <1>1, <2>1, OneMoreIs
  <2> QED  BY <2>2 DEF s
<1>8. \A d \in Reach(m) : g[d] = h[d]
  BY <1>1, <1>2, <1>6
<1>9. Sound(g, n)
  <2>1. ToSet(n.chunks) \cap ToSet(n.big) = {} /\ Differ(n.big)
    BY <1>2, <1>4, <1>7 DEF Sound
  <2>2. \A d \in ToSet(n.chunks) : g[d] # 0
    BY <1>1, <1>6, <1>7, <1>8 DEF Sound, Reach
  <2>3. \A d \in ToSet(n.big) : g[d] > HeaderSize
    BY <1>4, <1>8 DEF Sound, Reach
  <2>4. HeaderSize <= n.free /\ n.free <= g[Last(n.chunks)]
    BY <1>1, <1>4, <1>6, <1>7
  <2> QED  BY <1>7, <2>1, <2>2, <2>3, <2>4 DEF Sound
<1>10. Follows(m, n)
  BY <1>1, <1>3, <1>4, <1>7, StartsIs DEF Follows
<1>11. Clear(m, n.at)
  BY <1>2, <1>4 DEF Clear
<1>12. Holds(g, n, n.at)
  BY <1>1, <1>4, <1>6, <1>7 DEF Holds, Reach
<1>13. Same(h, g, m)
  BY <1>8 DEF Same
<1>14. Exact(h, m) => Exact(g, n)
  <2>1. Reach(n) = Reach(m) \cup {c}
    BY <1>4, <1>7 DEF Reach
  <2>2. \A d \in Chunks : g[d] # 0 <=> h[d] # 0 \/ d = c
    BY <1>1, <1>6
  <2> QED  BY <1>1, <2>1, <2>2 DEF Exact
<1>15. Pushes(h, m, r)
  BY <1>4, <1>5, <1>6, <1>9, <1>10, <1>11, <1>12, <1>13, <1>14 DEF Pushes
<1> QED  BY <1>15 DEF r, n, g

LEMMA PushedIs ==
  ASSUME NEW h \in [Chunks -> Nat], NEW m \in Marks, Sound(h, m), NEW r \in Pushed(m, h)
  PROVE  Pushes(h, m, r)
<1>1. CASE MarkSize <= Room(h, m)
  <2>1. r = [heap |-> h, mark |-> NewMark(m, Last(m.chunks), m.free)]
    BY <1>1 DEF Pushed
  <2> QED  BY <1>1, <2>1, PushesHere
<1>2. CASE ~(MarkSize <= Room(h, m))
  <2>1. PICK c \in Unused(h) :
          r = [heap |-> [h EXCEPT ![c] = ChunkSize], mark |-> NewMark(m, c, HeaderSize)]
    BY <1>2 DEF Pushed
  <2> QED  BY <2>1, PushesChunk
<1> QED  BY <1>1, <1>2

LEMMA PushedFrameIs ==
  ASSUME NEW h \in [Chunks -> Nat], NEW m \in Marks, Sound(h, m), NEW sz \in Nat,
         NEW whole \in BOOLEAN, NEW r \in PushedFrame(m, h, sz, whole)
  PROVE  \E p : Pushes(h, m, p) /\ Gives(p.heap, p.mark, p.mark, r)
<1>0. /\ Room(h, m) = h[Last(m.chunks)] - m.free /\ m.free \in Nat
      /\ h[Last(m.chunks)] \in Nat /\ MarkSize \in Nat /\ Last(m.chunks) \in Chunks
  BY RoomIs, LastChunk, MarkTypes, SizesAssumption
<1>1. CASE sz + MarkSize <= Room(h, m)
  <2> DEFINE n == NewMark(m, Last(m.chunks), m.free)
             p == [heap |-> h, mark |-> n]
  <2>1. r \in AllocHere(n, h, sz, whole)
    BY <1>1 DEF PushedFrame
  <2>2. MarkSize <= Room(h, m)
    BY <1>0, <1>1
  <2>3. Pushes(h, m, p)
    BY <2>2, PushesHere
  <2>4. n.free = m.free + MarkSize /\ n.chunks = m.chunks
    BY DEF NewMark
  <2>5. p.heap = h /\ p.mark = n
    OBVIOUS
  <2> HIDE DEF n, p
  <2>6. n \in Marks /\ Sound(h, n)
    BY <2>3, <2>5 DEF Pushes
  <2>7. sz <= Room(h, n)
    <3>1. Room(h, n) = h[Last(m.chunks)] - n.free
      BY <2>4 DEF Room
    <3> QED  BY <1>0, <1>1, <2>4, <3>1
  <2>8. Gives(h, n, n, r)
    BY <2>1, <2>6, <2>7, AllocHereGives
  <2> QED  BY <2>3, <2>5, <2>8
<1>2. CASE ~(sz + MarkSize <= Room(h, m))
  <2>1. ~(sz > MaxAlloc) /\ r \in UNION {Allocated(q.mark, q.heap, sz, whole) : q \in Pushed(m, h)}
    BY <1>2 DEF PushedFrame
  <2>2. PICK p \in Pushed(m, h) : r \in Allocated(p.mark, p.heap, sz, whole)
    BY <2>1
  <2>3. Pushes(h, m, p)
    BY PushedIs
  <2>4. p.mark \in Marks /\ p.heap \in [Chunks -> Nat] /\ Sound(p.heap, p.mark)
    BY <2>3 DEF Pushes
  <2>5. Gives(p.heap, p.mark, p.mark, r)
    BY <2>2, <2>4, AllocatedGives
  <2> QED  BY <2>3, <2>5
<1> QED  BY <1>1, <1>2

-----------------------------------------------------------------------------
(* A mark and its frame, and the marks below. *)

\* b is fit to give out a block behind those of f
Fits(h, b, f) ==
    /\ b \in Marks /\ Sound(h, b) /\ Holds(h, b, b.at)
    /\ \A j \in 1 .. Len(f) : Holds(h, b, f[j]) /\ Promise!Apart(f[j], b.at)

\* The same with a mark k below
Under(k, b, f) ==
    /\ Follows(k, b) /\ Clear(k, b.at)
    /\ \A j \in 1 .. Len(f) : Clear(k, f[j])

\* All the blocks of a frame are in what its mark has given out
LEMMA LevelIsBase ==
  ASSUME NEW h \in [Chunks -> Nat], NEW m \in Marks, NEW f \in Seq(Blocks), Level(h, m, f)
  PROVE  Fits(h, m, f)
<1> DEFINE b == Before(m)
<1>1. /\ b \in Marks /\ b.at = m.at /\ Follows(b, m) /\ Sound(h, m)
      /\ m.last # NoBlock => Holds(h, m, m.last)
  BY BeforeIs DEF Level
<1>2. m.at \in Blocks /\ Len(f) \in Nat
  BY MarkTypes, LenProperties
<1> HIDE DEF b
<1>3. Holds(h, m, m.at)
  <2>1. Holds(h, b, m.at)
    BY DEF Level, b
  <2> QED  BY <1>1, <1>2, <2>1, HeldLater
<1>4. ASSUME NEW j \in 1 .. Len(f)
      PROVE  Holds(h, m, f[j]) /\ Promise!Apart(f[j], m.at)
  <2>1. f[j] \in Blocks /\ Promise!Apart(f[j], m.at)
    BY ElementOfSeq DEF Level
  <2>2. CASE j = Len(f)
    <3>0. f # <<>>
      BY <1>2, EmptySeq
    <3>1. f # <<>> /\ f[j] = Last(f)
      BY <2>2, <3>0, FrontIs
    <3>2. m.last = f[j]
      BY <3>1 DEF Level
    <3> QED  BY <1>1, <2>1, <3>2, BlockTypes
  <2>3. CASE j # Len(f)
    <3>1. j \in 1 .. Len(f) - 1
      BY <1>2, <2>3
    <3>2. Holds(h, b, f[j])
      BY <3>1 DEF Level, b
    <3> QED  BY <1>1, <2>1, <3>2, HeldLater
  <2> QED  BY <2>2, <2>3
<1> QED  BY <1>1, <1>3, <1>4 DEF Fits

\* All but the last are in what it had given out before
LEMMA LevelIsBaseBefore ==
  ASSUME NEW h \in [Chunks -> Nat], NEW m \in Marks, NEW f \in Seq(Blocks), f # <<>>,
         Level(h, m, f)
  PROVE  Fits(h, Before(m), Front(f))
<1> DEFINE b == Before(m)
           t == Front(f)
<1>1. b \in Marks /\ b.at = m.at /\ Sound(h, b)
  BY BeforeIs DEF Level
<1>2. /\ Len(f) \in Nat /\ Len(t) = Len(f) - 1 /\ \A j \in 1 .. Len(f) - 1 : t[j] = f[j]
  BY FrontIs
<1> HIDE DEF b, t
<1>3. Holds(h, b, b.at)
  BY <1>1 DEF Level, b
<1>4. ASSUME NEW j \in 1 .. Len(t)
      PROVE  Holds(h, b, t[j]) /\ Promise!Apart(t[j], b.at)
  <2>1. j \in 1 .. Len(f) - 1 /\ j \in 1 .. Len(f) /\ t[j] = f[j]
    BY <1>2
  <2> QED  BY <1>1, <2>1 DEF Level, b
<1>5. Fits(h, b, t)
  BY <1>1, <1>3, <1>4 DEF Fits
<1> QED  BY <1>5 DEF b, t

LEMMA AboveIsUnder ==
  ASSUME NEW h \in [Chunks -> Nat], NEW m \in Marks, NEW f \in Seq(Blocks),
         Level(h, m, f), NEW k \in Marks, k.chunks # <<>>, Above(k, m, f)
  PROVE  Under(k, m, f) /\ (f # <<>> => Under(k, Before(m), Front(f)))
<1> DEFINE b == Before(m)
<1>1. b \in Marks /\ b.at = m.at /\ Follows(b, m) /\ Sound(h, m) /\ Follows(k, b)
  BY BeforeIs DEF Level, Above
<1> HIDE DEF b
<1>2. Follows(k, m)
  BY <1>1, FollowsTransitive
<1>3. ASSUME f # <<>>
      PROVE  Under(k, b, Front(f))
  <2> DEFINE t == Front(f)
  <2>1. /\ Len(f) \in Nat /\ Len(t) = Len(f) - 1 /\ \A j \in 1 .. Len(f) - 1 : t[j] = f[j]
    BY <1>3, FrontIs
  <2> HIDE DEF t
  <2>2. ASSUME NEW j \in 1 .. Len(t)
        PROVE  Clear(k, t[j])
    <3>1. j \in 1 .. Len(f) /\ t[j] = f[j]
      BY <2>1
    <3> QED  BY <3>1 DEF Above
  <2>3. Clear(k, b.at)
    BY <1>1 DEF Above
  <2> QED  BY <1>1, <2>2, <2>3 DEF Under, t
<1> QED  BY <1>2, <1>3 DEF Under, Above, b

\* A block given out, and what is above the marks below then
LEMMA LevelAfter ==
  ASSUME NEW h \in [Chunks -> Nat], NEW b, NEW m, NEW f \in Seq(Blocks), Fits(h, b, f),
         NEW r, Gives(h, b, m, r)
  PROVE  Level(r.heap, r.mark, Append(f, r.block))
<1> DEFINE g == r.heap
           n == r.mark
           k == r.block
           p == Before(n)
           t == Append(f, k)
<1>1. /\ g \in [Chunks -> Nat] /\ n \in Marks /\ k \in Blocks
      /\ n.last = k /\ n.at = b.at /\ Same(h, g, b)
      /\ Sound(g, n) /\ Placed(g, n) /\ Follows(b, p) /\ Clear(b, k)
  BY DEF Gives
<1>2. p \in Marks /\ Sound(g, p)
  BY <1>1, BeforeIs
<1>3. b \in Marks /\ b.at \in Blocks
  BY MarkTypes DEF Fits
<1> HIDE DEF g, n, k, p
<1>4. /\ t \in Seq(Blocks) /\ t # <<>> /\ Last(t) = k /\ Len(f) \in Nat
      /\ Len(t) = Len(f) + 1 /\ t[Len(t)] = k
      /\ \A j \in 1 .. Len(f) : t[j] = f[j]
  BY <1>1, AppendIs
<1> HIDE DEF t
<1>5. ASSUME NEW d \in Blocks, Holds(h, b, d)
      PROVE  Holds(g, p, d)
  <2>1. Holds(g, b, d)
    BY <1>1, <1>5, HeldSame
  <2> QED  BY <1>1, <1>2, <1>3, <2>1, HeldLater
<1>6. Holds(g, p, n.at)
  BY <1>1, <1>3, <1>5 DEF Fits
<1>7. ASSUME NEW j \in 1 .. Len(t) - 1
      PROVE  Holds(g, p, t[j])
  <2>1. j \in 1 .. Len(f) /\ t[j] = f[j]
    BY <1>4
  <2>2. f[j] \in Blocks /\ Holds(h, b, f[j])
    BY <2>1, ElementOfSeq DEF Fits
  <2> QED  BY <1>5, <2>1, <2>2
<1>8. ASSUME NEW j \in 1 .. Len(t)
      PROVE  Promise!Apart(t[j], n.at)
  <2>1. CASE j = Len(t)
    <3>1. Holds(h, b, b.at)
      BY DEF Fits
    <3>2. Promise!Apart(k, b.at)
      BY <1>1, <1>3, <3>1, ApartIs
    <3> QED  BY <1>1, <1>4, <2>1, <3>2
  <2>2. CASE j # Len(t)
    <3>1. j \in 1 .. Len(f) /\ t[j] = f[j]
      BY <1>4, <2>2
    <3> QED  BY <1>1, <3>1 DEF Fits
  <2> QED  BY <2>1, <2>2
<1>9. n.last = IF t = <<>> THEN NoBlock ELSE Last(t)
  BY <1>1, <1>4
<1>10. Level(g, n, t)
  BY <1>1, <1>6, <1>7, <1>8, <1>9 DEF Level, p
<1> QED  BY <1>10 DEF g, n, t, k

LEMMA AboveAfter ==
  ASSUME NEW h \in [Chunks -> Nat], NEW b, NEW m, NEW f \in Seq(Blocks), Fits(h, b, f),
         NEW r, Gives(h, b, m, r), NEW k \in Marks, k.chunks # <<>>, Under(k, b, f)
  PROVE  Above(k, r.mark, Append(f, r.block))
<1> DEFINE g == r.heap
           n == r.mark
           d == r.block
           p == Before(n)
           t == Append(f, d)
<1>1. /\ g \in [Chunks -> Nat] /\ n \in Marks /\ d \in Blocks
      /\ n.last = d /\ n.at = b.at
      /\ Sound(g, n) /\ Placed(g, n) /\ Follows(b, p) /\ Clear(b, d)
  BY DEF Gives
<1>2. p \in Marks /\ Sound(g, p)
  BY <1>1, BeforeIs
<1>3. b \in Marks /\ Sound(h, b) /\ Follows(k, b)
  BY DEF Fits, Under
<1> HIDE DEF g, n, d, p
<1>4. /\ Len(f) \in Nat /\ Len(t) = Len(f) + 1 /\ t[Len(t)] = d
      /\ \A j \in 1 .. Len(f) : t[j] = f[j]
  BY <1>1, AppendIs
<1> HIDE DEF t
<1>5. Follows(k, p)
  BY <1>1, <1>2, <1>3, FollowsTransitive
<1>6. Clear(k, d)
  BY <1>1, <1>3, ClearEarlier
<1>7. ASSUME NEW j \in 1 .. Len(t)
      PROVE  Clear(k, t[j])
  <2>1. j = Len(t) \/ j \in 1 .. Len(f)
    BY <1>4
  <2> QED  BY <1>4, <1>6, <2>1 DEF Under
<1>8. Clear(k, n.at)
  BY <1>1 DEF Under
<1>9. Above(k, n, t)
  BY <1>5, <1>7, <1>8 DEF Above, p
<1> QED  BY <1>9 DEF n, t, d

\* A change of the heap elsewhere
LEMMA LevelSame ==
  ASSUME NEW h \in [Chunks -> Nat], NEW g \in [Chunks -> Nat], NEW m \in Marks,
         NEW f \in Seq(Blocks), Level(h, m, f), Same(h, g, m)
  PROVE  Level(g, m, f)
<1> DEFINE b == Before(m)
<1>1. b \in Marks /\ Follows(b, m) /\ Sound(h, m) /\ Placed(h, m)
  BY BeforeIs DEF Level
<1>2. Same(h, g, b)
  BY <1>1, SameEarlier
<1>3. Sound(g, m)
  BY <1>1, SoundSame
<1>4. Placed(g, m)
  <2>1. m.last # NoBlock /\ IsBig(m) => m.last.chunk \in Reach(m)
    BY MarkTypes, LastIn DEF IsBig, Reach
  <2> QED  BY <1>1, <2>1 DEF Placed, Same
<1> HIDE DEF b
<1>5. Holds(g, b, m.at) /\ \A j \in 1 .. Len(f) - 1 : Holds(g, b, f[j])
  BY <1>2, HeldSame DEF Level, b
<1> QED  BY <1>3, <1>4, <1>5 DEF Level, b

-----------------------------------------------------------------------------
(* All the marks and frames of a pool. *)

LEMMA TowerIs ==
  ASSUME NEW h, NEW ms, NEW fs, Tower(h, ms, fs), NEW i \in 1 .. Len(ms)
  PROVE  /\ ms[i] \in Marks /\ fs[i] \in Seq(Blocks) /\ Level(h, ms[i], fs[i])
         /\ ms[i].chunks # <<>> /\ Sound(h, ms[i])
         /\ \A k \in 1 .. i - 1 : Above(ms[k], ms[i], fs[i])
<1>1. ms[i] \in Marks
  BY ElementOfSeq DEF Tower
<1>2. i \in 1 .. Len(fs)
  BY DEF Tower
<1>3. fs[i] \in Seq(Blocks)
  <2> DEFINE S == Seq(Blocks)
  <2>1. fs \in Seq(S)
    BY DEF Tower
  <2> HIDE DEF S
  <2>2. fs[i] \in S
    BY <1>2, <2>1, ElementOfSeq
  <2> QED  BY <2>2 DEF S
<1>4. Level(h, ms[i], fs[i]) /\ \A k \in 1 .. i - 1 : Above(ms[k], ms[i], fs[i])
  BY DEF Tower, Levels
<1>5. Sound(h, ms[i])
  BY <1>4 DEF Level
<1>6. ms[i].chunks # <<>>
  BY <1>5 DEF Sound
<1> QED  BY <1>1, <1>3, <1>4, <1>5, <1>6

\* The topmost mark and its frame
LEMMA TopIs ==
  ASSUME NEW h, NEW ms, NEW fs, Tower(h, ms, fs), ms # <<>>
  PROVE  /\ h \in [Chunks -> Nat] /\ ms \in Seq(Marks) /\ fs \in Seq(Seq(Blocks))
         /\ Len(ms) = Len(fs)
         /\ fs # <<>> /\ Len(ms) \in Nat /\ Len(ms) >= 1 /\ Len(ms) \in 1 .. Len(ms)
         /\ Last(ms) = ms[Len(ms)] /\ Last(fs) = fs[Len(ms)]
         /\ Last(ms) \in Marks /\ Last(fs) \in Seq(Blocks)
         /\ Level(h, Last(ms), Last(fs)) /\ Sound(h, Last(ms)) /\ Placed(h, Last(ms))
         /\ Last(ms).last = IF Last(fs) = <<>> THEN NoBlock ELSE Last(Last(fs))
         /\ \A k \in 1 .. Len(ms) - 1 : Above(ms[k], Last(ms), Last(fs))
<1>1. /\ h \in [Chunks -> Nat] /\ ms \in Seq(Marks) /\ fs \in Seq(Seq(Blocks))
      /\ Len(ms) = Len(fs)
  BY DEF Tower
<1>2. Len(ms) \in Nat /\ Len(ms) >= 1 /\ Last(ms) = ms[Len(ms)]
  BY <1>1, FrontIs
<1>3. Len(ms) \in 1 .. Len(ms)
  BY <1>2
<1>4. fs # <<>>
  BY <1>1, <1>2, EmptySeq
<1>5. Last(fs) = fs[Len(ms)]
  BY <1>1 DEF Last
<1>6. /\ ms[Len(ms)] \in Marks /\ fs[Len(ms)] \in Seq(Blocks)
      /\ Level(h, ms[Len(ms)], fs[Len(ms)])
      /\ \A k \in 1 .. Len(ms) - 1 : Above(ms[k], ms[Len(ms)], fs[Len(ms)])
  BY <1>3, TowerIs
<1>7. /\ Sound(h, Last(ms)) /\ Placed(h, Last(ms))
      /\ Last(ms).last = IF Last(fs) = <<>> THEN NoBlock ELSE Last(Last(fs))
  BY <1>2, <1>5, <1>6 DEF Level
<1> QED  BY <1>1, <1>2, <1>3, <1>4, <1>5, <1>6, <1>7

\* The lower part of a tower, with the heap changed elsewhere only
Lower(h, ms, fs, n, g, ns, es) ==
    /\ g \in [Chunks -> Nat] /\ n \in Nat /\ n <= Len(ms)
    /\ ns \in Seq(Marks) /\ es \in Seq(Seq(Blocks)) /\ Len(ns) = n /\ Len(es) = n
    /\ \A i \in 1 .. n : ns[i] = ms[i] /\ es[i] = fs[i] /\ Same(h, g, ms[i])

LEMMA LowerTower ==
  ASSUME NEW h, NEW ms, NEW fs, Tower(h, ms, fs),
         NEW n, NEW g, NEW ns, NEW es, Lower(h, ms, fs, n, g, ns, es)
  PROVE  Tower(g, ns, es)
<1>0. Len(ms) \in Nat
  BY LenProperties DEF Tower
<1>g. /\ g \in [Chunks -> Nat] /\ n \in Nat /\ n <= Len(ms)
      /\ ns \in Seq(Marks) /\ es \in Seq(Seq(Blocks)) /\ Len(ns) = n /\ Len(es) = n
      /\ \A i \in 1 .. n : ns[i] = ms[i] /\ es[i] = fs[i] /\ Same(h, g, ms[i])
  BY DEF Lower
<1>1. ASSUME NEW i \in 1 .. Len(ns)
      PROVE  /\ Level(g, ns[i], es[i])
             /\ \A k \in 1 .. i - 1 : Above(ns[k], ns[i], es[i])
  <2>1. i \in 1 .. Len(ms) /\ i \in 1 .. n
    BY <1>0, <1>g
  <2>2. /\ ms[i] \in Marks /\ fs[i] \in Seq(Blocks) /\ Level(h, ms[i], fs[i])
        /\ \A k \in 1 .. i - 1 : Above(ms[k], ms[i], fs[i])
    BY <2>1, TowerIs
  <2>3. Level(g, ms[i], fs[i])
    BY <1>g, <2>1, <2>2, LevelSame DEF Tower
  <2>4. \A k \in 1 .. i - 1 : ns[k] = ms[k]
    <3>1. n \in Nat /\ \A k \in 1 .. n : ns[k] = ms[k]
      BY <1>g
    <3>2. \A k \in 1 .. i - 1 : k \in 1 .. n
      BY <2>1, <3>1
    <3> QED  BY <3>1, <3>2
  <2> QED  BY <1>g, <2>1, <2>2, <2>3, <2>4
<1>2. Levels(g, ns, es)
  BY <1>1 DEF Levels
<1> QED  BY <1>g, <1>2 DEF Tower

\* A lower part with one more mark on it
OneMore(h, ms, fs, n, g, ns, es) ==
    /\ g \in [Chunks -> Nat] /\ n \in Nat /\ n <= Len(ms)
    /\ ns \in Seq(Marks) /\ es \in Seq(Seq(Blocks))
    /\ Len(ns) = n + 1 /\ Len(es) = n + 1
    /\ Level(g, ns[n + 1], es[n + 1])
    /\ \A i \in 1 .. n :
         /\ ns[i] = ms[i] /\ es[i] = fs[i]
         /\ Same(h, g, ms[i]) /\ Above(ms[i], ns[n + 1], es[n + 1])

LEMMA OneMoreMark ==
  ASSUME NEW h, NEW ms, NEW fs, Tower(h, ms, fs),
         NEW n, NEW g, NEW ns, NEW es, OneMore(h, ms, fs, n, g, ns, es)
  PROVE  Tower(g, ns, es)
<1> DEFINE m == ns[n + 1]
           f == es[n + 1]
<1>g. /\ g \in [Chunks -> Nat] /\ n \in Nat /\ n <= Len(ms)
      /\ ns \in Seq(Marks) /\ es \in Seq(Seq(Blocks))
      /\ Len(ns) = n + 1 /\ Len(es) = n + 1 /\ Level(g, m, f)
      /\ \A i \in 1 .. n : /\ ns[i] = ms[i] /\ es[i] = fs[i]
                           /\ Same(h, g, ms[i]) /\ Above(ms[i], m, f)
  BY DEF OneMore
<1>0. Len(ms) \in Nat
  BY LenProperties DEF Tower
<1>1. ASSUME NEW i \in 1 .. Len(ns)
      PROVE  /\ Level(g, ns[i], es[i])
             /\ \A k \in 1 .. i - 1 : Above(ns[k], ns[i], es[i])
  <2>1. CASE i = n + 1
    <3>1. \A k \in 1 .. i - 1 : ns[k] = ms[k] /\ Above(ms[k], m, f)
      BY <1>g, <2>1
    <3> QED  BY <1>g, <2>1, <3>1
  <2>2. CASE i # n + 1
    <3>1. i \in 1 .. Len(ms) /\ i \in 1 .. n
      BY <1>0, <1>g, <2>2
    <3>2. /\ ms[i] \in Marks /\ fs[i] \in Seq(Blocks) /\ Level(h, ms[i], fs[i])
          /\ \A k \in 1 .. i - 1 : Above(ms[k], ms[i], fs[i])
      BY <3>1, TowerIs
    <3>3. Level(g, ms[i], fs[i])
      BY <1>g, <3>1, <3>2, LevelSame DEF Tower
    <3>4. \A k \in 1 .. i - 1 : ns[k] = ms[k]
      <4>1. n \in Nat /\ \A k \in 1 .. n : ns[k] = ms[k]
        BY <1>g
      <4>2. \A k \in 1 .. i - 1 : k \in 1 .. n
        BY <3>1, <4>1
      <4> QED  BY <4>1, <4>2
    <3> QED  BY <1>g, <3>1, <3>2, <3>3, <3>4
  <2> QED  BY <2>1, <2>2
<1>2. Levels(g, ns, es)
  BY <1>1 DEF Levels
<1> QED  BY <1>g, <1>2 DEF Tower

\* The topmost mark with another last block
LEMMA ReplacedTower ==
  ASSUME NEW h, NEW ms, NEW fs, Tower(h, ms, fs), ms # <<>>,
         NEW b, NEW m, NEW f \in Seq(Blocks), Fits(h, b, f),
         \A i \in 1 .. Len(ms) - 1 : Under(ms[i], b, f), NEW r, Gives(h, b, m, r)
  PROVE  Tower(r.heap, Replace(ms, r.mark), Replace(fs, Append(f, r.block)))
<1> DEFINE g == r.heap
           n == r.mark
           t == Append(f, r.block)
           ns == Replace(ms, n)
           es == Replace(fs, t)
           l == Len(ms) - 1
<1>1. g \in [Chunks -> Nat] /\ n \in Marks /\ r.block \in Blocks /\ Same(h, g, b)
  BY DEF Gives
<1>2. /\ h \in [Chunks -> Nat] /\ ms \in Seq(Marks) /\ fs \in Seq(Seq(Blocks))
      /\ fs # <<>> /\ Len(ms) = Len(fs) /\ Len(ms) \in Nat /\ Len(ms) >= 1
  BY TopIs
<1>3. t \in Seq(Blocks)
  BY <1>1, AppendProperties
<1>4. Level(g, n, t)
  BY <1>2, LevelAfter
<1>5. l \in Nat /\ l <= Len(ms) /\ l + 1 = Len(ms)
  BY <1>2
<1>6. ASSUME NEW i \in 1 .. l
      PROVE  Above(ms[i], n, t) /\ Same(h, g, ms[i])
  <2>1. i \in 1 .. Len(ms)
    BY <1>2
  <2>2. ms[i] \in Marks /\ ms[i].chunks # <<>>
    BY <2>1, TowerIs
  <2>3. Under(ms[i], b, f)
    OBVIOUS
  <2>4. Above(ms[i], n, t)
    BY <1>2, <2>2, <2>3, AboveAfter
  <2>5. b \in Marks /\ Follows(ms[i], b)
    BY <2>3 DEF Fits, Under
  <2>6. Same(h, g, ms[i])
    BY <1>1, <2>2, <2>5, SameEarlier
  <2> QED  BY <2>4, <2>6
<1> HIDE DEF g, n, t
<1>7. /\ ns \in Seq(Marks) /\ Len(ns) = Len(ms) /\ ns[Len(ms)] = n
      /\ \A i \in 1 .. Len(ms) - 1 : ns[i] = ms[i]
  <2>1. ms \in Seq(Marks) /\ n \in Marks
    BY <1>1, <1>2
  <2> QED  BY <2>1, ReplaceIs
<1>8. /\ es \in Seq(Seq(Blocks)) /\ Len(es) = Len(ms) /\ es[Len(ms)] = t
      /\ \A i \in 1 .. Len(ms) - 1 : es[i] = fs[i]
  <2> DEFINE S == Seq(Blocks)
  <2>1. fs \in Seq(S) /\ t \in S /\ fs # <<>>
    BY <1>2, <1>3
  <2> HIDE DEF S
  <2>2. /\ es \in Seq(S) /\ Len(es) = Len(fs) /\ es[Len(fs)] = t
        /\ \A i \in 1 .. Len(fs) - 1 : es[i] = fs[i]
    BY <2>1, ReplaceIs
  <2> QED  BY <1>2, <2>2 DEF S
<1> HIDE DEF ns, es
<1>9. /\ Len(ns) = l + 1 /\ Len(es) = l + 1 /\ ns[l + 1] = n /\ es[l + 1] = t
      /\ \A i \in 1 .. l : ns[i] = ms[i] /\ es[i] = fs[i]
  BY <1>5, <1>7, <1>8
<1> HIDE DEF l
<1>10. Tower(g, ns, es)
  <2>1. OneMore(h, ms, fs, l, g, ns, es)
    BY <1>1, <1>4, <1>5, <1>6, <1>7, <1>8, <1>9 DEF OneMore
  <2> QED  BY <2>1, OneMoreMark
<1> QED  BY <1>10 DEF g, n, t, ns, es

LEMMA AllocTower ==
  ASSUME NEW h, NEW ms, NEW fs, Tower(h, ms, fs), ms # <<>>,
         NEW r, Gives(h, Last(ms), Last(ms), r)
  PROVE  Tower(r.heap, Replace(ms, r.mark), Replace(fs, Append(Last(fs), r.block)))
<1> DEFINE m == Last(ms)
           f == Last(fs)
<1>1. /\ h \in [Chunks -> Nat] /\ m \in Marks /\ f \in Seq(Blocks) /\ Level(h, m, f)
      /\ Len(ms) \in Nat /\ \A k \in 1 .. Len(ms) - 1 : Above(ms[k], m, f)
  BY TopIs
<1>2. Gives(h, m, m, r)
  OBVIOUS
<1> HIDE DEF m, f
<1>3. Fits(h, m, f)
  BY <1>1, LevelIsBase
<1>4. ASSUME NEW i \in 1 .. Len(ms) - 1
      PROVE  Under(ms[i], m, f)
  <2>1. i \in 1 .. Len(ms)
    BY <1>1
  <2>2. ms[i] \in Marks /\ ms[i].chunks # <<>>
    BY <2>1, TowerIs
  <2> QED  BY <1>1, <2>2, AboveIsUnder
<1>5. Tower(r.heap, Replace(ms, r.mark), Replace(fs, Append(f, r.block)))
  BY <1>1, <1>2, <1>3, <1>4, ReplacedTower
<1> QED  BY <1>5 DEF f

LEMMA ResizeTower ==
  ASSUME NEW h, NEW ms, NEW fs, Tower(h, ms, fs), ms # <<>>, Last(ms).last # NoBlock,
         NEW r, Gives(h, Before(Last(ms)), Last(ms), r)
  PROVE  Tower(r.heap, Replace(ms, r.mark), Replace(fs, Replace(Last(fs), r.block)))
<1> DEFINE m == Last(ms)
           f == Last(fs)
           b == Before(m)
           t == Front(f)
<1>1. /\ h \in [Chunks -> Nat] /\ m \in Marks /\ f \in Seq(Blocks) /\ Level(h, m, f)
      /\ Len(ms) \in Nat /\ \A k \in 1 .. Len(ms) - 1 : Above(ms[k], m, f)
      /\ f # <<>>
  BY TopIs
<1>2. Gives(h, b, m, r)
  OBVIOUS
<1> HIDE DEF m, f
<1>3. Fits(h, b, t)
  BY <1>1, LevelIsBaseBefore
<1>4. ASSUME NEW i \in 1 .. Len(ms) - 1
      PROVE  Under(ms[i], b, t)
  <2>1. i \in 1 .. Len(ms)
    BY <1>1
  <2>2. ms[i] \in Marks /\ ms[i].chunks # <<>>
    BY <2>1, TowerIs
  <2> QED  BY <1>1, <2>2, AboveIsUnder
<1>5. t \in Seq(Blocks)
  BY <1>1, FrontIs
<1> HIDE DEF b, t
<1>6. Tower(r.heap, Replace(ms, r.mark), Replace(fs, Append(t, r.block)))
  BY <1>2, <1>3, <1>4, <1>5, ReplacedTower
<1>7. Append(t, r.block) = Replace(f, r.block)
  BY DEF Replace, t
<1> QED  BY <1>6, <1>7 DEF f

\* The beginning of a sequence
LEMMA PrefixIs ==
  ASSUME NEW S, NEW s \in Seq(S), NEW n \in 1 .. Len(s)
  PROVE  LET t == SubSeq(s, 1, n) IN
         t \in Seq(S) /\ Len(t) = n /\ \A x \in 1 .. n : t[x] = s[x]
<1>1. n \in Int /\ n >= 1 /\ 1 \in Int /\ \A x \in 1 .. n : x \in 1 .. Len(s)
  BY LenProperties
<1>2. \A x \in 1 .. n : s[x] \in S
  BY <1>1, ElementOfSeq
<1>3. /\ SubSeq(s, 1, n) \in Seq(S)
      /\ Len(SubSeq(s, 1, n)) = IF 1 <= n THEN n - 1 + 1 ELSE 0
      /\ \A x \in 1 .. n - 1 + 1 : SubSeq(s, 1, n)[x] = s[1 + x - 1]
  BY <1>1, <1>2, SubSeqProperties
<1>4. n - 1 + 1 = n /\ \A x \in 1 .. n : 1 + x - 1 = x
  BY <1>1
<1> QED  BY <1>1, <1>3, <1>4

LEMMA FrontOfAppend ==
  ASSUME NEW S, NEW s \in Seq(S), NEW e \in S
  PROVE  Front(Append(s, e)) = s
<1> DEFINE t == Append(s, e)
           f == Front(t)
<1>1. /\ t \in Seq(S) /\ t # <<>> /\ Len(s) \in Nat /\ Len(t) = Len(s) + 1
      /\ \A x \in 1 .. Len(s) : t[x] = s[x]
  BY AppendIs
<1> HIDE DEF t
<1>2. f \in Seq(S) /\ Len(f) = Len(t) - 1 /\ \A x \in 1 .. Len(t) - 1 : f[x] = t[x]
  BY <1>1, FrontIs
<1> HIDE DEF f
<1>3. Len(f) = Len(s) /\ \A x \in 1 .. Len(f) : f[x] = s[x]
  BY <1>1, <1>2
<1>4. f = s
  BY <1>2, <1>3, SeqEqual
<1> QED  BY <1>4 DEF f, t

LEMMA PushTower ==
  ASSUME NEW h, NEW ms, NEW fs, Tower(h, ms, fs), ms # <<>>,
         NEW r, Pushes(h, Last(ms), r)
  PROVE  Tower(r.heap, Append(ms, r.mark), Append(fs, <<>>))
<1> DEFINE m == Last(ms)
           g == r.heap
           n == r.mark
           l == Len(ms)
           ns == Append(ms, n)
           es == Append(fs, <<>>)
<1>1. /\ h \in [Chunks -> Nat] /\ m \in Marks /\ Last(fs) \in Seq(Blocks)
      /\ ms \in Seq(Marks) /\ fs \in Seq(Seq(Blocks)) /\ Len(fs) = l
      /\ l \in Nat /\ m = ms[l] /\ Level(h, m, Last(fs)) /\ Sound(h, m)
      /\ \A k \in 1 .. l - 1 : Above(ms[k], m, Last(fs))
  BY TopIs
<1>2. /\ g \in [Chunks -> Nat] /\ n \in Marks /\ n.last = NoBlock
      /\ Same(h, g, m) /\ Sound(g, n) /\ Follows(m, n)
      /\ Clear(m, n.at) /\ Holds(g, n, n.at)
  BY DEF Pushes
<1> HIDE DEF m, g, n
<1>3. Before(n) = n /\ n.at \in Blocks
  BY <1>2, BeforeNone, MarkTypes
<1>4. Level(g, n, <<>>)
  <2>1. Len(<<>>) = 0
    OBVIOUS
  <2>2. Placed(g, n)
    BY <1>2 DEF Placed
  <2>3. n.last = IF <<>> = <<>> THEN NoBlock ELSE Last(<<>>)
    BY <1>2
  <2> QED  BY <1>2, <1>3, <2>1, <2>2, <2>3 DEF Level
<1>5. ASSUME NEW i \in 1 .. l
      PROVE  Same(h, g, ms[i]) /\ Above(ms[i], n, <<>>)
  <2>1. ms[i] \in Marks /\ ms[i].chunks # <<>>
    BY TowerIs
  <2>2. Follows(ms[i], m)
    <3>1. CASE i = l
      BY <1>1, <2>1, <3>1, FollowsSelf
    <3>2. CASE i # l
      <4>1. i \in 1 .. l - 1
        BY <1>1, <3>2
      <4>2. Under(ms[i], m, Last(fs))
        BY <1>1, <2>1, <4>1, AboveIsUnder
      <4> QED  BY <4>2 DEF Under
    <3> QED  BY <3>1, <3>2
  <2>3. Follows(ms[i], n)
    BY <1>1, <1>2, <2>1, <2>2, FollowsTransitive
  <2>4. Clear(ms[i], n.at)
    BY <1>1, <1>2, <1>3, <2>1, <2>2, ClearEarlier
  <2>5. Same(h, g, ms[i])
    BY <1>1, <1>2, <2>1, <2>2, SameEarlier
  <2>6. Len(<<>>) = 0
    OBVIOUS
  <2> QED  BY <1>3, <2>3, <2>4, <2>5, <2>6 DEF Above
<1>6. /\ ns \in Seq(Marks) /\ Len(ns) = l + 1 /\ ns[l + 1] = n
      /\ \A i \in 1 .. l : ns[i] = ms[i]
  <2>1. ms \in Seq(Marks) /\ n \in Marks
    BY <1>1, <1>2
  <2> QED  BY <2>1, AppendIs
<1>7. /\ es \in Seq(Seq(Blocks)) /\ Len(es) = l + 1 /\ es[l + 1] = <<>>
      /\ \A i \in 1 .. l : es[i] = fs[i]
  <2> DEFINE S == Seq(Blocks)
             e == <<>>
  <2>1. fs \in Seq(S) /\ e \in S
    BY <1>1
  <2> HIDE DEF S, e
  <2>2. /\ Append(fs, e) \in Seq(S) /\ Len(Append(fs, e)) = Len(fs) + 1
        /\ Append(fs, e)[Len(Append(fs, e))] = e
        /\ \A i \in 1 .. Len(fs) : Append(fs, e)[i] = fs[i]
    BY <2>1, AppendIs
  <2> QED  BY <1>1, <2>2 DEF S, e
<1> HIDE DEF ns, es
<1>8. OneMore(h, ms, fs, l, g, ns, es)
  BY <1>1, <1>2, <1>4, <1>5, <1>6, <1>7 DEF OneMore
<1>9. Tower(g, ns, es)
  BY <1>8, OneMoreMark
<1> QED  BY <1>9 DEF g, n, ns, es

LEMMA PushFrameTower ==
  ASSUME NEW h, NEW ms, NEW fs, Tower(h, ms, fs), ms # <<>>,
         NEW p, Pushes(h, Last(ms), p), NEW r, Gives(p.heap, p.mark, p.mark, r)
  PROVE  Tower(r.heap, Append(ms, r.mark), Append(fs, <<r.block>>))
<1> DEFINE ns == Append(ms, p.mark)
           e == <<>>
           es == Append(fs, e)
           S == Seq(Blocks)
<1>1. Tower(p.heap, ns, es)
  BY PushTower
<1>2. ms \in Seq(Marks) /\ p.mark \in Marks /\ fs \in Seq(S) /\ r.block \in Blocks /\ e \in S
  BY TopIs DEF Pushes, Gives
<1>3. Append(e, r.block) = <<r.block>>
  BY <1>2
<1> HIDE DEF e, S
<1>4. ns # <<>> /\ Last(ns) = p.mark /\ Front(ns) = ms
  BY <1>2, AppendIs, FrontOfAppend
<1>5. Last(es) = e /\ Front(es) = fs
  BY <1>2, AppendIs, FrontOfAppend
<1> HIDE DEF ns, es
<1>6. Tower(r.heap, Replace(ns, r.mark), Replace(es, Append(Last(es), r.block)))
  BY <1>1, <1>4, AllocTower
<1> QED  BY <1>3, <1>4, <1>5, <1>6 DEF Replace

\* What a list holds beyond one it grew from
LEMMA BeyondIs ==
  ASSUME NEW S, NEW s \in Seq(S), NEW t \in Seq(S), Starts(t, s), Differ(s)
  PROVE  Beyond(s, t) = ToSet(s) \ ToSet(t)
<1>0. Len(s) \in Nat /\ Len(t) \in Nat /\ Len(t) <= Len(s)
  BY LenProperties DEF Starts
<1> DEFINE m == Len(t) + 1
           n == Len(s)
           u == SubSeq(s, m, n)
<1>1. m \in Int /\ n \in Int /\ \A x \in m .. n : x \in 1 .. Len(s)
  BY <1>0
<1>2. \A x \in m .. n : s[x] \in S
  BY <1>1, ElementOfSeq
<1> HIDE DEF m, n
<1>3. /\ u \in Seq(S) /\ Len(u) = IF m <= n THEN n - m + 1 ELSE 0
      /\ \A x \in 1 .. n - m + 1 : u[x] = s[m + x - 1]
  BY <1>1, <1>2, SubSeqProperties
<1> HIDE DEF u
<1>4. Len(u) = Len(s) - Len(t) /\ \A x \in 1 .. Len(u) : u[x] = s[Len(t) + x]
  <2>1. n - m + 1 = Len(s) - Len(t) /\ \A x \in 1 .. n - m + 1 : m + x - 1 = Len(t) + x
    BY <1>0 DEF m, n
  <2>2. Len(u) = n - m + 1
    BY <1>0, <1>3 DEF m, n
  <2> QED  BY <1>3, <2>1, <2>2
<1>5. ASSUME NEW c \in ToSet(u)
      PROVE  c \in ToSet(s) /\ c \notin ToSet(t)
  <2>1. PICK x \in 1 .. Len(u) : u[x] = c
    BY <1>3, ToSetIs
  <2>2. Len(t) + x \in 1 .. Len(s) /\ s[Len(t) + x] = c
    BY <1>0, <1>4, <2>1
  <2>3. ASSUME c \in ToSet(t)
        PROVE  FALSE
    <3>1. PICK y \in 1 .. Len(t) : t[y] = c
      BY <2>3, ToSetIs
    <3>2. y \in 1 .. Len(s) /\ s[y] = c
      BY <1>0, <3>1 DEF Starts
    <3>3. y = Len(t) + x
      BY <2>2, <3>2 DEF Differ
    <3> QED  BY <1>0, <1>4, <3>3
  <2> QED  BY <2>2, <2>3, ToSetIs
<1>6. ASSUME NEW c \in ToSet(s), c \notin ToSet(t)
      PROVE  c \in ToSet(u)
  <2>1. PICK x \in 1 .. Len(s) : s[x] = c
    BY ToSetIs
  <2>2. ~(x \in 1 .. Len(t))
    <3>1. ASSUME x \in 1 .. Len(t)
          PROVE  FALSE
      <4>1. t[x] = c
        BY <2>1, <3>1 DEF Starts
      <4> QED  BY <1>6, <3>1, <4>1, ToSetIs
    <3> QED  BY <3>1
  <2>3. x - Len(t) \in 1 .. Len(u) /\ Len(t) + (x - Len(t)) = x
    BY <1>0, <1>4, <2>2
  <2>4. u[x - Len(t)] = c
    BY <1>4, <2>1, <2>3
  <2> QED  BY <1>3, <2>3, <2>4, ToSetIs
<1>7. ToSet(u) = ToSet(s) \ ToSet(t)
  BY <1>5, <1>6
<1> QED  BY <1>7 DEF Beyond, u, m, n

\* Popping m frees what the mark n below it does not reach
LEMMA FreedIs ==
  ASSUME NEW h \in [Chunks -> Nat], NEW n \in Marks, NEW m \in Marks,
         Sound(h, m), Follows(n, m)
  PROVE  FreedBy(m, n) = Reach(m) \ Reach(n)
<1>1. /\ m.big \in Seq(Chunks) /\ n.big \in Seq(Chunks)
      /\ m.chunks \in Seq(Chunks) /\ n.chunks \in Seq(Chunks)
  BY MarkTypes
<1>2. Starts(n.big, m.big) /\ Differ(m.big)
  BY DEF Follows, Sound
<1>3. Starts(n.chunks, m.chunks) /\ Differ(m.chunks)
  BY DEF Follows, Sound
<1>4. Beyond(m.big, n.big) = ToSet(m.big) \ ToSet(n.big)
  BY <1>1, <1>2, BeyondIs
<1>5. Beyond(m.chunks, n.chunks) = ToSet(m.chunks) \ ToSet(n.chunks)
  BY <1>1, <1>3, BeyondIs
<1>6. ToSet(n.chunks) \subseteq ToSet(m.chunks) /\ ToSet(n.big) \subseteq ToSet(m.big)
  BY FollowsReach
<1>7. ToSet(m.chunks) \cap ToSet(m.big) = {}
  BY DEF Sound
<1> QED  BY <1>4, <1>5, <1>6, <1>7 DEF FreedBy, Reach

LEMMA PopTower ==
  ASSUME NEW h, NEW ms, NEW fs, Tower(h, ms, fs), NEW i \in 2 .. Len(ms)
  PROVE  LET g == Without(h, FreedBy(ms[i], ms[i - 1])) IN
         /\ Tower(g, SubSeq(ms, 1, i - 1), SubSeq(fs, 1, i - 1))
         /\ Len(SubSeq(ms, 1, i - 1)) = i - 1 /\ Last(SubSeq(ms, 1, i - 1)) = ms[i - 1]
         /\ Exact(h, ms[i]) => Exact(g, ms[i - 1])
<1> DEFINE m == ms[i]
           k == ms[i - 1]
           F == FreedBy(m, k)
           g == Without(h, F)
           l == i - 1
           ns == SubSeq(ms, 1, l)
           es == SubSeq(fs, 1, l)
<1>1. /\ h \in [Chunks -> Nat] /\ ms \in Seq(Marks) /\ fs \in Seq(Seq(Blocks))
      /\ Len(ms) = Len(fs) /\ Len(ms) \in Nat
  BY LenProperties DEF Tower
<1>2. /\ i \in 1 .. Len(ms) /\ l \in 1 .. Len(ms) /\ l \in 1 .. i - 1 /\ l \in Nat
      /\ l <= Len(ms) /\ l >= 1
  BY <1>1
<1>3. /\ m \in Marks /\ fs[i] \in Seq(Blocks) /\ Level(h, m, fs[i]) /\ Sound(h, m)
      /\ \A j \in 1 .. l : Above(ms[j], m, fs[i])
  BY <1>2, TowerIs
<1>4. /\ k \in Marks /\ k.chunks # <<>> /\ fs[l] \in Seq(Blocks) /\ Level(h, k, fs[l])
      /\ \A j \in 1 .. l - 1 : Above(ms[j], k, fs[l])
  BY <1>2, TowerIs
<1>5. Follows(k, m)
  BY <1>1, <1>2, <1>3, <1>4, AboveIsUnder DEF Under
<1>6. F = Reach(m) \ Reach(k) /\ Reach(k) \subseteq Reach(m) /\ Reach(m) \subseteq Chunks
  BY <1>1, <1>3, <1>4, <1>5, FreedIs, FollowsReach, MarkTypes
<1> HIDE DEF F
<1>7. g \in [Chunks -> Nat] /\ \A c \in Chunks : g[c] = IF c \in F THEN 0 ELSE h[c]
  BY <1>1 DEF Without
<1> HIDE DEF m, k, g
<1>8. ASSUME NEW j \in 1 .. l
      PROVE  Same(h, g, ms[j])
  <2>1. j \in 1 .. Len(ms)
    BY <1>1, <1>2
  <2>2. ms[j] \in Marks /\ ms[j].chunks # <<>>
    BY <2>1, TowerIs
  <2>3. Follows(ms[j], k)
    <3>1. CASE j = l
      BY <1>4, <3>1, FollowsSelf DEF k
    <3>2. CASE j # l
      <4>1. j \in 1 .. l - 1
        BY <1>2, <3>2
      <4>2. Under(ms[j], k, fs[l])
        BY <1>1, <1>4, <2>2, <4>1, AboveIsUnder
      <4> QED  BY <4>2 DEF Under
    <3> QED  BY <3>1, <3>2
  <2>4. Same(h, g, k)
    BY <1>6, <1>7 DEF Same
  <2> QED  BY <1>4, <2>2, <2>3, <2>4, SameEarlier
<1>9. /\ ns \in Seq(Marks) /\ Len(ns) = l /\ \A j \in 1 .. l : ns[j] = ms[j]
  BY <1>1, <1>2, PrefixIs
<1>10. /\ es \in Seq(Seq(Blocks)) /\ Len(es) = l /\ \A j \in 1 .. l : es[j] = fs[j]
  <2> DEFINE S == Seq(Blocks)
  <2>1. fs \in Seq(S) /\ l \in 1 .. Len(fs)
    BY <1>1, <1>2
  <2> HIDE DEF S, l
  <2>2. es \in Seq(S) /\ Len(es) = l /\ \A j \in 1 .. l : es[j] = fs[j]
    BY <2>1, PrefixIs
  <2> QED  BY <2>2 DEF S
<1>11. Last(ns) = k
  <2>1. Last(ns) = ns[l]
    BY <1>9 DEF Last
  <2>2. l \in 1 .. l
    BY <1>2
  <2> QED  BY <1>9, <2>1, <2>2 DEF k
<1> HIDE DEF ns, es, l
<1>12. Tower(g, ns, es)
  <2>1. Lower(h, ms, fs, l, g, ns, es)
    BY <1>2, <1>7, <1>8, <1>9, <1>10 DEF Lower
  <2> QED  BY <2>1, LowerTower
<1>13. Exact(h, m) => Exact(g, k)
  BY <1>6, <1>7 DEF Exact
<1> QED  BY <1>9, <1>11, <1>12, <1>13 DEF g, ns, es, F, m, k, l

-----------------------------------------------------------------------------
(* The invariant, and what a step keeps of the promise. *)

\* The pool starts with one mark in one chunk, which has nothing else
LEMMA LifoInvInit ==
  ASSUME LifoInit
  PROVE  LifoInv /\ Promise!Init
<1>1. PICK c \in Chunks :
        /\ heap = [d \in Chunks |-> IF d = c THEN ChunkSize ELSE 0]
        /\ marks = << [chunks |-> <<c>>, big |-> <<>>, free |-> HeaderSize + MarkSize,
                       last |-> NoBlock,
                       at |-> [chunk |-> c, from |-> HeaderSize, size |-> MarkSize]] >>
        /\ frames = << <<>> >> /\ skipped = FALSE
  BY DEF LifoInit
<1> DEFINE a == [chunk |-> c, from |-> HeaderSize, size |-> MarkSize]
           s == <<c>>
           z == <<>>
           f == HeaderSize + MarkSize
           m == [chunks |-> s, big |-> z, free |-> f, last |-> NoBlock, at |-> a]
<1>2. /\ HeaderSize \in Nat /\ MarkSize \in Nat /\ ChunkSize \in Nat
      /\ HeaderSize + MarkSize < ChunkSize
  BY SizesAssumption
<1>3. a \in Blocks /\ a.chunk = c /\ a.from = HeaderSize /\ a.size = MarkSize
  BY <1>2, BlockIs
<1>4. /\ s \in Seq(Chunks) /\ s # <<>> /\ Last(s) = c /\ ToSet(s) = {c} /\ Differ(s)
  BY DEF Last, ToSet, Differ
<1>5. z \in Seq(Chunks) /\ ToSet(z) = {} /\ Differ(z) /\ Len(z) = 0
  BY DEF ToSet, Differ
<1>6. marks = <<m>> /\ frames = <<z>>
  BY <1>1
<1> HIDE DEF a, s
<1>7. f \in Nat /\ HeaderSize <= f /\ f < ChunkSize
  BY <1>2
<1> HIDE DEF f
<1>8. /\ m \in Marks /\ m.chunks = s /\ m.big = z /\ m.free = f /\ m.last = NoBlock
      /\ m.at = a
  BY <1>3, <1>4, <1>5, <1>7 DEF Marks
<1> HIDE DEF m, z
<1>9. heap \in [Chunks -> Nat] /\ heap[c] = ChunkSize /\ \A d \in Chunks \ {c} : heap[d] = 0
  BY <1>1, <1>2
<1>10. Sound(heap, m)
  BY <1>2, <1>4, <1>5, <1>7, <1>8, <1>9 DEF Sound
<1>11. Before(m) = m
  BY <1>8, BeforeNone
<1>12. Holds(heap, m, m.at)
  BY <1>2, <1>3, <1>4, <1>5, <1>8, <1>9 DEF Holds, Reach, f
<1>13. Level(heap, m, z)
  <2>1. Placed(heap, m)
    BY <1>8 DEF Placed
  <2>2. m.last = IF z = <<>> THEN NoBlock ELSE Last(z)
    BY <1>8 DEF z
  <2> QED  BY <1>5, <1>10, <1>11, <1>12, <2>1, <2>2 DEF Level
<1>14. /\ marks \in Seq(Marks) /\ Len(marks) = 1 /\ marks[1] = m /\ Last(marks) = m
  BY <1>6, <1>8 DEF Last
<1>15. /\ frames \in Seq(Seq(Blocks)) /\ Len(frames) = 1 /\ frames[1] = z
  <2>1. z \in Seq(Blocks)
    BY DEF z
  <2> QED  BY <1>6, <2>1
<1>16. Levels(heap, marks, frames)
  <2>1. ASSUME NEW i \in 1 .. Len(marks)
        PROVE  /\ Level(heap, marks[i], frames[i])
               /\ \A k \in 1 .. i - 1 : Above(marks[k], marks[i], frames[i])
    <3>1. i = 1
      BY <1>14
    <3> QED  BY <1>13, <1>14, <1>15, <3>1
  <2> QED  BY <2>1 DEF Levels
<1>17. Tower(heap, marks, frames)
  BY <1>9, <1>14, <1>15, <1>16 DEF Tower
<1>18. Exact(heap, m)
  <2>1. \A d \in Chunks : heap[d] # 0 <=> d = c
    BY <1>2, <1>9
  <2>2. Reach(m) = {c}
    BY <1>4, <1>5, <1>8 DEF Reach
  <2> QED  BY <2>1, <2>2 DEF Exact
<1>19. skipped \in BOOLEAN
  BY <1>1
<1>20. Promise!Init
  BY <1>1 DEF Promise!Init
<1> QED  BY <1>14, <1>17, <1>18, <1>19, <1>20 DEF LifoInv

\* Where the live blocks are
LEMMA LiveIs ==
  ASSUME Tower(heap, marks, frames), NEW skip \in BOOLEAN, NEW d \in Promise!Live(skip)
  PROVE  \E k \in 1 .. Len(marks) : \E j \in 1 .. Len(frames[k]) :
           d = frames[k][j] /\ (skip /\ k = Len(marks) => j # Len(frames[k]))
<1>1. frames \in Seq(Seq(Blocks)) /\ Len(marks) = Len(frames)
  BY DEF Tower
<1>2. PICK k \in DOMAIN frames :
        d \in {frames[k][i] : i \in DOMAIN frames[k] \ IF skip /\ k = Len(frames)
                                                       THEN {Len(frames[k])} ELSE {}}
  BY DEF Promise!Live
<1>3. PICK j \in DOMAIN frames[k] :
        d = frames[k][j] /\ (skip /\ k = Len(frames) => j # Len(frames[k]))
  BY <1>2
<1>4. k \in 1 .. Len(marks)
  BY <1>1
<1>5. frames[k] \in Seq(Blocks)
  BY <1>4, TowerIs
<1>6. j \in 1 .. Len(frames[k])
  BY <1>5, LenProperties
<1> QED  BY <1>1, <1>3, <1>4, <1>6

LEMMA LiveSome ==
  ASSUME Tower(heap, marks, frames), NEW skip \in BOOLEAN, NEW d \in Promise!Live(skip)
  PROVE  \E k \in 1 .. Len(marks) : \E j \in 1 .. Len(frames[k]) : d = frames[k][j]
<1>1. PICK k \in 1 .. Len(marks) : \E j \in 1 .. Len(frames[k]) :
        d = frames[k][j] /\ (skip /\ k = Len(marks) => j # Len(frames[k]))
  BY LiveIs
<1> QED  BY <1>1

LEMMA LiveHeld ==
  ASSUME Tower(heap, marks, frames), marks # <<>>, NEW skip \in BOOLEAN,
         NEW d \in Promise!Live(skip)
  PROVE  /\ d \in Blocks /\ Holds(heap, Last(marks), d)
         /\ skip => Holds(heap, Before(Last(marks)), d)
<1> DEFINE m == Last(marks)
           f == Last(frames)
           b == Before(m)
           l == Len(marks)
<1>0. PICK k \in 1 .. Len(marks) : \E j \in 1 .. Len(frames[k]) :
        d = frames[k][j] /\ (skip /\ k = l => j # Len(frames[k]))
  BY LiveIs
<1>1. PICK j \in 1 .. Len(frames[k]) :
        d = frames[k][j] /\ (skip /\ k = l => j # Len(frames[k]))
  BY <1>0
<1>2. /\ heap \in [Chunks -> Nat] /\ m \in Marks /\ f \in Seq(Blocks) /\ Level(heap, m, f)
      /\ l \in Nat /\ l \in 1 .. l /\ m = marks[l] /\ f = frames[l]
      /\ Sound(heap, m) /\ Placed(heap, m)
      /\ \A i \in 1 .. l - 1 : Above(marks[i], m, f)
  BY TopIs
<1>3. b \in Marks /\ Sound(heap, b) /\ Follows(b, m)
  BY <1>2, BeforeIs
<1>4. /\ marks[k] \in Marks /\ marks[k].chunks # <<>> /\ frames[k] \in Seq(Blocks)
      /\ Level(heap, marks[k], frames[k])
  BY TowerIs
<1>5. d \in Blocks
  BY <1>1, <1>4, ElementOfSeq
<1>6. Fits(heap, marks[k], frames[k])
  BY <1>2, <1>4, LevelIsBase
<1>7. Holds(heap, marks[k], d)
  BY <1>1, <1>6 DEF Fits
<1> HIDE DEF m, f, b
<1>8. CASE k = l
  <2>1. Holds(heap, m, d)
    BY <1>2, <1>7, <1>8
  <2>2. ASSUME skip
        PROVE  Holds(heap, b, d)
    <3>1. Len(f) \in Nat /\ frames[k] = f
      BY <1>2, <1>8, LenProperties
    <3>2. j \in 1 .. Len(f) - 1 /\ d = f[j]
      BY <1>1, <1>8, <2>2, <3>1
    <3> QED  BY <1>2, <3>2 DEF Level, b
  <2> QED  BY <1>5, <2>1, <2>2 DEF m, b
<1>9. CASE k # l
  <2>1. k \in 1 .. l - 1
    BY <1>2, <1>9
  <2>2. Follows(marks[k], b)
    BY <1>2, <2>1 DEF Above, b
  <2>3. Holds(heap, b, d)
    BY <1>2, <1>3, <1>4, <1>5, <1>7, <2>2, HeldLater
  <2>4. Holds(heap, m, d)
    BY <1>2, <1>3, <1>5, <2>3, HeldLater
  <2> QED  BY <1>5, <2>3, <2>4 DEF m, b
<1> QED  BY <1>8, <1>9

\* A block given out behind the last one
LEMMA AllocStep ==
  ASSUME LifoInv, marks # <<>>, NEW r, Gives(heap, Last(marks), Last(marks), r),
         marks' = Replace(marks, r.mark), heap' = r.heap,
         frames' = Replace(frames, Append(Last(frames), r.block)), skipped' = skipped
  PROVE  LifoInv' /\ Promise!Alloc
<1> DEFINE m == Last(marks)
           t == Append(Last(frames), r.block)
<1>1. /\ Tower(heap, marks, frames) /\ skipped \in BOOLEAN
      /\ marks # <<>> /\ ~skipped => Exact(heap, Last(marks))
  BY DEF LifoInv
<1>2. /\ marks \in Seq(Marks) /\ frames \in Seq(Seq(Blocks)) /\ frames # <<>>
      /\ m \in Marks /\ Last(frames) \in Seq(Blocks)
      /\ Last(frames) = frames[Len(frames)]
  BY <1>1, TopIs
<1>3. /\ r.mark \in Marks /\ r.block \in Blocks /\ Clear(m, r.block)
      /\ Exact(heap, m) => Exact(r.heap, r.mark)
  BY DEF Gives
<1>4. Tower(heap', marks', frames')
  <2>1. Tower(r.heap, Replace(marks, r.mark), Replace(frames, t))
    BY <1>1, AllocTower
  <2> QED  BY <2>1
<1>5. Last(marks') = r.mark
  <2>1. marks \in Seq(Marks) /\ r.mark \in Marks
    BY <1>2, <1>3
  <2>2. Last(Replace(marks, r.mark)) = r.mark
    BY <2>1, ReplaceIs
  <2> QED  BY <2>2
<1>6. LifoInv'
  BY <1>1, <1>3, <1>4, <1>5 DEF LifoInv
<1>7. t \in Seq(Blocks) /\ r.block \in ToSet(t)
  BY <1>2, <1>3, AppendProperties, ToSetAppend
<1> HIDE DEF t
<1>8. /\ frames' = [frames EXCEPT ![Len(frames)] = t]
      /\ frames' # <<>> /\ Last(frames') = t
  <2> DEFINE S == Seq(Blocks)
  <2>1. frames \in Seq(S) /\ t \in S /\ frames # <<>>
    BY <1>2, <1>7
  <2> HIDE DEF S
  <2>2. /\ Replace(frames, t) = [frames EXCEPT ![Len(frames)] = t]
        /\ Replace(frames, t) # <<>> /\ Last(Replace(frames, t)) = t
    BY <2>1, ReplaceIs, FrontAppendIs
  <2> QED  BY <2>2 DEF t
<1>9. r.block \in Promise!TopAfter
  BY <1>7, <1>8 DEF Promise!TopAfter, Promise!ToSet, Promise!Last, ToSet, Last
<1>10. Promise!Fresh(r.block)
  <2>1. ASSUME NEW d \in Promise!Live(FALSE)
        PROVE  Promise!Apart(r.block, d)
    <3>1. d \in Blocks /\ Holds(heap, m, d)
      BY <1>1, LiveHeld
    <3> QED  BY <1>2, <1>3, <3>1, ApartIs
  <2> QED  BY <2>1 DEF Promise!Fresh
<1>11. frames' = [frames EXCEPT ![Len(frames)] = Append(frames[Len(frames)], r.block)]
  BY <1>2, <1>8 DEF t
<1>12. Promise!Alloc
  BY <1>9, <1>10, <1>11 DEF Promise!Alloc
<1> QED  BY <1>6, <1>12

\* The last block resized
LEMMA ResizeStep ==
  ASSUME LifoInv, marks # <<>>, Last(marks).last # NoBlock,
         NEW r, Gives(heap, Before(Last(marks)), Last(marks), r), Stays(Last(marks), r),
         marks' = Replace(marks, r.mark), heap' = r.heap,
         frames' = Replace(frames, Replace(Last(frames), r.block)), skipped' = skipped
  PROVE  LifoInv' /\ Promise!Resize
<1> DEFINE m == Last(marks)
           b == Before(m)
           f == Last(frames)
           t == Replace(f, r.block)
<1>1. /\ Tower(heap, marks, frames) /\ skipped \in BOOLEAN
      /\ marks # <<>> /\ ~skipped => Exact(heap, Last(marks))
  BY DEF LifoInv
<1>2. /\ heap \in [Chunks -> Nat] /\ marks \in Seq(Marks) /\ frames \in Seq(Seq(Blocks))
      /\ frames # <<>> /\ m \in Marks /\ f \in Seq(Blocks)
      /\ Sound(heap, m) /\ Placed(heap, m) /\ f = frames[Len(frames)]
      /\ f # <<>> /\ m.last = Last(f)
  BY <1>1, TopIs
<1>3. /\ r.mark \in Marks /\ r.block \in Blocks /\ Clear(b, r.block)
      /\ Exact(heap, m) => Exact(r.heap, r.mark)
  BY DEF Gives
<1>4. Tower(heap', marks', frames')
  <2>1. Tower(r.heap, Replace(marks, r.mark), Replace(frames, t))
    BY <1>1, ResizeTower
  <2> QED  BY <2>1
<1>5. Last(marks') = r.mark
  <2>1. marks \in Seq(Marks) /\ r.mark \in Marks
    BY <1>2, <1>3
  <2>2. Last(Replace(marks, r.mark)) = r.mark
    BY <2>1, ReplaceIs
  <2> QED  BY <2>2
<1>6. LifoInv'
  BY <1>1, <1>3, <1>4, <1>5 DEF LifoInv
<1>7. t \in Seq(Blocks) /\ r.block \in ToSet(t)
  <2>1. f \in Seq(Blocks) /\ f # <<>> /\ r.block \in Blocks
    BY <1>2, <1>3
  <2> HIDE DEF f
  <2>2. t \in Seq(Blocks) /\ t # <<>> /\ Last(t) = r.block
    BY <2>1, ReplaceIs
  <2> HIDE DEF t
  <2> QED  BY <2>2, LastIn
<1> HIDE DEF t, f
<1>8. /\ frames' = [frames EXCEPT ![Len(frames)] = t]
      /\ frames' # <<>> /\ Last(frames') = t
  <2> DEFINE S == Seq(Blocks)
  <2>1. frames \in Seq(S) /\ t \in S /\ frames # <<>>
    BY <1>2, <1>7
  <2> HIDE DEF S
  <2>2. /\ Replace(frames, t) = [frames EXCEPT ![Len(frames)] = t]
        /\ Replace(frames, t) # <<>> /\ Last(Replace(frames, t)) = t
    BY <2>1, ReplaceIs, FrontAppendIs
  <2> QED  BY <2>2 DEF t, f
<1>9. r.block \in Promise!TopAfter
  BY <1>7, <1>8 DEF Promise!TopAfter, Promise!ToSet, Promise!Last, ToSet, Last
<1>10. ASSUME NEW d \in Promise!Live(TRUE)
       PROVE  Promise!Apart(r.block, d)
  <2>1. d \in Blocks /\ Holds(heap, b, d)
    BY <1>1, LiveHeld
  <2>2. b \in Marks
    BY <1>2, BeforeIs
  <2> QED  BY <1>3, <2>1, <2>2, ApartIs
<1>11. frames' = [frames EXCEPT ![Len(frames)] =
                    Append(Promise!Front(frames[Len(frames)]), r.block)]
  BY <1>2, <1>8 DEF t, Replace, Front, Promise!Front
<1>12. Promise!Last(frames) = f /\ Promise!Last(f) = m.last
  BY <1>2 DEF f, Last, Promise!Last
<1>13. \/ Promise!Apart(r.block, m.last)
       \/ r.block.chunk = m.last.chunk /\ r.block.from = m.last.from
  BY DEF Stays
<1> HIDE DEF m, b
<1>14. Promise!Resize
  BY <1>2, <1>9, <1>10, <1>11, <1>12, <1>13 DEF Promise!Resize
<1> QED  BY <1>6, <1>14

\* A mark pushed
LEMMA PushStep ==
  ASSUME LifoInv, marks # <<>>, NEW r, Pushes(heap, Last(marks), r),
         marks' = Append(marks, r.mark), heap' = r.heap,
         frames' = Append(frames, <<>>), skipped' = skipped
  PROVE  LifoInv' /\ Promise!Push
<1>1. /\ Tower(heap, marks, frames) /\ skipped \in BOOLEAN
      /\ marks # <<>> /\ ~skipped => Exact(heap, Last(marks))
  BY DEF LifoInv
<1>2. Tower(heap', marks', frames')
  BY <1>1, PushTower
<1>3. r.mark \in Marks /\ (Exact(heap, Last(marks)) => Exact(r.heap, r.mark))
  BY DEF Pushes
<1>4. Last(marks') = r.mark
  <2>1. marks \in Seq(Marks) /\ r.mark \in Marks
    BY <1>1, <1>3, TopIs
  <2>2. Last(Append(marks, r.mark)) = r.mark
    BY <2>1, AppendIs
  <2> QED  BY <2>2
<1>5. LifoInv'
  BY <1>1, <1>2, <1>3, <1>4 DEF LifoInv
<1>6. Promise!Push
  BY DEF Promise!Push
<1> QED  BY <1>5, <1>6

\* A mark pushed with a block
LEMMA PushFrameStep ==
  ASSUME LifoInv, marks # <<>>, NEW p, Pushes(heap, Last(marks), p),
         NEW r, Gives(p.heap, p.mark, p.mark, r),
         marks' = Append(marks, r.mark), heap' = r.heap,
         frames' = Append(frames, <<r.block>>), skipped' = skipped
  PROVE  LifoInv' /\ Promise!PushFrame
<1> DEFINE m == Last(marks)
           e == <<r.block>>
<1>1. /\ Tower(heap, marks, frames) /\ skipped \in BOOLEAN
      /\ marks # <<>> /\ ~skipped => Exact(heap, m)
  BY DEF LifoInv
<1>2. Tower(heap', marks', frames')
  <2>1. Tower(r.heap, Append(marks, r.mark), Append(frames, <<r.block>>))
    BY <1>1, PushFrameTower
  <2> QED  BY <2>1
<1>3. /\ marks \in Seq(Marks) /\ m \in Marks /\ heap \in [Chunks -> Nat]
      /\ frames \in Seq(Seq(Blocks))
  BY <1>1, TopIs
<1>4. /\ p.heap \in [Chunks -> Nat] /\ p.mark \in Marks /\ Same(heap, p.heap, m)
      /\ Sound(p.heap, p.mark) /\ Follows(m, p.mark)
      /\ Exact(heap, m) => Exact(p.heap, p.mark)
  BY DEF Pushes
<1>5. /\ r.mark \in Marks /\ r.block \in Blocks /\ Clear(p.mark, r.block)
      /\ Exact(p.heap, p.mark) => Exact(r.heap, r.mark)
  BY DEF Gives
<1>6. Last(marks') = r.mark
  <2>1. marks \in Seq(Marks) /\ r.mark \in Marks
    BY <1>3, <1>5
  <2>2. Last(Append(marks, r.mark)) = r.mark
    BY <2>1, AppendIs
  <2> QED  BY <2>2
<1>7. LifoInv'
  BY <1>1, <1>2, <1>4, <1>5, <1>6 DEF LifoInv
<1>8. e \in Seq(Blocks) /\ r.block \in ToSet(e)
  BY <1>5 DEF ToSet
<1> HIDE DEF e
<1>9. frames' # <<>> /\ Last(frames') = e
  <2> DEFINE S == Seq(Blocks)
  <2>1. frames \in Seq(S) /\ e \in S
    BY <1>3, <1>8
  <2> HIDE DEF S
  <2>2. Append(frames, e) # <<>> /\ Last(Append(frames, e)) = e
    BY <2>1, AppendIs
  <2> QED  BY <2>2 DEF e
<1>10. r.block \in Promise!TopAfter
  BY <1>8, <1>9 DEF Promise!TopAfter, Promise!ToSet, Promise!Last, ToSet, Last
<1>11. Promise!Fresh(r.block)
  <2>1. ASSUME NEW d \in Promise!Live(FALSE)
        PROVE  Promise!Apart(r.block, d)
    <3>1. d \in Blocks /\ Holds(heap, m, d)
      BY <1>1, LiveHeld
    <3>2. Holds(p.heap, m, d)
      BY <1>4, <3>1, HeldSame
    <3>3. Holds(p.heap, p.mark, d)
      BY <1>3, <1>4, <3>1, <3>2, HeldLater
    <3> QED  BY <1>4, <1>5, <3>1, <3>3, ApartIs
  <2> QED  BY <2>1 DEF Promise!Fresh
<1>12. Promise!PushFrame
  BY <1>10, <1>11 DEF Promise!PushFrame
<1> QED  BY <1>7, <1>12

\* A mark popped
LEMMA PopStep ==
  ASSUME LifoInv, NEW i \in 2 .. Len(marks), PopMark(i)
  PROVE  LifoInv' /\ Promise!Pop /\ frames # <<>>
<1> DEFINE g == Without(heap, FreedBy(marks[i], marks[i - 1]))
           ns == SubSeq(marks, 1, i - 1)
<1>1. /\ Tower(heap, marks, frames) /\ skipped \in BOOLEAN
      /\ marks # <<>> /\ ~skipped => Exact(heap, Last(marks))
  BY DEF LifoInv
<1>2. /\ heap' = g /\ marks' = ns /\ frames' = SubSeq(frames, 1, i - 1)
      /\ skipped' = (skipped \/ i < Len(marks))
  BY DEF PopMark
<1>3. /\ Tower(g, ns, SubSeq(frames, 1, i - 1)) /\ Last(ns) = marks[i - 1]
      /\ Exact(heap, marks[i]) => Exact(g, marks[i - 1])
  BY <1>1, PopTower
<1> HIDE DEF g, ns
<1>4. /\ Len(marks) = Len(frames) /\ Len(marks) \in Nat /\ frames \in Seq(Seq(Blocks))
  BY <1>1, LenProperties DEF Tower
<1>5. marks # <<>> /\ frames # <<>>
  BY <1>4, EmptySeq
<1>6. Tower(heap', marks', frames')
  BY <1>2, <1>3
<1>7. ASSUME ~skipped'
      PROVE  Exact(heap', Last(marks'))
  <2>1. ~skipped /\ i = Len(marks)
    <3>1. ~skipped /\ ~(i < Len(marks))
      BY <1>2, <1>7
    <3> QED  BY <1>4, <3>1
  <2>2. Last(marks) = marks[i]
    BY <2>1 DEF Last
  <2> QED  BY <1>1, <1>2, <1>3, <1>5, <2>1, <2>2
<1>8. skipped' \in BOOLEAN
  BY <1>1, <1>2
<1>9. LifoInv'
  BY <1>6, <1>7, <1>8 DEF LifoInv
<1>10. Promise!Pop
  BY <1>2, <1>4 DEF Promise!Pop
<1> QED  BY <1>5, <1>9, <1>10

\* The pool closed
LEMMA CloseStep ==
  ASSUME LifoInv, CloseLifo
  PROVE  LifoInv' /\ Promise!Close
<1>1. Tower(heap, marks, frames) /\ skipped \in BOOLEAN
  BY DEF LifoInv
<1>2. heap' \in [Chunks -> Nat]
  <2>1. heap \in [Chunks -> Nat]
    BY <1>1 DEF Tower
  <2> QED  BY <2>1 DEF CloseLifo, Without
<1>3. marks' = <<>> /\ frames' = <<>> /\ skipped' = skipped
  BY DEF CloseLifo
<1>4. Levels(heap', marks', frames')
  BY <1>3 DEF Levels
<1>5. marks' \in Seq(Marks) /\ frames' \in Seq(Seq(Blocks)) /\ Len(marks') = Len(frames')
  BY <1>3
<1>6. Tower(heap', marks', frames')
  BY <1>2, <1>4, <1>5 DEF Tower
<1> QED  BY <1>1, <1>3, <1>6 DEF LifoInv, Promise!Close

LEMMA SizeIs ==
  ASSUME NEW sz \in Sizes
  PROVE  sz \in Nat
  BY SizesAssumption, WordIs

\* A step of the pool, unless it is an excessive resize
LEMMA LifoStep ==
  ASSUME LifoInv, LifoNext, ~excess'
  PROVE  LifoInv' /\ Promise!Next
<1>0. Tower(heap, marks, frames)
  BY DEF LifoInv
<1>t. ASSUME marks # <<>>
      PROVE  /\ heap \in [Chunks -> Nat] /\ Top \in Marks /\ Sound(heap, Top)
             /\ Placed(heap, Top) /\ frames # <<>>
  BY <1>0, <1>t, TopIs DEF Top
<1>1. CASE Alloc
  <2>1. PICK sz \in Sizes, whole \in BOOLEAN :
          /\ marks # <<>> /\ UNCHANGED <<skipped, excess>>
          /\ \E r \in Allocated(Top, heap, sz, whole) :
               /\ TopBecomes(r)
               /\ frames' = Replace(frames, Append(Last(frames), r.block))
    BY <1>1 DEF Alloc, Closed
  <2>2. PICK r \in Allocated(Top, heap, sz, whole) :
               /\ TopBecomes(r)
               /\ frames' = Replace(frames, Append(Last(frames), r.block))
    BY <2>1
  <2>3. Gives(heap, Last(marks), Last(marks), r)
    BY <1>t, <2>1, SizeIs, AllocatedGives DEF Top
  <2>4. LifoInv' /\ Promise!Alloc
    BY <2>1, <2>2, <2>3, AllocStep DEF TopBecomes
  <2> QED  BY <1>t, <2>1, <2>4 DEF Promise!Next
<1>2. CASE PushMark
  <2>1. PICK r \in Pushed(Top, heap) :
          /\ marks # <<>> /\ UNCHANGED <<skipped, excess>>
          /\ marks' = Append(marks, r.mark) /\ heap' = r.heap
          /\ frames' = Append(frames, <<>>)
    BY <1>2 DEF PushMark, Closed
  <2>2. Pushes(heap, Last(marks), r)
    BY <1>t, <2>1, PushedIs DEF Top
  <2>3. LifoInv' /\ Promise!Push
    BY <2>1, <2>2, PushStep
  <2> QED  BY <1>t, <2>1, <2>3 DEF Promise!Next
<1>3. CASE PushFrame
  <2>1. PICK sz \in Sizes, whole \in BOOLEAN :
          /\ marks # <<>> /\ UNCHANGED <<skipped, excess>>
          /\ \E r \in PushedFrame(Top, heap, sz, whole) :
               /\ marks' = Append(marks, r.mark) /\ heap' = r.heap
               /\ frames' = Append(frames, << r.block >>)
    BY <1>3 DEF PushFrame, Closed
  <2>2. PICK r \in PushedFrame(Top, heap, sz, whole) :
               /\ marks' = Append(marks, r.mark) /\ heap' = r.heap
               /\ frames' = Append(frames, << r.block >>)
    BY <2>1
  <2>3. PICK p : Pushes(heap, Last(marks), p) /\ Gives(p.heap, p.mark, p.mark, r)
    BY <1>t, <2>1, SizeIs, PushedFrameIs DEF Top
  <2>4. LifoInv' /\ Promise!PushFrame
    BY <2>1, <2>2, <2>3, PushFrameStep
  <2> QED  BY <1>t, <2>1, <2>4 DEF Promise!Next
<1>4. CASE \E i \in 2 .. Len(marks) : PopMark(i)
  <2>1. LifoInv' /\ Promise!Pop /\ frames # <<>>
    BY <1>4, PopStep
  <2> QED  BY <2>1 DEF Promise!Next
<1>r. ASSUME marks # <<>>, Top.last # NoBlock, NEW r, NEW n, LastBecomes(r, n),
             Gives(heap, Before(Top), Top, r), Stays(Top, r)
      PROVE  LifoInv' /\ Promise!Next
  <2>1. LifoInv' /\ Promise!Resize
    BY <1>r, ResizeStep DEF LastBecomes, TopBecomes, Top
  <2> QED  BY <1>r, <1>t, <2>1 DEF Promise!Next
<1>5. CASE ExpandLast
  <2>0. marks # <<>>
    BY <1>5 DEF ExpandLast, Closed
  <2>1. PICK incr \in Sizes, fix \in BOOLEAN :
          \/ \E r \in Allocated(Top, heap, incr, FALSE) :
               /\ TopBecomes(r)
               /\ frames' = Replace(frames, Append(Last(frames), r.block))
               /\ UNCHANGED <<skipped, excess>>
          \/ /\ Top.last # NoBlock
             /\ \E r \in Expanded(Top, heap, incr, fix) :
                  LastBecomes(r, LastSize(Top, heap) + incr)
    BY <1>5 DEF ExpandLast
  <2>2. CASE \E r \in Allocated(Top, heap, incr, FALSE) :
               /\ TopBecomes(r)
               /\ frames' = Replace(frames, Append(Last(frames), r.block))
               /\ UNCHANGED <<skipped, excess>>
    <3>1. PICK r \in Allocated(Top, heap, incr, FALSE) :
               /\ TopBecomes(r)
               /\ frames' = Replace(frames, Append(Last(frames), r.block))
               /\ UNCHANGED <<skipped, excess>>
      BY <2>2
    <3>2. Gives(heap, Last(marks), Last(marks), r)
      BY <1>t, <2>0, SizeIs, AllocatedGives DEF Top
    <3>3. LifoInv' /\ Promise!Alloc
      BY <2>0, <3>1, <3>2, AllocStep DEF TopBecomes
    <3> QED  BY <1>t, <2>0, <3>3 DEF Promise!Next
  <2>3. CASE /\ Top.last # NoBlock
             /\ \E r \in Expanded(Top, heap, incr, fix) :
                  LastBecomes(r, LastSize(Top, heap) + incr)
    <3>1. PICK r \in Expanded(Top, heap, incr, fix) :
                  LastBecomes(r, LastSize(Top, heap) + incr)
      BY <2>3
    <3>2. ~Excessive(Top, heap, LastSize(Top, heap) + incr)
      BY <3>1 DEF LastBecomes
    <3>3. Gives(heap, Before(Top), Top, r) /\ Stays(Top, r)
      BY <1>t, <2>0, <2>3, <3>2, SizeIs, ExpandedGives
    <3> QED  BY <1>r, <2>0, <2>3, <3>1, <3>3
  <2> QED  BY <2>1, <2>2, <2>3
<1>6. CASE ShrinkLast
  <2>1. PICK decr \in Sizes :
          /\ marks # <<>> /\ Top.last # NoBlock
          /\ \E r \in Shrunk(Top, heap, decr) : LastBecomes(r, r.block.size)
    BY <1>6 DEF ShrinkLast, Closed
  <2>2. PICK r \in Shrunk(Top, heap, decr) : LastBecomes(r, r.block.size)
    BY <2>1
  <2>3. Gives(heap, Before(Top), Top, r) /\ Stays(Top, r)
    BY <1>t, <2>1, SizeIs, ShrunkGives
  <2> QED  BY <1>r, <2>1, <2>2, <2>3
<1>7. CASE ResizeLast
  <2>1. PICK sz \in Sizes, fix \in BOOLEAN :
          /\ marks # <<>> /\ Top.last # NoBlock
          /\ \E r \in Resized(Top, heap, sz, fix) : LastBecomes(r, sz)
    BY <1>7 DEF ResizeLast, Closed
  <2>2. PICK r \in Resized(Top, heap, sz, fix) : LastBecomes(r, sz)
    BY <2>1
  <2>4. ~Excessive(Top, heap, sz)
    BY <2>2 DEF LastBecomes
  <2>3. Gives(heap, Before(Top), Top, r) /\ Stays(Top, r)
    BY <1>t, <2>1, <2>4, SizeIs, ResizedGives
  <2> QED  BY <1>r, <2>1, <2>2, <2>3
<1>8. CASE CloseLifo
  <2>1. marks # <<>>
    BY <1>8 DEF CloseLifo, Closed
  <2>2. LifoInv' /\ Promise!Close
    BY <1>8, CloseStep
  <2> QED  BY <1>t, <2>1, <2>2 DEF Promise!Next
<1> QED  BY <1>1, <1>2, <1>3, <1>4, <1>5, <1>6, <1>7, <1>8 DEF LifoNext

-----------------------------------------------------------------------------
(* What follows from the invariant. *)

LEMMA ConcatInjective ==
  ASSUME NEW S, NEW s \in Seq(S), NEW t \in Seq(S), Differ(s), Differ(t),
         ToSet(s) \cap ToSet(t) = {}
  PROVE  IsInjective(s \o t)
<1> DEFINE u == s \o t
           n == Len(s)
<1>1. /\ u \in Seq(S) /\ Len(u) = n + Len(t) /\ n \in Nat /\ Len(t) \in Nat
      /\ \A i \in 1 .. n + Len(t) : u[i] = IF i <= n THEN s[i] ELSE t[i - n]
  BY ConcatProperties, LenProperties
<1> HIDE DEF u
<1>2. ASSUME NEW i \in 1 .. Len(u)
      PROVE  \/ i \in 1 .. n /\ u[i] = s[i] /\ u[i] \in ToSet(s)
             \/ /\ i - n \in 1 .. Len(t) /\ ~(i \in 1 .. n)
                /\ u[i] = t[i - n] /\ u[i] \in ToSet(t)
  <2>1. CASE i <= n
    <3>1. i \in 1 .. n /\ u[i] = s[i]
      BY <1>1, <2>1
    <3> QED  BY <3>1, ToSetIs
  <2>2. CASE ~(i <= n)
    <3>1. i - n \in 1 .. Len(t) /\ ~(i \in 1 .. n) /\ u[i] = t[i - n]
      BY <1>1, <2>2
    <3> QED  BY <3>1, ToSetIs
  <2> QED  BY <2>1, <2>2
<1>3. ASSUME NEW i \in 1 .. Len(u), NEW j \in 1 .. Len(u), u[i] = u[j]
      PROVE  i = j
  <2>1. CASE i \in 1 .. n
    <3>1. u[i] = s[i] /\ u[i] \in ToSet(s)
      BY <1>2, <2>1
    <3>2. u[j] \notin ToSet(t)
      BY <1>3, <3>1
    <3>3. j \in 1 .. n /\ u[j] = s[j]
      BY <1>2, <3>2
    <3> QED  BY <1>3, <2>1, <3>1, <3>3 DEF Differ
  <2>2. CASE ~(i \in 1 .. n)
    <3>1. i - n \in 1 .. Len(t) /\ u[i] = t[i - n] /\ u[i] \in ToSet(t)
      BY <1>2, <2>2
    <3>2. u[j] \notin ToSet(s)
      BY <1>3, <3>1
    <3>3. j - n \in 1 .. Len(t) /\ u[j] = t[j - n]
      BY <1>2, <3>2
    <3>4. i - n = j - n
      BY <1>3, <3>1, <3>3 DEF Differ
    <3> QED  BY <1>1, <3>4
  <2> QED  BY <2>1, <2>2
<1>4. DOMAIN u = 1 .. Len(u)
  BY <1>1, LenProperties
<1> QED  BY <1>3, <1>4 DEF IsInjective, u

LEMMA HeldIn ==
  ASSUME NEW m, NEW d, Holds(heap, m, d)
  PROVE  InChunk(d)
  BY DEF Holds, InChunk

LEMMA ExactIs ==
  ASSUME LifoInv
  PROVE  MemoryIsHeld /\ NothingLeaks
<1>0. /\ Tower(heap, marks, frames) /\ skipped \in BOOLEAN
      /\ marks # <<>> /\ ~skipped => Exact(heap, Last(marks))
  BY DEF LifoInv
<1>1. LifoTypes
  BY <1>0 DEF LifoTypes, Tower
<1>2. /\ heap \in [Chunks -> Nat] /\ marks \in Seq(Marks) /\ Len(marks) \in Nat
      /\ DOMAIN marks = 1 .. Len(marks)
  BY <1>0, LenProperties DEF Tower
<1>3. ASSUME NEW d \in Promise!Live(FALSE)
      PROVE  InChunk(d)
  <2>1. PICK k \in 1 .. Len(marks) : TRUE
    BY <1>0, LiveIs
  <2>2. marks # <<>>
    BY <1>2, <2>1, EmptySeq
  <2>3. Holds(heap, Last(marks), d)
    BY <1>0, <2>2, LiveHeld
  <2> QED  BY <2>3, HeldIn
<1>4. ASSUME NEW i \in 1 .. Len(marks)
      PROVE  /\ marks[i] \in Marks /\ marks[i].at \in Blocks
             /\ Level(heap, marks[i], frames[i])
             /\ Holds(heap, Before(marks[i]), marks[i].at)
             /\ Holds(heap, marks[i], marks[i].at)
             /\ \A j \in 1 .. Len(frames[i]) : /\ frames[i][j] \in Blocks
                                              /\ Holds(heap, marks[i], frames[i][j])
             /\ \A k \in 1 .. i - 1 : /\ Clear(marks[k], marks[i].at)
                                     /\ \A j \in 1 .. Len(frames[i]) :
                                          Clear(marks[k], frames[i][j])
  <2>1. /\ marks[i] \in Marks /\ frames[i] \in Seq(Blocks)
        /\ Level(heap, marks[i], frames[i])
        /\ \A k \in 1 .. i - 1 : Above(marks[k], marks[i], frames[i])
    BY <1>0, TowerIs
  <2>2. Fits(heap, marks[i], frames[i])
    BY <1>2, <2>1, LevelIsBase
  <2>3. marks[i].at \in Blocks
    BY <2>1, MarkTypes
  <2>4. \A j \in 1 .. Len(frames[i]) : frames[i][j] \in Blocks
    BY <2>1, ElementOfSeq
  <2> QED  BY <2>1, <2>2, <2>3, <2>4 DEF Fits, Above, Level
<1>5. ASSUME NEW i \in 1 .. Len(marks)
      PROVE  /\ InChunk(marks[i].at)
             /\ \A b \in Promise!Live(FALSE) : Promise!Apart(b, marks[i].at)
             /\ \A j \in 1 .. Len(marks) \ {i} : Promise!Apart(marks[j].at, marks[i].at)
  <2>1. InChunk(marks[i].at)
    BY <1>4, HeldIn
  <2>2. ASSUME NEW b \in Promise!Live(FALSE)
        PROVE  Promise!Apart(b, marks[i].at)
    <3>1. PICK k \in 1 .. Len(marks) : \E j \in 1 .. Len(frames[k]) : b = frames[k][j]
      BY <1>0, LiveSome
    <3>2. PICK j \in 1 .. Len(frames[k]) : b = frames[k][j]
      BY <3>1
    <3>3. CASE k = i
      BY <1>4, <3>2, <3>3 DEF Level
    <3>4. CASE k < i
      <4>1. k \in 1 .. i - 1
        BY <3>4
      <4>2. /\ marks[k] \in Marks /\ b \in Blocks /\ Holds(heap, marks[k], b)
            /\ marks[i].at \in Blocks /\ Clear(marks[k], marks[i].at)
        BY <1>4, <3>2, <4>1
      <4> QED  BY <4>2, ApartIs
    <3>5. CASE i < k
      <4>1. i \in 1 .. k - 1
        BY <3>5
      <4>2. /\ marks[i] \in Marks /\ b \in Blocks /\ Holds(heap, marks[i], marks[i].at)
            /\ marks[i].at \in Blocks /\ Clear(marks[i], b)
        BY <1>4, <3>2, <4>1
      <4> QED  BY <4>2, ApartIs
    <3> QED  BY <3>3, <3>4, <3>5
  <2>3. ASSUME NEW j \in 1 .. Len(marks) \ {i}
        PROVE  Promise!Apart(marks[j].at, marks[i].at)
    <3>1. CASE j < i
      <4>1. j \in 1 .. i - 1
        BY <3>1
      <4>2. /\ marks[j] \in Marks /\ marks[j].at \in Blocks /\ marks[i].at \in Blocks
            /\ Holds(heap, marks[j], marks[j].at) /\ Clear(marks[j], marks[i].at)
        BY <1>4, <4>1
      <4> QED  BY <4>2, ApartIs
    <3>2. CASE i < j
      <4>1. i \in 1 .. j - 1
        BY <3>2
      <4>2. /\ marks[i] \in Marks /\ marks[j].at \in Blocks /\ marks[i].at \in Blocks
            /\ Holds(heap, marks[i], marks[i].at) /\ Clear(marks[i], marks[j].at)
        BY <1>4, <4>1
      <4> QED  BY <4>2, ApartIs
    <3>3. j < i \/ i < j
      OBVIOUS
    <3> QED  BY <3>1, <3>2, <3>3
  <2> QED  BY <2>1, <2>2, <2>3
<1>6. MemoryIsHeld
  BY <1>1, <1>2, <1>3, <1>5 DEF MemoryIsHeld
<1>7. NothingLeaks
  <2>1. ASSUME ~Closed, ~skipped
        PROVE  /\ {c \in Chunks : heap[c] # 0} = ToSet(Top.chunks) \cup ToSet(Top.big)
               /\ IsInjective(Top.chunks \o Top.big)
    <3>1. marks # <<>>
      BY <2>1 DEF Closed
    <3>2. Top \in Marks /\ Sound(heap, Top) /\ Exact(heap, Top)
      BY <1>0, <2>1, <3>1, TopIs DEF Top
    <3>3. {c \in Chunks : heap[c] # 0} = ToSet(Top.chunks) \cup ToSet(Top.big)
      BY <3>2 DEF Exact, Reach
    <3>4. /\ Top.chunks \in Seq(Chunks) /\ Top.big \in Seq(Chunks)
          /\ Differ(Top.chunks) /\ Differ(Top.big)
          /\ ToSet(Top.chunks) \cap ToSet(Top.big) = {}
      BY <3>2, MarkTypes DEF Sound
    <3> QED  BY <3>3, <3>4, ConcatInjective
  <2> QED  BY <2>1 DEF NothingLeaks
<1> QED  BY <1>6, <1>7

-----------------------------------------------------------------------------
(* The theorems. *)

\* The invariant as long as no excessive resize has been granted
LifoInvUntil == excess \in BOOLEAN /\ (~excess => LifoInv)

LEMMA LifoInvAlways == LifoSpec => []LifoInvUntil
<1>1. LifoInit => LifoInvUntil
  BY LifoInvInit DEF LifoInit, LifoInvUntil
<1>2. ASSUME LifoInvUntil, LifoNext
      PROVE  LifoInvUntil'
  <2>1. excess' \in BOOLEAN
    BY <1>2 DEF LifoInvUntil, LifoNext, Alloc, PushMark, PushFrame, PopMark, ExpandLast,
       ShrinkLast, ResizeLast, LastBecomes, CloseLifo, Excessive
  <2>2. LifoInv
    BY <1>2 DEF LifoNext, LifoInvUntil
  <2> QED  BY <1>2, <2>1, <2>2, LifoStep DEF LifoInvUntil
<1>3. LifoInvUntil /\ UNCHANGED lifoVars => LifoInvUntil'
  BY DEF LifoInvUntil, LifoInv, lifoVars
<1> QED  BY <1>1, <1>2, <1>3, PTL DEF LifoSpec

\* Whatever the sizes of chunks, headers, marks and requests and however many users
\* hold: MemLifoAlloc, MemLifoPushMark, MemLifoPushFrame, MemLifoPopMark and the three
\* functions that resize the last block never hand out a byte of a mark or outside
\* the chunks of the pool, and as long as marks are popped in reverse order the
\* pool holds exactly the chunks its topmost mark reaches, each of them once; until a
\* resize by more than an int or to more than a DWORD can say is granted.
THEOREM MemoryIsAlwaysExact == LifoSpec => []MemoryIsExact
<1>1. LifoInvUntil => MemoryIsExact
  BY ExactIs DEF LifoInvUntil, MemoryIsExact
<1> QED  BY <1>1, LifoInvAlways, PTL

\* The pool implements what memlifo.h promises, step by step: a live block shares
\* no memory with one given out or moved later, resizing the last block changes
\* that block only and leaves it where it is or moves it clear of all others, and
\* popping a mark drops the blocks given out since it was pushed and no others; until
\* a resize by more than an int or to more than a DWORD can say is granted.
THEOREM PoolKeepsFrames == LifoSpec => KeepsFrames
<1>1. ASSUME LifoInvUntil, [LifoNext]_lifoVars
      PROVE  [excess' \/ Promise!Next]_frames
  <2>1. CASE UNCHANGED lifoVars
    BY <2>1 DEF lifoVars
  <2>2. CASE LifoNext /\ ~excess'
    <3>1. LifoInv
      BY <1>1, <2>2 DEF LifoNext, LifoInvUntil
    <3> QED  BY <2>2, <3>1, LifoStep
  <2> QED  BY <1>1, <2>1, <2>2
<1>2. LifoInit => Promise!Init
  BY LifoInvInit
<1> QED  BY <1>1, <1>2, LifoInvAlways, PTL DEF LifoSpec, KeepsFrames
=============================================================================
