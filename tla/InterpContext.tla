---------------------------- MODULE InterpContext ----------------------------
(***************************************************************************)
(* The life of the contexts of twapi.c across interpreters and threads.    *)
(* Every interpreter has a context for the base module and for each module *)
(* that asks for one of its own; the contexts of all interpreters are in   *)
(* one list.  Each thread has a block of thread-local state, which its     *)
(* interpreters and contexts share and count.  Callbacks, registrations    *)
(* and monitors hold contexts, and may let go of them in a thread of the   *)
(* pool, after the interpreter is gone.                                    *)
(***************************************************************************)
EXTENDS Integers, FiniteSets

CONSTANTS
    Interps, Threads,
    ThreadOf,      \* the thread that created the interpreter
    Modules,       \* modules that ask for a context of their own, beside Base
    MaxHolders,    \* bound: what holds one context at a time
    Faults         \* failures considered: subset of FaultKinds

\* "init": initializer, script or package provision of a module fails.
\* "orphan": the commands of a module that failed so are used all the same.
FaultKinds == {"init", "orphan"}

Base == "twapi_base"
Pool == "pool"      \* threads that run no interpreter, and have no local state

ASSUME InterpAssumption ==
    /\ ThreadOf \in [Interps -> Threads]
    /\ Base \notin Modules /\ Pool \notin Threads
    /\ MaxHolders \in Nat /\ Faults \subseteq FaultKinds

\* A context is named by its interpreter and its module.
Contexts == Interps \X ({Base} \union Modules)

VARIABLES
    interp,     \* the interpreter: "new", "runs", "dying" while its deletion
                \* callbacks run, "deleted"
    callback,   \* Tcl_CallWhenDeleted: interpreters with Twapi_InterpCleanup to run
    ctx,        \* the context: "none", "ready", "failed", "deleted"
    nrefs,      \* its references
    attached,   \* its interp field is set and Twapi_InterpContextCleanup to run
    listed,     \* gTwapiInterpContexts
    tls,        \* nrefs of the TwapiTls of a thread, 0 when it has none
    finalizer,  \* modules whose modP->finalizer is set
    finalized,  \* contexts the finalizer has been called for
    holders     \* what else holds a context

vars == <<interp, callback, ctx, nrefs, attached, listed, tls, finalizer,
          finalized, holders>>

Thread(c) == ThreadOf[c[1]]

Init ==
    /\ interp = [i \in Interps |-> "new"] /\ callback = {}
    /\ ctx = [c \in Contexts |-> "none"] /\ nrefs = [c \in Contexts |-> 0]
    /\ attached = {} /\ listed = {}
    /\ tls = [t \in Threads |-> 0]
    /\ finalizer = {Base} \union Modules /\ finalized = {}
    /\ holders = [c \in Contexts |-> 0]

-----------------------------------------------------------------------------
\* TwapiTlsUnref, in thread t: the state of the thread is freed with its last
\* reference, and a thread that has none lets it be.
TlsUnref(n, t) ==
    [u \in Threads |-> IF u = t /\ tls[u] > 0 THEN tls[u] - n ELSE tls[u]]

\* Twapi_AllocateInterpContext: a reference of the context to the local state,
\* one of the interpreter and one of the list to the context.
Allocate(c) ==
    /\ attached' = attached \union {c}
    /\ listed' = listed \union {c}

\* TwapiRegisterModule, once the context is allocated: a module that fails gives
\* up one reference and leaves the context in the list.
Register(c) ==
    \/ ctx' = [ctx EXCEPT ![c] = "ready"] /\ nrefs' = [nrefs EXCEPT ![c] = 1 + 1]
    \/ /\ "init" \in Faults
       /\ ctx' = [ctx EXCEPT ![c] = "failed"] /\ nrefs' = [nrefs EXCEPT ![c] = 1]

\* Twapi_base_Init: the interpreter has a reference of its own to the local
\* state, given back by a callback that is only set when all went well.
LoadBase(i) ==
    LET c == <<i, Base>> IN
    /\ interp[i] = "new"
    /\ interp' = [interp EXCEPT ![i] = "runs"]
    /\ tls' = [tls EXCEPT ![ThreadOf[i]] = @ + 1 + 1]
    /\ Allocate(c)
    /\ Register(c)
    /\ callback' = IF ctx'[c] = "ready" THEN callback \union {i} ELSE callback
    /\ UNCHANGED <<finalizer, finalized, holders>>

\* A slip: the context keeps its pointer to the local state without a reference.
BugLoadModule(i, m) ==
    LET c == <<i, m>> IN
    /\ interp[i] = "runs" /\ ctx[<<i, Base>>] = "ready" /\ ctx[c] = "none"
    /\ Allocate(c)
    /\ Register(c)
    /\ UNCHANGED <<interp, callback, tls, finalizer, finalized, holders>>

\* The entry point of another module, which requires the base package first.
LoadModule(i, m) ==
    LET c == <<i, m>> IN
    /\ interp[i] = "runs" /\ ctx[<<i, Base>>] = "ready" /\ ctx[c] = "none"
    /\ tls' = [tls EXCEPT ![ThreadOf[i]] = @ + 1]
    /\ Allocate(c)
    /\ Register(c)
    /\ UNCHANGED <<interp, callback, finalizer, finalized, holders>>

-----------------------------------------------------------------------------
\* A slip: the context is deleted when a reference is left.
BugUnref(c, n, t) ==
    /\ nrefs' = [nrefs EXCEPT ![c] = @ - n]
    /\ IF nrefs[c] <= n + 1
       THEN ctx' = [ctx EXCEPT ![c] = "deleted"] /\ tls' = TlsUnref(1, t)
       ELSE UNCHANGED <<ctx, tls>>

\* TwapiInterpContextDelete in thread t.
Delete(c, t) ==
    /\ ctx' = [ctx EXCEPT ![c] = "deleted"]
    /\ tls' = TlsUnref(1, t)

\* TwapiInterpContextUnref in thread t, which deletes the context when no more
\* than the references given up were left.
Unref(c, n, t) ==
    /\ nrefs' = [nrefs EXCEPT ![c] = @ - n]
    /\ IF nrefs[c] <= n THEN Delete(c, t) ELSE UNCHANGED <<ctx, tls>>

\* A command of the interpreter has something hold a context: a callback, a
\* thread pool registration, a monitor, the console handler.
Hold(c) ==
    /\ interp[c[1]] = "runs" /\ holders[c] < MaxHolders
    /\ ctx[c] \in IF "orphan" \in Faults THEN {"ready", "failed"} ELSE {"ready"}
    /\ holders' = [holders EXCEPT ![c] = @ + 1]
    /\ nrefs' = [nrefs EXCEPT ![c] = @ + 1]
    /\ UNCHANGED <<interp, callback, ctx, attached, listed, tls, finalizer, finalized>>

\* The holder lets go, in the thread of the interpreter or of the pool.
Release(c) ==
    /\ holders[c] > 0
    /\ holders' = [holders EXCEPT ![c] = @ - 1]
    /\ \E t \in {Thread(c), Pool} : Unref(c, 1, t)
    /\ UNCHANGED <<interp, callback, attached, listed, finalizer, finalized>>

-----------------------------------------------------------------------------
\* Tcl deletes an interpreter and runs what was asked for with
\* Tcl_CallWhenDeleted, in no order the program can rely on.
DeleteInterp(i) ==
    /\ interp[i] = "runs"
    /\ interp' = [interp EXCEPT ![i] = "dying"]
    /\ UNCHANGED <<callback, ctx, nrefs, attached, listed, tls, finalizer,
                   finalized, holders>>

\* Twapi_InterpCleanup.
InterpCleanup(i) ==
    /\ interp[i] = "dying" /\ i \in callback
    /\ callback' = callback \ {i}
    /\ tls' = TlsUnref(1, ThreadOf[i])
    /\ UNCHANGED <<interp, ctx, nrefs, attached, listed, finalizer, finalized, holders>>

\* Twapi_InterpContextCleanup: the finalizer of the module, which is reset for
\* the module, the list, and the two references of the allocation.
ContextCleanup(c) ==
    /\ interp[c[1]] = "dying" /\ c \in attached
    /\ finalized' = IF c[2] \in finalizer THEN finalized \union {c} ELSE finalized
    /\ finalizer' = finalizer \ {c[2]}
    /\ listed' = listed \ {c}
    /\ attached' = attached \ {c}
    /\ Unref(c, 1 + 1, Thread(c))
    /\ UNCHANGED <<interp, callback, holders>>

InterpGone(i) ==
    /\ interp[i] = "dying" /\ i \notin callback /\ \A c \in attached : c[1] # i
    /\ interp' = [interp EXCEPT ![i] = "deleted"]
    /\ UNCHANGED <<callback, ctx, nrefs, attached, listed, tls, finalizer,
                   finalized, holders>>

Next ==
    \/ \E i \in Interps : LoadBase(i) \/ DeleteInterp(i) \/ InterpCleanup(i) \/ InterpGone(i)
    \/ \E i \in Interps, m \in Modules : LoadModule(i, m)
    \/ \E c \in Contexts : Hold(c) \/ Release(c) \/ ContextCleanup(c)

Spec == Init /\ [][Next]_vars

-----------------------------------------------------------------------------
\* Every variable keeps its type.  The local state of a thread is never counted
\* below zero; a context whose module failed to load is.
TypeOK ==
    /\ interp \in [Interps -> {"new", "runs", "dying", "deleted"}]
    /\ callback \subseteq Interps
    /\ ctx \in [Contexts -> {"none", "ready", "failed", "deleted"}]
    /\ nrefs \in [Contexts -> Int]
    /\ attached \subseteq Contexts /\ listed \subseteq Contexts
    /\ tls \in [Threads -> Nat]
    /\ finalizer \subseteq {Base} \union Modules
    /\ finalized \subseteq Contexts
    /\ holders \in [Contexts -> 0..MaxHolders]

\* Interpreters of a thread that have not given back their reference to its local
\* state, and its contexts that are not deleted.
InterpUsers(t) == {i \in callback : ThreadOf[i] = t}
ContextUsers(t) == {c \in Contexts : Thread(c) = t /\ ctx[c] \in {"ready", "failed"}}

\* Every variable keeps its type, and the local state of a thread counts at least
\* its users: the memory pool that commands of its interpreters and contexts take
\* from, through a pointer cached in the context
\* (twapi.c:563-570), is not closed while a context that points to it is alive,
\* whichever thread drops the last reference to another context and whatever fails.
TlsOutlivesUsers ==
    /\ TypeOK
    /\ \A t \in Threads :
          tls[t] >= Cardinality(InterpUsers(t)) + Cardinality(ContextUsers(t))

\* A context is deleted exactly when nothing holds it, its interpreter is done
\* with it and it is off the list; deletion closes its lock, which all of them
\* would still enter.
DeletedWhenUnused ==
    \A c \in Contexts :
        ctx[c] # "none" =>
            (ctx[c] = "deleted" <=> holders[c] = 0 /\ c \notin attached \union listed)

\* twapi.h:1043 "Function to call to clean up the module", and twapi.c:627-641:
\* each interpreter that is deleted has the finalizer of its modules called for its
\* contexts.
FinalizersRun ==
    \A c \in Contexts : interp[c[1]] = "deleted" /\ ctx[c] # "none" => c \in finalized

\* twapi.c:570 "Will be unrefed when ticP is deleted": once a thread has no user of
\* its local state left, it is freed.
TlsFreed ==
    \A t \in Threads :
        (\A i \in Interps : ThreadOf[i] = t => interp[i] = "deleted" /\ ctx[<<i, Base>>] # "failed")
          /\ InterpUsers(t) \union ContextUsers(t) = {} => tls[t] = 0
=============================================================================
