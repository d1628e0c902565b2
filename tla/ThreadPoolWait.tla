---------------------------- MODULE ThreadPoolWait ----------------------------
(***************************************************************************)
(* Asynchronous waits on handles: wait_on_handle -async and its kin        *)
(* (tcl/handle.tcl) over the registrations of base/threadpool.c, whose     *)
(* pool callbacks are posted through the framework of CallbackQueue.  A    *)
(* registration is a source of that module, an element of Waits, used once.*)
(***************************************************************************)
EXTENDS CallbackQueue

CONSTANTS
    Handles,     \* handle values; the system uses one again after it is closed
    HeapGarbage, \* what nrefs may hold in a block from TwapiAlloc; bound: values
                 \* that two references make wrap around are left out
    PoolFaults   \* {"register"} if the pool may refuse a wait, else {}

ASSUME ThreadPoolAssumption ==
    /\ NoSource \notin Waits
    /\ HeapGarbage \subseteq Nat
    /\ PoolFaults \subseteq {"register"}

VARIABLES
    life,  \* life[r]: "none", "listed", or when unlinked "freed" or "leaked"
    rrefs, \* rrefs[r]: nrefs
    hval,  \* hval[r]: the handle it waits on
    once,  \* once[r]: WT_EXECUTEONLYONCE
    fired, \* fired[r]: a wait that is to fire once has
    reg,   \* the registration whose RegisterWaitForSingleObject has not returned
    ids,   \* the script's _wait_handle_ids: the registration for a handle
    \* history
    told,  \* told[h]: the events, as callbacks, that scripts were run for with h
    closed \* the registrations whose handle was closed while the pool waits on it

regVars  == <<life, rrefs, hval, once, fired>>
histories == <<told, closed>>
waitVars == <<regVars, reg, ids, histories>>
allVars  == <<vars, waitVars>>

Listed == {r \in Waits : life[r] = "listed"}

WaitInit ==
    /\ Init
    /\ life = [r \in Waits |-> "none"] /\ rrefs = [r \in Waits |-> 0]
    /\ hval \in [Waits -> Handles] /\ once = [r \in Waits |-> FALSE]
    /\ fired = [r \in Waits |-> FALSE]
    /\ reg = NoSource /\ ids = [h \in Handles |-> NoSource]
    /\ told = [h \in Handles |-> <<>>] /\ closed = {}

\* The Tcl thread is not inside RegisterWaitForSingleObject
Free == reg = NoSource

-----------------------------------------------------------------------------
(* Registrations. *)

BugRegRefs == 1
RegRefs == 2 \* one for the list, one for the pool

\* TwapiThreadPoolRegistrationUnref: nrefs is unsigned
End(n) == IF n = 0 THEN "freed" ELSE "leaked"

\* wait_on_handle -async for a handle without a wait; where it has one it first
\* does a CancelWait.  TwapiThreadPoolRegister allocates the registration, links it,
\* adds the references of the list and the pool to what nrefs holds, and hands it
\* to the pool ...
WaitOnHandle(r) ==
    /\ Free /\ life[r] = "none" /\ ids[hval[r]] = NoSource
    /\ SourceOn(r)
    /\ life' = [life EXCEPT ![r] = "listed"]
    /\ \E g \in HeapGarbage : rrefs' = [rrefs EXCEPT ![r] = g + RegRefs]
    /\ \E o \in BOOLEAN : once' = [once EXCEPT ![r] = o]
    /\ reg' = r
    /\ UNCHANGED <<hval, fired, ids, histories>>

BugRegistered(r) ==
    /\ reg = r /\ reg' = NoSource
    /\ ids' = IF fired[r] THEN ids ELSE [ids EXCEPT ![hval[r]] = r]
    /\ UNCHANGED <<vars, regVars, histories>>

\* ... which may run callbacks before the call returns and the script stores the id
Registered(r) ==
    /\ reg = r /\ reg' = NoSource
    /\ ids' = [ids EXCEPT ![hval[r]] = r]
    /\ UNCHANGED <<vars, regVars, histories>>

\* TwapiThreadPoolRegister when the pool refuses: both references are dropped
WaitRefused(r) ==
    /\ Free /\ life[r] = "none" /\ ids[hval[r]] = NoSource
    /\ Scripting /\ interp = "alive" /\ "register" \in PoolFaults
    /\ \E g \in HeapGarbage : rrefs' = [rrefs EXCEPT ![r] = g + RegRefs - 2]
    /\ life' = [life EXCEPT ![r] = End(rrefs'[r])]
    /\ UNCHANGED <<vars, hval, once, fired, reg, ids, histories>>

\* TwapiThreadPoolRegistrationShutdown of every r in S: it leaves the pool, once
\* its workers are back, and the list; with the last reference it is freed.
Shutdown(S) ==
    /\ rrefs' = [r \in Waits |-> IF r \in S THEN rrefs[r] - 2 ELSE rrefs[r]]
    /\ life' = [r \in Waits |-> IF r \in S THEN End(rrefs'[r]) ELSE life[r]]
    /\ UNCHANGED <<hval, once, fired>>

BugCancelWait(h) ==
    /\ Free /\ ids[h] \in Listed
    /\ Scripting /\ interp = "alive"
    /\ sources' = sources \ {ids[h]} /\ tic' = Unref(tic, 1)
    /\ Shutdown({ids[h]})
    /\ ids' = [ids EXCEPT ![h] = NoSource]
    /\ UNCHANGED <<postVars, cbVars, tclVars, interp, histVars, reg, histories>>

\* cancel_wait_on_handle for a name of type HANDLE, as which wait_on_handle has
\* stored h, also by close_handle: TwapiThreadPoolUnregister
CancelWait(h) ==
    /\ Free /\ ids[h] \in Listed
    /\ SourceOff(ids[h]) /\ Shutdown({ids[h]})
    /\ ids' = [ids EXCEPT ![h] = NoSource]
    /\ UNCHANGED <<reg, histories>>

\* For a name of any other type cancel_wait_on_handle finds nothing to cancel, and
\* close_handle closes the handle while the pool waits on it.
CloseTyped(h) ==
    /\ Free /\ Scripting /\ interp = "alive" /\ ids[h] \in Listed
    /\ closed' = closed \union {ids[h]}
    /\ UNCHANGED <<vars, regVars, reg, ids, told>>

-----------------------------------------------------------------------------
(* Callbacks. *)

\* A worker runs TwapiThreadPoolRegistrationProc for a handle that is signalled
\* or a wait that has timed out: it makes a callback that carries the id of r ...
Fire(c, r) ==
    /\ ~fired[r]
    /\ CallbackNew(c, r)
    /\ fired' = [fired EXCEPT ![r] = once[r]]
    /\ UNCHANGED <<life, rrefs, hval, once, reg, ids, histories>>

\* ... and posts it without waiting, as do and wait the other sources.
Posts(c) ==
    /\ Post(c) \/ \E s \in Devices \union Consoles : CallbackNew(c, s)
    /\ UNCHANGED waitVars

OfWait(c) == from[c] \in Waits

\* TwapiThreadPoolRegistrationCallback: TCL_ERROR without an interpreter, nothing
\* for the id of a registration that is no longer on the list.
RegistrationIgnored(c) ==
    /\ Free /\ OfWait(c)
    /\ CallbackReturns(c)
    /\ IF interp # "alive" THEN outcome'[c] = "bad"
       ELSE from[c] \notin Listed /\ outcome'[c] = "quiet"
    /\ UNCHANGED waitVars

\* It calls _wait_handler, which compares the id with that of the handle's wait
\* and runs the script of the user.
RegistrationCalls(c) ==
    LET h == hval[from[c]] IN
    /\ Free /\ OfWait(c) /\ from[c] \in Listed
    /\ PlainBegins(c)
    /\ told' = IF ids[h] = from[c]
               THEN [told EXCEPT ![h] = Append(@, c)]
               ELSE told
    /\ UNCHANGED <<regVars, reg, ids, closed>>

\* The callbacks of the other sources, and what all callbacks share
OtherRuns(c) ==
    /\ Free /\ ~OfWait(c) /\ (CallbackReturns(c) \/ EvalBegins(c) \/ PlainBegins(c))
    /\ UNCHANGED waitVars
Continues(c) ==
    /\ Free /\ (PlainEnds(c) \/ Signal(c) \/ EventEnds(c))
    /\ UNCHANGED waitVars

\* Cleaning up the context shuts down the registrations that are left
Cleans ==
    /\ Free /\ (InterpContextCleanup \/ \E c \in Callbacks : EvalEnds(c))
    /\ Shutdown(Listed \ sources')
    /\ UNCHANGED <<reg, ids, histories>>

Dispatches == Free /\ Dispatch /\ UNCHANGED waitVars

Others ==
    /\ \/ \E s \in Devices : SourceOff(s)
       \/ /\ Free
          /\ \/ InterpDelete \/ ThreadExits
             \/ \E s \in Devices \union Consoles : SourceOn(s)
             \/ \E s \in Consoles : SourceOff(s)
    /\ UNCHANGED waitVars

WaitNext ==
    \/ \E r \in Waits : WaitOnHandle(r) \/ Registered(r) \/ WaitRefused(r)
    \/ \E h \in Handles : CancelWait(h) \/ CloseTyped(h)
    \/ \E c \in Callbacks, r \in Waits : Fire(c, r)
    \/ \E c \in Callbacks :
          \/ Posts(c) \/ RegistrationIgnored(c) \/ RegistrationCalls(c)
          \/ OtherRuns(c) \/ Continues(c)
    \/ Dispatches \/ Cleans \/ Others

WaitSpec == WaitInit /\ [][WaitNext]_allVars

-----------------------------------------------------------------------------
(* Safety. *)

WaitTypeOK ==
    /\ TypeOK
    /\ life \in [Waits -> {"none", "listed", "freed", "leaked"}]
    /\ rrefs \in [Waits -> Nat]
    /\ hval \in [Waits -> Handles]
    /\ once \in [Waits -> BOOLEAN] /\ fired \in [Waits -> BOOLEAN]
    /\ ids \in [Handles -> Waits \union {NoSource}]
    /\ reg \in Waits \union {NoSource}
    /\ told \in [Handles -> Seq(Callbacks)] /\ closed \subseteq Waits

\* The pool is inside TwapiThreadPoolRegistrationProc only for a registration
\* that has not been freed: "tprP is guaranteed to not have disappeared".
PoolHasRegistration ==
    \A c \in Callbacks :
        OfWait(c) /\ Posting(c) => life[from[c]] = "listed" /\ rrefs[from[c]] >= 1

\* A registration that leaves the list is freed: "One ref for list linkage, one for
\* handing off to thread pool" (threadpool.c:150), both of which are dropped.
RegistrationFreed == \A r \in Waits : life[r] # "leaked"

\* No wait is left on a handle that is closed: "Cancel waits on the handle, if any"
\* (handle.tcl:23).
ClosedHandleHasNoWait == closed \intersect Listed = {}

-----------------------------------------------------------------------------
(* Liveness. *)

WaitFairness ==
    /\ WF_allVars(Dispatches) /\ WF_allVars(Cleans)
    /\ WF_allVars(\E r \in Waits : Registered(r))
    /\ \A c \in Callbacks :
          /\ WF_allVars(Post(c) /\ UNCHANGED waitVars)
          /\ WF_allVars(\/ RegistrationIgnored(c) \/ RegistrationCalls(c)
                        \/ OtherRuns(c) \/ Continues(c))

FairWaitSpec == WaitSpec /\ WaitFairness

\* The script hears of every event of a wait that it does not cancel, of one that
\* comes before the call that registers the wait has returned too.
EventTold ==
    \A c \in Callbacks, r \in Waits :
        pc[c] = "new" /\ from[c] = r
            ~> c \in ToSet(told[hval[r]]) \/ life[r] # "listed" \/ interp # "alive"
=============================================================================
