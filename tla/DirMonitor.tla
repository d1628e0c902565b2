------------------------------ MODULE DirMonitor ------------------------------
(***************************************************************************)
(* Directory monitors: storage/dirmonitor.c and begin_filesystem_monitor   *)
(* of tcl/storage.tcl.  The kernel puts the changes of a directory into    *)
(* the buffer of the read that is outstanding; a worker of the Windows     *)
(* thread pool queues that buffer to the interpreter thread and issues the *)
(* next read; the interpreter thread filters the changes and runs the      *)
(* script.  A monitor is an element of Monitors, used once.                *)
(***************************************************************************)
EXTENDS Integers, Sequences, FiniteSets, SequencesExt

CONSTANTS
    Monitors,     \* bound: the monitors ever registered
    Handles,      \* handle values; the system uses one again after it is closed
    Buffers,      \* bound: I/O buffers allocated at any one time
    Names,        \* file names
    PatternLists, \* sequences of [include : BOOLEAN, names : SUBSET Names]
    MaxChanges,   \* bound: changes in all directories
    Faults        \* failures considered: subset of FaultKinds

\* "create", "event", "wait": the directory cannot be opened, the event cannot
\* be created, the pool refuses the wait.  "read": ReadDirectoryChangesW fails
\* when it is called, "lost": when it completes.  "overflow": the kernel has no room
\* for the changes between two reads.  "slow": a read is cancelled, but does not end
\* within the second that TwapiShutdownDirectoryMonitor waits.
FaultKinds == {"create", "event", "wait", "read", "lost", "overflow", "slow"}

None == "None"

ASSUME DirMonitorAssumption ==
    /\ IsFiniteSet(Monitors) /\ IsFiniteSet(Handles) /\ IsFiniteSet(Buffers)
    /\ None \notin Monitors \union Handles \union Buffers
    /\ \A ps \in PatternLists : ps \in Seq([include : BOOLEAN, names : SUBSET Names])
    /\ MaxChanges \in Nat /\ Faults \subseteq FaultKinds

VARIABLES
    \* TwapiDirectoryMonitorContext m
    life,    \* life[m]: "none", "live", "freed", or "leaked" when nothing refers to it
    nrefs,
    ticP,    \* ticP is not NULL
    handle,  \* directory_handle
    event,   \* completion_event: "null", "unset" or "set"
    pooled,  \* thread_pool_registry_handle is valid
    iob,     \* iobP: a buffer or None
    pats,    \* patterns
    \* the list of the monitors of the interpreter context, and its zlist_count
    list, count,
    tic,     \* the references of monitors to the interpreter context
    \* the kernel
    io,      \* the read of m: "none", "pending", "done" or "failed"
    pend,    \* changes of m since its last read completed
    over,    \* there was no room for them
    late,    \* late[m]: the buffer of a read of m that is cancelled and has not ended
    \* memory: the buffers that are allocated, and what they hold
    used, data,
    \* threads
    pool,    \* the worker for m: "idle", "called", "rereads" or "errs"
    queue,   \* callbacks on the Tcl queue
    interp,  \* "alive", "deleted" (logically), "gone" (the module cleaned up)
    \* the scripts: _filesystem_monitor_scripts, indexed by handle
    scripts,
    \* history
    changed, \* changed[m]: the names, change by change
    lost,    \* lost[m]: the changes that the kernel had no room for, or that came with
             \* a read whose status another read has written over
    told,    \* told[m]: the changes the script was called with
    failure  \* failure[m]: "none", "queued" or "told"

dmcVars  == <<life, nrefs, ticP, handle, event, pooled, iob, pats>>
listVars == <<list, count, tic>>
ioVars   == <<io, pend, over, late, used, data>>
histVars == <<changed, lost, told, failure>>
vars == <<dmcVars, listVars, ioVars, pool, queue, interp, scripts, histVars>>

One(b) == IF b THEN 1 ELSE 0
Callback == [m : Monitors, b : Buffers \union {None}]

\* The elements of s that are in S, in order
Keep(s, S) ==
    LET kept[n \in 0 .. Len(s)] ==
            IF n = 0 THEN <<>>
            ELSE IF s[n] \in S THEN Append(kept[n - 1], s[n]) ELSE kept[n - 1]
    IN kept[Len(s)]

Init ==
    /\ life = [m \in Monitors |-> "none"] /\ nrefs = [m \in Monitors |-> 0]
    /\ ticP = [m \in Monitors |-> FALSE] /\ handle = [m \in Monitors |-> None]
    /\ event = [m \in Monitors |-> "null"] /\ pooled = [m \in Monitors |-> FALSE]
    /\ iob = [m \in Monitors |-> None] /\ pats = [m \in Monitors |-> <<>>]
    /\ list = <<>> /\ count = 0 /\ tic = 0
    /\ io = [m \in Monitors |-> "none"] /\ pend = [m \in Monitors |-> <<>>]
    /\ over = [m \in Monitors |-> FALSE] /\ late = [m \in Monitors |-> None]
    /\ used = {} /\ data = [b \in Buffers |-> <<>>]
    /\ pool = [m \in Monitors |-> "idle"] /\ queue = <<>> /\ interp = "alive"
    /\ scripts = [h \in Handles |-> None]
    /\ changed = [m \in Monitors |-> <<>>] /\ lost = [m \in Monitors |-> {}]
    /\ told = [m \in Monitors |-> <<>>] /\ failure = [m \in Monitors |-> "none"]

-----------------------------------------------------------------------------
(* The kernel. *)

\* The changes that there have been, as pairs of a monitor and a number
Changes == {p \in Monitors \X (1 .. MaxChanges) : p[2] <= Len(changed[p[1]])}

\* A change in the directory of m completes the read that is pending, or is kept
\* for the next.  When there is no room all that were kept are dropped, and so are
\* those that follow until the next read, which completes with nothing.
Change(m, n) ==
    LET i == Len(changed[m]) + 1 IN
    /\ handle[m] # None
    /\ Cardinality(Changes) < MaxChanges
    /\ changed' = [changed EXCEPT ![m] = Append(@, n)]
    /\ \/ /\ io[m] = "pending"
          /\ io' = [io EXCEPT ![m] = "done"] /\ event' = [event EXCEPT ![m] = "set"]
          /\ data' = [data EXCEPT ![iob[m]] = <<i>>]
          /\ UNCHANGED <<pend, over, lost>>
       \/ /\ io[m] # "pending" /\ ~over[m]
          /\ pend' = [pend EXCEPT ![m] = Append(@, i)]
          /\ UNCHANGED <<io, event, data, over, lost>>
       \/ /\ io[m] # "pending" /\ (over[m] \/ "overflow" \in Faults)
          /\ pend' = [pend EXCEPT ![m] = <<>>] /\ over' = [over EXCEPT ![m] = TRUE]
          /\ lost' = [lost EXCEPT ![m] = @ \union {i} \union ToSet(pend[m])]
          /\ UNCHANGED <<io, event, data>>
    /\ UNCHANGED <<life, nrefs, ticP, handle, pooled, iob, pats, listVars, late, used, pool,
                   queue, interp, scripts, told, failure>>

\* The pending read fails: the directory is deleted, the volume is gone
ReadFails(m) ==
    /\ "lost" \in Faults /\ io[m] = "pending"
    /\ io' = [io EXCEPT ![m] = "failed"] /\ event' = [event EXCEPT ![m] = "set"]
    /\ UNCHANGED <<life, nrefs, ticP, handle, pooled, iob, pats, listVars, pend, over, late,
                   used, data, pool, queue, interp, scripts, histVars>>

\* A read that was cancelled long ago ends, and the kernel writes its status.  The
\* memory may have become the buffer of another read by then, of one that has ended
\* and now seems to have failed.
LateEnds(m) ==
    LET Spoils(o) == iob[o] = late[m] /\ io[o] = "done" IN
    /\ late[m] # None
    /\ late' = [late EXCEPT ![m] = None]
    /\ io' = [o \in Monitors |-> IF Spoils(o) THEN "failed" ELSE io[o]]
    /\ lost' = [o \in Monitors |->
                   IF Spoils(o) THEN lost[o] \union ToSet(data[late[m]]) ELSE lost[o]]
    /\ UNCHANGED <<dmcVars, listVars, pend, over, used, data, pool, queue, interp, scripts,
                   changed, told, failure>>

-----------------------------------------------------------------------------
(* The worker of the pool: TwapiDirectoryMonitorThreadPoolFn. *)

BuffersLeft == used # Buffers
FreeBuffer == CHOOSE b \in Buffers : b \notin used
ReadBuffer(m) == IF iob[m] # None THEN {iob[m]} ELSE IF BuffersLeft THEN {FreeBuffer} ELSE {}

\* TwapiDirectoryMonitorInitiateRead when it succeeds: the buffer of m, or a new
\* one, and a read that completes at once with the changes the kernel has kept
InitiateRead(m) ==
    /\ \E b \in ReadBuffer(m) :
          /\ iob' = [iob EXCEPT ![m] = b] /\ used' = used \union {b}
          /\ data' = [data EXCEPT ![b] = pend[m]]
    /\ IF pend[m] # <<>> \/ over[m]
       THEN /\ io' = [io EXCEPT ![m] = "done"] /\ event' = [event EXCEPT ![m] = "set"]
       ELSE /\ io' = [io EXCEPT ![m] = "pending"] /\ event' = [event EXCEPT ![m] = "unset"]
    /\ pend' = [pend EXCEPT ![m] = <<>>] /\ over' = [over EXCEPT ![m] = FALSE]
    /\ UNCHANGED late

\* The event is signalled: the wait resets it and the worker is called
PoolFires(m) ==
    /\ pooled[m] /\ event[m] = "set" /\ pool[m] = "idle"
    /\ event' = [event EXCEPT ![m] = "unset"]
    /\ pool' = [pool EXCEPT ![m] = "called"]
    /\ UNCHANGED <<life, nrefs, ticP, handle, pooled, iob, pats, listVars, ioVars,
                   queue, interp, scripts, histVars>>

\* The callback refers to the monitor
Enqueue(m, b) ==
    /\ nrefs' = [nrefs EXCEPT ![m] = @ + 1]
    /\ queue' = Append(queue, [m |-> m, b |-> b])

\* A slip: the worker keeps its pointer to the buffer that it hands over.
BugPoolSends(m) ==
    /\ pool[m] = "called"
    /\ \/ /\ io[m] = "done"
          /\ Enqueue(m, iob[m])
          /\ UNCHANGED iob /\ io' = [io EXCEPT ![m] = "none"]
          /\ pool' = [pool EXCEPT ![m] = "rereads"]
       \/ /\ io[m] = "failed"
          /\ io' = [io EXCEPT ![m] = "none"] /\ pool' = [pool EXCEPT ![m] = "errs"]
          /\ UNCHANGED <<nrefs, queue, iob>>
    /\ UNCHANGED <<life, ticP, handle, event, pooled, pats, listVars, pend, over,
                   late, used, data, interp, scripts, histVars>>

\* It hands the buffer of a completed read over to the interpreter.  The return
\* on ERROR_IO_INCOMPLETE has no step: only a read that has ended sets the event.
PoolSends(m) ==
    /\ pool[m] = "called"
    /\ \/ /\ io[m] = "done"
          /\ Enqueue(m, iob[m])
          /\ iob' = [iob EXCEPT ![m] = None] /\ io' = [io EXCEPT ![m] = "none"]
          /\ pool' = [pool EXCEPT ![m] = "rereads"]
       \/ /\ io[m] = "failed"
          /\ io' = [io EXCEPT ![m] = "none"] /\ pool' = [pool EXCEPT ![m] = "errs"]
          /\ UNCHANGED <<nrefs, queue, iob>>
    /\ UNCHANGED <<life, ticP, handle, event, pooled, pats, listVars, pend, over,
                   late, used, data, interp, scripts, histVars>>

\* A slip: a read that cannot be set up is not reported.
BugPoolRereads(m) ==
    /\ pool[m] = "rereads"
    /\ \/ /\ InitiateRead(m)
          /\ pool' = [pool EXCEPT ![m] = "idle"]
       \/ /\ "read" \in Faults
          /\ pool' = [pool EXCEPT ![m] = "idle"]
          /\ UNCHANGED <<event, iob, ioVars>>
    /\ UNCHANGED <<life, nrefs, ticP, handle, pooled, pats, listVars, queue, interp,
                   scripts, histVars>>

\* It sets up the next read, and where that fails reports an error too
PoolRereads(m) ==
    /\ pool[m] = "rereads"
    /\ \/ /\ InitiateRead(m)
          /\ pool' = [pool EXCEPT ![m] = "idle"]
       \/ /\ "read" \in Faults
          /\ pool' = [pool EXCEPT ![m] = "errs"]
          /\ UNCHANGED <<event, iob, ioVars>>
    /\ UNCHANGED <<life, nrefs, ticP, handle, pooled, pats, listVars, queue, interp,
                   scripts, histVars>>

\* error_handler
PoolErrs(m) ==
    /\ pool[m] = "errs"
    /\ used' = used \ {iob[m]} /\ iob' = [iob EXCEPT ![m] = None]
    /\ Enqueue(m, None)
    /\ failure' = [failure EXCEPT ![m] = "queued"]
    /\ pool' = [pool EXCEPT ![m] = "idle"]
    /\ UNCHANGED <<life, ticP, handle, event, pooled, pats, listVars, io, pend, over,
                   late, data, interp, scripts, changed, lost, told>>

-----------------------------------------------------------------------------
(* The interpreter thread. *)

\* Whether the module still has its list: module.data.pval
HasList == interp # "gone"

Unrefs(m) == One(pooled[m]) + One(ticP[m] /\ HasList)

\* A slip: the workers are not waited for.
BugStopped(S) == TRUE

\* UnregisterWaitEx waits for the workers
Stopped(S) == \A m \in S : pooled[m] => pool[m] = "idle"

\* The references of the list and of the pool to S are dropped, and that of the
\* callback c with its buffer.  TwapiDirectoryMonitorContextDelete frees a monitor
\* without references, and its buffer.
Release(S, c) ==
    LET refs == [m \in Monitors |->
                    nrefs[m] - (IF m \in S THEN Unrefs(m) ELSE 0) - One(m = c.m)]
        freed == {m \in S \union {c.m} : m # None /\ refs[m] <= 0}
    IN
    /\ nrefs' = refs
    /\ life' = [m \in Monitors |-> IF m \in freed THEN "freed" ELSE life[m]]
    /\ used' = used \ ({iob[m] : m \in freed} \union {c.b})
    /\ iob' = [m \in Monitors |-> IF m \in freed THEN None ELSE iob[m]]

NoCallback == [m |-> None, b |-> None]

\* TwapiShutdownDirectoryMonitor of every m in S, in a step with the end of the
\* callback c.  To close the directory cancels its read, which is waited for, a second
\* at most; the event is closed only where there is a buffer.  A monitor that is left
\* behind when the list is gone keeps its ticP, and each time drops a reference.
Shutdown(S, c) ==
    /\ Stopped(S) /\ Release(S, c)
    /\ pooled' = [m \in Monitors |-> pooled[m] /\ m \notin S]
    /\ ticP' = [m \in Monitors |-> ticP[m] /\ ~(m \in S /\ HasList)]
    /\ list' = IF HasList THEN Keep(list, Monitors \ S) ELSE list
    /\ count' = count - Cardinality({m \in S : ticP[m] /\ HasList})
    /\ tic' = tic - Cardinality({m \in S : ticP[m]})
    /\ \E L \in SUBSET {m \in S : "slow" \in Faults /\ io[m] = "pending"} :
          late' = [m \in Monitors |-> IF m \in L THEN iob[m] ELSE late[m]]
    /\ handle' = [m \in Monitors |-> IF m \in S THEN None ELSE handle[m]]
    /\ io' = [m \in Monitors |-> IF m \in S THEN "none" ELSE io[m]]
    /\ pend' = [m \in Monitors |-> IF m \in S THEN <<>> ELSE pend[m]]
    /\ over' = [m \in Monitors |-> over[m] /\ m \notin S]
    /\ event' = [m \in Monitors |-> IF m \in S /\ iob[m] # None THEN "null" ELSE event[m]]
    /\ UNCHANGED <<pats, data, pool>>

\* begin_filesystem_monitor: one reference for the list, one for the pool
Register(m, h, p) ==
    /\ interp = "alive" /\ life[m] = "none"
    /\ \A o \in Monitors : handle[o] # h
    /\ life' = [life EXCEPT ![m] = "live"] /\ nrefs' = [nrefs EXCEPT ![m] = 2]
    /\ ticP' = [ticP EXCEPT ![m] = TRUE] /\ handle' = [handle EXCEPT ![m] = h]
    /\ InitiateRead(m)
    /\ pooled' = [pooled EXCEPT ![m] = TRUE] /\ pats' = [pats EXCEPT ![m] = p]
    /\ list' = <<m>> \o list /\ count' = count + 1 /\ tic' = tic + 1
    /\ scripts' = [scripts EXCEPT ![h] = m]
    /\ UNCHANGED <<pool, queue, interp, histVars>>

\* An error before there is a reference: the shutdown drops none, so it never
\* frees the structure, nor the event when it was the read that failed.
RegisterFails(m) ==
    /\ interp = "alive" /\ life[m] = "none"
    /\ life' = [life EXCEPT ![m] = "leaked"]
    /\ \/ Faults \intersect {"create", "event"} # {} /\ UNCHANGED event
       \/ "read" \in Faults /\ event' = [event EXCEPT ![m] = "unset"]
    /\ UNCHANGED <<nrefs, ticP, handle, pooled, iob, pats, listVars, ioVars, pool, queue,
                   interp, scripts, histVars>>

\* The pool refuses the wait: m is taken from the list, and the shutdown takes it
\* from the list once more and drops one of the two references, and that on the
\* interpreter context.  Its buffer stays.
RegisterRefused(m) ==
    /\ interp = "alive" /\ life[m] = "none" /\ "wait" \in Faults /\ BuffersLeft
    /\ life' = [life EXCEPT ![m] = "leaked"] /\ nrefs' = [nrefs EXCEPT ![m] = 2 - 1]
    /\ count' = count - 1
    /\ iob' = [iob EXCEPT ![m] = FreeBuffer] /\ used' = used \union {FreeBuffer}
    /\ UNCHANGED <<ticP, handle, event, pooled, pats, list, tic, io, pend, over, late, data,
                   pool, queue, interp, scripts, histVars>>

\* cancel_filesystem_monitor: Twapi_UnregisterDirectoryMonitor looks the handle
\* up on the list
Cancel(h) ==
    /\ interp = "alive" /\ scripts[h] # None
    /\ \E m \in ToSet(list) : handle[m] = h /\ Shutdown({m}, NoCallback)
    /\ scripts' = [scripts EXCEPT ![h] = None]
    /\ UNCHANGED <<queue, interp, histVars>>

\* A slip: an inclusive pattern decides, whatever comes before it.
BugPatternMatched(ps, n) == \E i \in 1 .. Len(ps) : n \in ps[i].names /\ ps[i].include

\* The first pattern that matches decides; without patterns every name does
PatternMatched(ps, n) ==
    LET matching == {i \in 1 .. Len(ps) : n \in ps[i].names} IN
    \/ ps = <<>>
    \/ \E i \in matching : ps[i].include /\ \A j \in matching : i <= j

\* _filesystem_monitor_handler runs the script that is registered for the handle
Tell(c) ==
    LET m == c.m
        s == scripts[handle[m]]
        matched == {i \in 1 .. Len(changed[m]) : PatternMatched(pats[m], changed[m][i])}
    IN
    IF s = None THEN UNCHANGED histVars
    ELSE IF c.b = None
         THEN failure' = [failure EXCEPT ![s] = "told"] /\ UNCHANGED <<changed, lost, told>>
         ELSE told' = [told EXCEPT ![s] = @ \o Keep(data[c.b], matched)]
              /\ UNCHANGED <<changed, lost, failure>>

\* TwapiDirectoryMonitorCallbackFn: a monitor that is shut down is not reported,
\* and one whose interpreter is deleted is shut down.  The monitor may be freed
\* before the script runs.
Dispatch ==
    /\ queue # <<>> /\ queue' = Tail(queue)
    /\ LET c == Head(queue) IN
       IF ~ticP[c.m] \/ interp # "alive"
       THEN Shutdown({m \in {c.m} : ticP[m]}, c) /\ UNCHANGED histVars
       ELSE Shutdown({}, c) /\ Tell(c)
    /\ UNCHANGED <<interp, scripts>>

InterpDelete ==
    /\ interp = "alive" /\ interp' = "deleted"
    /\ UNCHANGED <<dmcVars, listVars, ioVars, pool, queue, scripts, histVars>>

\* TwapiStorageCleanup shuts down the head of the list until zlist_count is 0; it
\* does not end, and there is no step, if the count has become negative.
StorageCleanup ==
    /\ interp = "deleted" /\ interp' = "gone"
    /\ count >= 0 /\ Shutdown(ToSet(SubSeq(list, 1, count)), NoCallback)
    /\ UNCHANGED <<queue, scripts, histVars>>

Next ==
    \/ \E m \in Monitors :
          \/ PoolFires(m) \/ PoolSends(m) \/ PoolRereads(m) \/ PoolErrs(m)
          \/ ReadFails(m) \/ LateEnds(m) \/ RegisterFails(m) \/ RegisterRefused(m)
          \/ \E n \in Names : Change(m, n)
          \/ \E h \in Handles, p \in PatternLists : Register(m, h, p)
    \/ \E h \in Handles : Cancel(h)
    \/ Dispatch \/ InterpDelete \/ StorageCleanup

Spec == Init /\ [][Next]_vars

-----------------------------------------------------------------------------
(* Safety. *)

\* Every variable keeps its type; the count of the list may fall below zero.
TypeOK ==
    /\ life \in [Monitors -> {"none", "live", "freed", "leaked"}]
    /\ nrefs \in [Monitors -> Nat] /\ ticP \in [Monitors -> BOOLEAN]
    /\ handle \in [Monitors -> Handles \union {None}]
    /\ event \in [Monitors -> {"null", "unset", "set"}]
    /\ pooled \in [Monitors -> BOOLEAN] /\ iob \in [Monitors -> Buffers \union {None}]
    /\ pats \in [Monitors -> PatternLists \union {<<>>}]
    /\ list \in Seq(Monitors) /\ count \in Int /\ tic \in Int
    /\ io \in [Monitors -> {"none", "pending", "done", "failed"}]
    /\ pend \in [Monitors -> Seq(1 .. MaxChanges)] /\ over \in [Monitors -> BOOLEAN]
    /\ late \in [Monitors -> Buffers \union {None}]
    /\ used \subseteq Buffers /\ data \in [Buffers -> Seq(1 .. MaxChanges)]
    /\ pool \in [Monitors -> {"idle", "called", "rereads", "errs"}]
    /\ queue \in Seq(Callback) /\ interp \in {"alive", "deleted", "gone"}
    /\ scripts \in [Handles -> Monitors \union {None}]
    /\ changed \in [Monitors -> Seq(Names)]
    /\ lost \in [Monitors -> SUBSET (1 .. MaxChanges)]
    /\ told \in [Monitors -> Seq(1 .. MaxChanges)]
    /\ failure \in [Monitors -> {"none", "queued", "told"}]

Queued(m) == {i \in 1 .. Len(queue) : queue[i].m = m}

\* The reference count is the number of the list, the pool and the callbacks that
\* still refer to the monitor, whoever drops the last of them and whenever: a
\* freed monitor has none of them and no worker.  While the module has its list, the
\* monitors have one reference each to the interpreter context.
MonitorRefsExact ==
    /\ \A m \in Monitors :
          /\ life[m] \in {"live", "freed"} =>
                nrefs[m] = One(m \in ToSet(list)) + One(pooled[m]) + Cardinality(Queued(m))
          /\ life[m] = "freed" <=> life[m] # "none" /\ nrefs[m] = 0 /\ life[m] # "leaked"
          /\ pool[m] # "idle" => pooled[m]
    /\ HasList => tic = Cardinality({m \in Monitors : ticP[m]})

\* Every variable keeps its type; each allocated buffer has one owner, the monitor
\* it is read for or one callback, and a read that is not cancelled is into the buffer
\* of its monitor: it changes hands while the next read is set up by another thread.
BufferHasOneOwner ==
    /\ TypeOK
    /\ \A b \in Buffers :
          Cardinality({m \in Monitors : iob[m] = b})
              + Cardinality({i \in 1 .. Len(queue) : queue[i].b = b}) = One(b \in used)
    /\ \A m \in Monitors : io[m] # "none" => iob[m] # None /\ handle[m] # None

\* What the documentation says of a list of patterns: a name is reported if it
\* matches an inclusive pattern and no exclusive pattern that comes before it.
Wanted(m, i) ==
    LET ps == pats[m]
        n  == changed[m][i]
    IN
    \/ Len(ps) = 0
    \/ \E k \in 1 .. Len(ps) :
          /\ ps[k].include /\ n \in ps[k].names
          /\ \A j \in 1 .. (k - 1) : ~ps[j].include => n \notin ps[j].names

\* The script hears of the changes that it asked for in the order in which they
\* happened, once each, and of every one before the last, those excepted that
\* the kernel had no room for, or whose read got the status of a cancelled one.
ToldInOrder ==
    \A m \in Monitors :
        LET all == [i \in 1 .. Len(changed[m]) |-> i]
        IN IsPrefix(told[m], Keep(all, {i \in ToSet(all) : Wanted(m, i)} \ lost[m]))

\* Cleaning up the module leaves no monitor with the pool.
MonitorsEndWithInterp == interp = "gone" => \A m \in Monitors : ~pooled[m]

\* "Read was in progress. Wait for it to complete" (dirmonitor.c:689), "Else I/O could
\* be in progress" (dirmonitor.c:248): a buffer is kept while a cancelled read may still
\* write to it.  The wait ends after a second.
LateReadHasBuffer == \A m \in Monitors : late[m] # None => iob[m] = late[m]

\* A monitor drops the reference that it has to the interpreter context, and no other.
ContextHeldOnce == tic = Cardinality({m \in Monitors : ticP[m]})

\* The assertion of TwapiDirectoryMonitorContextDelete: completion_event == NULL
EventClosed == \A m \in Monitors : life[m] = "freed" => event[m] = "null"

-----------------------------------------------------------------------------
(* Liveness. *)

\* The workers run, and the thread of the interpreter serves its events and
\* cleans up what is deleted.
Fairness ==
    /\ \A m \in Monitors :
          /\ WF_vars(PoolFires(m)) /\ WF_vars(PoolSends(m))
          /\ WF_vars(PoolRereads(m)) /\ WF_vars(PoolErrs(m))
    /\ WF_vars(Dispatch) /\ WF_vars(StorageCleanup)

FairSpec == Spec /\ Fairness

CaughtUp(m) ==
    \/ \A i \in 1 .. Len(changed[m]) : Wanted(m, i) => i \in ToSet(told[m]) \union lost[m]
    \/ ~ticP[m] \/ interp # "alive" \/ failure[m] = "told"

\* The script does not stay behind: it is told of each change that it asked for,
\* unless the monitor or the interpreter ends, the script is told that the reads
\* failed, or the change is one of the lost.
ChangeTold == \A m \in Monitors : []<>CaughtUp(m)
=============================================================================
