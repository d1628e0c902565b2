---------------------------- MODULE CallbackQueue ----------------------------
(***************************************************************************)
(* The callback framework of TWAPI (base/async.c): a thread of the system  *)
(* (a control handler, a notification thread, a pool worker) hands a       *)
(* TwapiCallback to the Tcl thread of an interpreter context and may wait  *)
(* for the answer.  Modelled with it: TwapiEvalAndUpdateCallback, which    *)
(* most callbacks end in, and the life of the context they refer to, from  *)
(* the interpreter being alive to TwapiInterpContextDelete.  Three kinds   *)
(* of sources post: notification threads (devices), waits of the Windows   *)
(* thread pool (see ThreadPoolWait) and the console control handler.       *)
(*                                                                         *)
(* Every callback has a thread of its own that posts it.  The Tcl thread   *)
(* runs events one inside the other when a script enters the event loop.   *)
(***************************************************************************)
EXTENDS Integers, Sequences, FiniteSets, SequencesExt

CONSTANTS
    Callbacks, \* bound: the callbacks ever posted
    Devices,   \* notification threads: each drops its reference to the context
    Waits,     \* waits of the thread pool: unregistering waits for the workers
    Consoles,  \* the console control handler: unhooking it waits for nobody
    Timeouts,  \* whether devices wait for an answer: subset of BOOLEAN
    Faults     \* failures considered: subset of FaultKinds

Sources == Devices \union Waits \union Consoles
NoSource == "NoSource"

\* "event": the completion event cannot be created; "exit": the Tcl thread
\* ends with events on its queue.
FaultKinds == {"event", "exit"}

ASSUME CallbackQueueAssumption ==
    /\ IsFiniteSet(Callbacks) /\ IsFiniteSet(Sources) /\ NoSource \notin Sources
    /\ Devices \intersect Waits = {} /\ Consoles \intersect (Devices \union Waits) = {}
    /\ Timeouts \subseteq BOOLEAN /\ Faults \subseteq FaultKinds

VARIABLES
    \* the thread that posts c
    pc,       \* pc[c]: where it is
    from,     \* from[c]: the source of the notification
    timed,    \* timed[c]: it passes a timeout, that is, waits for an answer
    \* the TwapiCallback c
    nrefs, winerr, response,
    event,    \* completion_event: "none", "open", or "closed" by the delete
    signaled, \* completion_event is signalled
    \* the Tcl thread
    at,       \* at[c]: where the event that carries c is
    queue,    \* the events on the Tcl queue
    stack,    \* the callbacks being run, the innermost last
    thread,   \* "alive" or "exited"
    \* the interpreter context
    interp,   \* "alive", "deleted" (logically), "gone" (the context cleaned up)
    tic,      \* [refs, deletes]: nrefs and calls of TwapiInterpContextDelete
    sources,  \* the sources that are registered; each refers to the context
    \* history
    posted, started, \* callbacks in the order they were queued, and were begun
    outcome          \* outcome[c]: how the callback function of c went

postVars == <<pc, from, timed>>
cbVars   == <<nrefs, winerr, response, event, signaled>>
tclVars  == <<at, queue, stack, thread>>
ticVars  == <<interp, tic, sources>>
histVars == <<posted, started, outcome>>
vars     == <<postVars, cbVars, tclVars, ticVars, histVars>>

\* "new": about to call TwapiEnqueueCallback; "answered": it has returned the
\* callback as the response, for the caller to drop.
PCs == {"none", "new", "refused", "waiting", "answered", "timedout", "back"}
Places == {"none", "queued", "call", "eval", "plain", "signal", "unref", "done",
           "lost"}
Outcomes == {"none", "ok", "error", "bad", "gone", "quiet"}
WinErrs == {"SUCCESS", "FUNCTION_FAILED", "BAD_ARGUMENTS", "NO_SUCH_OBJECT"}
Responses == {"EMPTY", "RESULT", "MESSAGE"}

One(b) == IF b THEN 1 ELSE 0

\* c is running and no other callback runs inside it
Running(c) == stack # <<>> /\ Last(stack) = c

\* The Tcl thread executes script code: it is outside of TWAPI
Scripting ==
    thread = "alive" /\ \A c \in Callbacks : Running(c) => at[c] \in {"eval", "plain"}

\* Within TwapiEnqueueCallback, or on the way to it
Posting(c) == pc[c] \in {"new", "waiting"}

-----------------------------------------------------------------------------
(* References. *)

\* TwapiInterpContextUnref: the context is deleted when the count runs out
Unref(t, n) == [refs |-> t.refs - n, deletes |-> t.deletes + One(t.refs <= n)]
Ref(t, n)   == [t EXCEPT !.refs = @ + n]

\* TwapiCallbackUnref, and TwapiCallbackDelete when no reference is left
CallbackUnref(c) ==
    /\ nrefs' = [nrefs EXCEPT ![c] = @ - 1]
    /\ IF nrefs[c] <= 1
       THEN /\ event' = [event EXCEPT ![c] = IF @ = "open" THEN "closed" ELSE @]
            /\ response' = [response EXCEPT ![c] = "EMPTY"]
       ELSE UNCHANGED <<event, response>>

\* Twapi_InterpContextCleanup unhooks the console control handler (the finalizer
\* of its module), shuts down the registrations with the pool, which waits for
\* their workers, and drops the references of the interpreter and of the list.
Finalized == sources \intersect (Waits \union Consoles)
ContextCleanup ==
    /\ interp = "deleted"
    /\ \A c \in Callbacks : from[c] \in Waits => ~Posting(c)
    /\ interp' = "gone"
    /\ sources' = sources \ Finalized
BugCleanedUp(t) == Unref(t, 1 + Cardinality(Finalized))
CleanedUp(t) == Unref(t, 2 + Cardinality(Finalized))

Init ==
    /\ pc = [c \in Callbacks |-> "none"] /\ from = [c \in Callbacks |-> NoSource]
    /\ timed = [c \in Callbacks |-> FALSE]
    /\ nrefs = [c \in Callbacks |-> 0] /\ winerr = [c \in Callbacks |-> "SUCCESS"]
    /\ response = [c \in Callbacks |-> "EMPTY"]
    /\ event = [c \in Callbacks |-> "none"] /\ signaled = [c \in Callbacks |-> FALSE]
    /\ at = [c \in Callbacks |-> "none"] /\ queue = <<>> /\ stack = <<>>
    /\ thread = "alive"
    /\ interp = "alive" /\ tic = [refs |-> 2, deletes |-> 0] /\ sources = {}
    /\ posted = <<>> /\ started = <<>> /\ outcome = [c \in Callbacks |-> "none"]

-----------------------------------------------------------------------------
(* The thread that posts. *)

\* Nobody waits for an answer in the pool; the console handler always does
MayWait(s) ==
    CASE s \in Waits -> {FALSE} [] s \in Consoles -> {TRUE} [] OTHER -> Timeouts

\* A notification of s arrives: TwapiCallbackNew for its context
CallbackNew(c, s) ==
    /\ pc[c] = "none" /\ s \in sources
    /\ pc' = [pc EXCEPT ![c] = "new"] /\ from' = [from EXCEPT ![c] = s]
    /\ \E w \in MayWait(s) : timed' = [timed EXCEPT ![c] = w]
    /\ UNCHANGED <<cbVars, tclVars, ticVars, histVars>>

\* TwapiEnqueueCallback cannot create the completion event
EnqueueRefused(c) ==
    /\ pc[c] = "new" /\ timed[c] /\ "event" \in Faults
    /\ pc' = [pc EXCEPT ![c] = "refused"]
    /\ UNCHANGED <<from, timed, cbVars, tclVars, ticVars, histVars>>

BugEnqueueRefs(w) == 1
BugQueued(q, c) == <<c>> \o q

\* One reference for the queue and, to wait, one for the caller
EnqueueRefs(w) == IF w THEN 2 ELSE 1

\* Tcl_ThreadQueueEvent at the tail; Tcl frees the event when the thread is gone
Queued(q, c) == Append(q, c)

\* TwapiEnqueueCallback up to the wait, or to its return when there is none
Enqueue(c) ==
    /\ pc[c] = "new"
    /\ pc' = [pc EXCEPT ![c] = IF timed[c] THEN "waiting" ELSE "back"]
    /\ event' = [event EXCEPT ![c] = IF timed[c] THEN "open" ELSE @]
    /\ nrefs' = [nrefs EXCEPT ![c] = @ + EnqueueRefs(timed[c])]
    /\ tic' = Ref(tic, 1)
    /\ IF thread = "alive"
       THEN at' = [at EXCEPT ![c] = "queued"] /\ queue' = Queued(queue, c)
       ELSE at' = [at EXCEPT ![c] = "lost"] /\ UNCHANGED queue
    /\ posted' = Append(posted, c)
    /\ UNCHANGED <<from, timed, winerr, response, signaled, stack, thread, interp,
                   sources, started, outcome>>

\* WaitForSingleObject returns with the event: the response goes to the
\* caller, or is dropped when the caller did not ask for it.
WaitAnswered(c) ==
    /\ pc[c] = "waiting" /\ signaled[c]
    /\ signaled' = [signaled EXCEPT ![c] = FALSE]
    /\ \/ /\ pc' = [pc EXCEPT ![c] = "answered"]
          /\ UNCHANGED <<nrefs, event, response>>
       \/ /\ pc' = [pc EXCEPT ![c] = "back"]
          /\ CallbackUnref(c)
    /\ UNCHANGED <<from, timed, winerr, tclVars, ticVars, histVars>>

\* It returns without: the caller gets an error, and no callback to drop
WaitTimedOut(c) ==
    /\ pc[c] = "waiting" /\ ~signaled[c]
    /\ pc' = [pc EXCEPT ![c] = "timedout"]
    /\ UNCHANGED <<from, timed, cbVars, tclVars, ticVars, histVars>>

\* The caller has read the response and drops it
CallerUnref(c) ==
    /\ pc[c] = "answered"
    /\ pc' = [pc EXCEPT ![c] = "back"]
    /\ CallbackUnref(c)
    /\ UNCHANGED <<from, timed, winerr, signaled, tclVars, ticVars, histVars>>

-----------------------------------------------------------------------------
(* The Tcl thread. *)

BugDispatch ==
    /\ Scripting /\ queue # <<>> /\ interp = "alive"
    /\ at' = [at EXCEPT ![Head(queue)] = "call"]
    /\ queue' = Tail(queue)
    /\ stack' = Append(stack, Head(queue))
    /\ started' = Append(started, Head(queue))
    /\ UNCHANGED <<postVars, cbVars, thread, ticVars, posted, outcome>>

\* Tcl_ServiceEvent calls Twapi_TclEventProc for the event at the head
Dispatch ==
    /\ Scripting /\ queue # <<>>
    /\ at' = [at EXCEPT ![Head(queue)] = "call"]
    /\ queue' = Tail(queue)
    /\ stack' = Append(stack, Head(queue))
    /\ started' = Append(started, Head(queue))
    /\ UNCHANGED <<postVars, cbVars, thread, ticVars, posted, outcome>>

\* What the callback holds when its function returns: the result of the script;
\* the message of the error it raised; nothing, when its result has not the
\* type the poster wants and Twapi_TclEventProc answers for the function; nothing
\* because there is no interpreter, or because the function gives no response.
Answer(o) ==
    CASE o = "ok"    -> [winerr |-> "SUCCESS", response |-> "RESULT"]
      [] o = "error" -> [winerr |-> "FUNCTION_FAILED", response |-> "MESSAGE"]
      [] o = "bad"   -> [winerr |-> "BAD_ARGUMENTS", response |-> "EMPTY"]
      [] o = "gone"  -> [winerr |-> "NO_SUCH_OBJECT", response |-> "EMPTY"]
      [] o = "quiet" -> [winerr |-> "SUCCESS", response |-> "EMPTY"]

Answers(c, o) ==
    /\ outcome' = [outcome EXCEPT ![c] = o]
    /\ winerr' = [winerr EXCEPT ![c] = Answer(o).winerr]
    /\ response' = [response EXCEPT ![c] = Answer(o).response]
    /\ at' = [at EXCEPT ![c] = "signal"]

\* The callback function returns without having run a script: with the error of
\* TwapiEvalAndUpdateCallback for a deleted interpreter, with TCL_ERROR, or with
\* TCL_OK because there is nothing to do.
CallbackReturns(c) ==
    /\ Running(c) /\ at[c] = "call"
    /\ \/ interp # "alive" /\ Answers(c, "gone")
       \/ Answers(c, "bad")
       \/ Answers(c, "quiet")
    /\ UNCHANGED <<postVars, nrefs, event, signaled, queue, stack, thread, ticVars,
                   posted, started>>

\* The interpreter is preserved and the script begins
EvalBegins(c) ==
    /\ Running(c) /\ at[c] = "call" /\ interp = "alive"
    /\ at' = [at EXCEPT ![c] = "eval"]
    /\ tic' = Ref(tic, 1)
    /\ UNCHANGED <<postVars, cbVars, queue, stack, thread, interp, sources, histVars>>

\* The script ends and the interpreter is released.  When it has been deleted
\* Tcl_Release cleans it up, unless another part of the program preserves it.
EvalEnds(c) ==
    /\ Running(c) /\ at[c] = "eval"
    /\ \E o \in {"ok", "error", "bad"} : Answers(c, o)
    /\ \/ /\ ContextCleanup
          /\ \A b \in Callbacks \ {c} : at[b] \notin {"eval", "plain"}
          /\ tic' = Unref(CleanedUp(tic), 1)
       \/ /\ tic' = Unref(tic, 1)
          /\ UNCHANGED <<interp, sources>>
    /\ UNCHANGED <<postVars, nrefs, event, signaled, queue, stack, thread, posted,
                   started>>

\* A callback function runs a script without TwapiEvalAndUpdateCallback
PlainBegins(c) ==
    /\ Running(c) /\ at[c] = "call" /\ interp = "alive"
    /\ at' = [at EXCEPT ![c] = "plain"]
    /\ UNCHANGED <<postVars, cbVars, queue, stack, thread, ticVars, histVars>>

PlainEnds(c) ==
    /\ Running(c) /\ at[c] = "plain"
    /\ Answers(c, "quiet")
    /\ UNCHANGED <<postVars, nrefs, event, signaled, queue, stack, thread, ticVars,
                   posted, started>>

\* Twapi_TclEventProc wakes the waiter, if the callback has an event
Signal(c) ==
    /\ Running(c) /\ at[c] = "signal"
    /\ signaled' = [signaled EXCEPT ![c] = event[c] = "open"]
    /\ at' = [at EXCEPT ![c] = "unref"]
    /\ UNCHANGED <<postVars, nrefs, winerr, response, event, queue, stack, thread,
                   ticVars, histVars>>

\* It drops the context and the reference of the queue; Tcl frees the event
EventEnds(c) ==
    /\ Running(c) /\ at[c] = "unref"
    /\ tic' = Unref(tic, 1)
    /\ CallbackUnref(c)
    /\ stack' = Front(stack)
    /\ at' = [at EXCEPT ![c] = "done"]
    /\ UNCHANGED <<postVars, winerr, signaled, queue, thread, interp, sources,
                   histVars>>

-----------------------------------------------------------------------------
(* The context. *)

\* A script registers for notifications: the source refers to the context
SourceOn(s) ==
    /\ Scripting /\ interp = "alive" /\ s \notin sources
    /\ sources' = sources \union {s} /\ tic' = Ref(tic, 1)
    /\ UNCHANGED <<postVars, cbVars, tclVars, interp, histVars>>

\* A notification thread lets go of the context when it is not posting; a script
\* unregisters a wait of the pool, when its workers are back; or it unhooks the
\* console control handler, which may be about to post.
SourceOff(s) ==
    /\ s \in sources
    /\ s \notin Consoles => \A c \in Callbacks : from[c] = s => ~Posting(c)
    /\ s \notin Devices => Scripting /\ interp = "alive"
    /\ sources' = sources \ {s} /\ tic' = Unref(tic, 1)
    /\ UNCHANGED <<postVars, cbVars, tclVars, interp, histVars>>

\* A script deletes the interpreter; while anyone preserves it, Tcl only marks it
InterpDelete ==
    /\ Scripting /\ interp = "alive"
    /\ interp' = "deleted"
    /\ UNCHANGED <<postVars, cbVars, tclVars, tic, sources, histVars>>

\* Twapi_InterpContextCleanup when Tcl lets the interpreter go
InterpContextCleanup ==
    /\ Scripting /\ stack = <<>>
    /\ ContextCleanup
    /\ tic' = CleanedUp(tic)
    /\ UNCHANGED <<postVars, cbVars, tclVars, histVars>>

\* The thread ends; Tcl discards the events on its queue
ThreadExits ==
    /\ Scripting /\ stack = <<>> /\ interp = "gone" /\ "exit" \in Faults
    /\ thread' = "exited" /\ queue' = <<>>
    /\ at' = [c \in Callbacks |-> IF at[c] = "queued" THEN "lost" ELSE at[c]]
    /\ UNCHANGED <<postVars, cbVars, stack, ticVars, histVars>>

Post(c) == \/ EnqueueRefused(c) \/ Enqueue(c) \/ WaitAnswered(c)
           \/ WaitTimedOut(c) \/ CallerUnref(c)
Run(c)  == \/ CallbackReturns(c) \/ EvalBegins(c) \/ EvalEnds(c) \/ Signal(c)
           \/ PlainBegins(c) \/ PlainEnds(c) \/ EventEnds(c)

Next ==
    \/ \E c \in Callbacks, s \in Sources : CallbackNew(c, s)
    \/ \E c \in Callbacks : Post(c) \/ Run(c)
    \/ Dispatch
    \/ \E s \in Sources : SourceOn(s) \/ SourceOff(s)
    \/ InterpDelete \/ InterpContextCleanup \/ ThreadExits

Spec == Init /\ [][Next]_vars

-----------------------------------------------------------------------------
(* Safety. *)

TypeOK ==
    /\ pc \in [Callbacks -> PCs] /\ from \in [Callbacks -> Sources \union {NoSource}]
    /\ timed \in [Callbacks -> BOOLEAN]
    /\ nrefs \in [Callbacks -> 0 .. 2] /\ winerr \in [Callbacks -> WinErrs]
    /\ response \in [Callbacks -> Responses]
    /\ event \in [Callbacks -> {"none", "open", "closed"}]
    /\ signaled \in [Callbacks -> BOOLEAN]
    /\ at \in [Callbacks -> Places] /\ queue \in Seq(Callbacks)
    /\ stack \in Seq(Callbacks) /\ thread \in {"alive", "exited"}
    /\ interp \in {"alive", "deleted", "gone"} /\ sources \subseteq Sources
    /\ tic \in [refs : Nat, deletes : Nat]
    /\ posted \in Seq(Callbacks) /\ started \in Seq(Callbacks)
    /\ outcome \in [Callbacks -> Outcomes]

\* The event of c is on the queue, being serviced, or lost with its thread
Pending(c) == at[c] \in {"queued", "call", "eval", "plain", "signal", "unref", "lost"}

\* Its caller waits for it or holds the response
Held(c) == pc[c] \in {"waiting", "answered"}

\* A callback has one reference for its event and one for a caller that waits for
\* it or has it (async.c:77-88): none is ever missing, and none is left over unless
\* the caller timed out, whose reference nobody drops (TimedOutReleased).
CallbackRefsExact ==
    \A c \in Callbacks :
        /\ nrefs[c] >= One(Pending(c)) + One(Held(c))
        /\ pc[c] # "timedout" => nrefs[c] = One(Pending(c)) + One(Held(c))

\* The context has the references of its interpreter and of the list, one
\* for each source, one for each event and one for each script that is being run.
ContextRefsExact ==
    tic.refs = 2 * One(interp # "gone") + Cardinality(sources)
               + Cardinality({c \in Callbacks : Pending(c)})
               + Cardinality({c \in Callbacks : at[c] = "eval"})

\* TwapiInterpContextDelete runs once, when nothing refers to the context any
\* more: no unref of a late event finds the count at zero again.
ContextDeletedOnce == tic.deletes = One(tic.refs = 0)

\* The completion event is not closed while the Tcl thread has yet to signal
\* it or its poster waits for it (Twapi_TclEventProc, TwapiEnqueueCallback).
EventOpenInUse ==
    \A c \in Callbacks :
        Pending(c) \/ pc[c] \in {"waiting", "answered"} => event[c] # "closed"

\* Who is answered has what the callback left behind when it had run: neither
\* the values it was created with nor those of a callback already deleted.
AnswerIsOutcome ==
    \A c \in Callbacks :
        pc[c] = "answered" =>
            /\ outcome[c] # "none"
            /\ [winerr |-> winerr[c], response |-> response[c]] = Answer(outcome[c])

\* The context a poster hands over outlives its TwapiEnqueueCallback: "Caller
\* has to ensure this does not go away until this function returns" (async.c:25-26).
ContextOutlivesPosters ==
    \A c \in Callbacks : Posting(c) => tic.deletes = 0

\* The reference of a caller that gave up is dropped when the callback is done:
\* "The corresponding Unref will happen below after we get the response or time
\* out" (async.c:84-85).
TimedOutReleased ==
    \A c \in Callbacks : pc[c] = "timedout" /\ at[c] = "done" => event[c] = "closed"

\* The framework keeps the promise of AsyncCall, nested event loops included.
Calls == INSTANCE AsyncCall
    WITH Calls <- Callbacks, begun <- started,
         finished <- {c \in Callbacks : at[c] \in {"unref", "done"}},
         reply <- [c \in Callbacks |->
                     CASE pc[c] = "timedout" -> "gaveup"
                       [] pc[c] \in {"answered", "back"} /\ timed[c] -> "answer"
                       [] OTHER -> "none"]
ServesCalls == Calls!Spec

-----------------------------------------------------------------------------
(* Liveness. *)

\* The Tcl thread goes on in C code, scripts end, and the event loop is entered
\* again after each; posters go on, and a wait ends.
Fairness ==
    /\ WF_vars(Dispatch) /\ WF_vars(InterpContextCleanup)
    /\ \A c \in Callbacks : WF_vars(Run(c)) /\ WF_vars(Post(c))

FairSpec == Spec /\ Fairness

\* Every callback that is queued is run, nested or not, or its thread ends.
QueuedRuns ==
    \A c \in Callbacks : at[c] = "queued" ~> at[c] \in {"done", "lost"}

\* Once its interpreter and its sources are gone the context is deleted, unless
\* the thread has ended and taken events with it.
ContextFreed ==
    interp = "gone" /\ sources = {}
        ~> tic.deletes = 1 \/ \E c \in Callbacks : at[c] = "lost"
=============================================================================
