------------------------------- MODULE ComSink -------------------------------
(***************************************************************************)
(* The COM objects that TWAPI implements (com/comserver.c), as sinks for   *)
(* the events of Automation objects (tcl/com.tcl, -bind and -unbind) and   *)
(* as objects made by class factories for clients of a COM server.  Calls  *)
(* come in on the interpreter's thread whenever it dispatches messages, so *)
(* also while a script handles another call, and while it waits for its    *)
(* own calls to Advise and Unadvise: a script may be called for a sink     *)
(* that is just being bound or unbound, unbind it again, and destroy the   *)
(* object it belongs to, which is also allowed within its destructor.      *)
(***************************************************************************)
EXTENDS Naturals, Sequences, FiniteSets, SequencesExt

CONSTANTS
    Servers,    \* bound: the Twapi_ComServer structures ever made
    Automation, \* the Automation objects, each with the source of its events
    MaxDepth,   \* bound: incoming calls inside each other
    MaxLocks    \* bound: the locks that clients hold on the server process

Nobody == "Nobody"

ASSUME ComSinkAssumption ==
    /\ IsFiniteSet(Servers) /\ Nobody \notin Automation
    /\ MaxDepth \in Nat /\ MaxLocks \in Nat

VARIABLES
    \* the Twapi_ComServer s
    refc,
    life,     \* "none", "live" or "freed"
    outside,  \* the event source or the client has a reference
    \* the Automation objects
    obj,      \* "alive", "destroying" or "gone"
    owner,    \* owner[s]: the object whose sink s is, or Nobody
    sinks,    \* sinks[a]: _sinks, each with a reference to the sink
    points,   \* points[a]: _connection_pts
    advised,  \* the sinks that the sources have connections to
    proxy,    \* the objects that hold their _proxy
    \* the process
    stack,    \* the calls in progress, the innermost last
    servers,  \* the count of CoAddRefServerProcess
    locks,    \* how many of those are from LockServer
    signal,   \* com_shutdown_signal has been set
    leaky     \* history: the objects whose destructor does not end all bindings,
              \* as an Unadvise has failed, they were destroyed from within, or a
              \* sink was bound when they were no longer alive

comVars == <<refc, life, outside>>
autoVars == <<obj, owner, sinks, points, advised, proxy>>
procVars == <<servers, locks, signal>>
vars == <<comVars, autoVars, stack, procVars, leaky>>

Results == {"none", "ok", "error"}

\* "invoke": a script runs in Twapi_ComServer_Invoke of s; "find": -bind of a looks
\* for its source of events; "bind", "unbind": -bind or -unbind has called Advise or
\* Unadvise for s, whose result may have been decided; "destroy": the destructor
\* of a, with the sinks it has still to unbind.
Frames == [op : {"invoke"}, s : Servers]
          \union [op : {"find"}, a : Automation]
          \union [op : {"bind", "unbind"}, s : Servers, result : Results]
          \union [op : {"destroy"}, a : Automation, todo : SUBSET Servers]

One(b) == IF b THEN 1 ELSE 0

Top == Last(stack)
\* A script runs, of the application or called by COM
Scripting == IF stack = <<>> THEN TRUE ELSE Top.op = "invoke"
\* Calls can come in: a script dispatches messages, or an outgoing call does
Pumping == IF stack = <<>> THEN TRUE
           ELSE \/ Top.op \in {"invoke", "find"}
                \/ Top.op \in {"bind", "unbind"} /\ Top.result # "error"

Push(f) == stack' = Append(stack, f)
\* How many calls have come in and not returned
Depth == Len(SelectSeq(stack, LAMBDA f : f.op = "invoke"))

-----------------------------------------------------------------------------
(* The structure and its references. *)

\* Twapi_ComServer_Release.  The last one frees the structure and, when it was
\* the last object of the process, sets com_shutdown_signal.
BugRelease(s) ==
    /\ refc' = [refc EXCEPT ![s] = @ - 1]
    /\ IF refc[s] = 1
       THEN /\ life' = [life EXCEPT ![s] = "freed"]
            /\ servers' = servers - 1
            /\ signal' = (signal \/ servers = locks + 1)
       ELSE UNCHANGED <<life, servers, signal>>

Release(s) ==
    /\ refc' = [refc EXCEPT ![s] = @ - 1]
    /\ IF refc[s] = 1
       THEN /\ life' = [life EXCEPT ![s] = "freed"]
            /\ servers' = servers - 1
            /\ signal' = (signal \/ servers = 1)
       ELSE UNCHANGED <<life, servers, signal>>

Init ==
    /\ refc = [s \in Servers |-> 0] /\ life = [s \in Servers |-> "none"]
    /\ outside = {}
    /\ obj = [a \in Automation |-> "alive"] /\ owner = [s \in Servers |-> Nobody]
    /\ sinks = [a \in Automation |-> {}] /\ points = [a \in Automation |-> {}]
    /\ advised = {} /\ proxy = Automation
    /\ stack = <<>> /\ servers = 0 /\ locks = 0 /\ signal = FALSE /\ leaky = {}

\* Twapi_ComServerObjCmd, with n references
New(s, n) ==
    /\ life[s] = "none"
    /\ life' = [life EXCEPT ![s] = "live"] /\ refc' = [refc EXCEPT ![s] = n]
    /\ servers' = servers + 1

\* Twapi_ClassFactory_CreateInstance: the reference of the script is the client's
CreateInstance(s) ==
    /\ Pumping /\ New(s, 1)
    /\ outside' = outside \union {s}
    /\ UNCHANGED <<autoVars, stack, locks, signal, leaky>>

\* LockServer(TRUE) and LockServer(FALSE)
Lock ==
    /\ Pumping /\ locks < MaxLocks
    /\ locks' = locks + 1 /\ servers' = servers + 1
    /\ UNCHANGED <<comVars, autoVars, stack, signal, leaky>>

Unlock ==
    /\ Pumping /\ locks > 0
    /\ locks' = locks - 1 /\ servers' = servers - 1
    /\ signal' = (signal \/ servers = 1)
    /\ UNCHANGED <<comVars, autoVars, stack, leaky>>

\* The client, or a source that is no longer connected, drops its reference.
\* Until then it may still have calls to make.
OutsideReleases(s) ==
    /\ Pumping /\ s \in outside \ advised
    /\ outside' = outside \ {s}
    /\ Release(s)
    /\ UNCHANGED <<autoVars, stack, locks, leaky>>

BugInvoke(s) ==
    /\ Pumping /\ s \in outside /\ Depth < MaxDepth
    /\ owner[s] # Nobody => obj[owner[s]] # "gone"
    /\ Push([op |-> "invoke", s |-> s])
    /\ UNCHANGED <<comVars, autoVars, procVars, leaky>>

\* Twapi_ComServer_Invoke: "Before eval'ing, addref ourselves so we don't get
\* deleted in a recursive callback".  Nothing is run for an Automation object
\* that has gone (_eventsink_callback).
Invoke(s) ==
    /\ Pumping /\ s \in outside /\ Depth < MaxDepth
    /\ owner[s] # Nobody => obj[owner[s]] # "gone"
    /\ Push([op |-> "invoke", s |-> s])
    /\ refc' = [refc EXCEPT ![s] = @ + 1]
    /\ UNCHANGED <<life, outside, autoVars, procVars, leaky>>

InvokeEnds(s) ==
    /\ stack # <<>> /\ Top = [op |-> "invoke", s |-> s]
    /\ stack' = Front(stack)
    /\ Release(s)
    /\ UNCHANGED <<outside, autoVars, locks, leaky>>

-----------------------------------------------------------------------------
(* Automation objects. *)

\* The call that Top was made from
Below == Front(stack)
Decided(r) == Append(Below, [Top EXCEPT !.result = r])

\* -bind asks the object for its source of events ...
Bind(a) ==
    /\ Scripting /\ obj[a] # "gone"
    /\ Push([op |-> "find", a |-> a])
    /\ UNCHANGED <<comVars, autoVars, procVars, leaky>>

\* ... which fails, as it may when the object is destroyed meanwhile ...
FindFails(a) ==
    /\ stack # <<>> /\ Top = [op |-> "find", a |-> a]
    /\ stack' = Below
    /\ UNCHANGED <<comVars, autoVars, procVars, leaky>>

\* ... makes a sink, with the reference of the procedure, and calls Advise ...
BindSink(a, s) ==
    /\ stack # <<>> /\ Top = [op |-> "find", a |-> a]
    /\ New(s, 1)
    /\ owner' = [owner EXCEPT ![s] = a]
    /\ stack' = Append(Below, [op |-> "bind", s |-> s, result |-> "none"])
    /\ UNCHANGED <<outside, obj, sinks, points, advised, proxy, locks, signal, leaky>>

\* ... with which the source takes a reference, and may make calls at once ...
Advise(s) ==
    /\ stack # <<>> /\ Top = [op |-> "bind", s |-> s, result |-> "none"]
    /\ \/ /\ stack' = Decided("ok")
          /\ refc' = [refc EXCEPT ![s] = @ + 1]
          /\ outside' = outside \union {s} /\ advised' = advised \union {s}
       \/ /\ stack' = Decided("error")
          /\ UNCHANGED <<refc, outside, advised>>
    /\ UNCHANGED <<life, obj, owner, sinks, points, proxy, procVars, leaky>>

\* ... and stores the sink.  The variables of an object that has gone cannot be
\* set: the procedure releases the sink, but the connection stays.
StoreSink(s) ==
    /\ stack # <<>> /\ Top = [op |-> "bind", s |-> s, result |-> "ok"]
    /\ stack' = Below
    /\ LET a == owner[s]
       IN  /\ IF obj[a] # "gone"
              THEN /\ sinks' = [sinks EXCEPT ![a] = @ \union {s}]
                   /\ points' = [points EXCEPT ![a] = @ \union {s}]
                   /\ UNCHANGED <<refc, life, servers, signal>>
              ELSE /\ Release(s)
                   /\ UNCHANGED <<sinks, points>>
           /\ leaky' = IF obj[a] = "alive" THEN leaky ELSE leaky \union {a}
    /\ UNCHANGED <<outside, obj, owner, advised, proxy, locks>>

\* Advise has failed: the sink is released at once
BindFails(s) ==
    /\ stack # <<>> /\ Top = [op |-> "bind", s |-> s, result |-> "error"]
    /\ stack' = Below
    /\ Release(s)
    /\ UNCHANGED <<outside, autoVars, locks, leaky>>

\* -unbind calls Unadvise
Unbind(s) ==
    /\ Scripting /\ owner[s] # Nobody /\ s \in points[owner[s]]
    /\ obj[owner[s]] # "gone"
    /\ Push([op |-> "unbind", s |-> s, result |-> "none"])
    /\ UNCHANGED <<comVars, autoVars, procVars, leaky>>

\* The source decides on the innermost Unadvise: it has ended the connection, or
\* the call fails, as it must when there is no connection.  The answer reaches the
\* thread after calls that the source makes in between.
Unadvise(s) ==
    /\ stack # <<>> /\ Top = [op |-> "unbind", s |-> s, result |-> "none"]
    /\ \/ /\ s \in advised /\ advised' = advised \ {s}
          /\ stack' = Decided("ok")
          /\ UNCHANGED leaky
       \/ /\ stack' = Decided("error")
          /\ leaky' = leaky \union {owner[s]}
          /\ UNCHANGED advised
    /\ UNCHANGED <<comVars, obj, owner, sinks, points, proxy, procVars>>

\* The innermost call ends with an error, which ends a destructor too
Fail ==
    IF Below # <<>> /\ Last(Below).op = "destroy"
    THEN /\ stack' = Front(Below)
         /\ obj' = [obj EXCEPT ![Last(Below).a] = "gone"]
    ELSE /\ stack' = Below
         /\ UNCHANGED obj

\* -unbind goes on: the sink is forgotten and released.  When a call from inside
\* has unbound it, or destroyed the object, the variable is not there: an error.
Unbound(s) ==
    /\ stack # <<>> /\ Top = [op |-> "unbind", s |-> s, result |-> "ok"]
    /\ LET a == owner[s]
       IN  IF s \in points[a] /\ obj[a] # "gone"
           THEN /\ points' = [points EXCEPT ![a] = @ \ {s}]
                /\ sinks' = [sinks EXCEPT ![a] = @ \ {s}]
                /\ Release(s)
                /\ stack' = Below
                /\ UNCHANGED obj
           ELSE /\ Fail
                /\ UNCHANGED <<points, sinks, refc, life, servers, signal>>
    /\ UNCHANGED <<outside, owner, advised, proxy, locks, leaky>>

UnbindFails(s) ==
    /\ stack # <<>> /\ Top = [op |-> "unbind", s |-> s, result |-> "error"]
    /\ Fail
    /\ UNCHANGED <<comVars, owner, sinks, points, advised, proxy, procVars, leaky>>

BugDestroy(a) ==
    /\ Scripting /\ obj[a] = "alive"
    /\ Push([op |-> "destroy", a |-> a, todo |-> {}])
    /\ obj' = [obj EXCEPT ![a] = "destroying"]
    /\ UNCHANGED <<comVars, owner, sinks, points, advised, proxy, procVars, leaky>>

\* -destroy: the destructor takes the names of the sinks there are now
Destroy(a) ==
    /\ Scripting /\ obj[a] = "alive"
    /\ Push([op |-> "destroy", a |-> a, todo |-> sinks[a]])
    /\ obj' = [obj EXCEPT ![a] = "destroying"]
    /\ UNCHANGED <<comVars, owner, sinks, points, advised, proxy, procVars, leaky>>

\* A script that is called from within the destructor destroys the object again: it
\* is deleted at once, with its variables.
DestroyAgain(a) ==
    /\ Scripting /\ obj[a] = "destroying"
    /\ obj' = [obj EXCEPT ![a] = "gone"]
    /\ leaky' = leaky \union {a}
    /\ UNCHANGED <<comVars, owner, sinks, points, advised, proxy, stack, procVars>>

\* The destructor unbinds the next of them, unless a call from inside has done so
DestroyNext(a, s) ==
    /\ stack # <<>> /\ Top.op = "destroy" /\ Top.a = a /\ s \in Top.todo
    /\ LET rest == Append(Below, [Top EXCEPT !.todo = @ \ {s}])
       IN  IF s \in points[a]
           THEN stack' = Append(rest, [op |-> "unbind", s |-> s, result |-> "none"])
           ELSE stack' = rest
    /\ UNCHANGED <<comVars, autoVars, procVars, leaky>>

Destroyed(a) ==
    /\ stack # <<>> /\ Top = [op |-> "destroy", a |-> a, todo |-> {}]
    /\ stack' = Below
    /\ proxy' = proxy \ {a} /\ obj' = [obj EXCEPT ![a] = "gone"]
    /\ UNCHANGED <<comVars, owner, sinks, points, advised, procVars, leaky>>

FindGoes(a)    == FindFails(a) \/ \E s \in Servers : BindSink(a, s)
BindGoes(s)    == Advise(s) \/ StoreSink(s) \/ BindFails(s)
UnbindGoes(s)  == Unadvise(s) \/ Unbound(s) \/ UnbindFails(s)
DestroyGoes(a) == Destroyed(a) \/ \E s \in Servers : DestroyNext(a, s)

Next ==
    \/ \E s \in Servers : CreateInstance(s) \/ OutsideReleases(s)
    \/ \E s \in Servers : Invoke(s) \/ InvokeEnds(s) \/ BindGoes(s)
    \/ \E s \in Servers : Unbind(s) \/ UnbindGoes(s)
    \/ \E a \in Automation : Bind(a) \/ FindGoes(a)
    \/ \E a \in Automation : Destroy(a) \/ DestroyAgain(a) \/ DestroyGoes(a)
    \/ Lock \/ Unlock

Spec == Init /\ [][Next]_vars

\* A call that is not interrupted by others for ever returns, and so does a script;
\* sources and clients drop their references.
Fairness ==
    /\ SF_vars(\E s \in Servers : InvokeEnds(s))
    /\ SF_vars(\E s \in Servers : OutsideReleases(s))
    /\ SF_vars(\E s \in Servers : BindGoes(s))
    /\ SF_vars(\E s \in Servers : UnbindGoes(s))
    /\ SF_vars(\E a \in Automation : FindGoes(a))
    /\ SF_vars(\E a \in Automation : DestroyGoes(a))

FairSpec == Spec /\ Fairness

-----------------------------------------------------------------------------
(* Properties. *)

TypeOK ==
    /\ refc \in [Servers -> Nat] /\ life \in [Servers -> {"none", "live", "freed"}]
    /\ outside \subseteq Servers /\ advised \subseteq Servers
    /\ obj \in [Automation -> {"alive", "destroying", "gone"}]
    /\ owner \in [Servers -> Automation \union {Nobody}]
    /\ sinks \in [Automation -> SUBSET Servers]
    /\ points \in [Automation -> SUBSET Servers]
    /\ proxy \subseteq Automation /\ leaky \subseteq Automation
    /\ \A i \in 1 .. Len(stack) : stack[i] \in Frames
    /\ servers \in Nat /\ locks \in 0 .. MaxLocks /\ signal \in BOOLEAN

\* The calls in progress that run a script of s
Invocations(s) == {i \in 1 .. Len(stack) : stack[i] = [op |-> "invoke", s |-> s]}

\* -bind has made s and holds a reference until it has stored it
Binding(s) == \E i \in 1 .. Len(stack) : stack[i].op = "bind" /\ stack[i].s = s

\* A structure has one reference of -bind, then of _sinks, one from outside and one
\* of each call it serves, and is freed with the last: not under a script that
\* unbinds its own sink or destroys the object it was called for (comserver.c:339),
\* and not twice when unbinding is entered again from within Unadvise.
SinkRefsExact ==
    /\ TypeOK
    /\ \A s \in Servers :
          /\ refc[s] = One(Binding(s)) + One(s \in UNION Range(sinks))
                       + One(s \in outside) + Cardinality(Invocations(s))
          /\ life[s] = "live" <=> refc[s] > 0

\* "Called if there are no more objects anywhere in the process" (comserver.c:118):
\* the script is told to shut down only when no sink or object is left and no
\* client has locked the server.
ShutdownWhenIdle ==
    [][signal' /\ ~signal => locks' = 0 /\ \A s \in Servers : life'[s] # "live"]_vars

\* "The binding is automatically deleted when COMOBJ is destroyed" (com.man:819):
\* the sinks of an object that is destroyed are freed and its proxy released, unless
\* it is leaky; a script that unbinds its sinks while it is called for one of them,
\* or destroys the object, does not prevent it.
BindingsEnd ==
    \A a \in Automation :
        obj[a] = "gone"
            ~> \/ a \in leaky
               \/ a \notin proxy /\ \A s \in Servers : owner[s] = a => life[s] = "freed"

\* "Destroys the COM object, removing any bindings and releasing resources"
\* (com.man:840), without exception: an Unadvise fails when a source has gone, and
\* when a script called from within Unadvise unbinds the sink again; one called from
\* within the destructor may destroy the object again, or bind to it.
BindingsAlwaysEnd ==
    \A a \in Automation :
        obj[a] = "gone" ~> \A s \in Servers : owner[s] = a => life[s] = "freed"
=============================================================================
