--------------------------- MODULE DeviceNotifier ---------------------------
(***************************************************************************)
(* Device notifications (device/device.c, tcl/device.tcl).  Scripts start  *)
(* and stop notifiers by posting messages to the one notification thread   *)
(* of the process, which gives each notifier a hidden window.  The system  *)
(* sends device events to the windows; the thread hands them to the        *)
(* interpreter as callbacks (see CallbackQueue and AsyncCall) and waits    *)
(* for the script's answer when the system asks for permission.  The       *)
(* TwapiDeviceNotificationContext n of a notifier is passed from thread to *)
(* thread with an ordinary reference count.                                *)
(*                                                                         *)
(* One interpreter; nested event loops are in CallbackQueue.               *)
(***************************************************************************)
EXTENDS Naturals, Sequences, FiniteSets, SequencesExt

CONSTANTS
    Notifiers, \* bound: the notifiers ever started; also their ids
    DevType,   \* DevType[n]: the type of device n is started for
    Events,    \* the events the system may have: subset of EventTypes
    MaxEvents, \* bound: how many it has
    Faults     \* the calls that may fail: subset of FaultKinds

\* "volume" stands for ports too: the system tells every window about those.
DeviceTypes == {"handle", "interface", "volume"}
FaultKinds == {"post", "window", "register", "event"}

\* An event is about a device or, with type "any", about all of them, such as
\* DBT_DEVNODES_CHANGED; it informs or, like DBT_DEVICEQUERYREMOVE and
\* DBT_QUERYCHANGECONFIG, asks.
EventTypes == [type : DeviceTypes \union {"any"}, asks : BOOLEAN]

ASSUME DeviceNotifierAssumption ==
    /\ IsFiniteSet(Notifiers) /\ MaxEvents \in Nat
    /\ DevType \in [Notifiers -> DeviceTypes] /\ Events \subseteq EventTypes
    /\ Faults \subseteq FaultKinds

\* Callback <<n, i>> is that of notifier n for the event number i.
Callbacks == Notifiers \X (1 .. MaxEvents)
\* No callback
None == <<>>

VARIABLES
    \* TwapiDeviceNotificationContext
    life,      \* "none", "live" or "deleted"
    nrefs,
    hnotif,    \* hnotification is registered with the system
    window,    \* "none", "open", "destroyed"; and, when RegisterDeviceNotification
               \* fails, "unlisted" (left open) or "lost" (destroyed)
    \* the notification thread
    registry,  \* gTwapiDeviceNotificationRegistry
    posted,    \* the messages posted to it
    sent,      \* sent[n]: the numbers of the events sent to the window of n
    waiting,   \* the callback whose answer it waits for, or None
    \* the Tcl thread
    interp,    \* "alive" or "deleted"
    active,    \* _device_notifiers
    queue, running, \* the callbacks queued, and the one whose script runs
    response,  \* response[c]: "none" until c is answered, if it asks
    \* history
    events,    \* the events of the system
    told,      \* the callbacks for which a script was called
    vetoed,    \* the callbacks whose script answered false
    reply      \* reply[c]: what the window procedure returned, if c asks

dncVars  == <<life, nrefs, hnotif, window>>
tclVars  == <<interp, active, queue, running>>
histVars == <<told, vetoed>>
vars == <<dncVars, registry, posted, sent, waiting, tclVars, response, events,
          histVars, reply>>

Messages == [op : {"add", "remove"}, n : Notifiers]
Answers == {"none", "true", "false", "empty"}
Scripting == interp = "alive"
One(b) == IF b THEN 1 ELSE 0

Init ==
    /\ life = [n \in Notifiers |-> "none"]
    /\ nrefs = [n \in Notifiers |-> 0]
    /\ hnotif = [n \in Notifiers |-> FALSE] /\ window = [n \in Notifiers |-> "none"]
    /\ registry = {} /\ posted = <<>> /\ sent = [n \in Notifiers |-> <<>>]
    /\ waiting = None
    /\ interp = "alive" /\ active = {} /\ queue = <<>> /\ running = None
    /\ response = [c \in Callbacks |-> "none"] /\ events = <<>>
    /\ told = {} /\ vetoed = {} /\ reply = [c \in Callbacks |-> "none"]

-----------------------------------------------------------------------------
(* The interpreter: starting and stopping notifiers. *)

\* TwapiDeviceNotificationContextUnref by k, after the count was raised by up
Unref(n, up, k) ==
    LET left == nrefs[n] + up
    IN  /\ nrefs' = [nrefs EXCEPT ![n] = IF left > k THEN left - k ELSE 0]
        /\ life' = [life EXCEPT ![n] = IF left > k THEN @ ELSE "deleted"]

\* start_device_notifier: the message has a reference
Start(n) ==
    /\ Scripting /\ life[n] = "none"
    /\ life' = [life EXCEPT ![n] = "live"]
    /\ nrefs' = [nrefs EXCEPT ![n] = 1]
    /\ posted' = Append(posted, [op |-> "add", n |-> n])
    /\ active' = active \union {n}
    /\ UNCHANGED <<hnotif, window, registry, sent, waiting, interp, queue, running,
                   response, events, histVars, reply>>

\* PostThreadMessage fails: the context is dropped and the script gets an error
StartFails(n) ==
    /\ Scripting /\ life[n] = "none" /\ "post" \in Faults
    /\ Unref(n, 1, 1)
    /\ UNCHANGED <<hnotif, window, registry, posted, sent, waiting, tclVars,
                   response, events, histVars, reply>>

\* stop_device_notifier; when the message cannot be posted nothing changes
Stop(n) ==
    /\ Scripting /\ n \in active
    /\ posted' = Append(posted, [op |-> "remove", n |-> n])
    /\ active' = active \ {n}
    /\ UNCHANGED <<dncVars, registry, sent, waiting, interp, queue, running, response,
                   events, histVars, reply>>

\* The interpreter goes, with its variables; its notifiers stay
InterpDelete ==
    /\ Scripting
    /\ interp' = "deleted" /\ active' = {}
    /\ UNCHANGED <<dncVars, registry, posted, sent, waiting, queue, running, response,
                   events, histVars, reply>>

-----------------------------------------------------------------------------
(* The notification thread: messages posted to it. *)

Message(op, n) ==
    /\ waiting = None /\ posted # <<>>
    /\ Head(posted) = [op |-> op, n |-> n]
    /\ posted' = Tail(posted)

\* The hidden window cannot be created: the reference of the message is dropped
OpenFails(n) ==
    /\ Message("add", n) /\ "window" \in Faults
    /\ Unref(n, 0, 1)
    /\ UNCHANGED <<hnotif, window, registry, sent, waiting, tclVars, response,
                   events, histVars, reply>>

BugOpen(n) ==
    /\ Message("add", n)
    /\ Unref(n, 1, 1)
    /\ window' = [window EXCEPT ![n] = "open"]
    /\ hnotif' = [hnotif EXCEPT ![n] = DevType[n] # "volume"]
    /\ registry' = registry \union {n}
    /\ UNCHANGED <<sent, waiting, tclVars, response, events, histVars, reply>>

\* The window and the registry each have a reference; the message drops its own.
Open(n) ==
    /\ Message("add", n)
    /\ Unref(n, 2, 1)
    /\ window' = [window EXCEPT ![n] = "open"]
    /\ hnotif' = [hnotif EXCEPT ![n] = DevType[n] # "volume"]
    /\ registry' = registry \union {n}
    /\ UNCHANGED <<sent, waiting, tclVars, response, events, histVars, reply>>

\* RegisterDeviceNotification fails: the context is in no list yet.  The window of
\* a handle is destroyed, and TwapiDeviceNotificationWinCleanup does not find its
\* context; that of an interface class stays.
OpenRefused(n) ==
    /\ Message("add", n) /\ DevType[n] # "volume" /\ "register" \in Faults
    /\ Unref(n, 1, 1)
    /\ window' = [window EXCEPT ![n] = IF DevType[n] = "handle" THEN "lost"
                                       ELSE "unlisted"]
    /\ UNCHANGED <<hnotif, registry, sent, waiting, tclVars, response, events,
                   histVars, reply>>

BugClose(n) ==
    /\ Message("remove", n) /\ n \in registry
    /\ registry' = registry \ {n}
    /\ window' = [window EXCEPT ![n] = "destroyed"]
    /\ hnotif' = [hnotif EXCEPT ![n] = FALSE]
    /\ sent' = [sent EXCEPT ![n] = <<>>]
    /\ Unref(n, 0, 1)
    /\ UNCHANGED <<waiting, tclVars, response, events, histVars, reply>>

\* DestroyWindow, and TwapiDeviceNotificationWinCleanup for the WM_DESTROY: what was
\* sent to the window is gone, and so are the references of window and registry.
Close(n) ==
    /\ Message("remove", n) /\ n \in registry
    /\ registry' = registry \ {n}
    /\ window' = [window EXCEPT ![n] = "destroyed"]
    /\ hnotif' = [hnotif EXCEPT ![n] = FALSE]
    /\ sent' = [sent EXCEPT ![n] = <<>>]
    /\ Unref(n, 0, 2)
    /\ UNCHANGED <<waiting, tclVars, response, events, histVars, reply>>

\* TwapiFindDeviceNotificationById does not find it
CloseUnknown(n) ==
    /\ Message("remove", n) /\ n \notin registry
    /\ UNCHANGED <<dncVars, registry, sent, waiting, tclVars, response, events,
                   histVars, reply>>

-----------------------------------------------------------------------------
(* The notification thread: TwapiDeviceNotificationWinProc. *)

\* The windows that the system tells of event e
Receives(n, e) ==
    /\ window[n] \in {"open", "unlisted"}
    /\ e.type \in {"any", "volume"} \/ (hnotif[n] /\ e.type = DevType[n])

\* The system has an event for the windows
Send(e) ==
    /\ Len(events) < MaxEvents /\ events' = Append(events, e)
    /\ sent' = [n \in Notifiers |->
                  IF Receives(n, e) THEN Append(sent[n], Len(events) + 1) ELSE sent[n]]
    /\ UNCHANGED <<dncVars, registry, posted, waiting, tclVars, response, histVars, reply>>

BugIsForOnly(n, e) == e.type = DevType[n]
\* What is about a device is for the notifiers of its type only.
IsFor(n, e) == e.type \in {"any", DevType[n]}

\* The window procedure takes the next event sent to the window of n
Receive(c) ==
    /\ waiting = None /\ sent[c[1]] # <<>> /\ c[2] = Head(sent[c[1]])
    /\ sent' = [sent EXCEPT ![c[1]] = Tail(@)]

Wanted(c) == IsFor(c[1], events[c[2]])
Asks(c)   == events[c[2]].asks

Return(c, b) == reply' = [reply EXCEPT ![c] = IF Asks(c) THEN b ELSE @]

Ignore(c) ==
    /\ Receive(c) /\ ~Wanted(c)
    /\ Return(c, "true")
    /\ UNCHANGED <<dncVars, registry, posted, waiting, tclVars, response, events, histVars>>

Notify(c) ==
    /\ Receive(c) /\ Wanted(c) /\ ~Asks(c)
    /\ queue' = Append(queue, c)
    /\ UNCHANGED <<dncVars, registry, posted, waiting, interp, active, running, response,
                   events, histVars, reply>>

\* A response is needed: TwapiEnqueueCallback with a timeout
Query(c) ==
    /\ Receive(c) /\ Wanted(c) /\ Asks(c)
    /\ queue' = Append(queue, c)
    /\ waiting' = c
    /\ UNCHANGED <<dncVars, registry, posted, interp, active, running, response, events,
                   histVars, reply>>

\* Its completion event cannot be created
QueryFails(c) ==
    /\ Receive(c) /\ Wanted(c) /\ Asks(c) /\ "event" \in Faults
    /\ Return(c, "true")
    /\ UNCHANGED <<dncVars, registry, posted, waiting, tclVars, response, events, histVars>>

\* Only a response of type TRT_BOOL counts; otherwise the answer is TRUE.
Granted(r) == IF r = "false" THEN "false" ELSE "true"

Answered ==
    /\ waiting # None /\ response[waiting] # "none"
    /\ Return(waiting, Granted(response[waiting]))
    /\ waiting' = None
    /\ UNCHANGED <<dncVars, registry, posted, sent, tclVars, response, events, histVars>>

BugTimedOut == FALSE
\* After thirty seconds
TimedOut ==
    /\ waiting # None /\ response[waiting] = "none"
    /\ Return(waiting, "true")
    /\ waiting' = None
    /\ UNCHANGED <<dncVars, registry, posted, sent, tclVars, response, events, histVars>>

-----------------------------------------------------------------------------
(* The Tcl thread: TwapiDeviceNotificationCallbackFn. *)

Dispatch(c) ==
    /\ running = None /\ queue # <<>> /\ c = Head(queue)
    /\ queue' = Tail(queue)

Answer(c, r) == response' = [response EXCEPT ![c] = IF Asks(c) THEN r ELSE @]

\* There is no interpreter; or _device_notification_handler does not know the id
\* and returns 1.
Discard(c) ==
    /\ Dispatch(c) /\ c[1] \notin active
    /\ Answer(c, IF interp = "alive" THEN "true" ELSE "empty")
    /\ UNCHANGED <<dncVars, registry, posted, sent, waiting, interp, active, running,
                   events, histVars, reply>>

\* The script of the notifier is called
Tell(c) ==
    /\ Dispatch(c) /\ c[1] \in active
    /\ running' = c /\ told' = told \union {c}
    /\ UNCHANGED <<dncVars, registry, posted, sent, waiting, interp, active, response,
                   events, vetoed, reply>>

\* It returns true, false, or something else or an error
ScriptEnds(r) ==
    /\ running # None
    /\ Answer(running, r)
    /\ vetoed' = IF r = "false" /\ Asks(running) THEN vetoed \union {running} ELSE vetoed
    /\ running' = None
    /\ UNCHANGED <<dncVars, registry, posted, sent, waiting, interp, active, queue, events,
                   told, reply>>

Post(n) == Open(n) \/ OpenFails(n) \/ OpenRefused(n) \/ Close(n) \/ CloseUnknown(n)
WinProc(c) == Ignore(c) \/ Notify(c) \/ Query(c) \/ QueryFails(c)
WaitEnds == Answered \/ TimedOut
Serve == \E c \in Callbacks : Discard(c) \/ Tell(c)

ThreadStep == \/ \E n \in Notifiers : Post(n)
              \/ \E c \in Callbacks : WinProc(c)
              \/ WaitEnds

Next ==
    \/ \E n \in Notifiers : Start(n) \/ StartFails(n) \/ Stop(n)
    \/ \E e \in Events : Send(e)
    \/ ThreadStep \/ InterpDelete \/ Serve
    \/ \E r \in Answers \ {"none"} : ScriptEnds(r)

Spec == Init /\ [][Next]_vars

-----------------------------------------------------------------------------
(* Safety. *)

TypeOK ==
    /\ life \in [Notifiers -> {"none", "live", "deleted"}]
    /\ nrefs \in [Notifiers -> 0 .. 2]
    /\ hnotif \in [Notifiers -> BOOLEAN]
    /\ window \in [Notifiers -> {"none", "open", "destroyed", "unlisted", "lost"}]
    /\ registry \subseteq Notifiers /\ posted \in Seq(Messages)
    /\ sent \in [Notifiers -> Seq(1 .. MaxEvents)]
    /\ waiting \in Callbacks \union {None}
    /\ interp \in {"alive", "deleted"} /\ active \subseteq Notifiers
    /\ queue \in Seq(Callbacks) /\ running \in Callbacks \union {None}
    /\ response \in [Callbacks -> Answers] /\ events \in Seq(Events)
    /\ told \subseteq Callbacks /\ vetoed \subseteq Callbacks
    /\ reply \in [Callbacks -> {"none", "true", "false"}]

\* The message that adds n is on its way
Adding(n) == [op |-> "add", n |-> n] \in Range(posted)
\* Event i is about all devices or of the type that n watches
Concerns(n, i) == events[i].type \in {"any", DevType[n]}
\* RegisterDeviceNotification has refused n
Refused(n) == window[n] \in {"unlisted", "lost"}

\* A context is referred to by the message that passes it to the notification
\* thread, by its window and by the registry, and is deleted, once, when none of
\* them does: "Window holds a ref. We unref here to match the ref in the initiating
\* interp" (device.c:791), "for a total of 2 derefs" (device.c:524).  The window data
\* of a refused handle keeps its reference for ever.
NotifierRefsExact ==
    /\ TypeOK
    /\ \A n \in Notifiers :
          /\ nrefs[n] = One(Adding(n)) + One(n \in registry)
                        + One(window[n] = "open" \/ Refused(n))
          /\ life[n] = "live" <=> nrefs[n] > 0
          /\ hnotif[n] => life[n] = "live" /\ window[n] = "open"

-----------------------------------------------------------------------------
(* Liveness. *)

\* The notification thread takes the next message, posted or sent, and its waits
\* end; the Tcl thread serves its queue, but a script may never return.
FairSpec == Spec /\ WF_vars(ThreadStep) /\ WF_vars(Serve)

ScriptsReturn == []<>(running = None)

\* "stop the notifications and release associated resources" (device.man:283-285):
\* a notifier that is stopped, at any time, ends, window and registration included,
\* unless it was refused.
StopReleases ==
    \A n \in Notifiers :
        life[n] = "live" /\ interp = "alive" /\ n \notin active
            ~> life[n] = "deleted" \/ Refused(n)

\* The answer to c refuses only what a script has refused
RightlyAnswered(c) == reply[c] # "none" /\ (reply[c] = "false" => c \in vetoed)

\* The system gets an answer to what it asks from every window, whatever the
\* scripts do, unless the window is destroyed first; the removal of a device, or a
\* change of the configuration, is refused only when a script has refused this one:
\* an answer that is late, missing or no boolean grants it (device.c:649,
\* "Notifications that expect a response default to "true"", device.tcl:28).
SystemAnswered ==
    \A c \in Callbacks :
        c[2] \in Range(sent[c[1]]) /\ Asks(c)
            ~> RightlyAnswered(c) \/ window[c[1]] = "destroyed"

\* Event i is in the window of notifier n, whose script should hear of it
ToTell(n, i) ==
    /\ n \in active /\ i \in Range(sent[n]) /\ Concerns(n, i)
    /\ events[i].asks => "event" \notin Faults

\* An event that reaches the window of a notifier is told to its script, unless
\* that is stopped first or its callback cannot be made, as long as scripts return.
EventReachesScript ==
    ScriptsReturn =>
        \A n \in Notifiers, i \in 1 .. MaxEvents :
            ToTell(n, i) ~> <<n, i>> \in told \/ n \notin active
=============================================================================
