---------------------------- MODULE ServiceControl ----------------------------
(***************************************************************************)
(* A process that runs as Windows services: service/service.c and the      *)
(* state machine of tcl/service.tcl.  The service control manager (SCM)    *)
(* starts and controls the services in a thread of its own, which queues   *)
(* the controls to the Tcl thread; there the state of the service changes, *)
(* the application is asked to act and answers when it likes, and timers   *)
(* keep the SCM informed in the meantime.                                  *)
(***************************************************************************)
EXTENDS Integers, Sequences, FiniteSets

CONSTANTS
    Interps,       \* interpreters that try to become the services of the process
    Services,      \* the services of the process
    MaxControls,   \* bound: starts and controls from the SCM
    MaxUpdates,    \* bound: updates that the application makes by itself
    MaxCheckpoint, \* bound: the checkpoint with which timers still report
    Faults         \* failures considered: subset of FaultKinds

\* "spec": a service specification is invalid.  "thread": the console handler is
\* not installed or the master thread not created.  "handler": the control handler
\* of a service cannot be registered or its first status not set.
FaultKinds == {"spec", "thread", "handler"}

None == "None"

ASSUME ServiceAssumption ==
    /\ IsFiniteSet(Services) /\ Services # {} /\ None \notin Interps
    /\ MaxControls \in Nat /\ MaxUpdates \in Nat /\ MaxCheckpoint \in Nat
    /\ Faults \subseteq FaultKinds

Pending  == {"start_pending", "stop_pending", "pause_pending", "continue_pending"}
Settled  == {"stopped", "running", "paused"}
Commands == {"start", "stop", "shutdown", "pause", "continue"}
Controls == Commands \union {"interrogate", "notify"}

VARIABLES
    owner,      \* gServiceInterpContextP
    master,     \* the master thread: "none", "claimed" by an interpreter, "runs"
    \* service_state, by service
    state, checkpoint, seq, seqack,
    timers,     \* the pending after commands: [s, state, checkpoint]
    queue,      \* callbacks on the Tcl queue: [s, control]
    \* the SCM: the last status of each service, and the controls it has sent
    scm, sent,
    \* the application: controls it was given and has not answered, [seq, control],
    \* what it updates by itself, and whether it was told that all have stopped
    asked, updates, allStopped

procVars  == <<owner, master>>
stateVars == <<state, checkpoint, seq, seqack, timers>>
appVars   == <<asked, updates, allStopped>>
vars      == <<procVars, stateVars, queue, scm, sent, appVars>>

Init ==
    /\ owner = None /\ master = "none"
    /\ state = [s \in Services |-> "stopped"] /\ checkpoint = [s \in Services |-> 0]
    /\ seq = [s \in Services |-> 0] /\ seqack = [s \in Services |-> 0]
    /\ timers = {} /\ queue = <<>>
    /\ scm = [s \in Services |-> [state |-> "stopped", checkpoint |-> 0]] /\ sent = 0
    /\ asked = [s \in Services |-> {}] /\ updates = 0 /\ allStopped = FALSE

-----------------------------------------------------------------------------
(* Becoming a service: Twapi_BecomeAService. *)

\* The first interpreter claims the process; all others are refused
Claim(i) ==
    /\ owner = None /\ owner' = i /\ master' = "claimed"
    /\ UNCHANGED <<stateVars, queue, scm, sent, appVars>>

\* error_handler gives it back
BadSpecification(i) ==
    /\ "spec" \in Faults /\ owner = i /\ master = "claimed"
    /\ owner' = None /\ master' = "none"
    /\ UNCHANGED <<stateVars, queue, scm, sent, appVars>>

\* The console handler or the thread fails: the process stays claimed
MasterFails(i) ==
    /\ "thread" \in Faults /\ owner = i /\ master = "claimed"
    /\ master' = "none"
    /\ UNCHANGED <<owner, stateVars, queue, scm, sent, appVars>>

MasterStarts(i) ==
    /\ owner = i /\ master = "claimed" /\ master' = "runs"
    /\ UNCHANGED <<owner, stateVars, queue, scm, sent, appVars>>

-----------------------------------------------------------------------------
(* The SCM and the thread it calls. *)

Send(s, control) ==
    /\ master = "runs" /\ sent < MaxControls /\ sent' = sent + 1
    /\ queue' = Append(queue, [s |-> s, control |-> control])
    /\ UNCHANGED <<procVars, stateVars, appVars>>

\* The SCM starts a service that it takes for stopped: TwapiServiceThread reports
\* the first status itself and queues the start.
ScmStarts(s) ==
    /\ scm[s].state = "stopped"
    /\ scm' = [scm EXCEPT ![s] = [state |-> "start_pending", checkpoint |-> 1]]
    /\ Send(s, "start")

\* A start that does not get as far as the queue
StartFails(s) ==
    /\ "handler" \in Faults /\ scm[s].state = "stopped"
    /\ master = "runs" /\ sent < MaxControls /\ sent' = sent + 1
    /\ UNCHANGED <<procVars, stateVars, queue, scm, appVars>>

\* TwapiServiceControlHandler for a service that is not stopped.  "notify" stands
\* for all the events that do not change the state.
ScmControls(s, control) ==
    /\ control # "start" /\ scm[s].state # "stopped"
    /\ Send(s, control) /\ UNCHANGED scm

-----------------------------------------------------------------------------
(* The Tcl thread. *)

\* A slip: the timer is given the checkpoint from before it was incremented.
BugReport(s, st, cp, ts) ==
    LET pending == st \in Pending
        cp1 == IF pending THEN cp + 1 ELSE 0
    IN
    /\ state' = [state EXCEPT ![s] = st]
    /\ checkpoint' = [checkpoint EXCEPT ![s] = cp1]
    /\ scm' = [scm EXCEPT ![s] = [state |-> st, checkpoint |-> cp1]]
    /\ timers' = ts \union (IF pending THEN {[s |-> s, state |-> st, checkpoint |-> cp]} ELSE {})

\* A slip: the SCM is given that checkpoint.
BugReportEarly(s, st, cp, ts) ==
    LET pending == st \in Pending
        cp1 == IF pending THEN cp + 1 ELSE 0
    IN
    /\ state' = [state EXCEPT ![s] = st]
    /\ checkpoint' = [checkpoint EXCEPT ![s] = cp1]
    /\ scm' = [scm EXCEPT ![s] = [state |-> st, checkpoint |-> cp]]
    /\ timers' = ts \union (IF pending THEN {[s |-> s, state |-> st, checkpoint |-> cp1]} ELSE {})

\* The state of s becomes st, with checkpoint cp, and _report_service_status sends
\* it to the SCM: a pending state with a greater checkpoint and, beside the timers
\* ts, one more to report it again.  Timers set with the same arguments count as one.
Report(s, st, cp, ts) ==
    LET pending == st \in Pending
        cp1 == IF pending THEN cp + 1 ELSE 0
    IN
    /\ state' = [state EXCEPT ![s] = st]
    /\ checkpoint' = [checkpoint EXCEPT ![s] = cp1]
    /\ scm' = [scm EXCEPT ![s] = [state |-> st, checkpoint |-> cp1]]
    /\ timers' = ts \union (IF pending THEN {[s |-> s, state |-> st, checkpoint |-> cp1]} ELSE {})

\* A status that nothing has changed since
ReportAgain(s) == Report(s, state[s], checkpoint[s], timers)

\* The state that a command brings about; it is st itself for those that make no
\* sense in it and are ignored
OnControl(st, control) ==
    CASE control = "start" /\ st = "stopped" -> "start_pending"
      [] control \in {"stop", "shutdown"} /\ st \notin {"stopped", "stop_pending"} -> "stop_pending"
      [] control = "pause" /\ st = "running" -> "pause_pending"
      [] control = "continue" /\ st \in {"pause_pending", "paused"} -> "continue_pending"
      [] OTHER -> st

\* _service_handler: the status is reported, and the application asked, before the
\* next event is served.  It may answer at once or later: see Answer.
Serve(s, ctrl) ==
    LET next == OnControl(state[s], ctrl) IN
    \/ /\ ctrl \in Commands /\ next # state[s]
       /\ Report(s, next, 1, timers)
       /\ seq' = [seq EXCEPT ![s] = @ + 1]
       /\ asked' = [asked EXCEPT ![s] = @ \union {[seq |-> seq[s] + 1, control |-> ctrl]}]
    \/ /\ ctrl \in Commands /\ next = state[s]
       /\ UNCHANGED <<state, checkpoint, timers, scm, seq, asked>>
    \/ /\ ctrl = "interrogate"
       /\ ReportAgain(s)
       /\ UNCHANGED <<seq, asked>>
    \/ /\ ctrl = "notify"
       /\ UNCHANGED <<state, checkpoint, timers, scm, seq, asked>>

\* TwapiServiceControlCallbackFn, for the first event on the queue
Handle ==
    /\ queue # <<>> /\ queue' = Tail(queue)
    /\ Serve(Head(queue).s, Head(queue).control)
    /\ UNCHANGED <<procVars, seqack, sent, updates, allStopped>>

\* _call_scm_within_waithint reports a state that has not changed since
Timer(t) ==
    /\ t \in timers
    /\ IF state[t.s] = t.state /\ checkpoint[t.s] = t.checkpoint
       THEN checkpoint[t.s] < MaxCheckpoint /\ Report(t.s, t.state, t.checkpoint, timers \ {t})
       ELSE timers' = timers \ {t} /\ UNCHANGED <<state, checkpoint, scm>>
    /\ UNCHANGED <<procVars, seq, seqack, queue, sent, appVars>>

-----------------------------------------------------------------------------
(* The application. *)

\* A control that the application has not answered makes all but its answer void
Outstanding(s) == seq[s] > seqack[s]

\* A slip: an answer to an older control is taken as well.
BugIgnored(s, q) == Outstanding(s) /\ q = 0

\* A slip: the answer to the control that is outstanding is ignored too.
BugIgnoredAll(s, q) == Outstanding(s) /\ (q = 0 \/ q <= seq[s])

Ignored(s, q) == Outstanding(s) /\ (q = 0 \/ q < seq[s])

\* The changes that an update may make: to stop at any time, to run from any state
\* but stopped and paused, to pause from the states that a pause leads to
MayBecome(st, new) ==
    \/ new = "stopped"
    \/ new = "running" /\ st \notin {"stopped", "paused"}
    \/ new = "paused" /\ st \in {"pause_pending", "continue_pending"}

\* update_service_status.  Once every service is stopped the application is told.
Update(s, q, new) ==
    /\ IF Ignored(s, q) THEN UNCHANGED seqack ELSE seqack' = [seqack EXCEPT ![s] = q]
    /\ IF ~Ignored(s, q) /\ new # state[s] /\ MayBecome(state[s], new)
       THEN /\ Report(s, new, checkpoint[s], timers)
            /\ allStopped' = (\A o \in Services : state'[o] = "stopped")
       ELSE UNCHANGED <<state, checkpoint, timers, scm, allStopped>>
    /\ UNCHANGED <<procVars, seq, queue, sent>>

\* What the documentation asks of the application: to answer each control, with a
\* state the control is about; to update its status by itself only as it is, or to stop.
Answers(control) ==
    CASE control \in {"stop", "shutdown"} -> {"stopped"}
      [] control = "start" -> {"running", "stopped"}
      [] OTHER -> {"running", "paused"}

Answer(s) ==
    \E a \in asked[s] : \E new \in Answers(a.control) :
        /\ Update(s, a.seq, new)
        /\ asked' = [asked EXCEPT ![s] = @ \ {a}] /\ UNCHANGED updates

UpdateByItself(s) ==
    \E new \in {"stopped", state[s]} \intersect Settled :
        /\ updates < MaxUpdates /\ updates' = updates + 1
        /\ Update(s, 0, new) /\ UNCHANGED asked

Next ==
    \/ \E i \in Interps : Claim(i) \/ BadSpecification(i) \/ MasterFails(i) \/ MasterStarts(i)
    \/ \E s \in Services :
          \/ ScmStarts(s) \/ StartFails(s) \/ Answer(s) \/ UpdateByItself(s)
          \/ \E c \in Controls : ScmControls(s, c)
    \/ Handle
    \/ \E t \in timers : Timer(t)

Spec == Init /\ [][Next]_vars

-----------------------------------------------------------------------------
(* Safety. *)

States == Pending \union Settled

\* Every variable keeps its type: timers are only set for pending states, and no
\* checkpoint or sequence number goes below zero.
TypeOK ==
    /\ owner \in Interps \union {None} /\ master \in {"none", "claimed", "runs"}
    /\ state \in [Services -> States] /\ checkpoint \in [Services -> Nat]
    /\ seq \in [Services -> Nat] /\ seqack \in [Services -> Nat]
    /\ timers \subseteq [s : Services, state : Pending, checkpoint : Nat]
    /\ queue \in Seq([s : Services, control : Controls])
    /\ scm \in [Services -> [state : States, checkpoint : Nat]] /\ sent \in Nat
    /\ asked \in [Services -> SUBSET [seq : Nat, control : Commands]]
    /\ updates \in Nat /\ allStopped \in BOOLEAN

\* While a service is in a pending state, a timer is set that will find the state
\* and the checkpoint unchanged: the SCM is not left without news because an older
\* timer took itself out, or because a control was served in between.
PendingReported ==
    \A s \in Services :
        state[s] \in Pending =>
            [s |-> s, state |-> state[s], checkpoint |-> checkpoint[s]] \in timers

\* The SCM has the state of a service as the Tcl thread knows it, but for a start
\* that is still on its way there.
ScmKnows ==
    \A s \in Services :
        \/ scm[s] = [state |-> state[s], checkpoint |-> checkpoint[s]]
        \/ /\ scm[s] = [state |-> "start_pending", checkpoint |-> 1]
           /\ state[s] = "stopped"
           /\ \E i \in 1 .. Len(queue) : queue[i] = [s |-> s, control |-> "start"]

\* As long as a service is in one pending state each status the SCM gets has a
\* greater checkpoint than the one before, whatever timers and controls cross.
CheckpointGrows ==
    [][\A s \in Services :
          scm'[s].state \in Pending /\ scm'[s] # scm[s] /\ scm'[s].state = scm[s].state
              => scm'[s].checkpoint > scm[s].checkpoint]_vars

\* A service that is stopped is brought back only by a start from the SCM, never by
\* a timer, a late answer or a control sent before it stopped.
OnlyStartRevives ==
    [][\A s \in Services :
          state[s] = "stopped" /\ state'[s] # "stopped"
              => queue # <<>> /\ Head(queue) = [s |-> s, control |-> "start"]]_vars

\* The application has not answered the last control that s was given
Unanswered(s) == \E a \in asked[s] : a.seq = seq[s]

\* While the last control of a service is unanswered, no answer to an older one, no
\* update of the application's own and no timer ends the state it brought about, or
\* is taken for its answer.
NoStaleAnswer ==
    [][\A s \in Services :
          Unanswered(s) /\ Unanswered(s)' /\ seq'[s] = seq[s]
              => state'[s] = state[s] /\ seqack'[s] = seqack[s]]_vars

\* "Application can stop at any time from any other state.  No questions asked":
\* with every control answered, an update of its own is not ignored.
StopsAtAnyTime == \A s \in Services : asked[s] = {} => ~Ignored(s, 0)

-----------------------------------------------------------------------------
(* Liveness. *)

\* The Tcl thread serves its events and timers; the application answers.
Fairness ==
    /\ WF_vars(Handle) /\ \A s \in Services : WF_vars(Answer(s))

FairSpec == Spec /\ Fairness

\* Every pending state ends when the application does what is asked of it, though
\* controls overtake its answers.
PendingEnds ==
    \A s \in Services : scm[s].state \in Pending ~> scm[s].state \notin Pending
=============================================================================
