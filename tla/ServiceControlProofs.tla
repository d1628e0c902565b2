------------------------ MODULE ServiceControlProofs ------------------------
(***************************************************************************)
(* A process of services, proved for any services, controls and updates:   *)
(* the SCM knows the state of every service, is reminded of every pending  *)
(* one with a growing checkpoint, and only its start revives a service.    *)
(***************************************************************************)
EXTENDS ServiceControl, TLAPS

Timers == [s : Services, state : Pending, checkpoint : Nat]

LEMMA StatesDiffer ==
    /\ "stopped" \notin Pending /\ "running" \notin Pending /\ "paused" \notin Pending
    /\ Pending \subseteq States /\ Settled \subseteq States
    /\ \A st \in Pending : st \notin Settled
  BY DEF Pending, Settled, States

\* Taking the first from a queue
LEMMA HeadTail ==
  ASSUME NEW S, NEW q \in Seq(S), q # <<>>
  PROVE  /\ Head(q) \in S /\ Tail(q) \in Seq(S) /\ Len(Tail(q)) + 1 = Len(q)
         /\ Head(q) = q[1] /\ \A i \in 2 .. Len(q) : Tail(q)[i - 1] = q[i]
  OBVIOUS

\* What _report_service_status changes, and for which service
LEMMA Reported ==
  ASSUME TypeOK, NEW s \in Services, NEW st \in States, NEW cp \in Nat,
         NEW ts \in SUBSET Timers, Report(s, st, cp, ts)
  PROVE  /\ state' \in [Services -> States] /\ checkpoint' \in [Services -> Nat]
         /\ scm' \in [Services -> [state : States, checkpoint : Nat]]
         /\ timers' \in SUBSET Timers
         /\ state'[s] = st
         /\ st \in Pending => checkpoint'[s] = cp + 1
         /\ scm'[s] = [state |-> st, checkpoint |-> checkpoint'[s]]
         /\ \A o \in Services \ {s} :
               state'[o] = state[o] /\ checkpoint'[o] = checkpoint[o] /\ scm'[o] = scm[o]
         /\ ts \subseteq timers'
         /\ st \in Pending =>
               [s |-> s, state |-> st, checkpoint |-> checkpoint'[s]] \in timers'
<1> DEFINE cp1 == IF st \in Pending THEN cp + 1 ELSE 0
           new == [s |-> s, state |-> st, checkpoint |-> cp1]
<1>1. /\ state' = [state EXCEPT ![s] = st]
      /\ checkpoint' = [checkpoint EXCEPT ![s] = cp1]
      /\ scm' = [scm EXCEPT ![s] = [state |-> st, checkpoint |-> cp1]]
      /\ timers' = ts \union (IF st \in Pending THEN {new} ELSE {})
  BY DEF Report
<1>2. cp1 \in Nat /\ (st \in Pending => cp1 = cp + 1)
  OBVIOUS
<1>3. st \in Pending => new \in Timers
  BY <1>2 DEF Timers
<1> HIDE DEF cp1
<1>4. /\ state' \in [Services -> States] /\ checkpoint' \in [Services -> Nat]
      /\ state'[s] = st /\ checkpoint'[s] = cp1
  BY <1>1, <1>2 DEF TypeOK
<1>5. scm' \in [Services -> [state : States, checkpoint : Nat]]
  BY <1>1, <1>2 DEF TypeOK
<1>6. scm'[s] = [state |-> st, checkpoint |-> cp1]
  BY <1>1 DEF TypeOK
<1>7. \A o \in Services \ {s} :
         state'[o] = state[o] /\ checkpoint'[o] = checkpoint[o] /\ scm'[o] = scm[o]
  BY <1>1 DEF TypeOK
<1>8. timers' \in SUBSET Timers /\ ts \subseteq timers'
  BY <1>1, <1>3
<1> QED  BY <1>1, <1>2, <1>4, <1>5, <1>6, <1>7, <1>8

\* The state that a control leads to
LEMMA ControlLeads ==
  ASSUME NEW st \in States, NEW control
  PROVE  /\ OnControl(st, control) \in States
         /\ OnControl(st, control) # st => OnControl(st, control) \in Pending
         /\ st = "stopped" /\ control # "start" => OnControl(st, control) = st
         /\ st = "stopped" /\ control = "start" => OnControl(st, control) = "start_pending"
  BY DEF OnControl, States, Pending, Settled

-----------------------------------------------------------------------------
(* What each step makes of the services, for the proofs that follow. *)

\* The control that is served, and the service it is for
LEMMA ServedControl ==
  ASSUME TypeOK, Handle
  PROVE  \E s \in Services, ctrl \in Controls :
            /\ queue # <<>> /\ Head(queue) = [s |-> s, control |-> ctrl]
            /\ queue' = Tail(queue) /\ Serve(s, ctrl)
            /\ UNCHANGED <<procVars, seqack, sent, updates, allStopped>>
<1>1. queue # <<>> /\ queue \in Seq([s : Services, control : Controls])
  BY DEF TypeOK, Handle
<1>2. Head(queue) \in [s : Services, control : Controls]
  BY <1>1, HeadTail
<1>3. PICK s \in Services, ctrl \in Controls : Head(queue) = [s |-> s, control |-> ctrl]
  BY <1>2
<1>4. Head(queue).s = s /\ Head(queue).control = ctrl
  BY <1>3
<1> QED  BY <1>1, <1>3, <1>4 DEF Handle

\* An update changes the state to a settled one, if at all
LEMMA UpdateCases ==
  ASSUME TypeOK, NEW s \in Services, NEW q \in Nat, NEW new \in Settled, Update(s, q, new)
  PROVE  /\ \/ /\ new # state[s] /\ MayBecome(state[s], new) /\ ~Ignored(s, q)
               /\ Report(s, new, checkpoint[s], timers)
               /\ allStopped' \in BOOLEAN
            \/ UNCHANGED <<state, checkpoint, timers, scm, allStopped>>
         /\ \/ Ignored(s, q) /\ UNCHANGED seqack
            \/ ~Ignored(s, q) /\ seqack' = [seqack EXCEPT ![s] = q]
         /\ UNCHANGED <<procVars, seq, queue, sent>>
  BY DEF Update

\* The application answers a control it was given, or acts by itself
LEMMA AnswerCases ==
  ASSUME TypeOK, NEW s \in Services, Answer(s)
  PROVE  \E a \in asked[s], new \in Settled :
            /\ a.seq \in Nat /\ Update(s, a.seq, new)
            /\ asked' = [asked EXCEPT ![s] = asked[s] \ {a}] /\ UNCHANGED updates
<1>1. asked[s] \subseteq [seq : Nat, control : Commands]
  BY DEF TypeOK
<1>2. \A control : Answers(control) \subseteq Settled
  BY DEF Answers, Settled
<1> QED  BY <1>1, <1>2 DEF Answer

-----------------------------------------------------------------------------
(* Types. *)

LEMMA TypeInit == Init => TypeOK
<1> SUFFICES ASSUME Init PROVE TypeOK
  OBVIOUS
<1>1. "stopped" \in States /\ {} \in SUBSET Timers
  BY DEF States, Settled
<1>2. queue \in Seq([s : Services, control : Controls])
  BY DEF Init
<1>3. /\ scm \in [Services -> [state : States, checkpoint : Nat]]
      /\ asked \in [Services -> SUBSET [seq : Nat, control : Commands]]
  BY <1>1 DEF Init
<1> QED  BY <1>1, <1>2, <1>3 DEF Init, TypeOK, Timers

\* The types of what Report changes, and of the rest when it does not
TypeState ==
    /\ state \in [Services -> States] /\ checkpoint \in [Services -> Nat]
    /\ scm \in [Services -> [state : States, checkpoint : Nat]]
    /\ timers \in SUBSET Timers

TypeSeq ==
    /\ seq \in [Services -> Nat] /\ seqack \in [Services -> Nat]
    /\ asked \in [Services -> SUBSET [seq : Nat, control : Commands]]

TypeRest ==
    /\ owner \in Interps \union {None} /\ master \in {"none", "claimed", "runs"}
    /\ queue \in Seq([s : Services, control : Controls])
    /\ sent \in Nat /\ updates \in Nat /\ allStopped \in BOOLEAN

LEMMA TypeParts ==
  (TypeOK => TypeState /\ TypeSeq /\ TypeRest) /\ (TypeState' /\ TypeSeq' /\ TypeRest' => TypeOK')
  BY DEF TypeOK, TypeState, TypeSeq, TypeRest, Timers

LEMMA TypeReport ==
  ASSUME TypeOK, NEW s \in Services, NEW st \in States, NEW cp \in Nat,
         NEW ts \in SUBSET Timers, Report(s, st, cp, ts)
  PROVE  TypeState'
  BY Reported DEF TypeState

LEMMA TypeHandle == TypeOK /\ Handle => TypeOK'
<1> SUFFICES ASSUME TypeOK, Handle PROVE TypeOK'
  OBVIOUS
<1>1. TypeState /\ TypeSeq /\ TypeRest
  BY TypeParts
<1>2. PICK s \in Services, ctrl \in Controls :
            /\ queue # <<>> /\ queue' = Tail(queue) /\ Serve(s, ctrl)
            /\ UNCHANGED <<procVars, seqack, sent, updates, allStopped>>
  BY ServedControl
<1>3. TypeRest'
  BY <1>1, <1>2, HeadTail DEF TypeRest, procVars
<1>4. state[s] \in States /\ checkpoint[s] \in Nat /\ seq[s] + 1 \in Nat
  BY <1>1 DEF TypeState, TypeSeq
<1>5. CASE ctrl \in Commands /\ Report(s, OnControl(state[s], ctrl), 1, timers)
           /\ seq' = [seq EXCEPT ![s] = seq[s] + 1]
           /\ asked' = [asked EXCEPT ![s] = asked[s] \union {[seq |-> seq[s] + 1, control |-> ctrl]}]
  <2>1. TypeState'
    BY <1>1, <1>4, <1>5, ControlLeads, TypeReport DEF TypeState
  <2>2. [seq |-> seq[s] + 1, control |-> ctrl] \in [seq : Nat, control : Commands]
    BY <1>4, <1>5
  <2>3. TypeSeq'
    BY <1>1, <1>2, <1>4, <1>5, <2>2 DEF TypeSeq
  <2> QED  BY <1>3, <2>1, <2>3, TypeParts
<1>6. CASE Report(s, state[s], checkpoint[s], timers) /\ UNCHANGED <<seq, asked>>
  <2>1. TypeState'
    BY <1>1, <1>4, <1>6, TypeReport DEF TypeState
  <2> QED  BY <1>1, <1>2, <1>3, <1>6, <2>1, TypeParts DEF TypeSeq
<1>7. CASE UNCHANGED <<state, checkpoint, timers, scm, seq, asked>>
  <2>1. TypeState' /\ TypeSeq'
    BY <1>1, <1>2, <1>7 DEF TypeState, TypeSeq
  <2> QED  BY <1>3, <2>1, TypeParts
<1> QED  BY <1>2, <1>5, <1>6, <1>7 DEF Serve, ReportAgain

LEMMA TypeUpdate ==
  ASSUME TypeOK, NEW s \in Services, NEW q \in Nat, NEW new \in Settled, Update(s, q, new),
         asked' \in [Services -> SUBSET [seq : Nat, control : Commands]], updates' \in Nat
  PROVE  TypeOK'
<1>1. TypeState /\ TypeSeq /\ TypeRest
  BY TypeParts
<1>2. TypeState'
  <2>1. checkpoint[s] \in Nat /\ new \in States
    BY <1>1, StatesDiffer DEF TypeState
  <2>2. CASE Report(s, new, checkpoint[s], timers)
    BY <1>1, <2>1, <2>2, TypeReport DEF TypeState
  <2>3. CASE UNCHANGED <<state, checkpoint, timers, scm>>
    BY <1>1, <2>3 DEF TypeState
  <2> QED  BY <2>2, <2>3, UpdateCases
<1>3. TypeSeq'
  BY <1>1, UpdateCases DEF TypeSeq
<1>4. TypeRest'
  BY <1>1, UpdateCases DEF TypeRest, procVars
<1> QED  BY <1>2, <1>3, <1>4, TypeParts

LEMMA TypeTimer == ASSUME TypeOK, NEW t \in timers, Timer(t) PROVE TypeOK'
<1>1. TypeState /\ TypeSeq /\ TypeRest
  BY TypeParts
<1>2. /\ t.s \in Services /\ t.state \in States /\ t.checkpoint \in Nat
      /\ timers \ {t} \in SUBSET Timers
  BY <1>1, StatesDiffer DEF TypeState, Timers
<1>3. TypeState'
  <2>1. CASE Report(t.s, t.state, t.checkpoint, timers \ {t})
    BY <1>2, <2>1, TypeReport
  <2>2. CASE timers' = timers \ {t} /\ UNCHANGED <<state, checkpoint, scm>>
    BY <1>1, <1>2, <2>2 DEF TypeState
  <2> QED  BY <2>1, <2>2 DEF Timer
<1>4. TypeSeq' /\ TypeRest'
  BY <1>1 DEF Timer, TypeSeq, TypeRest, procVars, appVars
<1> QED  BY <1>3, <1>4, TypeParts

LEMMA TypeStep == TypeOK /\ [Next]_vars => TypeOK'
<1> SUFFICES ASSUME TypeOK, [Next]_vars PROVE TypeOK'
  OBVIOUS
<1>1. TypeState /\ TypeSeq /\ TypeRest
  BY TypeParts
<1>2. ASSUME NEW i \in Interps,
             Claim(i) \/ BadSpecification(i) \/ MasterFails(i) \/ MasterStarts(i)
      PROVE  TypeOK'
  <2>1. TypeState' /\ TypeSeq'
    BY <1>1, <1>2
    DEF TypeState, TypeSeq, Claim, BadSpecification, MasterFails, MasterStarts, stateVars, appVars
  <2>2. UNCHANGED <<queue, sent, updates, allStopped>>
    BY <1>2 DEF Claim, BadSpecification, MasterFails, MasterStarts, stateVars, appVars
  <2>3. owner' \in Interps \union {None} /\ master' \in {"none", "claimed", "runs"}
    BY <1>1, <1>2 DEF TypeRest, Claim, BadSpecification, MasterFails, MasterStarts
  <2> QED  BY <1>1, <2>1, <2>2, <2>3, TypeParts DEF TypeRest
<1>3. ASSUME NEW s \in Services, NEW control \in Controls, Send(s, control)
      PROVE  TypeSeq' /\ TypeRest'
  <2>1. queue' = Append(queue, [s |-> s, control |-> control]) /\ sent' = sent + 1
    BY <1>3 DEF Send
  <2>2. queue' \in Seq([s : Services, control : Controls])
    BY <1>1, <2>1 DEF TypeRest
  <2> QED  BY <1>1, <1>3, <2>1, <2>2 DEF TypeSeq, TypeRest, Send, procVars, stateVars, appVars
<1>4. ASSUME NEW s \in Services, ScmStarts(s)
      PROVE  TypeOK'
  <2>1. TypeSeq' /\ TypeRest'
    BY <1>3, <1>4 DEF ScmStarts, Controls, Commands
  <2>2. "start_pending" \in States /\ 1 \in Nat
    BY DEF States, Pending
  <2>3. TypeState'
    BY <1>1, <1>4, <2>2 DEF TypeState, ScmStarts, Send, stateVars
  <2> QED  BY <2>1, <2>3, TypeParts
<1>5. ASSUME NEW s \in Services, StartFails(s)
      PROVE  TypeOK'
  <2>1. TypeState' /\ TypeSeq'
    BY <1>1, <1>5 DEF TypeState, TypeSeq, StartFails, stateVars, appVars
  <2>2. TypeRest'
    BY <1>1, <1>5 DEF TypeRest, StartFails, procVars, appVars
  <2> QED  BY <2>1, <2>2, TypeParts
<1>6. ASSUME NEW s \in Services, NEW c \in Controls, ScmControls(s, c)
      PROVE  TypeOK'
  <2>1. TypeSeq' /\ TypeRest'
    BY <1>3, <1>6 DEF ScmControls
  <2>2. TypeState'
    BY <1>1, <1>6 DEF TypeState, ScmControls, Send, stateVars
  <2> QED  BY <2>1, <2>2, TypeParts
<1>7. CASE Handle
  BY <1>7, TypeHandle
<1>8. ASSUME NEW t \in timers, Timer(t)
      PROVE  TypeOK'
  BY <1>8, TypeTimer
<1>9. ASSUME NEW s \in Services, Answer(s)
      PROVE  TypeOK'
  <2>1. PICK a \in asked[s], new \in Settled :
            /\ a.seq \in Nat /\ Update(s, a.seq, new)
            /\ asked' = [asked EXCEPT ![s] = asked[s] \ {a}] /\ UNCHANGED updates
    BY <1>9, AnswerCases
  <2>2. asked' \in [Services -> SUBSET [seq : Nat, control : Commands]]
    BY <1>1, <2>1 DEF TypeSeq
  <2> QED  BY <1>1, <2>1, <2>2, TypeUpdate DEF TypeRest
<1>10. ASSUME NEW s \in Services, UpdateByItself(s)
       PROVE  TypeOK'
  <2>1. PICK new \in Settled : Update(s, 0, new)
    BY <1>10 DEF UpdateByItself
  <2>2. updates' \in Nat /\ UNCHANGED asked
    BY <1>1, <1>10 DEF UpdateByItself, TypeRest
  <2> QED  BY <1>1, <2>1, <2>2, TypeUpdate DEF TypeSeq
<1>11. CASE UNCHANGED vars
  <2>1. TypeState' /\ TypeSeq' /\ TypeRest'
    BY <1>1, <1>11 DEF TypeState, TypeSeq, TypeRest, vars, procVars, stateVars, appVars
  <2> QED  BY <2>1, TypeParts
<1> QED
  BY <1>2, <1>4, <1>5, <1>6, <1>7, <1>8, <1>9, <1>10, <1>11 DEF Next

\* Types, for any number of starts, controls, updates and failures
THEOREM TypeInvariant == Spec => []TypeOK
  BY TypeInit, TypeStep, PTL DEF Spec

-----------------------------------------------------------------------------
(* Each pending state has its timer. *)

Due(s) == [s |-> s, state |-> state[s], checkpoint |-> checkpoint[s]]

\* Report sets the timer of s; those of other services must not be among the ones
\* that it is told to leave out.
LEMMA ReportSetsTimer ==
  ASSUME TypeOK, PendingReported, NEW s \in Services, NEW st \in States, NEW cp \in Nat,
         NEW ts \in SUBSET Timers, Report(s, st, cp, ts),
         \A t \in timers : t \in ts \/ t.s = s
  PROVE  PendingReported'
<1> SUFFICES ASSUME NEW o \in Services, state'[o] \in Pending
             PROVE  [s |-> o, state |-> state'[o], checkpoint |-> checkpoint'[o]] \in timers'
  BY DEF PendingReported
<1>1. CASE o = s
  <2>1. /\ state'[s] = st
        /\ st \in Pending => [s |-> s, state |-> st, checkpoint |-> checkpoint'[s]] \in timers'
    BY Reported
  <2> QED  BY <1>1, <2>1
<1>2. CASE o # s
  <2>1. \A other \in Services \ {s} :
           state'[other] = state[other] /\ checkpoint'[other] = checkpoint[other]
    BY Reported
  <2>2. ts \subseteq timers'
    BY Reported
  <2>3. state'[o] = state[o] /\ checkpoint'[o] = checkpoint[o]
    BY <1>2, <2>1
  <2>4. Due(o) \in timers /\ Due(o).s # s
    BY <1>2, <2>3 DEF PendingReported, Due
  <2> QED  BY <2>2, <2>3, <2>4 DEF Due
<1> QED  BY <1>1, <1>2

\* Steps that change neither states nor checkpoints nor timers
LEMMA PendingStill ==
  ASSUME PendingReported, UNCHANGED <<state, checkpoint, timers>>
  PROVE  PendingReported'
  BY DEF PendingReported

LEMMA PendingUpdate ==
  ASSUME TypeOK, PendingReported, NEW s \in Services, NEW q \in Nat, NEW new \in Settled,
         Update(s, q, new)
  PROVE  PendingReported'
<1>1. checkpoint[s] \in Nat /\ new \in States /\ timers \in SUBSET Timers
  BY TypeParts, StatesDiffer DEF TypeState
<1>2. CASE Report(s, new, checkpoint[s], timers)
  BY <1>1, <1>2, ReportSetsTimer
<1>3. CASE UNCHANGED <<state, checkpoint, timers>>
  BY <1>3, PendingStill
<1> QED  BY <1>2, <1>3, UpdateCases

LEMMA PendingTimer ==
  ASSUME TypeOK, PendingReported, NEW t \in timers, Timer(t)
  PROVE  PendingReported'
<1>1. /\ t \in Timers /\ t.s \in Services /\ t.state \in States /\ t.checkpoint \in Nat
      /\ timers \ {t} \in SUBSET Timers
  BY TypeParts, StatesDiffer DEF TypeState, Timers
<1>2. CASE Report(t.s, t.state, t.checkpoint, timers \ {t})
  BY <1>1, <1>2, ReportSetsTimer
<1>3. CASE /\ ~(state[t.s] = t.state /\ checkpoint[t.s] = t.checkpoint)
           /\ timers' = timers \ {t} /\ UNCHANGED <<state, checkpoint, scm>>
  <2> SUFFICES ASSUME NEW o \in Services, state[o] \in Pending PROVE Due(o) \in timers'
    BY <1>3 DEF PendingReported, Due
  <2>1. Due(o) \in timers
    BY DEF PendingReported, Due
  <2>2. Due(o) # t
    BY <1>3 DEF Due
  <2> QED  BY <1>3, <2>1, <2>2
<1> QED  BY <1>2, <1>3 DEF Timer

LEMMA PendingHandle ==
  ASSUME TypeOK, PendingReported, Handle
  PROVE  PendingReported'
<1>1. PICK s \in Services, ctrl \in Controls : Serve(s, ctrl)
  BY ServedControl
<1>2. state[s] \in States /\ checkpoint[s] \in Nat /\ timers \in SUBSET Timers
  BY TypeParts DEF TypeState
<1>3. OnControl(state[s], ctrl) \in States
  BY <1>2, ControlLeads
<1>4. CASE Report(s, OnControl(state[s], ctrl), 1, timers)
  BY <1>2, <1>3, <1>4, ReportSetsTimer
<1>5. CASE Report(s, state[s], checkpoint[s], timers)
  BY <1>2, <1>5, ReportSetsTimer
<1>6. CASE UNCHANGED <<state, checkpoint, timers>>
  BY <1>6, PendingStill
<1> QED  BY <1>1, <1>4, <1>5, <1>6 DEF Serve, ReportAgain

LEMMA PendingStep ==
  ASSUME TypeOK, PendingReported, [Next]_vars
  PROVE  PendingReported'
<1>1. CASE \E i \in Interps : Claim(i) \/ BadSpecification(i) \/ MasterFails(i) \/ MasterStarts(i)
  BY <1>1, PendingStill DEF Claim, BadSpecification, MasterFails, MasterStarts, stateVars
<1>2. CASE \E s \in Services : \/ ScmStarts(s) \/ StartFails(s)
                               \/ \E c \in Controls : ScmControls(s, c)
  BY <1>2, PendingStill DEF ScmStarts, StartFails, ScmControls, Send, stateVars
<1>3. ASSUME NEW s \in Services, Answer(s)
      PROVE  PendingReported'
  BY <1>3, AnswerCases, PendingUpdate
<1>4. ASSUME NEW s \in Services, UpdateByItself(s)
      PROVE  PendingReported'
  BY <1>4, PendingUpdate DEF UpdateByItself
<1>5. CASE Handle
  BY <1>5, PendingHandle
<1>6. ASSUME NEW t \in timers, Timer(t)
      PROVE  PendingReported'
  BY <1>6, PendingTimer
<1>7. CASE UNCHANGED vars
  BY <1>7, PendingStill DEF vars, stateVars
<1> QED  BY <1>1, <1>2, <1>3, <1>4, <1>5, <1>6, <1>7 DEF Next

\* Whatever crosses, a service in a pending state has a timer set that will find the
\* state and checkpoint it was set for (_report_service_status).
THEOREM PendingIsReported == Spec => []PendingReported
<1>1. Init => PendingReported
  BY StatesDiffer DEF Init, PendingReported
<1>2. TypeOK /\ PendingReported /\ [Next]_vars => PendingReported'
  BY PendingStep
<1> QED  BY <1>1, <1>2, TypeInvariant, PTL DEF Spec

-----------------------------------------------------------------------------
(* What the SCM knows. *)

Known(s) == scm[s] = [state |-> state[s], checkpoint |-> checkpoint[s]]

Starting(s) ==
    /\ scm[s] = [state |-> "start_pending", checkpoint |-> 1] /\ state[s] = "stopped"
    /\ \E i \in 1 .. Len(queue) : queue[i] = [s |-> s, control |-> "start"]

LEMMA ScmKnowsEach == ScmKnows <=> \A s \in Services : Known(s) \/ Starting(s)
  BY DEF ScmKnows, Known, Starting

\* A status that is reported is known; that of other services stays as it was
LEMMA ReportKnown ==
  ASSUME TypeOK, NEW s \in Services, NEW st \in States, NEW cp \in Nat,
         NEW ts \in SUBSET Timers, Report(s, st, cp, ts)
  PROVE  /\ Known(s)'
         /\ \A o \in Services \ {s} : Known(o) => Known(o)'
<1>1. Known(s)'
  <2>1. state'[s] = st /\ scm'[s] = [state |-> st, checkpoint |-> checkpoint'[s]]
    BY Reported
  <2> QED  BY <2>1 DEF Known
<1>2. ASSUME NEW o \in Services \ {s}, Known(o)
      PROVE  Known(o)'
  <2>1. state'[o] = state[o] /\ checkpoint'[o] = checkpoint[o] /\ scm'[o] = scm[o]
    BY Reported
  <2> QED  BY <1>2, <2>1 DEF Known
<1> QED  BY <1>1, <1>2

\* A start stays on its way as long as it is not taken from the queue
LEMMA ReportStarting ==
  ASSUME TypeOK, NEW s \in Services, NEW st \in States, NEW cp \in Nat,
         NEW ts \in SUBSET Timers, Report(s, st, cp, ts), UNCHANGED queue,
         NEW o \in Services \ {s}, Starting(o)
  PROVE  Starting(o)'
<1>1. state'[o] = state[o] /\ scm'[o] = scm[o]
  BY Reported
<1> QED  BY <1>1 DEF Starting

LEMMA ScmReport ==
  ASSUME TypeOK, ScmKnows, NEW s \in Services, NEW st \in States, NEW cp \in Nat,
         NEW ts \in SUBSET Timers, Report(s, st, cp, ts), UNCHANGED queue
  PROVE  ScmKnows'
<1>1. \A o \in Services : Known(o)' \/ Starting(o)'
  BY ReportKnown, ReportStarting, ScmKnowsEach
<1> QED  BY <1>1 DEF ScmKnows, Known, Starting

LEMMA ScmStill ==
  ASSUME ScmKnows, UNCHANGED <<state, checkpoint, scm, queue>>
  PROVE  ScmKnows'
  BY DEF ScmKnows

\* A control is added behind those that are on the queue
LEMMA SendKeeps ==
  ASSUME TypeOK, NEW s \in Services, NEW control \in Controls, Send(s, control)
  PROVE  /\ Len(queue') = Len(queue) + 1
         /\ \A i \in 1 .. Len(queue) : i \in 1 .. Len(queue') /\ queue'[i] = queue[i]
         /\ queue'[Len(queue')] = [s |-> s, control |-> control] /\ Len(queue') \in 1 .. Len(queue')
         /\ UNCHANGED <<state, checkpoint>>
<1>1. queue \in Seq([s : Services, control : Controls])
  BY DEF TypeOK
<1>2. queue' = Append(queue, [s |-> s, control |-> control])
  BY DEF Send
<1>3. UNCHANGED <<state, checkpoint>>
  BY DEF Send, stateVars
<1> DEFINE m == [s |-> s, control |-> control]
<1>4. m \in [s : Services, control : Controls] /\ queue' = Append(queue, m)
  BY <1>2
<1> HIDE DEF m
<1>5. /\ Len(queue') = Len(queue) + 1 /\ Len(queue) \in Nat
      /\ \A i \in 1 .. Len(queue) : queue'[i] = queue[i]
      /\ queue'[Len(queue) + 1] = m
  BY <1>1, <1>4
<1> QED  BY <1>3, <1>5 DEF m

LEMMA ScmSend ==
  ASSUME TypeOK, ScmKnows, NEW s \in Services, NEW control \in Controls, Send(s, control),
         NEW o \in Services, UNCHANGED scm[o]
  PROVE  Known(o)' \/ Starting(o)'
<1>1. UNCHANGED <<state, checkpoint>>
  BY SendKeeps
<1>2. CASE Known(o)
  BY <1>1, <1>2 DEF Known
<1>3. CASE Starting(o)
  <2>1. PICK i \in 1 .. Len(queue) : queue[i] = [s |-> o, control |-> "start"]
    BY <1>3 DEF Starting
  <2>2. i \in 1 .. Len(queue') /\ queue'[i] = queue[i]
    BY SendKeeps
  <2> QED  BY <1>1, <1>3, <2>1, <2>2 DEF Starting
<1> QED  BY <1>2, <1>3, ScmKnowsEach

LEMMA ScmHandle ==
  ASSUME TypeOK, ScmKnows, Handle
  PROVE  ScmKnows'
<1>1. PICK s \in Services, ctrl \in Controls :
            /\ queue # <<>> /\ Head(queue) = [s |-> s, control |-> ctrl]
            /\ queue' = Tail(queue) /\ Serve(s, ctrl)
  BY ServedControl
<1>2. state[s] \in States /\ checkpoint[s] \in Nat /\ timers \in SUBSET Timers
  BY TypeParts DEF TypeState
<1>3. OnControl(state[s], ctrl) \in States
  BY <1>2, ControlLeads
<1>4. \/ \E st \in States, cp \in Nat : Report(s, st, cp, timers)
      \/ UNCHANGED <<state, checkpoint, scm>>
  BY <1>1, <1>2, <1>3 DEF Serve, ReportAgain
<1>5. ASSUME NEW o \in Services, Known(o)
      PROVE  Known(o)'
  <2>1. CASE \E st \in States, cp \in Nat : Report(s, st, cp, timers)
    BY <1>2, <1>5, <2>1, ReportKnown
  <2>2. CASE UNCHANGED <<state, checkpoint, scm>>
    BY <1>5, <2>2 DEF Known
  <2> QED  BY <1>4, <2>1, <2>2
<1>6. ASSUME NEW o \in Services, Starting(o)
      PROVE  Known(o)' \/ Starting(o)'
  <2>1. PICK i \in 1 .. Len(queue) : queue[i] = [s |-> o, control |-> "start"]
    BY <1>6 DEF Starting
  <2>2. queue \in Seq([s : Services, control : Controls]) /\ state[o] = "stopped"
    BY <1>6 DEF TypeOK, Starting
  <2>3. CASE i = 1
    <3>1. Head(queue) = [s |-> o, control |-> "start"]
      BY <1>1, <2>1, <2>2, <2>3, HeadTail
    <3>2. s = o /\ ctrl = "start"
      BY <1>1, <3>1
    <3>3. OnControl(state[s], ctrl) # state[s] /\ ctrl \in Commands
      BY <2>2, <3>2, ControlLeads, <1>2 DEF Commands
    <3>4. Report(s, OnControl(state[s], ctrl), 1, timers)
      BY <1>1, <3>2, <3>3 DEF Serve
    <3> QED  BY <1>2, <1>3, <3>2, <3>4, ReportKnown
  <2>4. CASE i # 1
    <3>1. i \in 2 .. Len(queue)
      BY <2>2, <2>4
    <3>2. Tail(queue)[i - 1] = queue[i] /\ Len(Tail(queue)) + 1 = Len(queue)
      BY <1>1, <2>2, <3>1, HeadTail
    <3>3. i - 1 \in 1 .. Len(queue') /\ queue'[i - 1] = queue[i]
      BY <1>1, <2>2, <3>1, <3>2
    <3>4. CASE UNCHANGED <<state, checkpoint, scm>>
      BY <1>6, <2>1, <3>3, <3>4 DEF Starting
    <3>5. CASE (\E st \in States, cp \in Nat : Report(s, st, cp, timers)) /\ s = o
      BY <1>2, <3>5, ReportKnown
    <3>6. CASE (\E st \in States, cp \in Nat : Report(s, st, cp, timers)) /\ s # o
      <4>1. state'[o] = state[o] /\ scm'[o] = scm[o]
        BY <1>2, <3>6, Reported
      <4> QED  BY <1>6, <2>1, <3>3, <4>1 DEF Starting
    <3> QED  BY <1>4, <3>4, <3>5, <3>6
  <2> QED  BY <2>3, <2>4
<1>7. \A o \in Services : Known(o)' \/ Starting(o)'
  BY <1>5, <1>6, ScmKnowsEach
<1> QED  BY <1>7 DEF ScmKnows, Known, Starting

LEMMA ScmUpdate ==
  ASSUME TypeOK, ScmKnows, NEW s \in Services, NEW q \in Nat, NEW new \in Settled,
         Update(s, q, new)
  PROVE  ScmKnows'
<1>1. checkpoint[s] \in Nat /\ new \in States /\ timers \in SUBSET Timers
  BY TypeParts, StatesDiffer DEF TypeState
<1>2. UNCHANGED queue
  BY UpdateCases
<1>3. CASE Report(s, new, checkpoint[s], timers)
  BY <1>1, <1>2, <1>3, ScmReport
<1>4. CASE UNCHANGED <<state, checkpoint, scm>>
  BY <1>2, <1>4, ScmStill
<1> QED  BY <1>3, <1>4, UpdateCases

LEMMA ScmTimer ==
  ASSUME TypeOK, ScmKnows, NEW t \in timers, Timer(t)
  PROVE  ScmKnows'
<1>1. /\ t \in Timers /\ t.s \in Services /\ t.state \in States /\ t.checkpoint \in Nat
      /\ timers \ {t} \in SUBSET Timers
  BY TypeParts, StatesDiffer DEF TypeState, Timers
<1>2. UNCHANGED queue
  BY DEF Timer
<1>3. CASE Report(t.s, t.state, t.checkpoint, timers \ {t})
  BY <1>1, <1>2, <1>3, ScmReport
<1>4. CASE UNCHANGED <<state, checkpoint, scm>>
  BY <1>2, <1>4, ScmStill
<1> QED  BY <1>3, <1>4 DEF Timer

LEMMA ScmStep ==
  ASSUME TypeOK, ScmKnows, [Next]_vars
  PROVE  ScmKnows'
<1>1. CASE \E i \in Interps : Claim(i) \/ BadSpecification(i) \/ MasterFails(i) \/ MasterStarts(i)
  BY <1>1, ScmStill DEF Claim, BadSpecification, MasterFails, MasterStarts, stateVars
<1>2. ASSUME NEW s \in Services, ScmStarts(s)
      PROVE  ScmKnows'
  <2>1. Send(s, "start") /\ "start" \in Controls
    BY <1>2 DEF ScmStarts, Controls, Commands
  <2>2. /\ scm[s].state = "stopped"
        /\ scm' = [scm EXCEPT ![s] = [state |-> "start_pending", checkpoint |-> 1]]
    BY <1>2 DEF ScmStarts
  <2>3. ~Starting(s)
    BY <2>2 DEF Starting
  <2>4. state[s] = "stopped"
    <3>1. Known(s)
      BY <2>3, ScmKnowsEach
    <3>2. scm[s].state = state[s]
      BY <3>1 DEF Known
    <3> QED  BY <2>2, <3>2
  <2>5. Starting(s)'
    <3>1. scm'[s] = [state |-> "start_pending", checkpoint |-> 1] /\ state'[s] = "stopped"
      BY <2>1, <2>2, <2>4, SendKeeps DEF TypeOK
    <3>2. /\ Len(queue') \in 1 .. Len(queue')
          /\ queue'[Len(queue')] = [s |-> s, control |-> "start"]
      BY <2>1, SendKeeps
    <3> QED  BY <3>1, <3>2 DEF Starting
  <2>6. ASSUME NEW o \in Services, o # s
        PROVE  Known(o)' \/ Starting(o)'
    <3>1. UNCHANGED scm[o]
      BY <2>2, <2>6 DEF TypeOK
    <3> QED  BY <2>1, <3>1, ScmSend
  <2> QED  BY <2>5, <2>6 DEF ScmKnows, Known, Starting
<1>3. ASSUME NEW s \in Services, NEW c \in Controls, ScmControls(s, c)
      PROVE  ScmKnows'
  <2>1. Send(s, c) /\ UNCHANGED scm
    BY <1>3 DEF ScmControls
  <2>2. \A o \in Services : Known(o)' \/ Starting(o)'
    BY <2>1, ScmSend
  <2> QED  BY <2>2 DEF ScmKnows, Known, Starting
<1>4. CASE \E s \in Services : StartFails(s)
  BY <1>4, ScmStill DEF StartFails, stateVars
<1>5. ASSUME NEW s \in Services, Answer(s)
      PROVE  ScmKnows'
  BY <1>5, AnswerCases, ScmUpdate
<1>6. ASSUME NEW s \in Services, UpdateByItself(s)
      PROVE  ScmKnows'
  BY <1>6, ScmUpdate DEF UpdateByItself
<1>7. CASE Handle
  BY <1>7, ScmHandle
<1>8. ASSUME NEW t \in timers, Timer(t)
      PROVE  ScmKnows'
  BY <1>8, ScmTimer
<1>9. CASE UNCHANGED vars
  BY <1>9, ScmStill DEF vars, stateVars
<1> QED  BY <1>1, <1>2, <1>3, <1>4, <1>5, <1>6, <1>7, <1>8, <1>9 DEF Next

\* The SCM has the state of every service as the Tcl thread knows it, but for a
\* start that TwapiServiceThread has reported by itself and queued.
THEOREM ScmIsRight == Spec => []ScmKnows
<1>1. Init => ScmKnows
  BY DEF Init, ScmKnows
<1>2. TypeOK /\ ScmKnows /\ [Next]_vars => ScmKnows'
  BY ScmStep
<1> QED  BY <1>1, <1>2, TypeInvariant, PTL DEF Spec

-----------------------------------------------------------------------------
(* What a step may do to a service. *)

\* The services whose state a step reports, and how
Reports(s, st, cp) == \E ts \in SUBSET Timers : Report(s, st, cp, ts)

\* Every step of the process either leaves the states as they are or reports one
LEMMA StepReports ==
  ASSUME TypeOK, [Next]_vars
  PROVE  \/ UNCHANGED <<state, checkpoint, scm>>
         \/ \E s \in Services : ScmStarts(s)
         \/ \E s \in Services : \E ctrl \in Controls :
               /\ queue # <<>> /\ Head(queue) = [s |-> s, control |-> ctrl]
               /\ ctrl \in Commands /\ OnControl(state[s], ctrl) # state[s]
               /\ Reports(s, OnControl(state[s], ctrl), 1)
         \/ \E s \in Services : Reports(s, state[s], checkpoint[s])
         \/ \E s \in Services : \E new \in Settled :
               MayBecome(state[s], new) /\ new # state[s] /\ Reports(s, new, checkpoint[s])
<1>1. timers \in SUBSET Timers
  BY TypeParts DEF TypeState
<1>2. CASE \E i \in Interps : Claim(i) \/ BadSpecification(i) \/ MasterFails(i) \/ MasterStarts(i)
  BY <1>2 DEF Claim, BadSpecification, MasterFails, MasterStarts, stateVars
<1>3. CASE \E s \in Services : StartFails(s) \/ \E c \in Controls : ScmControls(s, c)
  BY <1>3 DEF StartFails, ScmControls, Send, stateVars
<1>4. CASE Handle
  <2>1. PICK s \in Services, ctrl \in Controls :
            queue # <<>> /\ Head(queue) = [s |-> s, control |-> ctrl] /\ Serve(s, ctrl)
    BY <1>4, ServedControl
  <2> QED  BY <1>1, <2>1 DEF Serve, ReportAgain, Reports
<1>5. ASSUME NEW t \in timers, Timer(t)
      PROVE  UNCHANGED <<state, checkpoint, scm>> \/ \E s \in Services : Reports(s, state[s], checkpoint[s])
  <2>1. t.s \in Services /\ timers \ {t} \in SUBSET Timers
    BY <1>1 DEF Timers
  <2>2. \/ UNCHANGED <<state, checkpoint, scm>>
        \/ Report(t.s, state[t.s], checkpoint[t.s], timers \ {t})
    BY <1>5 DEF Timer
  <2> QED  BY <2>1, <2>2 DEF Reports
<1>6. ASSUME NEW s \in Services, NEW q \in Nat, NEW new \in Settled, Update(s, q, new)
      PROVE  \/ UNCHANGED <<state, checkpoint, scm>>
             \/ MayBecome(state[s], new) /\ new # state[s] /\ Reports(s, new, checkpoint[s])
  BY <1>1, <1>6, UpdateCases DEF Reports
<1>7. CASE \E s \in Services : Answer(s)
  BY <1>6, <1>7, AnswerCases
<1>8. CASE \E s \in Services : UpdateByItself(s)
  BY <1>6, <1>8 DEF UpdateByItself
<1>9. CASE UNCHANGED vars
  BY <1>9 DEF vars, stateVars
<1> QED  BY <1>2, <1>3, <1>4, <1>5, <1>7, <1>8, <1>9 DEF Next

\* What is reported for one service leaves the others alone
LEMMA ReportsOne ==
  ASSUME TypeOK, NEW s \in Services, NEW st \in States, NEW cp \in Nat, Reports(s, st, cp)
  PROVE  /\ state'[s] = st /\ scm'[s].state = st
         /\ st \in Pending => scm'[s].checkpoint = cp + 1
         /\ \A o \in Services \ {s} : state'[o] = state[o] /\ scm'[o] = scm[o]
<1>1. PICK ts \in SUBSET Timers : Report(s, st, cp, ts)
  BY DEF Reports
<1>2. scm'[s] = [state |-> st, checkpoint |-> checkpoint'[s]]
  BY <1>1, Reported
<1>3. scm'[s].state = st /\ scm'[s].checkpoint = checkpoint'[s]
  BY <1>2
<1>4. state'[s] = st /\ (st \in Pending => checkpoint'[s] = cp + 1)
  BY <1>1, Reported
<1>5. \A o \in Services \ {s} : state'[o] = state[o] /\ scm'[o] = scm[o]
  BY <1>1, Reported
<1> QED  BY <1>3, <1>4, <1>5

Revived(s) == state[s] = "stopped" /\ state'[s] # "stopped"

LEMMA RevivesStep ==
  ASSUME TypeOK, [Next]_vars, NEW s \in Services, Revived(s)
  PROVE  queue # <<>> /\ Head(queue) = [s |-> s, control |-> "start"]
<1>1. state[s] = "stopped" /\ state'[s] # "stopped"
  BY DEF Revived
<1>2. \A o \in Services : state[o] \in States /\ checkpoint[o] \in Nat
  BY TypeParts DEF TypeState
<1>3. CASE UNCHANGED <<state, checkpoint, scm>>
  BY <1>1, <1>3
<1>4. CASE \E o \in Services : ScmStarts(o)
  BY <1>1, <1>4 DEF ScmStarts, Send, stateVars
<1>5. ASSUME NEW o \in Services, NEW ctrl \in Controls,
             queue # <<>> /\ Head(queue) = [s |-> o, control |-> ctrl],
             OnControl(state[o], ctrl) # state[o], Reports(o, OnControl(state[o], ctrl), 1)
      PROVE  queue # <<>> /\ Head(queue) = [s |-> s, control |-> "start"]
  <2>1. OnControl(state[o], ctrl) \in States
    BY <1>2, ControlLeads
  <2>2. o = s
    BY <1>1, <1>5, <2>1, ReportsOne
  <2>3. ctrl = "start"
    BY <1>1, <1>2, <1>5, <2>2, ControlLeads
  <2> QED  BY <1>5, <2>2, <2>3
<1>6. CASE \E o \in Services : Reports(o, state[o], checkpoint[o])
  BY <1>1, <1>2, <1>6, ReportsOne
<1>7. ASSUME NEW o \in Services, NEW new \in Settled,
             MayBecome(state[o], new), new # state[o], Reports(o, new, checkpoint[o])
      PROVE  FALSE
  <2>1. o = s
    BY <1>1, <1>2, <1>7, ReportsOne, StatesDiffer
  <2> QED  BY <1>1, <1>7, <2>1 DEF MayBecome
<1> QED  BY <1>3, <1>4, <1>5, <1>6, <1>7, StepReports

\* A stopped service is brought back by a start alone, never by a timer that was set
\* before it stopped, a late answer or an older control (update_service_status,
\* _service_handler, _call_scm_within_waithint).
THEOREM StartRevives == Spec => OnlyStartRevives
<1>1. TypeOK /\ [Next]_vars =>
        [\A s \in Services :
            state[s] = "stopped" /\ state'[s] # "stopped"
              => queue # <<>> /\ Head(queue) = [s |-> s, control |-> "start"]]_vars
  BY RevivesStep DEF Revived
<1> QED  BY <1>1, TypeInvariant, PTL DEF Spec, OnlyStartRevives

\* The SCM is told of the same pending state again
Repeated(s) ==
    scm'[s].state \in Pending /\ scm'[s] # scm[s] /\ scm'[s].state = scm[s].state

LEMMA GrowsStep ==
  ASSUME TypeOK, ScmKnows, [Next]_vars, NEW s \in Services, Repeated(s)
  PROVE  scm'[s].checkpoint > scm[s].checkpoint
<1>1. scm'[s].state \in Pending /\ scm'[s] # scm[s] /\ scm'[s].state = scm[s].state
  BY DEF Repeated
<1>2. \A o \in Services : state[o] \in States /\ checkpoint[o] \in Nat
  BY TypeParts DEF TypeState
<1>3. \/ scm[s].state = state[s] /\ scm[s].checkpoint = checkpoint[s]
      \/ scm[s].checkpoint = 1 /\ state[s] = "stopped"
  <2>1. CASE Known(s)
    BY <2>1 DEF Known
  <2>2. CASE Starting(s)
    BY <2>2 DEF Starting
  <2> QED  BY <2>1, <2>2, ScmKnowsEach
<1>4. CASE UNCHANGED <<state, checkpoint, scm>>
  BY <1>1, <1>4
<1>5. ASSUME NEW o \in Services, ScmStarts(o)
      PROVE  FALSE
  <2>1. /\ scm[o].state = "stopped"
        /\ scm' = [scm EXCEPT ![o] = [state |-> "start_pending", checkpoint |-> 1]]
    BY <1>5 DEF ScmStarts
  <2>2. CASE o # s
    BY <1>1, <2>1, <2>2 DEF TypeOK
  <2>3. CASE o = s
    BY <1>1, <2>1, <2>3, StatesDiffer
  <2> QED  BY <2>2, <2>3
<1>6. ASSUME NEW o \in Services, NEW ctrl \in Controls,
             OnControl(state[o], ctrl) # state[o], Reports(o, OnControl(state[o], ctrl), 1)
      PROVE  scm'[s].checkpoint > scm[s].checkpoint
  <2>1. OnControl(state[o], ctrl) \in States
    BY <1>2, ControlLeads
  <2>2. o = s
    BY <1>1, <1>6, <2>1, ReportsOne
  <2>3. /\ scm'[s].state = OnControl(state[s], ctrl) /\ scm'[s].state # state[s]
        /\ scm'[s].state \in Pending => scm'[s].checkpoint = 1 + 1
    BY <1>6, <2>1, <2>2, ReportsOne
  <2> QED  BY <1>1, <1>3, <2>3
<1>7. ASSUME NEW o \in Services, Reports(o, state[o], checkpoint[o])
      PROVE  scm'[s].checkpoint > scm[s].checkpoint
  <2>1. o = s
    BY <1>1, <1>2, <1>7, ReportsOne
  <2>2. scm'[s].state = state[s] /\ (state[s] \in Pending => scm'[s].checkpoint = checkpoint[s] + 1)
    BY <1>2, <1>7, <2>1, ReportsOne
  <2>3. scm[s].checkpoint = checkpoint[s] /\ scm'[s].checkpoint = checkpoint[s] + 1
    BY <1>1, <1>3, <2>2, StatesDiffer
  <2> QED  BY <1>2, <2>3
<1>8. ASSUME NEW o \in Services, NEW new \in Settled, Reports(o, new, checkpoint[o])
      PROVE  FALSE
  <2>1. scm'[o].state = new /\ (o # s => scm'[s] = scm[s])
    BY <1>2, <1>8, ReportsOne, StatesDiffer
  <2> QED  BY <1>1, <2>1, StatesDiffer
<1> QED  BY <1>4, <1>5, <1>6, <1>7, <1>8, StepReports

\* Within one pending state the SCM gets growing checkpoints, however timers,
\* interrogations and controls cross (_report_service_status).
THEOREM CheckpointsGrow == Spec => CheckpointGrows
<1>1. TypeOK /\ ScmKnows /\ [Next]_vars =>
        [\A s \in Services :
            scm'[s].state \in Pending /\ scm'[s] # scm[s] /\ scm'[s].state = scm[s].state
              => scm'[s].checkpoint > scm[s].checkpoint]_vars
  BY GrowsStep DEF Repeated
<1> QED  BY <1>1, TypeInvariant, ScmIsRight, PTL DEF Spec, CheckpointGrows

-----------------------------------------------------------------------------
(* The last control and its answer. *)

\* The controls that were given to the application have different numbers, none
\* beyond the last; while the last is unanswered, what was acknowledged is older.
InOrder(s) ==
    /\ seqack[s] <= seq[s]
    /\ \A a \in asked[s] : 1 <= a.seq /\ a.seq <= seq[s]
    /\ \A a, b \in asked[s] : a.seq = b.seq => a = b
    /\ Unanswered(s) => seqack[s] < seq[s]

AnswerInv == \A s \in Services : InOrder(s)

LEMMA AnswerStill ==
  ASSUME AnswerInv, NEW s \in Services, UNCHANGED <<seq[s], seqack[s], asked[s]>>
  PROVE  InOrder(s)'
<1>1. InOrder(s)
  BY DEF AnswerInv
<1> QED  BY <1>1 DEF InOrder, Unanswered

LEMMA AnswerAllStill ==
  ASSUME AnswerInv, UNCHANGED <<seq, seqack, asked>>
  PROVE  AnswerInv'
  BY AnswerStill DEF AnswerInv

LEMMA AnswerHandle ==
  ASSUME TypeOK, AnswerInv, Handle
  PROVE  AnswerInv'
<1>1. PICK s \in Services, ctrl \in Controls : Serve(s, ctrl) /\ UNCHANGED seqack
  BY ServedControl
<1>2. CASE UNCHANGED <<seq, asked>>
  BY <1>1, <1>2, AnswerAllStill
<1>3. CASE /\ seq' = [seq EXCEPT ![s] = seq[s] + 1]
           /\ asked' = [asked EXCEPT ![s] = asked[s] \union {[seq |-> seq[s] + 1, control |-> ctrl]}]
  <2> DEFINE n == [seq |-> seq[s] + 1, control |-> ctrl]
  <2>1. /\ seq[s] \in Nat /\ seqack[s] \in Nat /\ n.seq = seq[s] + 1
        /\ \A a \in asked[s] : a.seq \in Nat
    BY TypeParts DEF TypeSeq
  <2>2. seq'[s] = seq[s] + 1 /\ asked'[s] = asked[s] \union {n} /\ seqack'[s] = seqack[s]
    BY <1>1, <1>3 DEF TypeOK
  <2>3. InOrder(s)
    BY DEF AnswerInv
  <2> HIDE DEF n
  <2>4. \A a \in asked'[s] : 1 <= a.seq /\ a.seq <= seq'[s] /\ (a.seq = seq'[s] => a = n)
    BY <2>1, <2>2, <2>3 DEF InOrder
  <2>5. \A a, b \in asked'[s] : a.seq = b.seq => a = b
    BY <2>1, <2>2, <2>3 DEF InOrder
  <2>6. seqack'[s] < seq'[s]
    BY <2>1, <2>2, <2>3 DEF InOrder
  <2>7. InOrder(s)'
    BY <2>1, <2>2, <2>4, <2>5, <2>6 DEF InOrder
  <2>8. \A o \in Services \ {s} : UNCHANGED <<seq[o], seqack[o], asked[o]>>
    BY <1>1, <1>3 DEF TypeOK
  <2> QED  BY <2>7, <2>8, AnswerStill DEF AnswerInv
<1> QED  BY <1>1, <1>2, <1>3 DEF Serve

\* What an update with number q may acknowledge
LEMMA Acknowledged ==
  ASSUME TypeOK, AnswerInv, NEW s \in Services, NEW q \in Nat, q <= seq[s],
         NEW new \in Settled, Update(s, q, new)
  PROVE  /\ UNCHANGED seq
         /\ \A o \in Services \ {s} : seqack'[o] = seqack[o]
         /\ seqack'[s] = seqack[s] \/ seqack'[s] = q
         /\ Unanswered(s) /\ q # seq[s] => Ignored(s, q)
         /\ Ignored(s, q) => UNCHANGED <<state, seqack>>
<1>1. seq[s] \in Nat /\ seqack[s] \in Nat /\ seqack \in [Services -> Nat]
  BY TypeParts DEF TypeSeq
<1>2. /\ UNCHANGED seq
      /\ UNCHANGED seqack \/ seqack' = [seqack EXCEPT ![s] = q]
  BY UpdateCases
<1>3. ASSUME Unanswered(s), q # seq[s]
      PROVE  Ignored(s, q)
  <2>1. seqack[s] < seq[s]
    BY <1>3 DEF AnswerInv, InOrder
  <2> QED  BY <1>1, <1>3, <2>1 DEF Ignored, Outstanding
<1>4. Ignored(s, q) => UNCHANGED <<state, seqack>>
  BY UpdateCases
<1>5. \A o \in Services \ {s} : seqack'[o] = seqack[o]
  BY <1>1, <1>2
<1>6. seqack'[s] = seqack[s] \/ seqack'[s] = q
  BY <1>1, <1>2
<1> QED  BY <1>2, <1>3, <1>4, <1>5, <1>6

\* An answer taken from those that are due, or none
LEMMA AnswerUpdate ==
  ASSUME TypeOK, AnswerInv, NEW s \in Services, NEW q \in Nat, q <= seq[s],
         NEW new \in Settled, Update(s, q, new), NEW A \in SUBSET asked[s],
         asked' = [asked EXCEPT ![s] = A], q = 0 \/ \A b \in A : b.seq # q
  PROVE  AnswerInv'
<1>1. /\ seq[s] \in Nat /\ seqack[s] \in Nat /\ \A a \in asked[s] : a.seq \in Nat
      /\ asked'[s] = A /\ seq'[s] = seq[s]
  BY TypeParts, Acknowledged DEF TypeSeq
<1>2. InOrder(s)
  BY DEF AnswerInv
<1>3. seqack'[s] \in Nat /\ seqack'[s] <= seq[s]
  BY <1>1, <1>2, Acknowledged DEF InOrder
<1>4. ASSUME Unanswered(s)'
      PROVE  seqack'[s] < seq[s]
  <2>1. PICK b \in A : b.seq = seq[s]
    BY <1>1, <1>4 DEF Unanswered
  <2>2. Unanswered(s) /\ b \in asked[s]
    BY <2>1 DEF Unanswered
  <2>3. q # seq[s]
    BY <1>1, <1>2, <2>1, <2>2 DEF InOrder
  <2>4. UNCHANGED seqack
    BY <2>2, <2>3, Acknowledged
  <2> QED  BY <1>2, <2>2, <2>4 DEF InOrder
<1>5. InOrder(s)'
  BY <1>1, <1>2, <1>3, <1>4 DEF InOrder
<1>6. \A o \in Services \ {s} : UNCHANGED <<seq[o], seqack[o], asked[o]>>
  BY Acknowledged, TypeParts DEF TypeSeq
<1> QED  BY <1>5, <1>6, AnswerStill DEF AnswerInv

LEMMA AnswerAnswer ==
  ASSUME TypeOK, AnswerInv, NEW s \in Services, Answer(s)
  PROVE  \E a \in asked[s], new \in Settled :
            /\ a.seq \in Nat /\ a.seq <= seq[s] /\ Update(s, a.seq, new)
            /\ asked' = [asked EXCEPT ![s] = asked[s] \ {a}]
            /\ \A b \in asked[s] \ {a} : b.seq # a.seq
<1>1. PICK a \in asked[s], new \in Settled :
            /\ a.seq \in Nat /\ Update(s, a.seq, new)
            /\ asked' = [asked EXCEPT ![s] = asked[s] \ {a}]
  BY AnswerCases
<1>2. a.seq <= seq[s] /\ \A b \in asked[s] \ {a} : b.seq # a.seq
  BY DEF AnswerInv, InOrder
<1> QED  BY <1>1, <1>2

LEMMA AnswerStep ==
  ASSUME TypeOK, AnswerInv, [Next]_vars
  PROVE  AnswerInv'
<1>1. CASE \E i \in Interps : Claim(i) \/ BadSpecification(i) \/ MasterFails(i) \/ MasterStarts(i)
  BY <1>1, AnswerAllStill
  DEF Claim, BadSpecification, MasterFails, MasterStarts, stateVars, appVars
<1>2. CASE \E s \in Services : \/ ScmStarts(s) \/ StartFails(s)
                               \/ \E c \in Controls : ScmControls(s, c)
  BY <1>2, AnswerAllStill DEF ScmStarts, StartFails, ScmControls, Send, stateVars, appVars
<1>3. ASSUME NEW s \in Services, Answer(s)
      PROVE  AnswerInv'
  <2>1. PICK a \in asked[s], new \in Settled :
            /\ a.seq \in Nat /\ a.seq <= seq[s] /\ Update(s, a.seq, new)
            /\ asked' = [asked EXCEPT ![s] = asked[s] \ {a}]
            /\ \A b \in asked[s] \ {a} : b.seq # a.seq
    BY <1>3, AnswerAnswer
  <2> DEFINE A == asked[s] \ {a}
  <2>2. A \in SUBSET asked[s] /\ asked' = [asked EXCEPT ![s] = A] /\ \A b \in A : b.seq # a.seq
    BY <2>1
  <2> HIDE DEF A
  <2> QED  BY <2>1, <2>2, AnswerUpdate
<1>4. ASSUME NEW s \in Services, UpdateByItself(s)
      PROVE  AnswerInv'
  <2>1. PICK new \in Settled : Update(s, 0, new)
    BY <1>4 DEF UpdateByItself
  <2>2. asked' = [asked EXCEPT ![s] = asked[s]]
    BY <1>4, TypeParts DEF UpdateByItself, TypeSeq
  <2>3. 0 <= seq[s] /\ 0 \in Nat /\ asked[s] \in SUBSET asked[s]
    BY TypeParts DEF TypeSeq
  <2> QED  BY <2>1, <2>2, <2>3, AnswerUpdate
<1>5. CASE Handle
  BY <1>5, AnswerHandle
<1>6. CASE \E t \in timers : Timer(t)
  BY <1>6, AnswerAllStill DEF Timer, appVars
<1>7. CASE UNCHANGED vars
  BY <1>7, AnswerAllStill DEF vars, stateVars, appVars
<1> QED  BY <1>1, <1>2, <1>3, <1>4, <1>5, <1>6, <1>7 DEF Next

\* The last control of s stays unanswered
StillUnanswered(s) == Unanswered(s) /\ Unanswered(s)' /\ seq'[s] = seq[s]

LEMMA StaleUpdate ==
  ASSUME TypeOK, AnswerInv, NEW o \in Services, NEW q \in Nat, q <= seq[o],
         NEW new \in Settled, Update(o, q, new), NEW s \in Services, Unanswered(s),
         o = s => q # seq[s]
  PROVE  state'[s] = state[s] /\ seqack'[s] = seqack[s]
<1>1. CASE o = s
  BY <1>1, Acknowledged
<1>2. CASE o # s
  <2>1. checkpoint[o] \in Nat /\ new \in States /\ timers \in SUBSET Timers
    BY TypeParts, StatesDiffer DEF TypeState
  <2>2. state'[s] = state[s]
    BY <1>2, <2>1, UpdateCases, Reported
  <2> QED  BY <1>2, <2>2, Acknowledged
<1> QED  BY <1>1, <1>2

LEMMA StaleStep ==
  ASSUME TypeOK, AnswerInv, [Next]_vars, NEW s \in Services, StillUnanswered(s)
  PROVE  state'[s] = state[s] /\ seqack'[s] = seqack[s]
<1>1. Unanswered(s) /\ Unanswered(s)' /\ seq'[s] = seq[s]
  BY DEF StillUnanswered
<1>2. /\ \A o \in Services : seq[o] \in Nat /\ checkpoint[o] \in Nat /\ state[o] \in States
      /\ timers \in SUBSET Timers
  BY TypeParts DEF TypeSeq, TypeState
<1>3. CASE \E i \in Interps : Claim(i) \/ BadSpecification(i) \/ MasterFails(i) \/ MasterStarts(i)
  BY <1>3 DEF Claim, BadSpecification, MasterFails, MasterStarts, stateVars
<1>4. CASE \E o \in Services : \/ ScmStarts(o) \/ StartFails(o)
                               \/ \E c \in Controls : ScmControls(o, c)
  BY <1>4 DEF ScmStarts, StartFails, ScmControls, Send, stateVars
<1>5. ASSUME NEW o \in Services, Answer(o)
      PROVE  state'[s] = state[s] /\ seqack'[s] = seqack[s]
  <2>1. PICK a \in asked[o], new \in Settled :
            /\ a.seq \in Nat /\ a.seq <= seq[o] /\ Update(o, a.seq, new)
            /\ asked' = [asked EXCEPT ![o] = asked[o] \ {a}]
            /\ \A b \in asked[o] \ {a} : b.seq # a.seq
    BY <1>5, AnswerAnswer
  <2>2. ASSUME o = s
        PROVE  a.seq # seq[s]
    <3>1. asked'[s] = asked[s] \ {a}
      BY <2>1, <2>2, TypeParts DEF TypeSeq
    <3>2. PICK b \in asked'[s] : b.seq = seq[s]
      BY <1>1 DEF Unanswered
    <3> QED  BY <2>1, <2>2, <3>1, <3>2
  <2> QED  BY <1>1, <2>1, <2>2, StaleUpdate
<1>6. ASSUME NEW o \in Services, UpdateByItself(o)
      PROVE  state'[s] = state[s] /\ seqack'[s] = seqack[s]
  <2>1. PICK new \in Settled : Update(o, 0, new)
    BY <1>6 DEF UpdateByItself
  <2>2. 0 # seq[s]
    <3>1. PICK b \in asked[s] : b.seq = seq[s]
      BY <1>1 DEF Unanswered
    <3>2. 1 <= b.seq
      BY DEF AnswerInv, InOrder
    <3> QED  BY <3>1, <3>2
  <2>3. 0 <= seq[o] /\ 0 \in Nat
    BY <1>2
  <2> QED  BY <1>1, <2>1, <2>2, <2>3, StaleUpdate
<1>7. CASE Handle
  <2>1. PICK o \in Services, ctrl \in Controls : Serve(o, ctrl) /\ UNCHANGED seqack
    BY <1>7, ServedControl
  <2>2. CASE /\ Report(o, OnControl(state[o], ctrl), 1, timers)
             /\ seq' = [seq EXCEPT ![o] = seq[o] + 1]
    <3>1. o # s
      BY <1>1, <1>2, <2>2, TypeParts DEF TypeSeq
    <3>2. OnControl(state[o], ctrl) \in States
      BY <1>2, ControlLeads
    <3> QED  BY <1>2, <2>1, <2>2, <3>1, <3>2, Reported
  <2>3. CASE Report(o, state[o], checkpoint[o], timers)
    BY <1>2, <2>1, <2>3, Reported
  <2> QED  BY <2>1, <2>2, <2>3 DEF Serve, ReportAgain
<1>8. ASSUME NEW t \in timers, Timer(t)
      PROVE  state'[s] = state[s] /\ seqack'[s] = seqack[s]
  <2>1. t.s \in Services /\ timers \ {t} \in SUBSET Timers
    BY <1>2 DEF Timers
  <2>2. UNCHANGED seqack /\ \/ UNCHANGED state
                            \/ Report(t.s, state[t.s], checkpoint[t.s], timers \ {t})
    BY <1>8 DEF Timer
  <2> QED  BY <1>2, <2>1, <2>2, Reported
<1>9. CASE UNCHANGED vars
  BY <1>9 DEF vars, stateVars
<1> QED  BY <1>3, <1>4, <1>5, <1>6, <1>7, <1>8, <1>9 DEF Next

\* While the application owes the answer to the last control, neither an answer to
\* an older one nor an update of its own counts (update_service_status).
THEOREM StaleAnswersIgnored == Spec => NoStaleAnswer
<1>1. Init => AnswerInv
  BY DEF Init, AnswerInv, InOrder, Unanswered
<1>2. TypeOK /\ AnswerInv /\ [Next]_vars => AnswerInv'
  BY AnswerStep
<1>3. TypeOK /\ AnswerInv /\ [Next]_vars =>
        [\A s \in Services :
            Unanswered(s) /\ Unanswered(s)' /\ seq'[s] = seq[s]
              => state'[s] = state[s] /\ seqack'[s] = seqack[s]]_vars
  BY StaleStep DEF StillUnanswered
<1> QED  BY <1>1, <1>2, <1>3, TypeInvariant, PTL DEF Spec, NoStaleAnswer
=============================================================================
