-------------------------- MODULE NamedPipeProofs --------------------------
(***************************************************************************)
(* The life of an NPipeChannel and the data it carries, proved for any     *)
(* threads, outcomes, faults and bounds: its reference count is exact, no  *)
(* thread-pool callback is queued or runs once the wait that queued it is  *)
(* gone, no byte is lost, and each direction implements ByteStream.        *)
(*                                                                         *)
(* RefCountExact is not inductive: whether NPipeShutdown may free depends  *)
(* on which references the procedure the thread is in has already dropped. *)
(* Control says what each value of pc implies about them.                  *)
(***************************************************************************)
EXTENDS NamedPipe, SequenceTheorems, TLAPS

Working == PCs \ (ShutdownPCs \union {"accept", "accept_mark", "create_failed",
                                      "done", "detached"})

\* Where the owning thread may be in each phase of the structure's life, and
\* which waits are gone at each point of NPipeShutdown.
Control ==
    /\ pc \in PCs
    /\ life \in {"none", "leaked"} =>
          pc = "idle" /\ thread = NoThread /\ \A d \in Dirs : ~hwait[d]
    /\ life = "creating" => pc \in {"accept", "accept_mark"} \union ShutdownPCs
    /\ life = "open" => pc \in Working \union ShutdownPCs \union {"detached"}
    /\ life = "freed" => pc \in {"create_failed", "done"} /\ thread = NoThread
    /\ pc \in ShutdownPCs \union {"detached"} => thread = NoThread
    /\ life \in {"creating", "open"} /\ pc \notin ShutdownPCs \union {"detached"} =>
          thread \in Threads
    /\ pc = "accept" => \A d \in Dirs : ~hwait[d]
    /\ pc # "idle" /\ pc \notin {"create_failed", "done"} =>
          life \in {"creating", "open"}
    /\ pc \in {"sd_unreg_w", "sd_wait_w", "sd_wait_r"} => ~hwait[READER]
    /\ pc \in {"sd_wait_w", "sd_wait_r"} => ~hwait[WRITER]

\* The types the argument needs
RefTypes ==
    /\ life \in {"none", "creating", "open", "leaked", "freed"}
    /\ nrefs \in Int /\ unrefs \in Int
    /\ hwait \in [Dirs -> BOOLEAN]
    /\ queued \in [Dirs -> Nat]
    /\ sampled \in [Dirs -> {"none", "COMPLETED", "ERROR"}]

RefInv == RefTypes /\ Control /\ RefCountExact /\ CallbackHasChannel

refVars == <<life, thread, nrefs, unrefs, hwait, queued, sampled>>

LEMMA RefInvInit == Init => RefInv
  BY ConstantsAssumption
  DEF Init, RefInv, RefTypes, Control, RefCountExact, CallbackHasChannel,
         CallbackActive, Drained,
      PCs, ShutdownPCs, Working, PoolRefs, One, Dirs, READER, WRITER, NoThread

\* A step within the procedures that touches no reference
LEMMA QuietStep ==
  ASSUME RefInv, UNCHANGED refVars, life = "open",
         pc \in Working, pc' \in Working
  PROVE  RefInv'
  BY DEF RefInv, RefTypes, Control, RefCountExact, CallbackHasChannel,
         CallbackActive, Drained,
         PCs, ShutdownPCs, Working, PoolRefs, One, refVars

\* A step that leaves the procedure where it is
LEMMA StillStep ==
  ASSUME RefInv, UNCHANGED refVars, UNCHANGED pc
  PROVE  RefInv'
  BY DEF RefInv, RefTypes, Control, RefCountExact, CallbackHasChannel,
         CallbackActive, Drained,
         PCs, ShutdownPCs, Working, PoolRefs, One, refVars

\* Actions of a driver or event procedure that touch no reference
Quiet ==
    \/ WatchReadsIssue \/ InputWait \/ ReadDataUnblocks
    \/ \E n \in 1 .. BufSz : ReadDataNow(n) \/ ReadDataBlocks(n)
    \/ OutputIssue \/ OutputCas \/ EventWrite \/ EventNotify
    \/ NPipeInputRefused \/ NPipeInputStarts \/ NPipeOutputRefused
    \/ NPipeOutputStarts \/ NPipeOutputBlocking
    \/ \E mode \in Modes : NPipeBlockProc(mode)
    \/ NPipeCheckProc \/ NPipeEventProc \/ Sleep

\* Actions of the other parties
Still ==
    \/ OtherWakeup \/ \E t \in Threads : NPipeStaleEvent(t)
    \/ KernelConnects \/ KernelReads \/ KernelWrites
    \/ \E d \in Dirs : KernelCancels(d)
    \/ PeerSends \/ PeerCloses

LEMMA QuietPreserves == RefInv /\ Quiet => RefInv'
<1> SUFFICES ASSUME RefInv, Quiet PROVE RefInv'
  OBVIOUS
<1>1. UNCHANGED refVars
  BY DEF Quiet, refVars, chanVars, ioVars, procVars, loopVars, envVars, osVars,
         WatchReadsIssue, InputWait, ReadDataUnblocks, ReadDataNow, ReadDataBlocks,
         OutputIssue, OutputCas, EventWrite, EventNotify, NPipeInputRefused,
         NPipeInputStarts, NPipeOutputRefused, NPipeOutputStarts,
         NPipeOutputBlocking, NPipeBlockProc, NPipeCheckProc, NPipeEventProc, Sleep
<1>2. pc \in Working /\ pc' \in Working
  BY DEF Quiet, Scripting, procVars, Working, PCs, ShutdownPCs, InputReturns,
         WatchReadsIssue, InputWait, ReadDataUnblocks, ReadDataNow, ReadDataBlocks,
         OutputIssue, OutputCas, EventWrite, EventNotify, NPipeInputRefused,
         NPipeInputStarts, NPipeOutputRefused, NPipeOutputStarts,
         NPipeOutputBlocking, NPipeBlockProc, NPipeCheckProc, NPipeEventProc, Sleep
<1>3. life = "open"
  BY <1>2 DEF Quiet, Scripting, RefInv, RefTypes, Control, Working, PCs, ShutdownPCs,
         WatchReadsIssue, InputWait, ReadDataUnblocks, ReadDataNow, ReadDataBlocks,
         OutputIssue, OutputCas, EventWrite, EventNotify, NPipeInputRefused,
         NPipeInputStarts, NPipeOutputRefused, NPipeOutputStarts,
         NPipeOutputBlocking, NPipeBlockProc, NPipeCheckProc, NPipeEventProc, Sleep
<1> QED
  BY <1>1, <1>2, <1>3, QuietStep

LEMMA StillPreserves == RefInv /\ Still => RefInv'
<1> SUFFICES ASSUME RefInv, Still PROVE RefInv'
  OBVIOUS
<1>1. UNCHANGED refVars /\ UNCHANGED pc
  BY DEF Still, refVars, chanVars, ioVars, procVars, loopVars, envVars, osVars,
         Completes, OtherWakeup, NPipeStaleEvent, KernelConnects, KernelReads,
         KernelWrites, KernelCancels, PeerSends, PeerCloses
<1> QED
  BY <1>1, StillStep

\* Registering a wait takes the reference of the pool with it.
LEMMA RegisterPreserves == RefInv /\ (WatchReadsRegister \/ OutputRegister) => RefInv'
<1> SUFFICES ASSUME RefInv, NEW d \in Dirs, pc \in {"wr_register", "out_register"},
                    RegisterWait(d)
             PROVE  RefInv'
  BY DEF WatchReadsRegister, OutputRegister, Dirs
<1> USE DEF RefInv, envVars, osVars
<1>1. RefTypes'
  <2>1. nrefs' \in Int
    BY DEF RefTypes, RegisterWait
  <2>2. hwait' \in [Dirs -> BOOLEAN]
    BY DEF RefTypes, RegisterWait
  <2> QED
    BY <2>1, <2>2 DEF RefTypes, RegisterWait
<1> USE DEF Dirs, READER, WRITER
<1>2. life = "open" /\ thread \in Threads
  BY DEF Control, Working, PCs, ShutdownPCs
<1>3. pc' = "idle" /\ life' = "open" /\ thread' \in Threads
  BY <1>2 DEF RegisterWait
<1>4. Control'
  BY <1>3 DEF Control, Working, PCs, ShutdownPCs
<1>5. CallbackHasChannel'
  BY DEF RefTypes, CallbackHasChannel,
         CallbackActive, Drained, RegisterWait
<1>6. RefCountExact'
  BY <1>2, <1>3 DEF RefTypes, RefCountExact, PoolRefs, One, RegisterWait, ShutdownPCs
<1> QED
  BY <1>1, <1>4, <1>5, <1>6

\* Creating a channel, from the allocation to the accept of a server
Creation == \/ NPipeCreateFails \/ \E t \in Threads : NPipeServer(t) \/ NPipeClient(t)
            \/ NPipeAcceptConnected \/ NPipeAcceptPending \/ NPipeAcceptMark
            \/ NPipeAcceptFails \/ NPipeServerFailed

LEMMA CreationPreserves == RefInv /\ Creation => RefInv'
<1> SUFFICES ASSUME RefInv, Creation PROVE RefInv'
  OBVIOUS
<1> USE ConstantsAssumption
    DEF RefInv, Dirs, READER, WRITER, chanVars, ioVars, procVars, envVars, osVars
<1>1. RefTypes'
  <2> USE DEF Creation, NPipeCreateFails, NPipeServer, NPipeClient,
          NPipeAcceptConnected, NPipeAcceptPending, NPipeAcceptMark,
          NPipeAcceptFails, NPipeServerFailed
  <2>1. life' \in {"none", "creating", "open", "leaked", "freed"}
    BY DEF RefTypes
  <2>2. nrefs' \in Int /\ unrefs' \in Int
    BY DEF RefTypes
  <2>3. hwait' \in [Dirs -> BOOLEAN]
    BY DEF RefTypes
  <2>4. UNCHANGED <<queued, sampled>>
    OBVIOUS
  <2> QED
    BY <2>1, <2>2, <2>3, <2>4 DEF RefTypes
<1>2. Control'
  <2> USE DEF RefTypes, Control, PCs, ShutdownPCs, Working
  <2>1. CASE NPipeCreateFails
    BY <2>1 DEF NPipeCreateFails
  <2>2. CASE \E t \in Threads : NPipeServer(t) \/ NPipeClient(t)
    BY <2>2 DEF NPipeServer, NPipeClient
  <2>3. CASE NPipeAcceptConnected
    BY <2>3 DEF NPipeAcceptConnected
  <2>4. CASE NPipeAcceptPending
    BY <2>4 DEF NPipeAcceptPending
  <2>5. CASE NPipeAcceptMark
    BY <2>5 DEF NPipeAcceptMark
  <2>6. CASE NPipeAcceptFails
    BY <2>6 DEF NPipeAcceptFails
  <2>7. CASE NPipeServerFailed
    BY <2>7 DEF NPipeServerFailed
  <2> QED
    BY <2>1, <2>2, <2>3, <2>4, <2>5, <2>6, <2>7 DEF Creation
<1>3. CallbackHasChannel'
  BY DEF RefTypes, Control, CallbackHasChannel,
         CallbackActive, Drained, ShutdownPCs, Creation,
        NPipeCreateFails, NPipeServer, NPipeClient, NPipeAcceptConnected,
        NPipeAcceptPending, NPipeAcceptMark, NPipeAcceptFails, NPipeServerFailed
<1>4. RefCountExact'
  BY DEF RefTypes, Control, RefCountExact, PoolRefs, One, ShutdownPCs, Creation,
        NPipeCreateFails, NPipeServer, NPipeClient, NPipeAcceptConnected,
        NPipeAcceptPending, NPipeAcceptMark, NPipeAcceptFails, NPipeServerFailed
<1> QED
  BY <1>1, <1>2, <1>3, <1>4

\* Taking waits from the pool drops one reference for each, and no callback of
\* theirs is left behind.
LEMMA UnwatchStep ==
  ASSUME RefInv, NEW D \in SUBSET {d \in Dirs : hwait[d]}, NEW k \in {0, 1},
         DisableWatch(D, k), life = "open", life' = "open",
         UNCHANGED <<unrefs, queued, sampled>>, pc = "idle",
         \/ k = 0 /\ pc' \in Working /\ UNCHANGED thread
         \/ k = 1 /\ pc' = "detached" /\ thread' = NoThread
  PROVE  RefInv'
<1> USE DEF RefInv, Dirs, READER, WRITER, DisableWatch
<1>1. thread \in Threads
  BY DEF Control, ShutdownPCs
<1>2. RefTypes'
  BY DEF RefTypes, One
<1>3. Control'
  BY <1>1 DEF RefTypes, Control, PCs, ShutdownPCs, Working
<1>4. CallbackHasChannel'
  BY DEF RefTypes, CallbackHasChannel, CallbackActive, Drained
<1>5. PoolRefs' = PoolRefs - One(READER \in D) - One(WRITER \in D)
  <2>1. \A d \in Dirs : hwait'[d] = (hwait[d] /\ d \notin D)
    OBVIOUS
  <2>2. \A d \in Dirs : One(hwait'[d]) = One(hwait[d]) - One(d \in D)
    <3> TAKE d \in Dirs
    <3>1. d \in D => hwait[d]
      OBVIOUS
    <3>2. CASE d \in D
      <4>1. hwait[d] /\ ~hwait'[d]
        BY <2>1, <3>1, <3>2
      <4> QED
        BY <3>2, <4>1 DEF One
    <3>3. CASE d \notin D
      <4>1. hwait'[d] = hwait[d]
        BY <2>1, <3>3 DEF RefTypes
      <4> QED
        BY <3>3, <4>1 DEF One
    <3> QED
      BY <3>2, <3>3
  <2>3. \A d \in Dirs : One(hwait[d]) \in Int /\ One(d \in D) \in Int
    BY DEF One
  <2> QED
    BY <2>2, <2>3 DEF PoolRefs
<1>6. nrefs = 2 + PoolRefs /\ PoolRefs \in Int
  BY <1>1, ConstantsAssumption DEF RefTypes, RefCountExact, One, ShutdownPCs, PoolRefs
<1>7. One(READER \in D) \in Int /\ One(WRITER \in D) \in Int
  BY DEF One
<1>8. RefCountExact'
  BY <1>1, <1>5, <1>6, <1>7, ConstantsAssumption
  DEF RefCountExact, One, ShutdownPCs, Working, PCs
<1> QED
  BY <1>2, <1>3, <1>4, <1>8

Unwatching == (\E mask \in Masks : NPipeWatchProc(mask)) \/ NPipeThreadRemove

LEMMA UnwatchingPreserves == RefInv /\ Unwatching => RefInv'
<1> SUFFICES ASSUME RefInv, Unwatching PROVE RefInv'
  OBVIOUS
<1> USE DEF osVars, envVars, Scripting
<1>1. CASE \E mask \in Masks : NPipeWatchProc(mask)
  <2>1. PICK mask \in Masks : NPipeWatchProc(mask)
    BY <1>1
  <2>2. Disabled(mask) \in SUBSET {d \in Dirs : hwait[d]}
    BY DEF Disabled
  <2>3. pc' \in Working
    BY <2>1 DEF NPipeWatchProc, NPipeWatchReads, Working, PCs, ShutdownPCs
  <2> QED
    BY <2>1, <2>2, <2>3, UnwatchStep DEF NPipeWatchProc
<1>2. CASE NPipeThreadRemove
  <2>1. Disabled({}) \in SUBSET {d \in Dirs : hwait[d]}
    BY DEF Disabled
  <2> QED
    BY <1>2, <2>1, UnwatchStep DEF NPipeThreadRemove
<1> QED
  BY <1>1, <1>2 DEF Unwatching

\* A blocking read takes the wait for its read-ahead from the pool.
LEMMA UnregisterPreserves == RefInv /\ InputUnregister => RefInv'
<1> SUFFICES ASSUME RefInv, InputUnregister PROVE RefInv'
  OBVIOUS
<1> USE DEF RefInv, Dirs, READER, WRITER, InputUnregister, PoolRef, envVars, osVars
<1>1. RefTypes'
  BY DEF RefTypes, One
<1>2. life = "open" /\ thread \in Threads
  BY DEF Control, Working, PCs, ShutdownPCs
<1>3. Control'
  BY <1>2 DEF RefTypes, Control, PCs, ShutdownPCs, Working
<1>4. CallbackHasChannel'
  BY DEF RefTypes, CallbackHasChannel, CallbackActive, Drained
<1>5. RefCountExact'
  BY <1>2 DEF RefTypes, RefCountExact, PoolRefs, One, ShutdownPCs
<1> QED
  BY <1>1, <1>3, <1>4, <1>5

\* Another thread takes the channel over; a close cuts it and shuts it down.
Closing == \/ \E t \in Threads : NPipeThreadInsert(t)
           \/ NPipeClose \/ \E d \in Dirs : ShutdownUnregister(d)
           \/ ShutdownWaitWriter \/ ShutdownEnds

LEMMA ClosingPreserves == RefInv /\ Closing => RefInv'
<1> SUFFICES ASSUME RefInv, Closing PROVE RefInv'
  OBVIOUS
<1> USE ConstantsAssumption
    DEF RefInv, Dirs, READER, WRITER, osVars, envVars, ioVars, chanVars
<1>1. CASE \E t \in Threads : NPipeThreadInsert(t)
  <2> USE <1>1 DEF NPipeThreadInsert
  <2>1. RefTypes' /\ CallbackHasChannel'
    BY DEF RefTypes, CallbackHasChannel, CallbackActive, Drained
  <2>2. life = "open"
    BY DEF Control, Working, PCs, ShutdownPCs
  <2>3. Control'
    BY <2>2 DEF Control, Working, PCs, ShutdownPCs
  <2>4. RefCountExact'
    BY <2>2 DEF RefTypes, Control, RefCountExact, PoolRefs, One, ShutdownPCs
  <2> QED
    BY <2>1, <2>3, <2>4
<1>2. CASE NPipeClose
  <2> USE <1>2 DEF NPipeClose, Scripting
  <2>1. RefTypes' /\ CallbackHasChannel'
    BY DEF RefTypes, CallbackHasChannel, CallbackActive, Drained
  <2>2. Control'
    BY DEF Control, Working, PCs, ShutdownPCs
  <2>3. RefCountExact'
    BY DEF RefTypes, Control, RefCountExact, PoolRefs, One, ShutdownPCs
  <2> QED
    BY <2>1, <2>2, <2>3
<1>3. CASE \E d \in Dirs : ShutdownUnregister(d)
  <2>1. PICK d \in Dirs : ShutdownUnregister(d)
    BY <1>3
  <2> USE <2>1 DEF ShutdownUnregister, PoolRef
  <2>2. RefTypes'
    BY DEF RefTypes, One
  <2>3. CallbackHasChannel'
    BY DEF RefTypes, CallbackHasChannel, CallbackActive, Drained
  <2>4. Control'
    BY DEF RefTypes, Control, Working, PCs, ShutdownPCs
  <2>5. RefCountExact'
    BY DEF RefTypes, Control, RefCountExact, PoolRefs, One, ShutdownPCs
  <2> QED
    BY <2>2, <2>3, <2>4, <2>5
<1>4. CASE ShutdownWaitWriter
  <2> USE <1>4 DEF ShutdownWaitWriter
  <2>1. RefTypes' /\ CallbackHasChannel'
    BY DEF RefTypes, CallbackHasChannel, CallbackActive, Drained
  <2>2. Control' /\ RefCountExact'
    BY DEF Control, RefCountExact, PoolRefs, Working, PCs, ShutdownPCs
  <2> QED
    BY <2>1, <2>2
<1>5. CASE ShutdownEnds
  <2> USE <1>5 DEF ShutdownEnds
  <2>1. ~hwait[READER] /\ ~hwait[WRITER] /\ thread = NoThread
    BY DEF Control, ShutdownPCs
  <2>2. nrefs = unrefs
    BY <2>1 DEF RefTypes, RefCountExact, PoolRefs, One, ShutdownPCs
  <2>3. life' = "freed" /\ nrefs' = 0
    BY <2>2 DEF RefTypes
  <2>4. RefTypes' /\ CallbackHasChannel'
    BY <2>1, <2>3 DEF RefTypes, CallbackHasChannel, CallbackActive, Drained
  <2>5. Control'
    BY <2>1, <2>3 DEF Control, Working, PCs, ShutdownPCs
  <2>6. RefCountExact'
    BY <2>1, <2>3 DEF RefCountExact, PoolRefs, One, ShutdownPCs
  <2> QED
    BY <2>4, <2>5, <2>6
<1> QED
  BY <1>1, <1>2, <1>3, <1>4, <1>5 DEF Closing

LEMMA PoolPreserves == RefInv /\ Pool => RefInv'
<1> SUFFICES ASSUME RefInv, NEW d \in Dirs, PoolWait(d) \/ PoolSample(d) \/ PoolCas(d)
             PROVE  RefInv'
  BY DEF Pool
<1> USE DEF RefInv, PoolWait, PoolSample, PoolCas, procVars, chanVars, ioVars
<1>1. RefTypes'
  BY DEF RefTypes
<1>2. Control' /\ RefCountExact'
  BY DEF Control, RefCountExact, PoolRefs
<1>3. CallbackHasChannel'
  <2>1. hwait[d]
    BY DEF RefTypes, CallbackHasChannel, CallbackActive, Drained
  <2>2. life \in {"creating", "open"}
    <3>1. life \notin {"none", "leaked"}
      BY <2>1 DEF Control
    <3>2. life # "freed"
      BY <2>1 DEF RefTypes, RefCountExact, PoolRefs, One, Dirs
    <3> QED
      BY <3>1, <3>2 DEF RefTypes
  <2> QED
    BY <2>1, <2>2 DEF RefTypes, CallbackHasChannel, CallbackActive, Drained
<1> QED
  BY <1>1, <1>2, <1>3

LEMMA RefInvStep == RefInv /\ [Next]_vars => RefInv'
<1> SUFFICES ASSUME RefInv, [Next]_vars PROVE RefInv'
  OBVIOUS
<1>1. CASE UNCHANGED vars
  BY <1>1, StillStep DEF vars, refVars, chanVars, ioVars, procVars, envVars, osVars
<1>2. CASE Continue
  BY <1>2, QuietPreserves, RegisterPreserves, CreationPreserves, UnregisterPreserves,
     ClosingPreserves
  DEF Continue, Quiet, Creation, Closing
<1>3. CASE Script
  BY <1>3, QuietPreserves, CreationPreserves, UnwatchingPreserves, ClosingPreserves
  DEF Script, Quiet, Creation, Unwatching, Closing
<1>4. CASE EventLoop
  BY <1>4, QuietPreserves, StillPreserves DEF EventLoop, Quiet, Still
<1>5. CASE Kernel \/ Peer
  BY <1>5, StillPreserves DEF Kernel, Peer, Still
<1>6. CASE Pool
  BY <1>6, PoolPreserves
<1> QED
  BY <1>1, <1>2, <1>3, <1>4, <1>5, <1>6 DEF Next

LEMMA RefInvAlways == Spec => []RefInv
  BY RefInvInit, RefInvStep, PTL DEF Spec

\* The reference count of an NPipeChannel is exact at every moment, so the
\* NPipeChannelUnref that ends NPipeShutdown frees it and no other call does:
\* for any number of threads, any outcome of accept and write and any fault.
THEOREM RefCountIsExact == Spec => []RefCountExact
  BY RefInvAlways, PTL DEF RefInv

\* NPipeThreadPoolHandler, which is handed a raw pointer, is never queued nor
\* run for a structure that is freed or a wait that has been unregistered.
THEOREM CallbackAlwaysHasChannel == Spec => []CallbackHasChannel
  BY RefInvAlways, PTL DEF RefInv

-----------------------------------------------------------------------------
(* The queue of events.  OneEvent is not inductive: an event that stays on   *)
(* the queue of a thread the channel has left must still find EVENT_QUEUED   *)
(* set, or a second one could be queued when the channel comes back.         *)

EventInv ==
    /\ events \in [Threads -> Nat]
    /\ life = "none" => \A t \in Threads : events[t] = 0
    /\ \A t \in Threads : events[t] > 0 => "EVENT_QUEUED" \in flags
    /\ \A t, u \in Threads : events[t] > 0 /\ events[u] > 0 => t = u /\ events[t] = 1

\* A step that leaves the queues alone and does not reset EVENT_QUEUED
LEMMA EventStill ==
  ASSUME EventInv, UNCHANGED events, life' = "none" => life = "none",
         "EVENT_QUEUED" \in flags => "EVENT_QUEUED" \in flags'
  PROVE  EventInv'
  BY DEF EventInv

LEMMA CheckProcEvents == RefInv /\ EventInv /\ NPipeCheckProc => EventInv'
<1> SUFFICES ASSUME RefInv, EventInv, NPipeCheckProc PROVE EventInv'
  OBVIOUS
<1> USE DEF EventInv, NPipeCheckProc, Scripting, EventWanted
<1>1. thread \in Threads
  BY DEF RefInv, Control, ShutdownPCs
<1>2. \A t \in Threads : events[t] = 0
  OBVIOUS
<1>3. /\ events' \in [Threads -> Nat]
      /\ \A t \in Threads : events'[t] = IF t = thread THEN 1 ELSE 0
  BY <1>1, <1>2
<1> QED
  BY <1>3

LEMMA EventTaken ==
  ASSUME EventInv, NEW t \in Threads, events[t] > 0, life # "none", life' = life,
         events' = [events EXCEPT ![t] = @ - 1]
  PROVE  /\ events' \in [Threads -> Nat] /\ \A u \in Threads : events'[u] = 0
         /\ life' # "none"
<1>1. \A u \in Threads : u # t => events[u] = 0
  BY DEF EventInv
<1>2. events[t] = 1
  BY DEF EventInv
<1> QED
  BY <1>1, <1>2 DEF EventInv

LEMMA EventInvStep == RefInv /\ EventInv /\ [Next]_vars => EventInv'
<1> SUFFICES ASSUME RefInv, EventInv, [Next]_vars PROVE EventInv'
  OBVIOUS
<1> USE DEF chanVars, ioVars, procVars, loopVars, envVars, osVars
<1>1. CASE UNCHANGED vars
  BY <1>1, EventStill DEF vars
<1>2. CASE Continue
  <2>1. UNCHANGED events /\ flags \subseteq flags' /\ (life' = "none" => life = "none")
    BY <1>2
    DEF Continue, NPipeAcceptConnected, NPipeAcceptPending, NPipeAcceptMark,
        NPipeAcceptFails, NPipeServerFailed, WatchReadsIssue, WatchReadsRegister,
        RegisterWait, InputUnregister, InputWait, ReadDataNow, ReadDataBlocks,
        ReadDataUnblocks, OutputIssue, OutputCas, OutputRegister,
        NPipeThreadInsert, ShutdownUnregister, ShutdownWaitWriter, ShutdownEnds,
        EventWrite, EventNotify
  <2> QED
    BY <2>1, EventStill
<1>3. CASE Script
  <2>1. CASE \E t \in Threads : NPipeClient(t)
    BY <2>1 DEF NPipeClient, EventInv
  <2>2. CASE ~\E t \in Threads : NPipeClient(t)
    <3>1. /\ UNCHANGED events /\ (life' = "none" => life = "none")
          /\ "EVENT_QUEUED" \in flags => "EVENT_QUEUED" \in flags'
      BY <1>3, <2>2
      DEF Script, NPipeCreateFails, NPipeServer, NPipeInputRefused, NPipeInputStarts,
          NPipeOutputRefused, NPipeOutputStarts, NPipeOutputBlocking, NPipeWatchProc,
          WatchFlags, NPipeBlockProc, NPipeThreadRemove, NPipeClose
    <3> QED
      BY <3>1, EventStill
  <2> QED
    BY <2>1, <2>2
<1>4. CASE EventLoop
  <2>1. CASE NPipeCheckProc
    BY <2>1, CheckProcEvents
  <2>2. CASE NPipeEventProc
    <3>1. thread \in Threads
      BY <2>2 DEF NPipeEventProc, Scripting, RefInv, Control, ShutdownPCs
    <3> QED
      BY <2>2, <3>1, EventTaken DEF NPipeEventProc, Scripting, EventInv
  <2>3. CASE Sleep \/ OtherWakeup
    BY <2>3, EventStill DEF Sleep, OtherWakeup
  <2>4. CASE \E t \in Threads : NPipeStaleEvent(t)
    BY <2>4, EventTaken DEF NPipeStaleEvent, EventInv
  <2> QED
    BY <1>4, <2>1, <2>2, <2>3, <2>4 DEF EventLoop
<1>5. CASE Kernel \/ Pool \/ Peer
  BY <1>5, EventStill
  DEF Kernel, KernelConnects, KernelReads, KernelWrites, KernelCancels, Completes,
      Pool, PoolWait, PoolSample, PoolCas, Peer, PeerSends, PeerCloses
<1> QED
  BY <1>1, <1>2, <1>3, <1>4, <1>5 DEF Next

LEMMA EventInvInit == Init => EventInv
  BY DEF Init, EventInv

\* NPipeCheckProc never queues a second NPipeEvent for a channel, not even when
\* the channel is moved to another thread with an event queued and moved back.
THEOREM AtMostOneEvent == Spec => []OneEvent
<1>1. RefInv /\ EventInv => OneEvent
  <2>1. RefInv => thread \in Threads \union {NoThread}
    BY DEF RefInv, RefTypes, Control
  <2> QED
    BY <2>1 DEF EventInv, OneEvent
<1> QED
  BY <1>1, EventInvInit, EventInvStep, RefInvInit, RefInvStep, PTL DEF Spec

-----------------------------------------------------------------------------
(* The actions by concern, for the proofs about data. *)

Reading == \/ WatchReadsIssue \/ WatchReadsRegister
           \/ NPipeInputRefused \/ NPipeInputStarts \/ InputUnregister \/ InputWait
           \/ \E n \in 1 .. BufSz : ReadDataNow(n) \/ ReadDataBlocks(n)
           \/ ReadDataUnblocks
Writing == \/ NPipeOutputRefused \/ NPipeOutputStarts \/ OutputIssue \/ OutputCas
           \/ OutputRegister \/ NPipeOutputBlocking
Setting == Unwatching \/ \E mode \in Modes : NPipeBlockProc(mode)
Eventing == EventLoop \/ EventWrite \/ EventNotify

LEMMA NextCases ==
  ASSUME [Next]_vars
  PROVE  \/ UNCHANGED vars \/ Creation \/ Reading \/ Writing \/ Setting \/ Closing
         \/ Eventing \/ Kernel \/ Pool \/ Peer
  BY DEF Next, Continue, Script, Creation, Reading, Writing, Setting, Unwatching,
         Closing, Eventing, EventLoop

\* BytesAccountedFor includes the types; nrefs is a natural number because it is
\* exact, and no reference exists before the channel nor after a failed creation.
TypeInv ==
    /\ TypeOK
    /\ life \in {"none", "leaked"} => nrefs = 0

\* The types of what the wait and reference argument leaves out
ChanTypes == flags \subseteq Flags /\ winerr \in WinErrs
IoTypes == state \in [Dirs -> States] /\ internal \in [Dirs -> Internals]
OsTypes == /\ inflight \in [Dirs -> {"none", "connect", "read", "write"}]
           /\ signaled \in [Dirs -> BOOLEAN]
           /\ peer \in {"absent", "connected", "gone"}
LoopTypes == emask \subseteq Dirs /\ asleep \subseteq Threads /\ told \subseteq Dirs
Counts == /\ ahead \in Nat /\ wbuf \in Nat /\ unrefs \in Nat
          /\ sent \in Nat /\ taken \in Nat /\ wcount \in Nat

\* SET_NPIPE_ERROR makes a WIN32_ERROR of an OVERLAPPED ...
LEMMA CopiedErrorType ==
  ASSUME winerr \in WinErrs, NEW D
  PROVE  CopiedError(D) \in WinErrs
  BY DEF CopiedError, ErrOf, WinErrs

LEMMA ChanTypesStep == RefInv /\ TypeOK /\ [Next]_vars => ChanTypes'
<1> SUFFICES ASSUME RefInv, TypeOK, [Next]_vars PROVE ChanTypes'
  OBVIOUS
<1> USE DEF chanVars, ioVars, procVars, loopVars, envVars, osVars, inVars, outVars
<1>0. flags \subseteq Flags /\ winerr \in WinErrs /\ \A D : CopiedError(D) \in WinErrs
  BY CopiedErrorType DEF TypeOK
<1>1. CASE UNCHANGED vars
  BY <1>1, <1>0
  DEF vars, ChanTypes, Flags, WinErrs, WatchFlags, ErrOf
<1>2. CASE Creation
  BY <1>2, <1>0
  DEF Creation, NPipeCreateFails, NPipeServer, NPipeClient, NPipeAcceptConnected,
      NPipeAcceptPending, NPipeAcceptMark, NPipeAcceptFails, NPipeServerFailed,
      ChanTypes, Flags, WinErrs, WatchFlags, ErrOf
<1>3. CASE Reading
  BY <1>3, <1>0
  DEF Reading, WatchReadsIssue, WatchReadsRegister, RegisterWait, NPipeInputRefused,
      NPipeInputStarts, InputUnregister, InputWait, ReadDataNow, ReadDataBlocks,
      ReadDataUnblocks, InputReturns, ChanTypes, Flags, WinErrs, WatchFlags, ErrOf
<1>4. CASE Writing
  BY <1>4, <1>0
  DEF Writing, NPipeOutputRefused, NPipeOutputStarts, OutputIssue, OutputCas,
      OutputRegister, RegisterWait, NPipeOutputBlocking, ChanTypes, Flags, WinErrs,
      WatchFlags, ErrOf
<1>5. CASE Setting
  BY <1>5, <1>0
  DEF Setting, Unwatching, NPipeWatchProc, NPipeWatchReads, DisableWatch,
      NPipeThreadRemove, NPipeBlockProc, ChanTypes, Flags, WinErrs, WatchFlags, ErrOf
<1>6. CASE Closing
  BY <1>6, <1>0
  DEF Closing, NPipeThreadInsert, NPipeClose, ShutdownUnregister, ShutdownWaitWriter,
      ShutdownEnds, ShutdownWaited, ChanTypes, Flags, WinErrs, WatchFlags, ErrOf
<1>7. CASE Eventing
  BY <1>7, <1>0
  DEF Eventing, EventLoop, NPipeCheckProc, NPipeEventProc, EventWrite, EventNotify,
      WriteTaken, Sleep, OtherWakeup, NPipeStaleEvent, ChanTypes, Flags, WinErrs,
      WatchFlags, ErrOf
<1>8. CASE Kernel
  BY <1>8, <1>0
  DEF Kernel, KernelConnects, KernelReads, KernelWrites, KernelCancels, Completes,
      ChanTypes, Flags, WinErrs, WatchFlags, ErrOf
<1>9. CASE Pool
  BY <1>9, <1>0
  DEF Pool, PoolWait, PoolSample, PoolCas, ChanTypes, Flags, WinErrs, WatchFlags, ErrOf
<1>10. CASE Peer
  BY <1>10, <1>0
  DEF Peer, PeerSends, PeerCloses, ChanTypes, Flags, WinErrs, WatchFlags, ErrOf
<1> QED
  BY NextCases, <1>1, <1>2, <1>3, <1>4, <1>5, <1>6, <1>7, <1>8, <1>9, <1>10

LEMMA IoTypesStep == RefInv /\ TypeOK /\ [Next]_vars => IoTypes'
<1> SUFFICES ASSUME RefInv, TypeOK, [Next]_vars PROVE IoTypes'
  OBVIOUS
<1> USE DEF chanVars, ioVars, procVars, loopVars, envVars, osVars, inVars, outVars
<1>0. IoTypes /\ sampled \in [Dirs -> {"none", "COMPLETED", "ERROR"}]
  BY DEF TypeOK, IoTypes
<1>1. CASE UNCHANGED vars
  BY <1>1, <1>0
  DEF vars, IoTypes, Dirs, READER, WRITER, States, Internals
<1>2. CASE Creation
  BY <1>2, <1>0
  DEF Creation, NPipeCreateFails, NPipeServer, NPipeClient, NPipeAcceptConnected,
      NPipeAcceptPending, NPipeAcceptMark, NPipeAcceptFails, NPipeServerFailed, IoTypes,
      Dirs, READER, WRITER, States, Internals
<1>3. CASE Reading
  BY <1>3, <1>0
  DEF Reading, WatchReadsIssue, WatchReadsRegister, RegisterWait, NPipeInputRefused,
      NPipeInputStarts, InputUnregister, InputWait, ReadDataNow, ReadDataBlocks,
      ReadDataUnblocks, InputReturns, IoTypes, Dirs, READER, WRITER, States, Internals
<1>4. CASE Writing
  BY <1>4, <1>0
  DEF Writing, NPipeOutputRefused, NPipeOutputStarts, OutputIssue, OutputCas,
      OutputRegister, RegisterWait, NPipeOutputBlocking, IoTypes, Dirs, READER, WRITER,
      States, Internals
<1>5. CASE Setting
  BY <1>5, <1>0
  DEF Setting, Unwatching, NPipeWatchProc, NPipeWatchReads, DisableWatch,
      NPipeThreadRemove, NPipeBlockProc, IoTypes, Dirs, READER, WRITER, States,
      Internals
<1>6. CASE Closing
  BY <1>6, <1>0
  DEF Closing, NPipeThreadInsert, NPipeClose, ShutdownUnregister, ShutdownWaitWriter,
      ShutdownEnds, ShutdownWaited, IoTypes, Dirs, READER, WRITER, States, Internals
<1>7. CASE Eventing
  BY <1>7, <1>0
  DEF Eventing, EventLoop, NPipeCheckProc, NPipeEventProc, EventWrite, EventNotify,
      WriteTaken, Sleep, OtherWakeup, NPipeStaleEvent, IoTypes, Dirs, READER, WRITER,
      States, Internals
<1>8. CASE Kernel
  BY <1>8, <1>0
  DEF Kernel, KernelConnects, KernelReads, KernelWrites, KernelCancels, Completes,
      IoTypes, Dirs, READER, WRITER, States, Internals
<1>9. CASE Pool
  BY <1>9, <1>0
  DEF Pool, PoolWait, PoolSample, PoolCas, IoTypes, Dirs, READER, WRITER, States,
      Internals
<1>10. CASE Peer
  BY <1>10, <1>0
  DEF Peer, PeerSends, PeerCloses, IoTypes, Dirs, READER, WRITER, States, Internals
<1> QED
  BY NextCases, <1>1, <1>2, <1>3, <1>4, <1>5, <1>6, <1>7, <1>8, <1>9, <1>10

LEMMA OsTypesStep == RefInv /\ TypeOK /\ [Next]_vars => OsTypes'
<1> SUFFICES ASSUME RefInv, TypeOK, [Next]_vars PROVE OsTypes'
  OBVIOUS
<1> USE DEF chanVars, ioVars, procVars, loopVars, envVars, osVars, inVars, outVars
<1>0. OsTypes
  BY DEF TypeOK, OsTypes
<1>1. CASE UNCHANGED vars
  BY <1>1, <1>0
  DEF vars, OsTypes, Dirs, READER, WRITER
<1>2. CASE Creation
  BY <1>2, <1>0
  DEF Creation, NPipeCreateFails, NPipeServer, NPipeClient, NPipeAcceptConnected,
      NPipeAcceptPending, NPipeAcceptMark, NPipeAcceptFails, NPipeServerFailed, OsTypes,
      Dirs, READER, WRITER
<1>3. CASE Reading
  BY <1>3, <1>0
  DEF Reading, WatchReadsIssue, WatchReadsRegister, RegisterWait, NPipeInputRefused,
      NPipeInputStarts, InputUnregister, InputWait, ReadDataNow, ReadDataBlocks,
      ReadDataUnblocks, InputReturns, OsTypes, Dirs, READER, WRITER
<1>4. CASE Writing
  BY <1>4, <1>0
  DEF Writing, NPipeOutputRefused, NPipeOutputStarts, OutputIssue, OutputCas,
      OutputRegister, RegisterWait, NPipeOutputBlocking, OsTypes, Dirs, READER, WRITER
<1>5. CASE Setting
  BY <1>5, <1>0
  DEF Setting, Unwatching, NPipeWatchProc, NPipeWatchReads, DisableWatch,
      NPipeThreadRemove, NPipeBlockProc, OsTypes, Dirs, READER, WRITER
<1>6. CASE Closing
  BY <1>6, <1>0
  DEF Closing, NPipeThreadInsert, NPipeClose, ShutdownUnregister, ShutdownWaitWriter,
      ShutdownEnds, ShutdownWaited, OsTypes, Dirs, READER, WRITER
<1>7. CASE Eventing
  BY <1>7, <1>0
  DEF Eventing, EventLoop, NPipeCheckProc, NPipeEventProc, EventWrite, EventNotify,
      WriteTaken, Sleep, OtherWakeup, NPipeStaleEvent, OsTypes, Dirs, READER, WRITER
<1>8. CASE Kernel
  <2>1. inflight' \in [Dirs -> {"none", "connect", "read", "write"}]
    BY <1>8, <1>0
    DEF Kernel, KernelConnects, KernelReads, KernelWrites, KernelCancels, Completes,
        OsTypes, Dirs, READER, WRITER
  <2>2. signaled' \in [Dirs -> BOOLEAN]
    BY <1>8, <1>0
    DEF Kernel, KernelConnects, KernelReads, KernelWrites, KernelCancels, Completes,
        OsTypes, Dirs, READER, WRITER
  <2>3. peer' \in {"absent", "connected", "gone"}
    BY <1>8, <1>0
    DEF Kernel, KernelConnects, KernelReads, KernelWrites, KernelCancels, Completes,
        OsTypes, Dirs, READER, WRITER
  <2> QED
    BY <2>1, <2>2, <2>3 DEF OsTypes
<1>9. CASE Pool
  BY <1>9, <1>0
  DEF Pool, PoolWait, PoolSample, PoolCas, OsTypes, Dirs, READER, WRITER
<1>10. CASE Peer
  BY <1>10, <1>0
  DEF Peer, PeerSends, PeerCloses, OsTypes, Dirs, READER, WRITER
<1> QED
  BY NextCases, <1>1, <1>2, <1>3, <1>4, <1>5, <1>6, <1>7, <1>8, <1>9, <1>10

LEMMA LoopTypesStep == RefInv /\ TypeOK /\ [Next]_vars => LoopTypes'
<1> SUFFICES ASSUME RefInv, TypeOK, [Next]_vars PROVE LoopTypes'
  OBVIOUS
<1> USE DEF chanVars, ioVars, procVars, loopVars, envVars, osVars, inVars, outVars
<1>0. LoopTypes
  BY DEF TypeOK, LoopTypes
<1>1. CASE UNCHANGED vars
  BY <1>1, <1>0
  DEF vars, LoopTypes, Dirs, READER, WRITER
<1>2. CASE Creation
  BY <1>2, <1>0
  DEF Creation, NPipeCreateFails, NPipeServer, NPipeClient, NPipeAcceptConnected,
      NPipeAcceptPending, NPipeAcceptMark, NPipeAcceptFails, NPipeServerFailed,
      LoopTypes, Dirs, READER, WRITER
<1>3. CASE Reading
  BY <1>3, <1>0
  DEF Reading, WatchReadsIssue, WatchReadsRegister, RegisterWait, NPipeInputRefused,
      NPipeInputStarts, InputUnregister, InputWait, ReadDataNow, ReadDataBlocks,
      ReadDataUnblocks, InputReturns, LoopTypes, Dirs, READER, WRITER
<1>4. CASE Writing
  BY <1>4, <1>0
  DEF Writing, NPipeOutputRefused, NPipeOutputStarts, OutputIssue, OutputCas,
      OutputRegister, RegisterWait, NPipeOutputBlocking, LoopTypes, Dirs, READER, WRITER
<1>5. CASE Setting
  BY <1>5, <1>0
  DEF Setting, Unwatching, NPipeWatchProc, NPipeWatchReads, DisableWatch,
      NPipeThreadRemove, NPipeBlockProc, LoopTypes, Dirs, READER, WRITER
<1>6. CASE Closing
  BY <1>6, <1>0
  DEF Closing, NPipeThreadInsert, NPipeClose, ShutdownUnregister, ShutdownWaitWriter,
      ShutdownEnds, ShutdownWaited, LoopTypes, Dirs, READER, WRITER
<1>7. CASE Eventing
  BY <1>7, <1>0
  DEF Eventing, EventLoop, NPipeCheckProc, NPipeEventProc, EventWrite, EventNotify,
      WriteTaken, Sleep, OtherWakeup, NPipeStaleEvent, Scripting, RefInv, Control,
      ShutdownPCs, LoopTypes, Dirs, READER, WRITER
<1>8. CASE Kernel
  BY <1>8, <1>0
  DEF Kernel, KernelConnects, KernelReads, KernelWrites, KernelCancels, Completes,
      LoopTypes, Dirs, READER, WRITER
<1>9. CASE Pool
  BY <1>9, <1>0
  DEF Pool, PoolWait, PoolSample, PoolCas, Alerted, LoopTypes, Dirs, READER, WRITER
<1>10. CASE Peer
  BY <1>10, <1>0
  DEF Peer, PeerSends, PeerCloses, LoopTypes, Dirs, READER, WRITER
<1> QED
  BY NextCases, <1>1, <1>2, <1>3, <1>4, <1>5, <1>6, <1>7, <1>8, <1>9, <1>10

LEMMA CountsStep == RefInv /\ TypeOK /\ [Next]_vars => Counts'
<1> SUFFICES ASSUME RefInv, TypeOK, [Next]_vars PROVE Counts'
  OBVIOUS
<1> USE DEF chanVars, ioVars, procVars, loopVars, envVars, osVars, inVars, outVars
<1>0. Counts
  BY DEF TypeOK, Counts
<1>1. CASE UNCHANGED vars
  BY <1>1, <1>0
  DEF vars, Counts, Dirs, READER, WRITER, One, PoolRef, PipeEmpty
<1>2. CASE Creation
  BY <1>2, <1>0
  DEF Creation, NPipeCreateFails, NPipeServer, NPipeClient, NPipeAcceptConnected,
      NPipeAcceptPending, NPipeAcceptMark, NPipeAcceptFails, NPipeServerFailed, Counts,
      Dirs, READER, WRITER, One, PoolRef, PipeEmpty
<1>3. CASE Reading
  BY <1>3, <1>0
  DEF Reading, WatchReadsIssue, WatchReadsRegister, RegisterWait, NPipeInputRefused,
      NPipeInputStarts, InputUnregister, InputWait, ReadDataNow, ReadDataBlocks,
      ReadDataUnblocks, InputReturns, Counts, Dirs, READER, WRITER, One, PoolRef,
      PipeEmpty
<1>4. CASE Writing
  BY <1>4, <1>0
  DEF Writing, NPipeOutputRefused, NPipeOutputStarts, OutputIssue, OutputCas,
      OutputRegister, RegisterWait, NPipeOutputBlocking, Counts, Dirs, READER, WRITER,
      One, PoolRef, PipeEmpty
<1>5. CASE Setting
  BY <1>5, <1>0
  DEF Setting, Unwatching, NPipeWatchProc, NPipeWatchReads, DisableWatch,
      NPipeThreadRemove, NPipeBlockProc, Counts, Dirs, READER, WRITER, One, PoolRef,
      PipeEmpty
<1>6. CASE Closing
  BY <1>6, <1>0
  DEF Closing, NPipeThreadInsert, NPipeClose, ShutdownUnregister, ShutdownWaitWriter,
      ShutdownEnds, ShutdownWaited, Counts, Dirs, READER, WRITER, One, PoolRef,
      PipeEmpty
<1>7. CASE Eventing
  BY <1>7, <1>0
  DEF Eventing, EventLoop, NPipeCheckProc, NPipeEventProc, EventWrite, EventNotify,
      WriteTaken, Sleep, OtherWakeup, NPipeStaleEvent, Counts, Dirs, READER, WRITER,
      One, PoolRef, PipeEmpty
<1>8. CASE Kernel
  BY <1>8, <1>0
  DEF Kernel, KernelConnects, KernelReads, KernelWrites, KernelCancels, Completes,
      Counts, Dirs, READER, WRITER, One, PoolRef, PipeEmpty
<1>9. CASE Pool
  BY <1>9, <1>0
  DEF Pool, PoolWait, PoolSample, PoolCas, Counts, Dirs, READER, WRITER, One, PoolRef,
      PipeEmpty
<1>10. CASE Peer
  BY <1>10, <1>0
  DEF Peer, PeerSends, PeerCloses, Counts, Dirs, READER, WRITER, One, PoolRef, PipeEmpty
<1> QED
  BY NextCases, <1>1, <1>2, <1>3, <1>4, <1>5, <1>6, <1>7, <1>8, <1>9, <1>10

\* Who has the overlapped read-ahead: the kernel, a signal, a callback or none
ReaderIo ==
    /\ inflight[READER] \in {"none", "read"}
    /\ inflight[READER] # "none" =>
          state[READER] = "PENDING" /\ pc \notin {"wr_issue", "in_read", "in_block"}
    /\ signaled[READER] => inflight[READER] = "none"
    /\ CallbackActive(READER) =>
          /\ state[READER] = "PENDING" /\ inflight[READER] = "none"
          /\ ~signaled[READER] /\ pc # "wr_issue"
    /\ queued[READER] + One(sampled[READER] # "none") <= 1
    /\ hwait[READER] /\ signaled[READER] => state[READER] = "PENDING" /\ pc # "wr_issue"
    /\ sampled[READER] # "none" =>
          (sampled[READER] = "COMPLETED" <=> internal[READER] = "ok")

\* What the state of the read side is at each point of a read or of a watch, and
\* where an error can come from
ReaderAt ==
    /\ pc = "wr_issue" => state[READER] = "PENDING" /\ internal[READER] = "ok"
    /\ pc = "wr_register" /\ ~hwait[READER] => state[READER] = "PENDING"
    /\ pc = "in_wait" => ~hwait[READER]
    /\ pc = "in_read" => state[READER] \in {"IDLE", "COMPLETED"}
    /\ pc = "in_block" => state[READER] = "IDLE"
    /\ life \in {"none", "creating", "leaked"} => state[READER] = "IDLE"
    /\ pc \in {"in_unreg", "in_wait", "in_read", "in_block"} => winerr = "SUCCESS"
    /\ state[READER] = "ERROR" => internal[READER] # "ok"
    /\ held # <<>> => pc = "in_block"

ReaderInv == ReaderIo /\ ReaderAt

LEMMA ReaderInvStep == RefInv /\ TypeOK /\ ReaderInv /\ [Next]_vars => ReaderInv'
<1> SUFFICES ASSUME RefInv, TypeOK, ReaderInv, [Next]_vars PROVE ReaderInv'
  OBVIOUS
<1> USE DEF chanVars, ioVars, procVars, loopVars, envVars, osVars, inVars, outVars
<1>0. state \in [Dirs -> States] /\ internal \in [Dirs -> Internals]
      /\ hwait \in [Dirs -> BOOLEAN]
      /\ inflight \in [Dirs -> {"none", "connect", "read", "write"}]
      /\ signaled \in [Dirs -> BOOLEAN] /\ queued \in [Dirs -> Nat]
      /\ sampled \in [Dirs -> {"none", "COMPLETED", "ERROR"}]
  BY DEF TypeOK
<1>r. CallbackHasChannel /\ Control
  BY DEF RefInv
<1> USE <1>0, <1>r
    DEF ReaderInv, CallbackHasChannel, Control, ShutdownPCs, CallbackActive, One, Dirs,
        READER, WRITER, Scripting, Pending, Drained, ReadAheadInUse, Errored, States
<1> HIDE DEF ReaderInv
<1>1. ReaderIo'
  <2>1. CASE UNCHANGED vars
    BY <2>1
    DEF vars, ReaderInv, ReaderIo, ReaderAt
  <2>2. CASE Creation
    BY <2>2
    DEF Creation, NPipeCreateFails, NPipeServer, NPipeClient, NPipeAcceptConnected,
        NPipeAcceptPending, NPipeAcceptMark, NPipeAcceptFails, NPipeServerFailed,
        ReaderInv, ReaderIo, ReaderAt
  <2>3. CASE Reading
    BY <2>3
    DEF Reading, WatchReadsIssue, WatchReadsRegister, RegisterWait, NPipeInputRefused,
        NPipeInputStarts, InputUnregister, InputWait, ReadDataNow, ReadDataBlocks,
        ReadDataUnblocks, InputReturns, ReaderInv, ReaderIo, ReaderAt
  <2>4. CASE Writing
    BY <2>4
    DEF Writing, NPipeOutputRefused, NPipeOutputStarts, OutputIssue, OutputCas,
        OutputRegister, RegisterWait, NPipeOutputBlocking, ReaderInv, ReaderIo, ReaderAt
  <2>5. CASE Setting
    BY <2>5
    DEF Setting, Unwatching, NPipeWatchProc, NPipeWatchReads, DisableWatch,
        NPipeThreadRemove, NPipeBlockProc, ReaderInv, ReaderIo, ReaderAt
  <2>6. CASE Closing
    BY <2>6
    DEF Closing, NPipeThreadInsert, NPipeClose, ShutdownUnregister, ShutdownWaitWriter,
        ShutdownEnds, ShutdownWaited, ReaderInv, ReaderIo, ReaderAt
  <2>7. CASE Eventing
    BY <2>7
    DEF Eventing, EventLoop, NPipeCheckProc, NPipeEventProc, EventWrite, EventNotify,
        WriteTaken, Sleep, OtherWakeup, NPipeStaleEvent, ReaderInv, ReaderIo, ReaderAt
  <2>8. CASE Kernel
    BY <2>8
    DEF Kernel, KernelConnects, KernelReads, KernelWrites, KernelCancels, Completes,
        ReaderInv, ReaderIo, ReaderAt
  <2>9. CASE Pool
    BY <2>9
    DEF Pool, PoolWait, PoolSample, PoolCas, ReaderInv, ReaderIo, ReaderAt
  <2>10. CASE Peer
    BY <2>10
    DEF Peer, PeerSends, PeerCloses, ReaderInv, ReaderIo, ReaderAt
  <2> QED
    BY NextCases, <2>1, <2>2, <2>3, <2>4, <2>5, <2>6, <2>7, <2>8, <2>9, <2>10
<1>2. ReaderAt'
  <2>1. CASE UNCHANGED vars
    BY <2>1
    DEF vars, ReaderInv, ReaderIo, ReaderAt
  <2>2. CASE Creation
    BY <2>2
    DEF Creation, NPipeCreateFails, NPipeServer, NPipeClient, NPipeAcceptConnected,
        NPipeAcceptPending, NPipeAcceptMark, NPipeAcceptFails, NPipeServerFailed,
        ReaderInv, ReaderIo, ReaderAt
  <2>3. CASE Reading
    BY <2>3
    DEF Reading, WatchReadsIssue, WatchReadsRegister, RegisterWait, NPipeInputRefused,
        NPipeInputStarts, InputUnregister, InputWait, ReadDataNow, ReadDataBlocks,
        ReadDataUnblocks, InputReturns, ReaderInv, ReaderIo, ReaderAt
  <2>4. CASE Writing
    BY <2>4
    DEF Writing, NPipeOutputRefused, NPipeOutputStarts, OutputIssue, OutputCas,
        OutputRegister, RegisterWait, NPipeOutputBlocking, ReaderInv, ReaderIo, ReaderAt
  <2>5. CASE Setting
    BY <2>5
    DEF Setting, Unwatching, NPipeWatchProc, NPipeWatchReads, DisableWatch,
        NPipeThreadRemove, NPipeBlockProc, ReaderInv, ReaderIo, ReaderAt
  <2>6. CASE Closing
    BY <2>6
    DEF Closing, NPipeThreadInsert, NPipeClose, ShutdownUnregister, ShutdownWaitWriter,
        ShutdownEnds, ShutdownWaited, ReaderInv, ReaderIo, ReaderAt
  <2>7. CASE Eventing
    BY <2>7
    DEF Eventing, EventLoop, NPipeCheckProc, NPipeEventProc, EventWrite, EventNotify,
        WriteTaken, Sleep, OtherWakeup, NPipeStaleEvent, ReaderInv, ReaderIo, ReaderAt
  <2>8. CASE Kernel
    BY <2>8
    DEF Kernel, KernelConnects, KernelReads, KernelWrites, KernelCancels, Completes,
        ReaderInv, ReaderIo, ReaderAt
  <2>9. CASE Pool
    BY <2>9
    DEF Pool, PoolWait, PoolSample, PoolCas, ReaderInv, ReaderIo, ReaderAt
  <2>10. CASE Peer
    BY <2>10
    DEF Peer, PeerSends, PeerCloses, ReaderInv, ReaderIo, ReaderAt
  <2> QED
    BY NextCases, <2>1, <2>2, <2>3, <2>4, <2>5, <2>6, <2>7, <2>8, <2>9, <2>10
<1> QED
  BY <1>1, <1>2 DEF ReaderInv

-----------------------------------------------------------------------------
(* Runs of consecutive numbers, which is what each side of the pipe sees.   *)

\* Bytes(a, b) is a sequence of b - a + 1 numbers ...
LEMMA BytesType ==
  ASSUME NEW a \in Nat \ {0}, NEW b \in Nat, a <= b + 1
  PROVE  Bytes(a, b) \in Seq(Nat) /\ Len(Bytes(a, b)) = b - a + 1
<1>1. b - a + 1 \in Nat /\ \A i \in 1 .. (b - a + 1) : a + i - 1 \in Nat
  OBVIOUS
<1>2. Bytes(a, b) \in [1 .. (b - a + 1) -> Nat]
  BY <1>1 DEF Bytes
<1>3. Bytes(a, b) \in Seq(Nat)
  BY <1>1, <1>2
<1>4. DOMAIN Bytes(a, b) = 1 .. (b - a + 1)
  BY DEF Bytes
<1> QED
  BY <1>1, <1>3, <1>4

LEMMA BytesElement ==
  ASSUME NEW a \in Nat \ {0}, NEW b \in Nat, NEW i \in 1 .. (b - a + 1)
  PROVE  Bytes(a, b)[i] = a + i - 1
  BY DEF Bytes

\* ... and two that follow each other make one.
LEMMA BytesConcat ==
  ASSUME NEW a \in Nat \ {0}, NEW b \in Nat, NEW c \in Nat, a <= b + 1, b <= c
  PROVE  Bytes(a, b) \o Bytes(b + 1, c) = Bytes(a, c)
<1> DEFINE s == Bytes(a, b)
           t == Bytes(b + 1, c)
           u == Bytes(a, c)
<1>1. /\ s \in Seq(Nat) /\ Len(s) = b - a + 1
      /\ t \in Seq(Nat) /\ Len(t) = c - b
      /\ u \in Seq(Nat) /\ Len(u) = c - a + 1
  <2>1. s \in Seq(Nat) /\ Len(s) = b - a + 1
    BY BytesType
  <2>2. t \in Seq(Nat) /\ Len(t) = c - (b + 1) + 1
    <3>1. b + 1 \in Nat \ {0} /\ b + 1 <= c + 1
      OBVIOUS
    <3> QED
      BY <3>1, BytesType
  <2>3. u \in Seq(Nat) /\ Len(u) = c - a + 1
    BY BytesType
  <2> QED
    BY <2>1, <2>2, <2>3
<1>2. /\ \A i \in 1 .. Len(s) : s[i] = a + i - 1
      /\ \A i \in 1 .. Len(t) : t[i] = b + i
      /\ \A i \in 1 .. Len(u) : u[i] = a + i - 1
  <2>1. \A i \in 1 .. (b - a + 1) : s[i] = a + i - 1
    BY BytesElement
  <2>2. \A i \in 1 .. (c - (b + 1) + 1) : t[i] = (b + 1) + i - 1
    BY BytesElement
  <2>3. \A i \in 1 .. (c - a + 1) : u[i] = a + i - 1
    BY BytesElement
  <2> QED
    BY <1>1, <2>1, <2>2, <2>3
<1> HIDE DEF s, t, u
<1>3. /\ s \o t \in Seq(Nat) /\ Len(s \o t) = Len(s) + Len(t)
      /\ \A i \in 1 .. Len(s) + Len(t) :
            (s \o t)[i] = IF i <= Len(s) THEN s[i] ELSE t[i - Len(s)]
  <2>1. s \in Seq(Nat) /\ t \in Seq(Nat)
    BY <1>1
  <2> QED
    BY <2>1, ConcatProperties
<1>4. Len(s \o t) = Len(u) /\ \A i \in 1 .. Len(u) : (s \o t)[i] = u[i]
  <2>1. Len(u) = Len(s) + Len(t)
    BY <1>1
  <2>2. ASSUME NEW i \in 1 .. Len(u) PROVE (s \o t)[i] = u[i]
    <3>1. CASE i <= Len(s)
      <4>1. (s \o t)[i] = s[i] /\ i \in 1 .. Len(s)
        BY <1>3, <1>1, <2>1, <3>1
      <4> QED
        BY <1>2, <4>1
    <3>2. CASE i > Len(s)
      <4>1. i - Len(s) \in 1 .. Len(t)
        BY <1>1, <2>1, <3>2
      <4>2. (s \o t)[i] = t[i - Len(s)]
        <5>1. i \in 1 .. Len(s) + Len(t)
          BY <2>1
        <5>2. (s \o t)[i] = IF i <= Len(s) THEN s[i] ELSE t[i - Len(s)]
          BY <1>3, <5>1
        <5>3. ~(i <= Len(s))
          BY <1>1, <3>2
        <5> QED
          BY <5>2, <5>3
      <4>3. t[i - Len(s)] = b + (i - Len(s))
        BY <1>2, <4>1
      <4>4. b + (i - Len(s)) = a + i - 1
        BY <1>1
      <4> QED
        BY <1>2, <4>2, <4>3, <4>4
    <3> QED
      BY <1>1, <3>1, <3>2
  <2> QED
    BY <1>3, <2>1, <2>2
<1>5. s \o t = u
  BY <1>1, <1>3, <1>4, SeqEqual
<1> QED
  BY <1>5 DEF s, t, u

LEMMA BytesNone ==
  ASSUME NEW a \in Nat
  PROVE  Bytes(a + 1, a) = <<>>
<1>1. Bytes(a + 1, a) \in Seq(Nat) /\ Len(Bytes(a + 1, a)) = 0
  BY BytesType
<1> QED
  BY <1>1

LEMMA BytesOne ==
  ASSUME NEW a \in Nat
  PROVE  Bytes(a + 1, a + 1) = <<a + 1>>
<1>0. a + 1 \in Nat \ {0} /\ a + 1 <= (a + 1) + 1 /\ (a + 1) - (a + 1) + 1 = 1
  OBVIOUS
<1>1. Bytes(a + 1, a + 1) \in Seq(Nat) /\ Len(Bytes(a + 1, a + 1)) = 1
  BY <1>0, BytesType
<1>2. Bytes(a + 1, a + 1)[1] = a + 1
  BY BytesElement
<1> DEFINE s == Bytes(a + 1, a + 1)
<1> HIDE DEF s
<1>3. s = <<a + 1>>
  <2>1. s \in Seq(Nat) /\ Len(s) = 1 /\ s[1] = a + 1
    BY <1>1, <1>2 DEF s
  <2> QED
    BY <2>1
<1> QED
  BY <1>3 DEF s

LEMMA BytesAppend ==
  ASSUME NEW a \in Nat \ {0}, NEW b \in Nat, a <= b + 1
  PROVE  Append(Bytes(a, b), b + 1) = Bytes(a, b + 1)
<1> DEFINE s == Bytes(a, b)
<1>1. s \in Seq(Nat)
  BY BytesType
<1> HIDE DEF s
<1>2. Append(s, b + 1) = s \o <<b + 1>>
  BY <1>1
<1>3. Append(s, b + 1) = s \o Bytes(b + 1, b + 1)
  BY <1>2, BytesOne
<1>4. b + 1 \in Nat /\ b <= b + 1
  OBVIOUS
<1>5. s \o Bytes(b + 1, b + 1) = Bytes(a, b + 1)
  BY <1>4, BytesConcat DEF s
<1> QED
  BY <1>3, <1>5 DEF s

-----------------------------------------------------------------------------
(* The bytes the peer sends.                                                *)

\* What a read has returned, what one in progress has in its buffer and the
\* read-ahead byte, as consecutive numbers
Delivered ==
    /\ got = Bytes(1, Len(got)) /\ Len(got) <= taken /\ taken <= sent
    /\ winerr = "SUCCESS" =>
          /\ taken = Len(got) + Len(held) + One(ReadAheadHeld)
          /\ held = Bytes(Len(got) + 1, Len(got) + Len(held))
          /\ ReadAheadHeld => ahead = taken

InTypes == /\ got \in Seq(Nat) /\ held \in Seq(Nat)
           /\ sent \in Nat /\ taken \in Nat /\ ahead \in Nat

InInv == InTypes /\ Delivered

LEMMA BytesFromOne ==
  ASSUME NEW n \in Nat
  PROVE  Bytes(1, n) \in Seq(Nat) /\ Len(Bytes(1, n)) = n
<1>1. 1 \in Nat \ {0} /\ 1 <= n + 1 /\ n - 1 + 1 = n
  OBVIOUS
<1> QED
  BY <1>1, BytesType

\* The steps that can be taken with the bytes: none moves; the kernel stores the
\* read-ahead byte; a read returns what has left the pipe; a read fails.
LEMMA NothingMoves ==
  ASSUME InInv, UNCHANGED <<got, held, taken, ahead>>, sent' \in Nat, sent <= sent',
         winerr' = "SUCCESS" => winerr = "SUCCESS" /\ (ReadAheadHeld' <=> ReadAheadHeld)
  PROVE  InInv'
<1>1. InTypes'
  BY DEF InInv, InTypes
<1>2. Len(got') = Len(got) /\ Len(held') = Len(held) /\ Len(got) \in Nat
  BY DEF InInv, InTypes
<1>3. /\ got' = Bytes(1, Len(got))' /\ Len(got') <= taken' /\ taken' <= sent'
  BY <1>2 DEF InInv, InTypes, Delivered
<1>4. ASSUME winerr' = "SUCCESS"
      PROVE  /\ taken = Len(got) + Len(held) + One(ReadAheadHeld)'
             /\ held = Bytes(Len(got) + 1, Len(got) + Len(held))
             /\ ReadAheadHeld' => ahead = taken
  BY <1>4 DEF InInv, Delivered, One
<1> QED
  BY <1>1, <1>2, <1>3, <1>4 DEF InInv, Delivered

LEMMA ByteAhead ==
  ASSUME InInv, held = <<>>, ~ReadAheadHeld, ReadAheadHeld', taken < sent,
         taken' = taken + 1, ahead' = taken + 1, UNCHANGED <<got, held, sent>>,
         winerr' = "SUCCESS" => winerr = "SUCCESS"
  PROVE  InInv'
<1>1. InTypes'
  BY DEF InInv, InTypes
<1>2. Len(got') = Len(got) /\ Len(held') = 0 /\ Len(held) = 0 /\ Len(got) \in Nat
  BY DEF InInv, InTypes
<1>3. /\ got' = Bytes(1, Len(got))' /\ Len(got') <= taken' /\ taken' <= sent'
  BY <1>2 DEF InInv, InTypes, Delivered
<1>4. ASSUME winerr' = "SUCCESS"
      PROVE  /\ taken' = Len(got) + Len(held) + 1
             /\ held = Bytes(Len(got) + 1, Len(got) + Len(held))
  <2>1. taken = Len(got)
    BY <1>2, <1>4 DEF InInv, InTypes, Delivered, One
  <2>3. held = Bytes(Len(got) + 1, Len(got) + Len(held))
    BY <1>4 DEF InInv, Delivered
  <2>4. taken' = Len(got) + Len(held) + 1
    BY <1>2, <2>1
  <2> QED
    BY <2>3, <2>4
<1> QED
  BY <1>1, <1>2, <1>3, <1>4 DEF InInv, Delivered, One

LEMMA ReadReturns ==
  ASSUME InInv, got' = got \o Bytes(Len(got) + 1, taken'), held' = <<>>,
         taken' \in Nat, taken <= taken', taken' <= sent, UNCHANGED <<sent, ahead>>,
         ~ReadAheadHeld'
  PROVE  InInv'
<1>1. Len(got) \in Nat /\ Len(got) <= taken' /\ got \in Seq(Nat)
  BY DEF InInv, InTypes, Delivered
<1>2. got = Bytes(1, Len(got))
  BY DEF InInv, Delivered
<1>3. got' = Bytes(1, taken')
  <2>1. 1 \in Nat \ {0} /\ 1 <= Len(got) + 1
    BY <1>1
  <2>2. Bytes(1, Len(got)) \o Bytes(Len(got) + 1, taken') = Bytes(1, taken')
    BY <1>1, <2>1, BytesConcat
  <2> QED
    BY <1>2, <2>2
<1>4. got' \in Seq(Nat) /\ Len(got') = taken'
  BY <1>3, BytesFromOne
<1>5. InTypes'
  BY <1>4 DEF InInv, InTypes
<1>6. held' = Bytes(Len(got') + 1, Len(got') + Len(held')) /\ Len(held') = 0
  <2>1. Len(held') = 0 /\ Len(got') + 0 = taken'
    BY <1>4
  <2>2. Bytes(taken' + 1, taken') = <<>>
    BY BytesNone
  <2> QED
    BY <1>4, <2>1, <2>2
<1>7. Delivered'
  <2>1. One(ReadAheadHeld)' = 0
    BY DEF One
  <2> QED
    BY <1>3, <1>4, <1>5, <1>6, <2>1 DEF InInv, InTypes, Delivered
<1> QED
  BY <1>5, <1>7 DEF InInv

LEMMA ReadFails ==
  ASSUME InInv, winerr' # "SUCCESS", held' = <<>>, UNCHANGED <<got, taken, ahead, sent>>
  PROVE  InInv'
<1>1. InTypes'
  BY DEF InInv, InTypes
<1> QED
  BY <1>1 DEF InInv, Delivered

\* The bytes NPipeReadData starts with are those that follow what was returned.
LEMMA AheadFollows ==
  ASSUME InInv, winerr = "SUCCESS", ReadAheadHeld = (state[READER] = "COMPLETED")
  PROVE  WithAhead = Bytes(Len(got) + 1, taken) /\ Len(got) <= taken
<1>1. Len(got) \in Nat /\ Len(held) \in Nat
  BY DEF InInv, InTypes
<1>2. held = Bytes(Len(got) + 1, Len(got) + Len(held)) /\ Len(got) <= taken
  BY DEF InInv, Delivered
<1>3. CASE ReadAheadHeld
  <2>1. taken = Len(got) + Len(held) + 1 /\ ahead = taken
    BY <1>3 DEF InInv, InTypes, Delivered, One
  <2>2. Append(held, ahead) = Bytes(Len(got) + 1, Len(got) + Len(held) + 1)
    <3> DEFINE a == Len(got) + 1
               b == Len(got) + Len(held)
    <3>1. a \in Nat \ {0} /\ b \in Nat /\ a <= b + 1
      BY <1>1
    <3>2. held = Bytes(a, b) /\ ahead = b + 1
      BY <1>1, <1>2, <2>1
    <3> HIDE DEF a, b
    <3>3. Append(held, ahead) = Bytes(a, b + 1)
      BY <3>1, <3>2, BytesAppend
    <3> QED
      BY <3>3 DEF a, b
  <2> QED
    BY <1>2, <1>3, <2>1, <2>2 DEF WithAhead
<1>4. CASE ~ReadAheadHeld
  <2>1. taken = Len(got) + Len(held)
    BY <1>1, <1>4 DEF InInv, InTypes, Delivered, One
  <2> QED
    BY <1>2, <1>4, <2>1 DEF WithAhead
<1> QED
  BY <1>3, <1>4

\* What a step that moves no byte leaves as it is
BytesStay == /\ UNCHANGED <<got, held, taken, ahead>> /\ sent' \in Nat /\ sent <= sent'
             /\ winerr' = "SUCCESS" =>
                   winerr = "SUCCESS" /\ (ReadAheadHeld' <=> ReadAheadHeld)

\* ... and never forgets an error
LEMMA CopiedErrorKeeps ==
  ASSUME NEW D, CopiedError(D) = "SUCCESS"
  PROVE  winerr = "SUCCESS"
  BY DEF CopiedError, ErrOf

\* The types the argument needs
ReadTypes == /\ state \in [Dirs -> States] /\ internal \in [Dirs -> Internals]
             /\ inflight \in [Dirs -> {"none", "connect", "read", "write"}]
             /\ sampled \in [Dirs -> {"none", "COMPLETED", "ERROR"}]
             /\ queued \in [Dirs -> Nat]
             /\ sent \in Nat /\ taken \in Nat

\* The actions that move bytes, one by one
LEMMA WatchBytes == ReadTypes /\ ReaderInv /\ InInv /\ WatchReadsIssue => InInv'
<1> SUFFICES ASSUME ReadTypes, ReaderInv, InInv, WatchReadsIssue PROVE InInv'
  OBVIOUS
<1> USE DEF WatchReadsIssue
<1>1. held = <<>> /\ ~ReadAheadHeld /\ UNCHANGED held
  BY DEF ReadAheadHeld, ReaderInv, ReaderAt
<1>2. UNCHANGED <<got, sent>>
  OBVIOUS
<1>3. CASE winerr' = "EOF" /\ UNCHANGED <<taken, ahead>>
  BY <1>1, <1>2, <1>3, ReadFails
<1>4. CASE PipeEmpty /\ peer = "connected"
  <2>1. ~ReadAheadHeld' /\ UNCHANGED <<taken, ahead, winerr>>
    BY <1>1, <1>4 DEF ReadAheadHeld, ReaderInv, ReaderAt, ReadTypes, Dirs, READER
  <2> QED
    BY <1>1, <1>2, <2>1, NothingMoves DEF ReadTypes
<1>5. CASE ~PipeEmpty
  <2>1. taken < sent
    BY <1>5 DEF PipeEmpty, InInv, InTypes, Delivered
  <2>2. ReadAheadHeld'
    BY <1>5 DEF ReadAheadHeld, ReaderInv, ReaderAt, ReaderIo, ReadTypes, Dirs, READER
  <2>3. taken' = taken + 1 /\ ahead' = taken + 1 /\ UNCHANGED winerr
    BY <1>5
  <2> QED
    BY <1>1, <1>2, <2>1, <2>2, <2>3, ByteAhead
<1> QED
  BY <1>3, <1>4, <1>5

LEMMA ReturnsRest ==
  ASSUME ReadTypes, NEW buf, InputReturns(buf)
  PROVE  got' = got \o buf /\ held' = <<>> /\ ~ReadAheadHeld'
  BY DEF ReadTypes, InputReturns, ReadAheadHeld, Dirs, READER

\* A read returns everything that has left the pipe ...
ReadsAll == /\ got' = got \o Bytes(Len(got) + 1, taken') /\ held' = <<>>
            /\ taken' \in Nat /\ taken <= taken' /\ taken' <= sent
            /\ UNCHANGED <<sent, ahead>> /\ ~ReadAheadHeld'

\* ... or fails, and what it had is lost
ReadsNone == winerr' = "EOF" /\ held' = <<>> /\ UNCHANGED <<got, taken, ahead, sent>>

LEMMA ReadEnds == InInv /\ (ReadsAll \/ ReadsNone) => InInv'
  BY ReadReturns, ReadFails DEF ReadsAll, ReadsNone

LEMMA ReadNowBytes ==
  ASSUME ReadTypes, ReaderInv, InInv, NEW n \in 1 .. BufSz, ReadDataNow(n)
  PROVE  ReadsAll \/ ReadsNone
<1>1. winerr = "SUCCESS" /\ ReadAheadHeld = (state[READER] = "COMPLETED")
  BY DEF ReadDataNow, ReadAheadHeld, ReaderInv, ReaderAt
<1>2. WithAhead = Bytes(Len(got) + 1, taken) /\ Len(got) <= taken /\ Len(got) \in Nat
  BY <1>1, AheadFollows DEF InInv, InTypes
<1>3. UNCHANGED <<sent, ahead>> /\ taken \in Nat /\ sent \in Nat /\ taken <= sent
  BY DEF ReadDataNow, InInv, InTypes, Delivered
<1>4. CASE InputReturns(WithAhead) /\ UNCHANGED taken
  <2>1. got' = got \o Bytes(Len(got) + 1, taken') /\ held' = <<>> /\ ~ReadAheadHeld'
    BY <1>2, <1>4, ReturnsRest
  <2>2. taken' \in Nat /\ taken <= taken' /\ taken' <= sent
    BY <1>3, <1>4
  <2> QED
    BY <1>3, <2>1, <2>2 DEF ReadsAll
<1>5. CASE \E m \in Nat : /\ m <= sent - taken /\ taken' = taken + m
                          /\ InputReturns(WithAhead \o Bytes(taken + 1, taken + m))
  <2>1. PICK m \in Nat : /\ m <= sent - taken /\ taken' = taken + m
                         /\ InputReturns(WithAhead \o Bytes(taken + 1, taken + m))
    BY <1>5
  <2>2. taken + m \in Nat /\ taken <= taken + m /\ taken + m <= sent
    BY <1>3, <2>1
  <2>3. WithAhead \o Bytes(taken + 1, taken + m) = Bytes(Len(got) + 1, taken + m)
    <3>1. Len(got) + 1 \in Nat \ {0} /\ Len(got) + 1 <= taken + 1
      BY <1>2, <1>3
    <3> QED
      BY <1>2, <1>3, <2>2, <3>1, BytesConcat
  <2>4. got' = got \o Bytes(Len(got) + 1, taken') /\ held' = <<>> /\ ~ReadAheadHeld'
    BY <2>1, <2>3, ReturnsRest
  <2> QED
    BY <1>3, <2>1, <2>2, <2>4 DEF ReadsAll
<1>6. CASE winerr' = "EOF" /\ held' = <<>> /\ UNCHANGED <<got, taken>>
  BY <1>3, <1>6 DEF ReadsNone
<1>7. \/ InputReturns(WithAhead) /\ UNCHANGED taken
      \/ winerr' = "EOF" /\ held' = <<>> /\ UNCHANGED <<got, taken>>
      \/ LET room == n - Len(WithAhead)
             more == IF room < sent - taken THEN room ELSE sent - taken
         IN  /\ room > 0 /\ ~PipeEmpty /\ taken' = taken + more
             /\ InputReturns(WithAhead \o Bytes(taken + 1, taken + more))
  BY DEF ReadDataNow
<1>8. Len(WithAhead) \in Nat
  <2>1. Len(got) + 1 \in Nat \ {0} /\ Len(got) + 1 <= taken + 1
    BY <1>2, <1>3
  <2> QED
    BY <1>2, <1>3, <2>1, BytesType
<1> QED
  <2> DEFINE room == n - Len(WithAhead)
             more == IF room < sent - taken THEN room ELSE sent - taken
  <2>1. ASSUME room > 0 PROVE more \in Nat /\ more <= sent - taken
    BY <1>3, <1>8, <2>1
  <2> QED
    BY <1>4, <1>5, <1>6, <1>7, <2>1

LEMMA ReadBlocksBytes ==
  ASSUME ReadTypes, ReaderInv, InInv, NEW n \in 1 .. BufSz, ReadDataBlocks(n)
  PROVE  InInv'
<1> USE DEF envVars, inVars, chanVars
<1>1. winerr = "SUCCESS" /\ ReadAheadHeld = (state[READER] = "COMPLETED")
  BY DEF ReadDataBlocks, ReadAheadHeld, ReaderInv, ReaderAt
<1>2. WithAhead = Bytes(Len(got) + 1, taken) /\ Len(got) <= taken /\ Len(got) \in Nat
  BY <1>1, AheadFollows DEF InInv, InTypes
<1>3. UNCHANGED <<got, sent, taken, ahead, winerr>> /\ held' = WithAhead
  BY DEF ReadDataBlocks
<1>4. ~ReadAheadHeld'
  BY DEF ReadDataBlocks, ReadAheadHeld, ReadTypes, Dirs, READER
<1>5. held' \in Seq(Nat) /\ Len(held') = taken - Len(got)
  <2>1. Len(got) + 1 \in Nat \ {0} /\ Len(got) + 1 <= taken + 1 /\ taken \in Nat
        /\ taken - (Len(got) + 1) + 1 = taken - Len(got)
    BY <1>2 DEF ReadTypes
  <2> QED
    BY <1>2, <1>3, <2>1, BytesType
<1>6. InTypes'
  BY <1>3, <1>5 DEF InInv, InTypes
<1>7. Len(got) + Len(held') = taken
  BY <1>2, <1>5 DEF ReadTypes
<1>8. Delivered'
  BY <1>1, <1>2, <1>3, <1>4, <1>5, <1>7 DEF InInv, InTypes, Delivered, One
<1> QED
  BY <1>6, <1>8 DEF InInv

LEMMA UnblocksBytes ==
  ReadTypes /\ ReaderInv /\ InInv /\ ReadDataUnblocks => ReadsAll \/ ReadsNone
<1> SUFFICES ASSUME ReadTypes, ReaderInv, InInv, ReadDataUnblocks
             PROVE  ReadsAll \/ ReadsNone
  OBVIOUS
<1> USE DEF ReadDataUnblocks
<1>1. winerr = "SUCCESS" /\ ~ReadAheadHeld /\ UNCHANGED <<sent, ahead>>
  BY DEF ReadAheadHeld, ReaderInv, ReaderAt
<1>2. CASE winerr' = "EOF" /\ held' = <<>> /\ UNCHANGED <<taken, got>>
  BY <1>1, <1>2 DEF ReadsNone
<1>3. CASE /\ ~PipeEmpty /\ taken' = taken + 1
           /\ InputReturns(Append(held, taken + 1))
  <2>1. Len(got) \in Nat /\ Len(held) \in Nat /\ taken \in Nat /\ sent \in Nat
    BY DEF InInv, InTypes
  <2>2. taken = Len(got) + Len(held) /\ held = Bytes(Len(got) + 1, taken)
    BY <1>1, <2>1 DEF InInv, Delivered, One
  <2>3. taken + 1 <= sent /\ taken + 1 \in Nat
    BY <1>3, <2>1 DEF PipeEmpty, InInv, Delivered
  <2>4. Append(held, taken + 1) = Bytes(Len(got) + 1, taken + 1)
    <3>1. Len(got) + 1 \in Nat \ {0} /\ Len(got) + 1 <= taken + 1
      BY <2>1, <2>2
    <3> QED
      BY <2>1, <2>2, <3>1, BytesAppend
  <2>5. got' = got \o Bytes(Len(got) + 1, taken') /\ held' = <<>> /\ ~ReadAheadHeld'
    BY <1>3, <2>4, ReturnsRest
  <2> QED
    BY <1>1, <1>3, <2>1, <2>3, <2>5 DEF ReadsAll
<1> QED
  BY <1>2, <1>3

LEMMA KernelReadsBytes == ReadTypes /\ ReaderInv /\ InInv /\ KernelReads => InInv'
<1> SUFFICES ASSUME ReadTypes, ReaderInv, InInv, KernelReads PROVE InInv'
  OBVIOUS
<1> USE DEF KernelReads, Completes, chanVars, procVars
<1>1. held = <<>> /\ ~ReadAheadHeld /\ UNCHANGED <<held, got, sent, winerr>>
  BY DEF ReadAheadHeld, ReaderInv, ReaderAt, ReaderIo
<1>2. CASE ~PipeEmpty /\ taken' = taken + 1 /\ ahead' = taken + 1 /\ Completes(READER, "ok")
  <2>1. taken < sent
    BY <1>2 DEF PipeEmpty, InInv, InTypes, Delivered
  <2>2. ReadAheadHeld'
    BY <1>2 DEF ReadAheadHeld, ReaderInv, ReaderIo, ReadTypes, Dirs, READER
  <2> QED
    BY <1>1, <1>2, <2>1, <2>2, ByteAhead
<1>3. CASE PipeEmpty /\ UNCHANGED <<taken, ahead>> /\ Completes(READER, "eof")
  <2>1. ~ReadAheadHeld'
    BY <1>3 DEF ReadAheadHeld, ReaderInv, ReaderIo, ReadTypes, Dirs, READER
  <2> QED
    BY <1>1, <1>3, <2>1, NothingMoves DEF ReadTypes
<1> QED
  BY <1>2, <1>3

\* Every other action leaves them alone.
LEMMA InInvStep == RefInv /\ TypeOK /\ ReaderInv /\ InInv /\ [Next]_vars => InInv'
<1> SUFFICES ASSUME RefInv, TypeOK, ReaderInv, InInv, [Next]_vars PROVE InInv'
  OBVIOUS
<1> USE DEF chanVars, ioVars, procVars, loopVars, envVars, osVars, inVars, outVars
<1>a. ReadTypes
  BY DEF TypeOK, ReadTypes
<1>b. Control /\ ReaderIo /\ ReaderAt /\ \A D : CopiedError(D) = "SUCCESS" => winerr = "SUCCESS"
  BY CopiedErrorKeeps DEF RefInv, ReaderInv
<1>c. BytesStay => InInv'
  BY NothingMoves DEF BytesStay
<1>1. CASE UNCHANGED vars
  BY <1>1, <1>a, <1>b, <1>c
  DEF vars, BytesStay, ReadTypes, ReadAheadHeld, ReaderIo, ReaderAt, Control,
      ShutdownPCs, CallbackActive, One, Dirs, READER, WRITER, Scripting, Pending,
      ReadAheadInUse, States
<1>2. CASE Creation
  <2>1. BytesStay
    BY <1>2, <1>a, <1>b
    DEF Creation, NPipeCreateFails, NPipeServer, NPipeClient, NPipeAcceptConnected,
        NPipeAcceptPending, NPipeAcceptMark, NPipeAcceptFails, NPipeServerFailed,
        BytesStay, ReadTypes, ReadAheadHeld, ReaderIo, ReaderAt, Control, ShutdownPCs,
        CallbackActive, One, Dirs, READER, WRITER, Scripting, Pending, ReadAheadInUse,
        States
  <2> QED
    BY <2>1, <1>c
<1>3. CASE Reading
  <2>1. CASE \/ WatchReadsRegister \/ NPipeInputRefused \/ NPipeInputStarts
             \/ InputUnregister \/ InputWait
    <3>1. BytesStay
      BY <2>1, <1>a, <1>b
      DEF BytesStay, ReadTypes, WatchReadsRegister, RegisterWait, NPipeInputRefused,
          NPipeInputStarts, InputUnregister, InputWait, ReadAheadHeld, ReaderIo,
          ReaderAt, ErrOf, Scripting, States, Dirs, READER, WRITER
    <3> QED
      BY <3>1, <1>c
  <2> QED
    BY <1>3, <2>1, <1>a, WatchBytes, ReadNowBytes, ReadBlocksBytes, UnblocksBytes,
       ReadEnds
    DEF Reading
<1>4. CASE Writing
  <2>1. BytesStay
    BY <1>4, <1>a, <1>b
    DEF Writing, NPipeOutputRefused, NPipeOutputStarts, OutputIssue, OutputCas,
        OutputRegister, RegisterWait, NPipeOutputBlocking, BytesStay, ReadTypes,
        ReadAheadHeld, ReaderIo, ReaderAt, Control, ShutdownPCs, CallbackActive, One,
        Dirs, READER, WRITER, Scripting, Pending, ReadAheadInUse, States
  <2> QED
    BY <2>1, <1>c
<1>5. CASE Setting
  <2>1. BytesStay
    BY <1>5, <1>a, <1>b
    DEF Setting, Unwatching, NPipeWatchProc, NPipeWatchReads, DisableWatch,
        NPipeThreadRemove, NPipeBlockProc, BytesStay, ReadTypes, ReadAheadHeld,
        ReaderIo, ReaderAt, Control, ShutdownPCs, CallbackActive, One, Dirs, READER,
        WRITER, Scripting, Pending, ReadAheadInUse, States
  <2> QED
    BY <2>1, <1>c
<1>6. CASE Closing
  <2>1. BytesStay
    BY <1>6, <1>a, <1>b
    DEF Closing, NPipeThreadInsert, NPipeClose, ShutdownUnregister, ShutdownWaitWriter,
        ShutdownEnds, ShutdownWaited, BytesStay, ReadTypes, ReadAheadHeld, ReaderIo,
        ReaderAt, Control, ShutdownPCs, CallbackActive, One, Dirs, READER, WRITER,
        Scripting, Pending, ReadAheadInUse, States
  <2> QED
    BY <2>1, <1>c
<1>7. CASE Eventing
  <2>1. BytesStay
    BY <1>7, <1>a, <1>b
    DEF Eventing, EventLoop, NPipeCheckProc, NPipeEventProc, EventWrite, EventNotify,
        WriteTaken, Sleep, OtherWakeup, NPipeStaleEvent, BytesStay, ReadTypes,
        ReadAheadHeld, ReaderIo, ReaderAt, Control, ShutdownPCs, CallbackActive, One,
        Dirs, READER, WRITER, Scripting, Pending, ReadAheadInUse, States
  <2> QED
    BY <2>1, <1>c
<1>8. CASE Kernel
  <2>1. CASE KernelReads
    BY <1>a, <2>1, KernelReadsBytes
  <2>2. CASE KernelConnects \/ KernelWrites \/ \E d \in Dirs : KernelCancels(d)
    <3>1. BytesStay
      BY <2>2, <1>a, <1>b
      DEF KernelConnects, KernelWrites, KernelCancels, Completes, BytesStay, ReadTypes,
          ReadAheadHeld, ReaderIo, ReaderAt, Control, ShutdownPCs, CallbackActive, One,
          Dirs, READER, WRITER, Scripting, Pending, ReadAheadInUse, States
    <3> QED
      BY <3>1, <1>c
  <2> QED
    BY <1>8, <2>1, <2>2 DEF Kernel
<1>9. CASE Pool
  <2>1. BytesStay
    BY <1>9, <1>a, <1>b
    DEF Pool, PoolWait, PoolSample, PoolCas, BytesStay, ReadTypes, ReadAheadHeld,
        ReaderIo, ReaderAt, Control, ShutdownPCs, CallbackActive, One, Dirs, READER,
        WRITER, Scripting, Pending, ReadAheadInUse, States
  <2> QED
    BY <2>1, <1>c
<1>10. CASE Peer
  <2>1. BytesStay
    BY <1>10, <1>a, <1>b
    DEF Peer, PeerSends, PeerCloses, BytesStay, ReadTypes, ReadAheadHeld, ReaderIo,
        ReaderAt, Control, ShutdownPCs, CallbackActive, One, Dirs, READER, WRITER,
        Scripting, Pending, ReadAheadInUse, States
  <2> QED
    BY <2>1, <1>c
<1> QED
  BY NextCases, <1>1, <1>2, <1>3, <1>4, <1>5, <1>6, <1>7, <1>8, <1>9, <1>10

-----------------------------------------------------------------------------
(* The types of the channel, which need the counts above to be natural, and *)
(* the invariant of all but the write side.                                 *)

LEMMA PeerGotStep == TypeOK /\ [Next]_vars => (peerGot \in Seq(Nat))'
<1> SUFFICES ASSUME TypeOK, [Next]_vars PROVE peerGot' \in Seq(Nat)
  OBVIOUS
<1> USE DEF chanVars, ioVars, procVars, loopVars, envVars, osVars, inVars, outVars
<1>0. peerGot \in Seq(Nat) /\ wbuf \in Nat /\ wcount \in Nat
  BY DEF TypeOK
<1>a. wcount + 1 \in Nat /\ \A w \in Nat : Append(peerGot, w) \in Seq(Nat)
  BY <1>0, AppendProperties
<1>b. /\ Append(peerGot, wbuf) \in Seq(Nat) /\ Append(peerGot, wcount + 1) \in Seq(Nat)
      /\ peerGot \in Seq(Nat)
  BY <1>0, <1>a
<1> DEFINE S == Seq(Nat)
<1> HIDE DEF S
<1> SUFFICES peerGot' \in S
  BY DEF S
<1>c. Append(peerGot, wbuf) \in S /\ Append(peerGot, wcount + 1) \in S /\ peerGot \in S
  BY <1>b DEF S
<1>1. CASE UNCHANGED vars
  BY <1>1, <1>c
  DEF vars
<1>2. CASE Creation
  BY <1>2, <1>c
  DEF Creation, NPipeCreateFails, NPipeServer, NPipeClient, NPipeAcceptConnected,
      NPipeAcceptPending, NPipeAcceptMark, NPipeAcceptFails, NPipeServerFailed
<1>3. CASE Reading
  BY <1>3, <1>c
  DEF Reading, WatchReadsIssue, WatchReadsRegister, RegisterWait, NPipeInputRefused,
      NPipeInputStarts, InputUnregister, InputWait, ReadDataNow, ReadDataBlocks,
      ReadDataUnblocks, InputReturns
<1>4. CASE Writing
  BY <1>4, <1>c
  DEF Writing, NPipeOutputRefused, NPipeOutputStarts, OutputIssue, OutputCas,
      OutputRegister, RegisterWait, NPipeOutputBlocking
<1>5. CASE Setting
  BY <1>5, <1>c
  DEF Setting, Unwatching, NPipeWatchProc, NPipeWatchReads, DisableWatch,
      NPipeThreadRemove, NPipeBlockProc
<1>6. CASE Closing
  BY <1>6, <1>c
  DEF Closing, NPipeThreadInsert, NPipeClose, ShutdownUnregister, ShutdownWaitWriter,
      ShutdownEnds, ShutdownWaited
<1>7. CASE Eventing
  BY <1>7, <1>c
  DEF Eventing, EventLoop, NPipeCheckProc, NPipeEventProc, EventWrite, EventNotify,
      WriteTaken, Sleep, OtherWakeup, NPipeStaleEvent
<1>8. CASE Kernel
  BY <1>8, <1>c
  DEF Kernel, KernelConnects, KernelReads, KernelWrites, KernelCancels, Completes
<1>9. CASE Pool
  BY <1>9, <1>c
  DEF Pool, PoolWait, PoolSample, PoolCas
<1>10. CASE Peer
  BY <1>10, <1>c
  DEF Peer, PeerSends, PeerCloses
<1> QED
  BY NextCases, <1>1, <1>2, <1>3, <1>4, <1>5, <1>6, <1>7, <1>8, <1>9, <1>10

\* What has gone wrong once is not forgotten.
LapsesKept == lapses \subseteq lapses' /\ lapses' \subseteq lapses \union LapseKinds

LEMMA LapsesStep == [Next]_vars => LapsesKept
<1> SUFFICES ASSUME [Next]_vars PROVE LapsesKept
  OBVIOUS
<1> USE DEF chanVars, ioVars, procVars, loopVars, envVars, osVars, inVars, outVars,
       LapsesKept, LapseKinds
<1>1. CASE UNCHANGED vars
  BY <1>1
  DEF vars
<1>2. CASE Creation
  BY <1>2
  DEF Creation, NPipeCreateFails, NPipeServer, NPipeClient, NPipeAcceptConnected,
      NPipeAcceptPending, NPipeAcceptMark, NPipeAcceptFails, NPipeServerFailed
<1>3. CASE Reading
  BY <1>3
  DEF Reading, WatchReadsIssue, WatchReadsRegister, RegisterWait, NPipeInputRefused,
      NPipeInputStarts, InputUnregister, InputWait, ReadDataNow, ReadDataBlocks,
      ReadDataUnblocks
<1>4. CASE Writing
  BY <1>4
  DEF Writing, NPipeOutputRefused, NPipeOutputStarts, OutputIssue, OutputCas,
      OutputRegister, RegisterWait, NPipeOutputBlocking
<1>5. CASE Setting
  BY <1>5
  DEF Setting, Unwatching, NPipeWatchProc, NPipeThreadRemove, NPipeBlockProc
<1>6. CASE Closing
  BY <1>6
  DEF Closing, NPipeThreadInsert, NPipeClose, ShutdownUnregister, ShutdownWaitWriter,
      ShutdownEnds, ShutdownWaited
<1>7. CASE Eventing
  BY <1>7
  DEF Eventing, EventLoop, NPipeCheckProc, NPipeEventProc, EventWrite, EventNotify,
      Sleep, OtherWakeup, NPipeStaleEvent
<1>8. CASE Kernel
  BY <1>8
  DEF Kernel, KernelConnects, KernelReads, KernelWrites, KernelCancels
<1>9. CASE Pool
  BY <1>9
  DEF Pool, PoolWait, PoolSample, PoolCas
<1>10. CASE Peer
  BY <1>10
  DEF Peer, PeerSends, PeerCloses
<1> QED
  BY NextCases, <1>1, <1>2, <1>3, <1>4, <1>5, <1>6, <1>7, <1>8, <1>9, <1>10

LEMMA TypeInvStep ==
  RefInv /\ EventInv /\ TypeInv /\ ReaderInv /\ InInv /\ [Next]_vars => TypeInv'
<1> SUFFICES ASSUME RefInv, EventInv, TypeInv, ReaderInv, InInv, [Next]_vars
             PROVE  TypeInv'
  OBVIOUS
<1>1. TypeOK /\ RefInv' /\ EventInv' /\ InInv'
  BY RefInvStep, EventInvStep, InInvStep DEF TypeInv
<1>a. lapses' \subseteq LapseKinds
  BY <1>1, LapsesStep DEF LapsesKept, TypeOK
<1>2. ChanTypes' /\ IoTypes' /\ OsTypes' /\ LoopTypes' /\ Counts' /\ (peerGot \in Seq(Nat))'
  BY <1>1, ChanTypesStep, IoTypesStep, OsTypesStep, LoopTypesStep, CountsStep, PeerGotStep
<1>3. (life \in {"none", "leaked"} => nrefs = 0)'
  <2> USE DEF chanVars, ioVars, procVars, loopVars, envVars, osVars
  <2>0. life \in {"none", "leaked"} => nrefs = 0 /\ pc = "idle"
    BY DEF TypeInv, RefInv, Control
  <2>1. CASE UNCHANGED vars
    BY <2>1, <2>0
    DEF vars, Scripting
  <2>2. CASE Creation
    BY <2>2, <2>0
    DEF Creation, NPipeCreateFails, NPipeServer, NPipeClient, NPipeAcceptConnected,
        NPipeAcceptPending, NPipeAcceptMark, NPipeAcceptFails, NPipeServerFailed,
        Scripting
  <2>3. CASE Reading
    BY <2>3, <2>0
    DEF Reading, WatchReadsIssue, WatchReadsRegister, RegisterWait, NPipeInputRefused,
        NPipeInputStarts, InputUnregister, InputWait, ReadDataNow, ReadDataBlocks,
        ReadDataUnblocks, InputReturns, Scripting
  <2>4. CASE Writing
    BY <2>4, <2>0
    DEF Writing, NPipeOutputRefused, NPipeOutputStarts, OutputIssue, OutputCas,
        OutputRegister, RegisterWait, NPipeOutputBlocking, Scripting
  <2>5. CASE Setting
    BY <2>5, <2>0
    DEF Setting, Unwatching, NPipeWatchProc, NPipeWatchReads, DisableWatch,
        NPipeThreadRemove, NPipeBlockProc, Scripting
  <2>6. CASE Closing
    BY <2>6, <2>0
    DEF Closing, NPipeThreadInsert, NPipeClose, ShutdownUnregister, ShutdownWaitWriter,
        ShutdownEnds, ShutdownWaited, Scripting
  <2>7. CASE Eventing
    BY <2>7, <2>0
    DEF Eventing, EventLoop, NPipeCheckProc, NPipeEventProc, EventWrite, EventNotify,
        WriteTaken, Sleep, OtherWakeup, NPipeStaleEvent, Scripting
  <2>8. CASE Kernel
    BY <2>8, <2>0
    DEF Kernel, KernelConnects, KernelReads, KernelWrites, KernelCancels, Completes,
        Scripting
  <2>9. CASE Pool
    BY <2>9, <2>0
    DEF Pool, PoolWait, PoolSample, PoolCas, Scripting
  <2>10. CASE Peer
    BY <2>10, <2>0
    DEF Peer, PeerSends, PeerCloses, Scripting
  <2> QED
    BY NextCases, <2>1, <2>2, <2>3, <2>4, <2>5, <2>6, <2>7, <2>8, <2>9, <2>10
<1>4. nrefs' \in Nat
  <2>1. (PoolRefs \in Nat /\ One(thread # NoThread) \in Nat)'
    BY DEF PoolRefs, One
  <2>2. RefTypes' /\ RefCountExact' /\ unrefs' \in Nat
    BY <1>1, <1>2 DEF RefInv, Counts
  <2>3. life' \in {"none", "creating", "open", "leaked", "freed"}
    BY <2>2 DEF RefTypes
  <2>4. CASE life' \in {"creating", "open"} /\ pc' \notin ShutdownPCs
    BY <2>1, <2>2, <2>4 DEF RefCountExact
  <2>5. CASE pc' \in ShutdownPCs
    <3>1. nrefs' = unrefs' + PoolRefs'
      BY <2>2, <2>5 DEF RefCountExact
    <3>2. unrefs' \in Nat /\ PoolRefs' \in Nat
      BY <2>1, <2>2
    <3>3. \A m, n \in Nat : m + n \in Nat
      OBVIOUS
    <3>4. unrefs' + PoolRefs' \in Nat
      BY <3>2, <3>3
    <3> QED
      BY <3>1, <3>4
  <2> QED
    BY <1>3, <2>2, <2>3, <2>4, <2>5 DEF RefCountExact
<1> QED
  BY <1>1, <1>a, <1>2, <1>3, <1>4
  DEF RefInv, RefTypes, Control, EventInv, InInv, InTypes, ChanTypes, IoTypes, OsTypes,
      LoopTypes, Counts, TypeInv, TypeOK

\* The inductive invariant of all but the write side
NPInv == RefInv /\ EventInv /\ TypeInv /\ ReaderInv /\ InInv

LEMMA NPInvInit == Init => NPInv
<1> SUFFICES ASSUME Init PROVE NPInv
  OBVIOUS
<1>1. RefInv /\ EventInv
  BY RefInvInit, EventInvInit
<1>2. TypeInv
  BY DEF Init, TypeInv, TypeOK, Dirs, States, Internals, WinErrs, PCs, Flags
<1>3. ReaderInv
  BY DEF Init, ReaderInv, ReaderIo, ReaderAt, CallbackActive, One, Dirs, READER
<1>4. InInv
  <2>1. InTypes
    BY DEF Init, InTypes
  <2>2. Bytes(1, 0) = <<>>
    BY BytesNone
  <2>3. got = <<>> /\ held = <<>> /\ taken = 0 /\ sent = 0 /\ ~ReadAheadHeld
    BY DEF Init, ReadAheadHeld, Dirs, READER
  <2> QED
    BY <2>1, <2>2, <2>3 DEF InInv, Delivered, One
<1> QED
  BY <1>1, <1>2, <1>3, <1>4 DEF NPInv

LEMMA NPInvStep == NPInv /\ [Next]_vars => NPInv'
  BY RefInvStep, EventInvStep, TypeInvStep, ReaderInvStep, InInvStep DEF NPInv, TypeInv

LEMMA NPInvAlways == Spec => []NPInv
  BY NPInvInit, NPInvStep, PTL DEF Spec

\* Consecutive runs make one run from the first byte on.
LEMMA InInvAccounts == TypeOK /\ InInv => BytesAccountedFor
<1> SUFFICES ASSUME TypeOK, InInv, winerr = "SUCCESS"
             PROVE  got \o held \o (IF ReadAheadHeld THEN <<ahead>> ELSE <<>>)
                       = Bytes(1, taken)
  BY DEF BytesAccountedFor
<1> DEFINE g == Len(got)
           m == Len(got) + Len(held)
<1>1. /\ g \in Nat /\ m \in Nat /\ g <= m /\ ahead \in Nat
      /\ got \in Seq(Nat) /\ held \in Seq(Nat)
  BY DEF InInv, InTypes
<1>2. got = Bytes(1, g) /\ held = Bytes(g + 1, m)
  BY DEF InInv, Delivered
<1>3. ReadAheadHeld => taken = m + 1 /\ ahead = taken
  BY <1>1 DEF InInv, InTypes, Delivered, One
<1>4. ~ReadAheadHeld => taken = m
  BY <1>1 DEF InInv, InTypes, Delivered, One
<1>5. got \o held = Bytes(1, m)
  <2> HIDE DEF g, m
  <2>1. 1 \in Nat \ {0} /\ 1 <= g + 1
    BY <1>1
  <2> QED
    BY <1>1, <1>2, <2>1, BytesConcat
<1>6. got \o held \in Seq(Nat)
  BY <1>1, ConcatProperties
<1> HIDE DEF g, m
<1>7. CASE ReadAheadHeld
  <2>1. Append(got \o held, ahead) = (got \o held) \o <<ahead>>
    BY <1>1, <1>6, AppendIsConcat
  <2>2. 1 \in Nat \ {0} /\ 1 <= m + 1
    BY <1>1
  <2>3. Append(Bytes(1, m), m + 1) = Bytes(1, m + 1)
    BY <1>1, <2>2, BytesAppend
  <2> QED
    BY <1>3, <1>5, <1>7, <2>1, <2>3
<1>8. CASE ~ReadAheadHeld
  <2>1. (got \o held) \o <<>> = got \o held
    BY <1>6, ConcatEmptySeq
  <2> QED
    BY <1>4, <1>5, <1>8, <2>1
<1> QED
  BY <1>7, <1>8

\* Through the read-ahead byte, blocking and non-blocking reads and every race of
\* a read with the kernel and the pool, no byte that has left the pipe is lost,
\* repeated or out of order, however many the peer sends; the proof also gives
\* every variable of the channel its type.
THEOREM BytesAreAccountedFor == Spec => []BytesAccountedFor
<1>1. NPInv => BytesAccountedFor
  BY InInvAccounts DEF NPInv, TypeInv
<1> QED
  BY <1>1, NPInvAlways, PTL

\* A read is one Consume of ByteStream, or no step of it.
LEMMA InputReads == InInv /\ ReadsAll => [Input!Next]_<<sent, got>>
<1> SUFFICES ASSUME InInv, ReadsAll PROVE [Input!Next]_<<sent, got>>
  OBVIOUS
<1>1. Len(got) \in Nat /\ Len(got) <= taken' /\ taken' \in Nat /\ sent' = sent
      /\ sent \in Nat /\ taken' <= sent /\ got \in Seq(Nat)
  BY DEF ReadsAll, InInv, InTypes, Delivered
<1>2. got' = got \o Bytes(Len(got) + 1, taken')
  BY DEF ReadsAll
<1>3. CASE taken' = Len(got)
  <2>1. Bytes(Len(got) + 1, Len(got)) = <<>>
    BY <1>1, BytesNone
  <2>2. got \o <<>> = got
    BY <1>1, ConcatEmptySeq
  <2> QED
    BY <1>1, <1>2, <1>3, <2>1, <2>2
<1>4. CASE taken' # Len(got)
  <2>1. taken' \in (Len(got) + 1) .. sent'
    BY <1>1, <1>4
  <2>2. got' = got \o Input!Numbers(Len(got) + 1, taken')
    BY <1>2 DEF Bytes, Input!Numbers
  <2>3. sent' \in {sent, sent + 1}
    BY <1>1
  <2> QED
    BY <2>1, <2>2, <2>3 DEF Input!Next, Input!Consume
<1> QED
  BY <1>3, <1>4

LEMMA InputStep == NPInv /\ [Next]_vars => [Input!Next]_<<sent, got>>
<1> SUFFICES ASSUME NPInv, [Next]_vars PROVE [Input!Next]_<<sent, got>>
  OBVIOUS
<1> USE DEF chanVars, ioVars, procVars, loopVars, envVars, osVars, inVars, outVars
<1>1. CASE UNCHANGED vars
  BY <1>1
  DEF vars
<1>2. CASE Creation
  BY <1>2
  DEF Creation, NPipeCreateFails, NPipeServer, NPipeClient, NPipeAcceptConnected,
      NPipeAcceptPending, NPipeAcceptMark, NPipeAcceptFails, NPipeServerFailed
<1>3. CASE Reading
  <2>1. ReadTypes /\ ReaderInv /\ InInv
    BY DEF NPInv, TypeInv, TypeOK, ReadTypes
  <2>2. CASE \/ WatchReadsIssue \/ WatchReadsRegister \/ NPipeInputRefused
             \/ NPipeInputStarts \/ InputUnregister \/ InputWait
             \/ \E n \in 1 .. BufSz : ReadDataBlocks(n)
    BY <2>2
    DEF WatchReadsIssue, WatchReadsRegister, RegisterWait, NPipeInputRefused,
        NPipeInputStarts, InputUnregister, InputWait, ReadDataBlocks
  <2>3. CASE ReadDataUnblocks \/ \E n \in 1 .. BufSz : ReadDataNow(n)
    <3>1. ReadsAll \/ ReadsNone
      BY <2>1, <2>3, ReadNowBytes, UnblocksBytes
    <3> QED
      BY <2>1, <3>1, InputReads DEF ReadsNone
  <2> QED
    BY <1>3, <2>2, <2>3 DEF Reading
<1>4. CASE Writing
  BY <1>4
  DEF Writing, NPipeOutputRefused, NPipeOutputStarts, OutputIssue, OutputCas,
      OutputRegister, RegisterWait, NPipeOutputBlocking
<1>5. CASE Setting
  BY <1>5
  DEF Setting, Unwatching, NPipeWatchProc, NPipeWatchReads, DisableWatch,
      NPipeThreadRemove, NPipeBlockProc
<1>6. CASE Closing
  BY <1>6
  DEF Closing, NPipeThreadInsert, NPipeClose, ShutdownUnregister, ShutdownWaitWriter,
      ShutdownEnds, ShutdownWaited
<1>7. CASE Eventing
  BY <1>7
  DEF Eventing, EventLoop, NPipeCheckProc, NPipeEventProc, EventWrite, EventNotify,
      WriteTaken, Sleep, OtherWakeup, NPipeStaleEvent
<1>8. CASE Kernel
  BY <1>8
  DEF Kernel, KernelConnects, KernelReads, KernelWrites, KernelCancels, Completes
<1>9. CASE Pool
  BY <1>9
  DEF Pool, PoolWait, PoolSample, PoolCas
<1>10. CASE Peer
  BY <1>10 DEF Peer, PeerSends, PeerCloses, Input!Next, Input!Produce
<1> QED
  BY NextCases, <1>1, <1>2, <1>3, <1>4, <1>5, <1>6, <1>7, <1>8, <1>9, <1>10

\* What the read procedure returns to the channel layer is the stream of bytes
\* the peer sends, whatever the sizes of the reads and the mode of the channel.
THEOREM InputIsByteStream == Spec => Input!Spec
<1>1. Init => Input!Init
  BY DEF Init, Input!Init
<1> QED
  BY <1>1, NPInvAlways, InputStep, PTL DEF Spec, Input!Spec

-----------------------------------------------------------------------------
(* The write side.  A write that overtakes the callback of an earlier one   *)
(* breaks what the code intends, so the invariant of the write side is one  *)
(* that holds until then; a refused wait or a slow cancellation only matter *)
(* to what a freed structure leaves behind.                                 *)

WriterQuiet == inflight[WRITER] = "none" /\ ~signaled[WRITER] /\ ~CallbackActive(WRITER)

\* An operation in flight is one the state says is pending (but while the channel
\* is created: a connect precedes PENDING), and neither its event nor a callback
\* reports it yet.  A write that completes at once may leave a signal or a callback
\* behind, so nothing bounds their number once the operation has ended.
WriterIo ==
    /\ inflight[WRITER] # "none" =>
          /\ state[WRITER] = "PENDING" \/ life \in {"creating", "freed"}
          /\ ~signaled[WRITER] /\ ~CallbackActive(WRITER)
    /\ pc \in {"out_issue", "out_cas"} => inflight[WRITER] = "none"
    /\ pc = "accept" \/ life \in {"none", "leaked"} => WriterQuiet

\* What NPipeShutdown has waited for at each point
FreedInv ==
    /\ \/ lapses # {}
       \/ /\ inflight[WRITER] # "none" => state[WRITER] = "PENDING" \/ pc = "accept_mark"
          /\ pc = "sd_wait_r" => inflight[WRITER] = "none"
    /\ KernelHasOverlapped

\* The types the argument needs
WriteTypes ==
    /\ state \in [Dirs -> States]
    /\ inflight \in [Dirs -> {"none", "connect", "read", "write"}]
    /\ signaled \in [Dirs -> BOOLEAN] /\ queued \in [Dirs -> Nat]
    /\ sampled \in [Dirs -> {"none", "COMPLETED", "ERROR"}]

LEMMA WriterIoStep ==
  ASSUME ~Overtaken', RefInv, WriteTypes, WriterIo, [Next]_vars
  PROVE  WriterIo'
<1> USE DEF chanVars, ioVars, procVars, loopVars, envVars, osVars, inVars, outVars
<1>0. Control /\ CallbackHasChannel
  BY DEF RefInv
<1> USE <1>0 DEF WriteTypes, WriterIo, WriterQuiet, Control, CallbackHasChannel,
      CallbackActive, One, ShutdownPCs, Dirs, READER, WRITER, Scripting, Pending, States
<1>1. CASE UNCHANGED vars
  BY <1>1
  DEF vars
<1>2. CASE Creation
  <2>1. CASE NPipeCreateFails \/ \E t \in Threads : NPipeServer(t) \/ NPipeClient(t)
    BY <2>1 DEF NPipeCreateFails, NPipeServer, NPipeClient
  <2>2. CASE NPipeAcceptConnected \/ NPipeServerFailed
    BY <2>2 DEF NPipeAcceptConnected, NPipeServerFailed
  <2>3. CASE NPipeAcceptPending
    BY <2>3 DEF NPipeAcceptPending, Working
  <2>4. CASE NPipeAcceptMark
    BY <2>4 DEF NPipeAcceptMark
  <2>5. CASE NPipeAcceptFails
    BY <2>5 DEF NPipeAcceptFails, Working
  <2> QED
    BY <1>2, <2>1, <2>2, <2>3, <2>4, <2>5 DEF Creation
<1>3. CASE Reading
  BY <1>3
  DEF Reading, WatchReadsIssue, WatchReadsRegister, RegisterWait, NPipeInputRefused,
      NPipeInputStarts, InputUnregister, InputWait, ReadDataNow, ReadDataBlocks,
      ReadDataUnblocks, InputReturns
<1>4. CASE Writing
  <2>1. CASE OutputIssue
    BY <1>0, <2>1 DEF OutputIssue, Overtaken, Drained
  <2>2. CASE ~OutputIssue
    BY <1>4, <2>2
    DEF Writing, NPipeOutputRefused, NPipeOutputStarts, OutputCas, OutputRegister,
        RegisterWait, NPipeOutputBlocking
  <2> QED
    BY <2>1, <2>2
<1>5. CASE Setting
  BY <1>5
  DEF Setting, Unwatching, NPipeWatchProc, NPipeWatchReads, DisableWatch,
      NPipeThreadRemove, NPipeBlockProc
<1>6. CASE Closing
  BY <1>6
  DEF Closing, NPipeThreadInsert, NPipeClose, ShutdownUnregister, ShutdownWaitWriter,
      ShutdownEnds, ShutdownWaited
<1>7. CASE Eventing
  BY <1>7
  DEF Eventing, EventLoop, NPipeCheckProc, NPipeEventProc, EventWrite, EventNotify,
      WriteTaken, Sleep, OtherWakeup, NPipeStaleEvent
<1>8. CASE Kernel
  BY <1>8
  DEF Kernel, KernelConnects, KernelReads, KernelWrites, KernelCancels, Completes
<1>9. CASE Pool
  BY <1>9
  DEF Pool, PoolWait, PoolSample, PoolCas
<1>10. CASE Peer
  BY <1>10
  DEF Peer, PeerSends, PeerCloses
<1> QED
  BY NextCases, <1>1, <1>2, <1>3, <1>4, <1>5, <1>6, <1>7, <1>8, <1>9, <1>10

\* Overtaken is itself a lapse, so WriterIo is only needed without it.
LEMMA FreedInvStep ==
  ASSUME RefInv, WriteTypes, ReaderInv, Overtaken \/ WriterIo, FreedInv, [Next]_vars
  PROVE  FreedInv'
<1> USE DEF chanVars, ioVars, procVars, loopVars, envVars, osVars, inVars, outVars
<1>0. Control /\ ReaderIo
  BY DEF RefInv, ReaderInv
<1> USE <1>0 DEF WriteTypes, WriterIo, WriterQuiet, FreedInv, ReaderIo, Control,
      CallbackActive, One, ShutdownPCs, Dirs, READER, WRITER, Scripting, Pending, States,
      KernelHasOverlapped, Overtaken
<1>1. CASE UNCHANGED vars
  BY <1>1
  DEF vars
<1>2. CASE Creation
  BY <1>2
  DEF Creation, NPipeCreateFails, NPipeServer, NPipeClient, NPipeAcceptConnected,
      NPipeAcceptPending, NPipeAcceptMark, NPipeAcceptFails, NPipeServerFailed
<1>3. CASE Reading
  BY <1>3
  DEF Reading, WatchReadsIssue, WatchReadsRegister, RegisterWait, NPipeInputRefused,
      NPipeInputStarts, InputUnregister, InputWait, ReadDataNow, ReadDataBlocks,
      ReadDataUnblocks, InputReturns
<1>4. CASE Writing
  BY <1>4
  DEF Writing, NPipeOutputRefused, NPipeOutputStarts, OutputIssue, OutputCas,
      OutputRegister, RegisterWait, NPipeOutputBlocking
<1>5. CASE Setting
  BY <1>5
  DEF Setting, Unwatching, NPipeWatchProc, NPipeWatchReads, DisableWatch,
      NPipeThreadRemove, NPipeBlockProc
<1>6. CASE Closing
  BY <1>6
  DEF Closing, NPipeThreadInsert, NPipeClose, ShutdownUnregister, ShutdownWaitWriter,
      ShutdownEnds, ShutdownWaited
<1>7. CASE Eventing
  BY <1>7
  DEF Eventing, EventLoop, NPipeCheckProc, NPipeEventProc, EventWrite, EventNotify,
      WriteTaken, Sleep, OtherWakeup, NPipeStaleEvent
<1>8. CASE Kernel
  BY <1>8
  DEF Kernel, KernelConnects, KernelReads, KernelWrites, KernelCancels, Completes
<1>9. CASE Pool
  BY <1>9
  DEF Pool, PoolWait, PoolSample, PoolCas
<1>10. CASE Peer
  BY <1>10
  DEF Peer, PeerSends, PeerCloses
<1> QED
  BY NextCases, <1>1, <1>2, <1>3, <1>4, <1>5, <1>6, <1>7, <1>8, <1>9, <1>10

\* While the pipe is open and the peer reads, it has every write but the one that
\* is in flight, whose buffer is that of the last write.
OutInv ==
    /\ inflight[WRITER] = "write" => wbuf = wcount
    /\ inflight[WRITER] = "connect" => peer = "absent"
    /\ pc = "accept" \/ life = "none" => peer = "absent"
    /\ peer # "gone" /\ ~PipeClosed =>
          IF pc = "out_issue" \/ inflight[WRITER] = "write"
          THEN wcount > 0 /\ wbuf = wcount /\ peerGot = Bytes(1, wcount - 1)
          ELSE peerGot = Bytes(1, wcount)
    /\ Len(peerGot) <= wcount

WriteCounts == wcount \in Nat /\ wbuf \in Nat /\ peerGot \in Seq(Nat)

\* No write is handed over nor received
Untouched == UNCHANGED <<wcount, wbuf, peerGot>>

LEMMA OutUntouched ==
  ASSUME OutInv, Untouched, inflight'[WRITER] = "write" => inflight[WRITER] = "write",
         inflight'[WRITER] = "connect" => peer' = "absent",
         pc' = "accept" \/ life' = "none" => peer' = "absent",
         peer' # "gone" /\ ~PipeClosed' =>
            /\ peer # "gone" /\ ~PipeClosed
            /\ pc' = "out_issue" \/ inflight'[WRITER] = "write" <=>
               pc = "out_issue" \/ inflight[WRITER] = "write"
  PROVE  OutInv'
  BY DEF OutInv, Untouched

\* The next write reaches the peer.
LEMMA NextWriteArrives ==
  ASSUME WriteCounts, wcount > 0, wcount' = wcount, peerGot = Bytes(1, wcount - 1),
         peerGot' = Append(peerGot, wcount)
  PROVE  /\ peerGot' = Bytes(1, wcount) /\ Len(peerGot') = wcount
         /\ Output!Next
<1>1. wcount - 1 \in Nat /\ 1 \in Nat \ {0} /\ 1 <= (wcount - 1) + 1
      /\ (wcount - 1) + 1 = wcount /\ wcount \in Nat
  BY DEF WriteCounts
<1> DEFINE k == wcount - 1
<1>2. k \in Nat /\ 1 <= k + 1 /\ k + 1 = wcount
  BY <1>1
<1>3. peerGot = Bytes(1, k)
  OBVIOUS
<1> HIDE DEF k
<1>4. Append(Bytes(1, k), k + 1) = Bytes(1, k + 1)
  BY <1>1, <1>2, BytesAppend
<1>5. peerGot' = Bytes(1, wcount)
  BY <1>2, <1>3, <1>4
<1>6. Len(peerGot) = k /\ peerGot \in Seq(Nat) /\ Len(peerGot') = wcount
  BY <1>1, <1>2, <1>3, <1>5, BytesFromOne
<1>7. peerGot' = peerGot \o <<wcount>>
  BY <1>1, <1>6, AppendIsConcat
<1>8. Bytes(k + 1, k + 1) = <<wcount>>
  BY <1>2, BytesOne
<1>9. peerGot' = peerGot \o Output!Numbers(Len(peerGot) + 1, wcount)
  BY <1>2, <1>6, <1>7, <1>8 DEF Bytes, Output!Numbers
<1>10. wcount \in (Len(peerGot) + 1) .. wcount' /\ wcount' \in {wcount, wcount + 1}
  BY <1>1, <1>2, <1>6
<1> QED
  BY <1>5, <1>6, <1>9, <1>10 DEF Output!Next, Output!Consume

LEMMA OutputStartsStep ==
  ASSUME Control, WriteTypes, WriteCounts, WriterIo, OutInv, NPipeOutputStarts
  PROVE  OutInv' /\ [Output!Next]_<<wcount, peerGot>>
<1> USE DEF NPipeOutputStarts, chanVars, osVars
<1>1. /\ pc = "idle" /\ pc' = "out_issue" /\ life = "open" /\ life' = "open"
      /\ inflight[WRITER] = "none" /\ UNCHANGED <<inflight, peer, peerGot>>
      /\ wcount' = wcount + 1 /\ wbuf' = wcount + 1
  BY DEF Scripting, WriterIo, WriterQuiet, Pending
<1>2. wcount \in Nat /\ wcount' \in Nat /\ wcount' > 0 /\ wcount' - 1 = wcount
      /\ Len(peerGot) <= wcount' /\ wbuf' = wcount'
  BY <1>1 DEF WriteCounts, OutInv
<1>3. peer # "gone" => peerGot = Bytes(1, wcount' - 1)
  BY <1>1, <1>2 DEF OutInv, PipeClosed
<1>4. OutInv'
  BY <1>1, <1>2, <1>3 DEF OutInv, PipeClosed
<1>5. Output!Produce
  BY <1>1 DEF Output!Produce
<1> QED
  BY <1>4, <1>5 DEF Output!Next

LEMMA OutputIssueStep ==
  ASSUME Control, WriteTypes, WriteCounts, WriterIo, OutInv, OutputIssue
  PROVE  OutInv' /\ [Output!Next]_<<wcount, peerGot>>
<1> USE DEF OutputIssue, loopVars, inVars
<1>1. /\ pc = "out_issue" /\ life = "open" /\ inflight[WRITER] = "none"
      /\ UNCHANGED <<wcount, wbuf, peer, life>>
  BY DEF WriterIo, Control, ShutdownPCs
<1>2. CASE peer = "gone" /\ UNCHANGED <<inflight, peerGot>> /\ pc' = "idle"
  BY <1>1, <1>2 DEF OutInv
<1>3. CASE /\ peer = "connected" /\ inflight'[WRITER] = "write" /\ UNCHANGED peerGot
           /\ pc' = "out_register"
  BY <1>1, <1>3 DEF OutInv, PipeClosed
<1>4. CASE /\ peer = "connected" /\ peerGot' = Append(peerGot, wbuf)
           /\ UNCHANGED inflight /\ pc' = "out_cas"
  <2>1. wcount > 0 /\ wbuf = wcount /\ peerGot = Bytes(1, wcount - 1) /\ wcount \in Nat
    BY <1>1, <1>4 DEF OutInv, WriteCounts, PipeClosed
  <2>2. peerGot' = Bytes(1, wcount) /\ Len(peerGot') = wcount /\ Output!Next
    BY <1>1, <1>4, <2>1, NextWriteArrives
  <2> QED
    BY <1>1, <1>4, <2>1, <2>2 DEF OutInv, PipeClosed
<1> QED
  BY <1>1, <1>2, <1>3, <1>4 DEF WriteTypes, Dirs

LEMMA OutputBlockingStep ==
  ASSUME Control, WriteTypes, WriteCounts, WriterIo, OutInv, NPipeOutputBlocking
  PROVE  OutInv' /\ [Output!Next]_<<wcount, peerGot>>
<1> USE DEF NPipeOutputBlocking, osVars, procVars
<1>1. /\ pc = "idle" /\ pc' = "idle" /\ life = "open" /\ life' = "open"
      /\ inflight[WRITER] # "write" /\ UNCHANGED <<inflight, peer, wbuf>>
      /\ wcount' = wcount + 1 /\ wcount \in Nat /\ wcount' \in Nat
  BY DEF Scripting, WriteCounts
<1>2. CASE peer = "gone" /\ UNCHANGED peerGot
  <2>1. Len(peerGot) <= wcount'
    BY <1>1, <1>2 DEF OutInv, WriteCounts
  <2>2. Output!Produce
    BY <1>1, <1>2 DEF Output!Produce
  <2> QED
    BY <1>1, <1>2, <2>1, <2>2 DEF OutInv, Output!Next
<1>3. CASE peer = "connected" /\ peerGot' = Append(peerGot, wcount + 1)
  <2>1. peerGot = Bytes(1, wcount)
    BY <1>1, <1>3 DEF OutInv, PipeClosed
  <2>2. /\ peerGot' = Bytes(1, wcount + 1) /\ Len(peerGot') = wcount + 1
        /\ Len(peerGot) = wcount
    <3>1. 1 \in Nat \ {0} /\ 1 <= wcount + 1 /\ wcount + 1 \in Nat
      BY <1>1
    <3> QED
      BY <1>1, <1>3, <2>1, <3>1, BytesAppend, BytesFromOne
  <2>3. OutInv'
    BY <1>1, <1>3, <2>2 DEF OutInv, PipeClosed
  <2>4. peerGot' = peerGot \o <<wcount + 1>>
    BY <1>1, <1>3, AppendIsConcat DEF WriteCounts
  <2>5. peerGot' = peerGot \o Output!Numbers(Len(peerGot) + 1, wcount + 1)
    BY <1>1, <2>2, <2>4, BytesOne DEF Bytes, Output!Numbers
  <2>6. wcount + 1 \in (Len(peerGot) + 1) .. wcount'
    BY <1>1, <2>2
  <2> QED
    BY <1>1, <2>3, <2>5, <2>6 DEF Output!Next, Output!Consume
<1> QED
  BY <1>2, <1>3

LEMMA KernelWritesStep ==
  ASSUME Control, WriteTypes, WriteCounts, WriterIo, OutInv, KernelWrites
  PROVE  OutInv' /\ [Output!Next]_<<wcount, peerGot>>
<1> USE DEF KernelWrites, Completes, chanVars, procVars
<1>1. /\ inflight[WRITER] = "write" /\ inflight'[WRITER] = "none" /\ ~PipeClosed
      /\ UNCHANGED <<pc, life, peer, wcount, wbuf>> /\ pc \notin {"accept", "out_issue"}
      /\ life # "none"
  BY DEF WriteTypes, WriterIo, WriterQuiet, Dirs
<1>2. CASE peer = "gone" /\ UNCHANGED peerGot
  BY <1>1, <1>2 DEF OutInv
<1>3. CASE peer = "connected" /\ peerGot' = Append(peerGot, wbuf)
  <2>1. wcount > 0 /\ wbuf = wcount /\ peerGot = Bytes(1, wcount - 1) /\ wcount \in Nat
    BY <1>1, <1>3 DEF OutInv, WriteCounts
  <2>2. peerGot' = Bytes(1, wcount) /\ Len(peerGot') = wcount /\ Output!Next
    BY <1>1, <1>3, <2>1, NextWriteArrives
  <2> QED
    BY <1>1, <1>3, <2>1, <2>2 DEF OutInv, PipeClosed
<1> QED
  BY <1>2, <1>3

LEMMA OutInvStep ==
  ASSUME RefInv, WriteTypes, WriteCounts, WriterIo, OutInv, [Next]_vars
  PROVE  OutInv' /\ [Output!Next]_<<wcount, peerGot>>
<1> USE DEF chanVars, ioVars, procVars, loopVars, envVars, osVars, inVars, outVars
<1>0. Control
  BY DEF RefInv
<1>a. ASSUME Untouched PROVE [Output!Next]_<<wcount, peerGot>>
  BY <1>a DEF Untouched
<1>1. CASE UNCHANGED vars
  BY <1>1, <1>0, <1>a, OutUntouched
  DEF vars, Untouched, PipeClosed, OutInv
<1>2. CASE Creation
  <2>1. Untouched
    BY <1>2 DEF Creation, NPipeCreateFails, NPipeServer, NPipeClient, NPipeAcceptConnected,
        NPipeAcceptPending, NPipeAcceptMark, NPipeAcceptFails, NPipeServerFailed,
        Untouched
  <2>2. OutInv'
    BY <1>2, <1>0, <2>1, OutUntouched
    DEF Creation, NPipeCreateFails, NPipeServer, NPipeClient, NPipeAcceptConnected,
        NPipeAcceptPending, NPipeAcceptMark, NPipeAcceptFails, NPipeServerFailed,
        Untouched, OutInv, PipeClosed, WriteTypes, WriterIo, WriterQuiet, Control,
        ShutdownPCs, Dirs, READER, WRITER, Scripting
  <2> QED
    BY <2>1, <2>2, <1>a
<1>3. CASE Reading
  <2>1. Untouched
    BY <1>3 DEF Reading, WatchReadsIssue, WatchReadsRegister, RegisterWait, NPipeInputRefused,
        NPipeInputStarts, InputUnregister, InputWait, ReadDataNow, ReadDataBlocks,
        ReadDataUnblocks, InputReturns, Untouched
  <2>2. OutInv'
    BY <1>3, <1>0, <2>1, OutUntouched
    DEF Reading, WatchReadsIssue, WatchReadsRegister, RegisterWait, NPipeInputRefused,
        NPipeInputStarts, InputUnregister, InputWait, ReadDataNow, ReadDataBlocks,
        ReadDataUnblocks, InputReturns, Untouched, OutInv, PipeClosed, WriteTypes,
        WriterIo, WriterQuiet, Control, ShutdownPCs, Dirs, READER, WRITER, Scripting
  <2> QED
    BY <2>1, <2>2, <1>a
<1>4. CASE Writing
  <2>1. CASE NPipeOutputRefused \/ OutputCas \/ OutputRegister
    <3>1. Untouched
      BY <2>1 DEF NPipeOutputRefused, OutputCas, OutputRegister, RegisterWait, Untouched
    <3>2. OutInv'
      BY <2>1, <3>1, <1>0, OutUntouched
      DEF NPipeOutputRefused, OutputCas, OutputRegister, RegisterWait, OutInv,
          WriterIo, PipeClosed, Control, ShutdownPCs, Scripting
    <3> QED
      BY <3>1, <3>2, <1>a
  <2>2. CASE NPipeOutputStarts
    BY <1>0, <2>2, OutputStartsStep
  <2>3. CASE OutputIssue
    BY <1>0, <2>3, OutputIssueStep
  <2>4. CASE NPipeOutputBlocking
    BY <1>0, <2>4, OutputBlockingStep
  <2> QED
    BY <1>4, <2>1, <2>2, <2>3, <2>4 DEF Writing
<1>5. CASE Setting
  <2>1. Untouched
    BY <1>5 DEF Setting, Unwatching, NPipeWatchProc, NPipeWatchReads, DisableWatch,
        NPipeThreadRemove, NPipeBlockProc, Untouched
  <2>2. OutInv'
    BY <1>5, <1>0, <2>1, OutUntouched
    DEF Setting, Unwatching, NPipeWatchProc, NPipeWatchReads, DisableWatch,
        NPipeThreadRemove, NPipeBlockProc, Untouched, OutInv, PipeClosed, WriteTypes,
        WriterIo, WriterQuiet, Control, ShutdownPCs, Dirs, READER, WRITER, Scripting
  <2> QED
    BY <2>1, <2>2, <1>a
<1>6. CASE Closing
  <2>1. Untouched
    BY <1>6 DEF Closing, NPipeThreadInsert, NPipeClose, ShutdownUnregister,
        ShutdownWaitWriter, ShutdownEnds, ShutdownWaited, Untouched
  <2>2. CASE ShutdownEnds
    <3>1. pc = "sd_wait_r" /\ ~hwait[READER] /\ ~hwait[WRITER] /\ nrefs = unrefs + PoolRefs
      BY <2>2 DEF ShutdownEnds, RefInv, Control, RefCountExact, ShutdownPCs
    <3>2. nrefs <= unrefs
      BY <3>1 DEF PoolRefs, One, RefInv, RefTypes
    <3>3. PipeClosed' /\ pc' # "accept" /\ UNCHANGED <<inflight, peer>> /\ life' = "freed"
      BY <2>2, <3>2 DEF ShutdownEnds, PipeClosed
    <3> QED
      BY <2>1, <3>3, <1>a, OutUntouched DEF OutInv
  <2>3. CASE \/ \E t \in Threads : NPipeThreadInsert(t)
             \/ \E d \in Dirs : ShutdownUnregister(d)
             \/ NPipeClose \/ ShutdownWaitWriter
    <3>1. OutInv'
      BY <2>1, <2>3, <1>0, OutUntouched
      DEF NPipeThreadInsert, NPipeClose, ShutdownUnregister, ShutdownWaitWriter,
          OutInv, PipeClosed, Control, ShutdownPCs, Dirs, READER, WRITER, Scripting
    <3> QED
      BY <2>1, <3>1, <1>a
  <2> QED
    BY <1>6, <2>2, <2>3 DEF Closing
<1>7. CASE Eventing
  <2>1. Untouched
    BY <1>7 DEF Eventing, EventLoop, NPipeCheckProc, NPipeEventProc, EventWrite, EventNotify,
        WriteTaken, Sleep, OtherWakeup, NPipeStaleEvent, Untouched
  <2>2. OutInv'
    BY <1>7, <1>0, <2>1, OutUntouched
    DEF Eventing, EventLoop, NPipeCheckProc, NPipeEventProc, EventWrite, EventNotify,
        WriteTaken, Sleep, OtherWakeup, NPipeStaleEvent, Untouched, OutInv, PipeClosed,
        WriteTypes, WriterIo, WriterQuiet, Control, ShutdownPCs, Dirs, READER, WRITER,
        Scripting
  <2> QED
    BY <2>1, <2>2, <1>a
<1>8. CASE Kernel
  <2>1. CASE KernelWrites
    BY <1>0, <2>1, KernelWritesStep
  <2>2. CASE KernelConnects \/ KernelReads \/ \E d \in Dirs : KernelCancels(d)
    <3>1. Untouched
      BY <2>2 DEF KernelConnects, KernelReads, KernelCancels, Untouched
    <3>2. OutInv'
      BY <2>2, <3>1, <1>0, OutUntouched
      DEF KernelConnects, KernelReads, KernelCancels, Completes, OutInv, WriteTypes,
          WriterIo, WriterQuiet,
          PipeClosed, Control, ShutdownPCs, Dirs, READER, WRITER
    <3> QED
      BY <3>1, <3>2, <1>a
  <2> QED
    BY <1>8, <2>1, <2>2 DEF Kernel
<1>9. CASE Pool
  <2>1. Untouched
    BY <1>9 DEF Pool, PoolWait, PoolSample, PoolCas, Untouched
  <2>2. OutInv'
    BY <1>9, <1>0, <2>1, OutUntouched
    DEF Pool, PoolWait, PoolSample, PoolCas, Untouched, OutInv, PipeClosed, WriteTypes,
        WriterIo, WriterQuiet, Control, ShutdownPCs, Dirs, READER, WRITER, Scripting
  <2> QED
    BY <2>1, <2>2, <1>a
<1>10. CASE Peer
  <2>1. Untouched
    BY <1>10 DEF Peer, PeerSends, PeerCloses, Untouched
  <2>2. OutInv'
    BY <1>10, <1>0, <2>1, OutUntouched
    DEF Peer, PeerSends, PeerCloses, Untouched, OutInv, PipeClosed, WriteTypes,
        WriterIo, WriterQuiet, Control, ShutdownPCs, Dirs, READER, WRITER, Scripting
  <2> QED
    BY <2>1, <2>2, <1>a
<1> QED
  BY NextCases, <1>1, <1>2, <1>3, <1>4, <1>5, <1>6, <1>7, <1>8, <1>9, <1>10

WriterInv == WriterIo /\ OutInv

LEMMA NPInvTypes == NPInv => RefInv /\ WriteTypes /\ WriteCounts /\ ReaderInv
  BY DEF NPInv, TypeInv, TypeOK, WriteTypes, WriteCounts

LEMMA WriterInvInit == Init => WriterInv
<1> SUFFICES ASSUME Init PROVE WriterInv
  OBVIOUS
<1>1. WriterIo
  BY DEF Init, WriterIo, WriterQuiet, CallbackActive, One, Dirs, WRITER
<1>2. peerGot = Bytes(1, 0) /\ Len(peerGot) = 0 /\ wcount = 0
  BY BytesNone DEF Init
<1>3. OutInv
  BY <1>2 DEF Init, OutInv, Dirs, WRITER
<1> QED
  BY <1>1, <1>3 DEF WriterInv

LEMMA WriterInvStep ==
  ASSUME NPInv, WriterInv, [Next]_vars, ~Overtaken'
  PROVE  WriterInv' /\ [Output!Next]_<<wcount, peerGot>>
  BY NPInvTypes, WriterIoStep, OutInvStep DEF WriterInv

\* What holds of the write side in every state
WriterInvUntil == Overtaken \/ WriterInv

LEMMA WriterInvUntilStep ==
  ASSUME NPInv, WriterInvUntil, [Next]_vars
  PROVE  /\ WriterInvUntil'
         /\ ~Overtaken' => WriterInv /\ [Output!Next]_<<wcount, peerGot>>
<1>1. Overtaken => Overtaken'
  BY LapsesStep DEF LapsesKept, Overtaken
<1> QED
  BY <1>1, WriterInvStep DEF WriterInvUntil

LEMMA WriterInvAlways == Spec => []WriterInvUntil
<1>1. Init => WriterInvUntil
  BY WriterInvInit DEF WriterInvUntil
<1>2. NPInv /\ WriterInvUntil /\ [Next]_vars => WriterInvUntil'
  BY WriterInvUntilStep
<1> QED
  BY <1>1, <1>2, NPInvAlways, PTL DEF Spec

\* Whatever mode the channel is in for each write, and whether WriteFile completes
\* it at once or later, the peer receives the writes once each and in order, until
\* a write overtakes the callback of an earlier one.
THEOREM OutputIsByteStream == Spec => OutputUntilOvertaken
<1>1. Init => Output!Init
  BY DEF Init, Output!Init
<1>2. NPInv /\ WriterInvUntil /\ [Next]_vars
         => [Overtaken' \/ Output!Next]_<<wcount, peerGot>>
  BY WriterInvUntilStep
<1> QED
  BY <1>1, <1>2, NPInvAlways, WriterInvAlways, PTL DEF Spec, OutputUntilOvertaken

\* The channel implements ByteStream in the direction of the script always, in that
\* of the peer until a write overtakes a callback.
THEOREM BothAreByteStreams == Spec => ByteStreams
  BY InputIsByteStream, OutputIsByteStream, PTL DEF ByteStreams

\* A freed NPipeChannel has no read that the kernel may still end unless
\* NPipeShutdown gave up waiting for it, and no write or connect unless it gave up
\* waiting, the pool had refused to wait for the connect, or a write had overtaken
\* a callback: there is no other way for I/O to outlive the structure.
THEOREM FreedOwnsNoIo == Spec => []KernelHasOverlapped
<1>1. Init => FreedInv
  BY DEF Init, FreedInv, KernelHasOverlapped, Dirs, WRITER
<1>2. NPInv /\ WriterInvUntil /\ FreedInv /\ [Next]_vars => FreedInv'
  BY NPInvTypes, FreedInvStep DEF WriterInvUntil, WriterInv
<1>3. FreedInv => KernelHasOverlapped
  BY DEF FreedInv
<1> QED
  BY <1>1, <1>2, <1>3, NPInvAlways, WriterInvAlways, PTL DEF Spec

\* The read-ahead has one completion at a time, a signal, a queued callback or a
\* running one: none is counted twice, however reads, watches and closes overlap.
THEOREM OneCompletionPerRead == Spec => []OneReadCompletion
<1>1. NPInv => OneReadCompletion
  BY DEF NPInv, TypeInv, TypeOK, ReaderInv, ReaderIo, OneReadCompletion, CallbackActive,
         One, Dirs, READER
<1> QED
  BY <1>1, NPInvAlways, PTL

\* The OVERLAPPED says pending only while the kernel has it or a blocking read
\* waits for it.
PendingIsInFlight ==
    \A d \in Dirs : internal[d] = "pending" =>
        inflight[d] # "none" \/ (d = READER /\ pc = "in_block")

LEMMA PendingIsInFlightStep ==
  ASSUME NPInv, PendingIsInFlight, [Next]_vars
  PROVE  PendingIsInFlight'
<1> USE DEF chanVars, ioVars, procVars, loopVars, envVars, osVars, inVars, outVars
<1>0. /\ internal \in [Dirs -> Internals] /\ Control
      /\ inflight \in [Dirs -> {"none", "connect", "read", "write"}]
  BY DEF NPInv, TypeInv, TypeOK, RefInv
<1> USE <1>0 DEF PendingIsInFlight, Control, Dirs, READER, WRITER, Scripting
<1>1. CASE UNCHANGED vars
  BY <1>1
  DEF vars
<1>2. CASE Creation
  <2>1. CASE NPipeCreateFails \/ \E t \in Threads : NPipeServer(t) \/ NPipeClient(t)
    BY <2>1
    DEF NPipeCreateFails, NPipeServer, NPipeClient
  <2>2. CASE NPipeAcceptConnected \/ NPipeAcceptMark \/ NPipeServerFailed
    BY <2>2
    DEF NPipeAcceptConnected, NPipeAcceptMark, NPipeServerFailed
  <2>3. CASE NPipeAcceptPending
    BY <2>3
    DEF NPipeAcceptPending
  <2>4. CASE NPipeAcceptFails
    BY <2>4
    DEF NPipeAcceptFails
  <2> QED
    BY <1>2, <2>1, <2>2, <2>3, <2>4 DEF Creation
<1>3. CASE Reading
  <2>1. CASE WatchReadsIssue
    BY <2>1
    DEF WatchReadsIssue, RegisterWait, InputReturns
  <2>2. CASE WatchReadsRegister
    BY <2>2
    DEF WatchReadsRegister, RegisterWait, InputReturns
  <2>3. CASE NPipeInputRefused \/ NPipeInputStarts
    BY <2>3
    DEF RegisterWait, NPipeInputRefused, NPipeInputStarts, InputReturns
  <2>4. CASE InputUnregister \/ InputWait
    BY <2>4
    DEF RegisterWait, InputUnregister, InputWait, InputReturns
  <2>5. CASE \E n \in 1 .. BufSz : ReadDataNow(n)
    BY <2>5
    DEF RegisterWait, ReadDataNow, InputReturns
  <2>6. CASE \E n \in 1 .. BufSz : ReadDataBlocks(n)
    BY <2>6
    DEF RegisterWait, ReadDataBlocks, InputReturns
  <2>7. CASE ReadDataUnblocks
    BY <2>7
    DEF RegisterWait, ReadDataUnblocks, InputReturns
  <2> QED
    BY <1>3, <2>1, <2>2, <2>3, <2>4, <2>5, <2>6, <2>7 DEF Reading
<1>4. CASE Writing
  <2>1. CASE NPipeOutputRefused \/ NPipeOutputStarts
    BY <2>1
    DEF NPipeOutputRefused, NPipeOutputStarts, RegisterWait
  <2>2. CASE OutputIssue
    BY <2>2
    DEF OutputIssue, RegisterWait
  <2>3. CASE OutputCas \/ OutputRegister
    BY <2>3
    DEF OutputCas, OutputRegister, RegisterWait
  <2>4. CASE NPipeOutputBlocking
    BY <2>4
    DEF RegisterWait, NPipeOutputBlocking
  <2> QED
    BY <1>4, <2>1, <2>2, <2>3, <2>4 DEF Writing
<1>5. CASE Setting
  BY <1>5
  DEF Setting, Unwatching, NPipeWatchProc, NPipeWatchReads, DisableWatch,
      NPipeThreadRemove, NPipeBlockProc
<1>6. CASE Closing
  BY <1>6
  DEF Closing, NPipeThreadInsert, NPipeClose, ShutdownUnregister, ShutdownWaitWriter,
      ShutdownEnds, ShutdownWaited
<1>7. CASE Eventing
  BY <1>7
  DEF Eventing, EventLoop, NPipeCheckProc, NPipeEventProc, EventWrite, EventNotify,
      WriteTaken, Sleep, OtherWakeup, NPipeStaleEvent
<1>8. CASE Kernel
  BY <1>8
  DEF Kernel, KernelConnects, KernelReads, KernelWrites, KernelCancels, Completes
<1>9. CASE Pool
  BY <1>9
  DEF Pool, PoolWait, PoolSample, PoolCas
<1>10. CASE Peer
  BY <1>10
  DEF Peer, PeerSends, PeerCloses
<1> QED
  BY NextCases, <1>1, <1>2, <1>3, <1>4, <1>5, <1>6, <1>7, <1>8, <1>9, <1>10

\* The assertion of NPipeThreadPoolHandler, HasOverlappedIoCompleted, holds each
\* time a callback for reads runs, and each time one for writes does until a write
\* overtakes the callback of an earlier one.
THEOREM CallbackAlwaysFindsIoCompleted == Spec => []CallbackFindsIoCompleted
<1>1. Init => PendingIsInFlight
  BY DEF Init, PendingIsInFlight, Dirs
<1>3. NPInv /\ PendingIsInFlight /\ [Next]_vars => PendingIsInFlight'
  BY PendingIsInFlightStep
<1>4. NPInv /\ WriterInvUntil /\ PendingIsInFlight => CallbackFindsIoCompleted
  BY DEF NPInv, ReaderInv, ReaderIo, ReaderAt, WriterInvUntil, WriterInv, WriterIo,
         PendingIsInFlight, CallbackActive, CallbackFindsIoCompleted, Dirs, READER, WRITER
<1> QED
  BY <1>1, <1>3, <1>4, NPInvAlways, WriterInvAlways, PTL DEF Spec

\* While the kernel has a write it keeps its buffer: no later write stores its
\* data in write_buf, until a write overtakes the callback of another.
THEOREM WriteBufferIsKept == Spec => WriteBufferKept
<1> DEFINE Kept == inflight[WRITER] = "write" /\ inflight'[WRITER] = "write"
                      /\ ~Overtaken' => wbuf' = wbuf
<1>1. ASSUME NPInv, WriterInvUntil, [Next]_vars, ~Overtaken' PROVE Kept
  <2>0. WriterInv
    BY <1>1, WriterInvUntilStep
  <2> USE DEF chanVars, ioVars, procVars, loopVars, envVars, osVars, inVars, outVars
  <2>1. CASE Writing
    <3>1. CASE NPipeOutputStarts
      <4>1. life = "open" /\ state[WRITER] # "PENDING"
        BY <3>1 DEF NPipeOutputStarts, Scripting, Pending
      <4>2. inflight[WRITER] = "none"
        BY <2>0, <4>1 DEF WriterInv, WriterIo
      <4> QED
        BY <4>2
    <3>2. CASE ~NPipeOutputStarts
      BY <2>1, <3>2
      DEF Writing, NPipeOutputRefused, OutputIssue, OutputCas, OutputRegister,
          RegisterWait, NPipeOutputBlocking
    <3> QED
      BY <3>1, <3>2
  <2>2. CASE ~Writing
    <3>1. UNCHANGED wbuf
      BY <1>1, <2>2, NextCases
      DEF vars, Creation, NPipeCreateFails, NPipeServer, NPipeClient,
          NPipeAcceptConnected, NPipeAcceptPending, NPipeAcceptMark, NPipeAcceptFails,
          NPipeServerFailed, Reading, WatchReadsIssue, WatchReadsRegister, RegisterWait,
          NPipeInputRefused, NPipeInputStarts, InputUnregister, InputWait, ReadDataNow,
          ReadDataBlocks, ReadDataUnblocks, InputReturns, Setting, Unwatching,
          NPipeWatchProc, NPipeWatchReads, DisableWatch, NPipeThreadRemove,
          NPipeBlockProc, Closing, NPipeThreadInsert, NPipeClose, ShutdownUnregister,
          ShutdownWaitWriter, ShutdownEnds, ShutdownWaited, Eventing, EventLoop,
          NPipeCheckProc, NPipeEventProc, EventWrite, EventNotify, WriteTaken, Sleep,
          OtherWakeup, NPipeStaleEvent, Kernel, KernelConnects, KernelReads,
          KernelWrites, KernelCancels, Completes, Pool, PoolWait, PoolSample, PoolCas,
          Peer, PeerSends, PeerCloses
    <3> QED
      BY <3>1
  <2> QED
    BY <2>1, <2>2
<1>2. NPInv /\ WriterInvUntil /\ [Next]_vars => [Kept]_vars
  BY <1>1
<1> QED
  BY <1>2, NPInvAlways, WriterInvAlways, PTL DEF Spec, WriteBufferKept
=============================================================================
