------------------------------ MODULE NamedPipe ------------------------------
(***************************************************************************)
(* One TWAPI named pipe channel (namedpipe/namedpipe.c), from the command  *)
(* that creates it to the free of its NPipeChannel.  Five parties touch it:*)
(*                                                                         *)
(*   - the Tcl thread that owns the channel, which runs the channel driver *)
(*     procedures (a script calling read, puts, fileevent, close) and the  *)
(*     event source of the module (setup, check and event procedures);     *)
(*   - the kernel, which completes overlapped I/O and signals its event;   *)
(*   - the thread pool: a wait thread that consumes a signalled event and  *)
(*     queues a callback, and workers that run the callbacks;              *)
(*   - the peer at the other end of the pipe;                              *)
(*   - another Tcl thread, when a script transfers the channel to it.      *)
(*                                                                         *)
(* Only io[].state is shared with the pool, so a driver procedure is cut   *)
(* into several actions exactly where the pool or the kernel may step in   *)
(* between two of its accesses; pc says where it stands.                   *)
(***************************************************************************)
EXTENDS Integers, Sequences

CONSTANTS
    Threads,        \* Tcl threads
    Roles,          \* commands scripts use: subset of {"server", "client"}
    ConnectResults, \* outcomes of NPipeAccept: subset of AcceptKinds
    WriteResults,   \* what an overlapped WriteFile may do: {"done", "pending"}
    Masks,          \* masks the channel layer passes to NPipeWatchProc
    Modes,          \* modes it passes to NPipeBlockProc
    Faults,         \* failures considered: subset of FaultKinds
    MaxBytes,       \* bound: bytes the peer sends
    MaxWrites,      \* bound: writes that reach WriteFile
    BufSz,          \* bound: largest read the channel layer asks for
    MaxCallbacks    \* bound: callbacks of one wait that are queued at a time

READER == "R"
WRITER == "W"
Dirs == {READER, WRITER}

\* A client was waiting; ConnectNamedPipe pends and the pool waits for it; it
\* fails; it pends and the pool refuses the wait.
AcceptKinds == {"connected", "pending", "error", "unwaited"}

\* "create": an event of the channel cannot be created; "register": the pool
\* refuses a wait; "gone": the peer closes its end; "slow": cancelled I/O
\* takes the kernel more than the 1000 ms for which NPipeShutdown waits.
FaultKinds == {"create", "register", "gone", "slow"}

\* What the driver procedures assume never happens.  "overtaken": a write pends
\* while the pool has a callback of an earlier one to run, or has just run it;
\* "unwaited": a connect pends on a channel that is given up because the pool
\* refused its wait; "slow": NPipeShutdown stops waiting for I/O in flight.
LapseKinds == {"overtaken", "unwaited", "slow"}

NoThread == "NoThread"
Flags == {"WATCHREAD", "WATCHWRITE", "NONBLOCKING", "CONNECTED",
          "EVENT_QUEUED", "EOF_NOTIFIED"}
States == {"IDLE", "PENDING", "COMPLETED", "ERROR"}
WinErrs == {"SUCCESS", "EOF", "OTHER"}
Internals == {"ok", "pending", "eof", "other"}

ASSUME ConstantsAssumption ==
    /\ NoThread \notin Threads
    /\ Roles \subseteq {"server", "client"}
    /\ ConnectResults \subseteq AcceptKinds
    /\ WriteResults \subseteq {"done", "pending"}
    /\ Masks \subseteq SUBSET Dirs
    /\ Modes \subseteq {"blocking", "nonblocking"}
    /\ Faults \subseteq FaultKinds
    /\ MaxBytes \in Nat /\ MaxWrites \in Nat /\ BufSz \in Nat \ {0}
    /\ MaxCallbacks \in Nat \ {0}

VARIABLES
    \* the NPipeChannel
    life,      \* "none", "creating", "open", "leaked" or "freed"
    thread,    \* pcP->thread
    nrefs,     \* pcP->nrefs
    flags,     \* pcP->flags
    winerr,    \* pcP->winerr
    state,     \* io[d].state
    internal,  \* io[d].ovl.Internal
    hwait,     \* io[d].hwait # INVALID_HANDLE_VALUE
    ahead,     \* io[READER].data.read_ahead, as the number of a byte
    wbuf,      \* io[WRITER].data.write_buf, as the number of a write
    \* the procedure the owning thread is in
    pc,        \* "idle": in a script or in the event loop
    unrefs,    \* local unrefs of NPipeShutdown
    emask,     \* local event_mask of NPipeEventProc
    held,      \* bytes put in the caller's buffer by a read not yet returned
    \* the notifier
    events,    \* number of NPipeEvents on the queue of each thread
    asleep,    \* threads blocked in Tcl_WaitForEvent
    told,      \* directions notified since the script last used them
    \* kernel and thread pool
    inflight,  \* overlapped operation of io[d] the kernel still owns
    signaled,  \* io[d].hevent
    queued,    \* callbacks queued by the wait on io[d].hevent
    sampled,   \* the state a running callback has derived from ovl.Internal
    \* the peer
    peer,      \* "absent", "connected" or "gone"
    sent,      \* bytes 1..sent have been sent by the peer
    taken,     \* bytes 1..taken have left the pipe
    got,       \* bytes the channel layer has received
    wcount,    \* writes handed to WriteFile so far
    peerGot,   \* writes the peer has received
    \* history
    lapses     \* the LapseKinds that have happened

chanVars == <<life, thread, nrefs, flags, winerr>>
ioVars   == <<state, internal, hwait>>
procVars == <<pc, unrefs, emask, held>>
loopVars == <<events, asleep, told>>
osVars   == <<inflight, signaled, queued, sampled>>
inVars   == <<sent, taken, ahead, got>>
outVars  == <<wcount, wbuf, peerGot, lapses>>
envVars  == <<osVars, peer, inVars, outVars>>
vars == <<chanVars, ioVars, procVars, loopVars, envVars>>

-----------------------------------------------------------------------------
(* Conditions of the source.  A definition whose name starts with Bug is a  *)
(* mutation of the one after it, for checking that the properties notice;   *)
(* no action uses one.                                                      *)

CONNECTED == "CONNECTED" \in flags
NONBLOCKING == "NONBLOCKING" \in flags

NPIPE_EOF_NOTIFIABLE == winerr = "EOF" /\ "EOF_NOTIFIED" \notin flags

\* NPIPE_READ_NOTIFIABLE and NPIPE_WRITE_NOTIFIABLE
DirNotifiable(d) == \/ state[d] \in {"COMPLETED", "ERROR"}
                    \/ winerr # "SUCCESS" /\ ~CONNECTED

BugPending(d) == FALSE
\* NPIPE_READ_PENDING and NPIPE_WRITE_PENDING
Pending(d) == state[d] = "PENDING"

NPIPE_NOTIFIABLE == NPIPE_EOF_NOTIFIABLE \/ \E d \in Dirs : DirNotifiable(d)

\* The WIN32_ERROR that SET_NPIPE_ERROR makes of ovl.Internal
ErrOf(i) == CASE i = "ok" -> "SUCCESS" [] i = "eof" -> "EOF" [] OTHER -> "OTHER"

\* SET_NPIPE_ERROR for each direction in D, in the order READER, WRITER
CopiedError(D) ==
    LET fromReader == IF winerr = "SUCCESS" /\ READER \in D
                      THEN ErrOf(internal[READER]) ELSE winerr
    IN  IF fromReader = "SUCCESS" /\ WRITER \in D
        THEN ErrOf(internal[WRITER]) ELSE fromReader

Errored(D) == {d \in D : state[d] = "ERROR"}

\* The test of NPipeCheckProc
EventWanted == NPIPE_NOTIFIABLE /\ "EVENT_QUEUED" \notin flags

BugConnectDone == FALSE
\* The test of NPipeEventProc for the end of a connect
ConnectDone == DirNotifiable(WRITER) /\ ~CONNECTED

BugWriteTaken == state
\* The interlocked reset at the end of NPipeEventProc
WriteTaken == [state EXCEPT ![WRITER] = IF @ = "COMPLETED" THEN "IDLE" ELSE @]

BugAlerted == asleep
\* Tcl_ThreadAlert(pcP->thread)
Alerted == asleep \ {thread}

BugDrained(d) == TRUE
\* UnregisterWaitEx with INVALID_HANDLE_VALUE returns only once every callback
\* of the wait has run: a step that calls it waits for this.
Drained(d) == queued[d] = 0 /\ sampled[d] = "none"

One(b) == IF b THEN 1 ELSE 0

BugNoPoolRef(d) == 0
\* The reference to drop with the wait on io[d], if there is one
PoolRef(d) == One(hwait[d])

\* CloseHandle(pcP->hpipe) has been called
PipeClosed == pc \in {"sd_wait_w", "sd_wait_r"} \/ life = "freed"

\* The owning thread is running script code, so a driver procedure may start
Scripting == pc = "idle" /\ life = "open" /\ thread \notin asleep

PipeEmpty == taken = sent
Bytes(from, to) == [i \in 1 .. (to - from + 1) |-> from + i - 1]
-----------------------------------------------------------------------------
Init ==
    /\ life = "none" /\ thread = NoThread /\ nrefs = 0
    /\ flags = {} /\ winerr = "SUCCESS"
    /\ state = [d \in Dirs |-> "IDLE"]
    /\ internal = [d \in Dirs |-> "ok"]
    /\ hwait = [d \in Dirs |-> FALSE]
    /\ ahead = 0 /\ wbuf = 0
    /\ pc = "idle" /\ unrefs = 0 /\ emask = {} /\ held = <<>>
    /\ events = [t \in Threads |-> 0] /\ asleep = {} /\ told = {}
    /\ inflight = [d \in Dirs |-> "none"]
    /\ signaled = [d \in Dirs |-> FALSE]
    /\ queued = [d \in Dirs |-> 0]
    /\ sampled = [d \in Dirs |-> "none"]
    /\ peer = "absent" /\ sent = 0 /\ taken = 0 /\ got = <<>>
    /\ wcount = 0 /\ peerGot = <<>>
    /\ lapses = {}
-----------------------------------------------------------------------------
(* Creation. *)

\* An event cannot be created: NPipeShutdown(..., 0) on a structure with no
\* references frees its handles but nothing frees the structure.
NPipeCreateFails ==
    /\ life = "none" /\ "create" \in Faults
    /\ life' = "leaked"
    /\ UNCHANGED <<thread, nrefs, flags, winerr, ioVars, procVars, loopVars,
                   envVars>>

\* Tcl_CreateChannel takes a reference, and the NPipeThreadActionProc call it
\* makes another as it links pcP on the thread's list.
NPipeServer(t) ==
    /\ life = "none" /\ "server" \in Roles
    /\ life' = "creating" /\ thread' = t /\ nrefs' = 2
    /\ pc' = "accept"
    /\ UNCHANGED <<flags, winerr, ioVars, unrefs, emask, held, loopVars, envVars>>

NPipeClient(t) ==
    /\ life = "none" /\ "client" \in Roles
    /\ life' = "open" /\ thread' = t /\ nrefs' = 2
    /\ flags' = {"CONNECTED"} /\ peer' = "connected"
    /\ UNCHANGED <<winerr, ioVars, procVars, loopVars, osVars, inVars, outVars>>

\* NPipeAccept, a client was already waiting
NPipeAcceptConnected ==
    /\ pc = "accept" /\ "connected" \in ConnectResults
    /\ peer' = "connected"
    /\ flags' = flags \union {"CONNECTED"}
    /\ life' = "open" /\ pc' = "idle"
    /\ UNCHANGED <<thread, nrefs, winerr, ioVars, unrefs, emask, held, loopVars,
                   osVars, inVars, outVars>>

\* NPipeAccept, ConnectNamedPipe pends and the pool starts to wait for it
NPipeAcceptPending ==
    /\ pc = "accept" /\ "pending" \in ConnectResults
    /\ inflight' = [inflight EXCEPT ![WRITER] = "connect"]
    /\ internal' = [internal EXCEPT ![WRITER] = "pending"]
    /\ nrefs' = nrefs + 1
    /\ hwait' = [hwait EXCEPT ![WRITER] = TRUE]
    /\ pc' = "accept_mark"
    /\ UNCHANGED <<life, thread, flags, winerr, state, unrefs, emask, held,
                   loopVars, signaled, queued, sampled, peer, inVars, outVars>>

\* ... and only then is the state set for which the pool callback looks
NPipeAcceptMark ==
    /\ pc = "accept_mark"
    /\ state' = [state EXCEPT ![WRITER] = "PENDING"]
    /\ life' = "open" /\ pc' = "idle"
    /\ UNCHANGED <<thread, nrefs, flags, winerr, internal, hwait, unrefs, emask,
                   held, loopVars, envVars>>

\* NPipeAccept fails.  Tcl_UnregisterChannel takes pcP off the thread's list
\* and calls NPipeCloseProc, hence NPipeShutdown(..., 1).
NPipeAcceptFails ==
    /\ pc = "accept"
    /\ \/ /\ "error" \in ConnectResults
          /\ UNCHANGED <<inflight, internal, lapses>>
       \/ /\ "unwaited" \in ConnectResults
          /\ inflight' = [inflight EXCEPT ![WRITER] = "connect"]
          /\ internal' = [internal EXCEPT ![WRITER] = "pending"]
          /\ lapses' = lapses \union {"unwaited"}
    /\ thread' = NoThread /\ nrefs' = nrefs - 1
    /\ unrefs' = 1 /\ pc' = "sd_unreg_r"
    /\ UNCHANGED <<life, flags, winerr, state, hwait, emask, held, loopVars,
                   signaled, queued, sampled, peer, inVars, wcount, wbuf, peerGot>>

\* The tail of Twapi_NPipeServerObjCmd: pcP->channel, pcP->winerr and the
\* handles are used again after Tcl_UnregisterChannel has returned.
NPipeServerFailed ==
    /\ pc = "create_failed"
    /\ pc' = "done"
    /\ UNCHANGED <<chanVars, ioVars, unrefs, emask, held, loopVars, envVars>>
-----------------------------------------------------------------------------
(* Reading. *)

BugReadAheadInUse == state[READER] = "ERROR"
\* "we cannot use the input buffer"
ReadAheadInUse == state[READER] \in {"COMPLETED", "ERROR"}

\* The start of NPipeWatchReads
NPipeWatchReads ==
    \/ /\ winerr # "SUCCESS" \/ ReadAheadInUse
       /\ pc' = "idle" /\ UNCHANGED <<state, internal>>
    \/ /\ winerr = "SUCCESS" /\ ~ReadAheadInUse /\ Pending(READER)
       /\ pc' = "wr_register" /\ UNCHANGED <<state, internal>>
    \/ /\ winerr = "SUCCESS" /\ ~ReadAheadInUse /\ ~Pending(READER)
       /\ state' = [state EXCEPT ![READER] = "PENDING"]
       /\ internal' = [internal EXCEPT ![READER] = "ok"]
       /\ pc' = "wr_issue"

\* The overlapped one-byte ReadFile of NPipeWatchReads
WatchReadsIssue ==
    /\ pc = "wr_issue"
    /\ \/ /\ ~PipeEmpty                       \* completes at once
          /\ taken' = taken + 1 /\ ahead' = taken + 1
          /\ signaled' = [signaled EXCEPT ![READER] = TRUE]
          /\ pc' = "wr_register"
          /\ UNCHANGED <<state, internal, inflight, winerr>>
       \/ /\ PipeEmpty /\ peer = "connected"  \* ERROR_IO_PENDING
          /\ inflight' = [inflight EXCEPT ![READER] = "read"]
          /\ internal' = [internal EXCEPT ![READER] = "pending"]
          /\ signaled' = [signaled EXCEPT ![READER] = FALSE]
          /\ pc' = "wr_register"
          /\ UNCHANGED <<state, taken, ahead, winerr>>
       \/ /\ PipeEmpty /\ peer = "gone"       \* ERROR_BROKEN_PIPE
          /\ state' = [state EXCEPT ![READER] = "IDLE"]
          /\ winerr' = "EOF"
          /\ pc' = "idle"
          /\ UNCHANGED <<internal, inflight, signaled, taken, ahead>>
    /\ UNCHANGED <<life, thread, nrefs, flags, hwait, unrefs, emask, held,
                   loopVars, queued, sampled, peer, sent, got, outVars>>

\* The end of NPipeWatchReads (READER) and of the pending case of
\* NPipeOutputProc (WRITER): have the pool wait if it does not already.
RegisterWait(d) ==
    /\ \/ hwait[d] /\ UNCHANGED <<nrefs, hwait, winerr>>
       \/ /\ ~hwait[d]
          /\ nrefs' = nrefs + 1
          /\ hwait' = [hwait EXCEPT ![d] = TRUE]
          /\ UNCHANGED winerr
       \/ /\ ~hwait[d] /\ "register" \in Faults
          /\ winerr' = "OTHER"
          /\ UNCHANGED <<nrefs, hwait>>
    /\ pc' = "idle"
    /\ UNCHANGED <<life, thread, flags, state, internal, unrefs, emask, held,
                   loopVars, envVars>>

WatchReadsRegister == pc = "wr_register" /\ RegisterWait(READER)

\* NPipeInputProc returns without reading: not connected, an error that is
\* known or that the pool has found, or a non-blocking read that would block.
NPipeInputRefused ==
    /\ Scripting
    /\ told' = told \ {READER}
    /\ \/ ~CONNECTED /\ UNCHANGED winerr
       \/ /\ CONNECTED
          /\ winerr' = CopiedError(Errored({READER}))
          /\ winerr' # "SUCCESS"
       \/ /\ CONNECTED /\ winerr = "SUCCESS"
          /\ NONBLOCKING /\ Pending(READER)
          /\ UNCHANGED winerr
    /\ UNCHANGED <<life, thread, nrefs, flags, ioVars, procVars, events, asleep,
                   envVars>>

\* NPipeInputProc up to the call of NPipeReadData
NPipeInputStarts ==
    /\ Scripting /\ CONNECTED /\ winerr = "SUCCESS"
    /\ told' = told \ {READER}
    /\ \/ state[READER] \in {"IDLE", "COMPLETED"} /\ pc' = "in_read"
       \/ Pending(READER) /\ ~NONBLOCKING /\ pc' = "in_unreg"
    /\ UNCHANGED <<chanVars, ioVars, unrefs, emask, held, events, asleep, envVars>>

\* A blocking read first takes the wait for the read-ahead from the pool ...
InputUnregister ==
    /\ pc = "in_unreg"
    /\ hwait[READER] => Drained(READER)
    /\ hwait' = [hwait EXCEPT ![READER] = FALSE]
    /\ nrefs' = nrefs - PoolRef(READER)
    /\ pc' = "in_wait"
    /\ UNCHANGED <<life, thread, flags, winerr, state, internal, unrefs, emask,
                   held, loopVars, envVars>>

\* ... then blocks in GetOverlappedResult if it is still pending.  That waits
\* on hevent, and so consumes its signal, only when ovl is still in progress.
InputWait ==
    /\ pc = "in_wait"
    /\ inflight[READER] = "none"
    /\ LET r == IF state[READER] # "PENDING" THEN state[READER]
                ELSE IF internal[READER] = "ok" THEN "COMPLETED" ELSE "ERROR"
       IN  /\ state' = [state EXCEPT ![READER] = r]
           /\ winerr' = IF r = "ERROR" THEN ErrOf(internal[READER]) ELSE winerr
           /\ pc' = IF r = "ERROR" THEN "idle" ELSE "in_read"
    /\ \/ UNCHANGED signaled
       \/ /\ state[READER] = "PENDING"
          /\ signaled' = [signaled EXCEPT ![READER] = FALSE]
    /\ UNCHANGED <<life, thread, nrefs, flags, internal, hwait, unrefs, emask,
                   held, loopVars, inflight, queued, sampled, peer, inVars,
                   outVars>>

BugWithAhead == held
\* The bytes a read has when it has taken the read-ahead byte
WithAhead == IF state[READER] = "COMPLETED" THEN Append(held, ahead) ELSE held

\* NPipeReadData returns the bytes in buf, and NPipeInputProc starts
\* NPipeWatchReads (from IDLE, without an error) if the channel is watched.
InputReturns(buf) ==
    /\ got' = got \o buf
    /\ held' = <<>>
    /\ internal' = [internal EXCEPT ![READER] = "ok"]
    /\ IF "WATCHREAD" \in flags
       THEN state' = [state EXCEPT ![READER] = "PENDING"] /\ pc' = "wr_issue"
       ELSE state' = [state EXCEPT ![READER] = "IDLE"] /\ pc' = "idle"

\* NPipeReadData without blocking: n bytes fit in the caller's buffer.
ReadDataNow(n) ==
    /\ pc = "in_read"
    /\ LET room == n - Len(WithAhead)
           more == IF room < sent - taken THEN room ELSE sent - taken
       IN  \/ /\ room = 0                             \* only a byte was asked for
              /\ InputReturns(WithAhead)
              /\ UNCHANGED <<winerr, taken>>
           \/ /\ room > 0 /\ ~PipeEmpty
              /\ InputReturns(WithAhead \o Bytes(taken + 1, taken + more))
              /\ taken' = taken + more
              /\ UNCHANGED winerr
           \/ /\ room > 0 /\ PipeEmpty /\ peer = "connected" /\ NONBLOCKING
              /\ InputReturns(WithAhead)
              /\ UNCHANGED <<winerr, taken>>
           \/ /\ room > 0 /\ PipeEmpty /\ peer = "gone"  \* PeekNamedPipe fails
              /\ winerr' = "EOF"
              /\ state' = [state EXCEPT ![READER] = "IDLE"]
              /\ held' = <<>> /\ pc' = "idle"
              /\ UNCHANGED <<internal, taken, got>>
    /\ UNCHANGED <<life, thread, nrefs, flags, hwait, unrefs, emask, loopVars,
                   osVars, peer, sent, ahead, outVars>>

\* NPipeReadData on a blocking channel with an empty pipe: a one-byte ReadFile,
\* and GetOverlappedResult on hsync, even when a byte is already in the buffer.
ReadDataBlocks(n) ==
    /\ pc = "in_read" /\ ~NONBLOCKING
    /\ PipeEmpty /\ peer = "connected" /\ n > Len(WithAhead)
    /\ held' = WithAhead
    /\ state' = [state EXCEPT ![READER] = "IDLE"]
    /\ internal' = [internal EXCEPT ![READER] = "pending"]
    /\ pc' = "in_block"
    /\ UNCHANGED <<chanVars, hwait, unrefs, emask, loopVars, envVars>>

ReadDataUnblocks ==
    /\ pc = "in_block"
    /\ \/ /\ ~PipeEmpty
          /\ taken' = taken + 1
          /\ InputReturns(Append(held, taken + 1))
          /\ UNCHANGED winerr
       \/ /\ PipeEmpty /\ peer = "gone"
          /\ winerr' = "EOF"
          /\ internal' = [internal EXCEPT ![READER] = "eof"]
          /\ held' = <<>> /\ pc' = "idle"
          /\ UNCHANGED <<state, taken, got>>
    /\ UNCHANGED <<life, thread, nrefs, flags, hwait, unrefs, emask, loopVars,
                   osVars, peer, sent, ahead, outVars>>
-----------------------------------------------------------------------------
(* Writing. *)

\* NPipeOutputProc returns without writing: not connected, an error, or EAGAIN.
NPipeOutputRefused ==
    /\ Scripting
    /\ told' = told \ {WRITER}
    /\ \/ ~CONNECTED /\ UNCHANGED winerr
       \/ /\ CONNECTED
          /\ winerr' = CopiedError(Errored({WRITER}))
          /\ winerr' # "SUCCESS"
       \/ /\ CONNECTED /\ winerr = "SUCCESS"
          /\ NONBLOCKING /\ Pending(WRITER)
          /\ UNCHANGED winerr
    /\ UNCHANGED <<life, thread, nrefs, flags, ioVars, procVars, events, asleep,
                   envVars>>

\* A non-blocking write zeroes ovl, copies the data to write_buf and sets
\* PENDING before the call of WriteFile.
NPipeOutputStarts ==
    /\ Scripting /\ CONNECTED /\ NONBLOCKING
    /\ CopiedError(Errored({WRITER})) = "SUCCESS" /\ ~Pending(WRITER)
    /\ wcount < MaxWrites
    /\ wbuf' = wcount + 1 /\ wcount' = wcount + 1
    /\ internal' = [internal EXCEPT ![WRITER] = "ok"]
    /\ state' = [state EXCEPT ![WRITER] = "PENDING"]
    /\ told' = told \ {WRITER}
    /\ pc' = "out_issue"
    /\ UNCHANGED <<chanVars, hwait, unrefs, emask, held, events, asleep, osVars,
                   peer, inVars, peerGot, lapses>>

\* WriteFile.  When it pends the pool should have nothing left of an earlier
\* write: the callback would take this one for completed.
OutputIssue ==
    /\ pc = "out_issue"
    /\ \/ /\ peer = "connected" /\ "done" \in WriteResults
          /\ inflight[WRITER] = "none"
          /\ peerGot' = Append(peerGot, wbuf)
          /\ signaled' = [signaled EXCEPT ![WRITER] = TRUE]
          /\ pc' = "out_cas"
          /\ UNCHANGED <<winerr, internal, inflight, lapses>>
       \/ /\ peer = "connected" /\ "pending" \in WriteResults
          /\ inflight' = [inflight EXCEPT ![WRITER] = "write"]
          /\ internal' = [internal EXCEPT ![WRITER] = "pending"]
          /\ signaled' = [signaled EXCEPT ![WRITER] = FALSE]
          /\ lapses' = lapses \union
                (IF Drained(WRITER) /\ Pending(WRITER) THEN {} ELSE {"overtaken"})
          /\ pc' = "out_register"
          /\ UNCHANGED <<winerr, peerGot>>
       \/ /\ peer = "gone"                     \* a genuine error
          /\ winerr' = "OTHER"
          /\ pc' = "idle"
          /\ UNCHANGED <<internal, inflight, signaled, peerGot, lapses>>
    /\ UNCHANGED <<life, thread, nrefs, flags, state, hwait, unrefs, emask, held,
                   loopVars, queued, sampled, peer, inVars, wcount, wbuf>>

\* WriteFile completed at once: COMPLETED unless the pool has been there first
OutputCas ==
    /\ pc = "out_cas"
    /\ state' = [state EXCEPT ![WRITER] = IF @ = "PENDING" THEN "COMPLETED" ELSE @]
    /\ pc' = "idle"
    /\ UNCHANGED <<chanVars, internal, hwait, unrefs, emask, held, loopVars,
                   envVars>>

OutputRegister == pc = "out_register" /\ RegisterWait(WRITER)

\* A blocking write has an OVERLAPPED and an event of its own; the kernel
\* queues it behind a non-blocking one that is still in flight.
NPipeOutputBlocking ==
    /\ Scripting /\ CONNECTED /\ ~NONBLOCKING
    /\ CopiedError(Errored({WRITER})) = "SUCCESS"
    /\ inflight[WRITER] # "write" /\ wcount < MaxWrites
    /\ wcount' = wcount + 1
    /\ told' = told \ {WRITER}
    /\ \/ /\ peer = "connected"
          /\ peerGot' = Append(peerGot, wcount + 1)
          /\ state' = [state EXCEPT ![WRITER] = IF @ = "IDLE" THEN "COMPLETED" ELSE @]
          /\ UNCHANGED winerr
       \/ /\ peer = "gone"
          /\ winerr' = "OTHER"
          /\ UNCHANGED <<state, peerGot>>
    /\ UNCHANGED <<life, thread, nrefs, flags, internal, hwait, procVars, events,
                   asleep, osVars, peer, inVars, wbuf, lapses>>
-----------------------------------------------------------------------------
(* Watching, mode, transfer between threads and close. *)

\* The directions NPipeWatchProc(mask) takes from the pool: the reader when
\* reads are not wanted, the writer when a blocking channel stops watching.
Disabled(mask) ==
    {d \in Dirs : /\ hwait[d] /\ d \notin mask
                  /\ d = WRITER => "WATCHWRITE" \in flags /\ ~NONBLOCKING}

WatchFlags(mask) ==
    (flags \ {"WATCHREAD", "WATCHWRITE"})
       \union (IF READER \in mask THEN {"WATCHREAD"} ELSE {})
       \union (IF WRITER \in mask THEN {"WATCHWRITE"} ELSE {})

\* NPipeDisableWatch for those directions, with dropped more references
DisableWatch(D, dropped) ==
    /\ \A d \in D : Drained(d)
    /\ hwait' = [d \in Dirs |-> hwait[d] /\ d \notin D]
    /\ nrefs' = nrefs - dropped - One(READER \in D) - One(WRITER \in D)

\* NPipeWatchProc.  The write side is done here together with the start of the
\* read side, which alone goes on (the two touch different state).
NPipeWatchProc(mask) ==
    /\ Scripting
    /\ DisableWatch(Disabled(mask), 0)
    /\ flags' = WatchFlags(mask)
    /\ IF READER \in mask /\ "WATCHREAD" \notin flags /\ CONNECTED
       THEN NPipeWatchReads
       ELSE pc' = "idle" /\ UNCHANGED <<state, internal>>
    /\ UNCHANGED <<life, thread, winerr, unrefs, emask, held, loopVars, envVars>>

NPipeBlockProc(mode) ==
    /\ Scripting
    /\ flags' = IF mode = "nonblocking" THEN flags \union {"NONBLOCKING"}
                                        ELSE flags \ {"NONBLOCKING"}
    /\ UNCHANGED <<life, thread, nrefs, winerr, ioVars, procVars, loopVars, envVars>>

\* The channel layer cuts the channel from its thread: it stops watching, and
\* NPipeThreadActionProc takes pcP off the thread's list.
NPipeThreadRemove ==
    /\ Scripting /\ Threads # {thread}
    /\ DisableWatch(Disabled({}), 1)
    /\ flags' = WatchFlags({})
    /\ thread' = NoThread
    /\ pc' = "detached"
    /\ UNCHANGED <<life, winerr, state, internal, unrefs, emask, held, loopVars,
                   envVars>>

NPipeThreadInsert(t) ==
    /\ pc = "detached"
    /\ thread' = t /\ nrefs' = nrefs + 1
    /\ pc' = "idle"
    /\ UNCHANGED <<life, flags, winerr, ioVars, unrefs, emask, held, loopVars,
                   envVars>>

\* Tcl_Close: NPipeThreadActionProc takes pcP off its thread's list, then
\* NPipeCloseProc calls NPipeShutdown(..., 1).
NPipeClose ==
    /\ Scripting
    /\ thread' = NoThread /\ nrefs' = nrefs - 1
    /\ unrefs' = 1 /\ pc' = "sd_unreg_r"
    /\ UNCHANGED <<life, flags, winerr, ioVars, emask, held, loopVars, envVars>>

\* NPipeShutdown: take io[d] from the pool; after the writer CloseHandle(hpipe).
ShutdownUnregister(d) ==
    /\ pc = IF d = READER THEN "sd_unreg_r" ELSE "sd_unreg_w"
    /\ hwait[d] => Drained(d)
    /\ hwait' = [hwait EXCEPT ![d] = FALSE]
    /\ unrefs' = unrefs + PoolRef(d)
    /\ pc' = IF d = READER THEN "sd_unreg_w" ELSE "sd_wait_w"
    /\ UNCHANGED <<chanVars, state, internal, emask, held, loopVars, envVars>>

BugShutdownWaited(d) == UNCHANGED <<signaled, lapses>>
\* NPipeShutdown: a pending operation is waited for, at most 1000 ms.  The
\* wait consumes the signal.
ShutdownWaited(d) ==
    \/ ~Pending(d) /\ UNCHANGED <<signaled, lapses>>
    \/ /\ Pending(d) /\ signaled[d]
       /\ signaled' = [signaled EXCEPT ![d] = FALSE]
       /\ UNCHANGED lapses
    \/ /\ Pending(d) /\ ~signaled[d]
       /\ \/ inflight[d] = "none" /\ UNCHANGED lapses
          \/ /\ inflight[d] # "none" /\ "slow" \in Faults
             /\ lapses' = lapses \union {"slow"}
       /\ UNCHANGED signaled

ShutdownWaitWriter ==
    /\ pc = "sd_wait_w"
    /\ ShutdownWaited(WRITER)
    /\ pc' = "sd_wait_r"
    /\ UNCHANGED <<chanVars, ioVars, unrefs, emask, held, loopVars, inflight,
                   queued, sampled, peer, inVars, wcount, wbuf, peerGot>>

\* The last wait, and the NPipeChannelUnref that ends NPipeShutdown
ShutdownEnds ==
    /\ pc = "sd_wait_r"
    /\ ShutdownWaited(READER)
    /\ nrefs' = nrefs - unrefs
    /\ unrefs' = 0
    /\ life' = IF nrefs <= unrefs THEN "freed" ELSE life
    /\ pc' = IF life = "creating" THEN "create_failed" ELSE "done"
    /\ UNCHANGED <<thread, flags, winerr, ioVars, emask, held, loopVars, inflight,
                   queued, sampled, peer, inVars, wcount, wbuf, peerGot>>
-----------------------------------------------------------------------------
(* The event source. *)

\* NPipeCheckProc: queue an event unless one is queued already
NPipeCheckProc ==
    /\ Scripting /\ EventWanted
    /\ flags' = flags \union {"EVENT_QUEUED"}
    /\ events' = [events EXCEPT ![thread] = @ + 1]
    /\ UNCHANGED <<life, thread, nrefs, winerr, ioVars, procVars, asleep, told,
                   envVars>>

\* NPipeEventProc for an event whose channel is no longer on the list of t
NPipeStaleEvent(t) ==
    /\ events[t] > 0 /\ t # thread
    /\ events' = [events EXCEPT ![t] = @ - 1]
    /\ UNCHANGED <<chanVars, ioVars, procVars, asleep, told, envVars>>

\* NPipeEventProc: the flag, the errors and the readable bit ...
NPipeEventProc ==
    /\ Scripting /\ events[thread] > 0
    /\ events' = [events EXCEPT ![thread] = @ - 1]
    /\ flags' = flags \ {"EVENT_QUEUED"}
    /\ winerr' = CopiedError(Errored(Dirs))
    /\ emask' = {d \in {READER} : /\ "WATCHREAD" \in flags
                                  /\ \/ state[d] \in {"COMPLETED", "ERROR"}
                                     \/ winerr' # "SUCCESS" /\ ~CONNECTED}
    /\ pc' = "ev_write"
    /\ UNCHANGED <<life, thread, nrefs, ioVars, unrefs, held, asleep, told, envVars>>

\* ... the writable bit, the end of a connect and EOF ...
EventWrite ==
    /\ pc = "ev_write"
    /\ LET writable == DirNotifiable(WRITER)
           connects == ConnectDone
           eof == NPIPE_EOF_NOTIFIABLE
           watched == {d \in Dirs : (IF d = READER THEN "WATCHREAD"
                                     ELSE "WATCHWRITE") \in flags}
       IN  /\ flags' = flags \union (IF connects THEN {"CONNECTED"} ELSE {})
                             \union (IF eof THEN {"EOF_NOTIFIED"} ELSE {})
           /\ emask' = emask \union {d \in watched : \/ eof
                                                     \/ d = READER /\ connects
                                                     \/ d = WRITER /\ writable}
    /\ pc' = "ev_notify"
    /\ UNCHANGED <<life, thread, nrefs, winerr, ioVars, unrefs, held, loopVars,
                   envVars>>

\* ... a completed write made idle, and Tcl_NotifyChannel.
EventNotify ==
    /\ pc = "ev_notify"
    /\ state' = WriteTaken
    /\ told' = told \union emask
    /\ emask' = {} /\ pc' = "idle"
    /\ UNCHANGED <<chanVars, internal, hwait, unrefs, held, events, asleep, envVars>>

\* Tcl_WaitForEvent blocks when NPipeSetupProc has found nothing to notify and
\* the queue is empty ...
Sleep ==
    /\ Scripting /\ ~NPIPE_NOTIFIABLE /\ events[thread] = 0
    /\ asleep' = asleep \union {thread}
    /\ UNCHANGED <<chanVars, ioVars, procVars, events, told, envVars>>

\* ... until something unrelated to this channel wakes the thread
OtherWakeup ==
    /\ thread \in asleep
    /\ asleep' = asleep \ {thread}
    /\ UNCHANGED <<chanVars, ioVars, procVars, events, told, envVars>>
-----------------------------------------------------------------------------
(* Kernel and thread pool. *)

\* An overlapped operation ends: ovl.Internal is set and hevent signalled.
Completes(d, result) ==
    /\ inflight' = [inflight EXCEPT ![d] = "none"]
    /\ internal' = [internal EXCEPT ![d] = result]
    /\ signaled' = [signaled EXCEPT ![d] = TRUE]
    /\ UNCHANGED <<chanVars, state, hwait, procVars, loopVars, queued, sampled>>

\* What an operation in flight may end with while the pipe is open
KernelConnects ==
    /\ inflight[WRITER] = "connect" /\ ~PipeClosed
    /\ Completes(WRITER, "ok")
    /\ peer' = "connected"
    /\ UNCHANGED <<inVars, outVars>>

KernelReads ==
    /\ inflight[READER] = "read" /\ ~PipeClosed
    /\ \/ /\ ~PipeEmpty
          /\ Completes(READER, "ok")
          /\ taken' = taken + 1 /\ ahead' = taken + 1
       \/ /\ PipeEmpty /\ peer = "gone"
          /\ Completes(READER, "eof")
          /\ UNCHANGED <<taken, ahead>>
    /\ UNCHANGED <<sent, got, peer, outVars>>

KernelWrites ==
    /\ inflight[WRITER] = "write" /\ ~PipeClosed
    /\ \/ /\ peer = "connected"
          /\ Completes(WRITER, "ok")
          /\ peerGot' = Append(peerGot, wbuf)
       \/ /\ peer = "gone"
          /\ Completes(WRITER, "eof")
          /\ UNCHANGED peerGot
    /\ UNCHANGED <<peer, inVars, wcount, wbuf, lapses>>

\* CloseHandle(hpipe) cancels what is in flight
KernelCancels(d) ==
    /\ inflight[d] # "none" /\ PipeClosed
    /\ Completes(d, "other")
    /\ UNCHANGED <<peer, inVars, outVars>>

\* The wait thread consumes the auto-reset event and queues a callback
PoolWait(d) ==
    /\ hwait[d] /\ signaled[d] /\ queued[d] < MaxCallbacks
    /\ signaled' = [signaled EXCEPT ![d] = FALSE]
    /\ queued' = [queued EXCEPT ![d] = @ + 1]
    /\ UNCHANGED <<chanVars, ioVars, procVars, loopVars, inflight, sampled, peer,
                   inVars, outVars>>

\* NPipeThreadPoolHandler: read ovl.Internal ...
PoolSample(d) ==
    /\ queued[d] > 0 /\ sampled[d] = "none"
    /\ queued' = [queued EXCEPT ![d] = @ - 1]
    /\ sampled' = [sampled EXCEPT
                      ![d] = IF internal[d] = "ok" THEN "COMPLETED" ELSE "ERROR"]
    /\ UNCHANGED <<chanVars, ioVars, procVars, loopVars, inflight, signaled, peer,
                   inVars, outVars>>

\* ... and change the state if it is PENDING, waking the owning thread
PoolCas(d) ==
    /\ sampled[d] # "none"
    /\ sampled' = [sampled EXCEPT ![d] = "none"]
    /\ IF state[d] = "PENDING"
       THEN /\ state' = [state EXCEPT ![d] = sampled[d]]
            /\ asleep' = Alerted
       ELSE UNCHANGED <<state, asleep>>
    /\ UNCHANGED <<chanVars, internal, hwait, procVars, events, told, inflight,
                   signaled, queued, peer, inVars, outVars>>
-----------------------------------------------------------------------------
(* The peer. *)

PeerSends ==
    /\ peer = "connected" /\ sent < MaxBytes
    /\ sent' = sent + 1
    /\ UNCHANGED <<chanVars, ioVars, procVars, loopVars, osVars, peer, taken, ahead,
                   got, outVars>>

PeerCloses ==
    /\ peer = "connected" /\ "gone" \in Faults
    /\ peer' = "gone"
    /\ UNCHANGED <<chanVars, ioVars, procVars, loopVars, osVars, inVars, outVars>>
-----------------------------------------------------------------------------
\* The rest of a driver or event procedure that has begun
Continue ==
    \/ NPipeAcceptConnected \/ NPipeAcceptPending \/ NPipeAcceptMark
    \/ NPipeAcceptFails \/ NPipeServerFailed
    \/ WatchReadsIssue \/ WatchReadsRegister
    \/ InputUnregister \/ InputWait \/ ReadDataUnblocks
    \/ \E n \in 1 .. BufSz : ReadDataNow(n) \/ ReadDataBlocks(n)
    \/ OutputIssue \/ OutputCas \/ OutputRegister
    \/ \E t \in Threads : NPipeThreadInsert(t)
    \/ \E d \in Dirs : ShutdownUnregister(d)
    \/ ShutdownWaitWriter \/ ShutdownEnds
    \/ EventWrite \/ EventNotify

\* What the script does of its own accord
Script ==
    \/ NPipeCreateFails
    \/ \E t \in Threads : NPipeServer(t) \/ NPipeClient(t)
    \/ NPipeInputRefused \/ NPipeInputStarts
    \/ NPipeOutputRefused \/ NPipeOutputStarts \/ NPipeOutputBlocking
    \/ \E mask \in Masks : NPipeWatchProc(mask)
    \/ \E mode \in Modes : NPipeBlockProc(mode)
    \/ NPipeThreadRemove \/ NPipeClose

EventLoop ==
    \/ NPipeCheckProc \/ NPipeEventProc \/ Sleep \/ OtherWakeup
    \/ \E t \in Threads : NPipeStaleEvent(t)

Kernel == KernelConnects \/ KernelReads \/ KernelWrites
          \/ \E d \in Dirs : KernelCancels(d)

Pool == \E d \in Dirs : PoolWait(d) \/ PoolSample(d) \/ PoolCas(d)

Peer == PeerSends \/ PeerCloses

Next == Continue \/ Script \/ EventLoop \/ Kernel \/ Pool \/ Peer

Spec == Init /\ [][Next]_vars
-----------------------------------------------------------------------------
(* Safety. *)

ShutdownPCs == {"sd_unreg_r", "sd_unreg_w", "sd_wait_w", "sd_wait_r"}
PCs == {"idle", "accept", "accept_mark", "create_failed", "wr_issue", "wr_register",
        "in_unreg", "in_wait", "in_read", "in_block", "out_issue", "out_cas",
        "out_register", "detached", "ev_write", "ev_notify", "done"}
       \union ShutdownPCs

\* Every variable has a value the C type or the bound allows.
TypeOK ==
    /\ life \in {"none", "creating", "open", "leaked", "freed"}
    /\ thread \in Threads \union {NoThread} /\ nrefs \in Nat
    /\ flags \subseteq Flags /\ winerr \in WinErrs
    /\ state \in [Dirs -> States] /\ internal \in [Dirs -> Internals]
    /\ hwait \in [Dirs -> BOOLEAN]
    /\ ahead \in Nat /\ wbuf \in Nat
    /\ pc \in PCs /\ unrefs \in Nat /\ emask \subseteq Dirs /\ held \in Seq(Nat)
    /\ events \in [Threads -> Nat] /\ asleep \subseteq Threads /\ told \subseteq Dirs
    /\ inflight \in [Dirs -> {"none", "connect", "read", "write"}]
    /\ signaled \in [Dirs -> BOOLEAN] /\ queued \in [Dirs -> Nat]
    /\ sampled \in [Dirs -> {"none", "COMPLETED", "ERROR"}]
    /\ peer \in {"absent", "connected", "gone"}
    /\ sent \in Nat /\ taken \in Nat /\ got \in Seq(Nat)
    /\ wcount \in Nat /\ peerGot \in Seq(Nat)
    /\ lapses \subseteq LapseKinds

PoolRefs == One(hwait[READER]) + One(hwait[WRITER])

\* The count is exact: one reference for the Tcl channel, one for the list of
\* the owning thread, one for each wait the pool holds.  While NPipeShutdown
\* runs, unrefs stands for the references it has yet to drop, so the single
\* NPipeChannelUnref at its end frees the structure, and no earlier one does.
RefCountExact ==
    /\ life \in {"creating", "open"} /\ pc \notin ShutdownPCs =>
          nrefs = 1 + One(thread # NoThread) + PoolRefs
    /\ pc \in ShutdownPCs => nrefs = unrefs + PoolRefs
    /\ life = "freed" => nrefs = 0 /\ PoolRefs = 0

CallbackActive(d) == queued[d] > 0 \/ sampled[d] # "none"

\* A callback runs with a raw pointer to the NPipeChannel: as long as one is
\* queued or running, its wait is registered and the structure is not freed.
CallbackHasChannel ==
    \A d \in Dirs : CallbackActive(d) => hwait[d] /\ life \in {"creating", "open"}

\* A write has pended while a callback of an earlier one was still to come.  It
\* takes a write that completed at once while the pool waited for its event.
Overtaken == "overtaken" \in lapses

\* TWAPI_ASSERT(HasOverlappedIoCompleted(...)) of NPipeThreadPoolHandler: when
\* a callback is about to run, the operation it reports is not in flight, unless
\* that operation has overtaken the callback.
CallbackFindsIoCompleted ==
    \A d \in Dirs : queued[d] > 0 /\ (d = WRITER => ~Overtaken) =>
        inflight[d] = "none" /\ internal[d] # "pending"

\* The read-ahead has one completion at a time: a signal, a queued callback or
\* a running one, and none of them unless the reader is still PENDING.
OneReadCompletion ==
    /\ One(signaled[READER]) + queued[READER] + One(sampled[READER] # "none") <= 1
    /\ CallbackActive(READER) => state[READER] = "PENDING" /\ inflight[READER] = "none"

\* One event per channel: NPipeCheckProc does not queue a second, even when
\* the channel has moved, because EVENT_QUEUED is set as long as one is queued.
OneEvent ==
    /\ \A t, u \in Threads : events[t] > 0 /\ events[u] > 0 => t = u /\ events[t] = 1
    /\ thread # NoThread => (events[thread] > 0 => "EVENT_QUEUED" \in flags)

\* If EVENT_QUEUED is set an event is on the queue of the owning thread, for
\* otherwise NPipeCheckProc would never queue one again.
EventFlagMeansQueued ==
    thread # NoThread => ("EVENT_QUEUED" \in flags => events[thread] > 0)

\* The read-ahead byte, once the kernel has stored it, until a read takes it.
ReadAheadHeld == \/ state[READER] = "COMPLETED"
                 \/ /\ state[READER] = "PENDING" /\ inflight[READER] = "none"
                    /\ internal[READER] = "ok" /\ pc # "wr_issue"

\* Every variable keeps its type, and the bytes that have left the pipe are those
\* delivered, those a read in progress has in its buffer and the read-ahead byte,
\* in the order they were sent, unless a read has failed.
BytesAccountedFor ==
    /\ TypeOK
    /\ winerr = "SUCCESS" =>
          got \o held \o (IF ReadAheadHeld THEN <<ahead>> ELSE <<>>) = Bytes(1, taken)

\* End of file is told to the script only when it has every byte of the peer.
EofAfterLastByte == winerr = "EOF" /\ PipeEmpty => got = Bytes(1, sent)

\* Both directions are byte streams (ByteStream): what the read procedure
\* returns, through the read-ahead byte or not, and what the peer receives,
\* from blocking and non-blocking writes, is in order, complete so far and
\* without repetition.  What the peer receives is so until a write overtakes the
\* callback of another: a third one may then overwrite its buffer.
Input == INSTANCE ByteStream WITH produced <- sent, consumed <- got
Output == INSTANCE ByteStream WITH produced <- wcount, consumed <- peerGot
OutputUntilOvertaken == Output!Init /\ [][Overtaken' \/ Output!Next]_<<wcount, peerGot>>
ByteStreams == Input!Spec /\ OutputUntilOvertaken

\* The kernel owns no OVERLAPPED of a structure that is freed: NPipeShutdown has
\* waited for what was pending.  A read outlives the structure only when that
\* wait timed out, a write or a connect also when the state did not say PENDING.
KernelHasOverlapped ==
    life = "freed" =>
        /\ inflight[READER] # "none" => "slow" \in lapses
        /\ inflight[WRITER] # "none" => lapses # {}

\* A write the kernel has not finished with keeps its buffer, unless it has
\* overtaken the callback of an earlier one.
WriteBufferKept ==
    [][inflight[WRITER] = "write" /\ inflight'[WRITER] = "write" /\ ~Overtaken'
          => wbuf' = wbuf]_vars

\* What the source intends of both: no I/O outlives the structure, and no
\* callback meets I/O in flight.  Neither holds of the code.
NoIoOutlivesChannel == life = "freed" => \A d \in Dirs : inflight[d] = "none"
NoWriteOvertakes == ~Overtaken
-----------------------------------------------------------------------------
(* Liveness. *)

\* A procedure that has begun goes on; the event loop, which the script may
\* keep waiting but returns to, checks its sources, services its queue and
\* blocks when it can; the pool and the kernel do their work.  Nothing is
\* assumed of the script, nor of the peer but that it reads what is written.
Fairness ==
    /\ WF_vars(Continue)
    /\ SF_vars(NPipeCheckProc) /\ SF_vars(NPipeEventProc) /\ SF_vars(Sleep)
    /\ WF_vars(KernelConnects) /\ WF_vars(KernelReads) /\ WF_vars(KernelWrites)
    /\ \A d \in Dirs : /\ WF_vars(KernelCancels(d)) /\ WF_vars(PoolWait(d))
                       /\ WF_vars(PoolSample(d)) /\ WF_vars(PoolCas(d))

FairSpec == Spec /\ Fairness

Blocked == {"in_block", "in_wait"}

\* The channel is open, has no error and is not in a read that blocks
Usable == /\ life = "open" /\ winerr = "SUCCESS"
          /\ pc \notin ShutdownPCs \union Blocked

\* A close ends: neither UnregisterWaitEx nor the wait for pending I/O blocks
\* for ever, and the structure is freed.
CloseEnds == pc = "sd_unreg_r" ~> life = "freed"

\* Every byte that arrives on a watched, connected channel is read or the
\* script is told to read: no wake-up is lost between the pool and the thread.
ReadableTold ==
    \A k \in 1 .. MaxBytes :
        Usable /\ CONNECTED /\ "WATCHREAD" \in flags /\ sent >= k
            ~> \/ Len(got) >= k \/ READER \in told
               \/ "WATCHREAD" \notin flags \/ ~Usable

\* A channel does not refuse writes with EAGAIN for ever: a write that pends is
\* seen to complete even when the script watches nothing.
WriteEnds ==
    Usable /\ CONNECTED /\ Pending(WRITER) ~> ~Pending(WRITER) \/ ~Usable

\* When a client connects to a server channel the channel becomes connected.
ConnectSeen == life = "open" /\ inflight[WRITER] = "connect" ~> CONNECTED \/ ~Usable

\* The same from the moment ConnectNamedPipe pends.
AcceptSeen == inflight[WRITER] = "connect" ~> CONNECTED \/ life = "freed"

\* The thread gets to block in the event loop again and again unless there is
\* something to read or an error to find: writes do not keep it busy.
ThreadSleeps ==
    []<>(\/ thread \in asleep \/ ~Usable
         \/ state[READER] \in {"COMPLETED", "ERROR"})
=============================================================================
