------------------------------ MODULE TlsChannel ------------------------------
(***************************************************************************)
(* tcl/tls.tcl: a Tcl channel over a socket that speaks TLS through an     *)
(* SSPI context.  One channel is modelled, from its creation by            *)
(* tls_socket, starttls or a listener to its end, with the application     *)
(* that uses it, the event loop that runs the handlers of the socket and   *)
(* the scripts of "after 0", and the peer.                                 *)
(*                                                                         *)
(* The socket delivers units: a flight of the handshake, an encrypted      *)
(* piece of data, the closing alert, or a part of a unit that means        *)
(* nothing until the rest has come.  The handshake is two flights of each  *)
(* side, the client's first.                                               *)
(***************************************************************************)
EXTENDS Integers, Sequences, SequencesExt, FiniteSets

CONSTANTS
    Makes,       \* how the channel may come to be: a subset of AllMakes
    ReadSize,    \* what one call of the read method is asked for
    HalfClose,   \* whether the application closes the write side only
    Faults,      \* failures considered: a subset of FaultKinds
    MaxData, MaxParts, MaxWrites   \* bounds on what the peer and the application send

\* "connect" and "async": tls_socket without and with -async.  "client" and
\* "server": starttls.  "accept": a connection to a listener.
AllMakes == {"connect", "async", "client", "server", "accept"}

\* "step": SSPI refuses the handshake.  "verify": the verifier does.
FaultKinds == {"step", "verify"}

ASSUME TlsAssumption ==
    /\ Makes \subseteq AllMakes /\ Faults \subseteq FaultKinds /\ HalfClose \in BOOLEAN
    /\ ReadSize \in Nat \ {0}
    /\ MaxData \in Nat /\ MaxParts \in Nat /\ MaxWrites \in Nat

Unit(kind, n) == [kind |-> kind, n |-> n]
Flight == Unit("flight", 0)
Alert  == Unit("alert", 0)
Part   == Unit("part", 0)

VARIABLES
    ch,      \* the channel, its context and its socket
    call,    \* the blocking call in progress, if any
    peer,    \* what the peer has sent
    app      \* what the application knows, was told, has read and written; "taken" is
             \* what its reads have taken out of Input, "got" what they returned of it

vars == <<ch, call, peer, app>>

Negotiating == {"CLIENTINIT", "SERVERINIT", "NEGOTIATING"}
Events == {"read", "write"}
Scripts == Events \cup {"accept", "cleanup"}
Calls == {"none", "create", "handshake", "read", "write", "readable"}

IsServer(c) == c.made \in {"server", "accept"}

\* _init, with the entry in _channels, the socket and the context it names.
Fresh(made, blocking) ==
    [made |-> made, life |-> "new", blocking |-> blocking,
     state |-> IF made \in {"server", "accept"} THEN "SERVERINIT" ELSE "CLIENTINIT",
     mask |-> {},                       \* WatchMask
     socket |-> "open",                 \* "stale": closed, the entry still names it
     readable |-> FALSE, writable |-> FALSE,   \* the handlers of the socket
     input |-> <<>>, output |-> <<>>, writeDisabled |-> FALSE,
     scripts |-> <<>>,                  \* waiting in the event loop, first come first
     flights |-> 0, steps |-> 0,        \* of the handshake: sent, and taken by SSPI
     opened |-> FALSE,                  \* it has been OPEN
     inbox |-> <<>>, fin |-> FALSE,     \* what the socket has to read, and its end
     out |-> <<>>]                      \* the data encrypted and put on the socket

Init ==
    /\ \E made \in Makes, blocking \in BOOLEAN :
         /\ made \notin {"client", "server"} => blocking
         /\ ch = Fresh(made, blocking)
    /\ call = "none"
    /\ peer = [flights |-> 0, data |-> 0, parts |-> 0, alert |-> FALSE]
    /\ app = [known |-> FALSE, told |-> FALSE, taken |-> <<>>, got |-> <<>>, eof |-> FALSE,
              lost |-> FALSE, written |-> 0, closed |-> FALSE]

(***************************************************************************)
(* Events, scheduled through "after 0" so that no handler runs at once.    *)
(***************************************************************************)
\* _post_read_event and _post_write_event: once only until it has run.
Post(c, event) ==
    IF event \in ToSet(c.scripts) THEN c ELSE [c EXCEPT !.scripts = Append(@, event)]

\* Closing the socket forgets its handlers.
SocketClosed(c, how) ==
    [c EXCEPT !.socket = how, !.readable = FALSE, !.writable = FALSE]

\* _cleanup and the close of the channel that calls it.
CleanedUp(c, life) == [SocketClosed(c, "none") EXCEPT !.life = life]

(***************************************************************************)
(* SSPI: sspi_step and sspi_decrypt_stream on what has been read.          *)
(***************************************************************************)
IsData(u) == u.kind = "data"
Numbers(units) ==
    LET read[k \in 0 .. Len(units)] ==
            IF k = 0 THEN <<>>
            ELSE IF IsData(units[k]) THEN Append(read[k - 1], units[k].n) ELSE read[k - 1]
    IN read[Len(units)]

Flights(units) == {i \in 1 .. Len(units) : units[i] = Flight}

\* sspi_decrypt_stream: the data up to the closing alert, and a status.
Expired(units) == Alert \in ToSet(units)

\* The answers to the flights read go out with the step that takes them; the
\* last flight of a server is itself the answer.
Stepped(c, units) ==
    LET taken == Cardinality(Flights(units)) IN
    [c EXCEPT !.steps = @ + taken,
              !.flights = IF IsServer(c) \/ c.steps + taken < 2 THEN @ + taken ELSE @]

(***************************************************************************)
(* The negotiation, as sets of outcomes: the channel and whether an error  *)
(* is raised.                                                              *)
(***************************************************************************)
Outcome(c, ok) == [ch |-> c, ok |-> ok]

\* A slip: what was sent stays in Output.
BugFlushed(c) == [c EXCEPT !.out = @ \o c.output]

\* _flush_pending_output
Flushed(c) == [c EXCEPT !.out = @ \o c.output, !.output = <<>>]

\* A slip: the accept callback is scheduled before the peer is verified.
BugOpen(c) ==
    LET accepted == IF c.made = "accept"
                    THEN [c EXCEPT !.readable = FALSE, !.scripts = Append(@, "accept")]
                    ELSE c
    IN {Outcome(Flushed([accepted EXCEPT !.state = "OPEN", !.opened = TRUE]), TRUE)}
       \cup IF "verify" \in Faults THEN {Outcome(accepted, FALSE)} ELSE {}

\* _open: the verifier has the last word; then the accept callback is
\* scheduled and what was written meanwhile is sent.
Open(c) ==
    LET accepted == IF c.made = "accept"
                    THEN [c EXCEPT !.readable = FALSE, !.scripts = Append(@, "accept")]
                    ELSE c
    IN {Outcome(Flushed([accepted EXCEPT !.state = "OPEN", !.opened = TRUE]), TRUE)}
       \cup IF "verify" \in Faults THEN {Outcome(c, FALSE)} ELSE {}

\* All that the socket has is read and given to SSPI; what is left of it after
\* the last flight is data already.  A blocking negotiation takes an alert in it
\* for an error, the other ignores it.
Advance(c, strict) ==
    LET read == [c EXCEPT !.inbox = <<>>]
        next == Stepped(read, c.inbox)
        done == [next EXCEPT !.input = @ \o Numbers(c.inbox)]
    IN  IF c.inbox = <<>> THEN {Outcome(c, ~c.fin)}
        ELSE (IF next.steps < 2 THEN {Outcome(next, TRUE)}
              ELSE IF strict /\ Expired(c.inbox) THEN {Outcome(done, FALSE)}
              ELSE Open(done))
             \cup IF "step" \in Faults
                  THEN {Outcome(IF strict THEN SocketClosed(read, "stale") ELSE read, FALSE)}
                  ELSE {}

\* _negotiate2 where it does not block.
Negotiated2(c) ==
    IF c.socket # "open" THEN {Outcome(c, FALSE)}
    ELSE CASE c.state = "CLIENTINIT"  ->
                {Outcome([c EXCEPT !.state = "NEGOTIATING", !.flights = 1], TRUE)}
           [] c.state = "SERVERINIT"  ->
                Advance(IF c.inbox = <<>> THEN c ELSE [c EXCEPT !.state = "NEGOTIATING"], FALSE)
           [] c.state = "NEGOTIATING" -> Advance(c, FALSE)

\* _negotiate: an error closes the channel, and has a server channel cleaned up
\* behind the application's back, which is not supposed to know it.
Failed(c) ==
    LET d == IF IsServer(c) /\ c.state \in {"SERVERINIT", "NEGOTIATING"}
             THEN [c EXCEPT !.scripts = Append(@, "cleanup")] ELSE c
    IN SocketClosed([d EXCEPT !.state = "CLOSED"], "none")

Negotiated(c) ==
    {IF r.ok THEN r ELSE Outcome(Failed(r.ch), FALSE) : r \in Negotiated2(c)}

\* Channels that a listener accepts negotiate without blocking.
MustBlock(c) == c.blocking /\ c.made # "accept"

\* _client_blocking_negotiate, _server_blocking_negotiate and the start of
\* _blocking_negotiate_loop, which cannot be entered again after the last step.
BlockingStart(c) ==
    IF c.socket # "open" \/ c.steps = 2 THEN Outcome(c, FALSE)
    ELSE Outcome([c EXCEPT !.state = "NEGOTIATING",
                           !.flights = IF c.state = "CLIENTINIT" THEN 1 ELSE @], TRUE)

(***************************************************************************)
(* The methods of the channel: read and write.                             *)
(***************************************************************************)
Return(c) == ch' = c /\ call' = "none"

\* What the socket has is decrypted into Input.
Taken(c) == [c EXCEPT !.inbox = <<>>, !.input = @ \o Numbers(c.inbox)]

Status(c) == IF c.inbox = <<>> THEN IF c.fin THEN "eof" ELSE "ok"
             ELSE IF Expired(c.inbox) THEN "expired" ELSE "ok"

\* What the caller is not given stays in Input, and it is told to come back.
Kept(c, ret) ==
    LET d == [c EXCEPT !.input = SubSeq(@, Len(ret) + 1, Len(@))]
    IN  IF "read" \in c.mask /\ d.input # <<>> THEN Post(d, "read") ELSE d

\* read returns.  At the end of the stream the closing alert is answered first,
\* an error when the application has closed the write side: it leaves the socket as
\* it is, and what was to be returned has gone from Input without being returned.
ReadReturns(c, status) ==
    LET ret == SubSeq(c.input, 1, Min({ReadSize, Len(c.input)}))
        d   == Kept(c, ret)
        bad == status = "expired" /\ c.writeDisabled
    IN  /\ Return(CASE status = "ok" -> d
                    [] bad           -> [d EXCEPT !.state = "CLOSED"]
                    [] OTHER         -> SocketClosed([d EXCEPT !.state = "CLOSED"], "none"))
        /\ app' = [app EXCEPT !.taken = @ \o ret, !.got = IF bad THEN @ ELSE @ \o ret,
                              !.told = FALSE, !.eof = @ \/ (ret = <<>> /\ ~bad),
                              !.lost = @ \/ (ret # <<>> /\ bad)]

\* What the socket has may be a part only: a blocking read waits for more, the
\* other one returns EAGAIN.
Read2(c) ==
    LET d == Taken(c) IN
    IF d.input # <<>> \/ Status(c) # "ok" THEN ReadReturns(d, Status(c))
    ELSE /\ ch' = d
         /\ call' = IF c.blocking THEN "read" ELSE "none"
         /\ app' = [app EXCEPT !.told = FALSE]

\* read once the negotiation is over, or EAGAIN when it is not.
ReadOpen(c) ==
    IF c.state \in Negotiating
    THEN Return(c) /\ app' = [app EXCEPT !.told = FALSE]
    ELSE IF c.state = "OPEN" /\ Len(c.input) < ReadSize /\ ~(c.blocking /\ c.input # <<>>)
    THEN Read2(c)
    ELSE ReadReturns(c, "ok")

\* write once the negotiation is over, or goes on elsewhere.
WriteOpen(c) ==
    LET n == app.written + 1
        sent == /\ app' = [app EXCEPT !.written = n]
                /\ call' = "none"
    IN  \/ /\ c.state \in Negotiating
           /\ ch' = [c EXCEPT !.output = Append(@, n)] /\ sent
        \/ /\ c.state = "OPEN" /\ ~c.writeDisabled
           /\ ch' = [Flushed(c) EXCEPT !.out = Append(@, n)] /\ sent
        \/ /\ c.state = "CLOSED" \/ c.writeDisabled
           /\ Return(c) /\ UNCHANGED app

(***************************************************************************)
(* The handlers of the socket.                                             *)
(***************************************************************************)
\* A slip: the handler is turned off for an application that does not read,
\* whether the negotiation needs it or not.
BugReadableDone(c) ==
    IF "read" \in c.mask THEN Post(c, "read") ELSE [c EXCEPT !.readable = FALSE]

\* _so_read_handler after the negotiation has been advanced.
ReadableDone(c) ==
    IF "read" \in c.mask THEN Post(c, "read")
    ELSE IF c.state \in Negotiating THEN c
    ELSE [c EXCEPT !.readable = FALSE]

\* How an operation goes on when its negotiation has ended: tls_handshake and
\* the creation of a channel call _negotiate2 themselves, without the handling
\* of errors by _negotiate.
Ended(op, r) ==
    \/ /\ op = "create"
       /\ Return(IF r.ok THEN [r.ch EXCEPT !.life = "live"] ELSE CleanedUp(r.ch, "gone"))
       /\ app' = [app EXCEPT !.known = r.ok]
    \/ /\ op = "handshake"
       /\ Return(r.ch) /\ UNCHANGED app
    \/ /\ op \in {"read", "write", "readable"} /\ ~r.ok
       /\ Return(Failed(r.ch)) /\ UNCHANGED app
    \/ op = "read" /\ r.ok /\ ReadOpen(r.ch)
    \/ op = "write" /\ r.ok /\ WriteOpen(r.ch)
    \/ op = "readable" /\ r.ok /\ Return(ReadableDone(r.ch)) /\ UNCHANGED app

\* read, write and the handlers advance a negotiation before they do anything.
Negotiate(op) ==
    \/ /\ MustBlock(ch)
       /\ LET r == BlockingStart(ch) IN
            IF r.ok THEN ch' = r.ch /\ call' = op /\ UNCHANGED app ELSE Ended(op, r)
    \/ /\ ~MustBlock(ch)
       /\ \E r \in Negotiated(ch) :
            IF r.ok THEN Ended(op, r) ELSE Return(r.ch) /\ UNCHANGED app

Exists == ch.life = "live"
EventLoop == call = "none" /\ Exists
HasInput == ch.inbox # <<>> \/ ch.fin

OnReadable ==
    /\ EventLoop /\ ch.readable /\ HasInput
    /\ \/ /\ ch.state \in Negotiating
          /\ Negotiate("readable")
       \/ /\ ch.state \notin Negotiating
          /\ Return(ReadableDone(ch)) /\ UNCHANGED app
    /\ UNCHANGED peer

\* _so_write_handler: it turns itself off unless the application writes.
OnWritable ==
    /\ EventLoop /\ ch.writable
    /\ LET c == IF "write" \in ch.mask THEN ch ELSE [ch EXCEPT !.writable = FALSE]
           done(d) == IF "write" \in ch.mask /\ d.state = "OPEN" THEN Post(d, "write") ELSE d
       IN  IF c.state \in Negotiating
           THEN \E r \in Negotiated(c) : ch' = IF r.ok THEN done(r.ch) ELSE r.ch
           ELSE ch' = done(c)
    /\ UNCHANGED <<call, peer, app>>

\* A script of "after 0": the callbacks of the posted events, the accept callback
\* that makes the channel known, and _cleanup_failed_accept.
RunScript ==
    /\ call = "none" /\ ch.scripts # <<>>
    /\ LET script == Head(ch.scripts)
           c == [ch EXCEPT !.scripts = Tail(@)]
       IN  /\ ch' = IF script = "cleanup" /\ Exists /\ IsServer(c) /\ c.state = "CLOSED"
                    THEN CleanedUp(c, "gone") ELSE c
           /\ app' = [app EXCEPT
                 !.told  = @ \/ (script = "read" /\ Exists /\ "read" \in c.mask),
                 !.known = @ \/ script = "accept"]
    /\ UNCHANGED <<call, peer>>

\* The next input for the blocking call in progress.
CallStep ==
    /\ call # "none" /\ HasInput
    /\ \/ /\ ch.state = "NEGOTIATING"
          /\ \E r \in Advance(ch, TRUE) :
               IF r.ok /\ r.ch.state = "NEGOTIATING"
               THEN ch' = r.ch /\ UNCHANGED <<call, app>>
               ELSE Ended(call, r)
       \/ /\ ch.state = "OPEN"
          /\ Read2(ch)
    /\ UNCHANGED peer

(***************************************************************************)
(* The commands that create the channel, and those of the application.     *)
(***************************************************************************)
\* tls_socket, starttls and _accept: the socket gets its handlers, and all but
\* an -async client negotiate.  What _accept cannot begin is cleaned up, but the
\* Tcl channel stays.
Create ==
    /\ ch.life = "new" /\ call = "none"
    /\ LET wrapped == ch.made \in {"client", "server"} /\ ~ch.blocking
           c == [ch EXCEPT !.readable = wrapped \/ ch.made = "accept", !.writable = wrapped]
           live(d) == [d EXCEPT !.life = "live"]
           known(k) == app' = [app EXCEPT !.known = k]
       IN  \/ /\ ch.made = "async"
              /\ Return(live(c)) /\ known(TRUE)
           \/ /\ ch.made # "async" /\ MustBlock(c)
              /\ ch' = BlockingStart(c).ch /\ call' = "create" /\ UNCHANGED app
           \/ /\ ~MustBlock(c)
              /\ \E r \in Negotiated(c) :
                   IF r.ok THEN Return(live(r.ch)) /\ known(ch.made # "accept")
                   ELSE Return(CleanedUp(r.ch, IF ch.made = "accept" THEN "stray" ELSE "gone"))
                        /\ UNCHANGED app
    /\ UNCHANGED peer

\* The application runs in the event loop, with a channel it knows.
AppRuns == EventLoop /\ app.known

Read ==
    /\ AppRuns
    /\ IF ch.state \in Negotiating THEN Negotiate("read") ELSE ReadOpen(ch)
    /\ UNCHANGED peer

Write ==
    /\ AppRuns /\ app.written < MaxWrites
    /\ IF ch.state \in Negotiating THEN Negotiate("write") ELSE WriteOpen(ch)
    /\ UNCHANGED peer

\* tls_handshake, which only does something for a blocking channel.
Handshake ==
    /\ AppRuns /\ ch.blocking /\ ch.state \in Negotiating
    /\ BlockingStart(ch).ok
    /\ ch' = BlockingStart(ch).ch /\ call' = "handshake"
    /\ UNCHANGED <<peer, app>>

\* blocking: the socket has its handlers as long as the channel does not block.
SetBlocking ==
    /\ AppRuns
    /\ LET c == [ch EXCEPT !.blocking = ~@] IN
       ch' = IF c.socket # "open" THEN c
             ELSE [c EXCEPT !.readable = ~c.blocking, !.writable = ~c.blocking]
    /\ UNCHANGED <<call, peer, app>>

\* A slip: the handler the negotiation has turned off stays so.
BugWatched(c) ==
    IF "read" \notin c.mask THEN c
    ELSE IF c.input # <<>> \/ c.socket = "none" THEN Post(c, "read") ELSE c

\* The read handler is turned on again, and what is in Input is told of.
Watched(c) ==
    IF "read" \notin c.mask THEN c
    ELSE LET d == IF c.input # <<>> \/ c.socket = "none" THEN Post(c, "read") ELSE c
         IN  [d EXCEPT !.readable = c.socket = "open"]

\* watch: an error for want of a socket ends it before it comes to the writes.
Watch(mask) ==
    /\ AppRuns /\ mask # ch.mask
    /\ LET c == Watched([ch EXCEPT !.mask = mask])
           errs == "read" \in mask /\ c.socket # "open"
       IN  ch' = IF "write" \in mask /\ ~errs /\ c.state \in Negotiating \cup {"OPEN"}
                 THEN Post(c, "write") ELSE c
    /\ UNCHANGED <<call, peer, app>>

\* tls_close for the write side.
CloseWrite ==
    /\ AppRuns /\ HalfClose /\ ch.state = "OPEN" /\ ~ch.writeDisabled
    /\ ch' = [Flushed(ch) EXCEPT !.writeDisabled = TRUE]
    /\ UNCHANGED <<call, peer, app>>

\* close and finalize; what is waiting in the event loop is not cancelled.
Close ==
    /\ AppRuns
    /\ ch' = CleanedUp(ch, "gone") /\ app' = [app EXCEPT !.closed = TRUE]
    /\ UNCHANGED <<call, peer>>

(***************************************************************************)
(* The peer: its flights answer ours, its data follows its last flight, and *)
(* it may end the connection at any time, with an alert or without one.    *)
(***************************************************************************)
\* What has come of a unit becomes the unit when the rest comes.
Whole(units) == IF units # <<>> /\ Last(units) = Part THEN Front(units) ELSE units

Sends(unit) == ch' = [ch EXCEPT !.inbox = Append(Whole(@), unit)]

Connected == ch.socket = "open" /\ ~ch.fin

PeerFlight ==
    /\ Connected /\ peer.flights < 2
    /\ ch.flights >= peer.flights + IF IsServer(ch) THEN 0 ELSE 1
    /\ Sends(Flight) /\ peer' = [peer EXCEPT !.flights = @ + 1]
    /\ UNCHANGED <<call, app>>

PeerData ==
    /\ Connected /\ peer.flights = 2 /\ ~peer.alert /\ peer.data < MaxData
    /\ Sends(Unit("data", peer.data + 1)) /\ peer' = [peer EXCEPT !.data = @ + 1]
    /\ UNCHANGED <<call, app>>

PeerPart ==
    /\ Connected /\ ~peer.alert /\ peer.parts < MaxParts
    /\ Sends(Part) /\ peer' = [peer EXCEPT !.parts = @ + 1]
    /\ UNCHANGED <<call, app>>

PeerAlert ==
    /\ Connected /\ peer.flights = 2 /\ ~peer.alert
    /\ Sends(Alert) /\ peer' = [peer EXCEPT !.alert = TRUE]
    /\ UNCHANGED <<call, app>>

PeerFin ==
    /\ Connected
    /\ ch' = [ch EXCEPT !.fin = TRUE]
    /\ UNCHANGED <<call, peer, app>>

Next ==
    \/ Create \/ CallStep
    \/ OnReadable \/ OnWritable \/ RunScript
    \/ Read \/ Write \/ Handshake \/ SetBlocking \/ CloseWrite \/ Close
    \/ \E mask \in SUBSET Events : Watch(mask)
    \/ PeerFlight \/ PeerData \/ PeerPart \/ PeerAlert \/ PeerFin

\* The event loop serves the socket and its scripts, a blocking call goes on
\* with what it gets, and the peer does its part of the handshake.
Fairness ==
    /\ WF_vars(Create) /\ WF_vars(CallStep)
    /\ WF_vars(OnReadable) /\ WF_vars(OnWritable) /\ WF_vars(RunScript)
    /\ WF_vars(PeerFlight)

Spec == Init /\ [][Next]_vars /\ Fairness

(***************************************************************************)
(* Properties.                                                             *)
(***************************************************************************)
TypeOK ==
    /\ ch.life \in {"new", "live", "gone", "stray"} /\ call \in Calls
    /\ ch.state \in Negotiating \cup {"OPEN", "CLOSED"}
    /\ ch.mask \subseteq Events /\ ch.socket \in {"open", "stale", "none"}
    /\ ch.scripts \in Seq(Scripts) /\ IsInjective(ch.scripts)
    /\ ch.flights \in 0..2 /\ ch.steps \in 0..peer.flights
    /\ {ch.readable, ch.writable, ch.writeDisabled, ch.opened, ch.fin} \subseteq BOOLEAN
    /\ app.written \in 0..MaxWrites /\ peer.data \in 0..MaxData

\* The accept callback of a connection to a listener runs once it is open and
\* verified, once only, and is not lost: until then the application does not
\* know the channel.  Every field keeps its range.
AcceptOnce ==
    /\ TypeOK
    /\ ch.made = "accept" =>
         /\ app.known => ch.opened
         /\ ch.opened => app.known # ("accept" \in ToSet(ch.scripts))

\* The end of the stream is reported after everything the peer sent before it:
\* no data that came with the last flight, with the closing alert or in parts is
\* passed over, whichever of the event loop and blocking reads fetches it, unless
\* a read has failed with it.
EofIsLast == app.eof /\ ch.opened => app.lost \/ Len(app.got) = peer.data

Received == INSTANCE ByteStream WITH produced <- peer.data, consumed <- app.got
Sent     == INSTANCE ByteStream WITH produced <- app.written, consumed <- ch.out

\* What the application reads is what the peer sent, in order, until a read fails
\* with data that it does not return.
ReceivedUntilLost ==
    Received!Init /\ [][app'.lost \/ Received!Next]_<<peer.data, app.got>>

\* Both directions of the channel are streams: what the application reads is what
\* the peer sent, to its end, and what the peer gets is what the application wrote,
\* before the connection was open or after.
TlsStreams == ReceivedUntilLost /\ Sent!Spec /\ []EofIsLast

\* A negotiation that does not block comes to an end without the application
\* doing anything for it, whatever events it asks for or not.  A tls_handshake
\* that has failed leaves the channel NEGOTIATING, with its socket closed or after
\* the last step: nothing but another operation of the application ends that.
InNegotiation ==
    /\ Exists /\ ch.state \in Negotiating /\ ~MustBlock(ch)
    /\ ch.socket = "open" /\ ch.steps < 2

NegotiationEnds == InNegotiation ~> ~InNegotiation

\* An application that waits for the readable event of an open channel gets it
\* when the socket has input, even if it has not been interested for a while.
Awaited == Exists /\ app.known /\ ~ch.blocking /\ "read" \in ch.mask
Readable == Awaited /\ ch.state = "OPEN" /\ HasInput

ReadTold == (Readable /\ ~app.told) ~> (~Readable \/ app.told)

\* fileevent works with any channel (tls.man: "may be used with any of the Tcl
\* channel commands"): whoever waits for the readable event is also told of data
\* that came with the last flight, and of the end of the stream.
LeftoverTold ==
    (Awaited /\ ch.input # <<>> /\ ~app.told) ~> (~Awaited \/ ch.input = <<>> \/ app.told)

EndTold ==
    (Awaited /\ ch.state = "CLOSED" /\ ~app.eof /\ ~app.told)
        ~> (~Awaited \/ app.eof \/ app.told)

\* tls.man, tls_close: the output side is closed "while continuing to allow data
\* to be read from the channel": no read loses data after it.
NothingLost == ~app.lost

\* _cleanup_failed_accept is for a channel "not yet open (and hence not known to
\* the application)": what the application knows, only the application closes.
OnlyAppCloses == ch.life = "gone" /\ app.known => app.closed
=============================================================================
