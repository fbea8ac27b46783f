-------------------------- MODULE RawsockTransport --------------------------
(***************************************************************************)
(* internal::RawsockTransport: framed messages over a socket, used by one  *)
(* Peer.                                                                   *)
(*                                                                         *)
(* The transport has at most one read and one write in progress.  The      *)
(* socket completes them in its own time ("ok" or "error"), and the        *)
(* completion handlers run later on the strand: between the two, the       *)
(* handler of the other operation, or the Peer, may close or destroy the   *)
(* socket.  What a read brings is not given to the handlers of Peer at     *)
(* once, but posted to the strand with a copy of the handler; a failed     *)
(* write calls Peer directly.  Frames are abstracted to a kind, a tag that *)
(* tells payloads apart, and whether they fit the limits of either side.   *)
(***************************************************************************)
EXTENDS Naturals, Sequences, FiniteSets, SequencesExt

CONSTANTS
    MaxSent,           \* bound: messages and pings the user sends
    MaxReceived,       \* bound: frames the peer sends
    LongPings          \* can the peer's pings be longer than maxTxLength?

ASSUME SentAssumption == MaxSent \in Nat /\ MaxReceived \in Nat
ASSUME LongPingsAssumption == LongPings \in BOOLEAN

VARIABLES
    socket,            \* socket_: open, closed, or null
    running,           \* running_
    listening,         \* rxHandler_ and txErrorHandler_ are set
    txQueue,           \* txQueue_
    txFrame,           \* txFrame_: the frame being written
    write,             \* the async_write in progress and its result
    read,              \* the async_read in progress and its result
    pingHandler,       \* pingHandler_: tag of the ping it was given for
    pingFrame,         \* pingFrame_
    sent,              \* history: frames passed to sendFrame
    wire,              \* history: frames the socket transmitted
    received,          \* history: number of frames the peer sent
    posted,            \* the calls of handlers that wait on strand_
    told,              \* history: the calls of handlers that were made
    fault              \* history: the first thing that went wrong

vars == << socket, running, listening, txQueue, txFrame, write, read,
           pingHandler, pingFrame, sent, wire, received, posted, told, fault >>

-----------------------------------------------------------------------------
(* Data *)

Frame(kind, tag, long) == [kind |-> kind, tag |-> tag, long |-> long]
NoFrame == Frame("none", 0, FALSE)
NoTag == 0

\* An operation of the socket: what it is for, and "none" (not started),
\* "pending", "ok" or "error".
Op(frame, stage, result) == [frame |-> frame, stage |-> stage, result |-> result]
NoOp == Op(NoFrame, "none", "none")

\* A call of one of Peer's handlers, or of the handler of a ping with a pong.
Note(what, ofPing, ofPong) == [what |-> what, ping |-> ofPing, pong |-> ofPong]
Message == Note("message", NoTag, NoTag)
Failure == Note("error", NoTag, NoTag)

\* What the peer may send: any kind of frame, well-formed or not.  "oversize"
\* is a header with more than maxRxLength, "bad" one with an unknown type.
RxKinds == {"wamp", "ping", "pong", "oversize", "bad"}

\* Closing or destroying the socket makes what is pending fail.
Aborted(op) == IF op.result = "pending" THEN [op EXCEPT !.result = "error"] ELSE op

Running == fault # "nullSocket"

-----------------------------------------------------------------------------
Init ==
    /\ socket = "open"
    /\ running = FALSE
    /\ listening = FALSE
    /\ txQueue = << >>
    /\ txFrame = NoFrame
    /\ write = NoOp
    /\ read = NoOp
    /\ pingHandler = NoTag
    /\ pingFrame = NoFrame
    /\ sent = << >>
    /\ wire = << >>
    /\ received = 0
    /\ posted = << >>
    /\ told = << >>
    /\ fault = "none"

-----------------------------------------------------------------------------
(* Transmitting *)

\* Mutant: does not look whether a write is in progress.
MutIsReadyToTransmit(queue, frame) == socket # "null" /\ queue # << >>

IsReadyToTransmit(queue, frame) ==
    /\ socket # "null"
    /\ frame = NoFrame
    /\ queue # << >>

\* transmit(): start writing the first frame of the queue.  A write on a socket
\* that close() closed fails at once.
Transmit(queue, frame, op) ==
    IF IsReadyToTransmit(queue, frame)
      THEN /\ txFrame' = Head(queue)
           /\ txQueue' = Tail(queue)
           /\ write' = Op(Head(queue), "frame",
                          IF socket = "open" THEN "pending" ELSE "error")
      ELSE /\ txFrame' = frame
           /\ txQueue' = queue
           /\ write' = op

\* sendFrame(): its two assertions, and what it does when they are compiled out.
SendFrame(frame) ==
    /\ sent' = Append(sent, frame)
    /\ fault' = IF socket = "null" THEN "sendOnBadTransport"
                ELSE IF frame.long THEN "frameTooLong" ELSE fault
    /\ Transmit(Append(txQueue, frame), txFrame, write)

\* send(): Peer checks the length before.
send ==
    /\ running /\ Running
    /\ Len(sent) < MaxSent
    /\ SendFrame(Frame("wamp", Len(sent) + 1, FALSE))
    /\ UNCHANGED << socket, running, listening, read, pingHandler, pingFrame,
                    wire, received, told, posted >>

ping ==
    LET frame == Frame("ping", Len(sent) + 1, FALSE)
    IN  /\ running /\ Running
        /\ Len(sent) < MaxSent
        /\ pingHandler' = frame.tag
        /\ pingFrame' = frame
        /\ SendFrame(frame)
        /\ UNCHANGED << socket, running, listening, read, wire, received, told,
                        posted >>

-----------------------------------------------------------------------------
(* Receiving *)

\* Mutant: waits for the next frame only when there is nothing to send.
MutReceive == read' = IF txQueue # << >> THEN NoOp ELSE Op(NoFrame, "header", "pending")

\* receive(): start reading a header.
Receive ==
    read' = IF socket = "null" THEN NoOp
            ELSE Op(NoFrame, "header", IF socket = "open" THEN "pending" ELSE "error")

start ==
    /\ ~running /\ Running
    /\ socket = "open"
    /\ listening' = TRUE
    /\ Receive
    /\ running' = TRUE
    /\ UNCHANGED << socket, txQueue, txFrame, write, pingHandler, pingFrame, sent,
                    wire, received, posted, told, fault >>

\* Mutant: the handlers stay in place.
MutCleanup ==
    /\ UNCHANGED listening
    /\ pingHandler' = NoTag
    /\ txQueue' = << >>
    /\ txFrame' = NoFrame
    /\ pingFrame' = NoFrame
    /\ socket' = "null"
    /\ write' = Aborted(write)

\* cleanup().  The write in progress, if any, is cancelled.
Cleanup ==
    /\ listening' = FALSE
    /\ pingHandler' = NoTag
    /\ txQueue' = << >>
    /\ txFrame' = NoFrame
    /\ pingFrame' = NoFrame
    /\ socket' = "null"
    /\ write' = Aborted(write)

\* post(): a copy of rxHandler_, if it is still there, with what it is given.
Tell(note) == posted' = IF listening THEN Append(posted, note) ELSE posted

\* check() with an error: it reports and cleans up.
ReadFails ==
    /\ Tell(Failure)
    /\ Cleanup
    /\ read' = NoOp
    /\ UNCHANGED << running, sent, wire, received, told, fault >>

RunReadError ==
    /\ read.result = "error" /\ Running
    /\ ReadFails

\* processHeader() rejects a frame.
RunBadHeader ==
    /\ read.stage = "header" /\ read.result = "ok" /\ Running
    /\ read.frame.kind \in {"oversize", "bad"}
    /\ ReadFails

\* receivePayload() uses the socket without looking whether it is still there.
RunHeader ==
    /\ read.stage = "header" /\ read.result = "ok" /\ Running
    /\ read.frame.kind \notin {"oversize", "bad"}
    /\ IF socket = "null"
         THEN read' = NoOp /\ fault' = "nullSocket"
         ELSE /\ read' = Op(read.frame, "payload",
                            IF socket = "open" THEN "pending" ELSE "error")
              /\ UNCHANGED fault
    /\ UNCHANGED << socket, running, listening, txQueue, txFrame, write,
                    pingHandler, pingFrame, sent, wire, received, told, posted >>

\* A payload that arrives after close() is dropped, and reading stops.
RunStalePayload ==
    /\ read.stage = "payload" /\ read.result = "ok" /\ Running
    /\ ~running
    /\ read' = NoOp
    /\ UNCHANGED << socket, running, listening, txQueue, txFrame, write,
                    pingHandler, pingFrame, sent, wire, received, posted, told, fault >>

RunWampPayload ==
    /\ read.stage = "payload" /\ read.result = "ok" /\ Running /\ running
    /\ read.frame.kind = "wamp"
    /\ Tell(Message)
    /\ Receive
    /\ UNCHANGED << socket, running, listening, txQueue, txFrame, write,
                    pingHandler, pingFrame, sent, wire, received, told, fault >>

\* sendPong().
RunPingPayload ==
    /\ read.stage = "payload" /\ read.result = "ok" /\ Running /\ running
    /\ read.frame.kind = "ping"
    /\ SendFrame(Frame("pong", read.frame.tag, read.frame.long))
    /\ Receive
    /\ UNCHANGED << socket, running, listening, pingHandler, pingFrame, wire,
                    received, told, posted >>

\* Mutant: any pong will do.
MutCanProcessPong(frame) == pingHandler # NoTag /\ pingFrame # NoFrame

CanProcessPong(frame) ==
    pingHandler # NoTag /\ pingFrame # NoFrame /\ frame.tag = pingFrame.tag

\* receivePong().
RunPongPayload ==
    /\ read.stage = "payload" /\ read.result = "ok" /\ Running /\ running
    /\ read.frame.kind = "pong"
    /\ IF CanProcessPong(read.frame)
         THEN /\ posted' = Append(posted, Note("pong", pingHandler, read.frame.tag))
              /\ pingHandler' = NoTag
         ELSE UNCHANGED << posted, pingHandler >>
    /\ pingFrame' = NoFrame
    /\ Receive
    /\ UNCHANGED << socket, running, listening, txQueue, txFrame, write, sent,
                    wire, received, told, fault >>

-----------------------------------------------------------------------------
(* Closing, and the completion of a write *)

\* close(), by Peer::close or Peer::fail.
Close ==
    /\ listening' = FALSE
    /\ txQueue' = << >>
    /\ running' = FALSE
    /\ read' = Aborted(read)

close ==
    /\ running /\ Running
    /\ Close
    /\ socket' = IF socket = "null" THEN "null" ELSE "closed"
    /\ write' = Aborted(write)
    /\ UNCHANGED << txFrame, pingHandler, pingFrame, sent, wire, received, told,
                    posted, fault >>

\* Mutant: what was queued during the write is left there.
MutRunWriteOk ==
    /\ write.result = "ok" /\ Running
    /\ txFrame' = NoFrame
    /\ write' = NoOp
    /\ UNCHANGED << socket, running, listening, txQueue, read, pingHandler, pingFrame,
                    sent, wire, received, posted, told, fault >>

RunWriteOk ==
    /\ write.result = "ok" /\ Running
    /\ Transmit(txQueue, NoFrame, NoOp)
    /\ UNCHANGED << socket, running, listening, read, pingHandler, pingFrame,
                    sent, wire, received, posted, told, fault >>

\* The write failed: Peer is told synchronously, ahead of what is posted, and
\* closes the transport (Peer::fail), and then the socket is destroyed.
RunWriteError ==
    /\ write.result = "error" /\ Running
    /\ txFrame' = NoFrame
    /\ IF listening
         THEN /\ Close
              /\ told' = Append(told, Failure)
         ELSE /\ txQueue' = << >>
              /\ read' = Aborted(read)
              /\ UNCHANGED << listening, running, told >>
    /\ socket' = "null"
    /\ write' = NoOp
    /\ UNCHANGED << pingHandler, pingFrame, sent, wire, received, posted, fault >>

\* The strand makes a call that was posted, though the transport may have been
\* closed since or have failed.  To an error Peer answers with close() (Peer::fail),
\* unless it has closed the transport before.
RunPosted ==
    /\ posted # << >> /\ Running
    /\ posted' = Tail(posted)
    /\ told' = Append(told, Head(posted))
    /\ IF Head(posted) = Failure
         THEN running' = FALSE /\ txQueue' = << >>
         ELSE UNCHANGED << running, txQueue >>
    /\ UNCHANGED << socket, listening, txFrame, write, read, pingHandler, pingFrame,
                    sent, wire, received, fault >>

-----------------------------------------------------------------------------
(* The socket, and the peer at its other end *)

SocketWrites ==
    /\ write.result = "pending" /\ Running
    /\ \/ write' = [write EXCEPT !.result = "ok"] /\ wire' = Append(wire, write.frame)
       \/ write' = [write EXCEPT !.result = "error"] /\ UNCHANGED wire
    /\ UNCHANGED << socket, running, listening, txQueue, txFrame, read,
                    pingHandler, pingFrame, sent, received, posted, told, fault >>

\* A pong carries the tag of a ping that was sent, or some other payload.
SocketReadsHeader ==
    /\ read.stage = "header" /\ read.result = "pending" /\ Running
    /\ received < MaxReceived
    /\ received' = received + 1
    /\ \E kind \in RxKinds, tag \in 1 .. MaxSent + 1, long \in BOOLEAN :
          /\ long => kind = "ping" /\ LongPings
          /\ tag > 1 => kind = "pong"
          /\ read' = Op(Frame(kind, tag, long), "header", "ok")
    /\ UNCHANGED << socket, running, listening, txQueue, txFrame, write,
                    pingHandler, pingFrame, sent, wire, told, posted, fault >>

SocketReadsPayload ==
    /\ read.stage = "payload" /\ read.result = "pending" /\ Running
    /\ read' = [read EXCEPT !.result = "ok"]
    /\ UNCHANGED << socket, running, listening, txQueue, txFrame, write, received,
                    pingHandler, pingFrame, sent, wire, told, posted, fault >>

\* The connection is lost.
SocketReadFails ==
    /\ read.result = "pending" /\ Running
    /\ read' = [read EXCEPT !.result = "error"]
    /\ UNCHANGED << socket, running, listening, txQueue, txFrame, write, received,
                    pingHandler, pingFrame, sent, wire, told, posted, fault >>

-----------------------------------------------------------------------------
UserOperation == start \/ send \/ ping \/ close

RunReadHandler ==
    \/ RunReadError
    \/ RunBadHeader
    \/ RunHeader
    \/ RunStalePayload
    \/ RunWampPayload
    \/ RunPingPayload
    \/ RunPongPayload

RunWriteHandler == RunWriteOk \/ RunWriteError

SocketStep ==
    \/ SocketWrites
    \/ SocketReadsHeader
    \/ SocketReadsPayload
    \/ SocketReadFails

Next == UserOperation \/ RunReadHandler \/ RunWriteHandler \/ RunPosted \/ SocketStep

Spec == Init /\ [][Next]_vars

\* The strand runs completion handlers, and writes end one way or the other.
FairSpec == Spec /\ WF_vars(RunReadHandler) /\ WF_vars(RunWriteHandler)
                 /\ WF_vars(SocketWrites)

-----------------------------------------------------------------------------
(* Properties *)

Frames == [kind : RxKinds, tag : 1 .. MaxSent + 1, long : BOOLEAN]
Notes == [what : {"message", "error", "pong"}, ping : 0 .. MaxSent, pong : 0 .. MaxSent + 1]
Ops == [frame : Frames \cup {NoFrame}, stage : {"none", "header", "payload", "frame"},
        result : {"none", "pending", "ok", "error"}]

\* Type invariant.
TypeOK ==
    /\ socket \in {"open", "closed", "null"}
    /\ running \in BOOLEAN /\ listening \in BOOLEAN
    /\ txQueue \in Seq(Frames)
    /\ txFrame \in Frames \cup {NoFrame}
    /\ write \in Ops /\ read \in Ops
    /\ pingHandler \in 0 .. MaxSent
    /\ pingFrame \in Frames \cup {NoFrame}
    /\ sent \in Seq(Frames) /\ wire \in Seq(Frames)
    /\ received \in 0 .. MaxReceived
    /\ posted \in Seq(Notes) /\ told \in Seq(Notes)
    /\ fault \in {"none", "sendOnBadTransport", "frameTooLong", "nullSocket"}

\* The peer at the other end gets a prefix of what was sent, in order: frames
\* are neither reordered, nor duplicated, nor lost between two others, whatever
\* mix of messages, pings and posted is sent while a write is in progress.
WireInOrder == IsPrefix(wire, sent)

Outside ==
    INSTANCE Channel WITH
        NoPing <- NoTag,
        stage <- IF listening THEN "open" ELSE IF socket = "open" THEN "new" ELSE "over",
        accepted <- sent, delivered <- wire,
        broken <- socket # "open" \/ write.result = "error",
        arrived <- posted, heard <- told, awaiting <- pingHandler

\* The transport is a channel to Peer.  Every frame that goes out is the first of
\* those passed to send(), ping() or sendPong() that has not, whatever was queued
\* while it was written; once a write has failed or the socket is closed, nothing
\* goes out any more.  What arrives does so between start() and close() or the one
\* failure that is reported, though reads and writes complete later, and the
\* handlers are given it in that order and once, some of it after that end: only
\* the error of a failed write does not wait for its turn.
ImplementsChannel == Outside!Spec

\* The reader does not stop: as long as the transport runs on an open socket,
\* a read is in progress.
ReaderAlive == running /\ socket = "open" => read # NoOp

\* The calls of handlers that were made and those that will be.
Calls == told \o posted

\* Peer is told of a failure at most once, whichever of the two operations fails
\* first, whether the other one fails as well and whoever closes the transport in
\* between; and nothing is received after a failure that waits to be told.
FailureToldOnce ==
    /\ \A i, j \in 1 .. Len(Calls) :
          Calls[i].what = "error" /\ Calls[j].what = "error" => i = j
    /\ \A i \in 1 .. Len(posted) : posted[i].what = "error" => i = Len(posted)

\* A ping handler is called with the pong of its own ping only, though a later
\* ping replaces the handler and the frame of an earlier one.
PongMatchesPing ==
    \A i \in 1 .. Len(Calls) : Calls[i].what = "pong" => Calls[i].ping = Calls[i].pong

\* Everything sent on a transport that neither fails nor is closed is written.
EventuallyWritten ==
    \A n \in 1 .. MaxSent :
        Len(sent) >= n ~> (Len(wire) >= n \/ socket # "open")

=============================================================================
