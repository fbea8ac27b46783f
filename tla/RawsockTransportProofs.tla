----------------------- MODULE RawsockTransportProofs -----------------------
(***************************************************************************)
(* Machine-checked proofs about RawsockTransport, for any number of frames *)
(* sent and received, with or without overlong pings.                      *)
(***************************************************************************)
EXTENDS RawsockTransport, SequenceTheorems, TLAPS

-----------------------------------------------------------------------------
(* The inductive invariant *)

\* What was passed to sendFrame and has not been transmitted yet.
Unwritten ==
    IF write.result = "pending" THEN << write.frame >> \o txQueue ELSE txQueue

\* One write at a time, of the frame that txFrame_ holds, and only on an open
\* socket; until it fails, nothing that was sent is missing.
WriterInv ==
    /\ write.result = "pending" => socket = "open" /\ write.frame \in Frames
    /\ socket # "null" => (txFrame = NoFrame <=> write.result = "none")
    /\ socket = "open" /\ write.result # "error" => sent = wire \o Unwritten
    /\ IsPrefix(wire, sent)

\* One read at a time; its frame is known once the header has been read.
ReaderInv ==
    /\ read.result = "none" <=> read.stage = "none"
    /\ read.stage = "payload" \/ read.result = "ok" => read.frame \in Frames
    /\ running /\ socket = "open" => read.result # "none"

\* At most one error was told or is posted, behind everything else that is, and the
\* transport that reported it has let go of its handlers and its socket.
ToldInv ==
    /\ \A i, j \in 1 .. Len(told) : told[i].what = "error" /\ told[j].what = "error" => i = j
    /\ \A i \in 1 .. Len(told), j \in 1 .. Len(posted) :
          ~(told[i].what = "error" /\ posted[j].what = "error")
    /\ \A i \in 1 .. Len(posted) : posted[i].what = "error" => i = Len(posted)
    /\ \A i \in 1 .. Len(told) : told[i].what = "error" => ~listening /\ socket = "null"
    /\ \A i \in 1 .. Len(posted) : posted[i].what = "error" => ~listening /\ socket = "null"

\* A call with a pong is one with its own ping.
Matched(note) == note.what = "pong" => note.ping = note.pong

\* The handler and the frame that the pong is compared with are of the same ping.
PingInv ==
    /\ pingHandler # NoTag /\ pingFrame # NoFrame => pingHandler = pingFrame.tag
    /\ \A i \in 1 .. Len(told) : Matched(told[i])
    /\ \A i \in 1 .. Len(posted) : Matched(posted[i])

\* The handlers are those of a transport that runs on an open socket, and without
\* that there is no read that could call them; before start() there is nothing.
StageInv ==
    /\ listening <=> running /\ socket = "open"
    /\ running /\ socket # "open" => read.result = "none"
    /\ ~running /\ socket = "open" => read.result = "none" /\ write.result = "none"

IndInv == TypeOK /\ WriterInv /\ ReaderInv /\ ToldInv /\ PingInv /\ StageInv

-----------------------------------------------------------------------------
(* Sequences of frames *)

\* A prefix in terms of elements.
LEMMA PrefixLemma ==
    ASSUME NEW S, NEW s \in Seq(S), NEW t \in Seq(S)
    PROVE  IsPrefix(s, t) <=> Len(s) <= Len(t) /\ \A i \in 1 .. Len(s) : s[i] = t[i]
BY DEF IsPrefix

\* What was transmitted stays a prefix when more is sent.
LEMMA PrefixAppend ==
    ASSUME NEW S, NEW s \in Seq(S), NEW t \in Seq(S), NEW e \in S, IsPrefix(s, t)
    PROVE  IsPrefix(s, Append(t, e))
<1>1. Append(t, e) \in Seq(S) /\ Len(Append(t, e)) = Len(t) + 1
      /\ \A i \in 1 .. Len(t) : Append(t, e)[i] = t[i]
  OBVIOUS
<1>2. Len(s) \in Nat /\ Len(t) \in Nat
  OBVIOUS
<1>3. Len(s) <= Len(t) /\ \A i \in 1 .. Len(s) : s[i] = t[i]
  BY PrefixLemma
<1>4. Len(s) <= Len(Append(t, e)) /\ \A i \in 1 .. Len(s) : s[i] = Append(t, e)[i]
  BY <1>1, <1>2, <1>3
<1> QED BY <1>1, <1>4, PrefixLemma

\* The frame that is transmitted next is the first one that was not.
LEMMA TransmittedLemma ==
    ASSUME NEW S, NEW w \in Seq(S), NEW e \in S, NEW q \in Seq(S)
    PROVE  /\ w \o (<< e >> \o q) = Append(w, e) \o q
           /\ IsPrefix(Append(w, e), w \o (<< e >> \o q))
<1>1. Append(w, e) = w \o << e >> /\ << e >> \in Seq(S) /\ Append(w, e) \in Seq(S)
  BY AppendIsConcat
<1>2. w \o (<< e >> \o q) = Append(w, e) \o q
  BY <1>1, ConcatAssociative
<1>3. /\ Append(w, e) \o q \in Seq(S)
      /\ Len(Append(w, e) \o q) = Len(Append(w, e)) + Len(q)
      /\ \A i \in 1 .. Len(Append(w, e)) + Len(q) :
            (Append(w, e) \o q)[i] = IF i <= Len(Append(w, e)) THEN Append(w, e)[i]
                                      ELSE q[i - Len(Append(w, e))]
  BY <1>1, ConcatProperties
<1>4. Len(Append(w, e)) \in Nat /\ Len(q) \in Nat
  BY <1>1
<1>5. IsPrefix(Append(w, e), Append(w, e) \o q)
  <2> DEFINE v == Append(w, e)
  <2> HIDE DEF v
  <2>1. Len(v) <= Len(v \o q) /\ \A i \in 1 .. Len(v) : v[i] = (v \o q)[i]
    BY <1>3, <1>4 DEF v
  <2> QED BY <2>1, <1>1, <1>3, PrefixLemma DEF v
<1> QED BY <1>2, <1>5

\* Appending to the queue appends to everything that was sent.
LEMMA QueuedLemma ==
    \A w, q \in Seq(Frames), e \in Frames : Append(w \o q, e) = w \o Append(q, e)
<1> TAKE w, q \in Seq(Frames), e \in Frames
<1>1. << e >> \in Seq(Frames) /\ w \o q \in Seq(Frames)
  BY ConcatProperties
<1>2. Append(w \o q, e) = (w \o q) \o << e >> /\ Append(q, e) = q \o << e >>
  BY <1>1, AppendIsConcat
<1> QED BY <1>1, <1>2, ConcatAssociative

-----------------------------------------------------------------------------
(* Types *)

\* Ending an operation of the socket only sets its result.
LEMMA ResultLemma ==
    ASSUME NEW op \in Ops, NEW r \in {"none", "pending", "ok", "error"}
    PROVE  /\ [op EXCEPT !.result = r] \in Ops
           /\ [op EXCEPT !.result = r].frame = op.frame
           /\ [op EXCEPT !.result = r].stage = op.stage
           /\ [op EXCEPT !.result = r].result = r
BY DEF Ops

\* Closing the socket fails an operation under way, and no other.
LEMMA AbortedLemma ==
    ASSUME NEW op \in Ops
    PROVE  /\ Aborted(op) \in Ops
           /\ Aborted(op).frame = op.frame
           /\ Aborted(op).stage = op.stage
           /\ Aborted(op).result = IF op.result = "pending" THEN "error" ELSE op.result
BY ResultLemma DEF Aborted

\* transmit() keeps the types.
LEMMA TransmitTypes ==
    ASSUME NEW queue \in Seq(Frames), NEW frame \in Frames \cup {NoFrame}, NEW op \in Ops,
           Transmit(queue, frame, op)
    PROVE  txQueue' \in Seq(Frames) /\ txFrame' \in Frames \cup {NoFrame} /\ write' \in Ops
<1>1. CASE IsReadyToTransmit(queue, frame)
  <2>1. Head(queue) \in Frames /\ Tail(queue) \in Seq(Frames)
    BY <1>1 DEF IsReadyToTransmit
  <2> QED BY <1>1, <2>1 DEF Transmit, Op, Ops
<1>2. CASE ~IsReadyToTransmit(queue, frame)
  BY <1>2 DEF Transmit
<1> QED BY <1>1, <1>2

\* Every step keeps the types, and what is known of the read in progress.
LEMMA TypeStep == IndInv /\ [Next]_vars => TypeOK' /\ ReaderInv'
<1> SUFFICES ASSUME IndInv, [Next]_vars PROVE TypeOK' /\ ReaderInv'
  OBVIOUS
<1> USE SentAssumption DEF TypeOK, ReaderInv
<1>00. << >> \in Seq(Frames)
  OBVIOUS
<1>01. Message \in Notes /\ Failure \in Notes
  BY DEF Message, Failure, Note, Notes, NoTag
<1>0. /\ NoOp \in Ops /\ NoOp.result = "none" /\ NoOp.stage = "none"
      /\ \A op \in Ops : op.frame \in Frames \cup {NoFrame}
  BY DEF Ops, NoOp, Op
<1>1. ASSUME NEW f \in Frames, SendFrame(f)
      PROVE  /\ txQueue' \in Seq(Frames) /\ txFrame' \in Frames \cup {NoFrame}
             /\ write' \in Ops /\ sent' \in Seq(Frames)
             /\ fault' \in {"none", "sendOnBadTransport", "frameTooLong", "nullSocket"}
  <2>1. Append(txQueue, f) \in Seq(Frames) /\ Append(sent, f) \in Seq(Frames)
    BY DEF IndInv
  <2> QED BY <1>1, <2>1, TransmitTypes DEF IndInv, SendFrame
<1>2. ASSUME Receive PROVE read' \in Ops /\ (read'.result = "none" <=> read'.stage = "none")
                           /\ read'.stage # "payload" /\ read'.result # "ok"
                           /\ (socket = "open" => read'.result # "none")
  BY <1>2 DEF Receive, Ops, Op, NoOp
<1>3. CASE start
  BY <1>2, <1>3 DEF start, IndInv
<1>4. CASE send
  <2>1. Frame("wamp", Len(sent) + 1, FALSE) \in Frames
    BY <1>4 DEF send, Frame, Frames, RxKinds, IndInv
  <2> QED BY <1>1, <1>4, <2>1 DEF send, IndInv
<1>5. CASE ping
  <2> DEFINE f == Frame("ping", Len(sent) + 1, FALSE)
  <2>1. f \in Frames /\ f.tag \in 0 .. MaxSent
    BY <1>5 DEF ping, Frame, Frames, RxKinds, IndInv
  <2>2. /\ SendFrame(f) /\ pingHandler' = f.tag /\ pingFrame' = f
        /\ UNCHANGED << socket, running, listening, read, wire, received, posted, told >>
    BY <1>5 DEF ping
  <2> HIDE DEF f
  <2> QED BY <1>1, <2>1, <2>2 DEF IndInv
<1>6. CASE close
  <2>1. /\ Aborted(read) \in Ops /\ Aborted(write) \in Ops
        /\ Aborted(read).frame = read.frame /\ Aborted(read).stage = read.stage
        /\ Aborted(read).result = IF read.result = "pending" THEN "error" ELSE read.result
    BY AbortedLemma DEF IndInv
  <2>2. /\ socket' \in {"closed", "null"} /\ running' = FALSE /\ listening' = FALSE
        /\ txQueue' = << >> /\ write' = Aborted(write) /\ read' = Aborted(read)
        /\ UNCHANGED << txFrame, pingHandler, pingFrame, sent, wire, received, told,
                        posted, fault >>
    BY <1>6 DEF close, Close
  <2> HIDE DEF TypeOK, ReaderInv
  <2>3. TypeOK'
    BY <1>00, <2>1, <2>2 DEF IndInv, TypeOK
  <2>4. ReaderInv'
    BY <2>1, <2>2 DEF IndInv, ReaderInv
  <2> QED BY <2>3, <2>4
<1>7. CASE RunReadError \/ RunBadHeader
  <2>1. Aborted(write) \in Ops
    BY AbortedLemma DEF IndInv
  <2>2. ReadFails
    BY <1>7 DEF RunReadError, RunBadHeader
  <2>3. posted' \in Seq(Notes)
    BY <2>2, <1>01 DEF ReadFails, Tell, IndInv
  <2>4. TypeOK'
    <3>1. /\ socket' = "null" /\ listening' = FALSE /\ txQueue' = << >> /\ txFrame' = NoFrame
          /\ pingHandler' = 0 /\ pingFrame' = NoFrame /\ write' = Aborted(write) /\ read' = NoOp
          /\ UNCHANGED << running, sent, wire, received, told, fault >>
      BY <2>2 DEF ReadFails, Cleanup, NoTag
    <3> HIDE DEF TypeOK, ReaderInv
    <3>2. 0 \in 0 .. MaxSent
      OBVIOUS
    <3> QED BY <1>00, <1>0, <2>1, <2>3, <3>1, <3>2 DEF IndInv, TypeOK
  <2>5. ReaderInv'
    BY <1>0, <2>2 DEF ReadFails, Cleanup
  <2> QED BY <2>4, <2>5
<1>8. CASE RunHeader \/ RunStalePayload
  <2>1. CASE RunStalePayload
    BY <1>0, <2>1 DEF RunStalePayload, IndInv
  <2>2. CASE RunHeader
    <3>1. \A r \in {"pending", "error"} :
            /\ Op(read.frame, "payload", r) \in Ops
            /\ Op(read.frame, "payload", r).result = r
            /\ Op(read.frame, "payload", r).stage = "payload"
            /\ Op(read.frame, "payload", r).frame = read.frame
      BY DEF Ops, Op, IndInv
    <3> QED BY <1>0, <2>2, <3>1 DEF RunHeader, IndInv
  <2> QED BY <1>8, <2>1, <2>2
<1>9. CASE RunWampPayload
  BY <1>01, <1>2, <1>9 DEF RunWampPayload, Tell, IndInv
<1>10. CASE RunPingPayload
  <2>1. Frame("pong", read.frame.tag, read.frame.long) \in Frames
    BY <1>10 DEF RunPingPayload, Frame, Frames, RxKinds, IndInv
  <2> QED BY <1>1, <1>2, <1>10, <2>1 DEF RunPingPayload, IndInv
<1>11. CASE RunPongPayload
  <2>1. read.frame.tag \in 1 .. MaxSent + 1
    BY <1>11 DEF RunPongPayload, Frames, IndInv
  <2>2. Note("pong", pingHandler, read.frame.tag) \in Notes
    BY <2>1 DEF Note, Notes, IndInv
  <2>3. posted' \in Seq(Notes)
    <3>1. posted \in Seq(Notes) /\ Append(posted, Note("pong", pingHandler, read.frame.tag)) \in Seq(Notes)
      BY <2>2 DEF IndInv
    <3> QED BY <1>11, <3>1 DEF RunPongPayload
  <2> QED BY <1>2, <1>11, <2>3 DEF RunPongPayload, NoTag, IndInv
<1>12. CASE RunWriteOk
  BY <1>0, <1>12, TransmitTypes DEF RunWriteOk, IndInv
<1>13. CASE RunWriteError
  <2>1. /\ Aborted(read) \in Ops
        /\ Aborted(read).frame = read.frame /\ Aborted(read).stage = read.stage
        /\ Aborted(read).result = IF read.result = "pending" THEN "error" ELSE read.result
    BY AbortedLemma DEF IndInv
  <2>2. /\ socket' = "null" /\ running' \in BOOLEAN /\ listening' \in BOOLEAN
        /\ told' \in Seq(Notes) /\ posted' = posted
        /\ txQueue' = << >> /\ txFrame' = NoFrame /\ write' = NoOp /\ read' = Aborted(read)
        /\ UNCHANGED << pingHandler, pingFrame, sent, wire, received, fault >>
    <3>1. Append(told, Failure) \in Seq(Notes)
      BY <1>01 DEF IndInv
    <3> QED BY <1>13, <3>1 DEF RunWriteError, Close, IndInv
  <2> HIDE DEF TypeOK, ReaderInv
  <2>3. TypeOK'
    BY <1>00, <1>0, <2>1, <2>2 DEF IndInv, TypeOK
  <2>4. ReaderInv'
    BY <2>1, <2>2 DEF IndInv, ReaderInv
  <2> QED BY <2>3, <2>4
<1>14. CASE SocketWrites
  <2>1. write \in Ops /\ write.frame \in Frames
    BY <1>14 DEF SocketWrites, WriterInv, IndInv
  <2>2. write' \in Ops
    BY <1>14, <2>1, ResultLemma DEF SocketWrites
  <2>3. wire' \in Seq(Frames)
    <3>1. wire \in Seq(Frames) /\ Append(wire, write.frame) \in Seq(Frames)
      BY <2>1 DEF IndInv
    <3>2. wire' = wire \/ wire' = Append(wire, write.frame)
      BY <1>14 DEF SocketWrites
    <3> QED BY <3>1, <3>2
  <2>4. UNCHANGED << socket, running, listening, txQueue, txFrame, read, pingHandler,
                     pingFrame, sent, received, posted, told, fault >>
    BY <1>14 DEF SocketWrites
  <2> QED BY <2>2, <2>3, <2>4 DEF IndInv
<1>15. CASE SocketReadsHeader
  <2>1. PICK f \in Frames : read' = Op(f, "header", "ok")
    BY <1>15 DEF SocketReadsHeader, Frame, Frames
  <2>2. read' \in Ops /\ read'.frame = f /\ read'.stage = "header" /\ read'.result = "ok"
    BY <2>1 DEF Ops, Op
  <2> QED BY <1>15, <2>2 DEF SocketReadsHeader, IndInv
<1>16. CASE SocketReadsPayload \/ SocketReadFails
  <2>1. read \in Ops
    BY DEF IndInv
  <2>2. /\ read' \in Ops /\ read'.result \in {"ok", "error"}
        /\ read'.stage = read.stage /\ read'.frame = read.frame
        /\ read.result # "none" /\ (read'.result = "ok" => read.stage = "payload")
    <3>1. CASE SocketReadsPayload
      <4>1. read' = [read EXCEPT !.result = "ok"] /\ read.stage = "payload" /\ read.result = "pending"
        BY <3>1 DEF SocketReadsPayload
      <4> QED BY <2>1, <4>1, ResultLemma
    <3>2. CASE SocketReadFails
      <4>1. read' = [read EXCEPT !.result = "error"] /\ read.result = "pending"
        BY <3>2 DEF SocketReadFails
      <4> QED BY <2>1, <4>1, ResultLemma
    <3> QED BY <1>16, <3>1, <3>2
  <2>3. UNCHANGED << socket, running, listening, txQueue, txFrame, write, received,
                     pingHandler, pingFrame, sent, wire, posted, told, fault >>
    BY <1>16 DEF SocketReadsPayload, SocketReadFails
  <2> QED BY <2>2, <2>3 DEF IndInv
<1>17. CASE UNCHANGED vars
  BY <1>17 DEF vars, IndInv
<1>18. CASE RunPosted
  <2>1. Head(posted) \in Notes /\ Tail(posted) \in Seq(Notes)
    BY <1>18 DEF RunPosted, IndInv
  <2>2. Append(told, Head(posted)) \in Seq(Notes)
    BY <2>1 DEF IndInv
  <2>3. running' \in BOOLEAN /\ txQueue' \in Seq(Frames) /\ (running' => running)
    BY <1>00, <1>18 DEF RunPosted, IndInv
  <2>4. /\ posted' = Tail(posted) /\ told' = Append(told, Head(posted))
        /\ UNCHANGED << socket, listening, txFrame, write, read, pingHandler, pingFrame,
                        sent, wire, received, fault >>
    BY <1>18 DEF RunPosted
  <2> QED BY <2>1, <2>2, <2>3, <2>4 DEF IndInv
<1> QED BY <1>3, <1>4, <1>5, <1>6, <1>7, <1>8, <1>9, <1>10, <1>11, <1>12, <1>13, <1>14,
           <1>15, <1>16, <1>17, <1>18
        DEF Next, UserOperation, RunReadHandler, RunWriteHandler, SocketStep

-----------------------------------------------------------------------------
(* Reporting *)

\* Every step keeps what is known of the reports to Peer.
LEMMA ToldStep == IndInv /\ [Next]_vars => ToldInv'
<1> SUFFICES ASSUME IndInv, [Next]_vars PROVE ToldInv'
  OBVIOUS
<1>0. told \in Seq(Notes) /\ posted \in Seq(Notes) /\ ToldInv
      /\ Message \in Notes /\ Failure \in Notes
      /\ Message.what = "message" /\ Failure.what = "error"
  BY SentAssumption DEF IndInv, TypeOK, Message, Failure, Note, Notes, NoTag
<1>1. CASE UNCHANGED << told, posted >> /\ (socket = "null" => socket' = "null")
           /\ (listening' => listening \/ socket = "open")
  BY <1>0, <1>1 DEF ToldInv
<1>2. ASSUME NEW note \in Notes, listening, UNCHANGED told, posted' = Append(posted, note),
             note.what = "error" => ~listening' /\ socket' = "null"
      PROVE  ToldInv'
  <2>1. /\ \A i \in 1 .. Len(told) : told[i].what # "error"
        /\ \A i \in 1 .. Len(posted) : posted[i].what # "error"
    BY <1>0, <1>2 DEF ToldInv
  <2>2. /\ Len(posted') = Len(posted) + 1 /\ Len(posted) \in Nat
        /\ \A i \in 1 .. Len(posted) : posted'[i] = posted[i]
        /\ posted'[Len(posted) + 1] = note
    BY <1>0, <1>2
  <2>3. \A i \in 1 .. Len(posted') : posted'[i].what = "error" => i = Len(posted') /\ note.what = "error"
    BY <2>1, <2>2
  <2> QED BY <1>2, <2>1, <2>3 DEF ToldInv
<1>3. CASE RunReadError \/ RunBadHeader
  <2>1. /\ listening' = FALSE /\ socket' = "null" /\ told' = told
        /\ posted' = IF listening THEN Append(posted, Failure) ELSE posted
    BY <1>3 DEF RunReadError, RunBadHeader, ReadFails, Cleanup, Tell
  <2> QED BY <1>0, <1>1, <1>2, <2>1
<1>4. CASE RunWampPayload
  <2>1. /\ UNCHANGED << told, socket, listening >>
        /\ posted' = IF listening THEN Append(posted, Message) ELSE posted
    BY <1>4 DEF RunWampPayload, Tell
  <2> QED BY <1>0, <1>1, <1>2, <2>1
<1>5. CASE RunPongPayload
  <2> DEFINE note == Note("pong", pingHandler, read.frame.tag)
  <2>1. /\ UNCHANGED << told, socket, listening >> /\ posted' \in {posted, Append(posted, note)}
        /\ listening
    BY <1>5 DEF RunPongPayload, IndInv, StageInv
  <2>2. note \in Notes /\ note.what = "pong"
    BY <1>5 DEF RunPongPayload, IndInv, ReaderInv, TypeOK, Frames, Note, Notes
  <2> HIDE DEF note
  <2> QED BY <1>1, <1>2, <2>1, <2>2
<1>6. CASE RunWriteError
  <2>1. CASE ~listening
    BY <1>1, <1>6, <2>1 DEF RunWriteError
  <2>2. CASE listening
    <3>1. listening' = FALSE /\ socket' = "null" /\ told' = Append(told, Failure) /\ posted' = posted
      BY <1>6, <2>2 DEF RunWriteError, Close
    <3>2. /\ \A i \in 1 .. Len(told) : told[i].what # "error"
          /\ \A i \in 1 .. Len(posted) : posted[i].what # "error"
      BY <1>0, <2>2 DEF ToldInv
    <3>3. /\ Len(told') = Len(told) + 1 /\ Len(told) \in Nat
          /\ \A i \in 1 .. Len(told) : told'[i] = told[i]
      BY <1>0, <3>1
    <3>4. \A i \in 1 .. Len(told') : told'[i].what = "error" => i = Len(told')
      BY <3>2, <3>3
    <3> QED BY <3>1, <3>2, <3>4 DEF ToldInv
  <2> QED BY <2>1, <2>2
<1>7. CASE RunPosted
  <2>1. /\ posted # << >> /\ posted' = Tail(posted) /\ told' = Append(told, Head(posted))
        /\ UNCHANGED << socket, listening >>
    BY <1>7 DEF RunPosted
  <2>2. /\ Len(posted) \in Nat /\ Len(posted) > 0 /\ Len(told) \in Nat
        /\ Len(posted') = Len(posted) - 1 /\ Len(told') = Len(told) + 1
        /\ \A i \in 1 .. Len(posted') : posted'[i] = posted[i + 1]
        /\ \A i \in 1 .. Len(told) : told'[i] = told[i]
        /\ told'[Len(told) + 1] = posted[1]
    BY <1>0, <2>1
  <2>3. CASE posted[1].what = "error"
    <3>1. Len(posted') = 0 /\ ~listening /\ socket = "null"
          /\ \A i \in 1 .. Len(told) : told[i].what # "error"
      BY <1>0, <2>2, <2>3 DEF ToldInv
    <3>2. \A i \in 1 .. Len(told') : told'[i].what = "error" => i = Len(told')
      BY <2>2, <3>1
    <3>3. Len(posted') = 0 /\ ~listening' /\ socket' = "null"
      BY <2>1, <3>1
    <3> QED BY <3>2, <3>3 DEF ToldInv
  <2>4. CASE posted[1].what # "error"
    <3>1. \A i \in 1 .. Len(told') : told'[i].what = "error" => i \in 1 .. Len(told) /\ told[i].what = "error"
      BY <2>2, <2>4
    <3>2. \A i \in 1 .. Len(posted') :
             posted'[i].what = "error" => i + 1 \in 1 .. Len(posted) /\ posted[i + 1].what = "error"
      BY <2>2
    <3>3. \A i \in 1 .. Len(posted') : posted'[i].what = "error" => i = Len(posted')
      BY <1>0, <2>2, <3>2 DEF ToldInv
    <3>4. \A i, j \in 1 .. Len(told') : told'[i].what = "error" /\ told'[j].what = "error" => i = j
      BY <1>0, <3>1 DEF ToldInv
    <3>5. \A i \in 1 .. Len(told'), j \in 1 .. Len(posted') :
             ~(told'[i].what = "error" /\ posted'[j].what = "error")
      BY <1>0, <3>1, <3>2 DEF ToldInv
    <3>6. \A i \in 1 .. Len(told') : told'[i].what = "error" => ~listening' /\ socket' = "null"
      BY <1>0, <2>1, <3>1 DEF ToldInv
    <3>7. \A i \in 1 .. Len(posted') : posted'[i].what = "error" => ~listening' /\ socket' = "null"
      BY <1>0, <2>1, <3>2 DEF ToldInv
    <3> QED BY <3>3, <3>4, <3>5, <3>6, <3>7 DEF ToldInv
  <2> QED BY <2>3, <2>4
<1>8. CASE start \/ close
  BY <1>1, <1>8 DEF start, close, Close
<1>9. CASE \/ send \/ ping \/ RunHeader \/ RunStalePayload \/ RunPingPayload
           \/ RunWriteOk \/ SocketStep \/ UNCHANGED vars
  <2>1. CASE send \/ ping \/ RunPingPayload \/ RunWriteOk
    BY <1>1, <2>1 DEF send, ping, RunPingPayload, RunWriteOk
  <2>2. CASE RunHeader \/ RunStalePayload
    BY <1>1, <2>2 DEF RunHeader, RunStalePayload
  <2>3. CASE SocketStep
    BY <1>1, <2>3 DEF SocketStep, SocketWrites, SocketReadsHeader, SocketReadsPayload, SocketReadFails
  <2>4. CASE UNCHANGED vars
    BY <1>1, <2>4 DEF vars
  <2> QED BY <1>9, <2>1, <2>2, <2>3, <2>4
<1> QED BY <1>3, <1>4, <1>5, <1>6, <1>7, <1>8, <1>9
        DEF Next, UserOperation, RunReadHandler, RunWriteHandler

-----------------------------------------------------------------------------
(* Pinging *)

\* Every step keeps the handler and the frame of a ping together.
LEMMA PingStep == IndInv /\ [Next]_vars => PingInv'
<1> SUFFICES ASSUME IndInv, [Next]_vars PROVE PingInv'
  OBVIOUS
<1>0. /\ told \in Seq(Notes) /\ posted \in Seq(Notes) /\ PingInv
      /\ Message \in Notes /\ Failure \in Notes /\ Matched(Message) /\ Matched(Failure)
  BY SentAssumption DEF IndInv, TypeOK, Message, Failure, Note, Notes, NoTag, Matched
<1> DEFINE Sound(s) == \A i \in 1 .. Len(s) : Matched(s[i])
<1>1. Sound(told) /\ Sound(posted)
  BY <1>0 DEF PingInv
<1>2. ASSUME Sound(told'), Sound(posted'),
             pingHandler' # NoTag /\ pingFrame' # NoFrame => pingHandler' = pingFrame'.tag
      PROVE  PingInv'
  BY <1>2 DEF PingInv, Matched
<1>3. ASSUME NEW s \in Seq(Notes), Sound(s), NEW note \in Notes, Matched(note)
      PROVE  Sound(Append(s, note))
  <2>1. /\ Len(Append(s, note)) = Len(s) + 1 /\ Len(s) \in Nat
        /\ \A i \in 1 .. Len(s) : Append(s, note)[i] = s[i]
        /\ Append(s, note)[Len(s) + 1] = note
    OBVIOUS
  <2> QED BY <1>3, <2>1
<1> HIDE DEF Sound
<1>4. CASE ping
  <2>1. pingHandler' = Len(sent) + 1 /\ pingFrame'.tag = Len(sent) + 1 /\ UNCHANGED << posted, told >>
    BY <1>4 DEF ping, Frame
  <2> QED BY <1>1, <1>2, <2>1
<1>5. CASE RunPongPayload
  <2>1. pingFrame' = NoFrame /\ told' = told
    BY <1>5 DEF RunPongPayload
  <2>2. CASE CanProcessPong(read.frame)
    <3>1. posted' = Append(posted, Note("pong", pingHandler, read.frame.tag))
      BY <1>5, <2>2 DEF RunPongPayload
    <3>2. pingHandler = read.frame.tag
      BY <1>0, <2>2 DEF CanProcessPong, PingInv
    <3>3. Note("pong", pingHandler, read.frame.tag) \in Notes
          /\ Matched(Note("pong", pingHandler, read.frame.tag))
      BY <1>5, <3>2 DEF RunPongPayload, IndInv, ReaderInv, TypeOK, Frames, Note, Notes, Matched
    <3> QED BY <1>0, <1>1, <1>2, <1>3, <2>1, <3>1, <3>3
  <2>3. CASE ~CanProcessPong(read.frame)
    BY <1>1, <1>2, <1>5, <2>1, <2>3 DEF RunPongPayload
  <2> QED BY <2>2, <2>3
<1>6. CASE RunReadError \/ RunBadHeader
  <2>1. /\ posted' = (IF listening THEN Append(posted, Failure) ELSE posted)
        /\ told' = told /\ pingHandler' = NoTag
    BY <1>6 DEF RunReadError, RunBadHeader, ReadFails, Cleanup, Tell
  <2> QED BY <1>0, <1>1, <1>2, <1>3, <2>1
<1>7. CASE RunWampPayload
  <2>1. /\ posted' = (IF listening THEN Append(posted, Message) ELSE posted)
        /\ UNCHANGED << told, pingHandler, pingFrame >>
    BY <1>7 DEF RunWampPayload, Tell
  <2> QED BY <1>0, <1>1, <1>2, <1>3, <2>1 DEF PingInv
<1>8. CASE RunWriteError
  <2>1. /\ told' = (IF listening THEN Append(told, Failure) ELSE told)
        /\ UNCHANGED << posted, pingHandler, pingFrame >>
    BY <1>8 DEF RunWriteError
  <2> QED BY <1>0, <1>1, <1>2, <1>3, <2>1 DEF PingInv
<1>9. CASE RunPosted
  <2>1. /\ posted # << >> /\ posted' = Tail(posted) /\ told' = Append(told, Head(posted))
        /\ UNCHANGED << pingHandler, pingFrame >>
    BY <1>9 DEF RunPosted
  <2>2. Head(posted) \in Notes /\ Matched(Head(posted)) /\ Sound(Tail(posted))
    <3>1. /\ Len(posted) \in Nat /\ Len(posted) > 0 /\ Head(posted) = posted[1] /\ Head(posted) \in Notes
          /\ Len(Tail(posted)) = Len(posted) - 1
          /\ \A i \in 1 .. Len(Tail(posted)) : Tail(posted)[i] = posted[i + 1]
      BY <1>0, <2>1
    <3>2. \A i \in 1 .. Len(Tail(posted)) : i + 1 \in 1 .. Len(posted)
      BY <3>1
    <3> QED BY <1>1, <3>1, <3>2 DEF Sound
  <2> QED BY <1>0, <1>1, <1>2, <1>3, <2>1, <2>2 DEF PingInv
<1>10. CASE UNCHANGED << pingHandler, pingFrame, posted, told >>
  BY <1>0, <1>1, <1>2, <1>10 DEF PingInv
<1>11. CASE \/ start \/ send \/ close \/ RunHeader \/ RunStalePayload
            \/ RunPingPayload \/ RunWriteOk \/ SocketStep \/ UNCHANGED vars
  BY <1>10, <1>11
     DEF start, send, close, RunHeader, RunStalePayload, RunPingPayload,
         RunWriteOk, SocketStep, SocketWrites,
         SocketReadsHeader, SocketReadsPayload, SocketReadFails, vars
<1> QED BY <1>4, <1>5, <1>6, <1>7, <1>8, <1>9, <1>11
        DEF Next, UserOperation, RunReadHandler, RunWriteHandler

-----------------------------------------------------------------------------
(* Writing *)

\* When Peer hears of an error that was posted, the transport has no socket.
LEMMA ErrorLeaves ==
    ASSUME IndInv, posted # << >>, Head(posted) = Failure
    PROVE  socket = "null" /\ ~listening
<1>1. posted \in Seq(Notes) /\ ToldInv
  BY DEF IndInv, TypeOK
<1>2. 1 \in 1 .. Len(posted) /\ posted[1].what = "error"
  BY <1>1 DEF Failure, Note
<1> QED BY <1>1, <1>2 DEF ToldInv

\* transmit() keeps the queue and the write in step, when everything sent so far
\* has either been transmitted or is in the queue, behind the write if there is one.
LEMMA TransmitInv ==
    ASSUME TypeOK,
           NEW queue \in Seq(Frames), NEW frame \in Frames \cup {NoFrame}, NEW op \in Ops,
           Transmit(queue, frame, op), socket' = socket, wire' = wire,
           sent' \in Seq(Frames), IsPrefix(wire, sent'),
           op.result = "pending" => socket = "open" /\ op.frame \in Frames,
           socket # "null" => (frame = NoFrame <=> op.result = "none"),
           socket = "open" /\ op.result # "error"
             => sent' = wire \o (IF op.result = "pending" THEN << op.frame >> \o queue ELSE queue)
    PROVE  WriterInv'
<1>0. NoFrame \notin Frames
  BY DEF NoFrame, Frame, Frames, RxKinds
<1>1. CASE IsReadyToTransmit(queue, frame)
  <2>1. /\ Head(queue) \in Frames /\ socket # "null" /\ op.result = "none"
        /\ queue = << Head(queue) >> \o Tail(queue)
    BY <1>1 DEF IsReadyToTransmit
  <2>2. /\ txFrame' = Head(queue) /\ txQueue' = Tail(queue)
        /\ write'.frame = Head(queue)
        /\ write'.result = IF socket = "open" THEN "pending" ELSE "error"
    BY <1>1 DEF Transmit, Op
  <2>3. socket = "open" => sent' = wire' \o Unwritten'
    BY <2>1, <2>2 DEF Unwritten
  <2> QED BY <1>0, <2>1, <2>2, <2>3 DEF WriterInv
<1>2. CASE ~IsReadyToTransmit(queue, frame)
  <2>1. txFrame' = frame /\ txQueue' = queue /\ write' = op
    BY <1>2 DEF Transmit
  <2> QED BY <2>1 DEF WriterInv, Unwritten
<1> QED BY <1>1, <1>2

\* sendFrame() queues the frame behind everything that was sent before.
LEMMA SendFrameInv ==
    ASSUME IndInv, NEW f \in Frames, SendFrame(f), socket' = socket, wire' = wire
    PROVE  WriterInv'
<1>1. /\ txQueue \in Seq(Frames) /\ sent \in Seq(Frames) /\ wire \in Seq(Frames)
      /\ txFrame \in Frames \cup {NoFrame} /\ write \in Ops
  BY DEF IndInv, TypeOK
<1>2. /\ sent' = Append(sent, f)
      /\ Transmit(Append(txQueue, f), txFrame, write)
      /\ Append(txQueue, f) \in Seq(Frames) /\ Append(sent, f) \in Seq(Frames)
  BY <1>1 DEF SendFrame
<1>3. IsPrefix(wire, sent')
  BY <1>1, <1>2, PrefixAppend DEF IndInv, WriterInv
<1>4. ASSUME socket = "open", write.result # "error"
      PROVE  sent' = wire \o (IF write.result = "pending"
                                THEN << write.frame >> \o Append(txQueue, f)
                                ELSE Append(txQueue, f))
  <2>0. \A w, q \in Seq(Frames) : Append(w \o q, f) = w \o Append(q, f)
    BY QueuedLemma
  <2>1. sent = wire \o Unwritten
    BY <1>4 DEF IndInv, WriterInv
  <2>2. CASE write.result = "pending"
    <3>1. write.frame \in Frames /\ << write.frame >> \in Seq(Frames)
      BY <2>2 DEF IndInv, WriterInv
    <3>2. << write.frame >> \o txQueue \in Seq(Frames)
      BY <1>1, <3>1, ConcatProperties
    <3>3. Append(<< write.frame >> \o txQueue, f) = << write.frame >> \o Append(txQueue, f)
      BY <1>1, <3>1, QueuedLemma
    <3>4. Append(wire \o (<< write.frame >> \o txQueue), f)
            = wire \o Append(<< write.frame >> \o txQueue, f)
      BY <1>1, <3>2, <2>0
    <3> QED BY <1>2, <2>1, <2>2, <3>3, <3>4 DEF Unwritten
  <2>3. CASE write.result # "pending"
    <3>1. Append(wire \o txQueue, f) = wire \o Append(txQueue, f)
      BY <1>1, <2>0
    <3> QED BY <1>2, <2>1, <2>3, <3>1 DEF Unwritten
  <2> QED BY <2>2, <2>3
<1> QED BY <1>1, <1>2, <1>3, <1>4, TransmitInv DEF IndInv, WriterInv

\* Every step keeps the queue, the write and the wire in step.
LEMMA WriterStep == IndInv /\ [Next]_vars => WriterInv'
<1> SUFFICES ASSUME IndInv, [Next]_vars PROVE WriterInv'
  OBVIOUS
<1>0. /\ txQueue \in Seq(Frames) /\ sent \in Seq(Frames) /\ wire \in Seq(Frames)
      /\ txFrame \in Frames \cup {NoFrame} /\ write \in Ops /\ WriterInv
      /\ NoOp \in Ops /\ NoOp.result = "none" /\ TypeOK /\ ReaderInv
  BY DEF IndInv, TypeOK, NoOp, Op, Ops
<1>1. CASE send \/ ping
  <2>1. \A k \in {"wamp", "ping"} : Len(sent) < MaxSent => Frame(k, Len(sent) + 1, FALSE) \in Frames
    BY <1>0, SentAssumption DEF Frame, Frames, RxKinds
  <2> QED BY <1>1, <2>1, SendFrameInv DEF send, ping
<1>2. CASE RunPingPayload
  <2>1. Frame("pong", read.frame.tag, read.frame.long) \in Frames
    BY <1>0, <1>2 DEF RunPingPayload, Frame, Frames, RxKinds, ReaderInv
  <2> QED BY <1>2, <2>1, SendFrameInv DEF RunPingPayload
<1>3. CASE RunWriteOk
  <2>1. IsPrefix(wire, sent') /\ sent' = sent
    BY <1>0, <1>3 DEF RunWriteOk, WriterInv
  <2>2. socket = "open" => sent' = wire \o txQueue
    BY <1>0, <1>3 DEF RunWriteOk, WriterInv, Unwritten
  <2> QED BY <1>0, <1>3, <2>1, <2>2, TransmitInv DEF RunWriteOk
<1>4. ASSUME socket' # "open", wire' = wire, sent' = sent,
             write'.result # "pending",
             socket' # "null" => (txFrame' = NoFrame <=> write'.result = "none")
      PROVE  WriterInv'
  BY <1>0, <1>4 DEF WriterInv
<1>5. CASE close
  <2>1. Aborted(write).result = IF write.result = "pending" THEN "error" ELSE write.result
    BY <1>0, AbortedLemma
  <2>2. /\ socket' = (IF socket = "null" THEN "null" ELSE "closed")
        /\ write' = Aborted(write) /\ txFrame' = txFrame /\ wire' = wire /\ sent' = sent
    BY <1>5 DEF close
  <2> QED BY <1>0, <1>4, <2>1, <2>2 DEF WriterInv
<1>6. CASE RunReadError \/ RunBadHeader
  <2>1. Aborted(write).result = IF write.result = "pending" THEN "error" ELSE write.result
    BY <1>0, AbortedLemma
  <2>2. /\ socket' = "null" /\ write' = Aborted(write) /\ wire' = wire /\ sent' = sent
    BY <1>6 DEF RunReadError, RunBadHeader, ReadFails, Cleanup
  <2> QED BY <1>4, <2>1, <2>2
<1>7. CASE RunWriteError
  BY <1>0, <1>4, <1>7 DEF RunWriteError
<1>8. CASE SocketWrites
  <2>1. /\ write.frame \in Frames /\ write.result = "pending" /\ socket = "open"
        /\ txFrame # NoFrame /\ sent = wire \o (<< write.frame >> \o txQueue)
    BY <1>0, <1>8 DEF SocketWrites, WriterInv, Unwritten
  <2>2. UNCHANGED << socket, txQueue, txFrame, sent >>
    BY <1>8 DEF SocketWrites
  <2>3. CASE write' = [write EXCEPT !.result = "ok"] /\ wire' = Append(wire, write.frame)
    <3>1. write'.result = "ok"
      BY <1>0, <2>3, ResultLemma
    <3>2. sent' = wire' \o txQueue' /\ IsPrefix(wire', sent')
      BY <1>0, <2>1, <2>2, <2>3, TransmittedLemma
    <3> QED BY <2>1, <2>2, <3>1, <3>2 DEF WriterInv, Unwritten
  <2>4. CASE write' = [write EXCEPT !.result = "error"] /\ wire' = wire
    <3>1. write'.result = "error"
      BY <1>0, <2>4, ResultLemma
    <3> QED BY <1>0, <2>1, <2>2, <2>4, <3>1 DEF WriterInv
  <2> QED BY <1>8, <2>3, <2>4 DEF SocketWrites
<1>9. CASE UNCHANGED << socket, txQueue, txFrame, write, sent, wire >>
  BY <1>0, <1>9 DEF WriterInv, Unwritten
<1>10. CASE \/ start \/ RunHeader \/ RunStalePayload \/ RunWampPayload \/ RunPongPayload
            \/ SocketReadsHeader \/ SocketReadsPayload \/ SocketReadFails \/ UNCHANGED vars
  BY <1>9, <1>10
     DEF start, RunHeader, RunStalePayload, RunWampPayload, RunPongPayload, SocketReadsHeader,
         SocketReadsPayload, SocketReadFails, vars
<1>11. CASE RunPosted
  <2>1. UNCHANGED << socket, txFrame, write, sent, wire >>
    BY <1>11 DEF RunPosted
  <2>2. CASE Head(posted) = Failure
    <3>1. socket = "null"
      BY <1>11, <2>2, ErrorLeaves DEF RunPosted
    <3> QED BY <1>0, <2>1, <3>1 DEF WriterInv
  <2>3. CASE Head(posted) # Failure
    BY <1>9, <1>11, <2>1, <2>3 DEF RunPosted
  <2> QED BY <2>2, <2>3
<1> QED BY <1>1, <1>2, <1>3, <1>5, <1>6, <1>7, <1>8, <1>10, <1>11
        DEF Next, UserOperation, RunReadHandler, RunWriteHandler, SocketStep

-----------------------------------------------------------------------------
(* The stages of the transport *)

\* Every step keeps the handlers, the socket and the read in step.
LEMMA StageStep == IndInv /\ [Next]_vars => StageInv'
<1> SUFFICES ASSUME IndInv, [Next]_vars PROVE StageInv'
  OBVIOUS
<1>0. TypeOK /\ StageInv /\ read \in Ops /\ NoOp.result = "none"
  BY DEF IndInv, TypeOK, NoOp, Op
<1>1. CASE start
  BY <1>1 DEF start, StageInv
<1>2. CASE close
  BY <1>2 DEF close, Close, StageInv
<1>3. CASE RunReadError \/ RunBadHeader
  BY <1>0, <1>3 DEF RunReadError, RunBadHeader, ReadFails, Cleanup, StageInv
<1>4. CASE RunWriteError
  <2>1. Aborted(read).result = IF read.result = "pending" THEN "error" ELSE read.result
    BY <1>0, AbortedLemma
  <2> QED BY <1>0, <1>4, <2>1 DEF RunWriteError, Close, StageInv
<1>5. ASSUME read.result # "none" \/ write.result # "none" \/ running,
             read.result # "none" \/ UNCHANGED read,
             UNCHANGED << socket, running, listening >>
      PROVE  StageInv'
  BY <1>0, <1>5 DEF StageInv
<1>6. CASE \/ RunHeader \/ RunStalePayload \/ RunWampPayload \/ RunPingPayload \/ RunPongPayload
           \/ SocketReadsHeader \/ SocketReadsPayload \/ SocketReadFails
           \/ send \/ ping \/ RunWriteOk \/ SocketWrites
  BY <1>5, <1>6 DEF RunHeader, RunStalePayload, RunWampPayload, RunPingPayload, RunPongPayload,
                    SocketReadsHeader, SocketReadsPayload, SocketReadFails, send, ping, RunWriteOk,
                    SocketWrites
<1>7. CASE UNCHANGED vars
  BY <1>0, <1>7 DEF vars, StageInv
<1>8. CASE RunPosted
  <2>1. CASE Head(posted) = Failure
    <3>1. socket = "null" /\ ~listening
      BY <1>8, <2>1, ErrorLeaves DEF RunPosted
    <3> QED BY <1>0, <1>8, <3>1 DEF RunPosted, StageInv
  <2>2. CASE Head(posted) # Failure
    BY <1>0, <1>8, <2>2 DEF RunPosted, StageInv
  <2> QED BY <2>1, <2>2
<1> QED BY <1>1, <1>2, <1>3, <1>4, <1>6, <1>7, <1>8
        DEF Next, UserOperation, RunReadHandler, RunWriteHandler, SocketStep

-----------------------------------------------------------------------------
(* The channel *)

Stage == IF listening THEN "open" ELSE IF socket = "open" THEN "new" ELSE "over"
Broken == socket # "open" \/ write.result = "error"

\* What the channel's users see
Seen == << Stage, sent, wire, Broken, posted, told, pingHandler >>

\* sendFrame() is an Accept: it fails no write that was not failed already.
LEMMA SendFrameAccepts ==
    ASSUME IndInv, NEW f \in Frames, SendFrame(f), running,
           pingHandler' \in {pingHandler, Len(sent) + 1},
           UNCHANGED << socket, listening, wire, posted, told >>
    PROVE  Outside!Accept(f)
<1>1. Broken' = Broken
  <2>1. CASE IsReadyToTransmit(Append(txQueue, f), txFrame)
    <3>1. socket # "null" /\ txFrame = NoFrame
      BY <2>1 DEF IsReadyToTransmit
    <3>2. write.result = "none"
      BY <3>1 DEF IndInv, WriterInv
    <3>3. write'.result = IF socket = "open" THEN "pending" ELSE "error"
      BY <2>1 DEF SendFrame, Transmit, Op
    <3> QED BY <3>2, <3>3 DEF Broken
  <2>2. CASE ~IsReadyToTransmit(Append(txQueue, f), txFrame)
    BY <2>2 DEF SendFrame, Transmit, Broken
  <2> QED BY <2>1, <2>2
<1>2. Stage' = Stage /\ Stage # "new"
  BY DEF Stage, IndInv, StageInv
<1>3. sent' = Append(sent, f)
  BY DEF SendFrame
<1> QED BY <1>1, <1>2, <1>3 DEF Outside!Accept, Stage, Broken

\* A transport that lets go of its handlers has ended, and its channel with it.
LEMMA ChannelEnds ==
    ASSUME IndInv, listening, ~listening', socket' # "open",
           NEW atOnce, NEW inTurn, told' = told \o atOnce, posted' = posted \o inTurn,
           pingHandler' \in {pingHandler, NoTag}, UNCHANGED << sent, wire >>
    PROVE  Outside!End(atOnce, inTurn)
<1>1. Stage = "open" /\ Stage' = "over" /\ Broken' = TRUE
  BY DEF Stage, Broken
<1> QED BY <1>1 DEF Outside!End, Stage, Broken

\* A frame that the socket transmits is the next one of the channel.
LEMMA SocketDelivers ==
    ASSUME IndInv, SocketWrites PROVE Outside!Deliver \/ Outside!Break
<1>0. /\ wire \in Seq(Frames) /\ txQueue \in Seq(Frames) /\ write \in Ops
      /\ write.frame \in Frames /\ write.result = "pending" /\ socket = "open"
      /\ sent = wire \o (<< write.frame >> \o txQueue)
  BY DEF IndInv, TypeOK, SocketWrites, WriterInv, Unwritten
<1>1. UNCHANGED << Stage, sent, posted, told, pingHandler >> /\ socket' = socket /\ ~Broken
  BY <1>0 DEF SocketWrites, Stage, Broken
<1>2. CASE write' = [write EXCEPT !.result = "ok"] /\ wire' = Append(wire, write.frame)
  <2>1. ~Broken'
    BY <1>0, <1>1, <1>2, ResultLemma DEF Broken
  <2>2. Len(wire) < Len(sent) /\ sent[Len(wire) + 1] = write.frame
    <3>1. << write.frame >> \o txQueue \in Seq(Frames) /\ Len(<< write.frame >> \o txQueue) = 1 + Len(txQueue)
          /\ (<< write.frame >> \o txQueue)[1] = write.frame
      BY <1>0
    <3> DEFINE q == << write.frame >> \o txQueue
    <3>2. Len(wire) \in Nat /\ Len(txQueue) \in Nat
      BY <1>0
    <3> HIDE DEF q
    <3>3. Len(wire \o q) = Len(wire) + Len(q) /\ Len(q) > 0 /\ (wire \o q)[Len(wire) + 1] = q[1]
      BY <1>0, <3>1, <3>2 DEF q
    <3> QED BY <1>0, <3>1, <3>2, <3>3 DEF q
  <2> QED BY <1>1, <1>2, <2>1, <2>2 DEF Outside!Deliver, Stage, Broken
<1>3. CASE write' = [write EXCEPT !.result = "error"] /\ wire' = wire
  <2>1. Broken' = TRUE
    BY <1>0, <1>3, ResultLemma DEF Broken
  <2> QED BY <1>1, <1>3, <2>1 DEF Outside!Break, Stage, Broken
<1> QED BY <1>2, <1>3 DEF SocketWrites

\* Every step of the transport is one of the channel, or none that is seen.
LEMMA ChannelStep == IndInv /\ [Next]_vars => Outside!Next \/ UNCHANGED Seen
<1> SUFFICES ASSUME IndInv, [Next]_vars PROVE Outside!Next \/ UNCHANGED Seen
  OBVIOUS
<1>0. /\ TypeOK /\ StageInv /\ WriterInv /\ ReaderInv /\ write \in Ops
      /\ sent \in Seq(Frames) /\ told \in Seq(Notes) /\ posted \in Seq(Notes)
  BY DEF IndInv, TypeOK
<1>01. /\ Failure = Outside!Error /\ Message = Outside!Message
       /\ \A p : Note("pong", p, p) = Outside!Note("pong", p)
       /\ Failure \in Notes
  BY SentAssumption DEF Failure, Message, Note, Notes, NoTag, Outside!Error, Outside!Message, Outside!Note
<1>1. CASE start
  <2>1. Stage = "new" /\ Stage' = "open"
    BY <1>0, <1>1 DEF start, Stage, StageInv
  <2>2. Outside!Start
    BY <1>1, <2>1 DEF start, Outside!Start, Stage
  <2> QED BY <2>2 DEF Outside!Next
<1>2. CASE send
  <2>1. Frame("wamp", Len(sent) + 1, FALSE) \in Frames
    BY <1>0, <1>2, SentAssumption DEF send, Frame, Frames, RxKinds
  <2>2. Outside!Accept(Frame("wamp", Len(sent) + 1, FALSE))
    BY <1>2, <2>1, SendFrameAccepts DEF send
  <2> QED BY <2>1, <2>2 DEF Outside!Next
<1>3. CASE ping
  <2> DEFINE f == Frame("ping", Len(sent) + 1, FALSE)
  <2>1. f \in Frames /\ f.tag = Len(sent) + 1
    BY <1>0, <1>3, SentAssumption DEF ping, Frame, Frames, RxKinds
  <2>2. SendFrame(f) /\ running /\ pingHandler' = f.tag /\ UNCHANGED << socket, listening, wire, posted, told >>
    BY <1>3 DEF ping
  <2> HIDE DEF f
  <2>3. Outside!Accept(f)
    BY <2>1, <2>2, SendFrameAccepts
  <2> QED BY <2>1, <2>3 DEF Outside!Next
<1>4. CASE RunPingPayload
  <2>1. Frame("pong", read.frame.tag, read.frame.long) \in Frames
    BY <1>0, <1>4 DEF RunPingPayload, Frame, Frames, RxKinds, ReaderInv
  <2>2. Outside!Accept(Frame("pong", read.frame.tag, read.frame.long))
    BY <1>4, <2>1, SendFrameAccepts DEF RunPingPayload
  <2> QED BY <2>1, <2>2 DEF Outside!Next
<1>5. CASE close
  <2>1. socket' # "open" /\ ~listening' /\ told' = told \o << >> /\ posted' = posted \o << >>
        /\ UNCHANGED << pingHandler, sent, wire, posted, told >>
    BY <1>0, <1>5 DEF close, Close
  <2>2. CASE listening
    BY <2>1, <2>2, ChannelEnds DEF Outside!Next
  <2>3. CASE ~listening
    BY <1>0, <1>5, <2>1, <2>3 DEF close, Seen, Stage, Broken, StageInv
  <2> QED BY <2>2, <2>3
<1>6. CASE RunReadError \/ RunBadHeader
  <2>1. /\ socket' # "open" /\ ~listening' /\ pingHandler' = NoTag /\ UNCHANGED << sent, wire, told, running >>
        /\ posted' = IF listening THEN Append(posted, Failure) ELSE posted
        /\ read.result # "none"
    BY <1>6 DEF RunReadError, RunBadHeader, ReadFails, Cleanup, Tell
  <2>2. CASE listening
    <3>1. told' = told \o << >> /\ posted' = posted \o << Outside!Error >>
      BY <1>0, <1>01, <2>1, <2>2
    <3>2. Outside!End(<< >>, << Outside!Error >>)
      BY <2>1, <2>2, <3>1, ChannelEnds
    <3> QED BY <3>2 DEF Outside!Next
  <2>3. CASE ~listening /\ socket # "open"
    <3>1. Outside!Tidy
      BY <2>1, <2>3 DEF Outside!Tidy, Stage, Broken
    <3> QED BY <3>1 DEF Outside!Next
  <2> QED BY <1>0, <2>1, <2>2, <2>3 DEF StageInv
<1>7. CASE RunWampPayload
  <2>1. listening
    BY <1>0, <1>7 DEF RunWampPayload, StageInv
  <2>2. Outside!Arrive
    BY <1>01, <1>7, <2>1 DEF RunWampPayload, Tell, Outside!Arrive
  <2> QED BY <2>2 DEF Outside!Next
<1>8. CASE RunPongPayload
  <2>1. listening
    BY <1>0, <1>8 DEF RunPongPayload, StageInv
  <2>2. CASE CanProcessPong(read.frame)
    <3>1. pingHandler = read.frame.tag
      BY <2>2 DEF CanProcessPong, IndInv, PingInv
    <3>2. Outside!Pong
      BY <1>01, <1>8, <2>1, <2>2, <3>1 DEF RunPongPayload, CanProcessPong, Outside!Pong
    <3> QED BY <3>2 DEF Outside!Next
  <2>3. CASE ~CanProcessPong(read.frame)
    BY <1>8, <2>3 DEF RunPongPayload, Seen, Stage, Broken
  <2> QED BY <2>2, <2>3
<1>9. CASE RunWriteError
  <2>1. socket' # "open" /\ UNCHANGED << pingHandler, sent, wire, posted >> /\ Broken /\ Broken'
    BY <1>9 DEF RunWriteError, Broken
  <2>2. CASE listening
    <3>1. told' = told \o << Outside!Error >> /\ posted' = posted \o << >> /\ ~listening'
      <4>1. told' = Append(told, Failure) /\ ~listening'
        BY <1>9, <2>2 DEF RunWriteError, Close
      <4>2. Append(told, Failure) = told \o << Failure >> /\ posted \o << >> = posted
        BY <1>0, <1>01
      <4> QED BY <1>01, <2>1, <4>1, <4>2
    <3>2. Outside!End(<< Outside!Error >>, << >>)
      BY <2>1, <2>2, <3>1, ChannelEnds
    <3> QED BY <3>2 DEF Outside!Next
  <2>3. CASE ~listening
    BY <1>0, <1>9, <2>1, <2>3 DEF RunWriteError, Seen, Stage, Broken, StageInv, WriterInv
  <2> QED BY <2>2, <2>3
<1>13. CASE RunPosted
  <2>1. Stage' = Stage /\ Broken' = Broken
    BY <1>13 DEF RunPosted, Stage, Broken
  <2>2. Outside!Hear
    BY <1>13, <2>1 DEF RunPosted, Outside!Hear, Stage, Broken
  <2> QED BY <2>2 DEF Outside!Next
<1>10. CASE RunWriteOk
  <2>1. Broken' = Broken
    <3>1. CASE IsReadyToTransmit(txQueue, NoFrame)
      BY <1>10, <3>1 DEF RunWriteOk, Transmit, Op, Broken
    <3>2. CASE ~IsReadyToTransmit(txQueue, NoFrame)
      BY <1>10, <3>2 DEF RunWriteOk, Transmit, NoOp, Op, Broken
    <3> QED BY <3>1, <3>2
  <2> QED BY <1>10, <2>1 DEF RunWriteOk, Seen, Stage
<1>11. CASE SocketWrites
  BY <1>11, SocketDelivers DEF Outside!Next
<1>12. CASE \/ RunHeader \/ RunStalePayload \/ SocketReadsHeader \/ SocketReadsPayload
            \/ SocketReadFails \/ UNCHANGED vars
  BY <1>12 DEF RunHeader, RunStalePayload, SocketReadsHeader, SocketReadsPayload, SocketReadFails,
               vars, Seen, Stage, Broken
<1> QED BY <1>1, <1>2, <1>3, <1>4, <1>5, <1>6, <1>7, <1>8, <1>9, <1>10, <1>11, <1>12, <1>13
        DEF Next, UserOperation, RunReadHandler, RunWriteHandler, SocketStep

-----------------------------------------------------------------------------
(* The theorems *)

\* A transport starts in the invariant.
LEMMA InitInv == Init => IndInv
<1> SUFFICES ASSUME Init PROVE IndInv
  OBVIOUS
<1>1. NoOp \in Ops /\ NoOp.result = "none" /\ NoOp.stage = "none" /\ NoFrame \notin Frames
  BY DEF NoOp, Op, Ops, NoFrame, Frame, Frames, RxKinds
<1>2. \A S : << >> \in Seq(S) /\ Len(<< >>) = 0 /\ << >> \o << >> = << >>
  OBVIOUS
<1>3. TypeOK
  <2>1. 0 \in 0 .. MaxSent /\ 0 \in 0 .. MaxReceived
    BY SentAssumption
  <2>2. /\ txQueue \in Seq(Frames) /\ sent \in Seq(Frames) /\ wire \in Seq(Frames)
        /\ told \in Seq(Notes) /\ posted \in Seq(Notes)
    BY <1>2 DEF Init
  <2> QED BY <1>1, <2>1, <2>2 DEF Init, TypeOK, NoTag
<1>4. IsPrefix(<< >>, << >>)
  BY DEF IsPrefix
<1>5. WriterInv
  BY <1>1, <1>2, <1>4 DEF Init, WriterInv, Unwritten
<1>6. ReaderInv /\ ToldInv /\ PingInv /\ StageInv
  BY <1>1, <1>2 DEF Init, ReaderInv, ToldInv, PingInv, StageInv, NoTag
<1> QED BY <1>3, <1>5, <1>6 DEF IndInv

\* The inductive invariant of the transport: the write in progress and the queue
\* hold what was sent and not transmitted, and a read is in progress, until one of
\* them fails; then the socket and the handlers are gone.
THEOREM Invariance == Spec => []IndInv
<1>1. IndInv /\ [Next]_vars => IndInv'
  BY TypeStep, WriterStep, ToldStep, PingStep, StageStep DEF IndInv
<1> QED BY <1>1, InitInv, PTL DEF Spec

\* The members of the transport and the operations of its socket keep their types.
THEOREM TypeCorrectness == Spec => []TypeOK
<1>1. IndInv => TypeOK
  BY DEF IndInv
<1> QED BY <1>1, Invariance, PTL

\* The other end gets a prefix of what was sent, in order, for any number of
\* messages, pings and pongs queued while a write is in progress, and whenever the
\* transport is closed or fails.
THEOREM FramesStayInOrder == Spec => []WireInOrder
<1>1. IndInv => WireInOrder
  BY DEF IndInv, WriterInv, WireInOrder
<1> QED BY <1>1, Invariance, PTL

\* No handler of a read leaves a running transport without a read in progress.
THEOREM ReaderStaysAlive == Spec => []ReaderAlive
<1>1. IndInv => ReaderAlive
  BY DEF IndInv, ReaderInv, ReaderAlive, NoOp, Op
<1> QED BY <1>1, Invariance, PTL

\* What holds of the calls that were made and of those that wait holds of both.
LEMMA CallsLemma ==
    ASSUME told \in Seq(Notes), posted \in Seq(Notes)
    PROVE  /\ Len(Calls) = Len(told) + Len(posted) /\ Len(told) \in Nat /\ Len(posted) \in Nat
           /\ \A i \in 1 .. Len(told) : Calls[i] = told[i]
           /\ \A i \in 1 .. Len(Calls) : ~(i \in 1 .. Len(told)) =>
                 i - Len(told) \in 1 .. Len(posted) /\ Calls[i] = posted[i - Len(told)]
<1>1. /\ Len(told \o posted) = Len(told) + Len(posted)
      /\ \A i \in 1 .. Len(told) + Len(posted) :
            (told \o posted)[i] = IF i <= Len(told) THEN told[i] ELSE posted[i - Len(told)]
  BY ConcatProperties
<1>2. Len(told) \in Nat /\ Len(posted) \in Nat
  OBVIOUS
<1> QED BY <1>1, <1>2 DEF Calls

\* Peer is told of a failure at most once, in whatever order the read and the write
\* fail, and one that waits on the strand is the last thing that was received.
THEOREM FailureIsToldOnce == Spec => []FailureToldOnce
<1>1. ASSUME IndInv PROVE FailureToldOnce
  <2>1. told \in Seq(Notes) /\ posted \in Seq(Notes) /\ ToldInv
    BY <1>1 DEF IndInv, TypeOK
  <2>2. ASSUME NEW i \in 1 .. Len(Calls), NEW j \in 1 .. Len(Calls),
               Calls[i].what = "error", Calls[j].what = "error"
        PROVE  i = j
    <3>1. CASE i \in 1 .. Len(told) /\ j \in 1 .. Len(told)
      BY <2>1, <2>2, <3>1, CallsLemma DEF ToldInv
    <3>2. ASSUME NEW k \in 1 .. Len(Calls), k \in 1 .. Len(told), Calls[k].what = "error",
                 NEW l \in 1 .. Len(Calls), ~(l \in 1 .. Len(told)), Calls[l].what = "error"
          PROVE  FALSE
      BY <2>1, <3>2, CallsLemma DEF ToldInv
    <3>3. CASE ~(i \in 1 .. Len(told)) /\ ~(j \in 1 .. Len(told))
      <4>1. i - Len(told) = Len(posted) /\ j - Len(told) = Len(posted)
        BY <2>1, <2>2, <3>3, CallsLemma DEF ToldInv
      <4> QED BY <2>1, <4>1, CallsLemma
    <3> QED BY <2>2, <3>1, <3>2, <3>3
  <2> QED BY <2>1, <2>2 DEF FailureToldOnce, ToldInv
<1> QED BY <1>1, Invariance, PTL

\* A ping handler never gets the pong of another ping.
THEOREM PongsMatch == Spec => []PongMatchesPing
<1>1. ASSUME IndInv PROVE PongMatchesPing
  <2>1. told \in Seq(Notes) /\ posted \in Seq(Notes) /\ PingInv
    BY <1>1 DEF IndInv, TypeOK
  <2>2. ASSUME NEW i \in 1 .. Len(Calls) PROVE Matched(Calls[i])
    BY <2>1, <2>2, CallsLemma DEF PingInv
  <2> QED BY <2>2 DEF PongMatchesPing, Matched
<1> QED BY <1>1, Invariance, PTL

\* The transport implements the channel that Peer may take it for, for any number
\* of frames and under every order in which its reads and writes complete, fail or
\* are overtaken by close() (RawsockTransport's sendFrame, transmit, receivePayload,
\* check, cleanup and close).
THEOREM TransportIsAChannel == Spec => ImplementsChannel
<1>1. Init => Outside!Init
  BY DEF Init, Outside!Init, NoOp, Op
<1>2. IndInv /\ [Next]_vars => [Outside!Next]_Outside!vars
  <2>1. UNCHANGED Seen => UNCHANGED Outside!vars
    BY DEF Seen, Stage, Broken, Outside!vars
  <2> QED BY <2>1, ChannelStep
<1> QED BY <1>1, <1>2, Invariance, PTL DEF Spec, ImplementsChannel, Outside!Spec
=============================================================================
