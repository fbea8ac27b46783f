------------------------------ MODULE Session ------------------------------
(***************************************************************************)
(* The life of a client session: internal::Peer, and the connection,       *)
(* session and request operations of internal::Client that drive it.       *)
(*                                                                         *)
(* Every operation of a session runs on its strand, one at a time.  User   *)
(* operations may run at any moment; what the transport received, what a   *)
(* connector completed and the request handlers that Peer::post()          *)
(* postponed wait in the FIFO "strand" and run one by one.  Between being  *)
(* queued and being run, anything else can happen to the session: that     *)
(* window is what the properties are about.                                *)
(*                                                                         *)
(* The router is external and may send any message at any time.  Payloads  *)
(* are abstracted away; a completion handler is a token of Handlers, used  *)
(* for one operation, and "heard" records what it was invoked with.        *)
(***************************************************************************)
EXTENDS Naturals, Sequences, FiniteSets, MessageTraits

CONSTANTS
    Handlers,        \* completion handlers, one per user operation
    NoHandler,       \* "no handler": the tasks of received messages
    MaxRequestId,    \* Peer::maxRequestId_ (2^53 in the code)
    Wishes,          \* length of the ConnectionWishList passed to connect
    MaxStrand,       \* bound: the transport reads no more past this backlog
    Oversized,       \* requests whose encoding may exceed maxTxLength_
    EarlyReconnect   \* may the user connect before an earlier connect ended?

ASSUME HandlersAssumption == IsFiniteSet(Handlers) /\ NoHandler \notin Handlers
ASSUME BoundsAssumption == MaxRequestId \in Nat \ {0} /\ Wishes \in Nat \ {0}
ASSUME OversizedAssumption == Oversized \subseteq {"hello", "goodbye", "publish", "call"}
ASSUME EarlyReconnectAssumption == EarlyReconnect \in BOOLEAN

VARIABLES
    state,           \* Peer::state_
    isTerminating,   \* Peer::isTerminating_
    transport,       \* Peer::transport_: null, not started, started, or
                     \* started but with its socket gone ("broken")
    oneShot,         \* Peer::oneShotRequestMap_: request key -> handler
    multiShot,       \* Peer::multiShotRequestMap_
    nextRequestId,   \* Peer::nextRequestId_
    strand,          \* tasks queued on the strand, oldest first
    attempts,        \* connection attempts in progress in the I/O layer
    connector,       \* handler of the attempt currentConnector_ works for
    issued,          \* history: handlers handed to an operation
    heard,           \* history: what each handler was last invoked with
    forgiven         \* history: handlers that terminate() silenced

vars == << state, isTerminating, transport, oneShot, multiShot, nextRequestId,
           strand, attempts, connector, issued, heard, forgiven >>

-----------------------------------------------------------------------------
(* Data *)

SessionState == { "disconnected", "connecting", "closed", "establishing",
                  "authenticating", "established", "shuttingDown", "failed" }

\* The states in which Peer::onTransportRx accepts messages.
ReadyToReceive ==
    { "establishing", "authenticating", "established", "shuttingDown" }

\* Message::requestKey(): HELLO and GOODBYE have request ID 0.  PUBLISH stands
\* for every acknowledged request other than CALL.
RequestId == 1 .. MaxRequestId
RequestKey == ({"hello", "goodbye"} \X {0}) \cup ({"publish", "call"} \X RequestId)

\* What a received frame decodes to.  "garbled" is a frame that does not decode
\* to a well-formed WAMP message; EVENT stands for the messages that
\* inboundMessageHandler_ gets (EVENT, INVOCATION, INTERRUPT).
Message(type, reqType, id, progressive) ==
    [type |-> type, key |-> <<reqType, id>>, isProgressive |-> progressive]

Messages ==
    { Message(t, "none", 0, FALSE) :
        t \in {"hello", "welcome", "challenge", "abort", "goodbye", "event", "garbled"} }
    \cup { Message("error", t, id, FALSE) : t \in {"publish", "call"}, id \in RequestId }
    \cup { Message("published", "publish", id, FALSE) : id \in RequestId }
    \cup { Message("result", "call", id, p) : id \in RequestId, p \in BOOLEAN }

\* Outcomes a completion handler can be invoked with; "progress" is the only
\* one that is not final.
Errors == { "cancelled", "sessionEnded", "closeRealm", "failure",
            "payloadSizeExceeded", "invalidState", "aborted", "connectFailed" }
Final == Errors \cup {"reply", "connected"}

\* Tasks on the strand.
RxTask(m)           == [task |-> "rx", handler |-> NoHandler, arg |-> m]
RxErrorTask         == [task |-> "rxError", handler |-> NoHandler, arg |-> "none"]
PostedTask(h, err)  == [task |-> "posted", handler |-> h, arg |-> err]
ConnectedTask(h, index, result) ==
    [task |-> "connected", handler |-> h, arg |-> <<index, result>>]

\* The handlers held by a request map.
Held(map) == { map[k] : k \in DOMAIN map }

\* Tasks that post the handlers of S with an error: std::map iterates in key
\* order, which no property depends on, so any fixed order will do.
IsOrder(q, S) ==
    /\ q \in [1 .. Cardinality(S) -> S]
    /\ \A i, j \in 1 .. Cardinality(S) : q[i] = q[j] => i = j
    /\ \A h \in S : \E i \in 1 .. Cardinality(S) : q[i] = h
Order(S) == CHOOSE q \in [1 .. Cardinality(S) -> S] : IsOrder(q, S)
PostAll(S, err) == [i \in 1 .. Cardinality(S) |-> PostedTask(Order(S)[i], err)]

\* A handler is waiting while the session still holds it somewhere.
TaskHandlers(queue)  == { queue[i].handler : i \in 1 .. Len(queue) } \ {NoHandler}
AttemptHandlers(set) == { a.handler : a \in set }
Waiting(h) ==
    \/ h \in Held(oneShot)
    \/ h \in Held(multiShot)
    \/ h \in TaskHandlers(strand)
    \/ h \in AttemptHandlers(attempts)

-----------------------------------------------------------------------------
Init ==
    /\ state = "disconnected"
    /\ isTerminating = FALSE
    /\ transport = "none"
    /\ oneShot = << >>
    /\ multiShot = << >>
    /\ nextRequestId = 0
    /\ strand = << >>
    /\ attempts = {}
    /\ connector = NoHandler
    /\ issued = {}
    /\ heard = [h \in Handlers |-> "none"]
    /\ forgiven = {}

-----------------------------------------------------------------------------
(* Invoking and issuing handlers *)

\* What a handler that already heard a final outcome makes of another call.
Heard(h, outcome) ==
    [heard EXCEPT ![h] = IF @ \in Final THEN "misfire" ELSE outcome]

\* Client::dispatchUserHandler and postUserHandler: user handlers are not
\* invoked while the session is terminating.
InvokeUserHandler(h, outcome) ==
    heard' = IF isTerminating THEN heard ELSE Heard(h, outcome)

\* A user operation takes a fresh handler.
Issue(h) ==
    /\ h \in Handlers \ issued
    /\ issued' = issued \cup {h}

\* Client::checkState with a state other than the expected one.  terminate()
\* excuses the session from telling the user.
RejectOperation(h) ==
    /\ InvokeUserHandler(h, "invalidState")
    /\ forgiven' = IF isTerminating THEN forgiven \cup {h} ELSE forgiven
    /\ UNCHANGED << state, isTerminating, transport, oneShot, multiShot,
                    nextRequestId, strand, attempts, connector >>

-----------------------------------------------------------------------------
(* Peer: leaving a session *)

\* Mutant: the ongoing calls are forgotten.
MutAbortPending(err, terminating, queue) ==
    /\ strand' = IF terminating THEN queue ELSE queue \o PostAll(Held(oneShot), err)
    /\ oneShot' = << >>
    /\ UNCHANGED multiShot

\* Peer::abortPending: post every pending handler, or drop them all when
\* terminating; queue is what the strand holds so far.
AbortPending(err, terminating, queue) ==
    /\ strand' = IF terminating THEN queue
                 ELSE queue \o PostAll(Held(oneShot), err)
                            \o PostAll(Held(multiShot), err)
    /\ oneShot' = << >>
    /\ multiShot' = << >>

\* Mutant: the transport is released in the state of an active session.
MutFail(queue) ==
    /\ AbortPending("failure", isTerminating, queue)
    /\ transport' = "none"
    /\ UNCHANGED state

\* Peer::fail: does nothing more than set the state when it is "failed" already.
Fail(queue) ==
    /\ state' = "failed"
    /\ IF state = "failed"
         THEN /\ strand' = queue
              /\ UNCHANGED << transport, oneShot, multiShot >>
         ELSE /\ AbortPending("failure", isTerminating, queue)
              /\ transport' = "none"

-----------------------------------------------------------------------------
(* Peer: sending requests *)

\* Peer::nextRequestId wraps around to 1 past the maximum.
NextRequestId == IF nextRequestId >= MaxRequestId THEN 1 ELSE nextRequestId + 1

\* Mutant: an oversized request is entered in the map all the same.
MutMapAfter(map, key, h, big) ==
    [k \in DOMAIN map \cup {key} |-> IF k = key THEN h ELSE map[k]]

\* Mutant: a displaced request is not told.
MutTasksAfter(map, key, h, big) ==
    IF big THEN << PostedTask(h, "payloadSizeExceeded") >> ELSE << >>

\* Peer::sendRequest for a request map: the map after the request, and the
\* tasks it posts.  An oversized request is not entered in the map; a pending
\* request with the same key (the IDs have wrapped around) is cancelled.
MapAfter(map, key, h, big) ==
    IF big THEN map ELSE [k \in DOMAIN map \cup {key} |-> IF k = key THEN h ELSE map[k]]

TasksAfter(map, key, h, big) ==
    IF big THEN << PostedTask(h, "payloadSizeExceeded") >>
    ELSE IF key \in DOMAIN map THEN << PostedTask(map[key], "cancelled") >>
    ELSE << >>

\* Peer::request and Peer::ongoingRequest of a message of the given type.
SendRequest(type, h, big, ongoing) ==
    LET id  == IF type \in hasRequestId THEN NextRequestId ELSE 0
        map == IF ongoing THEN multiShot ELSE oneShot
    IN  /\ big => type \in Oversized
        /\ nextRequestId' = IF type \in hasRequestId THEN id ELSE nextRequestId
        /\ strand' = strand \o TasksAfter(map, <<type, id>>, h, big)
        /\ IF ongoing
             THEN /\ multiShot' = MapAfter(multiShot, <<type, id>>, h, big)
                  /\ UNCHANGED oneShot
             ELSE /\ oneShot' = MapAfter(oneShot, <<type, id>>, h, big)
                  /\ UNCHANGED multiShot

-----------------------------------------------------------------------------
(* User operations of Client *)

ConnectPending ==
    attempts # {} \/ \E i \in 1 .. Len(strand) : strand[i].task = "connected"

\* Client::doConnect: start the connector of the wish with the given index.
DoConnect(h, index) ==
    /\ attempts' = attempts \cup {[handler |-> h, index |-> index, cancelled |-> FALSE]}
    /\ connector' = h

connect(h) ==
    /\ Issue(h)
    /\ EarlyReconnect \/ ~ConnectPending
    /\ IF state # "disconnected" THEN RejectOperation(h)
       ELSE /\ isTerminating' = FALSE
            /\ state' = "connecting"
            /\ DoConnect(h, 1)
            /\ UNCHANGED << transport, oneShot, multiShot, nextRequestId,
                            strand, heard, forgiven >>

\* Peer::start reads from the transport unless it has been started before.
join(h) ==
    /\ Issue(h)
    /\ IF state # "closed" THEN RejectOperation(h)
       ELSE /\ state' = "establishing"
            /\ transport' = IF transport = "idle" THEN "started" ELSE transport
            /\ \E big \in BOOLEAN : SendRequest("hello", h, big, FALSE)
            /\ UNCHANGED << isTerminating, attempts, connector, heard, forgiven >>

\* Client::leave and Peer::adjourn.
leave(h) ==
    /\ Issue(h)
    /\ IF state # "established" THEN RejectOperation(h)
       ELSE /\ state' = "shuttingDown"
            /\ \E big \in BOOLEAN : SendRequest("goodbye", h, big, FALSE)
            /\ UNCHANGED << isTerminating, transport, attempts, connector, heard,
                            forgiven >>

\* The operations that send a request in an established session: publish with
\* acknowledgement, subscribe, unsubscribe, enroll, unregister and the calls.
DoRequest(type, h, ongoing) ==
    /\ Issue(h)
    /\ IF state # "established" THEN RejectOperation(h)
       ELSE /\ \E big \in BOOLEAN : SendRequest(type, h, big, ongoing)
            /\ UNCHANGED << state, isTerminating, transport, attempts, connector,
                            heard, forgiven >>

publish(h)     == DoRequest("publish", h, FALSE)
oneShotCall(h) == DoRequest("call", h, FALSE)
ongoingCall(h) == DoRequest("call", h, TRUE)

\* Mutant: the request stays in its map.
MutWithout(map, key) == map

\* Client::cancelCall and Peer::cancelCall, by the user or by a caller timeout
\* (CallCancelMode::killNoWait).  In mode "kill" the router's answer is awaited.
Without(map, key) == [k \in DOMAIN map \ {key} |-> map[k]]

cancelCall(id, mode) ==
    LET key == <<"call", id>>
    IN  /\ state = "established"
        /\ mode # "kill"
        /\ \/ /\ key \in DOMAIN oneShot
              /\ oneShot' = Without(oneShot, key)
              /\ strand' = Append(strand, PostedTask(oneShot[key], "cancelled"))
              /\ UNCHANGED multiShot
           \/ /\ key \in DOMAIN multiShot \ DOMAIN oneShot
              /\ multiShot' = Without(multiShot, key)
              /\ strand' = Append(strand, PostedTask(multiShot[key], "cancelled"))
              /\ UNCHANGED oneShot
        /\ UNCHANGED << state, isTerminating, transport, nextRequestId, attempts,
                        connector, issued, heard, forgiven >>

\* Client::doDisconnect and Peer::close.  Only the current connector is
\* cancelled, and only in the connecting state.
DoDisconnect(terminating) ==
    /\ attempts' = { IF state = "connecting" /\ a.handler = connector
                       THEN [a EXCEPT !.cancelled = TRUE] ELSE a : a \in attempts }
    /\ state' = "disconnected"
    /\ AbortPending("sessionEnded", terminating, strand)
    /\ transport' = "none"
    /\ isTerminating' = terminating
    /\ UNCHANGED << nextRequestId, connector, issued, heard >>

disconnect ==
    /\ DoDisconnect(isTerminating)
    /\ UNCHANGED forgiven

terminate ==
    /\ DoDisconnect(TRUE)
    /\ forgiven' = forgiven \cup { h \in issued : heard[h] \notin Final }

-----------------------------------------------------------------------------
(* The I/O layer: it queues tasks on the strand *)

\* The connector finishes.  A cancelled one may have been too far to notice.
ConnectorCompletes(a, result) ==
    /\ result = "aborted" => a.cancelled
    /\ attempts' = attempts \ {a}
    /\ strand' = Append(strand, ConnectedTask(a.handler, a.index, result))
    /\ UNCHANGED << state, isTerminating, transport, oneShot, multiShot,
                    nextRequestId, connector, issued, heard, forgiven >>

\* RawsockTransport posts a received message to the rx handler of Peer::start.
ReceiveMessage(m) ==
    /\ transport = "started"
    /\ Len(strand) < MaxStrand
    /\ strand' = Append(strand, RxTask(m))
    /\ UNCHANGED << state, isTerminating, transport, oneShot, multiShot,
                    nextRequestId, attempts, connector, issued, heard, forgiven >>

\* A read error, or a frame the transport refuses: the transport cleans up at
\* once, but the session hears of it through the strand.
ReceiveError ==
    /\ transport = "started"
    /\ transport' = "broken"
    /\ strand' = Append(strand, RxErrorTask)
    /\ UNCHANGED << state, isTerminating, oneShot, multiShot, nextRequestId,
                    attempts, connector, issued, heard, forgiven >>

\* A write error is reported synchronously to the handler of Peer::start.
SendError ==
    /\ transport = "started"
    /\ state # "disconnected"
    /\ Fail(strand)
    /\ UNCHANGED << isTerminating, nextRequestId, attempts, connector, issued,
                    heard, forgiven >>

-----------------------------------------------------------------------------
(* Running the tasks of the strand: q is the strand without the task *)

\* A handler postponed by Peer::post; the handlers of Client only invoke the
\* user's handler when they get an error.
RunPosted(t, q) ==
    /\ t.task = "posted"
    /\ strand' = q
    /\ InvokeUserHandler(t.handler, t.arg)
    /\ UNCHANGED << state, isTerminating, transport, oneShot, multiShot,
                    nextRequestId, attempts, connector, issued, forgiven >>

\* The Established functor of Client::doConnect.
RunConnected(t, q) ==
    LET index  == t.arg[1]
        result == t.arg[2]
    IN  /\ t.task = "connected"
        /\ strand' = q
        /\ \/ /\ isTerminating
              /\ UNCHANGED << state, transport, attempts, connector, heard >>
           \/ /\ ~isTerminating
              /\ result = "aborted"                       \* onConnectFailure
              /\ InvokeUserHandler(t.handler, "aborted")
              /\ UNCHANGED << state, transport, attempts, connector >>
           \/ /\ ~isTerminating
              /\ result = "error" /\ index < Wishes        \* onConnectFailure
              /\ DoConnect(t.handler, index + 1)
              /\ UNCHANGED << state, transport, heard >>
           \/ /\ ~isTerminating
              /\ result = "error" /\ index >= Wishes       \* onConnectFailure
              /\ state' = "failed"
              /\ InvokeUserHandler(t.handler, "connectFailed")
              /\ UNCHANGED << transport, attempts, connector >>
           \/ /\ ~isTerminating
              /\ result = "ok" /\ state = "connecting"     \* Peer::open
              /\ state' = "closed"
              /\ transport' = "idle"
              /\ InvokeUserHandler(t.handler, "connected")
              /\ UNCHANGED << attempts, connector >>
           \/ /\ ~isTerminating
              /\ result = "ok" /\ state # "connecting"
              /\ InvokeUserHandler(t.handler, "aborted")
              /\ UNCHANGED << state, transport, attempts, connector >>
        /\ UNCHANGED << isTerminating, oneShot, multiShot, nextRequestId,
                        issued, forgiven >>

\* Mutant: read errors are taken for the end of an orderly shutdown.
MutRunRxError(t, q) ==
    /\ t.task = "rxError"
    /\ IF state \notin {"disconnected", "shuttingDown"} THEN Fail(q)
       ELSE strand' = q /\ UNCHANGED << state, transport, oneShot, multiShot >>
    /\ UNCHANGED << isTerminating, nextRequestId, attempts, connector, issued,
                    heard, forgiven >>

\* The rx handler of Peer::start, given an error.
RunRxError(t, q) ==
    /\ t.task = "rxError"
    /\ IF state # "disconnected" THEN Fail(q)
       ELSE strand' = q /\ UNCHANGED << state, transport, oneShot, multiShot >>
    /\ UNCHANGED << isTerminating, nextRequestId, attempts, connector, issued,
                    heard, forgiven >>

\* Mutant: messages are not checked against the state.
MutUnacceptable(m) == state \notin ReadyToReceive \/ m.type \notin WampMsgType

\* Peer::onTransportRx rejects a message.
Unacceptable(m) ==
    \/ state \notin ReadyToReceive
    \/ m.type \notin WampMsgType
    \/ ~isValidRx(m.type, state, FALSE)

RunRxRejected(t, q) ==
    /\ t.task = "rx"
    /\ Unacceptable(t.arg)
    /\ Fail(q)
    /\ UNCHANGED << isTerminating, nextRequestId, attempts, connector, issued,
                    heard, forgiven >>

\* Peer::processWampReply: find the request, forget it unless this is a
\* progressive result of an ongoing call, and run its handler.  A reply that
\* matches no request is ignored.
ProcessWampReply(key, progressive) ==
    \/ /\ key \in DOMAIN oneShot
       /\ oneShot' = Without(oneShot, key)
       /\ InvokeUserHandler(oneShot[key], "reply")
       /\ UNCHANGED multiShot
    \/ /\ key \in DOMAIN multiShot \ DOMAIN oneShot
       /\ multiShot' = IF progressive THEN multiShot ELSE Without(multiShot, key)
       /\ InvokeUserHandler(multiShot[key], IF progressive THEN "progress" ELSE "reply")
       /\ UNCHANGED oneShot
    \/ /\ key \notin DOMAIN oneShot \cup DOMAIN multiShot
       /\ UNCHANGED << oneShot, multiShot, heard >>

\* The messages that answer a request, and ERROR.
RunRxReply(t, q) ==
    /\ t.task = "rx" /\ ~Unacceptable(t.arg)
    /\ t.arg.type = "error" \/ repliesTo(t.arg.type) # "none"
    /\ ProcessWampReply(t.arg.key, t.arg.isProgressive)
    /\ strand' = q
    /\ UNCHANGED << state, isTerminating, transport, nextRequestId, attempts,
                    connector, issued, forgiven >>

\* Peer::processChallenge, and the role-specific messages, which are handed to
\* Client::onInbound (or discarded in the shuttingDown state): neither touches
\* the requests.
RunRxInbound(t, q) ==
    /\ t.task = "rx" /\ ~Unacceptable(t.arg)
    /\ t.arg.type \in {"challenge", "event"}
    /\ state' = IF t.arg.type = "challenge" THEN "authenticating" ELSE state
    /\ strand' = q
    /\ UNCHANGED << isTerminating, transport, oneShot, multiShot, nextRequestId,
                    attempts, connector, issued, heard, forgiven >>

\* Peer::processWelcome.
RunRxWelcome(t, q) ==
    /\ t.task = "rx" /\ ~Unacceptable(t.arg)
    /\ t.arg.type = "welcome"
    /\ state' = "established"
    /\ ProcessWampReply(<<"hello", 0>>, FALSE)
    /\ strand' = q
    /\ UNCHANGED << isTerminating, transport, nextRequestId, attempts,
                    connector, issued, forgiven >>

\* Peer::processAbort.
RunRxAbort(t, q) ==
    /\ t.task = "rx" /\ ~Unacceptable(t.arg)
    /\ t.arg.type = "abort"
    /\ \/ /\ state \in {"establishing", "authenticating"}
          /\ state' = "closed"
          /\ ProcessWampReply(<<"hello", 0>>, FALSE)
          /\ strand' = q
          /\ UNCHANGED transport
       \/ /\ state = "shuttingDown"
          /\ strand' = q
          /\ UNCHANGED << state, transport, oneShot, multiShot, heard >>
       \/ /\ state = "established"
          /\ Fail(q)
          /\ UNCHANGED heard
    /\ UNCHANGED << isTerminating, nextRequestId, attempts, connector, issued,
                    forgiven >>

\* Peer::processGoodbye.  While shutting down it answers our own GOODBYE: the
\* Requested functor of Peer::adjourn then aborts what is pending and passes
\* the reply on.  Otherwise the router ended the session.
RunRxGoodbye(t, q) ==
    /\ t.task = "rx" /\ ~Unacceptable(t.arg)
    /\ t.arg.type = "goodbye"
    /\ state' = "closed"
    /\ LET key  == <<"goodbye", 0>>
           rest == Without(oneShot, key)
       IN  \/ /\ state = "shuttingDown" /\ key \in DOMAIN oneShot
              /\ strand' = IF isTerminating THEN q
                           ELSE q \o PostAll(Held(rest), "sessionEnded")
                                  \o PostAll(Held(multiShot), "sessionEnded")
              /\ oneShot' = << >> /\ multiShot' = << >>
              /\ InvokeUserHandler(oneShot[key], "reply")
           \/ /\ state = "shuttingDown" /\ key \notin DOMAIN oneShot
              /\ strand' = q
              /\ UNCHANGED << oneShot, multiShot, heard >>
           \/ /\ state # "shuttingDown"
              /\ AbortPending("closeRealm", isTerminating, q)
              /\ UNCHANGED heard
    /\ UNCHANGED << isTerminating, transport, nextRequestId, attempts,
                    connector, issued, forgiven >>

RunStrand ==
    /\ strand # << >>
    /\ LET t == Head(strand)
           q == Tail(strand)
       IN  \/ RunPosted(t, q)
           \/ RunConnected(t, q)
           \/ RunRxError(t, q)
           \/ RunRxRejected(t, q)
           \/ RunRxReply(t, q)
           \/ RunRxInbound(t, q)
           \/ RunRxWelcome(t, q)
           \/ RunRxAbort(t, q)
           \/ RunRxGoodbye(t, q)

-----------------------------------------------------------------------------
UserOperation ==
    \/ \E h \in Handlers :
          \/ connect(h)
          \/ join(h)
          \/ leave(h)
          \/ publish(h)
          \/ oneShotCall(h)
          \/ ongoingCall(h)
    \/ \E id \in RequestId, mode \in {"kill", "killnowait", "skip"} : cancelCall(id, mode)
    \/ disconnect
    \/ terminate

IoCompletion ==
    \/ \E a \in attempts, result \in {"ok", "error", "aborted"} :
          ConnectorCompletes(a, result)
    \/ \E m \in Messages : ReceiveMessage(m)
    \/ ReceiveError
    \/ SendError

Next == UserOperation \/ IoCompletion \/ RunStrand

Spec == Init /\ [][Next]_vars

\* The executor keeps running the strand's tasks.
FairSpec == Spec /\ WF_vars(RunStrand)

-----------------------------------------------------------------------------
(* Properties *)

IsMap(map) ==
    /\ DOMAIN map \subseteq RequestKey
    /\ map = [k \in DOMAIN map |-> map[k]]
    /\ Held(map) \subseteq Handlers

Tasks ==
    { RxTask(m) : m \in Messages }
    \cup { RxErrorTask }
    \cup { PostedTask(h, e) : h \in Handlers, e \in Errors }
    \cup { ConnectedTask(h, i, r) :
             h \in Handlers, i \in 1 .. Wishes, r \in {"ok", "error", "aborted"} }

\* Type invariant: the variables hold what Peer's and Client's members can.
TypeOK ==
    /\ state \in SessionState
    /\ isTerminating \in BOOLEAN
    /\ transport \in {"none", "idle", "started", "broken"}
    /\ IsMap(oneShot)
    /\ IsMap(multiShot)
    /\ nextRequestId \in 0 .. MaxRequestId
    /\ strand \in Seq(Tasks)
    /\ attempts \subseteq [handler : Handlers, index : 1 .. Wishes, cancelled : BOOLEAN]
    /\ connector \in Handlers \cup {NoHandler}
    /\ issued \subseteq Handlers
    /\ heard \in [Handlers -> Final \cup {"none", "progress", "misfire"}]
    /\ forgiven \subseteq issued

\* No completion handler is invoked again once it got its final outcome,
\* whatever races whatever: a late RESULT, a cancellation, a timeout, the loss
\* of the transport, disconnect() or a wrapped-around request ID.  (Handlers
\* are AnyCompletionHandler: invoking one twice is undefined behaviour.)
AtMostOnce == \A h \in Handlers : heard[h] # "misfire"

\* No handler is lost: until it got its final outcome, the session still holds
\* it in a request map, on the strand or in a connection attempt, unless
\* terminate() excused the session from invoking it.
NoLostHandler ==
    \A h \in issued \ forgiven : heard[h] \in Final \/ Waiting(h)

\* The inductive strengthening of the two: a handler is held in one place only,
\* and no handler that is still held got its final outcome.
Injective(map) == \A k, l \in DOMAIN map : map[k] = map[l] => k = l

Distinct(queue) ==
    \A i, j \in 1 .. Len(queue) :
        queue[i].handler = queue[j].handler /\ queue[i].handler # NoHandler => i = j

HeldOnce ==
    /\ Injective(oneShot)
    /\ Injective(multiShot)
    /\ Distinct(strand)
    /\ \A a, b \in attempts : a.handler = b.handler => a = b
    /\ Held(oneShot) \cap Held(multiShot) = {}
    /\ TaskHandlers(strand) \cap (Held(oneShot) \cup Held(multiShot)) = {}
    /\ AttemptHandlers(attempts)
         \cap (Held(oneShot) \cup Held(multiShot) \cup TaskHandlers(strand)) = {}

HeldUnheard ==
    \A h \in Handlers :
        /\ Waiting(h) => h \in issued
        /\ Waiting(h) \/ h \notin issued => heard[h] \in {"none", "progress"}

\* A terminating session has no transport and no requests to answer for, and
\* every handler it has not invoked is excused.
TerminatingIdle ==
    isTerminating => /\ state \in {"disconnected", "failed"}
                     /\ \A h \in issued : heard[h] \in Final \/ h \in forgiven

IndInv == /\ TypeOK /\ HeldOnce /\ HeldUnheard /\ TerminatingIdle
          /\ AtMostOnce /\ NoLostHandler

\* The handlers that the session still holds are those it owes an outcome.
Owed == { h \in Handlers : Waiting(h) }

Promise == INSTANCE Completion WITH owed <- Owed, excused <- forgiven, silent <- isTerminating

\* Every step of a session is one that Completion allows, or none that its users
\* notice: a final outcome goes to one handler, which the session held until
\* then and which had no final outcome before; handlers that go from a request
\* map to the strand, from the strand to the next connection attempt or from
\* an attempt to the strand are neither dropped nor told on the way; Peer and
\* Client drop only what terminate() has excused, and after terminate() tell
\* nobody anything before the next connect().
ImplementsCompletion == Promise!Spec

\* assert(transport_ != nullptr) in Peer::start, sendMessage and sendRequest:
\* every state in which Client sends has a transport.
TransportPresent == state \in ReadyToReceive \cup {"closed"} => transport # "none"

\* While a session is being established or shut down, the HELLO or GOODBYE
\* request that will end that phase is pending, provided it fits the transport's
\* limit: the session cannot be stuck in a phase nobody will be told about.
HandshakeAwaited ==
    /\ state \in {"establishing", "authenticating"} /\ "hello" \notin Oversized
         => <<"hello", 0>> \in DOMAIN oneShot
    /\ state = "shuttingDown" /\ "goodbye" \notin Oversized
         => <<"goodbye", 0>> \in DOMAIN oneShot

\* Requests are pending only while a session is active: none is left behind by
\* a session that ended, to wait for an answer that will not come.  This needs
\* users that await the end of a connect before the next one, and GOODBYE
\* messages that fit.
NoOrphanedRequests ==
    (~EarlyReconnect /\ "goodbye" \notin Oversized)
       => (Held(oneShot) \cup Held(multiShot) # {} => state \in ReadyToReceive)

\* Once the transport has reported a failure, every request that is pending
\* completes.
LossCompletesRequests ==
    \A h \in Handlers :
        (transport = "broken" /\ h \in Held(oneShot) \cup Held(multiShot))
           ~> (heard[h] \in Final \/ h \in forgiven)

-----------------------------------------------------------------------------
(* What the documentation says and the code does not do *)

\* "@post this->state() == SessionState::disconnected": only connect() takes a
\* session out of the disconnected state.
DisconnectSticks ==
    [][state = "disconnected" => state' \in {"disconnected", "connecting"}]_vars
=============================================================================
