----------------------------- MODULE SessionApi -----------------------------
(***************************************************************************)
(* Session, as its users' threads see it: every operation either runs at   *)
(* once, in the strand, or is dispatched to the strand by its ThreadSafe   *)
(* overload; it ends with a completion handler on the user's executor, or  *)
(* with a future.                                                          *)
(*                                                                         *)
(* The strand and its I/O run on one thread, Io.  The fallback executor    *)
(* may be the same one (shared), so that handlers run on Io too, or that   *)
(* of another thread.  What the operations do to the session is reduced to *)
(* its state and to what is pending; modules Session, PubSub and Callee    *)
(* have them in full.                                                      *)
(***************************************************************************)
EXTENDS Naturals, Sequences, SequencesExt

CONSTANTS
    Threads,           \* threads that use the session
    Io,                \* the one that runs the strand
    Connectors,        \* number of legacy connectors passed to Session::create
    MaxCalls           \* bound: operations called

ASSUME SessionApiAssumption ==
    /\ Io \in Threads
    /\ Connectors \in Nat /\ MaxCalls \in Nat

VARIABLES
    shared,            \* handlers run on the strand's executor, not on another one
    state,             \* Peer::state_
    terminating,       \* Peer::isTerminating_
    watched,           \* Peer::stateChangeHandler_ is set
    reading,           \* the transport, or the last one, was started: it may be heard of
    connector,         \* the connect that Client::currentConnector_ works for, or 0
    pending,           \* operations waiting for the other end, as [id, op]
    strand,            \* what is queued on the strand, oldest first
    userQueue,         \* handlers posted to the user's executor, oldest first
    getting,           \* per thread, the future it waits for, or 0
    ready,             \* futures that are waited for and whose promise has been kept
    chits,             \* the CallChit of some call has been written
    calls,             \* number of operations called so far
    alive,             \* the Session object exists
    posted,            \* history: the last state passed to the state change handler
    changed,           \* history: the state has changed since that handler was set
    handed,            \* history: number of handlers handed to the user's executor
    waiting,           \* history: operations whose handler is still to be invoked
    twice              \* history: a handler was invoked twice

client == << state, terminating, watched, reading, connector, pending >>
vars == << shared, client, strand, userQueue, getting, ready, chits, calls, alive, posted, changed,
           handed, waiting, twice >>

Ids == 1 .. MaxCalls

\* Operations, by what they do to the session.
WithHandler == {"connect", "join", "leave", "request", "chit", "cleanup"}
WithFuture == {"future"}
Plain == {"quiet", "disconnect", "terminate", "watch"}

Task(op, id) == [op |-> op, id |-> id]

\* What is pending: connection attempts, which cancel() may have been called for,
\* and the requests in Peer's maps.
Attempts(ps) == { p \in ps : p.op \in {"connect", "cancelled"} }
Requests(ps) == ps \ Attempts(ps)

-----------------------------------------------------------------------------
(* What a task does on the strand: the client afterwards, the aborts it     *)
(* posts to the strand, the handlers it posts or dispatches to the user,    *)
(* those it drops, the futures and the chits it sets.                       *)

NoEffect ==
    [state |-> state, terminating |-> terminating, watched |-> watched, reading |-> reading,
     connector |-> connector, posted |-> posted, changed |-> changed,
     pending |-> pending, aborts |-> << >>, posts |-> << >>, dispatches |-> << >>,
     drops |-> {}, ready |-> {}, chits |-> FALSE]

\* A handler is destroyed without having been invoked.
Drop(e, id) == [e EXCEPT !.drops = {id}]

\* Client::postUserHandler and the rejection in Client::checkState
PostUserHandler(e, id) ==
    IF e.terminating THEN Drop(e, id) ELSE [e EXCEPT !.posts = << id >>]

\* Client::dispatchUserHandler
DispatchUserHandler(e, id) ==
    IF e.terminating THEN Drop(e, id) ELSE [e EXCEPT !.dispatches = << id >>]

\* Peer::setState, which tells the state change handler
SetState(e, s) ==
    [e EXCEPT !.state = s,
              !.posted = IF e.state # s /\ e.watched /\ ~e.terminating THEN s ELSE @,
              !.changed = @ \/ (e.watched /\ e.state # s)]

Await(e, op, id) == [e EXCEPT !.pending = @ \cup {Task(op, id)}]
Settle(e, p) == [e EXCEPT !.pending = @ \ {p}]

\* Client::doConnect: one more connector, which is the one cancel() will reach
Attempt(e, id) == [Await(e, "connect", id) EXCEPT !.connector = id]

\* Mutant: the connect is announced before termination is over.
MutConnect(id) ==
    Attempt([SetState(NoEffect, "connecting") EXCEPT !.terminating = FALSE], id)

\* Client::connect when disconnected
Connect(id) == Attempt(SetState([NoEffect EXCEPT !.terminating = FALSE], "connecting"), id)

\* Client::join when closed, which starts the transport, and Client::leave when
\* established
Join(id) == Await([SetState(NoEffect, "establishing") EXCEPT !.reading = TRUE], "join", id)
Leave(id) == Await(SetState(NoEffect, "shuttingDown"), "leave", id)

PendingIds(ps) == { p.id : p \in ps }

\* Peer::abortPending iterates its maps in key order, which no property depends on:
\* any fixed order will do.
AbortOrder(ps) == SetToSeq(PendingIds(ps))

\* Mutant: the maps are not cleared.
MutAbortPending(e) ==
    [e EXCEPT !.aborts = IF e.terminating THEN << >> ELSE AbortOrder(Requests(e.pending))]

\* Peer::abortPending.  The handlers of the requests are posted to the strand, or
\* dropped when the session is terminating.  A connection attempt is none of them.
AbortPending(e) ==
    [e EXCEPT !.pending = Attempts(@),
              !.aborts = IF e.terminating THEN << >> ELSE AbortOrder(Requests(e.pending)),
              !.drops = IF e.terminating THEN @ \cup PendingIds(Requests(e.pending)) ELSE @]

\* currentConnector_->cancel(), when connecting
Cancelled(e) ==
    { IF e.state = "connecting" /\ p = Task("connect", e.connector)
      THEN Task("cancelled", p.id) ELSE p : p \in e.pending }

\* Client::doDisconnect
Disconnect(e) ==
    AbortPending([SetState(e, "disconnected") EXCEPT !.pending = Cancelled(e)])

\* Client::terminate
Terminate == Disconnect([NoEffect EXCEPT !.terminating = TRUE])

\* Mutant: the handlers of aborted operations are posted without asking whether
\* the session is terminating.
MutAbort(id) == [NoEffect EXCEPT !.posts = << id >>]

\* The posted handler of an aborted operation: Client::checkError
Abort(id) == DispatchUserHandler(NoEffect, id)

\* Client::subscribe, publish, enroll, oneShotCall and ongoingCall when established
Request(id) == Await(NoEffect, "request", id)

\* Client::unsubscribe and unregister with a handler: there is nothing to be
\* undone; the router is asked; or, for a subscription with others beside it, the
\* handler is dropped.
Cleanups(id) ==
    {PostUserHandler(NoEffect, id), Drop(NoEffect, id)}
        \cup (IF state = "established" THEN {Request(id)} ELSE {})

\* Client::authenticate, publish, cancelCall and yield with a promise, which holds
\* an error in the wrong state.
Future(id) == [NoEffect EXCEPT !.ready = {id}]

\* Peer::setStateChangeHandler, which tells the new handler nothing
Watch == [NoEffect EXCEPT !.watched = TRUE, !.posted = "none", !.changed = FALSE]

\* The state each operation expects
Expected(op) ==
    CASE op = "connect" -> "disconnected"
      [] op = "join" -> "closed"
      [] op \in {"leave", "request", "chit"} -> "established"

\* What a task may do.
Effects(task) ==
    LET id == task.id
        accepted == state = Expected(task.op)
    IN  CASE task.op \in WithHandler \ {"cleanup"} /\ ~accepted
               -> {PostUserHandler(NoEffect, id)}
          [] task.op = "connect" /\ accepted -> {Connect(id)}
          [] task.op = "join" /\ accepted -> {Join(id)}
          [] task.op = "leave" /\ accepted -> {Leave(id)}
          [] task.op = "request" /\ accepted -> {Request(id)}
          [] task.op = "chit" /\ accepted -> {[Request(id) EXCEPT !.chits = TRUE]}
          [] task.op = "cleanup" -> Cleanups(id)
          [] task.op = "future" -> {Future(id)}
          [] task.op = "disconnect" -> {Disconnect(NoEffect)}
          [] task.op = "terminate" -> {Terminate}
          [] task.op = "watch" -> {Watch}
          [] task.op = "quiet" -> {NoEffect}
          [] task.op = "abort" -> {Abort(id)}

\* The strand goes on with rest after a task had effect e, with the handlers in
\* before still to be invoked.
Apply(e, rest, before) ==
    /\ state' = e.state /\ terminating' = e.terminating /\ watched' = e.watched
    /\ reading' = e.reading /\ connector' = e.connector
    /\ posted' = e.posted /\ changed' = e.changed
    /\ pending' = e.pending
    /\ strand' = rest \o [i \in DOMAIN e.aborts |-> Task("abort", e.aborts[i])]
    /\ ready' = ready \cup { id \in e.ready : \E t \in Threads : getting[t] = id }
    /\ chits' = (chits \/ e.chits)
    /\ handed' = handed + Len(e.posts) + Len(e.dispatches)
    /\ userQueue' = userQueue \o e.posts \o (IF shared THEN << >> ELSE e.dispatches)
    /\ LET invoked == IF shared THEN Range(e.dispatches) ELSE {}
       IN  /\ waiting' = (before \ invoked) \ e.drops
           /\ twice' = (twice \/ ~(invoked \subseteq before))

-----------------------------------------------------------------------------
Init ==
    /\ shared \in BOOLEAN
    /\ state = "disconnected" /\ terminating = FALSE /\ watched = FALSE
    /\ reading = FALSE /\ connector = 0
    /\ pending = {} /\ strand = << >> /\ userQueue = << >>
    /\ getting = [t \in Threads |-> 0] /\ ready = {} /\ chits = FALSE
    /\ calls = 0 /\ alive = TRUE
    /\ posted = "none" /\ changed = FALSE /\ handed = 0 /\ waiting = {} /\ twice = FALSE

Free(t) == getting[t] = 0

-----------------------------------------------------------------------------
(* Calling an operation *)

MayCall(t) == alive /\ calls < MaxCalls /\ Free(t)

Handlers(op) == IF op \in WithHandler THEN waiting \cup {calls + 1} ELSE waiting

\* Session::initiate: the operation runs where it is called, in the strand.
Initiate(op) ==
    /\ MayCall(Io)
    /\ calls' = calls + 1
    /\ \E e \in Effects(Task(op, calls + 1)) : Apply(e, strand, Handlers(op))
    /\ UNCHANGED << shared, getting >>

\* Session::safelyInitiate and Client::safelyDispatch from outside the strand.  On
\* the strand's own thread the operation runs at once if the strand is idle, as
\* it does inside the strand.
SafelyDispatch(t, op) ==
    /\ MayCall(t)
    /\ t = Io => strand # << >>
    /\ calls' = calls + 1
    /\ strand' = Append(strand, Task(op, calls + 1))
    /\ waiting' = Handlers(op)
    /\ UNCHANGED << shared, client, userQueue, getting, ready, chits, posted, changed,
                    handed, twice >>

Call(t, op) ==
    /\ SafelyDispatch(t, op) \/ (t = Io /\ Initiate(op))
    /\ UNCHANGED alive

\* The operations with a completion handler.  CPPWAMP_LOGIC_CHECK throws, and
\* nothing is called, when its condition is false.
connect(t, wishes) == wishes # 0 /\ Call(t, "connect")
legacyConnect(t) == Connectors # 0 /\ connect(t, Connectors)
\* join(ThreadSafe, ...) passes one argument too many to safeJoin: only the other
\* overload can be used.
join(t) == t = Io /\ Initiate("join") /\ UNCHANGED alive
leave(t) == Call(t, "leave")
subscribe(t) == Call(t, "request")
publishAcked(t) == Call(t, "request")
enroll(t) == Call(t, "request")
enrollIntr(t) == Call(t, "request")
call(t, progressive) == ~progressive /\ Call(t, "request")
callChit(t, progressive) == ~progressive /\ Call(t, "chit")
ongoingCall(t) == Call(t, "request")
ongoingCallChit(t) == Call(t, "chit")
unsubscribeAcked(t, empty) == ~empty /\ Call(t, "cleanup")
unregisterAcked(t, empty) == ~empty /\ Call(t, "cleanup")

\* The operations without.
unsubscribe(t, empty) == ~empty /\ Call(t, "quiet")
unregister(t, empty) == ~empty /\ Call(t, "quiet")
disconnect(t) == Call(t, "disconnect")
terminate(t) == Call(t, "terminate")
setStateChangeHandler(t) == Call(t, "watch")
setLogHandler(t) == Call(t, "quiet")
setChallengeHandler(t) == Call(t, "quiet")

\* Subscription::unsubscribe, Registration::unregister and the ends of their scoped
\* forms, which use the thread-safe overloads unless the client is gone.
releaseSubscription(t, expired) == ~expired /\ SafelyDispatch(t, "quiet") /\ UNCHANGED alive
releaseRegistration(t, expired) == ~expired /\ SafelyDispatch(t, "quiet") /\ UNCHANGED alive

\* Session::~Session
destroy(t) ==
    /\ SafelyDispatch(t, "disconnect") \/ (t = Io /\ Initiate("disconnect"))
    /\ alive' = FALSE

\* A call that returns a future, which the caller may wait for at once.
CallFuture(t) ==
    \/ Call(t, "future")
    \/ /\ MayCall(t)
       /\ t = Io => strand # << >>
       /\ calls' = calls + 1
       /\ strand' = Append(strand, Task("future", calls + 1))
       /\ getting' = [getting EXCEPT ![t] = calls + 1]
       /\ UNCHANGED << shared, client, userQueue, ready, chits, alive, posted, changed,
                       handed, waiting, twice >>

authenticate(t) == CallFuture(t)
publish(t) == CallFuture(t)
cancel(t) == CallFuture(t)
\* CallChit::cancel, with a chit that has been written.  One that has not does
\* nothing.
cancelChit(t) == chits /\ Call(t, "future")

-----------------------------------------------------------------------------
(* CoroSession.  Its operations run where they are called, in the strand,   *)
(* and throw error::Logic in the wrong state; those with a yield context    *)
(* suspend the caller's coroutine until the handler is invoked.             *)

InState(s, op) == state = s /\ Initiate(op) /\ UNCHANGED alive
InExpectedState(op) == InState(Expected(op), op)

coroConnect == Connectors # 0 /\ InExpectedState("connect")
coroJoin == InExpectedState("join")
coroAuthenticate == InState("authenticating", "future")
coroLeave == InExpectedState("leave")
coroSubscribe == InExpectedState("request")
coroUnsubscribe(empty) == ~empty /\ InState("established", "cleanup")
coroPublish == InState("established", "future")
coroPublishAcked == InExpectedState("request")
coroEnroll == InExpectedState("request")
coroEnrollIntr == InExpectedState("request")
coroUnregister(empty) == ~empty /\ InState("established", "cleanup")
\* With a handler it also returns the request ID that the chit was given.
coroCall(progressive) == ~progressive /\ (InExpectedState("chit") \/ InExpectedState("request"))

-----------------------------------------------------------------------------
(* The executors *)

\* std::future::get returns.
GetReturns(t) ==
    /\ getting[t] \in ready
    /\ getting' = [getting EXCEPT ![t] = 0]
    /\ ready' = ready \ {getting[t]}
    /\ UNCHANGED << shared, client, strand, userQueue, chits, calls, alive, posted,
                    changed, handed, waiting, twice >>

RunStrand ==
    /\ Free(Io) /\ strand # << >>
    /\ \E e \in Effects(Head(strand)) : Apply(e, Tail(strand), waiting)
    /\ UNCHANGED << shared, getting, calls, alive >>

RunUserHandler ==
    /\ shared => Free(Io)
    /\ userQueue # << >>
    /\ userQueue' = Tail(userQueue)
    /\ waiting' = waiting \ {Head(userQueue)}
    /\ twice' = (twice \/ Head(userQueue) \notin waiting)
    /\ UNCHANGED << shared, client, strand, getting, ready, chits, calls, alive, posted,
                    changed, handed >>

-----------------------------------------------------------------------------
(* The other end.  What it causes runs on the strand's thread.              *)

\* The Client is gone: ~Session gave up its share, and neither a task of the
\* strand nor a pending request holds one.
ClientGone == ~alive /\ strand = << >> /\ Requests(pending) = {}

OnStrand(effects) ==
    /\ Free(Io)
    /\ \E e \in effects : Apply(e, strand, waiting)
    /\ UNCHANGED << shared, getting, calls, alive >>

\* Mutant: what else is pending is forgotten.
MutClosed(e) == [SetState(e, "closed") EXCEPT !.pending = Attempts(@)]

\* The reply of Peer::adjourn, or a GOODBYE: what else is pending is aborted.
Closed(e) == AbortPending(SetState(e, "closed"))

\* What the reply to pending request p may do, in a state that has such replies.
Replies(p) ==
    LET e == DispatchUserHandler(Settle(NoEffect, p), p.id)
    IN  CASE p.op = "join"
               -> {SetState(e, s) : s \in IF state \in {"establishing", "authenticating"}
                                          THEN {"established", "closed"} ELSE {}}
          [] p.op = "leave" -> IF state = "shuttingDown" THEN {Closed(e)} ELSE {}
          [] OTHER -> IF state \in {"established", "shuttingDown"} THEN {e} ELSE {}

Reply(p) == OnStrand(Replies(p))

\* Client::doConnect: attempt p is over.  Its functor holds a weak pointer only: when
\* the Client is gone, or terminating, the handler is dropped.  Otherwise the
\* transport is opened or refused, or the connection has failed: by cancel(), on
\* the last wish, or with another wish to try.  (How many wishes are left is not
\* counted.)  It does not matter whose attempt the state belongs to.
Outcomes(p) ==
    LET e == Settle(NoEffect, p)
        Opened == [SetState(e, "closed") EXCEPT !.reading = FALSE]
    IN  IF ClientGone \/ terminating THEN {Drop(e, p.id)}
        ELSE {IF state = "connecting" THEN DispatchUserHandler(Opened, p.id)
              ELSE PostUserHandler(e, p.id),
              DispatchUserHandler(SetState(e, "failed"), p.id),
              Attempt(e, p.id)}
             \cup (IF p.op = "cancelled" THEN {DispatchUserHandler(e, p.id)} ELSE {})

Established(p) == OnStrand(Outcomes(p))

\* cancel() came between two operations of a connector, and had nothing to cancel.
GoesOn(p) == OnStrand({Await(Settle(NoEffect, p), "connect", p.id)})

\* Peer::fail
Failed(e) == IF e.state = "failed" THEN e ELSE AbortPending(SetState(e, "failed"))

\* The transport breaks, or brings a message that is not acceptable: in a session
\* that has disconnected, one that was on the strand already.
TransportFails == reading /\ ~ClientGone /\ OnStrand({Failed(NoEffect)})

\* Peer::processChallenge
Challenge == state = "establishing" /\ OnStrand({SetState(NoEffect, "authenticating")})

Goodbye == state = "established" /\ OnStrand({Closed(NoEffect)})

-----------------------------------------------------------------------------
UserCalls(t) ==
    \/ \E wishes \in 0 .. 1 : connect(t, wishes)
    \/ legacyConnect(t) \/ join(t) \/ leave(t)
    \/ subscribe(t) \/ publishAcked(t) \/ enroll(t) \/ enrollIntr(t)
    \/ ongoingCall(t) \/ ongoingCallChit(t)
    \/ \E progressive \in BOOLEAN : call(t, progressive) \/ callChit(t, progressive)
    \/ \E empty \in BOOLEAN :
          \/ unsubscribeAcked(t, empty) \/ unregisterAcked(t, empty)
          \/ unsubscribe(t, empty) \/ unregister(t, empty)
    \/ disconnect(t) \/ terminate(t) \/ destroy(t)
    \/ \E expired \in BOOLEAN : releaseSubscription(t, expired) \/ releaseRegistration(t, expired)
    \/ setStateChangeHandler(t) \/ setLogHandler(t) \/ setChallengeHandler(t)
    \/ authenticate(t) \/ publish(t) \/ cancel(t) \/ cancelChit(t)

CoroCalls ==
    \/ coroConnect \/ coroJoin \/ coroAuthenticate \/ coroLeave
    \/ coroSubscribe \/ coroPublish \/ coroPublishAcked \/ coroEnroll \/ coroEnrollIntr
    \/ \E progressive \in BOOLEAN : coroCall(progressive)
    \/ \E empty \in BOOLEAN : coroUnsubscribe(empty) \/ coroUnregister(empty)

Next ==
    \/ \E t \in Threads : UserCalls(t) \/ GetReturns(t)
    \/ CoroCalls
    \/ RunStrand \/ RunUserHandler \/ Challenge \/ Goodbye \/ TransportFails
    \/ \E p \in Requests(pending) : Reply(p)
    \/ \E p \in Attempts(pending) : Established(p) \/ (p.op = "cancelled" /\ GoesOn(p))

\* Cancelled attempt id is over.
CancelledEnds(id) == \E p \in pending : p = Task("cancelled", id) /\ Established(p)

\* Executors run what is queued on them; futures that are ready wake their
\* threads; the operation that cancel() has cancelled completes.  Nothing is
\* assumed of the users or of the other end.
Fairness ==
    /\ WF_vars(RunStrand) /\ WF_vars(RunUserHandler)
    /\ \A t \in Threads : WF_vars(GetReturns(t))
    /\ \A id \in Ids : WF_vars(CancelledEnds(id))

Spec == Init /\ [][Next]_vars /\ Fairness

-----------------------------------------------------------------------------
(* Properties *)

\* A completion handler is invoked at most once, whether the operation is answered,
\* rejected, or aborted by disconnect(), terminate(), leave(), a GOODBYE or the loss
\* of the transport, and whichever attempt a connect is settled by.
HandlersOnce == ~twice

\* The strand's thread waits for a future whose promise it must keep itself.
IoStuck == getting[Io] # 0 /\ getting[Io] \notin ready

\* The handler of every operation that no longer waits for the other end, or that
\* disconnect() or ~Session has cancelled, is disposed of in the end, unless the
\* user made the strand wait for itself.  Disposed of means invoked, but for three
\* cases where it is dropped: the session is terminating; the operation is an
\* unsubscribe of run pubsub_answered; or the operation is a connect whose Client
\* is gone when the attempt ends, as it mostly is after ~Session.  A cancelled
\* connect may also go on: with its next wish, or with an attempt that cancel() missed.
Unsettled(id) ==
    /\ id \in waiting
    /\ \A p \in pending : p.id = id => p.op = "cancelled"
EveryHandlerRuns == \A id \in Ids : Unsettled(id) ~> (~Unsettled(id) \/ IoStuck)

\* From terminate() to the next connect, no handler is handed to the user's executor,
\* not even those that a disconnect() before it has posted to the strand.  (The
\* ones the executor already holds are still run.)
TerminateSilences == [][terminating /\ terminating' => handed' = handed]_vars

\* Once the state has changed since a state change handler was set, the last state
\* that handler was passed is the one the session is in, except while the session
\* is terminating.  (Setting the handler passes it nothing.)
StateReported == watched /\ changed /\ ~terminating => posted = state
=============================================================================
