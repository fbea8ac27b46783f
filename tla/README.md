# A TLA+ verification of CppWAMP

CppWAMP is a C++ client library for WAMP (remote procedure calls and
publish/subscribe through a router).  This directory holds TLA+ models of it, from the
socket to the values that users pass, the TLC configurations that check them
on small instances, and proofs that TLAPS checks.  Paths below are relative to the
repository's `cppwamp/include/cppwamp/` unless they begin with `doc/`.

## 1. The system

| Part | State it keeps | Operations | Module |
|---|---|---|---|
| `internal/peer.hpp`: `Peer` | session state, terminating flag, transport, two request maps (one-shot, multi-shot), next request ID | connect, start, send, request, cancelCall, close, and the handling of every received message and transport error | `Session` |
| `internal/client.hpp`: connection and session | wish list and current connector | connect, join, authenticate, leave, disconnect, terminate | `Session` |
| `internal/client.hpp`: caller | (in Peer's maps) | oneShotCall, ongoingCall, cancelCall | `Session` |
| `internal/client.hpp`: subscriber, publisher | `topics_`, `readership_`, `nextSlotId_` | subscribe, two unsubscribes, onEvent, publish | `PubSub` |
| `internal/client.hpp`: callee | `registry_`, `pendingInvocations_` | enroll, unregister, onInvocation, onInterrupt, yield | `Callee` |
| `session.hpp`, `internal/session.ipp`: `Session` | (in Client and Peer) | every public operation, called on the strand or from another thread | `SessionApi` |
| `coro/corosession.hpp`: `CoroSession` (deprecated) | (likewise) | the operations with a check of the state, for handlers and coroutines | `SessionApi` |
| `internal/messagetraits.*` | none (a table) | isValidRx, repliesTo | `MessageTraits` |
| `internal/callertimeout.hpp` | set of deadlines, one timer, handler | listen, add, remove, clear, onTimer | `CallerTimeout` |
| `internal/rawsocktransport.hpp` | socket, transmit queue, one read and one write, ping in progress | start, send, ping, close, completion handlers | `RawsockTransport` |
| `internal/rawsockheader.hpp` | none | 32-bit frame header | `RawsockHeader` |
| `internal/rawsockhandshake.hpp` | none | 32-bit handshake | `RawsockHandshake` |
| `internal/rawsockconnector.hpp`, `rawsocklistener.hpp`, openers, acceptors | the step of the establishment, socket, handshake | establish, cancel, completion handlers | `RawsockConnection` |
| `internal/wampmessage.hpp`, `peerdata.hpp`, `options.hpp` | message fields, option dictionaries | parse, fields, request keys, arguments, options, features | `Messages` |
| `variant.hpp`, `internal/variant.ipp`, `varianttraits.hpp`, `variantvisitors.hpp`, `types/` | a tag and a union | construct, assign, move, swap, destroy; compare; convert | `Values`, `Variant`, `Storage`, `ValueCells` |
| `Outcome` of `peerdata.hpp`, `erroror.hpp` | a tag and a union; a value, an error and a flag | construct, assign, move, swap, destroy | `Storage`, `ValueCells` |
| `subscription.hpp`, `registration.hpp` and their scoped forms | client, ID, slot | copy, move, release, destroy, unsubscribe | `Storage`, `ValueCells`, `SessionApi` |
| `unpacker.hpp`, `corounpacker.hpp`, `Payload` | none | unpack arguments, call a slot, turn what it throws into an answer | `Unpacking` |
| `internal/jsonencoding.hpp`, `variantencoding.hpp`, `variantdecoding.hpp`, `base64.hpp` | stack of composites under construction | encode, decode | `Codec` |
| connection settings, errors, logging | values only | accessors | not modelled |

How the parts interact.  A `Session` (public API) forwards to a `Client`, directly or
by dispatching to the session's strand.  `Client` drives `Peer`; `Peer` sends through a
transport and gets received messages and errors by a callback that was posted to the
strand; replies are matched with requests by type and ID; everything else goes to
`Client::onInbound`.  Connectors make transports.  Everything of a session runs on one
strand, so that single steps do not interleave; what does interleave is *tasks*: a
handler queued before an operation runs after it.

What is hard in this:

* **stale tasks**: a received message, a transport error, a completed connection
  attempt or a timer callback that was queued before `disconnect()`, `terminate()` or
  the next `connect()` and runs after it;
* **handlers**: every operation takes a completion handler that has to be invoked once
  by one of many competing paths (reply, error, cancellation, timeout, loss of the
  transport, shutdown, wrap-around of request IDs);
* **tables that lag behind messages**: `topics_` is consulted while SUBSCRIBE and
  UNSUBSCRIBE are under way, and outlives some sessions;
* **one timer for many deadlines**, which is re-armed while its callback may be queued;
* **two operations of one socket**, either of which may fail while the other's handler
  is queued;
* **cancellation** of a chain of asynchronous operations between two of its links;
* **answers without a session**: a deferred result, a thrown error or a progressive
  result is sent by whoever finishes, whatever became of its invocation meanwhile;
* **unions managed by hand**, where every assignment is a sequence of constructions and
  destructions that has to be right for each pair of types;
* **numbers at their limits**: the 24-bit length field, the request IDs, integers that
  neither the other signedness nor a double can hold.

`PROJECT.json` lists these as hazards, each at its line and with the properties that
would catch it going wrong.

## 2. Modules and their correspondence with the code

Variables are named after the members they model (without the trailing underscore) and
actions after the methods; completion handlers that run from a queue are called
`Run...`, messages received `On...`.  Variables marked *history* in the modules record
what happened for the sake of a property and influence no action.  Definitions named
`Mut...` are deliberately wrong variants of the definition that follows them, used to
show that the properties can fail; nothing in a specification refers to them.

**MessageTraits** is the table of `messagetraits.ipp`: which types a client may receive
in which state, and what a reply replies to.

**Session** is `Peer` with the parts of `Client` that use it.  `strand` is the queue of
tasks: received messages, transport errors, handlers posted by `Peer::post`, completed
connection attempts.  User operations may be called at any moment.  `oneShot` and
`multiShot` are functions from request keys (message type and ID) to handlers.
A handler is a token of `Handlers`; `heard` records what it was last invoked with, and
turns to `"misfire"` if it is invoked again after a final outcome.  `AbortPending` and
`Fail` are the methods of these names; `SendRequest` combines the insertion into the
map, the displacement of an entry with the same key and the size check, in the code's
order.  The router is external and may send any message in any state, also one that
does not decode (`"garbled"`).  PUBLISH stands for all acknowledged requests other than
CALL, because `Peer` treats them alike; EVENT for all messages that go to the inbound
handler.  Payloads, log output and the challenge signature are left out.

**Completion** is what a session promises those who pass it handlers, and nothing of how it keeps the
promise: a handler is taken, may hear of progress, and is owed one final outcome, which comes once or is
waived by `terminate()`.  `Session` implements it (`ImplementsCompletion`): what is owed is what the two maps, the
strand and the connection attempts hold (`Owed`).

**PubSub** has the tables of subscriptions, the requests under way in either direction,
and a broker (external) that gives one ID per topic, keeps an ID as long as any client
uses it and may therefore give the same or another ID next time.  The session is reduced
to its states and to what each way of ending does to the tables: `disconnect` and the end of
`leave`, by the reply to GOODBYE or by the loss of the connection, clear them; a GOODBYE of the router and a connection
lost in an established session do not.

**CallerTimeout** has the set of deadlines, compared by deadline only as in the code,
the timer, and the queue of its callbacks together with the WELCOME that sets the
handler of the next session.  Cancelling a timer whose wait has expired has no effect on
the callback, as with `steady_timer`.

**RawsockTransport** has at most one read and one write; the socket ends them, and the
handlers run later.  What a read brings is posted to the strand with a copy of `Peer`'s handler and waits there
(`posted`), while a failed write calls `Peer` directly: `told` is in the order in which `Peer` is called, and may have
messages behind the error, and after `close()`.  `fault` records a failed assertion or the use of a null socket.
Frames are abstracted to a kind, a tag and whether they are longer than allowed.

**Channel** is what `Peer` may take a transport for: frames are accepted and go out in their order and without a
gap until the channel breaks for good; messages, and pongs of the ping that waits, arrive from `start()` until `close()` or
the one error.  What has arrived is heard once, in its order and later, also after the end of the channel, whose error may be heard
before or behind it.  `RawsockTransport` implements it (`ImplementsChannel`); the mapping
`Outside` takes the wire for what was delivered, what is posted for what has arrived, and a failed or closed socket for a broken channel.

**RawsockHandshake** and **RawsockHeader** are the two 32-bit words.  Shifts and masks are written as products,
quotients and remainders of powers of two; of the lengths up to the limit, 2^24 alone meets the type's bits when `put()` ors
the two, in the lowest of them.  **RawsockConnection** puts a connector and a listener at the two ends
of a network; either of them may be replaced by a foreign program that sends any of a
set of words.

**Callee** has the registry, the pending invocations and the three ways to an answer: a
slot that returns, one that throws, one that defers and answers later from some thread.  An INTERRUPT runs a second
slot, which has the same three ways: what it gives is sent as well, whether or not the call slot answers.  A user whose
interrupt slot has answered may drop the deferred call or answer it too (`Resolve`; the tutorial's example does the former).
`posted` is the user's executor, from which slots are taken in any order; `yields` is
what `safeYield` has dispatched to the strand; `thrown` holds errors of slots between
`yield()`'s test of the state and the sending, since these are answered on the user's
executor.  Results may be too long, in which case `yield` sends an error in their place, for a progressive result too, after which
the user still answers.
The dealer is external; it numbers invocations from 1 in each session, may interrupt any
of them once, and refuses nothing.

**SessionApi** has the threads.  An operation of `Session` either runs at once, on the
strand's thread, or is dispatched by its `ThreadSafe` form; it ends with a handler on the
user's executor or with a future that a thread waits for.  Whether the user's executor
is that of the strand is chosen in the initial state.  The operations of `Client` are
reduced to the session's state and to what is pending: requests, and attempts to connect.  An attempt outlives a
`disconnect()`, which only asks it to stop; it ends, is cancelled, or goes on with the next wish, and its
completion runs the handler of the connect, if the `Client` still lives then.  It is held by nothing but the `Session`, the tasks of the strand and
the pending requests (`ClientGone`).  A transport may break, and attempts may fail.  Setting the state change handler tells it nothing.  The operations of `CoroSession` (`coro...`) are
these, in the strand and in the right state only; a coroutine waits for its handler.

**Messages** is `WampMessage::parse` with its table of fields, the message classes with
the positions of their fields, and the options, arguments and features of peer data.
**Values** has the equality and order of variants and the conversions of scalars; integers have `IntBits`, a double has
`MantissaBits`, so that both limits are met with small numbers, and reals are counted in
halves, with two infinities beyond the largest of them (`MaxReal`) and with NaN, which compares as IEEE 754 says (`Unordered`).  What an operator does to arrays and objects is given there in terms of what it does to elements, and
**Variant** closes this recursion, for `==`, `!=` and `<` as for conversions to and from C++ types; it is apart because
the prover takes no recursive operators (the map of `PROJECT.json` has the visitors of the code under `Equal`, `NotEqual` and `Less`).  **Unpacking** is the eight wrappers around slots, and the catch clauses of
`Client` around them; the conversion of one argument is its constant `ConvertTo`, which `MCData` gives the value
`To` of `Variant` and tests (`ToConverts`) for what the proofs assume of it.  **Codec** is the two visitors (variant to events, events to
variant), with the commas that the JSON encoder believes it has to write, the nulls it writes for NaN and the infinities, and Base64.

**Storage** is what `Variant` and `Outcome` do with their unions: each constructor,
assignment and swap is the sequence of constructions, destructions and tag changes of
the code, over memory in which an undefined step is recorded as a fault.  `ErrorOr` is there with
its three members, of which the value may be uninitialized, and so are the handles of subscriptions
and registrations with their scoped forms.  It implements **ValueCells**, in which an object simply has
a value, an operation does to it what its name says, and a scoped object ends what it loses
(`ImplementsValueCells`; the mapping from members to values is `Held` in `Storage`).

`MCSession`, `MCPubSub`, `MCRawsockConnection` and `MCData` instantiate modules for TLC;
in `MCData` a behaviour begins with one input of one of the computing modules.
Theorems and their proofs are in modules of their own, whose names end in `Proofs` (section 4).

## 3. What is checked

Passing runs:

| Run | Bounds | Shows |
|---|---|---|
| `session_handlers` | 4 handlers, 1 request ID, strand backlog of 1, any request may be oversized, reconnecting early allowed | `AtMostOnce`, `NoLostHandler`, `TransportPresent` (an assertion of `Peer`), and the refinement `ImplementsCompletion` |
| `session_ends` | 4 handlers, 1 request ID, 2 wishes, backlog of 2, no early reconnect | `HandshakeAwaited`, `NoOrphanedRequests`, and `LossCompletesRequests` under fairness |
| `pubsub_tables` | 2 topics, 3 subscribes, 3 unsubscribes, 3 broker IDs, 1 event, 2 sessions | `TopicIndex` (with an assertion of `onEvent`), `NoLeak`, `Served`, `EventsReachSubscribers` |
| `timeout` | 3 calls with timeouts 1 to 3, times 0 to 4, 2 sessions | `WaitsOnFirst` (a comment of `add`), `TimeoutKept`, `FiredInOrder`, `FiresOnTime`, and `EventuallyFires` under fairness |
| `transport_io` | 3 frames sent, 3 received, long pings allowed | `ReaderAlive`, `FailureToldOnce`, `PongMatchesPing`, the refinement `ImplementsChannel`, which says that frames go out in order, and `EventuallyWritten` under fairness |
| `connection` | client codecs 1 to 3 of which the listener has 1 and 2, 20 foreign words | `Agreement`, `HandshakeHonoured`, `RefusalIsReported`, `OneOutcome`, and `EstablishEnds` under fairness |
| `callee` | 2 procedures, 1 invocation and 1 progressive result in each of 2 sessions, results may be oversized | `AnsweredOnce`, `InterruptsReach`, and `EventuallyAnswered` under fairness |
| `api` | 2 threads, 1 legacy connector, 4 operations, attempts and transports that fail | `HandlersOnce`, `StateReported`, `TerminateSilences`, and `EveryHandlerRuns` under fairness |
| `data` | integers of 5 bits and of 3, a mantissa of 3; variants of every type, NaN and the infinities, and nested ones; payloads of up to 4 characters of Base64; every kind of wrapper and slot; every message type, with its fields one short, of a wrong type or one more; two variants, two outcomes, two results, one handle and two scoped ones in storage; every frame limit, six type octets | `OrderIsStrictWeak`, `ConversionRoundTrip`, `BadArgumentsAnswered`, `CodecRoundTrip`, `FrameSurvives`, `MessagesFit`, and the refinement `ImplementsValueCells` |

Why these bounds are enough.  One request ID makes the very next request of a type meet a
pending one, so that the wrap-around of IDs happens at once.  Four handlers allow a connect, a
join, a request and a leave or a second request, which is the longest chain in which
handlers compete for one place.  A backlog of one or two is what it takes for something
stale to be ahead of, or behind, what the next operation queues; tasks posted by the
session itself are not bounded by it.  Three subscribes to two topics give a shared
subscription and an independent one; two sessions show what the first leaves behind.
Three deadlines give a first, one that preempts it and one in between; all of them may
be equal.  Three frames let a write be in progress, one wait and one be added.  One
invocation in each of two sessions is enough for an answer to be late in its own session
and to meet another invocation of the same number in the next (the second session does not end, so that what is left has to happen).  Four operations are a
connect, a join and two that race.  Five bits with a mantissa of three leave integers that a
real cannot hold on both sides of the largest signed integer, as 64 and 53 do; operations on
storage concern one or two objects, and two of each class are all their combinations (objects of different classes have nothing to do with each other, and each behaviour is about one class).

Some properties make exceptions, and name them.  `Served` and
`EventsReachSubscribers` exempt a topic that the user unsubscribed from while another
SUBSCRIBE to it was under way, and the topics left in the tables when the router ended a session
(`disturbed`).  `TimeoutKept`, `WaitsOnFirst` and `EventuallyFires` hold of what `Client` does, which
never calls `remove()`, and `TimeoutKept` exempts calls with exactly equal deadlines.
`OrderIsStrictWeak` claims the strict weak order for numbers that a real can hold (integers up to 2^53, `Exact`) and
without NaN (`HoldsNaN`), for which it is false: NaN is equivalent under `<` to every number and equal to none.  With NaN and with larger integers it claims that
`<` is asymmetric, that `==` is symmetric and `!=` its opposite, and that what holds NaN equals nothing.
`CodecRoundTrip` names what does not survive in JSON: NaN and the infinities become null (as `test/codectestjson.cpp` says), and no value is decoded in
which something follows a blob in first place (`Unseparated`) or a string begins with U+0000, which marks blobs (`HoldsNulString`).
`FrameSurvives` exempts the length 2^24, and `MessagesFit` an option set twice.  `AnsweredOnce` is about each slot: an invocation
gets a second final answer if its call slot and its interrupt slot both give one, and if the error in place of an oversized progressive
result comes before the answer; no other way.  `FailureToldOnce` does not say that the error is the last that `Peer` hears, which is not so.
`StateReported` begins with the first change of state after the handler was set, and leaves out a terminating session.
`EveryHandlerRuns` exempts the case in which the strand's only thread waits for a future that only it could make ready (`IoStuck`); and a handler
is dropped rather than run in a terminating session, by the `unsubscribe()` of the run `pubsub_answered`, and by a connect whose `Client` is gone when
its attempt ends.

Runs that show a disagreement between the code and what is said of it:

| Run | Disagreement |
|---|---|
| `session_disconnect` | `disconnect()` promises the disconnected state; a message queued before it makes the session failed. |
| `pubsub_answered` | `unsubscribe()` with a handler does not invoke it when other local subscriptions to the topic remain, where the documentation promises `true`. |
| `callee_own` | A result deferred in one session is sent in the next as the answer to the invocation that has the same number there. |

The exceptions above that contradict the documentation are findings of `PROJECT.json` as well, with
the line quoted: the topics trusted after a GOODBYE of the router, the missing comma after a blob, the
connect handler that is never invoked after `~Session`, the length 2^24, options that cannot be set a second time, the documented matrix of `operator<`, `to(value)`,
which adds to what a container of custom types already holds, `terminate()`, which leaves coroutines of `CoroSession` hanging,
and a `setError()` that does not return what it declares.

Further disagreements were met while modelling; they are in
the notes of the hazards or only here: `connect()` after `terminate()` revives handlers of the terminated
session; a second CHALLENGE meets an assertion; two calls with the same deadline share
one entry of the set; `Peer` may send on a transport whose socket is gone but whose
failure is not yet reported; after `close()`, the handler of a header that has been read starts another
read, possibly through a null socket; a pong may be longer than the other end accepts;
`cancel()` of an establishment may be followed by a success; moving an `Outcome` by assignment leaves the
other's type as it was, where the documentation says `deferred`; `Payload::moveTo` leaves moved-from
values and not nulls; a `Registration` that outlives its session may unregister another procedure with its ID; `to()` may throw `error::Access` where only `error::Conversion` is documented;
a default-constructed `Challenge` has no options for its accessors to read; `isProgressiveResponse()` throws
when `progress` is not a boolean; a key that is an array or object is not refused by the decoder.

### Fairness

`session_ends`: weak fairness of `RunStrand`, that is, the executor runs what is queued.
`timeout`: time passes, the timer reports an expired wait, and the strand runs callbacks.
`transport_io`: the strand runs handlers, and a write ends in success or failure, which a
socket guarantees (nothing is assumed of reads: the peer may be silent for ever).
`connection`: handlers run, and the network between two CppWAMP ends delivers or reports a failure.  A
foreign peer is not assumed to answer, and `EstablishEnds` is about CppWAMP at both ends: the code has no
timeout for a handshake.  `callee`: messages are delivered, the strand and the user's executor run what
they have, and a user whose call slot deferred its answer gives it, unless the interrupt slot has; without the last, an invocation may
wait for ever, and that is the user's doing.  `api`: the strand and the user's executor run what is
queued, a thread whose future is ready goes on, and a cancelled attempt to connect ends (an asynchronous operation of the socket that was
cancelled completes).  User operations are never assumed to happen.

Deadlock is checked for `Session`; the other models may stop when their
bounds are used up, and say `CHECK_DEADLOCK FALSE`.

## 4. What is proved

Eight modules hold proofs.  `SessionProofs`, `PubSubProofs`, `CalleeProofs`, `CallerTimeoutProofs`, `RawsockTransportProofs`,
`RawsockConnectionProofs` and `SessionApiProofs` are each about the module whose name they carry, `DataProofs` about
`Storage`, `RawsockHeader`, `Unpacking`, `Values` and `Messages`.  They hold for every value of the constants that satisfies the assumptions named
below; the bounds of section 3 are constants, so what TLC shows for two sessions or three frames is proved for
any number of them.  All proofs but those of `DataProofs` have the same form: an inductive invariant, `Init => IndInv`,
`IndInv /\ [Next]_vars => IndInv'` by one lemma per action or group of actions, and the
properties as consequences.  TLC checked each invariant before it was proved, with the constants
of the run or similar ones (the number of distinct states is given).

| Module | Assumptions | Theorem | States |
|---|---|---|---|
| `SessionProofs` | `HandlersAssumption`, `BoundsAssumption`, `OversizedAssumption`, `EarlyReconnectAssumption`: finitely many handlers, bounds that are numbers | `Invariance`, `TypeCorrectness`, `HandlersRunAtMostOnce` (`AtMostOnce`), `HandlersAreNotLost` (`NoLostHandler`), `LifeInvariance`, `TransportIsPresent` (`TransportPresent`), `HandshakesAreAwaited` (`HandshakeAwaited`), `RequestsAreNotOrphaned` (`NoOrphanedRequests`), `SessionKeepsItsPromise` (the refinement `ImplementsCompletion`) | 4.3 million in four instances |
| `PubSubProofs` | `PubSubAssumption`: bounds are numbers; the topics are any set | `Invariance`, `TablesAgree` (`TopicIndex`), `NothingLeaks` (`NoLeak`), `SubscriptionsAreServed` (`Served`), `EventsAreDelivered` (`EventsReachSubscribers`) | 960,952 |
| `CalleeProofs` | `CalleeAssumption`: bounds are numbers | `Invariance`, `InvocationsAnsweredOnce` (`AnsweredOnce`), `InterruptsReachCalls` (`InterruptsReach`) | 711,397 |
| `CallerTimeoutProofs` | `TimeoutsAssumption`: timeouts are positive; `TimeBoundsAssumption` | `Invariance`, `TimerWaitsOnFirst` (`WaitsOnFirst`), `TimeoutsAreKept` (`TimeoutKept`), `TimeoutsFireInOrder` (`FiredInOrder`), `TimeoutsFireOnTime` (the action property `FiresOnTime`) | 412,345 |
| `RawsockTransportProofs` | `SentAssumption`, `LongPingsAssumption` | `Invariance`, `TypeCorrectness`, `FramesStayInOrder` (`WireInOrder`), `ReaderStaysAlive` (`ReaderAlive`), `FailureIsToldOnce` (`FailureToldOnce`), `PongsMatch` (`PongMatchesPing`), `TransportIsAChannel` (the refinement `ImplementsChannel`) | 855,757 |
| `RawsockConnectionProofs` | `CodecsAssumption`: codec IDs are 1 to 15; `LengthsAssumption`; foreign words are any at all | `Invariance`, `EndsAgree` (`Agreement`), `HandshakesAreHonoured` (`HandshakeHonoured`), `RefusalsAreReported` (`RefusalIsReported`), `OutcomesAreSingle` (`OneOutcome`) | 19,827 |
| `SessionApiProofs` | `SessionApiAssumption`: the strand's thread is a thread, bounds are numbers | `Invariance`, `HandlersRunOnce` (`HandlersOnce`), `StateIsReported` (`StateReported`), `TerminationIsSilent` (the action property `TerminateSilences`) | 420,239 |
| `DataProofs` | `CellsAssumption`: an object is of one class; `ContentsAssumption`; `VariantAssumption`: widths are positive, and neither the narrow integer nor the mantissa is wider than the integer, and every integer is below the largest real; `LimitsAssumption`; for arguments, `Converts` | `StorageIsSound`, `StorageImplementsCells` (the refinement `ImplementsValueCells`), `FramesSurvive` (`FrameSurvives`), `BadArgumentsAlwaysAnswered` (`BadArgumentsAnswered`), `VariantsInOrder`, `VariantsWithNaN`, `MessagesAlwaysFit` (`MessagesFit`) | 14,190 of the run `data` |

**Session, handlers.**  That no handler is invoked twice is not inductive: from a state in which a handler sits both in a request map
and on the strand, two legal steps invoke it twice.  `IndInv` adds that every handler is held in one
place at most (`HeldOnce`: the two maps, the strand and the connection attempts are
injective and disjoint), that a handler still held has heard nothing final and that one
not yet issued has heard nothing (`HeldUnheard`), and that a terminating session is disconnected or failed and has
all its handlers excused (`TerminatingIdle`), without which a posted handler that a terminating
session drops would be lost.  The argument follows the places.  A first group of lemmas says what the elementary moves
do to the places: removing a key (`WithoutLemma`), entering a handler (`EnterLemma`),
displacing one (`DisplaceLemma`), appending to, concatenating to and taking from the queue (`AppendLemma`,
`ConcatLemma`, `TailLemma`), posting a whole set (`PostAllLemma`).  `Delivery` and `NoDelivery` say
what invoking, or not invoking, the handler of a task does to the invariant.  Then there is a lemma per group of actions
(`RunPostedInv`, `RunConnectedInv`, `FailInv`, `DisconnectInv`, `ReplyInv`, `GoodbyeInv`,
`SendRequestInv`, `ConnectInv`, `CancelInv`, ...), which `NextInv` puts together.

**Session, the promise.**  The lemmas on actions conclude `Preserved`: the invariant holds again, and the step is one of
`Completion` under the mapping, or leaves what `Completion` sees as it was.  That the two go together is no accident.  A handler that
is held in one place only is removed from `Owed` by the step that takes it out of that place; were it held in two, the abstract `Complete`,
which takes it out of what is owed, would not be what the step does.

**Session, life of a session.**  `LifeInv` is inductive relative to `IndInv`.  A stale outcome of connecting
that is still on the strand could make a session `closed` under the feet of a pending handshake, so
that users who await a connect before the next (`~EarlyReconnect`) have at most one outcome on its way (`OneConnect`); then
nothing is pending outside a session, and nothing but HELLO while one is being established, provided GOODBYE always fits the transport (`HandshakeAlone`).  `TransportPresent` and
`HandshakeAwaited` hold for impatient users too.

**PubSub.**  `Served` says that broker and client agree once everything has arrived, which is no help in the
middle.  The invariant says what agreement is while messages are under way: an ID belongs to one topic for ever (`OwnerInv`, with the
owner as the witness of an existential); whenever the client relies on an ID, because a SUBSCRIBED under way says it, `topics_` has it or a
user's Subscription carries it, everything behind that point of the queue is about this ID and the broker still uses it
(`AgreeInv`); UNSUBSCRIBE is never behind a SUBSCRIBE to its topic (`OrderInv`), which is exactly what fails for the
topics named in `disturbed`.  `Operations` shows that the actions are of eleven kinds by what they
do to tables and queues, and there is one lemma for each kind.

**Callee.**  The last answer of a slot is in one place at a time, for the call slot and for the interrupt slot on their own: the posted slot, the user who
deferred, the strand's queue, an exception; or it is done (`DutyInv`).  Nothing is claimed of the two together, as both may answer.  A slot
is posted once because the dealer's messages arrive in order and are not repeated,
hence also an INTERRUPT finds its invocation received (`MessagesInv`).  `pendingInvocations_` then has an entry for exactly the
unanswered invocations, as long as nothing crossed from one session to another (`PendingInv`).

**CallerTimeout.**  The timer waits for the first deadline or one callback is queued, never both (`WaitInv`).  The case that
makes it delicate is a callback left behind by an earlier session: it runs before the WELCOME of the
next one, since both are on the strand (`WelcomeInv`).  What was reported is older than everything still in the set (`PunctualInv`).

**RawsockTransport.**  What was sent is what is on the wire followed by the frame being written and the queue, until a
write fails (`WriterInv`).  At most one error was told or is posted, and a posted one is behind all else that is; the transport
that reported it has let go of its handlers, so that nothing more is posted with a copy of them (`ToldInv`).

From outside (`TransportIsAChannel`), a successful write is a delivery because the frame being written
is, by `WriterInv`, the next one that was accepted (`SocketDelivers`); a task of the strand that calls `Peer` is the hearing of what has arrived; a failure is the end of the channel, heard once, because `StageInv`
says that a transport listens exactly while it runs on an open socket, and has nothing left to report otherwise (`ChannelEnds`).

**RawsockConnection.**  The words are known by their fields only; lemmas on shifts and masks (`HandshakeFields`,
`RefusalFields`, `AnswerFields`) give the fields of the words CppWAMP makes.  The invariant ties what each end holds to what the
other has sent, and says that between two CppWAMP ends nothing else travels (`WordsInv`).

**SessionApi.**  A handler that is still to be invoked is in one place (`HandlersInv`): pending, with a request or with an attempt to connect,
cancelled or not; on the strand; or in the user's queue.  An operation is proved by its effect on these places (`Good`), so that the proof has a lemma per effect and not one for
each of the operations' many forms.

**Storage.**  Here the properties are the steps.  `Sets` and `Sets2` say that one object, or two, have been given a tag and a
field without a fault and that all else is as it was; one lemma for each of the code's elementary steps
(`ConstructsAs`, `DestructsAs`, `Assigns`, ...) and one for each constructor, assignment and swap (`AssignsValue`, `MoveConstructs`, `Swaps`,
`CopyAssigns`, `MovesOutcome`, ...) compose them.  The invariant (`Inv`) says that a live union has a field of the type of its tag, that no temporary
object is left, that a result with a value has a determinate one, and that a handle has a client if and only if it has an ID; under it `Held` is
never `Corrupt` (`HeldIs`), and each operation is the one of `ValueCells` with the same name
(`IsMake`, `IsCopy`, `IsMove`, ...).

**Frame headers.**  `HeaderParts` says that a word made of an octet and a length of at most 24 bits has these as its parts, for any of
them, where TLC knows sixteen limits and six octets.  The length 2^24 remains excepted.

**Arguments.**  `BadArgumentsAlwaysAnswered` is about any number of arguments and parameters, and any conversion that ends in a value, in
`error::Conversion` or in `error::Access`, and does to scalars what `VariantConvertTo` does (`Converts`); user-defined
conversions of this kind are covered.  The first argument that fails to convert ends the loop of `Payload`, hence the proof needs the
first failure of a sequence, which the least number of a set gives (`LeastOf`, from the well-foundedness of `<` on numbers).

**Order of variants.**  `VariantsInOrder` says of variants of any depth what `OrderIsStrictWeak` says of those that TLC compares.  Since
a recursive operator is out of the prover's reach, `<` and `==` are any two relations that satisfy, at every depth, the equations by which
the code defines them (`AreOperators`); `LessThan` and `EqualTo` of `Values` are these equations.  Numbers are those that a real can hold, the infinities included and NaN excluded, without which `<`
is no strict weak order (a hazard of `PROJECT.json`).  `VariantsWithNaN` says what remains with NaN at any depth, and that it is in the way: NaN is neither before nor behind
any number and equal to none.  It needs less of the elements, an asymmetric `<` and a symmetric `==`, from which follow those of the composites (`LessAsym`, `EqualSym`).  The induction is on depth: in a counterexample of least depth the
elements are in order already.  The step from elements to composites is `NestedInOrder`.  It rests on lexicographic order being a strict weak order when that of the elements is
(`SequencesInOrder`), where each comparison is decided at the least place of difference; on the enumeration of an object's members by key, which exists and is unique for
finite sets of keys (`EnumerationOf`, by a counterexample of least cardinality, and `MembersEnumerate`); and, for scalars, on a place on one line for all
numbers (`Place`, `NumbersCompare`).  `NestedLess` and `NestedEqual` show that what the code computes is this order and its equivalence.

**Messages.**  `MessagesAlwaysFit` is about arrays of any number of fields with any values, any ID, any variant for `progress`, and any demands on a router's
features.  It has one lemma per kind of row of the table (`HelloRow`, `CallRow`, ...: what the class of the message reads is within the fields that `parse()` has
checked, and of their types), from which `TableFits`; `AcceptedIsRead` and `SentAsMade` follow from it for fields that arrive and
messages that are made, `ProgressIsAgreed`, `OngoingCallAsks` and `FeaturesOneByOne` are about options.

Only model-checked.  The liveness properties (`LossCompletesRequests`, `EventuallyFires`, `EventuallyWritten`, `EstablishEnds`,
`EventuallyAnswered`, `EveryHandlerRuns`): the prover has no support for fairness and ENABLED.  `ConversionRoundTrip` and
`CodecRoundTrip`: `Variant`'s conversions and `Codec` are recursive operators over types, values and stacks of composites, which
the prover does not take.  `OrderIsStrictWeak` as a statement about the operators of `Variant`, for the same reason; what it
says is proved as `VariantsInOrder` of all relations that satisfy the operators' equations.

## 5. What is not modelled

Access to the elements of a variant by index or key, stream output, and `VariantIsConvertibleTo`, which nothing
uses.  The bytes of MessagePack and CBOR, and the JSON parser, which are jsoncons'.  Connection settings
and connector factories, error categories, logging: option holders and text.  What spawns and resumes a coroutine, which is Boost.Asio's.  Challenge signatures.
Threads other than those of `SessionApi` and the user's executor of `Callee`: the models take the strand's guarantee for granted.
Other accessors of peer data than those that a property needs: each reads or sets one named option, as `optionByKey` and
`withOption` of `Messages` do.  TCP and Unix domain sockets differ in name resolution only and share a model.

## 6. What could come next

1. A composition of `CallerTimeout` with `Session`, so that a timeout cancels a call that may have been answered; today the
   cancellation may come at any time in `Session`, which covers it.
2. Request and reply by way of two `Session`s over `Channel`, with a router between them in place of one that may send anything.
3. `ConversionRoundTrip` and `CodecRoundTrip` in the manner of `VariantsInOrder`: relations that satisfy the recursive equations,
   and induction by the least counterexample.
