------------------------------- MODULE PubSub -------------------------------
(***************************************************************************)
(* The subscriptions of a client: the tables that internal::Client keeps   *)
(* of them, and the conversation with the broker by which they come and    *)
(* go.                                                                     *)
(*                                                                         *)
(* Several local subscriptions to a topic share one subscription at the    *)
(* broker: only the first sends SUBSCRIBE and only the last one that is    *)
(* dropped sends UNSUBSCRIBE.  Client decides which is which from tables   *)
(* that lag behind the requests still under way.                           *)
(*                                                                         *)
(* The life of the session is reduced to what changes the tables; module   *)
(* Session has it in full.  The broker is external.                        *)
(***************************************************************************)
EXTENDS Naturals, Sequences, FiniteSets

CONSTANTS
    Topics,
    MaxSlots,          \* bound: subscribe operations
    MaxUnsubscribes,   \* bound: unsubscribe operations
    MaxIds,            \* bound: subscription IDs that the broker makes up
    MaxEvents,         \* bound: publications
    MaxSessions        \* bound: sessions joined

ASSUME PubSubAssumption ==
    {MaxSlots, MaxUnsubscribes, MaxIds, MaxEvents, MaxSessions} \subseteq Nat

VARIABLES
    state,             \* Peer::state_
    topics,            \* Client::topics_: topic -> subscription ID
    readership,        \* Client::readership_: subscription ID -> local subscriptions
    nextSlotId,        \* Client::nextSlotId_
    toRouter,          \* messages under way to the router, oldest first
    toClient,          \* messages under way to the client
    subscribed,        \* router: topics this session is subscribed to
    brokerId,          \* router: current ID of each topic's subscription, 0 if none
    lastId,            \* router: last ID made up
    session,           \* number of sessions joined so far
    calls,             \* history: number of calls of each bounded operation
    given,             \* history: Subscriptions handed to the user
    dropped,           \* history: slots of those the user has unsubscribed
    disturbed,         \* history: topics whose entries may be out of date (see below)
    strays,            \* history: slots that missed an event, or got a wrong one
    unsubscribes       \* history: what became of the unsubscribes with a handler

tables == << topics, readership >>
router == << subscribed, brokerId, lastId >>
history == << calls, given, dropped, disturbed, strays, unsubscribes >>
vars == << state, tables, nextSlotId, toRouter, toClient, router, session, history >>

\* The SubscriptionRecord under a slot ID.
Local(slot, topic) == [slot |-> slot, topic |-> topic]
\* The Subscription handed to the user, in the given session.
Handle(sub, slot, topic, n) == [sub |-> sub, slot |-> slot, topic |-> topic, session |-> n]

Subscribe(topic)          == [type |-> "subscribe", topic |-> topic]
Unsubscribe(sub, waiting) == [type |-> "unsubscribe", sub |-> sub, waiting |-> waiting]
Subscribed(topic, sub)    == [type |-> "subscribed", topic |-> topic, sub |-> sub]
Unsubscribed(waiting)     == [type |-> "unsubscribed", waiting |-> waiting]
Event(topic, sub)         == [type |-> "event", topic |-> topic, sub |-> sub]
Error                     == [type |-> "error"]
Goodbye                   == [type |-> "goodbye"]

Without(f, key) == [k \in DOMAIN f \ {key} |-> f[k]]

\* The local subscriptions the user holds in this session.
Alive == { h \in given : h.session = session /\ h.slot \notin dropped }

-----------------------------------------------------------------------------
Init ==
    /\ state = "established" /\ session = 1
    /\ topics = << >> /\ readership = << >> /\ nextSlotId = 0
    /\ toRouter = << >> /\ toClient = << >>
    /\ subscribed = {} /\ brokerId = [t \in Topics |-> 0] /\ lastId = 0
    /\ calls = [subscribe |-> 0, unsubscribe |-> 0, publish |-> 0]
    /\ given = {} /\ dropped = {} /\ disturbed = {} /\ strays = {}
    /\ unsubscribes = [asked |-> 0, waiting |-> 0, answered |-> 0]

Count(op) == calls' = [calls EXCEPT ![op] = @ + 1]

-----------------------------------------------------------------------------
(* The tables *)

\* Mutant: a subscription shared at the broker replaces its elder.
MutEnter(sub, local) ==
    [s \in DOMAIN readership \cup {sub} |-> IF s = sub THEN {local} ELSE readership[s]]

\* readership_[subId][slotId] = move(rec)
Enter(sub, local) ==
    [s \in DOMAIN readership \cup {sub} |->
        (IF s \in DOMAIN readership THEN readership[s] ELSE {})
            \cup (IF s = sub THEN {local} ELSE {})]

\* topics_.emplace(rec.topicUri, subId), which keeps an entry that exists.
Emplace(topic, sub) ==
    [t \in DOMAIN topics \cup {topic} |-> IF t \in DOMAIN topics THEN topics[t] ELSE sub]

\* A local subscription with a new slot ID, given to the user.
Grant(sub, topic) ==
    /\ nextSlotId' = nextSlotId + 1
    /\ readership' = Enter(sub, Local(nextSlotId, topic))
    /\ given' = given \cup {Handle(sub, nextSlotId, topic, session)}

\* Mutant: the tables stay, as they do when the router ends the session.
MutClear == UNCHANGED tables /\ disturbed' = {}

\* topics_.clear(); readership_.clear();
Clear == topics' = << >> /\ readership' = << >> /\ disturbed' = {}

-----------------------------------------------------------------------------
(* User operations *)

\* Client::subscribe when established; in any other state nothing changes.
subscribe(topic) ==
    /\ state = "established"
    /\ calls.subscribe < MaxSlots
    /\ Count("subscribe")
    /\ IF topic \in DOMAIN topics
         THEN /\ Grant(topics[topic], topic)
              /\ UNCHANGED << topics, toRouter >>
         ELSE /\ toRouter' = Append(toRouter, Subscribe(topic))
              /\ UNCHANGED << tables, nextSlotId, given >>
    /\ UNCHANGED << state, toClient, router, session, dropped, disturbed, strays,
                    unsubscribes >>

Subscribing(topic) ==
    \/ \E i \in 1 .. Len(toRouter) : toRouter[i] = Subscribe(topic)
    \/ \E i \in 1 .. Len(toClient) :
          toClient[i].type = "subscribed" /\ toClient[i].topic = topic

\* What Client::unsubscribe finds.
Found(h) ==
    h.sub \in DOMAIN readership /\ Local(h.slot, h.topic) \in readership[h.sub]
IsLast(h) == Found(h) /\ Cardinality(readership[h.sub]) = 1

\* Mutant: the topic stays in the index.
MutForget(h) ==
    /\ readership' = IF IsLast(h) THEN Without(readership, h.sub)
                     ELSE IF Found(h)
                       THEN [readership EXCEPT ![h.sub] = @ \ {Local(h.slot, h.topic)}]
                     ELSE readership
    /\ UNCHANGED topics

Forget(h) ==
    /\ topics' = IF IsLast(h) THEN Without(topics, h.topic) ELSE topics
    /\ readership' = IF IsLast(h) THEN Without(readership, h.sub)
                     ELSE IF Found(h)
                       THEN [readership EXCEPT ![h.sub] = @ \ {Local(h.slot, h.topic)}]
                     ELSE readership

\* Mutant: the broker is told of the first one that goes, not of the last.
MutSendsUnsubscribe(h) == Found(h) /\ ~IsLast(h) /\ state = "established"

\* Client::sendUnsubscribe is called for the last one, and sends when established.
SendsUnsubscribe(h) == IsLast(h) /\ state = "established"

\* The user may call unsubscribe on a Subscription it has used before.  To do so
\* while another SUBSCRIBE to the same topic is under way is what disturbs a topic.
BeginUnsubscribe(h) ==
    /\ calls.unsubscribe < MaxUnsubscribes
    /\ Count("unsubscribe")
    /\ dropped' = dropped \cup {h.slot}
    /\ disturbed' = IF Subscribing(h.topic) THEN disturbed \cup {h.topic} ELSE disturbed

\* Client::unsubscribe, with no handler (Subscription::unsubscribe and the
\* destructor of ScopedSubscription).
unsubscribe(h) ==
    /\ BeginUnsubscribe(h)
    /\ Forget(h)
    /\ toRouter' = IF SendsUnsubscribe(h)
                     THEN Append(toRouter, Unsubscribe(h.sub, FALSE)) ELSE toRouter
    /\ UNCHANGED << state, nextSlotId, toClient, router, session, given, strays,
                    unsubscribes >>

\* Client::unsubscribe with a handler.  It is called at once, with false, when the
\* subscription ID is not known, and with an error when there is nothing to send
\* on; it waits for the answer if there is something to send.
unsubscribeWait(h) ==
    /\ BeginUnsubscribe(h)
    /\ Forget(h)
    /\ toRouter' = IF SendsUnsubscribe(h)
                     THEN Append(toRouter, Unsubscribe(h.sub, TRUE)) ELSE toRouter
    /\ unsubscribes' =
          [unsubscribes EXCEPT
             !.asked = @ + 1,
             !.waiting = IF SendsUnsubscribe(h) THEN @ + 1 ELSE @,
             !.answered = IF h.sub \notin DOMAIN readership
                               \/ (IsLast(h) /\ state # "established") THEN @ + 1 ELSE @]
    /\ UNCHANGED << state, nextSlotId, toClient, router, session, given, strays >>

-----------------------------------------------------------------------------
(* The end of a session, and the next one *)

\* The handlers of pending requests are told that the session has ended, and
\* nothing more arrives.
AbortPending ==
    /\ toRouter' = << >> /\ toClient' = << >>
    /\ unsubscribes' = [unsubscribes EXCEPT !.answered = @ + unsubscribes.waiting,
                                            !.waiting = 0]

leave ==
    /\ state = "established"
    /\ state' = "shuttingDown"
    /\ toRouter' = Append(toRouter, Goodbye)
    /\ UNCHANGED << tables, nextSlotId, toClient, router, session, history >>

\* Client::doDisconnect; the connection is gone, and with it the session.
disconnect ==
    /\ state' = "disconnected" /\ state # "disconnected"
    /\ Clear
    /\ AbortPending
    /\ subscribed' = {}
    /\ UNCHANGED << nextSlotId, brokerId, lastId, session, calls, given, dropped, strays >>

\* Peer::fail leaves the tables as they are, but the handler of a leave that is
\* pending, which it aborts, clears them; only disconnect() leads on.
ConnectionLost ==
    /\ state \in {"established", "shuttingDown"}
    /\ state' = "failed"
    /\ AbortPending
    /\ subscribed' = {}
    /\ IF state = "shuttingDown" THEN Clear ELSE UNCHANGED << tables, disturbed >>
    /\ UNCHANGED << nextSlotId, brokerId, lastId, session, calls, given, dropped, strays >>

\* join() on an open connection, or connect() and join().
join ==
    /\ state \in {"closed", "disconnected"}
    /\ session < MaxSessions
    /\ state' = "established"
    /\ session' = session + 1
    /\ UNCHANGED << tables, nextSlotId, toRouter, toClient, router, history >>

-----------------------------------------------------------------------------
(* Messages received by the client *)

Receive(type) ==
    /\ toClient # << >> /\ Head(toClient).type = type
    /\ toClient' = Tail(toClient)

\* The reply handler of Client::subscribe.
OnSubscribed ==
    /\ Receive("subscribed")
    /\ topics' = Emplace(Head(toClient).topic, Head(toClient).sub)
    /\ Grant(Head(toClient).sub, Head(toClient).topic)
    /\ UNCHANGED << state, toRouter, router, session, calls, dropped, disturbed, strays,
                    unsubscribes >>

\* An ERROR reply to SUBSCRIBE is passed on to the user.
OnSubscribeError ==
    /\ Receive("error")
    /\ UNCHANGED << state, tables, nextSlotId, toRouter, router, session, history >>

\* UNSUBSCRIBED, or an ERROR reply to UNSUBSCRIBE: either is an answer.
OnUnsubscribed ==
    /\ Receive("unsubscribed")
    /\ unsubscribes' = IF Head(toClient).waiting
                         THEN [unsubscribes EXCEPT !.waiting = @ - 1, !.answered = @ + 1]
                         ELSE unsubscribes
    /\ UNCHANGED << state, tables, nextSlotId, toRouter, router, session, calls, given,
                    dropped, disturbed, strays >>

\* The slots to which Client::onEvent posts an event.
Readers(sub) ==
    IF sub \in DOMAIN readership THEN { l.slot : l \in readership[sub] } ELSE {}

\* Client::onEvent; Peer discards an EVENT while the session is shutting down.
OnEvent ==
    /\ Receive("event")
    /\ LET e        == Head(toClient)
           readers  == Readers(e.sub)
           expected == IF e.topic \in disturbed THEN {}
                       ELSE { h.slot : h \in { a \in Alive : a.topic = e.topic } }
           wrong    == { h.slot : h \in { a \in given : a.topic # e.topic } }
       IN  strays' = IF state = "shuttingDown" THEN strays
                     ELSE strays \cup (expected \ readers) \cup (wrong \cap readers)
    /\ UNCHANGED << state, tables, nextSlotId, toRouter, router, session, calls, given,
                    dropped, disturbed, unsubscribes >>

\* The GOODBYE reply: Peer::processGoodbye and the handler of Client::leave.
OnGoodbyeReply ==
    /\ state = "shuttingDown"
    /\ toClient # << >> /\ Head(toClient) = Goodbye
    /\ state' = "closed"
    /\ Clear
    /\ AbortPending
    /\ UNCHANGED << nextSlotId, router, session, calls, given, dropped, strays >>

\* A GOODBYE out of the blue: Peer::processGoodbye leaves the tables as they are, so
\* that the next session starts with those of this one.
OnGoodbye ==
    /\ state = "established"
    /\ toClient # << >> /\ Head(toClient) = Goodbye
    /\ state' = "closed"
    /\ disturbed' = DOMAIN topics
    /\ AbortPending
    /\ UNCHANGED << tables, nextSlotId, router, session, calls, given, dropped, strays >>

-----------------------------------------------------------------------------
(* The broker *)

\* Once the router has said GOODBYE it drops what it gets of that session.
RouterIsDone == \E i \in 1 .. Len(toClient) : toClient[i] = Goodbye

Request(type) ==
    /\ ~RouterIsDone
    /\ toRouter # << >> /\ Head(toRouter).type = type
    /\ toRouter' = Tail(toRouter)

\* A topic's subscription keeps its ID while any client has it, so a client that
\* comes back may get the ID it had, or a new one.
RouterSubscribes ==
    /\ Request("subscribe")
    /\ LET t == Head(toRouter).topic
       IN  /\ \/ UNCHANGED << brokerId, lastId >> /\ brokerId[t] # 0
              \/ /\ t \notin subscribed /\ lastId < MaxIds
                 /\ lastId' = lastId + 1
                 /\ brokerId' = [brokerId EXCEPT ![t] = lastId + 1]
           /\ subscribed' = subscribed \cup {t}
           /\ toClient' = Append(toClient, Subscribed(t, brokerId'[t]))
    /\ UNCHANGED << state, tables, nextSlotId, session, history >>

RouterRefuses ==
    /\ Request("subscribe")
    /\ toClient' = Append(toClient, Error)
    /\ UNCHANGED << state, tables, nextSlotId, router, session, history >>

RouterUnsubscribes ==
    /\ Request("unsubscribe")
    /\ subscribed' = subscribed \ { t \in Topics : brokerId[t] = Head(toRouter).sub }
    /\ toClient' = Append(toClient, Unsubscribed(Head(toRouter).waiting))
    /\ UNCHANGED << state, tables, nextSlotId, brokerId, lastId, session, history >>

RouterPublishes(topic) ==
    /\ topic \in subscribed
    /\ calls.publish < MaxEvents
    /\ Count("publish")
    /\ toClient' = Append(toClient, Event(topic, brokerId[topic]))
    /\ UNCHANGED << state, tables, nextSlotId, toRouter, router, session, given,
                    dropped, disturbed, strays, unsubscribes >>

RouterGoodbyeReply ==
    /\ Request("goodbye")
    /\ subscribed' = {}
    /\ toClient' = Append(toClient, Goodbye)
    /\ UNCHANGED << state, tables, nextSlotId, brokerId, lastId, session, history >>

\* Requests that meet the router's GOODBYE are never answered.
RouterSaysGoodbye ==
    /\ ~RouterIsDone
    /\ state = "established"
    /\ subscribed' = {}
    /\ toRouter' = << >>
    /\ toClient' = Append(toClient, Goodbye)
    /\ UNCHANGED << state, tables, nextSlotId, brokerId, lastId, session, history >>

-----------------------------------------------------------------------------
User ==
    \/ \E t \in Topics : subscribe(t)
    \/ \E h \in given : unsubscribe(h)
    \/ \E h \in given : unsubscribeWait(h)
    \/ leave \/ disconnect \/ join

Received ==
    \/ OnSubscribed \/ OnSubscribeError \/ OnUnsubscribed
    \/ OnEvent \/ OnGoodbyeReply \/ OnGoodbye

Broker ==
    \/ RouterSubscribes \/ RouterRefuses \/ RouterUnsubscribes
    \/ \E t \in Topics : RouterPublishes(t)
    \/ RouterGoodbyeReply \/ RouterSaysGoodbye

Next == User \/ ConnectionLost \/ Received \/ Broker

Spec == Init /\ [][Next]_vars

-----------------------------------------------------------------------------
(* Properties *)

Quiet == state = "established" /\ toRouter = << >> /\ toClient = << >>

\* topics_ never leads to a subscription that readership_ has forgotten, nor to
\* one of another topic, and no entry of readership_ is empty (which onEvent
\* asserts): in whatever order the subscribes, the unsubscribes, their replies
\* and the sessions come.
TopicIndex ==
    /\ \A t \in DOMAIN topics :
          /\ topics[t] \in DOMAIN readership
          /\ \A l \in readership[topics[t]] : l.topic = t
    /\ \A s \in DOMAIN readership : readership[s] # {}

\* When the last local subscription is gone, so is the one at the broker, once
\* what is under way has arrived: the session does not go on receiving a topic
\* that nobody reads.
NoLeak ==
    Quiet => \A t \in subscribed : brokerId[t] \in DOMAIN readership

\* A local subscription the user was given, and has not dropped, has the broker's
\* subscription behind it, once what is under way has arrived; except for topics
\* that the user unsubscribed from while subscribing to them, and for those that
\* were there when the router ended the previous session.
Served ==
    Quiet => \A h \in Alive : \/ h.topic \in disturbed
                              \/ h.topic \in subscribed /\ brokerId[h.topic] = h.sub

\* With the same exceptions, an event reaches every local subscription to its topic;
\* and it never reaches a subscription to another topic.
EventsReachSubscribers == strays = {}

-----------------------------------------------------------------------------
(* What the documentation says and the code does not do *)

\* A handler given to unsubscribe has been called, or waits for a reply: "`true`
\* will be passed to the completion handler" if there are other subscriptions.
UnsubscribeAnswered ==
    unsubscribes.asked = unsubscribes.waiting + unsubscribes.answered
=============================================================================
