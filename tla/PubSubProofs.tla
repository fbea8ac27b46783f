---------------------------- MODULE PubSubProofs ----------------------------
(***************************************************************************)
(* The subscription tables of a client agree with the broker, proved for   *)
(* any topics and any number of subscriptions, events and sessions.        *)
(*                                                                         *)
(* A subscription ID stands for one topic, now and in whatever is left of  *)
(* earlier sessions.  An ID that the client has been told, that is in its  *)
(* index or that a user's Subscription carries is the broker's current one *)
(* and no UNSUBSCRIBE of it is under way, unless the topic was disturbed;  *)
(* and messages arrive in the order sent.                                  *)
(***************************************************************************)
EXTENDS PubSub, FiniteSetTheorems, TLAPS

-----------------------------------------------------------------------------
(* Types *)

States == {"established", "shuttingDown", "closed", "failed", "disconnected"}
Locals == [slot : Nat, topic : Topics]
Handles == [sub : Nat, slot : Nat, topic : Topics, session : Nat]
RouterMessages ==
    [type : {"subscribe"}, topic : Topics] \cup
    [type : {"unsubscribe"}, sub : Nat, waiting : BOOLEAN] \cup
    [type : {"goodbye"}]
ClientMessages ==
    [type : {"subscribed", "event"}, topic : Topics, sub : Nat] \cup
    [type : {"unsubscribed"}, waiting : BOOLEAN] \cup
    [type : {"error", "goodbye"}]

\* The types on which the argument depends.
TypeOK ==
    /\ state \in States /\ session \in Nat
    /\ DOMAIN topics \subseteq Topics /\ topics \in [DOMAIN topics -> Nat]
    /\ DOMAIN readership \subseteq Nat
    /\ readership \in [DOMAIN readership -> SUBSET Locals]
    /\ \A s \in DOMAIN readership : IsFiniteSet(readership[s])
    /\ nextSlotId \in Nat
    /\ toRouter \in Seq(RouterMessages) /\ toClient \in Seq(ClientMessages)
    /\ subscribed \subseteq Topics /\ brokerId \in [Topics -> Nat] /\ lastId \in Nat
    /\ given \subseteq Handles

-----------------------------------------------------------------------------
(* The inductive invariant *)

\* An ID is made up for one topic, and never for another.
Owns(owner) ==
    /\ \A t \in Topics : brokerId[t] # 0 => brokerId[t] \in 1 .. lastId /\ owner[brokerId[t]] = t
    /\ \A t \in subscribed : brokerId[t] # 0
    /\ \A t \in DOMAIN topics : topics[t] \in 1 .. lastId /\ owner[topics[t]] = t
    /\ \A s \in DOMAIN readership :
          s \in 1 .. lastId /\ \A l \in readership[s] : l.topic = owner[s]
    /\ \A h \in given : h.sub \in 1 .. lastId /\ owner[h.sub] = h.topic
    /\ \A i \in DOMAIN toClient :
          toClient[i].type \in {"subscribed", "event"} =>
             toClient[i].sub \in 1 .. lastId /\ owner[toClient[i].sub] = toClient[i].topic

OwnerInv == \E owner \in [1 .. lastId -> Topics] : Owns(owner)

\* Slot IDs are not used again, and what is in readership_ was given to the user.
SlotsInv ==
    /\ \A h \in given : h.slot < nextSlotId /\ h.session <= session
    /\ \A g, h \in given : g.slot = h.slot => g = h
    /\ \A s \in DOMAIN readership : \A l \in readership[s] :
          \E h \in given : h.sub = s /\ h.slot = l.slot /\ h.topic = l.topic

\* Between sessions nothing is under way, and the tables that a GOODBYE of the
\* router's has left behind are known to be out of date.
BetweenInv ==
    /\ state \notin {"established", "shuttingDown"} =>
          toRouter = << >> /\ toClient = << >> /\ subscribed = {}
    /\ state \in {"closed", "disconnected"} => DOMAIN topics \subseteq disturbed
    /\ RouterIsDone => subscribed = {}

\* A Subscription that the user holds is in readership_.
ReadInv ==
    state = "established" =>
        \A h \in Alive : h.sub \in DOMAIN readership /\ Local(h.slot, h.topic) \in readership[h.sub]

Unsubscribing(sub) ==
    \E i \in DOMAIN toRouter : toRouter[i].type = "unsubscribe" /\ toRouter[i].sub = sub
Told(topic, sub) == \E i \in DOMAIN toClient : toClient[i] = Subscribed(topic, sub)

\* What the broker serves is in readership_, is about to be, or is being dropped.
LeakInv ==
    state = "established" =>
        \A t \in subscribed, s \in 1 .. lastId :
            brokerId[t] = s => s \in DOMAIN readership \/ Told(t, s) \/ Unsubscribing(s)

\* UNSUBSCRIBE does not follow a SUBSCRIBE to the same topic, unless disturbed.
OrderInv ==
    \A i \in DOMAIN toRouter : toRouter[i].type = "unsubscribe" =>
        /\ \E h \in given : h.sub = toRouter[i].sub
        /\ \A h \in given : h.sub = toRouter[i].sub /\ h.topic \notin disturbed =>
              \A j \in DOMAIN toRouter : toRouter[j] = Subscribe(h.topic) => i < j

\* After the messages up to "from", everything the client is told of the topic is
\* about this ID, and it is the broker's until the router says GOODBYE.
Agrees(topic, sub, from) ==
    /\ \A j \in DOMAIN toClient :
          j > from /\ toClient[j].type \in {"subscribed", "event"} /\ toClient[j].topic = topic
              => toClient[j].sub = sub
    /\ ~RouterIsDone => topic \in subscribed /\ brokerId[topic] = sub /\ ~Unsubscribing(sub)

\* The client relies on the ID: a SUBSCRIBED that is on its way says it, topics_ has
\* it, or a Subscription that the user holds does.
Relies(topic, sub, from) ==
    \/ from \in DOMAIN toClient /\ toClient[from] = Subscribed(topic, sub)
    \/ from = 0 /\ topic \in DOMAIN topics /\ topics[topic] = sub
    \/ from = 0 /\ \E h \in Alive : h.topic = topic /\ h.sub = sub

AgreeInv ==
    state = "established" =>
        \A t \in Topics \ disturbed, s \in 1 .. lastId, from \in 0 .. Len(toClient) :
            Relies(t, s, from) => Agrees(t, s, from)

IndInv ==
    /\ TypeOK /\ OwnerInv /\ SlotsInv /\ TopicIndex /\ BetweenInv
    /\ ReadInv /\ LeakInv /\ OrderInv /\ AgreeInv /\ EventsReachSubscribers

-----------------------------------------------------------------------------
(* Sequences, messages and tables *)

\* A message put at the end of a queue
LEMMA AppendFacts ==
    ASSUME NEW S, NEW s \in Seq(S), NEW e \in S
    PROVE  /\ Append(s, e) \in Seq(S)
           /\ DOMAIN s = 1 .. Len(s) /\ Len(s) \in Nat
           /\ DOMAIN Append(s, e) = 1 .. Len(s) + 1
           /\ \A i \in DOMAIN s : i \in DOMAIN Append(s, e) /\ Append(s, e)[i] = s[i]
           /\ \A i \in DOMAIN Append(s, e) : i \in DOMAIN s \/ i = Len(s) + 1
           /\ Append(s, e)[Len(s) + 1] = e
  OBVIOUS

\* A message taken from the front of a queue
LEMMA TailFacts ==
    ASSUME NEW S, NEW s \in Seq(S), s # << >>
    PROVE  /\ Tail(s) \in Seq(S) /\ Head(s) \in S /\ Head(s) = s[1]
           /\ Len(s) \in Nat /\ Len(s) > 0 /\ DOMAIN s = 1 .. Len(s)
           /\ DOMAIN Tail(s) = 1 .. Len(s) - 1
           /\ \A i \in DOMAIN Tail(s) : i + 1 \in DOMAIN s /\ Tail(s)[i] = s[i + 1]
           /\ \A i \in DOMAIN s : i # 1 => i - 1 \in DOMAIN Tail(s) /\ Tail(s)[i - 1] = s[i]
  OBVIOUS

\* A queue and a table with nothing in them
LEMMA EmptyFacts ==
    ASSUME NEW S
    PROVE  << >> \in Seq(S) /\ DOMAIN << >> = {} /\ << >> \in [{} -> S]
<1>1. << >> \in Seq(S) /\ Len(<< >>) = 0
  OBVIOUS
<1>2. DOMAIN << >> = {}
  BY <1>1
<1>3. << >> \in [{} -> S]
  BY <1>2
<1> QED
  BY <1>1, <1>2, <1>3

\* What the client sends, the router can read.
LEMMA SentTypes ==
    /\ \A t \in Topics : Subscribe(t) \in RouterMessages
    /\ \A s \in Nat, w \in BOOLEAN : Unsubscribe(s, w) \in RouterMessages
    /\ Goodbye \in RouterMessages
  BY DEF Subscribe, Unsubscribe, Goodbye, RouterMessages

\* What the router sends, the client can read.
LEMMA ReplyTypes ==
    /\ \A t \in Topics, s \in Nat :
          Subscribed(t, s) \in ClientMessages /\ Event(t, s) \in ClientMessages
    /\ \A w \in BOOLEAN : Unsubscribed(w) \in ClientMessages
    /\ Goodbye \in ClientMessages /\ Error \in ClientMessages
  BY DEF Subscribed, Event, Unsubscribed, Goodbye, Error, ClientMessages

\* What a message carries is told by its type.
LEMMA Carried ==
    /\ \A m \in RouterMessages :
          /\ m.type = "subscribe" => m.topic \in Topics /\ m = Subscribe(m.topic)
          /\ m.type = "unsubscribe" => m.sub \in Nat /\ m.waiting \in BOOLEAN
    /\ \A m \in ClientMessages :
          /\ m.type \in {"subscribed", "event"} => m.topic \in Topics /\ m.sub \in Nat
          /\ m.type = "subscribed" => m = Subscribed(m.topic, m.sub)
          /\ m.type = "goodbye" <=> m = Goodbye
<1>1. \A m \in RouterMessages :
          /\ m.type = "subscribe" => m.topic \in Topics /\ m = Subscribe(m.topic)
          /\ m.type = "unsubscribe" => m.sub \in Nat /\ m.waiting \in BOOLEAN
  BY DEF RouterMessages, Subscribe
<1>2. \A m \in ClientMessages :
          m.type \in {"subscribed", "event"} => m.topic \in Topics /\ m.sub \in Nat
  BY DEF ClientMessages
<1>3. \A m \in ClientMessages : m.type = "subscribed" => m = Subscribed(m.topic, m.sub)
  BY DEF ClientMessages, Subscribed
<1>4. \A m \in ClientMessages : m.type = "goodbye" <=> m = Goodbye
  BY DEF ClientMessages, Goodbye
<1> QED
  BY <1>1, <1>2, <1>3, <1>4

\* What the record of a slot consists of
LEMMA LocalFields ==
    \A slot, topic : Local(slot, topic).slot = slot /\ Local(slot, topic).topic = topic
  BY DEF Local

\* What a Subscription consists of
LEMMA HandleFields ==
    \A sub, slot, topic, n :
        /\ Handle(sub, slot, topic, n).sub = sub /\ Handle(sub, slot, topic, n).slot = slot
        /\ Handle(sub, slot, topic, n).topic = topic /\ Handle(sub, slot, topic, n).session = n
  BY DEF Handle

\* Enter adds one local subscription.
LEMMA Entered ==
    ASSUME TypeOK, NEW sub \in Nat, NEW l \in Locals, readership' = Enter(sub, l)
    PROVE  /\ DOMAIN readership' = DOMAIN readership \cup {sub}
           /\ readership' \in [DOMAIN readership' -> SUBSET Locals]
           /\ \A s \in DOMAIN readership' : IsFiniteSet(readership'[s])
           /\ \A s \in DOMAIN readership : readership[s] \subseteq readership'[s]
           /\ l \in readership'[sub]
           /\ \A s \in DOMAIN readership' : \A k \in readership'[s] :
                 \/ s \in DOMAIN readership /\ k \in readership[s]
                 \/ s = sub /\ k = l
<1>1. DOMAIN readership' = DOMAIN readership \cup {sub}
  BY DEF Enter
<1>2. \A s \in DOMAIN readership' : readership'[s] =
        (IF s \in DOMAIN readership THEN readership[s] ELSE {}) \cup (IF s = sub THEN {l} ELSE {})
  BY DEF Enter
<1>3. \A s \in DOMAIN readership' : readership'[s] \subseteq Locals
  BY <1>1, <1>2 DEF TypeOK
<1>4. readership' = [s \in DOMAIN readership' |-> readership'[s]]
  BY DEF Enter
<1>5. readership' \in [DOMAIN readership' -> SUBSET Locals]
  BY <1>3, <1>4
<1>6. ASSUME NEW s \in DOMAIN readership' PROVE IsFiniteSet(readership'[s])
  <2>1. \A old : IsFiniteSet(old) => IsFiniteSet(old \cup {}) /\ IsFiniteSet(old \cup {l})
    BY FS_AddElement
  <2>2. IsFiniteSet(IF s \in DOMAIN readership THEN readership[s] ELSE {})
    BY FS_EmptySet DEF TypeOK
  <2> QED
    BY <1>2, <2>1, <2>2
<1> QED
  BY <1>1, <1>2, <1>5, <1>6

\* emplace() into topics_ changes no entry that is there.
LEMMA Emplaced ==
    ASSUME TypeOK, NEW t \in Topics, NEW sub \in Nat, topics' = Emplace(t, sub)
    PROVE  /\ DOMAIN topics' = DOMAIN topics \cup {t} /\ topics' \in [DOMAIN topics' -> Nat]
           /\ \A u \in DOMAIN topics : topics'[u] = topics[u]
           /\ t \notin DOMAIN topics => topics'[t] = sub
<1>1. DOMAIN topics' = DOMAIN topics \cup {t}
  BY DEF Emplace
<1>2. \A u \in DOMAIN topics' : topics'[u] = IF u \in DOMAIN topics THEN topics[u] ELSE sub
  BY DEF Emplace
<1>3. topics' = [u \in DOMAIN topics' |-> topics'[u]]
  BY DEF Emplace
<1>4. \A u \in DOMAIN topics' : topics'[u] \in Nat
  BY <1>1, <1>2 DEF TypeOK
<1> QED
  BY <1>1, <1>2, <1>3, <1>4

\* Forget only takes entries away, and leaves no empty set behind.
LEMMA Forgotten ==
    ASSUME TypeOK, NEW h \in given, Forget(h)
    PROVE  /\ DOMAIN topics' \subseteq DOMAIN topics /\ topics' \in [DOMAIN topics' -> Nat]
           /\ \A u \in DOMAIN topics' : topics'[u] = topics[u]
           /\ DOMAIN readership' \subseteq DOMAIN readership
           /\ readership' \in [DOMAIN readership' -> SUBSET Locals]
           /\ \A s \in DOMAIN readership' :
                 readership'[s] \subseteq readership[s] /\ IsFiniteSet(readership'[s])
           /\ \A s \in DOMAIN readership \ {h.sub} :
                 s \in DOMAIN readership' /\ readership'[s] = readership[s]
           /\ IsLast(h) => h.sub \notin DOMAIN readership' /\ h.topic \notin DOMAIN topics'
           /\ ~IsLast(h) => /\ DOMAIN readership' = DOMAIN readership
                            /\ \A l \in Locals : \A s \in DOMAIN readership :
                                 l \in readership[s] /\ l # Local(h.slot, h.topic) => l \in readership'[s]
           /\ (\A s \in DOMAIN readership : readership[s] # {}) =>
                 \A s \in DOMAIN readership' : readership'[s] # {}
<1>1. CASE IsLast(h)
  <2>1. topics' = Without(topics, h.topic) /\ readership' = Without(readership, h.sub)
    BY <1>1 DEF Forget
  <2>2. /\ DOMAIN topics' = DOMAIN topics \ {h.topic}
        /\ \A u \in DOMAIN topics' : topics'[u] = topics[u]
        /\ topics' = [u \in DOMAIN topics' |-> topics[u]]
    BY <2>1 DEF Without
  <2>3. /\ DOMAIN readership' = DOMAIN readership \ {h.sub}
        /\ \A s \in DOMAIN readership' : readership'[s] = readership[s]
        /\ readership' = [s \in DOMAIN readership' |-> readership[s]]
    BY <2>1 DEF Without
  <2>4. topics' \in [DOMAIN topics' -> Nat]
    BY <2>2 DEF TypeOK
  <2>5. readership' \in [DOMAIN readership' -> SUBSET Locals]
    BY <2>3 DEF TypeOK
  <2>6. \A s \in DOMAIN readership' : IsFiniteSet(readership'[s])
    BY <2>3 DEF TypeOK
  <2> QED
    BY <1>1, <2>2, <2>3, <2>4, <2>5, <2>6
<1>2. CASE ~IsLast(h) /\ Found(h)
  <2> DEFINE gone == Local(h.slot, h.topic)
  <2>1. topics' = topics /\ readership' = [readership EXCEPT ![h.sub] = @ \ {gone}]
    BY <1>2 DEF Forget
  <2>2. h.sub \in DOMAIN readership /\ gone \in readership[h.sub]
    BY <1>2 DEF Found
  <2> HIDE DEF gone
  <2>3. /\ DOMAIN readership' = DOMAIN readership
        /\ \A s \in DOMAIN readership :
              readership'[s] = IF s = h.sub THEN readership[s] \ {gone} ELSE readership[s]
        /\ readership' = [s \in DOMAIN readership |-> readership'[s]]
    BY <2>1, <2>2 DEF TypeOK
  <2>4. readership' \in [DOMAIN readership' -> SUBSET Locals]
    BY <2>3 DEF TypeOK
  <2>5. Cardinality(readership[h.sub]) # 1
    BY <1>2 DEF IsLast
  <2>6. readership[h.sub] \ {gone} # {}
    <3>1. SUFFICES ASSUME readership[h.sub] \ {gone} = {} PROVE FALSE
      OBVIOUS
    <3>2. readership[h.sub] = {gone}
      BY <2>2, <3>1
    <3>3. Cardinality({gone}) = 1
      BY FS_Singleton
    <3> QED
      BY <2>5, <3>2, <3>3
  <2>7. \A l \in Locals : \A s \in DOMAIN readership :
            l \in readership[s] /\ l # gone => l \in readership'[s]
    BY <2>3
  <2>8. \A s \in DOMAIN readership' : IsFiniteSet(readership'[s])
    <3>1. \A s \in DOMAIN readership : IsFiniteSet(readership[s])
      BY DEF TypeOK
    <3>2. IsFiniteSet(readership[h.sub] \ {gone})
      BY <2>2, <3>1, FS_Subset
    <3> QED
      BY <2>3, <3>1, <3>2
  <2>9. DOMAIN topics' = DOMAIN topics /\ topics' \in [DOMAIN topics' -> Nat]
    BY <2>1 DEF TypeOK
  <2> QED
    BY <1>2, <2>1, <2>2, <2>3, <2>4, <2>6, <2>7, <2>8, <2>9 DEF gone
<1>3. CASE ~Found(h)
  <2>1. ~IsLast(h)
    BY <1>3 DEF IsLast
  <2>2. topics' = topics /\ readership' = readership
    BY <1>3, <2>1 DEF Forget
  <2> QED
    BY <2>1, <2>2 DEF TypeOK
<1> QED
  BY <1>1, <1>2, <1>3

-----------------------------------------------------------------------------
(* Steps that several operations have in common *)

\* Client::unsubscribe, with or without a handler.
Drop(h, waiting) ==
    /\ dropped' = dropped \cup {h.slot}
    /\ disturbed' = IF Subscribing(h.topic) THEN disturbed \cup {h.topic} ELSE disturbed
    /\ Forget(h)
    /\ toRouter' = IF SendsUnsubscribe(h)
                     THEN Append(toRouter, Unsubscribe(h.sub, waiting)) ELSE toRouter
    /\ UNCHANGED << state, nextSlotId, toClient, router, session, given, strays >>

\* A message is sent that neither the tables nor the history take note of.
Send(m) ==
    /\ m \in RouterMessages /\ m.type # "unsubscribe"
    /\ state' = state \/ state' = "shuttingDown"
    /\ state = "established"
    /\ toRouter' = Append(toRouter, m)
    /\ UNCHANGED << tables, nextSlotId, toClient, router, session, given, dropped,
                    disturbed, strays >>

\* A session ends, and the tables are cleared or known to be out of date.
End ==
    /\ toRouter' = << >> /\ toClient' = << >> /\ subscribed' = {}
    /\ \/ state' = "failed" /\ UNCHANGED << tables, disturbed >>
       \/ state' \in {"closed", "disconnected", "failed"} /\ Clear
       \/ state' = "closed" /\ UNCHANGED tables /\ disturbed' = DOMAIN topics
    /\ UNCHANGED << nextSlotId, brokerId, lastId, session, given, dropped, strays >>

\* A message is received that does not change the tables.
Pass ==
    /\ toClient # << >> /\ Head(toClient).type \in {"error", "unsubscribed", "event"}
    /\ toClient' = Tail(toClient)
    /\ UNCHANGED << state, tables, nextSlotId, toRouter, router, session, given,
                    dropped, disturbed >>

\* The broker sends a message, having taken one or not.
Reply(m) ==
    /\ m \in ClientMessages
    /\ state \in {"established", "shuttingDown"}
    /\ \/ toRouter' = toRouter
       \/ toRouter' = << >>
       \/ toRouter # << >> /\ toRouter' = Tail(toRouter)
    /\ toClient' = Append(toClient, m)
    /\ UNCHANGED << state, tables, nextSlotId, session, given, dropped, disturbed, strays >>

\* It refuses, or publishes, and its subscriptions stay as they are.
Tell(m) ==
    /\ Reply(m)
    /\ \/ /\ m.type = "error"
          /\ toRouter # << >> /\ toRouter' = Tail(toRouter) /\ Head(toRouter).type = "subscribe"
       \/ /\ m.type = "event" /\ m.topic \in subscribed /\ m.sub = brokerId[m.topic]
          /\ toRouter' = toRouter
    /\ UNCHANGED router

\* The router ends the session.
Farewell ==
    /\ Reply(Goodbye)
    /\ subscribed' = {}
    /\ UNCHANGED << brokerId, lastId >>

\* Every action is one of a few kinds, by what it does to the tables and the queues.
LEMMA Operations ==
    ASSUME TypeOK, BetweenInv, Next
    PROVE  \/ \E t \in Topics : subscribe(t) /\ t \in DOMAIN topics
           \/ \E h \in given, w \in BOOLEAN : Drop(h, w)
           \/ \E m : Send(m)
           \/ End \/ join \/ OnSubscribed
           \/ Pass /\ (OnEvent \/ strays' = strays)
           \/ RouterSubscribes \/ RouterUnsubscribes
           \/ \E m : Tell(m)
           \/ Farewell
<1>1. ASSUME NEW t \in Topics, subscribe(t), t \notin DOMAIN topics PROVE \E m : Send(m)
  <2>1. Send(Subscribe(t))
    <3>1. Subscribe(t) \in RouterMessages /\ Subscribe(t).type # "unsubscribe"
      BY SentTypes DEF Subscribe
    <3> QED
      BY <1>1, <3>1 DEF subscribe, Send, tables
  <2> QED
    BY <2>1
<1>2. ASSUME leave PROVE \E m : Send(m)
  <2>1. Goodbye \in RouterMessages /\ Goodbye.type # "unsubscribe"
    BY SentTypes DEF Goodbye
  <2>2. Send(Goodbye)
    BY <1>2, <2>1 DEF leave, Send, history
  <2> QED
    BY <2>2
<1>3. ASSUME NEW h \in given, unsubscribe(h) PROVE Drop(h, FALSE)
  BY <1>3 DEF unsubscribe, BeginUnsubscribe, Drop
<1>4. ASSUME NEW h \in given, unsubscribeWait(h) PROVE Drop(h, TRUE)
  BY <1>4 DEF unsubscribeWait, BeginUnsubscribe, Drop
<1>5. ASSUME disconnect PROVE End
  BY <1>5 DEF disconnect, End, AbortPending
<1>6. ASSUME ConnectionLost PROVE End
  BY <1>6 DEF ConnectionLost, End, AbortPending
<1>7. ASSUME toClient # << >>, Head(toClient) = Goodbye PROVE RouterIsDone /\ subscribed = {}
  <2>1. 1 \in 1 .. Len(toClient) /\ toClient[1] = Goodbye
    BY <1>7, TailFacts DEF TypeOK
  <2> QED
    BY <2>1 DEF RouterIsDone, BetweenInv
<1>8. ASSUME OnGoodbyeReply PROVE End
  BY <1>7, <1>8 DEF OnGoodbyeReply, End, AbortPending, router
<1>9. ASSUME OnGoodbye PROVE End
  BY <1>7, <1>9 DEF OnGoodbye, End, AbortPending, router
<1>10. ASSUME OnSubscribeError \/ OnUnsubscribed \/ OnEvent
       PROVE  Pass /\ (OnEvent \/ strays' = strays)
  BY <1>10 DEF OnSubscribeError, OnUnsubscribed, OnEvent, Receive, Pass, history
<1>11. ASSUME RouterRefuses PROVE \E m : Tell(m)
  <2>1. Error \in ClientMessages /\ Error.type = "error"
    BY ReplyTypes DEF Error
  <2>2. state \in {"established", "shuttingDown"}
    BY <1>11 DEF RouterRefuses, Request, BetweenInv
  <2>3. Tell(Error)
    BY <1>11, <2>1, <2>2 DEF RouterRefuses, Request, Tell, Reply, history
  <2> QED
    BY <2>3
<1>12. ASSUME NEW t \in Topics, RouterPublishes(t) PROVE \E m : Tell(m)
  <2>1. brokerId[t] \in Nat
    BY DEF TypeOK
  <2>2. /\ Event(t, brokerId[t]) \in ClientMessages /\ Event(t, brokerId[t]).type = "event"
        /\ Event(t, brokerId[t]).topic = t /\ Event(t, brokerId[t]).sub = brokerId[t]
    BY <2>1, ReplyTypes DEF Event
  <2>3. state \in {"established", "shuttingDown"}
    BY <1>12 DEF RouterPublishes, BetweenInv
  <2>4. Tell(Event(t, brokerId[t]))
    BY <1>12, <2>2, <2>3 DEF RouterPublishes, Tell, Reply
  <2> QED
    BY <2>4
<1>13. ASSUME RouterGoodbyeReply \/ RouterSaysGoodbye PROVE Farewell
  <2>1. state \in {"established", "shuttingDown"}
    BY <1>13 DEF RouterGoodbyeReply, RouterSaysGoodbye, Request, BetweenInv
  <2> QED
    BY <1>13, <2>1, ReplyTypes
    DEF RouterGoodbyeReply, RouterSaysGoodbye, Request, Farewell, Reply, history
<1> QED
  BY <1>1, <1>2, <1>3, <1>4, <1>5, <1>6, <1>8, <1>9, <1>10, <1>11, <1>12, <1>13
  DEF Next, User, Received, Broker

-----------------------------------------------------------------------------
(* The beginning and the ends of sessions *)

\* The invariant holds when the program starts.
LEMMA InitHolds == Init => IndInv
<1> SUFFICES ASSUME Init PROVE IndInv
  OBVIOUS
<1> USE DEF Init
<1>1. TypeOK
  <2>1. << >> \in Seq(RouterMessages) /\ << >> \in Seq(ClientMessages)
    BY EmptyFacts
  <2>2. DOMAIN << >> = {} /\ << >> \in [{} -> Nat] /\ << >> \in [{} -> SUBSET Locals]
    BY EmptyFacts
  <2>3. brokerId \in [Topics -> Nat] /\ given \subseteq Handles /\ subscribed \subseteq Topics
    OBVIOUS
  <2>4. state \in States /\ session \in Nat /\ nextSlotId \in Nat /\ lastId \in Nat
    BY DEF States
  <2> QED
    BY <2>1, <2>2, <2>3, <2>4 DEF TypeOK
<1>2. DOMAIN topics = {} /\ DOMAIN readership = {} /\ DOMAIN toClient = {} /\ DOMAIN toRouter = {}
  BY EmptyFacts
<1>3. OwnerInv
  <2> DEFINE owner == [i \in 1 .. lastId |-> CHOOSE t \in Topics : TRUE]
  <2>1. owner \in [1 .. lastId -> Topics]
    OBVIOUS
  <2>2. Owns(owner)
    BY <1>2 DEF Owns
  <2> QED
    BY <2>1, <2>2 DEF OwnerInv
<1>4. SlotsInv /\ TopicIndex
  BY <1>2 DEF SlotsInv, TopicIndex
<1>5. BetweenInv
  BY DEF BetweenInv, RouterIsDone
<1>6. ReadInv /\ LeakInv /\ OrderInv
  BY <1>2 DEF ReadInv, Alive, LeakInv, OrderInv
<1>7. AgreeInv
  BY <1>2 DEF AgreeInv, Relies, Alive
<1> QED
  BY <1>1, <1>3, <1>4, <1>5, <1>6, <1>7 DEF IndInv, EventsReachSubscribers

\* A step that changes nothing preserves the invariant.
LEMMA IdleStep ==
    ASSUME IndInv, UNCHANGED vars
    PROVE  IndInv'
<1> USE DEF IndInv, vars, tables, router, history
<1>1. TypeOK'
  BY DEF TypeOK
<1>2. OwnerInv' /\ SlotsInv' /\ TopicIndex'
  <2>1. OwnerInv'
    BY DEF OwnerInv, Owns
  <2>2. SlotsInv'
    BY DEF SlotsInv
  <2>3. TopicIndex'
    BY DEF TopicIndex
  <2> QED
    BY <2>1, <2>2, <2>3
<1>3. Alive' = Alive /\ RouterIsDone' = RouterIsDone
  BY DEF Alive, RouterIsDone
<1>4. BetweenInv' /\ ReadInv' /\ OrderInv' /\ EventsReachSubscribers'
  BY <1>3 DEF BetweenInv, ReadInv, OrderInv, EventsReachSubscribers
<1>5. LeakInv'
  BY DEF LeakInv, Told, Unsubscribing
<1>6. AgreeInv'
  BY <1>3 DEF AgreeInv, Relies, Agrees, Unsubscribing
<1> QED
  BY <1>1, <1>2, <1>4, <1>5, <1>6

\* The end of a session preserves the invariant.
LEMMA EndStep ==
    ASSUME IndInv, End
    PROVE  IndInv'
<1> USE DEF IndInv, End, tables
<1>1. /\ toRouter' = << >> /\ toClient' = << >> /\ DOMAIN toRouter' = {} /\ DOMAIN toClient' = {}
      /\ toRouter' \in Seq(RouterMessages) /\ toClient' \in Seq(ClientMessages)
  BY EmptyFacts
<1>2. \/ UNCHANGED tables
      \/ topics' = << >> /\ readership' = << >> /\ DOMAIN topics' = {} /\ DOMAIN readership' = {}
  BY EmptyFacts DEF Clear
<1>3. TypeOK'
  <2>1. state' \in States
    BY DEF States
  <2>2. DOMAIN topics' \subseteq Topics /\ topics' \in [DOMAIN topics' -> Nat]
    BY <1>2, EmptyFacts DEF TypeOK
  <2>3. DOMAIN readership' \subseteq Nat /\ readership' \in [DOMAIN readership' -> SUBSET Locals]
    BY <1>2, EmptyFacts DEF TypeOK
  <2>4. subscribed' \subseteq Topics
    OBVIOUS
  <2>5. \A s \in DOMAIN readership' : IsFiniteSet(readership'[s])
    BY <1>2 DEF TypeOK
  <2> QED
    BY <1>1, <2>1, <2>2, <2>3, <2>4, <2>5 DEF TypeOK
<1>4. OwnerInv'
  <2>1. PICK owner \in [1 .. lastId -> Topics] : Owns(owner)
    BY DEF OwnerInv
  <2>2. Owns(owner)'
    BY <1>1, <1>2, <2>1 DEF Owns
  <2> QED
    BY <2>1, <2>2 DEF OwnerInv
<1>5. SlotsInv'
  BY <1>2 DEF SlotsInv
<1>6. TopicIndex'
  BY <1>2 DEF TopicIndex
<1>7. BetweenInv'
  <2>1. ~RouterIsDone'
    BY <1>1 DEF RouterIsDone
  <2>2. state' \in {"closed", "disconnected"} => DOMAIN topics' \subseteq disturbed'
    BY <1>2, EmptyFacts DEF Clear
  <2> QED
    BY <1>1, <2>1, <2>2 DEF BetweenInv
<1>8. state' # "established"
  OBVIOUS
<1>9. ReadInv' /\ LeakInv' /\ AgreeInv'
  BY <1>8 DEF ReadInv, LeakInv, AgreeInv
<1>10. OrderInv' /\ EventsReachSubscribers'
  BY <1>1 DEF OrderInv, EventsReachSubscribers
<1> QED
  BY <1>3, <1>4, <1>5, <1>6, <1>7, <1>9, <1>10

\* A new session preserves the invariant.
LEMMA JoinStep ==
    ASSUME IndInv, join
    PROVE  IndInv'
<1> USE DEF IndInv, join, tables, router, history
<1>1. toRouter' = << >> /\ toClient' = << >> /\ subscribed' = {} /\ DOMAIN topics' \subseteq disturbed'
  BY DEF BetweenInv
<1>2. DOMAIN toRouter' = {} /\ DOMAIN toClient' = {}
  BY <1>1, EmptyFacts
<1>3. TypeOK'
  <2>1. state' \in States
    BY DEF States
  <2>2. session' \in Nat
    BY DEF TypeOK
  <2> QED
    BY <2>1, <2>2 DEF TypeOK
<1>4. OwnerInv' /\ TopicIndex' /\ EventsReachSubscribers' /\ OrderInv'
  BY DEF OwnerInv, Owns, TopicIndex, EventsReachSubscribers, OrderInv
<1>5. \A h \in given' : h.session < session'
  <2>1. \A h \in given : h.session \in Nat /\ h.session <= session
    BY DEF TypeOK, Handles, SlotsInv
  <2>2. session \in Nat
    BY DEF TypeOK
  <2> QED
    BY <2>1, <2>2
<1>6. SlotsInv'
  <2>1. \A h \in given' : h.slot < nextSlotId' /\ h.session <= session'
    <3>1. \A h \in given : h.session \in Nat
      BY DEF TypeOK, Handles
    <3> QED
      BY <1>3, <1>5, <3>1 DEF SlotsInv, TypeOK
  <2> QED
    BY <2>1 DEF SlotsInv
<1>7. BetweenInv'
  <2>1. ~RouterIsDone'
    BY <1>1 DEF RouterIsDone
  <2> QED
    BY <1>1, <2>1 DEF BetweenInv
<1>8. Alive' = {}
  <2>1. \A h \in given' : h.session # session'
    <3>1. \A h \in given : h.session \in Nat
      BY DEF TypeOK, Handles
    <3> QED
      BY <1>3, <1>5, <3>1 DEF TypeOK
  <2> QED
    BY <2>1 DEF Alive
<1>9. ReadInv' /\ LeakInv'
  BY <1>1, <1>8 DEF ReadInv, LeakInv
<1>10. AgreeInv'
  BY <1>1, <1>2, <1>8 DEF AgreeInv, Relies
<1> QED
  BY <1>3, <1>4, <1>6, <1>7, <1>9, <1>10

-----------------------------------------------------------------------------
(* Messages sent, and messages that leave the tables alone *)

\* Sending a message preserves the invariant.
LEMMA SendStep ==
    ASSUME IndInv, NEW m, Send(m)
    PROVE  IndInv'
<1> USE DEF IndInv, Send, tables, router
<1>1. toRouter \in Seq(RouterMessages) /\ m \in RouterMessages
  BY DEF TypeOK
<1>2. /\ toRouter' \in Seq(RouterMessages)
      /\ Len(toRouter) \in Nat /\ DOMAIN toRouter = 1 .. Len(toRouter)
      /\ \A i \in DOMAIN toRouter : i \in DOMAIN toRouter' /\ toRouter'[i] = toRouter[i]
      /\ \A i \in DOMAIN toRouter' : i \in DOMAIN toRouter \/ i = Len(toRouter) + 1
      /\ toRouter'[Len(toRouter) + 1] = m
  BY <1>1, AppendFacts
<1>3. TypeOK'
  <2>1. state' \in States
    BY DEF States
  <2> QED
    BY <1>2, <2>1 DEF TypeOK
<1>4. OwnerInv' /\ TopicIndex' /\ EventsReachSubscribers'
  BY DEF OwnerInv, Owns, TopicIndex, EventsReachSubscribers
<1>5. SlotsInv'
  BY DEF SlotsInv
<1>6. RouterIsDone' = RouterIsDone /\ Alive' = Alive
  BY DEF RouterIsDone, Alive
<1>7. BetweenInv' /\ ReadInv'
  BY <1>6 DEF BetweenInv, ReadInv
<1>8. \A s : Unsubscribing(s)' <=> Unsubscribing(s)
  BY <1>2 DEF Unsubscribing
<1>9. LeakInv'
  BY <1>8 DEF LeakInv, Told
<1>10. OrderInv'
  <2>1. SUFFICES ASSUME NEW i \in DOMAIN toRouter', toRouter'[i].type = "unsubscribe"
        PROVE  /\ \E h \in given : h.sub = toRouter'[i].sub
               /\ \A h \in given : h.sub = toRouter'[i].sub /\ h.topic \notin disturbed =>
                    \A j \in DOMAIN toRouter' : toRouter'[j] = Subscribe(h.topic) => i < j
    BY DEF OrderInv
  <2>2. i \in DOMAIN toRouter /\ toRouter'[i] = toRouter[i]
    BY <1>2, <2>1
  <2>3. ASSUME NEW h \in given, h.sub = toRouter'[i].sub, h.topic \notin disturbed,
               NEW j \in DOMAIN toRouter', toRouter'[j] = Subscribe(h.topic)
        PROVE  i < j
    <3>1. CASE j \in DOMAIN toRouter
      BY <1>2, <2>1, <2>2, <2>3, <3>1 DEF OrderInv
    <3>2. CASE j = Len(toRouter) + 1
      BY <1>2, <2>2, <3>2
    <3> QED
      BY <1>2, <3>1, <3>2
  <2>4. \E h \in given : h.sub = toRouter'[i].sub
    BY <2>1, <2>2 DEF OrderInv
  <2> QED
    BY <2>3, <2>4
<1>11. AgreeInv'
  BY <1>6, <1>8 DEF AgreeInv, Relies, Agrees
<1> QED
  BY <1>3, <1>4, <1>5, <1>7, <1>9, <1>10, <1>11

\* The client takes a message: everything behind it moves one place forward.
LEMMA Taken ==
    ASSUME TypeOK, toClient # << >>, toClient' = Tail(toClient), Head(toClient) # Goodbye,
           UNCHANGED << toRouter, router >>
    PROVE  /\ toClient' \in Seq(ClientMessages)
           /\ Head(toClient) \in ClientMessages /\ Head(toClient) = toClient[1]
           /\ 1 \in DOMAIN toClient /\ DOMAIN toClient = 1 .. Len(toClient)
           /\ Len(toClient) \in Nat /\ DOMAIN toClient' = 1 .. Len(toClient')
           /\ Len(toClient') = Len(toClient) - 1
           /\ \A i \in DOMAIN toClient' : i + 1 \in DOMAIN toClient /\ toClient'[i] = toClient[i + 1]
           /\ \A i \in DOMAIN toClient :
                 i # 1 => i - 1 \in DOMAIN toClient' /\ toClient'[i - 1] = toClient[i]
           /\ RouterIsDone' <=> RouterIsDone
           /\ \A t, s : \A from \in Nat : Agrees(t, s, from + 1) => Agrees(t, s, from)'
           /\ \A t, s : Agrees(t, s, 0) => Agrees(t, s, 0)'
<1>1. toClient \in Seq(ClientMessages)
  BY DEF TypeOK
<1>2. /\ toClient' \in Seq(ClientMessages)
      /\ Head(toClient) \in ClientMessages /\ Head(toClient) = toClient[1]
      /\ Len(toClient) \in Nat /\ Len(toClient) > 0 /\ DOMAIN toClient = 1 .. Len(toClient)
      /\ DOMAIN toClient' = 1 .. Len(toClient) - 1
      /\ \A i \in DOMAIN toClient' : i + 1 \in DOMAIN toClient /\ toClient'[i] = toClient[i + 1]
      /\ \A i \in DOMAIN toClient :
            i # 1 => i - 1 \in DOMAIN toClient' /\ toClient'[i - 1] = toClient[i]
  BY <1>1, TailFacts
<1>3. Len(toClient') = Len(toClient) - 1
  BY <1>1
<1>4. RouterIsDone' <=> RouterIsDone
  <2>1. ASSUME RouterIsDone' PROVE RouterIsDone
    BY <1>2, <1>3, <2>1 DEF RouterIsDone
  <2>2. ASSUME RouterIsDone PROVE RouterIsDone'
    <3>1. PICK i \in 1 .. Len(toClient) : toClient[i] = Goodbye
      BY <2>2 DEF RouterIsDone
    <3>2. i - 1 \in 1 .. Len(toClient') /\ toClient'[i - 1] = Goodbye
      BY <1>2, <1>3, <3>1
    <3> QED
      BY <3>2 DEF RouterIsDone
  <2> QED
    BY <2>1, <2>2
<1>5. \A s : Unsubscribing(s)' <=> Unsubscribing(s)
  BY DEF Unsubscribing
<1>6. ASSUME NEW t, NEW s, NEW from \in Nat, NEW past \in {0, from + 1}, past = 0 => from = 0,
             Agrees(t, s, past)
      PROVE  Agrees(t, s, from)'
  <2>1. ASSUME NEW j \in DOMAIN toClient', j > from,
               toClient'[j].type \in {"subscribed", "event"}, toClient'[j].topic = t
        PROVE  toClient'[j].sub = s
    <3>1. j + 1 \in DOMAIN toClient /\ toClient'[j] = toClient[j + 1]
      BY <1>2
    <3>2. j + 1 > past
      BY <1>2, <1>6, <2>1
    <3> QED
      BY <1>6, <2>1, <3>1, <3>2 DEF Agrees
  <2>2. ~RouterIsDone' => t \in subscribed' /\ brokerId'[t] = s /\ ~Unsubscribing(s)'
    BY <1>4, <1>5, <1>6 DEF Agrees, router
  <2> QED
    BY <2>1, <2>2 DEF Agrees
<1>7. \A t, s : \A from \in Nat : Agrees(t, s, from + 1) => Agrees(t, s, from)'
  BY <1>6
<1>8. \A t, s : Agrees(t, s, 0) => Agrees(t, s, 0)'
  BY <1>6
<1> QED
  BY <1>2, <1>3, <1>4, <1>7, <1>8

\* The owner of an ID that is relied upon.
LEMMA RelyOwner ==
    ASSUME TypeOK, NEW owner, Owns(owner), NEW t, NEW s, NEW from, Relies(t, s, from)
    PROVE  t \in Topics /\ s \in 1 .. lastId /\ owner[s] = t
<1>1. CASE from \in DOMAIN toClient /\ toClient[from] = Subscribed(t, s)
  <2>1. toClient[from] \in ClientMessages
    BY <1>1 DEF TypeOK
  <2>2. toClient[from].type = "subscribed" /\ toClient[from].topic = t /\ toClient[from].sub = s
    BY <1>1 DEF Subscribed
  <2> QED
    BY <1>1, <2>1, <2>2, Carried DEF Owns
<1>2. CASE t \in DOMAIN topics /\ topics[t] = s
  BY <1>2 DEF Owns, TypeOK
<1>3. CASE \E h \in Alive : h.topic = t /\ h.sub = s
  <2>1. PICK h \in given : h.topic = t /\ h.sub = s
    BY <1>3 DEF Alive
  <2> QED
    BY <2>1 DEF Owns, TypeOK, Handles
<1> QED
  BY <1>1, <1>2, <1>3 DEF Relies

\* Reading a message that changes no table preserves the invariant.
LEMMA PassStep ==
    ASSUME IndInv, Pass, OnEvent \/ strays' = strays
    PROVE  IndInv'
<1> USE DEF IndInv, Pass, tables, router
<1>1. Head(toClient) # Goodbye
  BY DEF Goodbye
<1>2. /\ toClient' \in Seq(ClientMessages)
      /\ Head(toClient) \in ClientMessages /\ Head(toClient) = toClient[1]
      /\ 1 \in DOMAIN toClient /\ DOMAIN toClient = 1 .. Len(toClient)
      /\ Len(toClient) \in Nat /\ DOMAIN toClient' = 1 .. Len(toClient')
      /\ Len(toClient') = Len(toClient) - 1
      /\ \A i \in DOMAIN toClient' : i + 1 \in DOMAIN toClient /\ toClient'[i] = toClient[i + 1]
      /\ \A i \in DOMAIN toClient :
            i # 1 => i - 1 \in DOMAIN toClient' /\ toClient'[i - 1] = toClient[i]
      /\ RouterIsDone' <=> RouterIsDone
  BY <1>1, Taken
<1>3. TypeOK'
  BY <1>2 DEF TypeOK
<1>4. OwnerInv'
  <2>1. PICK owner \in [1 .. lastId -> Topics] : Owns(owner)
    BY DEF OwnerInv
  <2>2. Owns(owner)'
    <3>1. ASSUME NEW i \in DOMAIN toClient', toClient'[i].type \in {"subscribed", "event"}
          PROVE  toClient'[i].sub \in 1 .. lastId /\ owner[toClient'[i].sub] = toClient'[i].topic
      <4>1. i + 1 \in DOMAIN toClient /\ toClient'[i] = toClient[i + 1]
        BY <1>2
      <4> QED
        BY <2>1, <3>1, <4>1 DEF Owns
    <3> QED
      BY <2>1, <3>1 DEF Owns
  <2> QED
    BY <2>1, <2>2 DEF OwnerInv
<1>5. SlotsInv' /\ TopicIndex' /\ OrderInv'
  <2>1. SlotsInv'
    BY DEF SlotsInv
  <2>2. TopicIndex'
    BY DEF TopicIndex
  <2>3. OrderInv'
    BY DEF OrderInv
  <2> QED
    BY <2>1, <2>2, <2>3
<1>6. state \in {"established", "shuttingDown"}
  BY DEF BetweenInv
<1>7. Alive' = Alive
  BY DEF Alive
<1>8. BetweenInv' /\ ReadInv'
  BY <1>2, <1>6, <1>7 DEF BetweenInv, ReadInv
<1>9. LeakInv'
  <2>1. \A t, s : Told(t, s) => Told(t, s)'
    <3>1. SUFFICES ASSUME NEW t, NEW s, NEW i \in DOMAIN toClient, toClient[i] = Subscribed(t, s)
          PROVE  Told(t, s)'
      BY DEF Told
    <3>2. i # 1
      BY <1>2, <3>1 DEF Subscribed
    <3>3. i - 1 \in DOMAIN toClient' /\ toClient'[i - 1] = Subscribed(t, s)
      BY <1>2, <3>1, <3>2
    <3> QED
      BY <3>3 DEF Told
  <2> QED
    BY <2>1 DEF LeakInv, Unsubscribing
<1>10. AgreeInv'
  <2>1. SUFFICES ASSUME state = "established", NEW t \in Topics \ disturbed,
                        NEW s \in 1 .. lastId, NEW from \in 0 .. Len(toClient'),
                        Relies(t, s, from)'
        PROVE  Agrees(t, s, from)'
    BY DEF AgreeInv
  <2>2. CASE from \in DOMAIN toClient' /\ toClient'[from] = Subscribed(t, s)
    <3>1. from + 1 \in DOMAIN toClient /\ toClient[from + 1] = Subscribed(t, s)
      BY <1>2, <2>2
    <3>2. from + 1 \in 0 .. Len(toClient) /\ from \in Nat
      BY <1>2, <3>1
    <3>3. Agrees(t, s, from + 1)
      BY <2>1, <3>1, <3>2 DEF AgreeInv, Relies
    <3> QED
      BY <1>1, <3>2, <3>3, Taken
  <2>3. CASE from = 0 /\ Relies(t, s, 0)
    <3>1. 0 \in 0 .. Len(toClient)
      BY <1>2
    <3>2. Agrees(t, s, 0)
      BY <2>1, <2>3, <3>1 DEF AgreeInv
    <3>3. Agrees(t, s, 0)'
      BY <1>1, <3>2, Taken
    <3> QED
      BY <2>3, <3>3
  <2> QED
    BY <1>7, <2>1, <2>2, <2>3 DEF Relies
<1>11. EventsReachSubscribers'
  <2>1. CASE strays' = strays
    BY <2>1 DEF EventsReachSubscribers
  <2>2. CASE OnEvent /\ state = "established"
    <3> DEFINE e == Head(toClient)
               readers == Readers(e.sub)
               expected == IF e.topic \in disturbed THEN {}
                           ELSE { h.slot : h \in { a \in Alive : a.topic = e.topic } }
               wrong == { h.slot : h \in { a \in given : a.topic # e.topic } }
    <3>1. strays' = strays \cup (expected \ readers) \cup (wrong \cap readers)
      BY <2>2 DEF OnEvent
    <3>2. /\ e = toClient[1] /\ e.type = "event" /\ e.topic \in Topics /\ e.sub \in Nat
      BY <1>2, <2>2, Carried DEF OnEvent, Receive
    <3>3. PICK owner \in [1 .. lastId -> Topics] : Owns(owner)
      BY DEF OwnerInv
    <3>4. e.sub \in 1 .. lastId /\ owner[e.sub] = e.topic
      BY <1>2, <3>2, <3>3 DEF Owns
    <3>5. ASSUME NEW h \in Alive, h.topic = e.topic, e.topic \notin disturbed
          PROVE  h.slot \in readers
      <4>1. Relies(h.topic, h.sub, 0)
        BY DEF Relies
      <4>2. h.topic \in Topics /\ h.sub \in 1 .. lastId
        BY <3>3, <4>1, RelyOwner
      <4>3. Agrees(h.topic, h.sub, 0)
        BY <1>2, <2>2, <3>5, <4>1, <4>2 DEF AgreeInv
      <4>4. e.sub = h.sub
        BY <1>2, <3>2, <3>5, <4>3 DEF Agrees
      <4>5. h.sub \in DOMAIN readership /\ Local(h.slot, h.topic) \in readership[h.sub]
        BY <2>2 DEF ReadInv
      <4> QED
        BY <4>4, <4>5, LocalFields DEF Readers
    <3>6. ASSUME NEW g \in given, g.topic # e.topic, g.slot \in readers
          PROVE  FALSE
      <4>1. e.sub \in DOMAIN readership
        BY <3>6 DEF Readers
      <4>2. PICK l \in readership[e.sub] : l.slot = g.slot
        BY <3>6, <4>1 DEF Readers
      <4>3. PICK h \in given : h.sub = e.sub /\ h.slot = l.slot /\ h.topic = l.topic
        BY <4>1, <4>2 DEF SlotsInv
      <4>4. h = g
        BY <4>2, <4>3 DEF SlotsInv
      <4>5. l.topic = e.topic
        BY <3>3, <3>4, <4>1, <4>2 DEF Owns
      <4> QED
        BY <3>6, <4>3, <4>4, <4>5
    <3>7. expected \ readers = {}
      BY <3>5
    <3>8. wrong \cap readers = {}
      BY <3>6
    <3> QED
      BY <3>1, <3>7, <3>8 DEF EventsReachSubscribers
  <2>3. CASE OnEvent /\ state = "shuttingDown"
    BY <2>3 DEF OnEvent, EventsReachSubscribers
  <2> QED
    BY <1>6, <2>1, <2>2, <2>3
<1> QED
  BY <1>3, <1>4, <1>5, <1>8, <1>9, <1>10, <1>11

-----------------------------------------------------------------------------
(* Subscriptions granted *)

\* The user is given a Subscription: topics_ has the ID, or SUBSCRIBED brings it.
Granting(t, sub) ==
    /\ Grant(sub, t)
    /\ \/ /\ t \in DOMAIN topics /\ topics[t] = sub /\ state = "established"
          /\ UNCHANGED << topics, toClient >>
       \/ /\ topics' = Emplace(t, sub)
          /\ toClient # << >> /\ Head(toClient) = Subscribed(t, sub) /\ toClient' = Tail(toClient)
    /\ UNCHANGED << state, toRouter, router, session, dropped, disturbed, strays >>

\* A subscription given to the user preserves the invariant.
LEMMA GrantStep ==
    ASSUME IndInv, NEW t \in Topics, NEW sub \in Nat, Granting(t, sub)
    PROVE  IndInv'
<1> DEFINE new == Handle(sub, nextSlotId, t, session)
           l == Local(nextSlotId, t)
           Known == /\ t \in DOMAIN topics /\ topics[t] = sub /\ state = "established"
                    /\ UNCHANGED << topics, toClient >>
           Brought == /\ topics' = Emplace(t, sub)
                      /\ toClient # << >> /\ Head(toClient) = Subscribed(t, sub)
                      /\ toClient' = Tail(toClient)
<1>1. Known \/ Brought
  BY DEF Granting
<1>2. /\ nextSlotId' = nextSlotId + 1 /\ readership' = Enter(sub, l) /\ given' = given \cup {new}
      /\ UNCHANGED << state, toRouter, router, session, dropped, disturbed, strays >>
      /\ UNCHANGED << subscribed, brokerId, lastId >>
  BY DEF Granting, Grant, router
<1>3. nextSlotId \in Nat /\ l \in Locals /\ session \in Nat /\ new \in Handles
  BY DEF IndInv, TypeOK, Local, Locals, Handle, Handles
<1>4. /\ new.sub = sub /\ new.slot = nextSlotId /\ new.topic = t /\ new.session = session
      /\ l.slot = nextSlotId /\ l.topic = t /\ l = Local(new.slot, new.topic)
  BY LocalFields, HandleFields
<1> HIDE DEF new, l
<1>5. /\ DOMAIN readership' = DOMAIN readership \cup {sub}
      /\ readership' \in [DOMAIN readership' -> SUBSET Locals]
      /\ \A s \in DOMAIN readership' : IsFiniteSet(readership'[s])
      /\ \A s \in DOMAIN readership : readership[s] \subseteq readership'[s]
      /\ l \in readership'[sub]
      /\ \A s \in DOMAIN readership' : \A k \in readership'[s] :
            (s \in DOMAIN readership /\ k \in readership[s]) \/ (s = sub /\ k = l)
  BY <1>2, <1>3, Entered DEF IndInv
<1>6. /\ DOMAIN topics' = DOMAIN topics \cup {t} /\ topics' \in [DOMAIN topics' -> Nat]
      /\ \A u \in DOMAIN topics : topics'[u] = topics[u]
      /\ t \notin DOMAIN topics => topics'[t] = sub
  <2>1. CASE Known
    BY <2>1 DEF IndInv, TypeOK
  <2>2. CASE Brought
    BY <2>2, Emplaced DEF IndInv
  <2> QED
    BY <1>1, <2>1, <2>2
<1>7. Brought => Head(toClient) # Goodbye
  BY DEF Subscribed, Goodbye
<1>8. Brought => /\ toClient' \in Seq(ClientMessages)
                 /\ Head(toClient) = toClient[1] /\ 1 \in DOMAIN toClient
                 /\ DOMAIN toClient = 1 .. Len(toClient)
                 /\ Len(toClient) \in Nat /\ DOMAIN toClient' = 1 .. Len(toClient')
                 /\ Len(toClient') = Len(toClient) - 1
                 /\ \A i \in DOMAIN toClient' :
                       i + 1 \in DOMAIN toClient /\ toClient'[i] = toClient[i + 1]
                 /\ \A i \in DOMAIN toClient :
                       i # 1 => i - 1 \in DOMAIN toClient' /\ toClient'[i - 1] = toClient[i]
                 /\ RouterIsDone' <=> RouterIsDone
  BY <1>2, <1>7, Taken DEF IndInv
<1>9. TypeOK'
  <2>1. toClient' \in Seq(ClientMessages)
    BY <1>1, <1>8 DEF IndInv, TypeOK
  <2>2. DOMAIN topics' \subseteq Topics /\ DOMAIN readership' \subseteq Nat
    BY <1>5, <1>6 DEF IndInv, TypeOK
  <2>3. nextSlotId' \in Nat /\ given' \subseteq Handles
    BY <1>2, <1>3 DEF IndInv, TypeOK
  <2> QED
    BY <1>2, <1>5, <1>6, <2>1, <2>2, <2>3 DEF IndInv, TypeOK
<1>10. PICK owner \in [1 .. lastId -> Topics] : Owns(owner)
  BY DEF IndInv, OwnerInv
<1>11. sub \in 1 .. lastId /\ owner[sub] = t
  <2>1. CASE Known
    BY <1>10, <2>1 DEF Owns
  <2>2. CASE Brought
    <3>1. Relies(t, sub, 1)
      BY <1>8, <2>2 DEF Relies
    <3> QED
      BY <1>10, <3>1, RelyOwner DEF IndInv
  <2> QED
    BY <1>1, <2>1, <2>2
<1>12. Owns(owner)'
  <2>1. ASSUME NEW i \in DOMAIN toClient', toClient'[i].type \in {"subscribed", "event"}
        PROVE  toClient'[i].sub \in 1 .. lastId /\ owner[toClient'[i].sub] = toClient'[i].topic
    <3>1. CASE Known
      BY <1>10, <2>1, <3>1 DEF Owns
    <3>2. CASE Brought
      <4>1. i + 1 \in DOMAIN toClient /\ toClient'[i] = toClient[i + 1]
        BY <1>8, <3>2
      <4> QED
        BY <1>10, <2>1, <4>1 DEF Owns
    <3> QED
      BY <1>1, <3>1, <3>2
  <2>2. \A u \in DOMAIN topics' : topics'[u] \in 1 .. lastId /\ owner[topics'[u]] = u
    BY <1>6, <1>10, <1>11 DEF Owns
  <2>3. \A s \in DOMAIN readership' :
            s \in 1 .. lastId /\ \A k \in readership'[s] : k.topic = owner[s]
    BY <1>4, <1>5, <1>10, <1>11 DEF Owns
  <2>4. \A h \in given' : h.sub \in 1 .. lastId /\ owner[h.sub] = h.topic
    BY <1>2, <1>4, <1>10, <1>11 DEF Owns
  <2>5. /\ \A u \in Topics : brokerId[u] # 0 => brokerId[u] \in 1 .. lastId /\ owner[brokerId[u]] = u
        /\ \A u \in subscribed : brokerId[u] # 0
    BY <1>10 DEF Owns
  <2> QED
    BY <1>2, <2>1, <2>2, <2>3, <2>4, <2>5 DEF Owns
<1>13. OwnerInv'
  BY <1>2, <1>10, <1>12 DEF OwnerInv
<1>14. SlotsInv'
  <2>1. \A h \in given : h.slot \in Nat /\ h.session \in Nat /\ h.slot < nextSlotId
    BY DEF IndInv, TypeOK, Handles, SlotsInv
  <2>2. \A h \in given' : h.slot < nextSlotId' /\ h.session <= session'
    BY <1>2, <1>3, <1>4, <2>1 DEF IndInv, SlotsInv
  <2>3. \A h \in given : h.slot # new.slot
    BY <1>3, <1>4, <2>1
  <2>4. \A g, h \in given' : g.slot = h.slot => g = h
    BY <1>2, <2>3 DEF IndInv, SlotsInv
  <2>5. ASSUME NEW s \in DOMAIN readership', NEW k \in readership'[s]
        PROVE  \E h \in given' : h.sub = s /\ h.slot = k.slot /\ h.topic = k.topic
    <3>1. CASE s \in DOMAIN readership /\ k \in readership[s]
      BY <1>2, <3>1 DEF IndInv, SlotsInv
    <3>2. CASE s = sub /\ k = l
      BY <1>2, <1>4, <3>2
    <3> QED
      BY <1>5, <3>1, <3>2
  <2> QED
    BY <2>2, <2>4, <2>5 DEF SlotsInv
<1>15. TopicIndex'
  <2>1. \A u \in DOMAIN topics' : topics'[u] \in DOMAIN readership'
    BY <1>5, <1>6 DEF IndInv, TopicIndex
  <2>2. \A u \in DOMAIN topics' : \A k \in readership'[topics'[u]] : k.topic = u
    BY <1>12, <2>1 DEF Owns
  <2>3. \A s \in DOMAIN readership' : readership'[s] # {}
    BY <1>5 DEF IndInv, TopicIndex
  <2> QED
    BY <2>1, <2>2, <2>3 DEF TopicIndex
<1>16. state \in {"established", "shuttingDown"}
  BY <1>1 DEF IndInv, BetweenInv
<1>17. RouterIsDone' <=> RouterIsDone
  <2>1. CASE Known
    BY <2>1 DEF RouterIsDone
  <2> QED
    BY <1>1, <1>8, <2>1
<1>18. BetweenInv'
  BY <1>2, <1>16, <1>17 DEF IndInv, BetweenInv
<1>19. Alive' \subseteq Alive \cup {new}
  BY <1>2 DEF Alive
<1>20. ReadInv'
  BY <1>2, <1>4, <1>5, <1>19 DEF IndInv, ReadInv
<1>21. LeakInv'
  <2>1. SUFFICES ASSUME state = "established", NEW u \in subscribed, NEW s \in 1 .. lastId,
                        brokerId[u] = s
        PROVE  s \in DOMAIN readership' \/ Told(u, s)' \/ Unsubscribing(s)'
    BY <1>2 DEF LeakInv
  <2>2. ASSUME Told(u, s) PROVE s \in DOMAIN readership' \/ Told(u, s)'
    <3>1. CASE Known
      BY <2>2, <3>1 DEF Told
    <3>2. CASE Brought
      <4>1. PICK i \in DOMAIN toClient : toClient[i] = Subscribed(u, s)
        BY <2>2 DEF Told
      <4>2. CASE i = 1
        <5>1. Subscribed(u, s) = Subscribed(t, sub)
          BY <1>8, <3>2, <4>1, <4>2
        <5>2. s = sub
          BY <5>1 DEF Subscribed
        <5> QED
          BY <1>5, <5>2
      <4>3. CASE i # 1
        BY <1>8, <3>2, <4>1, <4>3 DEF Told
      <4> QED
        BY <4>2, <4>3
    <3> QED
      BY <1>1, <3>1, <3>2
  <2>3. Unsubscribing(s)' <=> Unsubscribing(s)
    BY <1>2 DEF Unsubscribing
  <2> QED
    BY <1>5, <2>1, <2>2, <2>3 DEF IndInv, LeakInv
<1>22. OrderInv'
  <2>1. SUFFICES ASSUME NEW i \in DOMAIN toRouter, toRouter[i].type = "unsubscribe"
        PROVE  /\ \E h \in given' : h.sub = toRouter[i].sub
               /\ \A h \in given' : h.sub = toRouter[i].sub /\ h.topic \notin disturbed =>
                    \A j \in DOMAIN toRouter : toRouter[j] = Subscribe(h.topic) => i < j
    BY <1>2 DEF OrderInv
  <2>2. PICK g \in given : g.sub = toRouter[i].sub
    BY <2>1 DEF IndInv, OrderInv
  <2>3. \A h \in given' : h.sub = toRouter[i].sub => h.topic = g.topic
    BY <1>2, <1>12, <2>2 DEF Owns
  <2>4. g.topic \notin disturbed =>
            \A j \in DOMAIN toRouter : toRouter[j] = Subscribe(g.topic) => i < j
    BY <2>1, <2>2 DEF IndInv, OrderInv
  <2> QED
    BY <1>2, <2>2, <2>3, <2>4
<1>23. AgreeInv'
  <2>1. SUFFICES ASSUME state = "established", NEW u \in Topics \ disturbed,
                        NEW s \in 1 .. lastId, NEW from \in 0 .. Len(toClient'),
                        Relies(u, s, from)'
        PROVE  Agrees(u, s, from)'
    BY <1>2 DEF AgreeInv
  <2>2. \/ from = 0 /\ Relies(u, s, 0)
        \/ from \in DOMAIN toClient' /\ toClient'[from] = Subscribed(u, s)
        \/ from = 0 /\ u = t /\ s = sub
    <3>1. CASE from = 0 /\ u \in DOMAIN topics' /\ topics'[u] = s
      BY <1>6, <3>1 DEF Relies
    <3>2. CASE from = 0 /\ \E h \in Alive' : h.topic = u /\ h.sub = s
      BY <1>4, <1>19, <3>2 DEF Relies
    <3> QED
      BY <2>1, <3>1, <3>2 DEF Relies
  <2>3. CASE Known
    <3>1. Relies(t, sub, 0)
      BY <2>3 DEF Relies
    <3>2. Relies(u, s, from)
      BY <2>2, <2>3, <3>1 DEF Relies
    <3>3. Agrees(u, s, from)
      BY <2>1, <2>3, <3>2 DEF IndInv, AgreeInv
    <3>4. (Unsubscribing(s)' <=> Unsubscribing(s)) /\ (RouterIsDone' <=> RouterIsDone)
      BY <1>2, <1>17 DEF Unsubscribing
    <3> QED
      BY <1>2, <2>3, <3>3, <3>4 DEF Agrees
  <2>4. CASE Brought
    <3>1. CASE Relies(u, s, 0) /\ from = 0
      <4>1. 0 \in 0 .. Len(toClient)
        BY <1>8, <2>4
      <4>2. Agrees(u, s, 0)
        BY <2>1, <3>1, <4>1 DEF IndInv, AgreeInv
      <4>3. Agrees(u, s, 0)'
        BY <1>2, <1>7, <2>4, <4>2, Taken DEF IndInv
      <4> QED
        BY <3>1, <4>3
    <3>2. CASE Relies(u, s, from + 1)
      <4>1. from \in Nat /\ from + 1 \in 0 .. Len(toClient)
        BY <1>8, <2>1, <2>4
      <4>2. Agrees(u, s, from + 1)
        BY <2>1, <3>2, <4>1 DEF IndInv, AgreeInv
      <4> QED
        BY <1>2, <1>7, <2>4, <4>1, <4>2, Taken DEF IndInv
    <3>3. CASE from \in DOMAIN toClient' /\ toClient'[from] = Subscribed(u, s)
      <4>1. Relies(u, s, from + 1)
        BY <1>8, <2>4, <3>3 DEF Relies
      <4> QED
        BY <3>2, <4>1
    <3>4. CASE from = 0 /\ u = t /\ s = sub
      <4>1. Relies(t, sub, 1)
        BY <1>8, <2>4 DEF Relies
      <4>2. Relies(u, s, from + 1)
        BY <3>4, <4>1
      <4> QED
        BY <3>2, <4>2
    <3> QED
      BY <2>2, <3>1, <3>3, <3>4
  <2> QED
    BY <1>1, <2>3, <2>4
<1>24. EventsReachSubscribers'
  BY <1>2 DEF IndInv, EventsReachSubscribers
<1> QED
  BY <1>9, <1>13, <1>14, <1>15, <1>18, <1>20, <1>21, <1>22, <1>23, <1>24 DEF IndInv

-----------------------------------------------------------------------------
(* Subscriptions dropped *)

\* Unsubscribing preserves the invariant.
LEMMA DropStep ==
    ASSUME IndInv, NEW h \in given, NEW w \in BOOLEAN, Drop(h, w)
    PROVE  IndInv'
<1> DEFINE m == Unsubscribe(h.sub, w)
<1>1. /\ dropped' = dropped \cup {h.slot}
      /\ disturbed' = IF Subscribing(h.topic) THEN disturbed \cup {h.topic} ELSE disturbed
      /\ Forget(h)
      /\ toRouter' = IF SendsUnsubscribe(h) THEN Append(toRouter, m) ELSE toRouter
      /\ UNCHANGED << state, nextSlotId, toClient, subscribed, brokerId, lastId, session,
                      given, strays >>
  BY DEF Drop, router
<1>2. h.sub \in Nat /\ h.slot \in Nat /\ h.topic \in Topics
  BY DEF IndInv, TypeOK, Handles
<1>3. m \in RouterMessages /\ m.type = "unsubscribe" /\ m.sub = h.sub
  BY <1>2, SentTypes DEF Unsubscribe
<1> HIDE DEF m
<1>4. /\ DOMAIN topics' \subseteq DOMAIN topics /\ topics' \in [DOMAIN topics' -> Nat]
      /\ \A u \in DOMAIN topics' : topics'[u] = topics[u]
      /\ DOMAIN readership' \subseteq DOMAIN readership
      /\ readership' \in [DOMAIN readership' -> SUBSET Locals]
      /\ \A s \in DOMAIN readership' :
            readership'[s] \subseteq readership[s] /\ IsFiniteSet(readership'[s])
      /\ \A s \in DOMAIN readership \ {h.sub} :
            s \in DOMAIN readership' /\ readership'[s] = readership[s]
      /\ IsLast(h) => h.sub \notin DOMAIN readership' /\ h.topic \notin DOMAIN topics'
      /\ ~IsLast(h) => /\ DOMAIN readership' = DOMAIN readership
                       /\ \A l \in Locals : \A s \in DOMAIN readership :
                            l \in readership[s] /\ l # Local(h.slot, h.topic) => l \in readership'[s]
      /\ (\A s \in DOMAIN readership : readership[s] # {}) =>
            \A s \in DOMAIN readership' : readership'[s] # {}
  BY <1>1, Forgotten DEF IndInv
<1>5. toRouter \in Seq(RouterMessages) /\ Len(toRouter) \in Nat /\ DOMAIN toRouter = 1 .. Len(toRouter)
  BY <1>3, AppendFacts DEF IndInv, TypeOK
<1>6. SendsUnsubscribe(h) =>
        /\ toRouter' \in Seq(RouterMessages)
        /\ \A i \in DOMAIN toRouter : i \in DOMAIN toRouter' /\ toRouter'[i] = toRouter[i]
        /\ \A i \in DOMAIN toRouter' : i \in DOMAIN toRouter \/ i = Len(toRouter) + 1
        /\ Len(toRouter) + 1 \in DOMAIN toRouter' /\ toRouter'[Len(toRouter) + 1] = m
  BY <1>1, <1>3, <1>5, AppendFacts
<1>7. TypeOK'
  <2>1. toRouter' \in Seq(RouterMessages)
    BY <1>1, <1>5, <1>6
  <2>2. DOMAIN topics' \subseteq Topics /\ DOMAIN readership' \subseteq Nat
    BY <1>4 DEF IndInv, TypeOK
  <2> QED
    BY <1>1, <1>4, <2>1, <2>2 DEF IndInv, TypeOK
<1>8. PICK owner \in [1 .. lastId -> Topics] : Owns(owner)
  BY DEF IndInv, OwnerInv
<1>9. Owns(owner)'
  <2>1. \A u \in DOMAIN topics' : topics'[u] \in 1 .. lastId /\ owner[topics'[u]] = u
    BY <1>4, <1>8 DEF Owns
  <2>2. \A s \in DOMAIN readership' :
            s \in 1 .. lastId /\ \A k \in readership'[s] : k.topic = owner[s]
    BY <1>4, <1>8 DEF Owns
  <2> QED
    BY <1>1, <1>8, <2>1, <2>2 DEF Owns
<1>10. OwnerInv'
  BY <1>1, <1>8, <1>9 DEF OwnerInv
<1>11. SlotsInv'
  <2>1. \A s \in DOMAIN readership' : \A l \in readership'[s] :
          \E g \in given : g.sub = s /\ g.slot = l.slot /\ g.topic = l.topic
    BY <1>4 DEF IndInv, SlotsInv
  <2> QED
    BY <1>1, <2>1 DEF IndInv, SlotsInv
<1>12. TopicIndex'
  <2>1. ASSUME NEW u \in DOMAIN topics'
        PROVE  topics'[u] \in DOMAIN readership'
    <3>1. topics'[u] = topics[u] /\ topics[u] \in DOMAIN readership
      BY <1>4 DEF IndInv, TopicIndex
    <3>2. CASE topics[u] = h.sub
      <4>1. u = h.topic
        BY <1>4, <1>8, <3>2 DEF Owns
      <4>2. ~IsLast(h)
        BY <1>4, <4>1
      <4> QED
        BY <1>4, <3>1, <4>2
    <3>3. CASE topics[u] # h.sub
      BY <1>4, <3>1, <3>3
    <3> QED
      BY <3>2, <3>3
  <2>2. \A u \in DOMAIN topics' : \A k \in readership'[topics'[u]] : k.topic = u
    BY <1>9, <2>1 DEF Owns
  <2>3. \A s \in DOMAIN readership' : readership'[s] # {}
    BY <1>4 DEF IndInv, TopicIndex
  <2> QED
    BY <2>1, <2>2, <2>3 DEF TopicIndex
<1>13. disturbed \subseteq disturbed'
  BY <1>1
<1>14. BetweenInv'
  <2>1. RouterIsDone' = RouterIsDone
    BY <1>1 DEF RouterIsDone
  <2>2. state \notin {"established", "shuttingDown"} => toRouter' = toRouter
    BY <1>1 DEF SendsUnsubscribe
  <2>3. state \in {"closed", "disconnected"} => DOMAIN topics' \subseteq disturbed'
    BY <1>4, <1>13 DEF IndInv, BetweenInv
  <2> QED
    BY <1>1, <2>1, <2>2, <2>3 DEF IndInv, BetweenInv
<1>15. \A g \in Alive' : g \in Alive /\ g.slot # h.slot
  BY <1>1 DEF Alive
\* The last one is the only one that the user holds of this ID.
<1>16. ASSUME state = "established", IsLast(h), NEW g \in Alive'
       PROVE  g.sub # h.sub
  <2>1. SUFFICES ASSUME g.sub = h.sub PROVE FALSE
    OBVIOUS
  <2>2. Local(g.slot, g.topic) \in readership[h.sub]
    BY <1>15, <1>16, <2>1 DEF IndInv, ReadInv
  <2>3. Local(h.slot, h.topic) \in readership[h.sub] /\ Cardinality(readership[h.sub]) = 1
    BY <1>16 DEF IsLast, Found
  <2>4. Local(g.slot, g.topic) # Local(h.slot, h.topic)
    BY <1>15, LocalFields
  <2>5. IsFiniteSet(readership[h.sub])
    BY <1>16 DEF IndInv, TypeOK, IsLast, Found
  <2>6. PICK x : readership[h.sub] = {x}
    BY <2>3, <2>5, FS_Singleton
  <2> QED
    BY <2>2, <2>3, <2>4, <2>6
<1>17. ReadInv'
  <2>1. SUFFICES ASSUME state = "established", NEW g \in Alive'
        PROVE  g.sub \in DOMAIN readership' /\ Local(g.slot, g.topic) \in readership'[g.sub]
    BY <1>1 DEF ReadInv
  <2>2. /\ g.sub \in DOMAIN readership /\ Local(g.slot, g.topic) \in readership[g.sub]
        /\ Local(g.slot, g.topic) # Local(h.slot, h.topic)
        /\ Local(g.slot, g.topic) \in Locals
    <3>1. g.sub \in DOMAIN readership /\ Local(g.slot, g.topic) \in readership[g.sub]
      BY <1>15, <2>1 DEF IndInv, ReadInv
    <3>2. Local(g.slot, g.topic) # Local(h.slot, h.topic)
      BY <1>15, LocalFields
    <3>3. Local(g.slot, g.topic) \in Locals
      BY <3>1 DEF IndInv, TypeOK
    <3> QED
      BY <3>1, <3>2, <3>3
  <2>3. CASE IsLast(h)
    BY <1>4, <1>16, <2>1, <2>2, <2>3
  <2>4. CASE ~IsLast(h)
    BY <1>4, <2>2, <2>4
  <2> QED
    BY <2>3, <2>4
<1>18. LeakInv'
  <2>1. SUFFICES ASSUME state = "established", NEW u \in subscribed, NEW s \in 1 .. lastId,
                        brokerId[u] = s
        PROVE  s \in DOMAIN readership' \/ Told(u, s)' \/ Unsubscribing(s)'
    BY <1>1 DEF LeakInv
  <2>2. Told(u, s) => Told(u, s)'
    BY <1>1 DEF Told
  <2>3. Unsubscribing(s) => Unsubscribing(s)'
    BY <1>1, <1>6 DEF Unsubscribing
  <2>4. IsLast(h) => Unsubscribing(h.sub)'
    <3>1. SUFFICES ASSUME IsLast(h) PROVE Unsubscribing(h.sub)'
      OBVIOUS
    <3>2. SendsUnsubscribe(h)
      BY <2>1, <3>1 DEF SendsUnsubscribe
    <3>3. PICK i \in DOMAIN toRouter' : toRouter'[i] = m
      BY <1>6, <3>2
    <3>4. \E j \in DOMAIN toRouter' : toRouter'[j].type = "unsubscribe" /\ toRouter'[j].sub = h.sub
      BY <1>3, <3>3
    <3> QED
      BY <3>4 DEF Unsubscribing
  <2>5. s \in DOMAIN readership => s \in DOMAIN readership' \/ Unsubscribing(s)'
    <3>1. CASE s = h.sub /\ IsLast(h)
      BY <2>4, <3>1
    <3>2. CASE s # h.sub \/ ~IsLast(h)
      BY <1>4, <3>2
    <3> QED
      BY <3>1, <3>2
  <2> QED
    BY <2>1, <2>2, <2>3, <2>5 DEF IndInv, LeakInv
\* Nothing is sent about a topic that stays undisturbed while SUBSCRIBE is under way.
<1>19. h.topic \notin disturbed' =>
          /\ \A j \in DOMAIN toRouter : toRouter[j] # Subscribe(h.topic)
          /\ \A j \in DOMAIN toClient : \A s : toClient[j] # Subscribed(h.topic, s)
  <2>1. h.topic \notin disturbed' => ~Subscribing(h.topic)
    BY <1>1
  <2>2. DOMAIN toClient = 1 .. Len(toClient)
    BY DEF IndInv, TypeOK
  <2> QED
    BY <1>5, <2>1, <2>2 DEF Subscribing, Subscribed
<1>20. OrderInv'
  <2>1. SUFFICES ASSUME NEW i \in DOMAIN toRouter', toRouter'[i].type = "unsubscribe"
        PROVE  /\ \E g \in given : g.sub = toRouter'[i].sub
               /\ \A g \in given : g.sub = toRouter'[i].sub /\ g.topic \notin disturbed' =>
                    \A j \in DOMAIN toRouter' : toRouter'[j] = Subscribe(g.topic) => i < j
    BY <1>1 DEF OrderInv
  <2>2. \A t : m # Subscribe(t)
    BY <1>3 DEF Subscribe
  <2>3. \A t : \A j \in DOMAIN toRouter' : toRouter'[j] = Subscribe(t) =>
            j \in DOMAIN toRouter /\ toRouter[j] = Subscribe(t)
    BY <1>1, <1>6, <2>2
  <2>4. CASE i \in DOMAIN toRouter /\ toRouter'[i] = toRouter[i]
    BY <1>13, <2>1, <2>3, <2>4 DEF IndInv, OrderInv
  <2>5. CASE toRouter'[i] = m
    <3>1. \A g \in given : g.sub = h.sub => g.topic = h.topic
      BY <1>8 DEF Owns
    <3> QED
      BY <1>3, <1>19, <2>3, <2>5, <3>1
  <2> QED
    BY <1>1, <1>6, <2>1, <2>4, <2>5
<1>21. AgreeInv'
  <2>1. SUFFICES ASSUME state = "established", NEW u \in Topics \ disturbed',
                        NEW s \in 1 .. lastId, NEW from \in 0 .. Len(toClient),
                        Relies(u, s, from)'
        PROVE  Agrees(u, s, from)'
    BY <1>1 DEF AgreeInv
  <2>2. Relies(u, s, from)
    BY <1>1, <1>4, <1>15, <2>1 DEF Relies
  <2>3. Agrees(u, s, from)
    BY <1>13, <2>1, <2>2 DEF IndInv, AgreeInv
  <2>4. SendsUnsubscribe(h) => s # h.sub
    <3>1. SUFFICES ASSUME IsLast(h), s = h.sub PROVE FALSE
      BY DEF SendsUnsubscribe
    <3>2. u = h.topic
      <4>1. owner[s] = u
        BY <1>8, <2>2, RelyOwner DEF IndInv
      <4> QED
        BY <1>8, <3>1, <4>1 DEF Owns
    <3>3. CASE from \in DOMAIN toClient /\ toClient[from] = Subscribed(u, s)
      BY <1>19, <2>1, <3>2, <3>3
    <3>4. CASE u \in DOMAIN topics' /\ topics'[u] = s
      BY <1>4, <3>1, <3>2, <3>4
    <3>5. CASE \E g \in Alive' : g.topic = u /\ g.sub = s
      BY <1>16, <2>1, <3>1, <3>5
    <3> QED
      BY <1>1, <2>1, <3>3, <3>4, <3>5 DEF Relies
  <2>5. Unsubscribing(s)' => Unsubscribing(s)
    BY <1>1, <1>3, <1>6, <2>4 DEF Unsubscribing
  <2>6. RouterIsDone' = RouterIsDone
    BY <1>1 DEF RouterIsDone
  <2> QED
    BY <1>1, <2>3, <2>5, <2>6 DEF Agrees
<1>22. EventsReachSubscribers'
  BY <1>1 DEF IndInv, EventsReachSubscribers
<1> QED
  BY <1>7, <1>10, <1>11, <1>12, <1>14, <1>17, <1>18, <1>20, <1>21, <1>22 DEF IndInv

-----------------------------------------------------------------------------
(* The broker *)

\* The router takes a message, or none, and what is left stays in order.
LEMMA TakenByRouter ==
    ASSUME TypeOK, OrderInv,
           \/ toRouter' = toRouter
           \/ toRouter' = << >>
           \/ toRouter # << >> /\ toRouter' = Tail(toRouter),
           UNCHANGED << given, disturbed >>
    PROVE  /\ toRouter' \in Seq(RouterMessages)
           /\ OrderInv'
           /\ \A s : Unsubscribing(s)' => Unsubscribing(s)
           /\ toRouter # << >> /\ toRouter' = Tail(toRouter) =>
                /\ Head(toRouter) \in RouterMessages
                /\ Head(toRouter) = toRouter[1] /\ 1 \in DOMAIN toRouter
                /\ \A i \in DOMAIN toRouter' :
                      i \in Nat /\ i + 1 \in DOMAIN toRouter /\ toRouter'[i] = toRouter[i + 1]
                /\ \A i \in DOMAIN toRouter :
                      i # 1 => i - 1 \in DOMAIN toRouter' /\ toRouter'[i - 1] = toRouter[i]
<1>1. toRouter \in Seq(RouterMessages)
  BY DEF TypeOK
<1>2. CASE toRouter' = toRouter
  <2>1. toRouter # << >> => toRouter # Tail(toRouter)
    <3>1. SUFFICES ASSUME toRouter # << >> PROVE toRouter # Tail(toRouter)
      OBVIOUS
    <3>2. Len(Tail(toRouter)) = Len(toRouter) - 1 /\ Len(toRouter) \in Nat
      BY <1>1, <3>1
    <3> QED
      BY <3>2
  <2>2. OrderInv'
    BY <1>2 DEF OrderInv
  <2> QED
    BY <1>1, <1>2, <2>1, <2>2 DEF Unsubscribing
<1>3. CASE toRouter' = << >> /\ ~(toRouter # << >> /\ toRouter' = Tail(toRouter))
  <2>1. toRouter' \in Seq(RouterMessages) /\ DOMAIN toRouter' = {}
    BY <1>3, EmptyFacts
  <2> QED
    BY <1>3, <2>1 DEF OrderInv, Unsubscribing
<1>4. CASE toRouter # << >> /\ toRouter' = Tail(toRouter)
  <2>1. /\ toRouter' \in Seq(RouterMessages)
        /\ Head(toRouter) \in RouterMessages /\ Head(toRouter) = toRouter[1]
        /\ 1 \in DOMAIN toRouter
        /\ \A i \in DOMAIN toRouter' :
              i \in Nat /\ i + 1 \in DOMAIN toRouter /\ toRouter'[i] = toRouter[i + 1]
        /\ \A i \in DOMAIN toRouter :
              i # 1 => i - 1 \in DOMAIN toRouter' /\ toRouter'[i - 1] = toRouter[i]
    BY <1>1, <1>4, TailFacts
  <2>2. \A s : Unsubscribing(s)' => Unsubscribing(s)
    BY <2>1 DEF Unsubscribing
  <2>3. OrderInv'
    <3>1. SUFFICES ASSUME NEW i \in DOMAIN toRouter', toRouter'[i].type = "unsubscribe"
          PROVE  /\ \E h \in given : h.sub = toRouter'[i].sub
                 /\ \A h \in given : h.sub = toRouter'[i].sub /\ h.topic \notin disturbed =>
                      \A j \in DOMAIN toRouter' : toRouter'[j] = Subscribe(h.topic) => i < j
      BY DEF OrderInv
    <3>2. i + 1 \in DOMAIN toRouter /\ toRouter'[i] = toRouter[i + 1]
      BY <2>1
    <3>3. ASSUME NEW h \in given, h.sub = toRouter'[i].sub, h.topic \notin disturbed,
                 NEW j \in DOMAIN toRouter', toRouter'[j] = Subscribe(h.topic)
          PROVE  i < j
      <4>1. j + 1 \in DOMAIN toRouter /\ toRouter[j + 1] = Subscribe(h.topic)
        BY <2>1, <3>3
      <4>2. i + 1 < j + 1
        BY <3>1, <3>2, <3>3, <4>1 DEF OrderInv
      <4>3. i \in Nat /\ j \in Nat
        BY <2>1
      <4> QED
        BY <4>2, <4>3
    <3> QED
      BY <3>1, <3>2, <3>3 DEF OrderInv
  <2> QED
    BY <2>1, <2>2, <2>3
<1> QED
  BY <1>2, <1>3, <1>4

\* The broker sends a message: the ones before it stay where they are.
LEMMA Answered ==
    ASSUME TypeOK, NEW m \in ClientMessages, toClient' = Append(toClient, m)
    PROVE  /\ toClient' \in Seq(ClientMessages) /\ Len(toClient) \in Nat
           /\ DOMAIN toClient = 1 .. Len(toClient) /\ DOMAIN toClient' = 1 .. Len(toClient')
           /\ Len(toClient') = Len(toClient) + 1
           /\ \A i \in DOMAIN toClient : i \in DOMAIN toClient' /\ toClient'[i] = toClient[i]
           /\ \A i \in DOMAIN toClient' : i \in DOMAIN toClient \/ i = Len(toClient) + 1
           /\ Len(toClient) + 1 \in DOMAIN toClient' /\ toClient'[Len(toClient) + 1] = m
           /\ RouterIsDone' <=> RouterIsDone \/ m = Goodbye
           /\ \A t, s : Told(t, s) => Told(t, s)'
<1>1. toClient \in Seq(ClientMessages)
  BY DEF TypeOK
<1>2. /\ toClient' \in Seq(ClientMessages) /\ Len(toClient) \in Nat
      /\ DOMAIN toClient = 1 .. Len(toClient) /\ DOMAIN toClient' = 1 .. Len(toClient) + 1
      /\ \A i \in DOMAIN toClient : i \in DOMAIN toClient' /\ toClient'[i] = toClient[i]
      /\ \A i \in DOMAIN toClient' : i \in DOMAIN toClient \/ i = Len(toClient) + 1
      /\ toClient'[Len(toClient) + 1] = m
  BY <1>1, AppendFacts
<1>3. Len(toClient') = Len(toClient) + 1
  BY <1>1
<1>4. Len(toClient) + 1 \in DOMAIN toClient' /\ DOMAIN toClient' = 1 .. Len(toClient')
  BY <1>2, <1>3
<1>5. RouterIsDone' <=> RouterIsDone \/ m = Goodbye
  BY <1>2, <1>4 DEF RouterIsDone
<1>6. \A t, s : Told(t, s) => Told(t, s)'
  BY <1>2 DEF Told
<1> QED
  BY <1>2, <1>3, <1>4, <1>5, <1>6

\* An answer of the router that agrees with its tables preserves the invariant.
LEMMA ReplyStep ==
    ASSUME IndInv, NEW m, Reply(m),
           subscribed' \subseteq Topics, brokerId' \in [Topics -> Nat], lastId' \in Nat,
           OwnerInv', RouterIsDone' => subscribed' = {}, LeakInv',
           \A t \in Topics, s \in 1 .. lastId, from \in 0 .. Len(toClient) :
              Agrees(t, s, from) => Agrees(t, s, from)',
           m.type = "subscribed" /\ m.topic \notin disturbed =>
              \A n \in Nat : n = Len(toClient) + 1 => Agrees(m.topic, m.sub, n)'
    PROVE  IndInv'
<1> USE DEF IndInv, Reply, tables
<1>1. /\ toRouter' \in Seq(RouterMessages)
      /\ OrderInv'
      /\ \A s : Unsubscribing(s)' => Unsubscribing(s)
  BY TakenByRouter
<1>2. /\ toClient' \in Seq(ClientMessages) /\ Len(toClient) \in Nat
      /\ DOMAIN toClient = 1 .. Len(toClient) /\ DOMAIN toClient' = 1 .. Len(toClient')
      /\ Len(toClient') = Len(toClient) + 1
      /\ \A i \in DOMAIN toClient : i \in DOMAIN toClient' /\ toClient'[i] = toClient[i]
      /\ \A i \in DOMAIN toClient' : i \in DOMAIN toClient \/ i = Len(toClient) + 1
      /\ Len(toClient) + 1 \in DOMAIN toClient' /\ toClient'[Len(toClient) + 1] = m
  BY Answered
<1>3. TypeOK'
  BY <1>1, <1>2 DEF TypeOK
<1>4. SlotsInv'
  BY DEF SlotsInv
<1>5. TopicIndex' /\ EventsReachSubscribers'
  BY DEF TopicIndex, EventsReachSubscribers
<1>6. BetweenInv'
  BY DEF BetweenInv
<1>7. Alive' = Alive
  BY DEF Alive
<1>8. ReadInv'
  BY <1>7 DEF ReadInv
<1>9. AgreeInv'
  <2>1. SUFFICES ASSUME state = "established", NEW t \in Topics \ disturbed,
                        NEW s \in 1 .. lastId', NEW from \in 0 .. Len(toClient'),
                        Relies(t, s, from)'
        PROVE  Agrees(t, s, from)'
    BY DEF AgreeInv
  <2>2. CASE Relies(t, s, from)
    <3>1. s \in 1 .. lastId
      BY <2>2, RelyOwner DEF OwnerInv
    <3>2. from \in 0 .. Len(toClient)
      BY <1>2, <2>2 DEF Relies
    <3>3. Agrees(t, s, from)
      BY <2>1, <2>2, <3>1, <3>2 DEF AgreeInv
    <3> QED
      BY <3>1, <3>2, <3>3
  <2>3. CASE from = Len(toClient) + 1 /\ toClient'[from] = Subscribed(t, s)
    <3>1. m.type = "subscribed" /\ m.topic = t /\ m.sub = s
      BY <1>2, <2>3 DEF Subscribed
    <3>2. from \in Nat
      BY <1>2
    <3>3. Agrees(m.topic, m.sub, from)'
      BY <2>1, <2>3, <3>1, <3>2
    <3> QED
      BY <3>1, <3>3
  <2>4. CASE from \in DOMAIN toClient /\ toClient'[from] = Subscribed(t, s)
    <3>1. Relies(t, s, from)
      BY <1>2, <2>4 DEF Relies
    <3> QED
      BY <2>2, <3>1
  <2> QED
    BY <1>2, <1>7, <2>1, <2>2, <2>3, <2>4 DEF Relies
<1> QED
  BY <1>1, <1>3, <1>4, <1>5, <1>6, <1>8, <1>9

\* The router's GOODBYE preserves the invariant.
LEMMA FarewellStep ==
    ASSUME IndInv, Farewell
    PROVE  IndInv'
<1> USE DEF Farewell
<1>1. Goodbye \in ClientMessages /\ Goodbye.type = "goodbye"
  BY ReplyTypes DEF Goodbye
<1>2. /\ Len(toClient) \in Nat
      /\ \A i \in DOMAIN toClient : i \in DOMAIN toClient' /\ toClient'[i] = toClient[i]
      /\ \A i \in DOMAIN toClient' : i \in DOMAIN toClient \/ i = Len(toClient) + 1
      /\ toClient'[Len(toClient) + 1] = Goodbye
      /\ RouterIsDone'
  BY <1>1, Answered DEF IndInv, Reply
<1>3. OwnerInv'
  <2>1. PICK owner \in [1 .. lastId -> Topics] : Owns(owner)
    BY DEF IndInv, OwnerInv
  <2>2. Owns(owner)'
    BY <1>1, <1>2, <2>1 DEF Owns, Reply, tables
  <2> QED
    BY <2>1, <2>2 DEF OwnerInv
<1>4. LeakInv'
  BY DEF LeakInv
<1>5. \A t, s : \A from : Agrees(t, s, from) => Agrees(t, s, from)'
  BY <1>1, <1>2 DEF Agrees
<1>6. subscribed' \subseteq Topics /\ brokerId' \in [Topics -> Nat] /\ lastId' \in Nat
  BY DEF IndInv, TypeOK
<1> QED
  BY <1>1, <1>3, <1>4, <1>5, <1>6, ReplyStep

\* An event, or ERROR in answer to SUBSCRIBE, preserves the invariant.
LEMMA TellStep ==
    ASSUME IndInv, NEW m, Tell(m)
    PROVE  IndInv'
<1> USE DEF Tell, router
<1>1. m \in ClientMessages /\ m.type # "subscribed" /\ m # Goodbye
  BY DEF Reply, Goodbye
<1>2. /\ Len(toClient) \in Nat
      /\ \A i \in DOMAIN toClient : i \in DOMAIN toClient' /\ toClient'[i] = toClient[i]
      /\ \A i \in DOMAIN toClient' : i \in DOMAIN toClient \/ i = Len(toClient) + 1
      /\ toClient'[Len(toClient) + 1] = m
      /\ RouterIsDone' <=> RouterIsDone
      /\ \A t, s : Told(t, s) => Told(t, s)'
  BY <1>1, Answered DEF IndInv, Reply
<1>3. \A s : Unsubscribing(s)' => Unsubscribing(s)
  BY TakenByRouter DEF IndInv, Reply
<1>4. \A s : Unsubscribing(s) => Unsubscribing(s)'
  <2>1. CASE toRouter' = toRouter
    BY <2>1 DEF Unsubscribing
  <2>2. CASE toRouter # << >> /\ toRouter' = Tail(toRouter) /\ Head(toRouter).type = "subscribe"
    <3>1. /\ Head(toRouter) = toRouter[1]
          /\ \A i \in DOMAIN toRouter :
                i # 1 => i - 1 \in DOMAIN toRouter' /\ toRouter'[i - 1] = toRouter[i]
      BY <2>2, TakenByRouter DEF IndInv, Reply
    <3> QED
      BY <2>2, <3>1 DEF Unsubscribing
  <2> QED
    BY <2>1, <2>2
<1>5. OwnerInv'
  <2>1. PICK owner \in [1 .. lastId -> Topics] : Owns(owner)
    BY DEF IndInv, OwnerInv
  <2>2. m.type = "event" => m.sub \in 1 .. lastId /\ owner[m.sub] = m.topic
    BY <2>1 DEF Owns, IndInv, TypeOK
  <2>3. ASSUME NEW i \in DOMAIN toClient', toClient'[i].type \in {"subscribed", "event"}
        PROVE  toClient'[i].sub \in 1 .. lastId /\ owner[toClient'[i].sub] = toClient'[i].topic
    <3>1. CASE i \in DOMAIN toClient
      BY <1>2, <2>1, <2>3, <3>1 DEF Owns
    <3>2. CASE toClient'[i] = m
      BY <1>1, <2>2, <2>3, <3>2
    <3> QED
      BY <1>2, <3>1, <3>2
  <2>4. Owns(owner)'
    BY <2>1, <2>3 DEF Owns, Reply, tables
  <2> QED
    BY <2>1, <2>4 DEF OwnerInv
<1>6. LeakInv'
  BY <1>2, <1>4 DEF IndInv, LeakInv, Reply, tables
<1>7. ASSUME NEW t, NEW s, NEW from, Agrees(t, s, from)
      PROVE  Agrees(t, s, from)'
  <2>1. ~RouterIsDone' => t \in subscribed' /\ brokerId'[t] = s /\ ~Unsubscribing(s)'
    BY <1>2, <1>3, <1>7 DEF Agrees
  <2>2. ASSUME NEW j \in DOMAIN toClient', j > from,
               toClient'[j].type \in {"subscribed", "event"}, toClient'[j].topic = t
        PROVE  toClient'[j].sub = s
    <3>1. CASE j \in DOMAIN toClient
      BY <1>2, <1>7, <2>2, <3>1 DEF Agrees
    <3>2. CASE toClient'[j] = m
      <4>1. m.topic = t /\ t \in subscribed /\ m.sub = brokerId[t]
        BY <1>1, <2>2, <3>2
      <4>2. ~RouterIsDone
        BY <4>1 DEF IndInv, BetweenInv
      <4> QED
        BY <1>7, <3>2, <4>1, <4>2 DEF Agrees
    <3> QED
      BY <1>2, <3>1, <3>2
  <2> QED
    BY <2>1, <2>2 DEF Agrees
<1>8. subscribed' \subseteq Topics /\ brokerId' \in [Topics -> Nat] /\ lastId' \in Nat
  BY DEF IndInv, TypeOK
<1>9. RouterIsDone' => subscribed' = {}
  BY <1>2 DEF IndInv, BetweenInv
<1> QED
  BY <1>1, <1>5, <1>6, <1>7, <1>8, <1>9, ReplyStep

\* UNSUBSCRIBE at the router preserves the invariant.
LEMMA RouterUnsubscribesStep ==
    ASSUME IndInv, RouterUnsubscribes
    PROVE  IndInv'
<1> DEFINE r == Head(toRouter)
<1>1. /\ ~RouterIsDone /\ toRouter # << >> /\ r.type = "unsubscribe" /\ toRouter' = Tail(toRouter)
      /\ subscribed' = subscribed \ { t \in Topics : brokerId[t] = r.sub }
      /\ toClient' = Append(toClient, Unsubscribed(r.waiting))
      /\ UNCHANGED << state, tables, nextSlotId, brokerId, lastId, session, history >>
  BY DEF RouterUnsubscribes, Request
<1>2. /\ r \in RouterMessages /\ r = toRouter[1] /\ 1 \in DOMAIN toRouter
      /\ \A i \in DOMAIN toRouter :
            i # 1 => i - 1 \in DOMAIN toRouter' /\ toRouter'[i - 1] = toRouter[i]
      /\ \A s : Unsubscribing(s)' => Unsubscribing(s)
  BY <1>1, TakenByRouter DEF IndInv, history
<1>3. r.sub \in Nat /\ r.waiting \in BOOLEAN
  BY <1>1, <1>2, Carried
<1>4. PICK m \in ClientMessages : m = Unsubscribed(r.waiting)
  BY <1>3, ReplyTypes
<1>5. m.type = "unsubscribed" /\ m # Goodbye /\ toClient' = Append(toClient, m)
  BY <1>1, <1>4 DEF Unsubscribed, Goodbye
<1> HIDE DEF r
<1>6. Reply(m)
  <2>1. state \in {"established", "shuttingDown"}
    BY <1>1 DEF IndInv, BetweenInv
  <2> QED
    BY <1>1, <1>5, <2>1 DEF Reply, history
<1>7. /\ Len(toClient) \in Nat
      /\ \A i \in DOMAIN toClient : i \in DOMAIN toClient' /\ toClient'[i] = toClient[i]
      /\ \A i \in DOMAIN toClient' : i \in DOMAIN toClient \/ i = Len(toClient) + 1
      /\ toClient'[Len(toClient) + 1] = m
      /\ RouterIsDone' <=> RouterIsDone
      /\ \A t, s : Told(t, s) => Told(t, s)'
  BY <1>5, Answered DEF IndInv
<1>8. subscribed' \subseteq subscribed
  BY <1>1
<1>9. OwnerInv'
  <2>1. PICK owner \in [1 .. lastId -> Topics] : Owns(owner)
    BY DEF IndInv, OwnerInv
  <2>2. Owns(owner)'
    BY <1>1, <1>5, <1>7, <1>8, <2>1 DEF Owns, tables, history
  <2> QED
    BY <1>1, <2>1, <2>2 DEF OwnerInv
<1>10. LeakInv'
  <2>1. SUFFICES ASSUME state = "established", NEW t \in subscribed', NEW s \in 1 .. lastId,
                        brokerId[t] = s
        PROVE  s \in DOMAIN readership \/ Told(t, s)' \/ Unsubscribing(s)'
    BY <1>1 DEF LeakInv, tables
  <2>2. s # r.sub
    BY <1>1, <2>1 DEF IndInv, TypeOK
  <2>3. Unsubscribing(s) => Unsubscribing(s)'
    BY <1>2, <2>2 DEF Unsubscribing
  <2> QED
    BY <1>7, <1>8, <2>1, <2>3 DEF IndInv, LeakInv
<1>11. ASSUME NEW t \in Topics, NEW s, NEW from, Agrees(t, s, from)
       PROVE  Agrees(t, s, from)'
  <2>1. t \in subscribed /\ brokerId[t] = s /\ ~Unsubscribing(s)
    BY <1>1, <1>11 DEF Agrees
  <2>2. s # r.sub
    BY <1>1, <1>2, <2>1 DEF Unsubscribing
  <2>3. t \in subscribed' /\ brokerId'[t] = s /\ ~Unsubscribing(s)'
    BY <1>1, <1>2, <2>1, <2>2
  <2>4. \A j \in DOMAIN toClient' :
          j > from /\ toClient'[j].type \in {"subscribed", "event"} /\ toClient'[j].topic = t
             => toClient'[j].sub = s
    BY <1>5, <1>7, <1>11 DEF Agrees
  <2> QED
    BY <2>3, <2>4 DEF Agrees
<1>12. subscribed' \subseteq Topics /\ brokerId' \in [Topics -> Nat] /\ lastId' \in Nat
  BY <1>1, <1>8 DEF IndInv, TypeOK
<1> QED
  BY <1>1, <1>5, <1>6, <1>7, <1>9, <1>10, <1>11, <1>12, ReplyStep

\* SUBSCRIBE at the router preserves the invariant.
LEMMA RouterSubscribesStep ==
    ASSUME IndInv, RouterSubscribes
    PROVE  IndInv'
<1> DEFINE r == Head(toRouter)
<1>1. /\ ~RouterIsDone /\ toRouter # << >> /\ r.type = "subscribe" /\ toRouter' = Tail(toRouter)
      /\ subscribed' = subscribed \cup {r.topic}
      /\ toClient' = Append(toClient, Subscribed(r.topic, brokerId'[r.topic]))
      /\ UNCHANGED << state, tables, nextSlotId, session, history >>
  BY DEF RouterSubscribes, Request
<1>2. \/ UNCHANGED << brokerId, lastId >> /\ brokerId[r.topic] # 0
      \/ /\ r.topic \notin subscribed /\ lastId' = lastId + 1
         /\ brokerId' = [brokerId EXCEPT ![r.topic] = lastId + 1]
  BY DEF RouterSubscribes
<1>3. /\ r \in RouterMessages /\ r = toRouter[1] /\ 1 \in DOMAIN toRouter
      /\ \A i \in DOMAIN toRouter' :
            i \in Nat /\ i + 1 \in DOMAIN toRouter /\ toRouter'[i] = toRouter[i + 1]
      /\ \A i \in DOMAIN toRouter :
            i # 1 => i - 1 \in DOMAIN toRouter' /\ toRouter'[i - 1] = toRouter[i]
      /\ \A s : Unsubscribing(s)' => Unsubscribing(s)
  BY <1>1, TakenByRouter DEF IndInv, history
<1>4. PICK t \in Topics : t = r.topic /\ toRouter[1] = Subscribe(t)
  BY <1>1, <1>3, Carried
<1> HIDE DEF r
<1>5. lastId \in Nat /\ lastId' \in Nat /\ brokerId \in [Topics -> Nat] /\ brokerId' \in [Topics -> Nat]
  <2>1. lastId \in Nat /\ brokerId \in [Topics -> Nat]
    BY DEF IndInv, TypeOK
  <2>2. lastId + 1 \in Nat
    BY <2>1
  <2> QED
    BY <1>2, <1>4, <2>1, <2>2
<1>6. /\ \A u \in Topics : u # t => brokerId'[u] = brokerId[u]
      /\ t \in subscribed => brokerId'[t] = brokerId[t]
      /\ \/ brokerId'[t] = brokerId[t] /\ brokerId[t] # 0 /\ lastId' = lastId
         \/ brokerId'[t] = lastId + 1 /\ lastId' = lastId + 1
  BY <1>2, <1>4, <1>5
<1>7. PICK b \in Nat : b = brokerId'[t]
  BY <1>5
<1>8. PICK m \in ClientMessages : m = Subscribed(t, b)
  BY ReplyTypes
<1>9. /\ m.type = "subscribed" /\ m.topic = t /\ m.sub = b /\ m # Goodbye
      /\ toClient' = Append(toClient, m)
  BY <1>1, <1>4, <1>7, <1>8 DEF Subscribed, Goodbye
<1>10. Reply(m)
  <2>1. state \in {"established", "shuttingDown"}
    BY <1>1 DEF IndInv, BetweenInv
  <2> QED
    BY <1>1, <1>9, <2>1 DEF Reply, history
<1>11. /\ Len(toClient) \in Nat
       /\ DOMAIN toClient = 1 .. Len(toClient)
       /\ \A i \in DOMAIN toClient : i \in DOMAIN toClient' /\ toClient'[i] = toClient[i]
       /\ \A i \in DOMAIN toClient' : i \in DOMAIN toClient \/ i = Len(toClient) + 1
       /\ Len(toClient) + 1 \in DOMAIN toClient' /\ toClient'[Len(toClient) + 1] = m
       /\ RouterIsDone' <=> RouterIsDone
       /\ \A u, s : Told(u, s) => Told(u, s)'
  BY <1>9, Answered DEF IndInv
<1>12. UNCHANGED << topics, readership, given, disturbed, state >>
  BY <1>1 DEF tables, history
<1>13. PICK owner \in [1 .. lastId -> Topics] : Owns(owner)
  BY DEF IndInv, OwnerInv
<1>14. PICK owner2 \in [1 .. lastId' -> Topics] :
          /\ owner2[b] = t /\ b \in 1 .. lastId'
          /\ \A s \in 1 .. lastId : s \in 1 .. lastId' /\ owner2[s] = owner[s]
  <2>1. CASE brokerId'[t] = brokerId[t] /\ brokerId[t] # 0 /\ lastId' = lastId
    <3>1. owner[b] = t /\ b \in 1 .. lastId
      BY <1>7, <1>13, <2>1 DEF Owns
    <3> QED
      BY <2>1, <3>1
  <2>2. CASE brokerId'[t] = lastId + 1 /\ lastId' = lastId + 1
    <3> DEFINE o == [s \in 1 .. lastId' |-> IF s = lastId + 1 THEN t ELSE owner[s]]
    <3>1. b \in 1 .. lastId' /\ \A s \in 1 .. lastId : s \in 1 .. lastId' /\ s # lastId + 1
      BY <1>5, <1>7, <2>2
    <3>2. \A s \in 1 .. lastId' : s = lastId + 1 \/ s \in 1 .. lastId
      BY <1>5, <2>2
    <3>3. o \in [1 .. lastId' -> Topics]
      BY <3>2
    <3>4. o[b] = t /\ \A s \in 1 .. lastId : o[s] = owner[s]
      BY <1>7, <2>2, <3>1
    <3> QED
      BY <3>1, <3>3, <3>4
  <2> QED
    BY <1>6, <2>1, <2>2
<1>15. Owns(owner2)'
  <2>1. ASSUME NEW i \in DOMAIN toClient', toClient'[i].type \in {"subscribed", "event"}
        PROVE  toClient'[i].sub \in 1 .. lastId' /\ owner2[toClient'[i].sub] = toClient'[i].topic
    <3>1. CASE i \in DOMAIN toClient
      BY <1>11, <1>13, <1>14, <2>1, <3>1 DEF Owns
    <3>2. CASE toClient'[i] = m
      BY <1>9, <1>14, <3>2
    <3> QED
      BY <1>11, <3>1, <3>2
  <2>2. \A u \in Topics : brokerId'[u] # 0 => brokerId'[u] \in 1 .. lastId' /\ owner2[brokerId'[u]] = u
    <3>1. SUFFICES ASSUME NEW u \in Topics, brokerId'[u] # 0
          PROVE  brokerId'[u] \in 1 .. lastId' /\ owner2[brokerId'[u]] = u
      OBVIOUS
    <3>2. CASE u = t
      BY <1>7, <1>14, <3>2
    <3>3. CASE u # t
      BY <1>6, <1>13, <1>14, <3>1, <3>3 DEF Owns
    <3> QED
      BY <3>2, <3>3
  <2>3. \A u \in subscribed' : brokerId'[u] # 0
    <3>1. brokerId'[t] # 0
      BY <1>7, <1>14
    <3>2. subscribed \subseteq Topics
      BY DEF IndInv, TypeOK
    <3> QED
      BY <1>1, <1>4, <1>6, <1>13, <3>1, <3>2 DEF Owns
  <2>4. \A u \in DOMAIN topics : topics[u] \in 1 .. lastId' /\ owner2[topics[u]] = u
    BY <1>13, <1>14 DEF Owns
  <2>5. \A s \in DOMAIN readership :
          s \in 1 .. lastId' /\ \A l \in readership[s] : l.topic = owner2[s]
    BY <1>13, <1>14 DEF Owns
  <2>6. \A h \in given : h.sub \in 1 .. lastId' /\ owner2[h.sub] = h.topic
    BY <1>13, <1>14 DEF Owns
  <2> QED
    BY <1>12, <2>1, <2>2, <2>3, <2>4, <2>5, <2>6 DEF Owns
<1>16. OwnerInv'
  BY <1>14, <1>15 DEF OwnerInv
<1>17. \A s : Unsubscribing(s) => Unsubscribing(s)'
  <2>1. toRouter[1].type # "unsubscribe"
    BY <1>4 DEF Subscribe
  <2> QED
    BY <1>3, <2>1 DEF Unsubscribing
<1>18. LeakInv'
  <2>1. SUFFICES ASSUME state = "established", NEW u \in subscribed', NEW s \in 1 .. lastId',
                        brokerId'[u] = s
        PROVE  s \in DOMAIN readership \/ Told(u, s)' \/ Unsubscribing(s)'
    BY <1>12 DEF LeakInv
  <2>2. CASE u = t
    <3>1. toClient'[Len(toClient) + 1] = Subscribed(u, s)
      BY <1>7, <1>8, <1>11, <2>1, <2>2
    <3> QED
      BY <1>11, <3>1 DEF Told
  <2>3. CASE u # t
    <3>1. u \in subscribed /\ u \in Topics
      BY <1>1, <1>4, <2>1, <2>3 DEF IndInv, TypeOK
    <3>2. brokerId[u] = s
      BY <1>6, <2>1, <2>3, <3>1
    <3>3. s \in 1 .. lastId
      BY <1>13, <3>1, <3>2 DEF Owns
    <3> QED
      BY <1>11, <1>17, <2>1, <3>1, <3>2, <3>3 DEF IndInv, LeakInv
  <2> QED
    BY <2>2, <2>3
<1>19. ASSUME NEW u \in Topics, NEW s, NEW from, Agrees(u, s, from)
       PROVE  Agrees(u, s, from)'
  <2>1. u \in subscribed /\ brokerId[u] = s /\ ~Unsubscribing(s)
    BY <1>1, <1>19 DEF Agrees
  <2>2. u \in subscribed' /\ brokerId'[u] = s /\ ~Unsubscribing(s)'
    BY <1>1, <1>3, <1>6, <2>1
  <2>3. u = t => b = s
    BY <1>7, <2>2
  <2>4. \A j \in DOMAIN toClient' :
          j > from /\ toClient'[j].type \in {"subscribed", "event"} /\ toClient'[j].topic = u
             => toClient'[j].sub = s
    BY <1>9, <1>11, <1>19, <2>3 DEF Agrees
  <2> QED
    BY <2>2, <2>4 DEF Agrees
<1>20. ASSUME t \notin disturbed, NEW n \in Nat, n = Len(toClient) + 1
       PROVE  Agrees(t, b, n)'
  <2>1. ~Unsubscribing(b)'
    <3>1. SUFFICES ASSUME NEW i \in DOMAIN toRouter', toRouter'[i].type = "unsubscribe",
                          toRouter'[i].sub = b
          PROVE  FALSE
      BY DEF Unsubscribing
    <3>2. i \in Nat /\ i + 1 \in DOMAIN toRouter /\ toRouter'[i] = toRouter[i + 1]
      BY <1>3
    <3>3. PICK h \in given : h.sub = b
      BY <3>1, <3>2 DEF IndInv, OrderInv
    <3>4. h.topic = t
      BY <1>13, <1>14, <3>3 DEF Owns
    <3>5. i + 1 < 1
      BY <1>3, <1>4, <1>20, <3>1, <3>2, <3>3, <3>4, ZenonT(40) DEF IndInv, OrderInv
    <3> QED
      BY <3>2, <3>5
  <2>2. t \in subscribed' /\ brokerId'[t] = b
    BY <1>1, <1>4, <1>7
  <2>3. \A j \in DOMAIN toClient' : ~(j > n)
    BY <1>11, <1>20
  <2> QED
    BY <2>1, <2>2, <2>3 DEF Agrees
<1>21. subscribed' \subseteq Topics
  BY <1>1, <1>4 DEF IndInv, TypeOK
<1> QED
  BY <1>1, <1>5, <1>9, <1>10, <1>11, <1>16, <1>18, <1>19, <1>20, <1>21, ReplyStep

-----------------------------------------------------------------------------
(* Theorems *)

\* Every step preserves the invariant.
LEMMA Step ==
    ASSUME IndInv, [Next]_vars
    PROVE  IndInv'
<1>1. CASE UNCHANGED vars
  BY <1>1, IdleStep
<1>2. CASE Next
  <2>1. ASSUME NEW t \in Topics, subscribe(t), t \in DOMAIN topics PROVE IndInv'
    <3>1. PICK sub \in Nat : sub = topics[t]
      BY <2>1 DEF IndInv, TypeOK
    <3>2. Granting(t, sub)
      BY <2>1, <3>1 DEF subscribe, Granting
    <3> QED
      BY <3>2, GrantStep
  <2>2. ASSUME OnSubscribed PROVE IndInv'
    <3>1. toClient # << >> /\ Head(toClient).type = "subscribed" /\ toClient' = Tail(toClient)
      BY <2>2 DEF OnSubscribed, Receive
    <3>2. Head(toClient) \in ClientMessages
      BY <3>1, TailFacts DEF IndInv, TypeOK
    <3>3. PICK t \in Topics, sub \in Nat :
             /\ t = Head(toClient).topic /\ sub = Head(toClient).sub
             /\ Head(toClient) = Subscribed(t, sub)
      BY <3>1, <3>2, Carried
    <3>4. topics' = Emplace(t, sub) /\ Grant(sub, t)
      BY <2>2, <3>3 DEF OnSubscribed
    <3>5. Granting(t, sub)
      BY <2>2, <3>1, <3>3, <3>4 DEF OnSubscribed, Granting
    <3> QED
      BY <3>5, GrantStep
  <2>3. TypeOK /\ BetweenInv
    BY DEF IndInv
  <2> QED
    BY <1>2, <2>1, <2>2, <2>3, Operations, DropStep, SendStep, EndStep, JoinStep, PassStep,
       RouterSubscribesStep, RouterUnsubscribesStep, TellStep, FarewellStep
<1> QED
  BY <1>1, <1>2

\* The inductive invariant holds in every state of every behaviour: the tables of
\* Client, what is under way in either direction and the broker's subscriptions are
\* related as its parts say.
THEOREM Invariance == Spec => []IndInv
<1>1. Init => IndInv
  BY InitHolds
<1>2. IndInv /\ [Next]_vars => IndInv'
  BY Step
<1> QED
  BY <1>1, <1>2, PTL DEF Spec

\* topics_ never leads to a subscription that readership_ has forgotten, nor to one of
\* another topic, and no entry of readership_ is empty: what Client::subscribe,
\* unsubscribe and onEvent take for granted of the two maps.
THEOREM TablesAgree == Spec => []TopicIndex
<1>1. IndInv => TopicIndex
  BY DEF IndInv
<1> QED
  BY <1>1, Invariance, PTL

\* A subscription at the broker has a reader, once what is under way has arrived: when
\* Client::unsubscribe drops the last local subscription, it sends UNSUBSCRIBE.
THEOREM NothingLeaks == Spec => []NoLeak
<1>1. IndInv => NoLeak
  <2>1. SUFFICES ASSUME IndInv, Quiet, NEW t \in subscribed
        PROVE  brokerId[t] \in DOMAIN readership
    BY DEF NoLeak
  <2>2. DOMAIN toClient = {} /\ DOMAIN toRouter = {}
    BY <2>1, EmptyFacts DEF Quiet
  <2>3. PICK owner : Owns(owner)
    BY <2>1 DEF IndInv, OwnerInv
  <2>4. brokerId[t] \in 1 .. lastId
    BY <2>1, <2>3 DEF IndInv, TypeOK, Owns
  <2> QED
    BY <2>1, <2>2, <2>4 DEF IndInv, LeakInv, Told, Unsubscribing, Quiet
<1> QED
  BY <1>1, Invariance, PTL

\* A Subscription that the user holds has the broker's behind it, once what is under
\* way has arrived, unless its topic was disturbed: the several local subscriptions
\* that Client makes share one SUBSCRIBE, and dropping one leaves the others served.
THEOREM SubscriptionsAreServed == Spec => []Served
<1>1. IndInv => Served
  <2>1. SUFFICES ASSUME IndInv, Quiet, NEW h \in Alive, h.topic \notin disturbed
        PROVE  h.topic \in subscribed /\ brokerId[h.topic] = h.sub
    BY DEF Served
  <2>2. Relies(h.topic, h.sub, 0)
    BY <2>1 DEF Relies
  <2>3. PICK owner : Owns(owner)
    BY <2>1 DEF IndInv, OwnerInv
  <2>4. h.topic \in Topics /\ h.sub \in 1 .. lastId
    BY <2>1, <2>2, <2>3, RelyOwner DEF IndInv
  <2>5. Len(toClient) \in Nat /\ 0 \in 0 .. Len(toClient)
    BY <2>1 DEF Quiet
  <2>6. Agrees(h.topic, h.sub, 0)
    BY <2>1, <2>2, <2>4, <2>5 DEF IndInv, AgreeInv, Quiet
  <2>7. ~RouterIsDone
    BY <2>1 DEF Quiet, RouterIsDone
  <2> QED
    BY <2>6, <2>7 DEF Agrees
<1> QED
  BY <1>1, Invariance, PTL

\* With the same exception, Client::onEvent finds every local subscription to the
\* event's topic; and it never finds one to another topic, whatever was disturbed.
THEOREM EventsAreDelivered == Spec => []EventsReachSubscribers
<1>1. IndInv => EventsReachSubscribers
  BY DEF IndInv
<1> QED
  BY <1>1, Invariance, PTL
=============================================================================
