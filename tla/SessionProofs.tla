--------------------------- MODULE SessionProofs ---------------------------
(***************************************************************************)
(* Machine-checked proofs about Session, for every set of handlers, every  *)
(* number of wishes, every request ID limit and every backlog.             *)
(***************************************************************************)
EXTENDS Session, FiniteSetTheorems, TLAPS

-----------------------------------------------------------------------------
(* Request maps *)

\* Removing a pending request (processWampReply, cancelCall) releases its
\* handler and no other.
LEMMA WithoutLemma ==
    ASSUME NEW map, IsMap(map), Injective(map), NEW key \in DOMAIN map
    PROVE  /\ IsMap(Without(map, key))
           /\ Injective(Without(map, key))
           /\ Held(Without(map, key)) = Held(map) \ {map[key]}
           /\ map[key] \in Held(map)
           /\ map[key] \in Handlers
BY DEF IsMap, Injective, Held, Without

\* Entering a request (sendRequest) adds its handler.
LEMMA EnterLemma ==
    ASSUME NEW map, IsMap(map), Injective(map), NEW key \in RequestKey,
           key \notin DOMAIN map, NEW h \in Handlers, h \notin Held(map)
    PROVE  /\ IsMap(MapAfter(map, key, h, FALSE))
           /\ Injective(MapAfter(map, key, h, FALSE))
           /\ Held(MapAfter(map, key, h, FALSE)) = Held(map) \cup {h}
<1> DEFINE m == MapAfter(map, key, h, FALSE)
<1>1. /\ m = [k \in DOMAIN map \cup {key} |-> IF k = key THEN h ELSE map[k]]
      /\ DOMAIN m = DOMAIN map \cup {key}
  BY DEF MapAfter
<1>2. m[key] = h /\ \A k \in DOMAIN map \ {key} : m[k] = map[k]
  BY <1>1
<1> HIDE DEF m
<1>3. Injective(m)
  BY <1>1, <1>2 DEF Injective, Held
<1>4. Held(m) = Held(map) \cup {h}
  BY <1>1, <1>2 DEF Held
<1>5. IsMap(m)
  BY <1>1, <1>4 DEF IsMap
<1> QED BY <1>3, <1>4, <1>5 DEF m

\* A request that reuses the ID of a pending one releases the handler of that one.
LEMMA DisplaceLemma ==
    ASSUME NEW map, IsMap(map), Injective(map), NEW key \in RequestKey,
           key \in DOMAIN map, NEW h \in Handlers, h \notin Held(map)
    PROVE  /\ IsMap(MapAfter(map, key, h, FALSE))
           /\ Injective(MapAfter(map, key, h, FALSE))
           /\ Held(MapAfter(map, key, h, FALSE)) = (Held(map) \ {map[key]}) \cup {h}
<1> DEFINE m == MapAfter(map, key, h, FALSE)
<1>1. /\ m = [k \in DOMAIN map \cup {key} |-> IF k = key THEN h ELSE map[k]]
      /\ DOMAIN m = DOMAIN map \cup {key}
  BY DEF MapAfter
<1>2. m[key] = h /\ \A k \in DOMAIN map \ {key} : m[k] = map[k]
  BY <1>1
<1> HIDE DEF m
<1>3. Injective(m)
  BY <1>1, <1>2 DEF Injective, Held
<1>4. Held(m) = (Held(map) \ {map[key]}) \cup {h}
  BY <1>1, <1>2 DEF Injective, Held
<1>5. IsMap(m)
  BY <1>1, <1>4 DEF IsMap
<1> QED BY <1>3, <1>4, <1>5 DEF m

\* The cleared map holds nothing.
LEMMA EmptyMapLemma ==
    /\ IsMap(<< >>)
    /\ Injective(<< >>)
    /\ Held(<< >>) = {}
BY DEF IsMap, Injective, Held

-----------------------------------------------------------------------------
(* The strand *)

\* Queueing a task of a handler that is not queued yet.
LEMMA AppendLemma ==
    ASSUME NEW s \in Seq(Tasks), Distinct(s), NEW t \in Tasks,
           t.handler = NoHandler \/ t.handler \notin TaskHandlers(s)
    PROVE  /\ Append(s, t) \in Seq(Tasks)
           /\ Distinct(Append(s, t))
           /\ TaskHandlers(Append(s, t)) = TaskHandlers(s) \cup ({t.handler} \ {NoHandler})
<1>1. Append(s, t) \in Seq(Tasks) /\ Len(Append(s, t)) = Len(s) + 1
  OBVIOUS
<1>2. /\ \A i \in 1 .. Len(s) : Append(s, t)[i] = s[i]
      /\ Append(s, t)[Len(s) + 1] = t
  OBVIOUS
<1>3. Distinct(Append(s, t))
  BY <1>1, <1>2 DEF Distinct, TaskHandlers
<1>4. TaskHandlers(Append(s, t)) = TaskHandlers(s) \cup ({t.handler} \ {NoHandler})
  BY <1>1, <1>2 DEF TaskHandlers
<1> QED BY <1>1, <1>3, <1>4

\* Taking the first task off the strand releases its handler and no other.
LEMMA TailLemma ==
    ASSUME NEW s \in Seq(Tasks), Distinct(s), s # << >>
    PROVE  /\ Tail(s) \in Seq(Tasks)
           /\ Distinct(Tail(s))
           /\ TaskHandlers(Tail(s)) = TaskHandlers(s) \ {Head(s).handler}
           /\ Head(s) \in Tasks
           /\ Head(s).handler # NoHandler => Head(s).handler \in TaskHandlers(s)
<1>1. /\ Len(s) \in Nat \ {0}
      /\ Tail(s) \in Seq(Tasks) /\ Len(Tail(s)) = Len(s) - 1
      /\ Head(s) = s[1] /\ s[1] \in Tasks
      /\ \A i \in 1 .. Len(Tail(s)) : Tail(s)[i] = s[i + 1]
  OBVIOUS
<1>2. Distinct(Tail(s))
  BY <1>1 DEF Distinct
<1>3. TaskHandlers(Tail(s)) = TaskHandlers(s) \ {Head(s).handler}
  <2>1. ASSUME NEW h \in TaskHandlers(Tail(s))
        PROVE  h \in TaskHandlers(s) /\ h # Head(s).handler
    BY <1>1 DEF TaskHandlers, Distinct
  <2>2. ASSUME NEW h \in TaskHandlers(s), h # Head(s).handler
        PROVE  h \in TaskHandlers(Tail(s))
    <3>1. PICK i \in 1 .. Len(s) : s[i].handler = h /\ h # NoHandler
      BY DEF TaskHandlers
    <3>2. i - 1 \in 1 .. Len(Tail(s)) /\ Tail(s)[i - 1] = s[i]
      BY <1>1, <2>2, <3>1
    <3> QED BY <3>1, <3>2 DEF TaskHandlers
  <2> QED BY <2>1, <2>2
<1>4. Head(s).handler # NoHandler => Head(s).handler \in TaskHandlers(s)
  BY <1>1 DEF TaskHandlers
<1> QED BY <1>1, <1>2, <1>3, <1>4

\* Appending a batch of tasks of other handlers.
LEMMA ConcatLemma ==
    ASSUME NEW s \in Seq(Tasks), Distinct(s), NEW r \in Seq(Tasks), Distinct(r),
           TaskHandlers(s) \cap TaskHandlers(r) = {}
    PROVE  /\ s \o r \in Seq(Tasks)
           /\ Distinct(s \o r)
           /\ TaskHandlers(s \o r) = TaskHandlers(s) \cup TaskHandlers(r)
<1>1. /\ s \o r \in Seq(Tasks) /\ Len(s \o r) = Len(s) + Len(r)
      /\ Len(s) \in Nat /\ Len(r) \in Nat
  OBVIOUS
<1>2. /\ \A i \in 1 .. Len(s) : (s \o r)[i] = s[i]
      /\ \A i \in Len(s) + 1 .. Len(s) + Len(r) : (s \o r)[i] = r[i - Len(s)]
  OBVIOUS
<1>3. \A i \in 1 .. Len(s \o r) :
         \/ i \in 1 .. Len(s)
         \/ i \in Len(s) + 1 .. Len(s) + Len(r) /\ i - Len(s) \in 1 .. Len(r)
  BY <1>1
<1>4. Distinct(s \o r)
  <2> SUFFICES ASSUME NEW i \in 1 .. Len(s \o r), NEW j \in 1 .. Len(s \o r),
                      (s \o r)[i].handler = (s \o r)[j].handler,
                      (s \o r)[i].handler # NoHandler
               PROVE  i = j
    BY DEF Distinct
  <2>1. CASE i \in 1 .. Len(s) /\ j \in 1 .. Len(s)
    BY <1>2, <2>1 DEF Distinct
  <2>2. CASE i \notin 1 .. Len(s) /\ j \notin 1 .. Len(s)
    BY <1>1, <1>2, <1>3, <2>2 DEF Distinct
  <2>3. CASE i \in 1 .. Len(s) /\ j \notin 1 .. Len(s)
    BY <1>2, <1>3, <2>3 DEF TaskHandlers
  <2>4. CASE i \notin 1 .. Len(s) /\ j \in 1 .. Len(s)
    BY <1>2, <1>3, <2>4 DEF TaskHandlers
  <2> QED BY <2>1, <2>2, <2>3, <2>4
<1>5. TaskHandlers(s \o r) = TaskHandlers(s) \cup TaskHandlers(r)
  <2>1. ASSUME NEW h \in TaskHandlers(s \o r)
        PROVE  h \in TaskHandlers(s) \cup TaskHandlers(r)
    BY <1>2, <1>3 DEF TaskHandlers
  <2>2. TaskHandlers(s) \subseteq TaskHandlers(s \o r)
    BY <1>1, <1>2 DEF TaskHandlers
  <2>3. ASSUME NEW h \in TaskHandlers(r)
        PROVE  h \in TaskHandlers(s \o r)
    <3>1. PICK i \in 1 .. Len(r) : r[i].handler = h /\ h # NoHandler
      BY DEF TaskHandlers
    <3>2. i + Len(s) \in 1 .. Len(s \o r) /\ (s \o r)[i + Len(s)] = r[i]
      BY <1>1, <1>2, <3>1
    <3> QED BY <3>1, <3>2 DEF TaskHandlers
  <2> QED BY <2>1, <2>2, <2>3
<1> QED BY <1>1, <1>4, <1>5

\* abortPending posts every handler of a map exactly once.
LEMMA PostAllLemma ==
    ASSUME NEW S \in SUBSET Handlers, NEW err \in Errors
    PROVE  /\ PostAll(S, err) \in Seq(Tasks)
           /\ Distinct(PostAll(S, err))
           /\ TaskHandlers(PostAll(S, err)) = S
<1> DEFINE n == Cardinality(S)
           q == Order(S)
<1>1. IsFiniteSet(S)
  BY HandlersAssumption, FS_Subset
<1>2. n \in Nat /\ ExistsBijection(1 .. n, S)
  BY <1>1, FS_CardinalityType
<1>3. \E f \in [1 .. n -> S] : IsOrder(f, S)
  BY <1>2 DEF ExistsBijection, Bijection, Injection, Surjection, IsOrder, IsInjective
<1>4. IsOrder(q, S)
  BY <1>3 DEF Order
<1>5. /\ q \in [1 .. n -> S]
      /\ \A i, j \in 1 .. n : q[i] = q[j] => i = j
      /\ \A h \in S : \E i \in 1 .. n : q[i] = h
  BY <1>4 DEF IsOrder
<1> HIDE DEF n, q
<1>6. PostAll(S, err) = [i \in 1 .. n |-> PostedTask(q[i], err)]
  BY DEF PostAll, n, q
<1>7. \A i \in 1 .. n : PostedTask(q[i], err) \in Tasks /\ PostedTask(q[i], err).handler = q[i]
  BY <1>5 DEF Tasks, PostedTask
<1>8. /\ PostAll(S, err) \in Seq(Tasks) /\ Len(PostAll(S, err)) = n
      /\ \A i \in 1 .. n : PostAll(S, err)[i].handler = q[i]
  BY <1>2, <1>6, <1>7
<1>9. NoHandler \notin S
  BY HandlersAssumption
<1>10. Distinct(PostAll(S, err))
  BY <1>5, <1>8 DEF Distinct
<1>11. TaskHandlers(PostAll(S, err)) = S
  BY <1>5, <1>8, <1>9 DEF TaskHandlers
<1> QED BY <1>8, <1>10, <1>11

\* A handler posted by itself.
LEMMA PostedLemma ==
    ASSUME NEW s \in Seq(Tasks), Distinct(s), NEW h \in Handlers, h \notin TaskHandlers(s),
           NEW err \in Errors
    PROVE  /\ Append(s, PostedTask(h, err)) = s \o << PostedTask(h, err) >>
           /\ Append(s, PostedTask(h, err)) \in Seq(Tasks)
           /\ Distinct(Append(s, PostedTask(h, err)))
           /\ TaskHandlers(Append(s, PostedTask(h, err))) = TaskHandlers(s) \cup {h}
<1> DEFINE t == PostedTask(h, err)
<1>1. t \in Tasks /\ t.handler = h
  BY DEF Tasks, PostedTask
<1> HIDE DEF t
<1>2. {h} \ {NoHandler} = {h}
  BY HandlersAssumption
<1>3. Append(s, t) = s \o << t >>
  OBVIOUS
<1>4. /\ Append(s, t) \in Seq(Tasks)
      /\ Distinct(Append(s, t))
      /\ TaskHandlers(Append(s, t)) = TaskHandlers(s) \cup ({t.handler} \ {NoHandler})
  BY <1>1, AppendLemma
<1> QED BY <1>1, <1>2, <1>3, <1>4 DEF t

\* Everything that waits is a handler.
LEMMA WaitingLemma ==
    ASSUME TypeOK
    PROVE  /\ Held(oneShot) \subseteq Handlers
           /\ Held(multiShot) \subseteq Handlers
           /\ TaskHandlers(strand) \subseteq Handlers
           /\ AttemptHandlers(attempts) \subseteq Handlers
<1>1. \A t \in Tasks : t.handler \in Handlers \cup {NoHandler}
  BY DEF Tasks, RxTask, RxErrorTask, PostedTask, ConnectedTask
<1>2. \A i \in 1 .. Len(strand) : strand[i] \in Tasks
  BY DEF TypeOK
<1> QED BY <1>1, <1>2 DEF TypeOK, IsMap, TaskHandlers, AttemptHandlers

\* What each kind of task carries.
LEMMA TaskLemma ==
    ASSUME NEW t \in Tasks
    PROVE  /\ t.task \in {"rx", "rxError"} => t.handler = NoHandler
           /\ t.task = "rx" => t.arg \in Messages
           /\ t.task = "posted" => t.handler \in Handlers /\ t.arg \in Errors
           /\ t.task = "connected" => /\ t.handler \in Handlers
                                      /\ t.arg[1] \in 1 .. Wishes
                                      /\ t.arg[2] \in {"ok", "error", "aborted"}
BY DEF Tasks, RxTask, RxErrorTask, PostedTask, ConnectedTask

-----------------------------------------------------------------------------
(* Accounting: what a step does to the handlers' histories *)

HeardOK == heard \in [Handlers -> Final \cup {"none", "progress", "misfire"}]

Accounts == /\ HeardOK /\ HeldUnheard /\ AtMostOnce /\ NoLostHandler
            /\ isTerminating => \A h \in issued : heard[h] \in Final \/ h \in forgiven

\* A step that a user sees as one of Completion, or not at all
Kept == [Promise!Next]_(Promise!vars)

Accounted == Accounts' /\ Kept

Preserved == IndInv' /\ Kept

\* A terminating session may drop handlers, as all of them are excused.
LEMMA DroppedKept ==
    ASSUME IndInv, isTerminating,
           UNCHANGED << heard, issued, forgiven, isTerminating >>,
           \A h \in Handlers : Waiting(h)' => Waiting(h)
    PROVE  Kept
<1>1. Owed' \in SUBSET Owed
  BY DEF Owed
<1>2. Owed \subseteq forgiven
  BY DEF Owed, IndInv, HeldUnheard, TerminatingIdle, Final, Errors
<1>3. isTerminating' = TRUE
  BY DEF IndInv, TypeOK
<1>4. Promise!Terminate
  BY <1>1, <1>2, <1>3 DEF Promise!Terminate
<1> QED BY <1>4 DEF Kept, Promise!Next

\* A step that invokes no handler keeps the accounts if it keeps every handler
\* that waits; a terminating session may drop some.
LEMMA NoDelivery ==
    ASSUME IndInv,
           UNCHANGED << heard, issued, forgiven, isTerminating >>,
           \A h \in Handlers : Waiting(h)' => Waiting(h),
           isTerminating \/ \A h \in Handlers : Waiting(h) => Waiting(h)'
    PROVE  Accounted
<1>1. HeardOK' /\ HeldUnheard'
  BY DEF IndInv, TypeOK, HeardOK, HeldUnheard
<1>2. AtMostOnce' /\ NoLostHandler'
  BY DEF IndInv, TypeOK, AtMostOnce, NoLostHandler, TerminatingIdle
<1>3. isTerminating' => \A h \in issued' : heard'[h] \in Final \/ h \in forgiven'
  BY DEF IndInv, TerminatingIdle
<1>4. Kept
  <2>1. CASE \A h \in Handlers : Waiting(h) => Waiting(h)'
    <3>1. Owed' = Owed
      BY <2>1 DEF Owed
    <3> QED BY <3>1 DEF Kept, Promise!vars
  <2>2. CASE isTerminating
    BY <2>2, DroppedKept
  <2> QED BY <2>1, <2>2
<1> QED BY <1>1, <1>2, <1>3, <1>4 DEF Accounted, Accounts

\* A step that hands its final outcome to a handler that waits no more.
LEMMA Delivery ==
    ASSUME IndInv,
           UNCHANGED << issued, forgiven, isTerminating >>,
           NEW h0 \in Handlers, NEW outcome \in Final,
           Waiting(h0), ~Waiting(h0)',
           InvokeUserHandler(h0, outcome),
           \A h \in Handlers : Waiting(h)' => Waiting(h),
           isTerminating \/ \A h \in Handlers \ {h0} : Waiting(h) => Waiting(h)'
    PROVE  Accounted
<1>1. heard[h0] \in {"none", "progress"}
  BY DEF IndInv, HeldUnheard
<1>2. heard' = IF isTerminating THEN heard ELSE [heard EXCEPT ![h0] = outcome]
  BY <1>1 DEF InvokeUserHandler, Heard, Final, Errors
<1>3. "misfire" \notin Final /\ "none" \notin Final /\ "progress" \notin Final
  BY DEF Final, Errors
<1>4. HeardOK'
  BY <1>2 DEF IndInv, TypeOK, HeardOK
<1>5. HeldUnheard'
  BY <1>2 DEF IndInv, TypeOK, HeldUnheard
<1>6. AtMostOnce'
  BY <1>2, <1>3 DEF IndInv, TypeOK, AtMostOnce
<1>7. NoLostHandler'
  BY <1>2 DEF IndInv, TypeOK, NoLostHandler, TerminatingIdle
<1>8. isTerminating' => \A h \in issued' : heard'[h] \in Final \/ h \in forgiven'
  BY <1>2 DEF IndInv, TerminatingIdle
<1>9. Kept
  <2>1. CASE isTerminating
    <3>1. UNCHANGED heard
      BY <1>2, <2>1
    <3> QED BY <2>1, <3>1, DroppedKept
  <2>2. CASE ~isTerminating
    <3>1. Owed' = Owed \ {h0} /\ h0 \in Owed
      BY <2>2 DEF Owed
    <3>2. heard[h0] \notin Final
      BY <1>1, <1>3
    <3>3. Promise!Complete(h0, outcome)
      BY <1>2, <2>2, <3>1, <3>2 DEF Promise!Complete
    <3> QED BY <3>3 DEF Kept, Promise!Next
  <2> QED BY <2>1, <2>2
<1> QED BY <1>4, <1>5, <1>6, <1>7, <1>8, <1>9 DEF Accounted, Accounts

\* An accepted user operation: its handler starts to wait.
LEMMA Acceptance ==
    ASSUME IndInv, NEW h0 \in Handlers, Issue(h0),
           UNCHANGED << heard, forgiven >>, ~isTerminating',
           isTerminating => \A h \in Handlers : Waiting(h) => Waiting(h)',
           \A h \in Handlers : Waiting(h)' <=> (Waiting(h) \/ h = h0)
    PROVE  Accounted
<1>1. HeardOK' /\ HeldUnheard'
  BY DEF IndInv, TypeOK, HeardOK, HeldUnheard, Issue
<1>2. AtMostOnce' /\ NoLostHandler'
  BY DEF IndInv, TypeOK, AtMostOnce, NoLostHandler, Issue
<1>3. Owed' = Owed \cup {h0}
  BY DEF Owed
<1>4. isTerminating' = FALSE
  BY DEF TypeOK
<1>5. Promise!Take(h0)
  BY <1>3, <1>4 DEF Promise!Take, Issue
<1>6. Kept
  BY <1>5 DEF Kept, Promise!Next
<1> QED BY <1>1, <1>2, <1>6 DEF Accounted, Accounts

\* The invariant holds again when the accounts, the types and the places do.
LEMMA Assemble ==
    ASSUME Accounted, HeldOnce', TypeOK',
           isTerminating' => state' \in {"disconnected", "failed"}
    PROVE  Preserved
BY DEF Accounted, Preserved, Accounts, IndInv, TerminatingIdle

-----------------------------------------------------------------------------
(* Taking a task off the strand *)

\* What remains of the strand once its first task is taken
LEMMA RunTask ==
    ASSUME IndInv, strand # << >>
    PROVE  /\ Tail(strand) \in Seq(Tasks)
           /\ Distinct(Tail(strand))
           /\ TaskHandlers(Tail(strand)) = TaskHandlers(strand) \ {Head(strand).handler}
           /\ Head(strand) \in Tasks
           /\ Head(strand).handler # NoHandler =>
                Head(strand).handler \in TaskHandlers(strand)
           /\ Head(strand).task \in {"rx", "rxError"} =>
                TaskHandlers(Tail(strand)) = TaskHandlers(strand)
<1>1. strand \in Seq(Tasks) /\ Distinct(strand)
  BY DEF IndInv, TypeOK, HeldOnce
<1>2. Head(strand) \in Tasks
  BY <1>1, TailLemma
<1>3. NoHandler \notin TaskHandlers(strand)
  BY DEF TaskHandlers
<1>4. Head(strand).task \in {"rx", "rxError"} => Head(strand).handler = NoHandler
  BY <1>2, TaskLemma
<1>5. TaskHandlers(Tail(strand)) = TaskHandlers(strand) \ {Head(strand).handler}
  BY <1>1, TailLemma
<1>6. Head(strand).task \in {"rx", "rxError"} =>
          TaskHandlers(Tail(strand)) = TaskHandlers(strand)
  BY <1>3, <1>4, <1>5
<1> QED BY <1>1, <1>2, <1>5, <1>6, TailLemma

\* A postponed handler runs.
LEMMA RunPostedInv ==
    ASSUME IndInv, strand # << >>, RunPosted(Head(strand), Tail(strand))
    PROVE  Preserved
<1> DEFINE t == Head(strand)
<1>1. /\ Tail(strand) \in Seq(Tasks)
      /\ Distinct(Tail(strand))
      /\ TaskHandlers(Tail(strand)) = TaskHandlers(strand) \ {t.handler}
      /\ t \in Tasks
      /\ t.handler # NoHandler => t.handler \in TaskHandlers(strand)
  BY RunTask
<1>2. /\ t.handler \in Handlers
      /\ t.handler \in TaskHandlers(strand)
      /\ t.arg \in Final
  BY <1>1, TaskLemma, HandlersAssumption DEF RunPosted, Final
<1> HIDE DEF t
<1>3. /\ strand' = Tail(strand)
      /\ InvokeUserHandler(t.handler, t.arg)
      /\ UNCHANGED << state, isTerminating, transport, oneShot, multiShot,
                      nextRequestId, attempts, connector, issued, forgiven >>
  BY DEF RunPosted, t
<1>4. HeldOnce'
  BY <1>1, <1>3 DEF IndInv, HeldOnce, Injective, Held
<1>5. /\ \A h \in Handlers : Waiting(h)' <=> (Waiting(h) /\ h # t.handler)
      /\ Waiting(t.handler)
  BY <1>1, <1>2, <1>3 DEF Waiting, IndInv, HeldOnce, Held
<1>6. Accounted
  BY <1>2, <1>3, <1>5, Delivery
<1>7. TypeOK'
  BY <1>1, <1>3, <1>6 DEF Accounted, Accounts, HeardOK, IndInv, TypeOK, IsMap, Held
<1> QED BY <1>3, <1>4, <1>6, <1>7, Assemble DEF IndInv, TerminatingIdle

\* The Established functor of doConnect runs.
LEMMA RunConnectedInv ==
    ASSUME IndInv, strand # << >>, RunConnected(Head(strand), Tail(strand))
    PROVE  Preserved
<1> DEFINE t == Head(strand)
           h0 == t.handler
           index == t.arg[1]
           result == t.arg[2]
<1>1. /\ Tail(strand) \in Seq(Tasks)
      /\ Distinct(Tail(strand))
      /\ TaskHandlers(Tail(strand)) = TaskHandlers(strand) \ {h0}
      /\ t \in Tasks
  BY RunTask
<1>2. /\ h0 \in Handlers
      /\ h0 \in TaskHandlers(strand)
      /\ index \in 1 .. Wishes
  BY <1>1, RunTask, TaskLemma, HandlersAssumption DEF RunConnected
<1>3. /\ strand' = Tail(strand)
      /\ UNCHANGED << isTerminating, oneShot, multiShot, nextRequestId, issued, forgiven >>
  BY DEF RunConnected
<1>4. Waiting(h0)
  BY <1>2 DEF Waiting
<1>5. /\ IsMap(oneShot)' /\ IsMap(multiShot)'
      /\ nextRequestId' \in 0 .. MaxRequestId
      /\ strand' \in Seq(Tasks)
      /\ forgiven' \subseteq issued' /\ issued' \subseteq Handlers
  BY <1>1, <1>3 DEF IndInv, TypeOK, IsMap, Held
<1>6. CASE attempts' = attempts
  <2>1. HeldOnce'
    BY <1>1, <1>3, <1>6 DEF IndInv, HeldOnce, Injective, Held
  <2>2. \A h \in Handlers : Waiting(h)' <=> (Waiting(h) /\ h # h0)
    BY <1>1, <1>2, <1>3, <1>6 DEF Waiting, IndInv, HeldOnce, Held
  <2>3. CASE isTerminating
    <3>1. UNCHANGED << state, transport, attempts, connector, heard >>
      BY <2>3 DEF RunConnected
    <3>2. Accounted
      BY <1>3, <2>2, <2>3, <3>1, NoDelivery
    <3>3. TypeOK'
      BY <1>5, <3>1, <3>2, <1>3 DEF IndInv, TypeOK, Accounted, Accounts, HeardOK
    <3> QED BY <1>3, <2>1, <3>1, <3>2, <3>3, Assemble DEF IndInv, TerminatingIdle
  <2>4. CASE ~isTerminating
    <3>1. PICK outcome \in Final : InvokeUserHandler(h0, outcome)
      <4>1. \E outcome \in {"aborted", "connectFailed", "connected"} :
               InvokeUserHandler(h0, outcome)
        <5>1. ~DoConnect(h0, index + 1)
          <6>1. SUFFICES ASSUME DoConnect(h0, index + 1) PROVE FALSE
            OBVIOUS
          <6> DEFINE a0 == [handler |-> h0, index |-> index + 1, cancelled |-> FALSE]
          <6>2. a0 \in attempts /\ a0.handler = h0
            BY <1>6, <6>1 DEF DoConnect
          <6> HIDE DEF a0
          <6>3. h0 \in AttemptHandlers(attempts)
            BY <6>2 DEF AttemptHandlers
          <6> QED BY <1>2, <6>3 DEF IndInv, HeldOnce
        <5>2. \/ DoConnect(h0, index + 1)
              \/ InvokeUserHandler(h0, "aborted")
              \/ InvokeUserHandler(h0, "connectFailed")
              \/ InvokeUserHandler(h0, "connected")
          BY <2>4 DEF RunConnected
        <5> HIDE DEF h0, index
        <5> QED BY <5>1, <5>2
      <4> QED BY <4>1 DEF Final, Errors
    <3>2. Accounted
      BY <1>2, <1>3, <1>4, <2>2, <3>1, Delivery
    <3>3. /\ state' \in SessionState
          /\ transport' \in {"none", "idle", "started", "broken"}
          /\ connector' \in Handlers \cup {NoHandler}
      BY <1>2, <2>4 DEF IndInv, TypeOK, RunConnected, SessionState, DoConnect
    <3>4. TypeOK'
      BY <1>5, <1>6, <1>3, <3>2, <3>3 DEF IndInv, TypeOK, Accounted, Accounts, HeardOK
    <3> QED BY <1>3, <2>1, <2>4, <3>2, <3>4, Assemble
  <2> QED BY <2>3, <2>4
<1>7. CASE attempts' # attempts
  <2>1. /\ ~isTerminating
        /\ index < Wishes
        /\ DoConnect(h0, index + 1)
        /\ UNCHANGED << state, transport, heard >>
    BY <1>7 DEF RunConnected
  <2> DEFINE a0 == [handler |-> h0, index |-> index + 1, cancelled |-> FALSE]
  <2>2. attempts' = attempts \cup {a0} /\ connector' = h0
    BY <2>1 DEF DoConnect
  <2>3. a0 \in [handler : Handlers, index : 1 .. Wishes, cancelled : BOOLEAN]
    BY <1>2, <2>1, BoundsAssumption
  <2>4. a0.handler = h0
    OBVIOUS
  <2> HIDE DEF a0
  <2>5. AttemptHandlers(attempts') = AttemptHandlers(attempts) \cup {h0}
    BY <2>2, <2>4 DEF AttemptHandlers
  <2>6. h0 \notin AttemptHandlers(attempts) /\ h0 \notin Held(oneShot) \cup Held(multiShot)
    BY <1>2 DEF IndInv, HeldOnce
  <2>7. \A a, b \in attempts' : a.handler = b.handler => a = b
    BY <2>2, <2>4, <2>6 DEF IndInv, HeldOnce, AttemptHandlers
  <2>8. HeldOnce'
    BY <1>1, <1>3, <2>5, <2>6, <2>7 DEF IndInv, HeldOnce, Injective, Held
  <2>9. \A h \in Handlers : Waiting(h)' <=> Waiting(h)
    BY <1>1, <1>2, <1>3, <2>5 DEF Waiting, Held
  <2>10. Accounted
    BY <1>3, <2>1, <2>9, NoDelivery
  <2>11. TypeOK'
    BY <1>2, <1>3, <1>5, <2>1, <2>2, <2>3, <2>10 DEF IndInv, TypeOK, Accounted, Accounts, HeardOK
  <2> QED BY <1>3, <2>1, <2>8, <2>10, <2>11, Assemble
<1> QED BY <1>6, <1>7

-----------------------------------------------------------------------------
(* Ending a session *)

\* Peer::abortPending moves every pending handler to the strand, or drops them.
LEMMA AbortPendingLemma ==
    ASSUME IndInv, NEW err \in Errors, NEW terminating \in BOOLEAN,
           NEW q \in Seq(Tasks), Distinct(q), TaskHandlers(q) = TaskHandlers(strand),
           AbortPending(err, terminating, q)
    PROVE  /\ strand' \in Seq(Tasks)
           /\ Distinct(strand')
           /\ IsMap(oneShot') /\ Injective(oneShot') /\ Held(oneShot') = {}
           /\ IsMap(multiShot') /\ Injective(multiShot') /\ Held(multiShot') = {}
           /\ terminating => TaskHandlers(strand') = TaskHandlers(strand)
           /\ ~terminating => TaskHandlers(strand') =
                TaskHandlers(strand) \cup Held(oneShot) \cup Held(multiShot)
<1>1. oneShot' = << >> /\ multiShot' = << >>
  BY DEF AbortPending
<1>2. CASE terminating
  BY <1>1, <1>2, EmptyMapLemma DEF AbortPending
<1>3. CASE ~terminating
  <2> DEFINE p == PostAll(Held(oneShot), err)
             r == PostAll(Held(multiShot), err)
  <2>1. /\ p \in Seq(Tasks) /\ Distinct(p) /\ TaskHandlers(p) = Held(oneShot)
        /\ r \in Seq(Tasks) /\ Distinct(r) /\ TaskHandlers(r) = Held(multiShot)
    BY PostAllLemma, WaitingLemma DEF IndInv
  <2>2. strand' = (q \o p) \o r
    BY <1>3 DEF AbortPending
  <2> HIDE DEF p, r
  <2>3. /\ q \o p \in Seq(Tasks) /\ Distinct(q \o p)
        /\ TaskHandlers(q \o p) = TaskHandlers(strand) \cup Held(oneShot)
    <3>1. TaskHandlers(q) \cap TaskHandlers(p) = {}
      BY <2>1 DEF IndInv, HeldOnce
    <3> QED BY <2>1, <3>1, ConcatLemma
  <2>4. /\ strand' \in Seq(Tasks) /\ Distinct(strand')
        /\ TaskHandlers(strand') = TaskHandlers(strand) \cup Held(oneShot) \cup Held(multiShot)
    <3>1. TaskHandlers(q \o p) \cap TaskHandlers(r) = {}
      BY <2>1, <2>3 DEF IndInv, HeldOnce
    <3> QED BY <2>1, <2>2, <2>3, <3>1, ConcatLemma, ZenonT(40)
  <2> QED BY <1>1, <1>3, <2>4, EmptyMapLemma
<1> QED BY <1>2, <1>3

\* An ended session's handlers are in their right places.
LEMMA AbortedPlaces ==
    ASSUME IndInv, NEW err \in Errors,
           NEW q \in Seq(Tasks), Distinct(q), TaskHandlers(q) = TaskHandlers(strand),
           AbortPending(err, isTerminating, q),
           UNCHANGED << attempts, isTerminating, issued, heard, forgiven >>
    PROVE  /\ HeldOnce'
           /\ Accounted
           /\ strand' \in Seq(Tasks) /\ IsMap(oneShot') /\ IsMap(multiShot')
<1>1. isTerminating \in BOOLEAN
  BY DEF IndInv, TypeOK
<1>2. /\ strand' \in Seq(Tasks)
      /\ Distinct(strand')
      /\ IsMap(oneShot') /\ Injective(oneShot') /\ Held(oneShot') = {}
      /\ IsMap(multiShot') /\ Injective(multiShot') /\ Held(multiShot') = {}
      /\ isTerminating => TaskHandlers(strand') = TaskHandlers(strand)
      /\ ~isTerminating => TaskHandlers(strand') =
            TaskHandlers(strand) \cup Held(oneShot) \cup Held(multiShot)
  BY <1>1, AbortPendingLemma
<1>3. HeldOnce'
  BY <1>2 DEF IndInv, HeldOnce
<1>4. /\ \A h \in Handlers : Waiting(h)' => Waiting(h)
      /\ isTerminating \/ \A h \in Handlers : Waiting(h) => Waiting(h)'
  BY <1>1, <1>2 DEF Waiting
<1>5. Accounted
  BY <1>4, NoDelivery
<1> QED BY <1>2, <1>3, <1>5

\* Peer::fail.
LEMMA FailInv ==
    ASSUME IndInv, NEW q \in Seq(Tasks), Distinct(q),
           TaskHandlers(q) = TaskHandlers(strand),
           Fail(q),
           UNCHANGED << isTerminating, nextRequestId, attempts, connector, issued,
                        heard, forgiven >>
    PROVE  Preserved
<1>1. state' = "failed"
  BY DEF Fail
<1>2. /\ HeldOnce' /\ Accounted
      /\ strand' \in Seq(Tasks) /\ IsMap(oneShot') /\ IsMap(multiShot')
      /\ transport' \in {"none", "idle", "started", "broken"}
  <2>1. CASE state = "failed"
    <3>1. strand' = q /\ UNCHANGED << transport, oneShot, multiShot >>
      BY <2>1 DEF Fail
    <3>2. HeldOnce'
      BY <3>1 DEF IndInv, HeldOnce, Injective, Held
    <3>3. \A h \in Handlers : Waiting(h)' <=> Waiting(h)
      BY <3>1 DEF Waiting, Held
    <3>4. Accounted
      BY <3>3, NoDelivery
    <3> QED BY <3>1, <3>2, <3>4 DEF IndInv, TypeOK
  <2>2. CASE state # "failed"
    <3>1. AbortPending("failure", isTerminating, q) /\ transport' = "none"
      BY <2>2 DEF Fail
    <3>2. "failure" \in Errors
      BY DEF Errors
    <3> QED BY <3>1, <3>2, AbortedPlaces
  <2> QED BY <2>1, <2>2
<1>3. TypeOK'
  BY <1>1, <1>2 DEF IndInv, TypeOK, Accounted, Accounts, HeardOK, SessionState
<1> QED BY <1>1, <1>2, <1>3, Assemble

\* disconnect() and terminate().
LEMMA DisconnectInv ==
    ASSUME IndInv, NEW terminating \in BOOLEAN, DoDisconnect(terminating),
           \/ terminating = isTerminating /\ UNCHANGED forgiven
           \/ terminating /\ forgiven' = forgiven \cup { h \in issued : heard[h] \notin Final }
    PROVE  Preserved
<1> DEFINE c(a) == IF state = "connecting" /\ a.handler = connector
                     THEN [a EXCEPT !.cancelled = TRUE] ELSE a
           Attempt == [handler : Handlers, index : 1 .. Wishes, cancelled : BOOLEAN]
<1>1. /\ attempts' = { c(a) : a \in attempts }
      /\ state' = "disconnected" /\ transport' = "none"
      /\ AbortPending("sessionEnded", terminating, strand)
      /\ isTerminating' = terminating
      /\ UNCHANGED << nextRequestId, connector, issued, heard >>
  BY DEF DoDisconnect
<1>2. attempts \subseteq Attempt
  BY DEF IndInv, TypeOK
<1>3. \A a \in Attempt : c(a) \in Attempt /\ c(a).handler = a.handler
  OBVIOUS
<1> HIDE DEF c
<1>4. /\ attempts' \subseteq Attempt
      /\ AttemptHandlers(attempts') = AttemptHandlers(attempts)
      /\ \A a, b \in attempts' : a.handler = b.handler => a = b
  BY <1>1, <1>2, <1>3 DEF AttemptHandlers, IndInv, HeldOnce
<1>5. strand \in Seq(Tasks) /\ Distinct(strand) /\ "sessionEnded" \in Errors
  BY DEF IndInv, TypeOK, HeldOnce, Errors
<1>6. /\ strand' \in Seq(Tasks)
      /\ Distinct(strand')
      /\ IsMap(oneShot') /\ Injective(oneShot') /\ Held(oneShot') = {}
      /\ IsMap(multiShot') /\ Injective(multiShot') /\ Held(multiShot') = {}
      /\ terminating => TaskHandlers(strand') = TaskHandlers(strand)
      /\ ~terminating => TaskHandlers(strand') =
            TaskHandlers(strand) \cup Held(oneShot) \cup Held(multiShot)
  BY <1>1, <1>5, AbortPendingLemma
<1>7. HeldOnce'
  BY <1>4, <1>6 DEF IndInv, HeldOnce
<1>8. /\ \A h \in Handlers : Waiting(h)' => Waiting(h)
      /\ terminating \/ \A h \in Handlers : Waiting(h) => Waiting(h)'
  BY <1>4, <1>6 DEF Waiting
<1>9. forgiven \subseteq forgiven' /\ forgiven' \subseteq issued'
  BY <1>1 DEF IndInv, TypeOK
<1>10. terminating => \A h \in issued : heard[h] \in Final \/ h \in forgiven'
  BY DEF IndInv, TerminatingIdle
<1>11. Accounted
  <2>1. HeardOK' /\ HeldUnheard' /\ AtMostOnce'
    BY <1>1, <1>8 DEF IndInv, TypeOK, HeardOK, HeldUnheard, AtMostOnce
  <2>2. NoLostHandler'
    BY <1>1, <1>8, <1>9, <1>10 DEF IndInv, TypeOK, NoLostHandler
  <2>3. Kept
    <3>1. CASE terminating
      <4>1. Owed' \in SUBSET Owed
        BY <1>8 DEF Owed
      <4>2. \A h \in Owed : h \in issued /\ heard[h] \notin Final
        BY DEF Owed, IndInv, HeldUnheard, Final, Errors
      <4>3. \A h \in issued : heard[h] \in Final \/ h \in forgiven \/ h \in Owed
        BY DEF Owed, IndInv, TypeOK, NoLostHandler
      <4>4. forgiven' = forgiven \cup Owed
        BY <3>1, <4>2, <4>3 DEF IndInv, TerminatingIdle
      <4>5. Promise!Terminate
        BY <1>1, <3>1, <4>1, <4>4 DEF Promise!Terminate
      <4> QED BY <4>5 DEF Kept, Promise!Next
    <3>2. CASE ~terminating
      <4>1. Owed' = Owed
        BY <1>8, <3>2 DEF Owed
      <4> QED BY <1>1, <3>2, <4>1 DEF Kept, Promise!vars
    <3> QED BY <3>1, <3>2
  <2> QED BY <1>1, <1>10, <2>1, <2>2, <2>3 DEF Accounted, Accounts
<1>12. TypeOK'
  BY <1>1, <1>4, <1>6, <1>9, <1>11 DEF IndInv, TypeOK, Accounted, Accounts, HeardOK, SessionState
<1> QED BY <1>1, <1>7, <1>11, <1>12, Assemble

-----------------------------------------------------------------------------
(* Received messages *)

\* Peer::processWampReply, whatever the message does to the state.
LEMMA ReplyInv ==
    ASSUME IndInv, NEW q \in Seq(Tasks), Distinct(q),
           TaskHandlers(q) = TaskHandlers(strand),
           NEW key, NEW progressive,
           ProcessWampReply(key, progressive),
           strand' = q, state \in ReadyToReceive, state' \in SessionState,
           UNCHANGED << isTerminating, transport, nextRequestId, attempts, connector,
                        issued, forgiven >>
    PROVE  Preserved
<1>1. ~isTerminating /\ ~isTerminating'
  BY DEF IndInv, TerminatingIdle, ReadyToReceive
<1>2. /\ IsMap(oneShot) /\ Injective(oneShot)
      /\ IsMap(multiShot) /\ Injective(multiShot)
  BY DEF IndInv, TypeOK, HeldOnce
<1>3. Accounted /\ HeldOnce' /\ IsMap(oneShot') /\ IsMap(multiShot')
  <2>1. CASE key \in DOMAIN oneShot
    <3> DEFINE h0 == oneShot[key]
    <3>1. /\ oneShot' = Without(oneShot, key)
          /\ InvokeUserHandler(h0, "reply")
          /\ UNCHANGED multiShot
      BY <2>1 DEF ProcessWampReply
    <3>2. /\ IsMap(oneShot') /\ Injective(oneShot')
          /\ Held(oneShot') = Held(oneShot) \ {h0}
          /\ h0 \in Held(oneShot) /\ h0 \in Handlers
      BY <1>2, <2>1, <3>1, WithoutLemma
    <3> HIDE DEF h0
    <3>3. HeldOnce'
      BY <3>1, <3>2 DEF IndInv, HeldOnce
    <3>4. /\ Waiting(h0)
          /\ \A h \in Handlers : Waiting(h)' <=> (Waiting(h) /\ h # h0)
      BY <3>1, <3>2 DEF Waiting, IndInv, HeldOnce
    <3>5. "reply" \in Final
      BY DEF Final
    <3>6. Accounted
      BY <3>1, <3>2, <3>4, <3>5, Delivery
    <3> QED BY <1>2, <3>1, <3>2, <3>3, <3>6
  <2>2. CASE key \in DOMAIN multiShot \ DOMAIN oneShot /\ ~progressive
    <3> DEFINE h0 == multiShot[key]
    <3>1. /\ multiShot' = Without(multiShot, key)
          /\ InvokeUserHandler(h0, "reply")
          /\ UNCHANGED oneShot
      BY <2>2 DEF ProcessWampReply
    <3>2. /\ IsMap(multiShot') /\ Injective(multiShot')
          /\ Held(multiShot') = Held(multiShot) \ {h0}
          /\ h0 \in Held(multiShot) /\ h0 \in Handlers
      BY <1>2, <2>2, <3>1, WithoutLemma
    <3> HIDE DEF h0
    <3>3. HeldOnce'
      BY <3>1, <3>2 DEF IndInv, HeldOnce
    <3>4. /\ Waiting(h0)
          /\ \A h \in Handlers : Waiting(h)' <=> (Waiting(h) /\ h # h0)
      BY <3>1, <3>2 DEF Waiting, IndInv, HeldOnce
    <3>5. "reply" \in Final
      BY DEF Final
    <3>6. Accounted
      BY <3>1, <3>2, <3>4, <3>5, Delivery
    <3> QED BY <1>2, <3>1, <3>2, <3>3, <3>6
  <2>3. CASE key \in DOMAIN multiShot \ DOMAIN oneShot /\ progressive
    <3> DEFINE h0 == multiShot[key]
    <3>1. /\ UNCHANGED << oneShot, multiShot >>
          /\ InvokeUserHandler(h0, "progress")
      BY <2>3 DEF ProcessWampReply
    <3>2. h0 \in Held(multiShot) /\ h0 \in Handlers
      BY <1>2, <2>3, WithoutLemma
    <3> HIDE DEF h0
    <3>3. HeldOnce'
      BY <3>1 DEF IndInv, HeldOnce
    <3>4. Waiting(h0) /\ \A h \in Handlers : Waiting(h)' <=> Waiting(h)
      BY <3>1, <3>2 DEF Waiting
    <3>5. heard[h0] \in {"none", "progress"}
      BY <3>2, <3>4 DEF IndInv, HeldUnheard
    <3>6. heard' = [heard EXCEPT ![h0] = "progress"]
      BY <1>1, <3>1, <3>5 DEF InvokeUserHandler, Heard, Final, Errors
    <3>7. HeardOK' /\ HeldUnheard' /\ AtMostOnce'
      BY <3>2, <3>4, <3>6 DEF IndInv, TypeOK, HeardOK, HeldUnheard, AtMostOnce
    <3>8. NoLostHandler'
      BY <3>2, <3>4, <3>6 DEF IndInv, TypeOK, NoLostHandler
    <3>9. Kept
      <4>1. Owed' = Owed /\ h0 \in Owed
        BY <3>2, <3>4 DEF Owed
      <4>2. heard[h0] \notin Final
        BY <3>5 DEF Final, Errors
      <4>3. Promise!Advance(h0)
        BY <1>1, <3>6, <4>1, <4>2 DEF Promise!Advance
      <4> QED BY <3>2, <4>3 DEF Kept, Promise!Next
    <3> QED BY <1>1, <1>2, <3>1, <3>3, <3>7, <3>8, <3>9 DEF Accounted, Accounts
  <2>4. CASE key \notin DOMAIN oneShot \cup DOMAIN multiShot
    <3>1. UNCHANGED << oneShot, multiShot, heard >>
      BY <2>4 DEF ProcessWampReply
    <3>2. HeldOnce'
      BY <3>1 DEF IndInv, HeldOnce
    <3>3. \A h \in Handlers : Waiting(h)' <=> Waiting(h)
      BY <3>1 DEF Waiting
    <3>4. Accounted
      BY <3>1, <3>3, NoDelivery
    <3> QED BY <1>2, <3>1, <3>2, <3>4
  <2> QED BY <2>1, <2>2, <2>3, <2>4
<1>4. TypeOK'
  BY <1>3 DEF IndInv, TypeOK, Accounted, Accounts, HeardOK
<1> QED BY <1>1, <1>3, <1>4, Assemble

\* A step that only takes a message off the strand and sets the state.
LEMMA StateInv ==
    ASSUME IndInv, NEW q \in Seq(Tasks), Distinct(q),
           TaskHandlers(q) = TaskHandlers(strand), strand' = q,
           state' \in SessionState,
           transport' \in {"none", "idle", "started", "broken"},
           isTerminating => state' \in {"disconnected", "failed"},
           UNCHANGED << isTerminating, oneShot, multiShot, nextRequestId,
                        attempts, connector, issued, heard, forgiven >>
    PROVE  Preserved
<1>1. HeldOnce'
  BY DEF IndInv, HeldOnce
<1>2. \A h \in Handlers : Waiting(h)' <=> Waiting(h)
  BY DEF Waiting
<1>3. Accounted
  BY <1>2, NoDelivery
<1>4. TypeOK'
  BY <1>3 DEF IndInv, TypeOK, Accounted, Accounts, HeardOK
<1> QED BY <1>1, <1>3, <1>4, Assemble

\* Peer::processGoodbye.
LEMMA GoodbyeInv ==
    ASSUME IndInv, NEW t, NEW q \in Seq(Tasks), Distinct(q),
           TaskHandlers(q) = TaskHandlers(strand), RunRxGoodbye(t, q)
    PROVE  Preserved
<1> DEFINE key == <<"goodbye", 0>>
           rest == Without(oneShot, key)
           h0 == oneShot[key]
<1>1. /\ state' = "closed" /\ state \in ReadyToReceive
      /\ UNCHANGED << isTerminating, transport, nextRequestId, attempts, connector,
                      issued, forgiven >>
  BY DEF RunRxGoodbye, Unacceptable
<1>2. ~isTerminating /\ ~isTerminating'
  BY <1>1 DEF IndInv, TerminatingIdle, ReadyToReceive
<1>3. "closed" \in SessionState
  BY DEF SessionState
<1>4. CASE state = "shuttingDown" /\ key \in DOMAIN oneShot
  <2> DEFINE p == PostAll(Held(rest), "sessionEnded")
             r == PostAll(Held(multiShot), "sessionEnded")
  <2>1. /\ strand' = (q \o p) \o r
        /\ oneShot' = << >> /\ multiShot' = << >>
        /\ InvokeUserHandler(h0, "reply")
    BY <1>2, <1>4 DEF RunRxGoodbye
  <2>2. /\ Held(rest) = Held(oneShot) \ {h0}
        /\ h0 \in Held(oneShot) /\ h0 \in Handlers
    BY <1>4, WithoutLemma DEF IndInv, TypeOK, HeldOnce
  <2> HIDE DEF rest, h0
  <2>3. Held(rest) \subseteq Handlers /\ Held(multiShot) \subseteq Handlers
    BY <2>2, WaitingLemma DEF IndInv
  <2>4. "sessionEnded" \in Errors /\ "reply" \in Final
    BY DEF Errors, Final
  <2>5. /\ p \in Seq(Tasks) /\ Distinct(p) /\ TaskHandlers(p) = Held(rest)
        /\ r \in Seq(Tasks) /\ Distinct(r) /\ TaskHandlers(r) = Held(multiShot)
    BY <2>3, <2>4, PostAllLemma
  <2> HIDE DEF p, r
  <2>6. /\ q \o p \in Seq(Tasks) /\ Distinct(q \o p)
        /\ TaskHandlers(q \o p) = TaskHandlers(strand) \cup Held(rest)
    <3>1. TaskHandlers(q) \cap TaskHandlers(p) = {}
      BY <2>2, <2>5 DEF IndInv, HeldOnce
    <3> QED BY <2>5, <3>1, ConcatLemma
  <2>7. /\ strand' \in Seq(Tasks) /\ Distinct(strand')
        /\ TaskHandlers(strand') = TaskHandlers(strand) \cup Held(rest) \cup Held(multiShot)
    <3>1. TaskHandlers(q \o p) \cap TaskHandlers(r) = {}
      BY <2>2, <2>5, <2>6 DEF IndInv, HeldOnce
    <3> QED BY <2>1, <2>5, <2>6, <3>1, ConcatLemma, ZenonT(40)
  <2>8. /\ IsMap(oneShot') /\ Injective(oneShot') /\ Held(oneShot') = {}
        /\ IsMap(multiShot') /\ Injective(multiShot') /\ Held(multiShot') = {}
    BY <2>1, EmptyMapLemma
  <2>9. HeldOnce'
    BY <1>1, <2>2, <2>7, <2>8 DEF IndInv, HeldOnce
  <2>10. /\ Waiting(h0)
         /\ \A h \in Handlers : Waiting(h)' <=> (Waiting(h) /\ h # h0)
    BY <1>1, <2>2, <2>7, <2>8 DEF Waiting, IndInv, HeldOnce
  <2>11. Accounted
    BY <1>1, <2>1, <2>2, <2>4, <2>10, Delivery
  <2>12. TypeOK'
    BY <1>1, <1>3, <2>7, <2>8, <2>11 DEF IndInv, TypeOK, Accounted, Accounts, HeardOK
  <2> QED BY <1>2, <2>9, <2>11, <2>12, Assemble
<1>5. CASE state = "shuttingDown" /\ key \notin DOMAIN oneShot
  <2>1. strand' = q /\ UNCHANGED << oneShot, multiShot, heard >>
    BY <1>5 DEF RunRxGoodbye
  <2>2. transport' \in {"none", "idle", "started", "broken"}
    BY <1>1 DEF IndInv, TypeOK
  <2> QED BY <1>1, <1>2, <1>3, <2>1, <2>2, StateInv
<1>6. CASE state # "shuttingDown"
  <2>1. AbortPending("closeRealm", isTerminating, q) /\ UNCHANGED heard
    BY <1>6 DEF RunRxGoodbye
  <2>2. "closeRealm" \in Errors
    BY DEF Errors
  <2>3. /\ HeldOnce' /\ Accounted
        /\ strand' \in Seq(Tasks) /\ IsMap(oneShot') /\ IsMap(multiShot')
    BY <1>1, <2>1, <2>2, AbortedPlaces
  <2>4. TypeOK'
    BY <1>1, <1>3, <2>3 DEF IndInv, TypeOK, Accounted, Accounts, HeardOK
  <2> QED BY <1>2, <2>3, <2>4, Assemble
<1> QED BY <1>4, <1>5, <1>6

\* Every task that the strand runs.
LEMMA RunStrandInv ==
    ASSUME IndInv, RunStrand
    PROVE  Preserved
<1> DEFINE t == Head(strand)
           q == Tail(strand)
<1>1. strand # << >>
  BY DEF RunStrand
<1>2. /\ q \in Seq(Tasks) /\ Distinct(q)
      /\ t \in Tasks
      /\ t.task \in {"rx", "rxError"} => TaskHandlers(q) = TaskHandlers(strand)
  BY <1>1, RunTask
<1>5. /\ SessionState \cap {"closed", "established", "authenticating", "failed"}
           = {"closed", "established", "authenticating", "failed"}
      /\ state \in SessionState
      /\ transport \in {"none", "idle", "started", "broken"}
  BY DEF IndInv, TypeOK, SessionState
<1>6. CASE RunPosted(t, q)
  BY <1>1, <1>6, RunPostedInv
<1>7. CASE RunConnected(t, q)
  BY <1>1, <1>7, RunConnectedInv
<1> HIDE DEF t, q
<1>8. CASE RunRxError(t, q)
  <2>1. CASE state # "disconnected"
    BY <1>2, <1>8, <2>1, FailInv DEF RunRxError
  <2>2. CASE state = "disconnected"
    <3>1. /\ strand' = q
          /\ UNCHANGED << state, transport, oneShot, multiShot >>
          /\ UNCHANGED << isTerminating, nextRequestId, attempts, connector, issued,
                          heard, forgiven >>
          /\ t.task = "rxError"
      BY <1>8, <2>2 DEF RunRxError
    <3> QED BY <1>2, <1>5, <2>2, <3>1, StateInv
  <2> QED BY <2>1, <2>2
<1>9. CASE RunRxRejected(t, q)
  BY <1>2, <1>9, FailInv DEF RunRxRejected
<1>10. ASSUME t.task = "rx", ~Unacceptable(t.arg)
       PROVE  state \in ReadyToReceive /\ ~isTerminating
  BY <1>10 DEF Unacceptable, IndInv, TerminatingIdle, ReadyToReceive
<1>11. CASE RunRxReply(t, q)
  <2>1. /\ t.task = "rx" /\ ~Unacceptable(t.arg)
        /\ ProcessWampReply(t.arg.key, t.arg.isProgressive)
        /\ strand' = q
        /\ UNCHANGED << state, isTerminating, transport, nextRequestId, attempts,
                        connector, issued, forgiven >>
    BY <1>11 DEF RunRxReply
  <2> QED BY <1>2, <1>5, <1>10, <2>1, ReplyInv
<1>12. CASE RunRxInbound(t, q)
  <2>1. /\ t.task = "rx" /\ ~Unacceptable(t.arg)
        /\ state' \in {"authenticating", state}
        /\ strand' = q
        /\ UNCHANGED << isTerminating, transport, oneShot, multiShot, nextRequestId,
                        attempts, connector, issued, heard, forgiven >>
    BY <1>12 DEF RunRxInbound
  <2> QED BY <1>2, <1>5, <1>10, <2>1, StateInv
<1>13. CASE RunRxWelcome(t, q)
  <2>1. /\ t.task = "rx" /\ ~Unacceptable(t.arg)
        /\ state' = "established"
        /\ ProcessWampReply(<<"hello", 0>>, FALSE)
        /\ strand' = q
        /\ UNCHANGED << isTerminating, transport, nextRequestId, attempts,
                        connector, issued, forgiven >>
    BY <1>13 DEF RunRxWelcome
  <2> QED BY <1>2, <1>5, <1>10, <2>1, ReplyInv
<1>14. CASE RunRxAbort(t, q)
  <2>1. /\ t.task = "rx" /\ ~Unacceptable(t.arg)
        /\ UNCHANGED << isTerminating, nextRequestId, attempts, connector, issued,
                        forgiven >>
    BY <1>14 DEF RunRxAbort
  <2>2. CASE state \in {"establishing", "authenticating"}
    <3>1. /\ state' = "closed"
          /\ ProcessWampReply(<<"hello", 0>>, FALSE)
          /\ strand' = q
          /\ UNCHANGED transport
      BY <1>14, <2>2 DEF RunRxAbort
    <3> QED BY <1>2, <1>5, <1>10, <2>1, <3>1, ReplyInv
  <2>3. CASE state = "shuttingDown"
    <3>1. strand' = q /\ UNCHANGED << state, transport, oneShot, multiShot, heard >>
      BY <1>14, <2>3 DEF RunRxAbort
    <3> QED BY <1>2, <1>5, <1>10, <2>1, <3>1, StateInv
  <2>4. CASE state = "established"
    <3>1. Fail(q) /\ UNCHANGED heard
      BY <1>14, <2>4 DEF RunRxAbort
    <3> QED BY <1>2, <2>1, <3>1, FailInv
  <2> QED BY <1>14, <2>2, <2>3, <2>4 DEF RunRxAbort
<1>15. CASE RunRxGoodbye(t, q)
  <2>1. t.task = "rx"
    BY <1>15 DEF RunRxGoodbye
  <2> QED BY <1>2, <1>15, <2>1, GoodbyeInv
<1> QED BY <1>6, <1>7, <1>8, <1>9, <1>11, <1>12, <1>13, <1>14, <1>15 DEF RunStrand, t, q

-----------------------------------------------------------------------------
(* User operations *)

\* An operation that checkState rejects.
LEMMA RejectInv ==
    ASSUME IndInv, NEW h0 \in Handlers, Issue(h0), RejectOperation(h0)
    PROVE  Preserved
<1>1. /\ issued' = issued \cup {h0} /\ h0 \notin issued
      /\ forgiven' = IF isTerminating THEN forgiven \cup {h0} ELSE forgiven
      /\ UNCHANGED << state, isTerminating, transport, oneShot, multiShot,
                      nextRequestId, strand, attempts, connector >>
  BY DEF Issue, RejectOperation
<1>2. heard[h0] \in {"none", "progress"} /\ ~Waiting(h0)
  BY <1>1 DEF IndInv, HeldUnheard
<1>3. heard' = IF isTerminating THEN heard ELSE [heard EXCEPT ![h0] = "invalidState"]
  BY <1>2 DEF RejectOperation, InvokeUserHandler, Heard, Final, Errors
<1>4. "invalidState" \in Final /\ "misfire" \notin Final
  BY DEF Final, Errors
<1>5. \A h \in Handlers : Waiting(h)' <=> Waiting(h)
  BY <1>1 DEF Waiting
<1>6. HeldOnce'
  BY <1>1 DEF IndInv, HeldOnce
<1>7. HeardOK' /\ HeldUnheard'
  BY <1>1, <1>2, <1>3, <1>4, <1>5 DEF IndInv, TypeOK, HeardOK, HeldUnheard
<1>8. AtMostOnce'
  BY <1>3, <1>4 DEF IndInv, TypeOK, AtMostOnce
<1>9. NoLostHandler' /\ (isTerminating' => \A h \in issued' : heard'[h] \in Final \/ h \in forgiven')
  BY <1>1, <1>3, <1>4, <1>5 DEF IndInv, TypeOK, NoLostHandler, TerminatingIdle
<1>10. Accounted
  <2>1. Owed' = Owed
    BY <1>5 DEF Owed
  <2>2. isTerminating => Promise!Ignore(h0)
    BY <1>1, <1>3, <2>1 DEF Promise!Ignore
  <2>3. ~isTerminating => Promise!Refuse(h0)
    BY <1>1, <1>3, <2>1 DEF Promise!Refuse
  <2>4. Kept
    BY <2>2, <2>3 DEF Kept, Promise!Next
  <2> QED BY <1>7, <1>8, <1>9, <2>4 DEF Accounted, Accounts
<1>11. TypeOK'
  BY <1>1, <1>10 DEF IndInv, TypeOK, Accounted, Accounts, HeardOK
<1> QED BY <1>1, <1>6, <1>10, <1>11, Assemble DEF IndInv, TerminatingIdle

\* Peer::sendRequest puts a fresh handler in one place, and moves the handler
\* it displaces to the strand.
LEMMA SendRequestInv ==
    ASSUME IndInv, ~isTerminating, NEW h0 \in Handlers, Issue(h0),
           NEW type \in {"hello", "goodbye", "publish", "call"},
           NEW big \in BOOLEAN, NEW ongoing \in BOOLEAN,
           SendRequest(type, h0, big, ongoing),
           state' \in SessionState,
           transport' \in {"none", "idle", "started", "broken"},
           UNCHANGED << isTerminating, attempts, connector, heard, forgiven >>
    PROVE  Preserved
<1> DEFINE id == IF type \in hasRequestId THEN NextRequestId ELSE 0
           key == <<type, id>>
           map == IF ongoing THEN multiShot ELSE oneShot
           other == IF ongoing THEN oneShot ELSE multiShot
           map1 == IF ongoing THEN multiShot' ELSE oneShot'
           other1 == IF ongoing THEN oneShot' ELSE multiShot'
           tasks == TasksAfter(map, key, h0, big)
<1>1. id \in Nat /\ (type \in hasRequestId => id \in RequestId)
                 /\ (type \notin hasRequestId => id = 0)
  BY BoundsAssumption DEF IndInv, TypeOK, NextRequestId, RequestId
<1>2. key \in RequestKey
  BY <1>1 DEF RequestKey, hasRequestId
<1>3. nextRequestId' \in 0 .. MaxRequestId
  BY <1>1, BoundsAssumption DEF SendRequest, IndInv, TypeOK, RequestId
<1>4. /\ strand' = strand \o tasks
      /\ map1 = MapAfter(map, key, h0, big)
      /\ other1 = other
  BY DEF SendRequest
<1> HIDE DEF id
<1>5. /\ IsMap(map) /\ Injective(map) /\ IsMap(other) /\ Injective(other)
      /\ strand \in Seq(Tasks) /\ Distinct(strand)
  BY DEF IndInv, TypeOK, HeldOnce
<1>6. /\ Held(map) \cap Held(other) = {}
      /\ TaskHandlers(strand) \cap (Held(map) \cup Held(other)) = {}
      /\ AttemptHandlers(attempts) \cap (Held(map) \cup Held(other) \cup TaskHandlers(strand)) = {}
  BY DEF IndInv, HeldOnce
<1>7. \A h \in Handlers : Waiting(h) <=>
          h \in Held(map) \cup Held(other) \cup TaskHandlers(strand) \cup AttemptHandlers(attempts)
  BY DEF Waiting
<1>8. \A h \in Handlers : Waiting(h)' <=>
          h \in Held(map1) \cup Held(other1) \cup TaskHandlers(strand') \cup AttemptHandlers(attempts)
  BY DEF Waiting
<1>9. /\ IsMap(map1) /\ IsMap(other1) => IsMap(oneShot') /\ IsMap(multiShot')
      /\ Injective(map1) /\ Injective(other1) => Injective(oneShot') /\ Injective(multiShot')
      /\ Held(map1) \cup Held(other1) = Held(oneShot') \cup Held(multiShot')
      /\ Held(map1) \cap Held(other1) = Held(oneShot') \cap Held(multiShot')
  OBVIOUS
<1> HIDE DEF map, other, map1, other1, key
<1>10. ~Waiting(h0)
  BY DEF Issue, IndInv, HeldUnheard
<1>11. h0 \notin Held(map) \cup Held(other) \cup TaskHandlers(strand) \cup AttemptHandlers(attempts)
  BY <1>7, <1>10
<1>12. NoHandler \notin Handlers
  BY HandlersAssumption
<1>13. "payloadSizeExceeded" \in Errors /\ "cancelled" \in Errors
  BY DEF Errors
<1>14. /\ IsMap(map1) /\ Injective(map1)
       /\ strand' \in Seq(Tasks) /\ Distinct(strand')
       /\ Held(map1) \cap TaskHandlers(strand') = {}
       /\ Held(map1) \cup TaskHandlers(strand') = Held(map) \cup TaskHandlers(strand) \cup {h0}
       /\ Held(map1) \subseteq Held(map) \cup {h0}
  <2>1. CASE big
    <3>1. tasks = << PostedTask(h0, "payloadSizeExceeded") >> /\ map1 = map
      BY <1>4, <2>1 DEF TasksAfter, MapAfter
    <3>2. /\ strand' \in Seq(Tasks) /\ Distinct(strand')
          /\ TaskHandlers(strand') = TaskHandlers(strand) \cup {h0}
      <4> HIDE DEF tasks
      <4>1. strand' = Append(strand, PostedTask(h0, "payloadSizeExceeded"))
        BY <1>4, <1>5, <1>11, <1>13, <3>1, PostedLemma
      <4> QED BY <1>5, <1>11, <1>13, <4>1, PostedLemma
    <3> QED BY <1>5, <1>6, <1>11, <3>1, <3>2
  <2>2. CASE ~big /\ key \in DOMAIN map
    <3>1. /\ tasks = << PostedTask(map[key], "cancelled") >>
          /\ map1 = MapAfter(map, key, h0, FALSE)
      BY <1>4, <2>2 DEF TasksAfter
    <3>2. map[key] \in Held(map) /\ map[key] \in Handlers
      BY <1>5, <2>2 DEF Held, IsMap
    <3>3. /\ strand' \in Seq(Tasks) /\ Distinct(strand')
          /\ TaskHandlers(strand') = TaskHandlers(strand) \cup {map[key]}
      <4> HIDE DEF tasks
      <4>1. map[key] \notin TaskHandlers(strand)
        BY <1>6, <3>2
      <4>2. strand' = Append(strand, PostedTask(map[key], "cancelled"))
        BY <1>4, <1>5, <1>13, <3>1, <3>2, <4>1, PostedLemma
      <4> QED BY <1>5, <1>13, <3>2, <4>1, <4>2, PostedLemma
    <3>4. /\ IsMap(map1) /\ Injective(map1)
          /\ Held(map1) = (Held(map) \ {map[key]}) \cup {h0}
      <4>1. h0 \notin Held(map)
        BY <1>11
      <4>2. map1 = MapAfter(map, key, h0, FALSE)
        BY <3>1
      <4>3. IsMap(map) /\ Injective(map) /\ key \in DOMAIN map
        BY <1>5, <2>2
      <4>4. /\ IsMap(MapAfter(map, key, h0, FALSE))
            /\ Injective(MapAfter(map, key, h0, FALSE))
            /\ Held(MapAfter(map, key, h0, FALSE)) = (Held(map) \ {map[key]}) \cup {h0}
        BY ONLY <1>2, <4>1, <4>3, h0 \in Handlers, DisplaceLemma, ZenonT(40)
      <4> QED BY <4>2, <4>4
    <3> QED BY <1>6, <1>11, <3>2, <3>3, <3>4
  <2>3. CASE ~big /\ key \notin DOMAIN map
    <3>1. tasks = << >> /\ map1 = MapAfter(map, key, h0, FALSE)
      BY <1>4, <2>3 DEF TasksAfter
    <3>2. strand' = strand
      BY <1>4, <1>5, <3>1
    <3>3. /\ IsMap(map1) /\ Injective(map1)
          /\ Held(map1) = Held(map) \cup {h0}
      BY <1>2, <1>5, <1>11, <2>3, <3>1, EnterLemma
    <3> QED BY <1>5, <1>6, <1>11, <3>2, <3>3
  <2> QED BY <2>1, <2>2, <2>3
<1> HIDE DEF tasks
<1>15. Held(other1) = Held(other) /\ IsMap(other1) /\ Injective(other1)
  BY <1>4, <1>5
<1>16. /\ Held(map1) \cap Held(other1) = {}
       /\ TaskHandlers(strand') \cap (Held(map1) \cup Held(other1)) = {}
       /\ AttemptHandlers(attempts) \cap (Held(map1) \cup Held(other1) \cup TaskHandlers(strand')) = {}
  BY <1>6, <1>11, <1>14, <1>15
<1>17. HeldOnce'
  BY <1>9, <1>14, <1>15, <1>16 DEF IndInv, HeldOnce
<1>18. \A h \in Handlers : Waiting(h)' <=> (Waiting(h) \/ h = h0)
  BY <1>7, <1>8, <1>14, <1>15
<1>19. Accounted
  BY <1>18, Acceptance
<1>20. TypeOK'
  BY <1>3, <1>9, <1>14, <1>15, <1>19 DEF IndInv, TypeOK, Accounted, Accounts, HeardOK, Issue
<1> QED BY <1>17, <1>19, <1>20, Assemble

\* Client::connect.
LEMMA ConnectInv ==
    ASSUME IndInv, NEW h0 \in Handlers, connect(h0)
    PROVE  Preserved
<1>1. CASE state # "disconnected"
  BY <1>1, RejectInv DEF connect
<1>2. CASE state = "disconnected"
  <2> DEFINE a0 == [handler |-> h0, index |-> 1, cancelled |-> FALSE]
  <2>1. /\ Issue(h0) /\ ~isTerminating' /\ isTerminating' \in BOOLEAN
        /\ state' = "connecting"
        /\ attempts' = attempts \cup {a0} /\ connector' = h0
        /\ UNCHANGED << transport, oneShot, multiShot, nextRequestId, strand,
                        heard, forgiven >>
    BY <1>2 DEF connect, DoConnect
  <2>2. /\ a0 \in [handler : Handlers, index : 1 .. Wishes, cancelled : BOOLEAN]
        /\ a0.handler = h0
    BY BoundsAssumption
  <2> HIDE DEF a0
  <2>3. AttemptHandlers(attempts') = AttemptHandlers(attempts) \cup {h0}
    BY <2>1, <2>2 DEF AttemptHandlers
  <2>4. ~Waiting(h0)
    BY <2>1 DEF Issue, IndInv, HeldUnheard
  <2>5. h0 \notin AttemptHandlers(attempts) \cup Held(oneShot) \cup Held(multiShot)
                    \cup TaskHandlers(strand)
    BY <2>4 DEF Waiting
  <2>6. \A a, b \in attempts' : a.handler = b.handler => a = b
    <3>1. \A a \in attempts : a.handler # h0
      BY <2>5 DEF AttemptHandlers
    <3>2. \A a, b \in attempts : a.handler = b.handler => a = b
      BY DEF IndInv, HeldOnce
    <3> QED BY <2>1, <2>2, <3>1, <3>2
  <2>7. HeldOnce'
    <3>1. AttemptHandlers(attempts) \cap
            (Held(oneShot) \cup Held(multiShot) \cup TaskHandlers(strand)) = {}
      BY DEF IndInv, HeldOnce
    <3>2. AttemptHandlers(attempts') \cap
            (Held(oneShot) \cup Held(multiShot) \cup TaskHandlers(strand)) = {}
      BY <2>3, <2>5, <3>1
    <3> QED BY <2>1, <2>6, <3>2 DEF IndInv, HeldOnce
  <2>8. \A h \in Handlers : Waiting(h)' <=> (Waiting(h) \/ h = h0)
    BY <2>1, <2>3 DEF Waiting
  <2>9. Accounted
    BY <2>1, <2>8, Acceptance
  <2>10. TypeOK'
    BY <2>1, <2>2, <2>9 DEF IndInv, TypeOK, Accounted, Accounts, HeardOK, Issue, SessionState
  <2> QED BY <2>1, <2>7, <2>9, <2>10, Assemble
<1> QED BY <1>1, <1>2

\* Peer::cancelCall.
LEMMA CancelInv ==
    ASSUME IndInv, NEW id, NEW mode, cancelCall(id, mode)
    PROVE  Preserved
<1> DEFINE key == <<"call", id>>
<1>1. /\ state = "established"
      /\ UNCHANGED << state, isTerminating, transport, nextRequestId, attempts,
                      connector, issued, heard, forgiven >>
  BY DEF cancelCall
<1>2. ~isTerminating
  BY <1>1 DEF IndInv, TerminatingIdle
<1>3. "cancelled" \in Errors
  BY DEF Errors
<1>4. /\ IsMap(oneShot) /\ Injective(oneShot)
      /\ IsMap(multiShot) /\ Injective(multiShot)
      /\ strand \in Seq(Tasks) /\ Distinct(strand)
  BY DEF IndInv, TypeOK, HeldOnce
<1>5. /\ HeldOnce'
      /\ strand' \in Seq(Tasks) /\ IsMap(oneShot') /\ IsMap(multiShot')
      /\ \A h \in Handlers : Waiting(h)' <=> Waiting(h)
  <2>1. CASE key \in DOMAIN oneShot
    <3> DEFINE h0 == oneShot[key]
    <3>1. /\ oneShot' = Without(oneShot, key) /\ multiShot' = multiShot
          /\ strand' = Append(strand, PostedTask(h0, "cancelled"))
      BY <2>1 DEF cancelCall
    <3>2. /\ IsMap(oneShot') /\ Injective(oneShot')
          /\ Held(oneShot') = Held(oneShot) \ {h0}
          /\ h0 \in Held(oneShot) /\ h0 \in Handlers
      BY <1>4, <2>1, <3>1, WithoutLemma
    <3> HIDE DEF h0
    <3>3. h0 \notin TaskHandlers(strand)
      BY <3>2 DEF IndInv, HeldOnce
    <3>4. /\ strand' \in Seq(Tasks) /\ Distinct(strand')
          /\ TaskHandlers(strand') = TaskHandlers(strand) \cup {h0}
      BY <1>3, <1>4, <3>1, <3>2, <3>3, PostedLemma
    <3>5. HeldOnce'
      <4>1. /\ Held(oneShot') \cap Held(multiShot') = {}
            /\ TaskHandlers(strand') \cap (Held(oneShot') \cup Held(multiShot')) = {}
            /\ AttemptHandlers(attempts') \cap
                 (Held(oneShot') \cup Held(multiShot') \cup TaskHandlers(strand')) = {}
        BY <1>1, <3>1, <3>2, <3>4 DEF IndInv, HeldOnce
      <4> QED BY <1>1, <1>4, <3>1, <3>2, <3>4, <4>1 DEF IndInv, HeldOnce
    <3>6. \A h \in Handlers : Waiting(h)' <=> Waiting(h)
      BY <1>1, <3>1, <3>2, <3>4 DEF Waiting
    <3> QED BY <1>4, <3>1, <3>2, <3>4, <3>5, <3>6
  <2>2. CASE key \in DOMAIN multiShot \ DOMAIN oneShot
    <3> DEFINE h0 == multiShot[key]
    <3>1. /\ multiShot' = Without(multiShot, key) /\ oneShot' = oneShot
          /\ strand' = Append(strand, PostedTask(h0, "cancelled"))
      BY <2>2 DEF cancelCall
    <3>2. /\ IsMap(multiShot') /\ Injective(multiShot')
          /\ Held(multiShot') = Held(multiShot) \ {h0}
          /\ h0 \in Held(multiShot) /\ h0 \in Handlers
      BY <1>4, <2>2, <3>1, WithoutLemma
    <3> HIDE DEF h0
    <3>3. h0 \notin TaskHandlers(strand)
      BY <3>2 DEF IndInv, HeldOnce
    <3>4. /\ strand' \in Seq(Tasks) /\ Distinct(strand')
          /\ TaskHandlers(strand') = TaskHandlers(strand) \cup {h0}
      BY <1>3, <1>4, <3>1, <3>2, <3>3, PostedLemma
    <3>5. HeldOnce'
      <4>1. /\ Held(oneShot') \cap Held(multiShot') = {}
            /\ TaskHandlers(strand') \cap (Held(oneShot') \cup Held(multiShot')) = {}
            /\ AttemptHandlers(attempts') \cap
                 (Held(oneShot') \cup Held(multiShot') \cup TaskHandlers(strand')) = {}
        BY <1>1, <3>1, <3>2, <3>4 DEF IndInv, HeldOnce
      <4> QED BY <1>1, <1>4, <3>1, <3>2, <3>4, <4>1 DEF IndInv, HeldOnce
    <3>6. \A h \in Handlers : Waiting(h)' <=> Waiting(h)
      BY <1>1, <3>1, <3>2, <3>4 DEF Waiting
    <3> QED BY <1>4, <3>1, <3>2, <3>4, <3>5, <3>6
  <2> QED BY <2>1, <2>2 DEF cancelCall
<1>6. Accounted
  BY <1>1, <1>5, NoDelivery
<1>7. TypeOK'
  BY <1>1, <1>5, <1>6 DEF IndInv, TypeOK, Accounted, Accounts, HeardOK
<1> QED BY <1>1, <1>2, <1>5, <1>6, <1>7, Assemble

\* Client::join, Client::leave and the requests of an established session.
LEMMA RequestsInv ==
    ASSUME IndInv, NEW h0 \in Handlers,
           \/ join(h0) \/ leave(h0) \/ publish(h0) \/ oneShotCall(h0) \/ ongoingCall(h0)
    PROVE  Preserved
<1>1. /\ state \in SessionState /\ transport \in {"none", "idle", "started", "broken"}
      /\ "establishing" \in SessionState /\ "shuttingDown" \in SessionState
      /\ state \in {"closed", "established"} => ~isTerminating
  BY DEF IndInv, TypeOK, TerminatingIdle, SessionState
<1>2. CASE join(h0)
  <2>1. CASE state # "closed"
    BY <1>2, <2>1, RejectInv DEF join
  <2>2. CASE state = "closed"
    <3>1. PICK big \in BOOLEAN : SendRequest("hello", h0, big, FALSE)
      BY <1>2, <2>2 DEF join
    <3>2. /\ Issue(h0) /\ state' = "establishing"
          /\ transport' \in {"none", "idle", "started", "broken"}
          /\ UNCHANGED << isTerminating, attempts, connector, heard, forgiven >>
      BY <1>1, <1>2, <2>2 DEF join
    <3> QED BY <1>1, <2>2, <3>1, <3>2, SendRequestInv
  <2> QED BY <2>1, <2>2
<1>3. CASE leave(h0)
  <2>1. CASE state # "established"
    BY <1>3, <2>1, RejectInv DEF leave
  <2>2. CASE state = "established"
    <3>1. PICK big \in BOOLEAN : SendRequest("goodbye", h0, big, FALSE)
      BY <1>3, <2>2 DEF leave
    <3>2. /\ Issue(h0) /\ state' = "shuttingDown" /\ transport' = transport
          /\ UNCHANGED << isTerminating, attempts, connector, heard, forgiven >>
      BY <1>3, <2>2 DEF leave
    <3> QED BY <1>1, <2>2, <3>1, <3>2, SendRequestInv
  <2> QED BY <2>1, <2>2
<1>4. ASSUME NEW type \in {"publish", "call"}, NEW ongoing \in BOOLEAN,
             DoRequest(type, h0, ongoing)
      PROVE  Preserved
  <2>1. CASE state # "established"
    BY <1>4, <2>1, RejectInv DEF DoRequest
  <2>2. CASE state = "established"
    <3>1. PICK big \in BOOLEAN : SendRequest(type, h0, big, ongoing)
      BY <1>4, <2>2 DEF DoRequest
    <3>2. /\ Issue(h0)
          /\ UNCHANGED << state, isTerminating, transport, attempts, connector,
                          heard, forgiven >>
      BY <1>4, <2>2 DEF DoRequest
    <3> QED BY <1>1, <2>2, <3>1, <3>2, SendRequestInv
  <2> QED BY <2>1, <2>2
<1> QED BY <1>2, <1>3, <1>4 DEF publish, oneShotCall, ongoingCall

-----------------------------------------------------------------------------
(* The I/O layer *)

\* A connector completes: its handler moves from the attempt to the strand.
LEMMA ConnectorInv ==
    ASSUME IndInv, NEW a \in attempts, NEW result \in {"ok", "error", "aborted"},
           ConnectorCompletes(a, result)
    PROVE  Preserved
<1> DEFINE t == ConnectedTask(a.handler, a.index, result)
           h0 == a.handler
<1>1. /\ attempts' = attempts \ {a}
      /\ strand' = Append(strand, t)
      /\ UNCHANGED << state, isTerminating, transport, oneShot, multiShot,
                      nextRequestId, connector, issued, heard, forgiven >>
  BY DEF ConnectorCompletes
<1>2. /\ h0 \in Handlers /\ h0 \in AttemptHandlers(attempts)
      /\ h0 \notin TaskHandlers(strand) /\ {h0} \ {NoHandler} = {h0}
  BY HandlersAssumption DEF IndInv, TypeOK, HeldOnce, AttemptHandlers
<1>3. t \in Tasks /\ t.handler = h0
  <2>1. a.index \in 1 .. Wishes
    BY DEF IndInv, TypeOK
  <2>2. t \in { ConnectedTask(h, i, r) :
             h \in Handlers, i \in 1 .. Wishes, r \in {"ok", "error", "aborted"} }
    BY <1>2, <2>1
  <2>3. t.handler = h0
    BY DEF ConnectedTask
  <2> QED BY <2>2, <2>3 DEF Tasks
<1>4. AttemptHandlers(attempts') = AttemptHandlers(attempts) \ {h0}
  BY <1>1 DEF AttemptHandlers, IndInv, HeldOnce
<1> HIDE DEF t, h0
<1>5. /\ strand' \in Seq(Tasks) /\ Distinct(strand')
      /\ TaskHandlers(strand') = TaskHandlers(strand) \cup {h0}
  <2>1. strand \in Seq(Tasks) /\ Distinct(strand)
    BY DEF IndInv, TypeOK, HeldOnce
  <2> QED BY <1>1, <1>2, <1>3, <2>1, AppendLemma
<1>6. HeldOnce'
  <2>1. /\ TaskHandlers(strand') \cap (Held(oneShot) \cup Held(multiShot)) = {}
        /\ AttemptHandlers(attempts') \cap
             (Held(oneShot) \cup Held(multiShot) \cup TaskHandlers(strand')) = {}
    BY <1>2, <1>4, <1>5 DEF IndInv, HeldOnce
  <2> QED BY <1>1, <1>5, <2>1 DEF IndInv, HeldOnce
<1>7. \A h \in Handlers : Waiting(h)' <=> Waiting(h)
  BY <1>1, <1>2, <1>4, <1>5 DEF Waiting
<1>8. Accounted
  BY <1>1, <1>7, NoDelivery
<1>9. TypeOK'
  BY <1>1, <1>5, <1>8 DEF IndInv, TypeOK, Accounted, Accounts, HeardOK
<1> QED BY <1>1, <1>6, <1>8, <1>9, Assemble DEF IndInv, TerminatingIdle

\* The transport received a message, or failed to read or to write.
LEMMA TransportInv ==
    ASSUME IndInv,
           \/ \E m \in Messages : ReceiveMessage(m)
           \/ ReceiveError
           \/ SendError
    PROVE  Preserved
<1>1. strand \in Seq(Tasks) /\ Distinct(strand)
  BY DEF IndInv, TypeOK, HeldOnce
<1>2. ASSUME NEW t \in Tasks, t.handler = NoHandler, strand' = Append(strand, t),
             transport' \in {"none", "idle", "started", "broken"},
             UNCHANGED << state, isTerminating, oneShot, multiShot, nextRequestId,
                          attempts, connector, issued, heard, forgiven >>
      PROVE  Preserved
  <2>1. /\ strand' \in Seq(Tasks) /\ Distinct(strand')
        /\ TaskHandlers(strand') = TaskHandlers(strand) \cup ({t.handler} \ {NoHandler})
    BY ONLY <1>1, t \in Tasks, t.handler = NoHandler, strand' = Append(strand, t), AppendLemma
  <2>2. state \in SessionState /\ (isTerminating => state \in {"disconnected", "failed"})
    BY DEF IndInv, TypeOK, TerminatingIdle
  <2>3. TaskHandlers(strand') = TaskHandlers(strand)
    BY <1>2, <2>1
  <2> QED BY <1>2, <2>1, <2>2, <2>3, StateInv
<1>3. transport \in {"none", "idle", "started", "broken"}
  BY DEF IndInv, TypeOK
<1>4. ASSUME NEW m \in Messages, ReceiveMessage(m)
      PROVE  Preserved
  <2>1. RxTask(m) \in Tasks /\ RxTask(m).handler = NoHandler
    BY DEF Tasks, RxTask
  <2> QED BY <1>2, <1>3, <1>4, <2>1 DEF ReceiveMessage
<1>5. CASE ReceiveError
  <2>1. RxErrorTask \in Tasks /\ RxErrorTask.handler = NoHandler
    BY DEF Tasks, RxErrorTask
  <2> QED BY <1>2, <1>5, <2>1 DEF ReceiveError
<1>6. CASE SendError
  BY <1>1, <1>6, FailInv DEF SendError
<1> QED BY <1>4, <1>5, <1>6

-----------------------------------------------------------------------------
(* The theorems *)

\* The session starts in the invariant.
LEMMA InitInv == Init => IndInv
<1> SUFFICES ASSUME Init PROVE IndInv
  OBVIOUS
<1>1. /\ IsMap(oneShot) /\ Injective(oneShot) /\ Held(oneShot) = {}
      /\ IsMap(multiShot) /\ Injective(multiShot) /\ Held(multiShot) = {}
  BY EmptyMapLemma DEF Init
<1>2. strand \in Seq(Tasks) /\ Distinct(strand) /\ TaskHandlers(strand) = {}
  <2>1. strand = << >> /\ Len(strand) = 0
    BY DEF Init
  <2>2. strand \in Seq(Tasks)
    BY <2>1
  <2> QED BY <2>1, <2>2 DEF Distinct, TaskHandlers
<1>3. AttemptHandlers(attempts) = {} /\ attempts = {}
  BY DEF Init, AttemptHandlers
<1>4. HeldOnce
  BY <1>1, <1>2, <1>3 DEF HeldOnce
<1>5. TypeOK
  <2>1. heard \in [Handlers -> Final \cup {"none", "progress", "misfire"}]
    BY DEF Init
  <2>2. nextRequestId \in 0 .. MaxRequestId
    BY BoundsAssumption DEF Init
  <2>3. state \in SessionState /\ isTerminating \in BOOLEAN
    BY DEF Init, SessionState
  <2>4. transport \in {"none", "idle", "started", "broken"} /\ connector \in Handlers \cup {NoHandler}
    BY DEF Init
  <2>5. issued \subseteq Handlers /\ forgiven \subseteq issued
    BY DEF Init
  <2> QED BY <1>1, <1>2, <1>3, <2>1, <2>2, <2>3, <2>4, <2>5 DEF TypeOK
<1>6. \A h \in Handlers : heard[h] = "none" /\ ~Waiting(h)
  BY <1>1, <1>2, <1>3 DEF Init, Waiting
<1>7. HeldUnheard /\ TerminatingIdle /\ AtMostOnce /\ NoLostHandler
  BY <1>6 DEF Init, HeldUnheard, TerminatingIdle, AtMostOnce, NoLostHandler
<1> QED BY <1>4, <1>5, <1>7 DEF IndInv

\* Every step of the session keeps the invariant, and is one of Completion.
LEMMA NextStep == IndInv /\ [Next]_vars => Preserved
<1> SUFFICES ASSUME IndInv, [Next]_vars PROVE Preserved
  OBVIOUS
<1>1. CASE \E h \in Handlers : connect(h)
  BY <1>1, ConnectInv
<1>2. CASE \E h \in Handlers : \/ join(h) \/ leave(h) \/ publish(h)
                              \/ oneShotCall(h) \/ ongoingCall(h)
  BY <1>2, RequestsInv
<1>3. CASE \E id \in RequestId, mode \in {"kill", "killnowait", "skip"} : cancelCall(id, mode)
  BY <1>3, CancelInv
<1>4. CASE disconnect
  <2>1. isTerminating \in BOOLEAN
    BY DEF IndInv, TypeOK
  <2> QED BY <1>4, <2>1, DisconnectInv DEF disconnect
<1>5. CASE terminate
  BY <1>5, DisconnectInv DEF terminate
<1>6. CASE \E a \in attempts, result \in {"ok", "error", "aborted"} : ConnectorCompletes(a, result)
  BY <1>6, ConnectorInv
<1>7. CASE (\E m \in Messages : ReceiveMessage(m)) \/ ReceiveError \/ SendError
  BY <1>7, TransportInv
<1>8. CASE RunStrand
  BY <1>8, RunStrandInv
<1>9. CASE UNCHANGED vars
  <2>1. IndInv'
    BY <1>9 DEF vars, IndInv, TypeOK, HeldOnce, HeldUnheard, TerminatingIdle, AtMostOnce,
                NoLostHandler, Waiting
  <2>2. Kept
    BY <1>9 DEF vars, Kept, Promise!vars, Owed, Waiting
  <2> QED BY <2>1, <2>2 DEF Preserved
<1> QED BY <1>1, <1>2, <1>3, <1>4, <1>5, <1>6, <1>7, <1>8, <1>9
        DEF Next, UserOperation, IoCompletion

\* The inductive invariant: every handler the session still holds is held in one
\* place, is not final yet, and none is held by a terminated session's accounts.
THEOREM Invariance == Spec => []IndInv
<1>1. IndInv /\ [Next]_vars => IndInv'
  BY NextStep DEF Preserved
<1> QED BY <1>1, InitInv, PTL DEF Spec

\* The variables always hold what the members of Peer and Client can.
THEOREM TypeCorrectness == Spec => []TypeOK
<1>1. IndInv => TypeOK
  BY DEF IndInv
<1> QED BY <1>1, Invariance, PTL

\* No completion handler ever runs again after its final outcome, for any number
\* of concurrent requests, any wrap-around of the request IDs and any order in
\* which replies, cancellations, failures and disconnections reach Peer.
THEOREM HandlersRunAtMostOnce == Spec => []AtMostOnce
<1>1. IndInv => AtMostOnce
  BY DEF IndInv
<1> QED BY <1>1, Invariance, PTL

\* No completion handler is ever dropped, unless terminate() was called.
THEOREM HandlersAreNotLost == Spec => []NoLostHandler
<1>1. IndInv => NoLostHandler
  BY DEF IndInv
<1> QED BY <1>1, Invariance, PTL

\* A session keeps the promise of Completion: each step of Peer and Client takes
\* one handler, hands one outcome to a handler it holds, or is not noticed.
THEOREM SessionKeepsItsPromise == Spec => ImplementsCompletion
<1>1. Init => Promise!Init
  <2>1. SUFFICES ASSUME Init PROVE Owed = {}
    BY DEF Init, Promise!Init
  <2> QED BY <2>1 DEF Init, Owed, Waiting, Held, TaskHandlers, AttemptHandlers
<1>2. IndInv /\ [Next]_vars => [Promise!Next]_(Promise!vars)
  BY NextStep DEF Preserved, Kept
<1> QED BY <1>1, <1>2, Invariance, PTL DEF Spec, ImplementsCompletion, Promise!Spec

-----------------------------------------------------------------------------
(***************************************************************************)
(* The phases of a session.  Three more properties, relative to IndInv:    *)
(* TransportPresent, HandshakeAwaited and NoOrphanedRequests.  The last    *)
(* needs to know that no connect is pending once there is a session, for   *)
(* onConnectFailure sets the state without aborting any request, and that  *)
(* nothing but HELLO is pending during establishment, for processAbort     *)
(* goes back to the closed state without aborting any request either.      *)
(***************************************************************************)

ConnectIndices(q) == { i \in 1 .. Len(q) : q[i].task = "connected" }

\* A single connect is pending, and only where no session can be.
OneConnect ==
    /\ \A a, b \in attempts : a = b
    /\ \A i, j \in ConnectIndices(strand) : i = j
    /\ attempts = {} \/ ConnectIndices(strand) = {}
    /\ attempts # {} \/ ConnectIndices(strand) # {}
         => state \in {"disconnected", "connecting", "failed"}

\* Outside a session nothing is pending; while it is established, only HELLO.
HandshakeAlone ==
    /\ state \notin ReadyToReceive => DOMAIN oneShot = {} /\ DOMAIN multiShot = {}
    /\ state \in {"establishing", "authenticating"} =>
         DOMAIN oneShot \subseteq {<<"hello", 0>>} /\ DOMAIN multiShot = {}

LifeInv ==
    /\ TransportPresent
    /\ HandshakeAwaited
    /\ ~EarlyReconnect => OneConnect
    /\ ~EarlyReconnect /\ "goodbye" \notin Oversized => HandshakeAlone

-----------------------------------------------------------------------------
(* Connects on the strand *)

\* Queueing tasks other than the end of a connect.
LEMMA QueueConnects ==
    ASSUME NEW s \in Seq(Tasks), NEW r \in Seq(Tasks), ConnectIndices(r) = {}
    PROVE  s \o r \in Seq(Tasks) /\ ConnectIndices(s \o r) = ConnectIndices(s)
<1>1. /\ s \o r \in Seq(Tasks) /\ Len(s \o r) = Len(s) + Len(r)
      /\ Len(s) \in Nat /\ Len(r) \in Nat
  OBVIOUS
<1>2. /\ \A i \in 1 .. Len(s) : (s \o r)[i] = s[i]
      /\ \A i \in Len(s) + 1 .. Len(s) + Len(r) : (s \o r)[i] = r[i - Len(s)]
  OBVIOUS
<1>3. \A i \in 1 .. Len(s \o r) :
         \/ i \in 1 .. Len(s)
         \/ i \in Len(s) + 1 .. Len(s) + Len(r) /\ i - Len(s) \in 1 .. Len(r)
  BY <1>1
<1>4. \A i \in 1 .. Len(s) : i \in 1 .. Len(s \o r)
  BY <1>1
<1>5. ASSUME NEW i \in ConnectIndices(s \o r)
      PROVE  i \in ConnectIndices(s)
  <2>1. i \in 1 .. Len(s \o r) /\ (s \o r)[i].task = "connected"
    BY <1>5 DEF ConnectIndices
  <2>2. CASE i \in 1 .. Len(s)
    BY <1>2, <2>1, <2>2 DEF ConnectIndices
  <2>3. CASE i \in Len(s) + 1 .. Len(s) + Len(r) /\ i - Len(s) \in 1 .. Len(r)
    <3>1. r[i - Len(s)].task = "connected"
      BY <1>2, <2>1, <2>3
    <3> QED BY <2>3, <3>1 DEF ConnectIndices
  <2> QED BY <1>3, <2>1, <2>2, <2>3
<1>6. ASSUME NEW i \in ConnectIndices(s)
      PROVE  i \in ConnectIndices(s \o r)
  <2>1. i \in 1 .. Len(s) /\ s[i].task = "connected"
    BY <1>6 DEF ConnectIndices
  <2> QED BY <1>2, <1>4, <2>1 DEF ConnectIndices
<1> QED BY <1>1, <1>5, <1>6

\* A task posted to the strand, and the outcomes of connecting in it
LEMMA AppendConnects ==
    ASSUME NEW s \in Seq(Tasks), NEW t \in Tasks
    PROVE  /\ Append(s, t) \in Seq(Tasks)
           /\ t.task # "connected" => ConnectIndices(Append(s, t)) = ConnectIndices(s)
           /\ t.task = "connected" =>
                ConnectIndices(Append(s, t)) = ConnectIndices(s) \cup {Len(s) + 1}
<1>1. /\ Append(s, t) \in Seq(Tasks) /\ Len(Append(s, t)) = Len(s) + 1
      /\ Len(s) \in Nat
      /\ \A i \in 1 .. Len(s) : Append(s, t)[i] = s[i]
      /\ Append(s, t)[Len(s) + 1] = t
  OBVIOUS
<1>2. 1 .. Len(Append(s, t)) = 1 .. Len(s) \cup {Len(s) + 1}
  BY <1>1
<1> QED BY <1>1, <1>2 DEF ConnectIndices

\* The batch that abortPending posts.
LEMMA PostAllConnects ==
    ASSUME NEW S \in SUBSET Handlers, NEW err \in Errors
    PROVE  PostAll(S, err) \in Seq(Tasks) /\ ConnectIndices(PostAll(S, err)) = {}
<1>1. PostAll(S, err) \in Seq(Tasks)
  BY PostAllLemma
<1>2. IsFiniteSet(S) /\ Cardinality(S) \in Nat
  BY HandlersAssumption, FS_Subset, FS_CardinalityType
<1>3. /\ Len(PostAll(S, err)) = Cardinality(S)
      /\ \A i \in 1 .. Cardinality(S) : PostAll(S, err)[i] = PostedTask(Order(S)[i], err)
  BY <1>1, <1>2 DEF PostAll
<1>4. \A h : PostedTask(h, err).task = "posted"
  BY DEF PostedTask
<1> QED BY <1>1, <1>3, <1>4 DEF ConnectIndices

\* A queue that holds no more connects than the strand.
Fewer(q) ==
    ~EarlyReconnect => /\ \A i, j \in ConnectIndices(q) : i = j
                       /\ ConnectIndices(strand) = {} => ConnectIndices(q) = {}

\* Taking the first task leaves no more outcomes of connecting than there were.
LEMMA DequeueConnects ==
    ASSUME IndInv, LifeInv, strand # << >>
    PROVE  /\ Fewer(Tail(strand))
           /\ Tail(strand) \in Seq(Tasks)
           /\ Head(strand) \in Tasks
           /\ ~EarlyReconnect /\ Head(strand).task = "connected" =>
                /\ ConnectIndices(Tail(strand)) = {}
                /\ attempts = {}
                /\ state \in {"disconnected", "connecting", "failed"}
<1>1. strand \in Seq(Tasks)
  BY DEF IndInv, TypeOK
<1>2. /\ Len(strand) \in Nat \ {0}
      /\ Tail(strand) \in Seq(Tasks) /\ Len(Tail(strand)) = Len(strand) - 1
      /\ Head(strand) = strand[1] /\ strand[1] \in Tasks
      /\ \A i \in 1 .. Len(Tail(strand)) : Tail(strand)[i] = strand[i + 1]
  BY <1>1
<1>3. \A i \in ConnectIndices(Tail(strand)) : i + 1 \in ConnectIndices(strand) /\ i \in Nat \ {0}
  BY <1>2 DEF ConnectIndices
<1>4. ~EarlyReconnect => \A i, j \in ConnectIndices(strand) : i = j
  BY DEF LifeInv, OneConnect
<1>5. ~EarlyReconnect => \A i, j \in ConnectIndices(Tail(strand)) : i = j
  BY <1>3, <1>4
<1>6. ConnectIndices(strand) = {} => ConnectIndices(Tail(strand)) = {}
  BY <1>3
<1>7. ASSUME ~EarlyReconnect, Head(strand).task = "connected"
      PROVE  /\ ConnectIndices(Tail(strand)) = {}
             /\ attempts = {}
             /\ state \in {"disconnected", "connecting", "failed"}
  <2>1. 1 \in ConnectIndices(strand)
    BY <1>2, <1>7 DEF ConnectIndices
  <2>2. ConnectIndices(Tail(strand)) = {}
    BY <1>3, <1>4, <1>7, <2>1
  <2> QED BY <1>7, <2>1, <2>2 DEF LifeInv, OneConnect
<1> QED BY <1>2, <1>5, <1>6, <1>7 DEF Fewer

\* A step that starts no connect keeps OneConnect, if it goes to a state without
\* a session or if there is a transport already.
LEMMA SameConnects ==
    ASSUME LifeInv, NEW q, Fewer(q), ConnectIndices(strand') = ConnectIndices(q),
           attempts' = attempts,
           \/ state' = state
           \/ state' \in {"disconnected", "connecting", "failed"}
           \/ state \in ReadyToReceive \cup {"closed"}
    PROVE  (~EarlyReconnect => OneConnect)'
BY DEF LifeInv, OneConnect, Fewer, ReadyToReceive

\* The strand has at most the outcomes of connecting that the invariant allows.
LEMMA FewerStrand ==
    ASSUME LifeInv
    PROVE  Fewer(strand)
BY DEF LifeInv, OneConnect, Fewer

-----------------------------------------------------------------------------
(* The steps *)

\* abortPending() leaves no request, and posts no outcome of connecting.
LEMMA AbortConnects ==
    ASSUME IndInv, NEW q \in Seq(Tasks), NEW err \in Errors, NEW terminating \in BOOLEAN,
           AbortPending(err, terminating, q)
    PROVE  /\ ConnectIndices(strand') = ConnectIndices(q)
           /\ DOMAIN oneShot' = {} /\ DOMAIN multiShot' = {}
<1>1. Held(oneShot) \in SUBSET Handlers /\ Held(multiShot) \in SUBSET Handlers
  BY WaitingLemma DEF IndInv
<1> DEFINE p1 == PostAll(Held(oneShot), err)
           p2 == PostAll(Held(multiShot), err)
<1>2. /\ p1 \in Seq(Tasks) /\ ConnectIndices(p1) = {}
      /\ p2 \in Seq(Tasks) /\ ConnectIndices(p2) = {}
  BY <1>1, PostAllConnects
<1>3. /\ strand' = IF terminating THEN q ELSE (q \o p1) \o p2
      /\ oneShot' = << >> /\ multiShot' = << >>
  BY DEF AbortPending
<1> HIDE DEF p1, p2
<1>4. q \o p1 \in Seq(Tasks) /\ ConnectIndices(q \o p1) = ConnectIndices(q)
  BY <1>2, QueueConnects
<1>5. ConnectIndices((q \o p1) \o p2) = ConnectIndices(q)
  BY <1>2, <1>4, QueueConnects
<1> QED BY <1>3, <1>5

\* Peer::fail.
LEMMA FailLife ==
    ASSUME IndInv, LifeInv, NEW q \in Seq(Tasks), Fewer(q), Fail(q), attempts' = attempts
    PROVE  LifeInv'
<1>1. state' = "failed"
  BY DEF Fail
<1>2. /\ ConnectIndices(strand') = ConnectIndices(q)
      /\ \/ DOMAIN oneShot' = {} /\ DOMAIN multiShot' = {}
         \/ state = "failed" /\ UNCHANGED << oneShot, multiShot >>
  <2>1. CASE state = "failed"
    BY <2>1 DEF Fail
  <2>2. CASE state # "failed"
    <3>1. "failure" \in Errors /\ isTerminating \in BOOLEAN
      BY DEF Errors, IndInv, TypeOK
    <3> QED BY <2>2, <3>1, AbortConnects DEF Fail
  <2> QED BY <2>1, <2>2
<1>3. (~EarlyReconnect => OneConnect)'
  BY <1>1, <1>2, SameConnects
<1> QED BY <1>1, <1>2, <1>3
        DEF LifeInv, TransportPresent, HandshakeAwaited, HandshakeAlone, ReadyToReceive

\* disconnect() and terminate().
LEMMA DisconnectLife ==
    ASSUME IndInv, LifeInv, NEW terminating \in BOOLEAN, DoDisconnect(terminating)
    PROVE  LifeInv'
<1>1. /\ attempts' = { IF state = "connecting" /\ a.handler = connector
                         THEN [a EXCEPT !.cancelled = TRUE] ELSE a : a \in attempts }
      /\ state' = "disconnected"
      /\ AbortPending("sessionEnded", terminating, strand)
  BY DEF DoDisconnect
<1>2. strand \in Seq(Tasks) /\ "sessionEnded" \in Errors
  BY DEF IndInv, TypeOK, Errors
<1>3. /\ ConnectIndices(strand') = ConnectIndices(strand)
      /\ DOMAIN oneShot' = {} /\ DOMAIN multiShot' = {}
  BY <1>1, <1>2, AbortConnects
<1>4. /\ attempts = {} => attempts' = {}
      /\ (\A a, b \in attempts : a = b) => (\A a, b \in attempts' : a = b)
  BY <1>1
<1>5. (~EarlyReconnect => OneConnect)'
  BY <1>1, <1>3, <1>4 DEF LifeInv, OneConnect
<1> QED BY <1>1, <1>3, <1>5
        DEF LifeInv, TransportPresent, HandshakeAwaited, HandshakeAlone, ReadyToReceive

\* A step that leaves the phase, the transport and the requests alone.
LEMMA IdleLife ==
    ASSUME LifeInv, NEW q, Fewer(q), ConnectIndices(strand') = ConnectIndices(q),
           UNCHANGED << state, oneShot, multiShot, attempts >>,
           transport # "none" => transport' # "none"
    PROVE  LifeInv'
<1>1. (~EarlyReconnect => OneConnect)'
  BY SameConnects
<1> QED BY <1>1 DEF LifeInv, TransportPresent, HandshakeAwaited, HandshakeAlone

\* An operation refused for the state of the session preserves the invariant.
LEMMA RejectLife ==
    ASSUME LifeInv, NEW h, RejectOperation(h)
    PROVE  LifeInv'
BY FewerStrand, IdleLife DEF RejectOperation


\* connect() starts the only connect there is.
LEMMA ConnectLife ==
    ASSUME IndInv, LifeInv, NEW h \in Handlers, connect(h)
    PROVE  LifeInv'
<1>1. CASE state # "disconnected"
  BY <1>1, RejectLife DEF connect
<1>2. CASE state = "disconnected"
  <2> DEFINE a0 == [handler |-> h, index |-> 1, cancelled |-> FALSE]
  <2>1. /\ state' = "connecting"
        /\ attempts' = attempts \cup {a0}
        /\ UNCHANGED << transport, oneShot, multiShot, strand >>
    BY <1>2 DEF connect, DoConnect
  <2>2. ~EarlyReconnect => attempts = {} /\ ConnectIndices(strand) = {}
    BY DEF connect, ConnectPending, ConnectIndices
  <2> HIDE DEF a0
  <2>3. (~EarlyReconnect => OneConnect)'
    BY <2>1, <2>2 DEF OneConnect
  <2> QED BY <1>2, <2>1, <2>3
          DEF LifeInv, TransportPresent, HandshakeAwaited, HandshakeAlone, ReadyToReceive
<1> QED BY <1>1, <1>2

\* What Peer::sendRequest does to the maps and to the strand.
LEMMA SendRequestLife ==
    ASSUME IndInv, NEW type, NEW h \in Handlers, NEW big \in BOOLEAN, NEW ongoing \in BOOLEAN,
           SendRequest(type, h, big, ongoing)
    PROVE  /\ ConnectIndices(strand') = ConnectIndices(strand)
           /\ DOMAIN oneShot \subseteq DOMAIN oneShot'
           /\ ~ongoing => multiShot' = multiShot
           /\ ~ongoing /\ type \notin hasRequestId =>
                /\ DOMAIN oneShot' \subseteq DOMAIN oneShot \cup {<<type, 0>>}
                /\ type \notin Oversized => <<type, 0>> \in DOMAIN oneShot'
<1> DEFINE id  == IF type \in hasRequestId THEN NextRequestId ELSE 0
           map == IF ongoing THEN multiShot ELSE oneShot
           key == <<type, id>>
           r == TasksAfter(map, key, h, big)
<1>1. /\ big => type \in Oversized
      /\ strand' = strand \o r
      /\ ongoing => oneShot' = oneShot
      /\ ~ongoing => oneShot' = MapAfter(oneShot, key, h, big) /\ multiShot' = multiShot
  BY DEF SendRequest
<1>2. \A k \in DOMAIN map : map[k] \in Handlers
  <2>1. IsMap(map)
    BY DEF IndInv, TypeOK
  <2> QED BY <2>1 DEF IsMap, Held
<1> HIDE DEF map
<1>3. r \in Seq(Tasks) /\ ConnectIndices(r) = {}
  <2>1. \A g \in Handlers, e \in Errors :
           PostedTask(g, e) \in Tasks /\ PostedTask(g, e).task = "posted"
    BY DEF Tasks, PostedTask
  <2>2. ASSUME NEW t \in Tasks, t.task = "posted"
        PROVE  << t >> \in Seq(Tasks) /\ ConnectIndices(<< t >>) = {}
    BY <2>2 DEF ConnectIndices
  <2>3. << >> \in Seq(Tasks) /\ ConnectIndices(<< >>) = {}
    BY DEF ConnectIndices
  <2>4. "payloadSizeExceeded" \in Errors /\ "cancelled" \in Errors
    BY DEF Errors
  <2>5. CASE big
    <3>1. r = << PostedTask(h, "payloadSizeExceeded") >>
      BY <2>5 DEF TasksAfter
    <3> QED BY <2>1, <2>2, <2>4, <3>1
  <2>6. CASE ~big /\ key \in DOMAIN map
    <3>1. r = << PostedTask(map[key], "cancelled") >> /\ map[key] \in Handlers
      BY <1>2, <2>6 DEF TasksAfter
    <3> QED BY <2>1, <2>2, <2>4, <3>1
  <2>7. CASE ~big /\ key \notin DOMAIN map
    <3>1. r = << >>
      BY <2>7 DEF TasksAfter
    <3> QED BY <2>3, <3>1
  <2> QED BY <2>5, <2>6, <2>7
<1> HIDE DEF r
<1>4. ConnectIndices(strand') = ConnectIndices(strand)
  BY <1>1, <1>3, QueueConnects DEF IndInv, TypeOK
<1>5. ~ongoing => DOMAIN oneShot' = IF big THEN DOMAIN oneShot ELSE DOMAIN oneShot \cup {key}
  BY <1>1 DEF MapAfter
<1> QED BY <1>1, <1>4, <1>5

\* join() and leave(): the phase begins with its own request pending.
LEMMA JoinLife ==
    ASSUME IndInv, LifeInv, NEW h \in Handlers, join(h)
    PROVE  LifeInv'
<1>1. CASE state # "closed"
  BY <1>1, RejectLife DEF join
<1>2. CASE state = "closed"
  <2>1. /\ state' = "establishing"
        /\ transport' = IF transport = "idle" THEN "started" ELSE transport
        /\ attempts' = attempts
    BY <1>2 DEF join
  <2>2. PICK big \in BOOLEAN : SendRequest("hello", h, big, FALSE)
    BY <1>2 DEF join
  <2>3. "hello" \notin hasRequestId /\ FALSE \in BOOLEAN
    BY DEF hasRequestId
  <2>4. /\ ConnectIndices(strand') = ConnectIndices(strand)
        /\ multiShot' = multiShot
        /\ DOMAIN oneShot' \subseteq DOMAIN oneShot \cup {<<"hello", 0>>}
        /\ "hello" \notin Oversized => <<"hello", 0>> \in DOMAIN oneShot'
    BY <2>2, <2>3, SendRequestLife
  <2>5. (~EarlyReconnect => OneConnect)'
    BY <1>2, <2>1, <2>4, SameConnects, FewerStrand
  <2> QED BY <1>2, <2>1, <2>4, <2>5
          DEF LifeInv, TransportPresent, HandshakeAwaited, HandshakeAlone, ReadyToReceive
<1> QED BY <1>1, <1>2

\* leave() preserves the invariant.
LEMMA LeaveLife ==
    ASSUME IndInv, LifeInv, NEW h \in Handlers, leave(h)
    PROVE  LifeInv'
<1>1. CASE state # "established"
  BY <1>1, RejectLife DEF leave
<1>2. CASE state = "established"
  <2>1. state' = "shuttingDown" /\ UNCHANGED << transport, attempts >>
    BY <1>2 DEF leave
  <2>2. PICK big \in BOOLEAN : SendRequest("goodbye", h, big, FALSE)
    BY <1>2 DEF leave
  <2>3. "goodbye" \notin hasRequestId /\ FALSE \in BOOLEAN
    BY DEF hasRequestId
  <2>4. /\ ConnectIndices(strand') = ConnectIndices(strand)
        /\ "goodbye" \notin Oversized => <<"goodbye", 0>> \in DOMAIN oneShot'
    BY <2>2, <2>3, SendRequestLife
  <2>5. (~EarlyReconnect => OneConnect)'
    BY <1>2, <2>1, <2>4, SameConnects, FewerStrand DEF ReadyToReceive
  <2> QED BY <1>2, <2>1, <2>4, <2>5
          DEF LifeInv, TransportPresent, HandshakeAwaited, HandshakeAlone, ReadyToReceive
<1> QED BY <1>1, <1>2

\* The requests of an established session.
LEMMA DoRequestLife ==
    ASSUME IndInv, LifeInv, NEW h \in Handlers, NEW type, NEW ongoing \in BOOLEAN,
           DoRequest(type, h, ongoing)
    PROVE  LifeInv'
<1>1. CASE state # "established"
  BY <1>1, RejectLife DEF DoRequest
<1>2. CASE state = "established"
  <2>1. UNCHANGED << state, transport, attempts >>
    BY <1>2 DEF DoRequest
  <2>2. PICK big \in BOOLEAN : SendRequest(type, h, big, ongoing)
    BY <1>2 DEF DoRequest
  <2>3. ConnectIndices(strand') = ConnectIndices(strand)
    BY <2>2, SendRequestLife
  <2>4. (~EarlyReconnect => OneConnect)'
    BY <2>1, <2>3, SameConnects, FewerStrand
  <2> QED BY <1>2, <2>1, <2>4
          DEF LifeInv, TransportPresent, HandshakeAwaited, HandshakeAlone, ReadyToReceive
<1> QED BY <1>1, <1>2

\* cancelCall() preserves the invariant.
LEMMA CancelLife ==
    ASSUME IndInv, LifeInv, NEW id, NEW mode, cancelCall(id, mode)
    PROVE  LifeInv'
<1>1. state = "established" /\ UNCHANGED << state, transport, attempts >>
  BY DEF cancelCall
<1>2. PICK h \in Handlers : strand' = Append(strand, PostedTask(h, "cancelled"))
  <2>1. \A k \in DOMAIN oneShot : oneShot[k] \in Handlers
    BY DEF IndInv, TypeOK, IsMap, Held
  <2>2. \A k \in DOMAIN multiShot : multiShot[k] \in Handlers
    BY DEF IndInv, TypeOK, IsMap, Held
  <2> QED BY <2>1, <2>2 DEF cancelCall
<1>3. PostedTask(h, "cancelled") \in Tasks /\ PostedTask(h, "cancelled").task # "connected"
  BY DEF Tasks, PostedTask, Errors
<1>4. ConnectIndices(strand') = ConnectIndices(strand)
  BY <1>2, <1>3, AppendConnects DEF IndInv, TypeOK
<1>5. (~EarlyReconnect => OneConnect)'
  BY <1>1, <1>4, SameConnects, FewerStrand
<1> QED BY <1>1, <1>5
        DEF LifeInv, TransportPresent, HandshakeAwaited, HandshakeAlone, ReadyToReceive

\* The I/O layer.
LEMMA ConnectorLife ==
    ASSUME IndInv, LifeInv, NEW a \in attempts, NEW result \in {"ok", "error", "aborted"},
           ConnectorCompletes(a, result)
    PROVE  LifeInv'
<1> DEFINE t == ConnectedTask(a.handler, a.index, result)
<1>1. /\ attempts' = attempts \ {a}
      /\ strand' = Append(strand, t)
      /\ UNCHANGED << state, transport, oneShot, multiShot >>
  BY DEF ConnectorCompletes
<1>2. t \in Tasks /\ t.task = "connected"
  <2>1. a.handler \in Handlers /\ a.index \in 1 .. Wishes
    BY DEF IndInv, TypeOK
  <2> QED BY <2>1 DEF Tasks, ConnectedTask
<1> HIDE DEF t
<1>3. ConnectIndices(strand') = ConnectIndices(strand) \cup {Len(strand) + 1}
  BY <1>1, <1>2, AppendConnects DEF IndInv, TypeOK
<1>4. ~EarlyReconnect => /\ attempts' = {} /\ ConnectIndices(strand) = {}
                         /\ state \in {"disconnected", "connecting", "failed"}
  BY <1>1 DEF LifeInv, OneConnect
<1>5. (~EarlyReconnect => OneConnect)'
  BY <1>1, <1>3, <1>4 DEF OneConnect
<1> QED BY <1>1, <1>5 DEF LifeInv, TransportPresent, HandshakeAwaited, HandshakeAlone

\* The transport's callbacks preserve the invariant.
LEMMA TransportLife ==
    ASSUME IndInv, LifeInv,
           \/ \E m \in Messages : ReceiveMessage(m)
           \/ ReceiveError
           \/ SendError
    PROVE  LifeInv'
<1>1. strand \in Seq(Tasks)
  BY DEF IndInv, TypeOK
<1>2. ASSUME NEW m \in Messages, ReceiveMessage(m)
      PROVE  LifeInv'
  <2>1. RxTask(m) \in Tasks /\ RxTask(m).task # "connected"
    BY DEF Tasks, RxTask
  <2>2. ConnectIndices(strand') = ConnectIndices(strand)
    BY <1>1, <1>2, <2>1, AppendConnects DEF ReceiveMessage
  <2> QED BY <1>2, <2>2, IdleLife, FewerStrand DEF ReceiveMessage
<1>3. CASE ReceiveError
  <2>1. RxErrorTask \in Tasks /\ RxErrorTask.task # "connected"
    BY DEF Tasks, RxErrorTask
  <2>2. ConnectIndices(strand') = ConnectIndices(strand)
    BY <1>1, <1>3, <2>1, AppendConnects DEF ReceiveError
  <2>3. transport' # "none"
    BY <1>3 DEF ReceiveError
  <2> QED BY <1>3, <2>2, <2>3, IdleLife, FewerStrand DEF ReceiveError
<1>4. CASE SendError
  BY <1>1, <1>4, FailLife, FewerStrand DEF SendError
<1> QED BY <1>2, <1>3, <1>4


\* The end of a connect: no request is pending when it changes the state.
LEMMA RunConnectedLife ==
    ASSUME IndInv, LifeInv, strand # << >>, RunConnected(Head(strand), Tail(strand))
    PROVE  LifeInv'
<1> DEFINE t == Head(strand)
<1>1. /\ strand' = Tail(strand)
      /\ UNCHANGED << oneShot, multiShot >>
      /\ t.task = "connected"
  BY DEF RunConnected
<1>2. /\ Fewer(Tail(strand))
      /\ ~EarlyReconnect => /\ ConnectIndices(Tail(strand)) = {}
                            /\ attempts = {}
                            /\ state \in {"disconnected", "connecting", "failed"}
  BY <1>1, DequeueConnects
<1>3. CASE UNCHANGED << state, transport, attempts >>
  BY <1>1, <1>2, <1>3, IdleLife
<1>4. ASSUME DoConnect(t.handler, t.arg[1] + 1), UNCHANGED << state, transport >>
      PROVE  LifeInv'
  <2> DEFINE a0 == [handler |-> t.handler, index |-> t.arg[1] + 1, cancelled |-> FALSE]
  <2>1. attempts' = attempts \cup {a0}
    BY <1>4 DEF DoConnect
  <2> HIDE DEF a0
  <2>2. (~EarlyReconnect => OneConnect)'
    BY <1>1, <1>2, <1>4, <2>1 DEF OneConnect
  <2> QED BY <1>1, <1>4, <2>2
          DEF LifeInv, TransportPresent, HandshakeAwaited, HandshakeAlone
<1>5. ASSUME \/ state' = "failed"
             \/ state' = "closed" /\ transport' = "idle",
             UNCHANGED attempts
      PROVE  LifeInv'
  <2>1. (~EarlyReconnect => OneConnect)'
    BY <1>1, <1>2, <1>5 DEF OneConnect
  <2>2. (~EarlyReconnect /\ "goodbye" \notin Oversized => HandshakeAlone)'
    BY <1>1, <1>2, <1>5 DEF LifeInv, HandshakeAlone, ReadyToReceive
  <2> QED BY <1>5, <2>1, <2>2
          DEF LifeInv, TransportPresent, HandshakeAwaited, ReadyToReceive
<1> HIDE DEF t
<1>6. \/ UNCHANGED << state, transport, attempts >>
      \/ DoConnect(t.handler, t.arg[1] + 1) /\ UNCHANGED << state, transport >>
      \/ state' = "failed" /\ UNCHANGED attempts
      \/ state' = "closed" /\ transport' = "idle" /\ UNCHANGED attempts
  BY DEF RunConnected, t
<1> QED BY <1>3, <1>4, <1>5, <1>6

\* A message that answers the request with the given key takes no other away.
LEMMA ReplyKeeps ==
    ASSUME NEW key, NEW progressive, ProcessWampReply(key, progressive)
    PROVE  /\ DOMAIN oneShot \ {key} \subseteq DOMAIN oneShot'
           /\ DOMAIN oneShot' \subseteq DOMAIN oneShot
           /\ DOMAIN multiShot' \subseteq DOMAIN multiShot
           /\ key \in DOMAIN oneShot => DOMAIN oneShot' = DOMAIN oneShot \ {key}
           /\ key \notin DOMAIN oneShot => oneShot' = oneShot
BY DEF ProcessWampReply, Without

\* The keys of the messages that answer a request with an ID.
LEMMA ReplyKeys ==
    ASSUME NEW m \in Messages, m.type = "error" \/ repliesTo(m.type) # "none"
    PROVE  m.key # <<"hello", 0>> /\ m.key # <<"goodbye", 0>>
BY DEF Messages, Message, repliesTo, ReplyTable

\* A reply preserves the invariant.
LEMMA RunReplyLife ==
    ASSUME IndInv, LifeInv, strand # << >>, RunRxReply(Head(strand), Tail(strand))
    PROVE  LifeInv'
<1> DEFINE m == Head(strand).arg
<1>1. /\ strand' = Tail(strand)
      /\ UNCHANGED << state, transport, attempts >>
      /\ ProcessWampReply(m.key, m.isProgressive)
      /\ Head(strand).task = "rx"
      /\ m.type = "error" \/ repliesTo(m.type) # "none"
  BY DEF RunRxReply
<1>2. Head(strand) \in Tasks /\ Fewer(Tail(strand))
  BY DequeueConnects
<1>3. m \in Messages
  BY <1>1, <1>2, TaskLemma
<1> HIDE DEF m
<1>4. m.key # <<"hello", 0>> /\ m.key # <<"goodbye", 0>>
  BY <1>1, <1>3, ReplyKeys
<1>5. /\ DOMAIN oneShot \ {m.key} \subseteq DOMAIN oneShot'
      /\ DOMAIN oneShot' \subseteq DOMAIN oneShot
      /\ DOMAIN multiShot' \subseteq DOMAIN multiShot
  BY <1>1, ReplyKeeps
<1>6. (~EarlyReconnect => OneConnect)'
  BY <1>1, <1>2, SameConnects
<1> QED BY <1>1, <1>4, <1>5, <1>6
        DEF LifeInv, TransportPresent, HandshakeAwaited, HandshakeAlone

\* CHALLENGE keeps HELLO pending.
LEMMA RunInboundLife ==
    ASSUME IndInv, LifeInv, strand # << >>, RunRxInbound(Head(strand), Tail(strand))
    PROVE  LifeInv'
<1> DEFINE m == Head(strand).arg
<1>1. /\ strand' = Tail(strand)
      /\ ~Unacceptable(m)
      /\ state' = IF m.type = "challenge" THEN "authenticating" ELSE state
      /\ UNCHANGED << transport, oneShot, multiShot, attempts >>
  BY DEF RunRxInbound
<1> HIDE DEF m
<1>2. /\ state \in ReadyToReceive
      /\ m.type = "challenge" => state \in {"establishing", "authenticating"}
  BY <1>1 DEF Unacceptable, isValidRx, forEstablished
<1>3. (~EarlyReconnect => OneConnect)'
  BY <1>1, <1>2, SameConnects, DequeueConnects
<1> QED BY <1>1, <1>2, <1>3
        DEF LifeInv, TransportPresent, HandshakeAwaited, HandshakeAlone, ReadyToReceive

\* WELCOME and ABORT end the establishment, and take HELLO with them.
LEMMA RunWelcomeLife ==
    ASSUME IndInv, LifeInv, strand # << >>, RunRxWelcome(Head(strand), Tail(strand))
    PROVE  LifeInv'
<1>1. /\ strand' = Tail(strand)
      /\ state' = "established" /\ state \in ReadyToReceive
      /\ UNCHANGED << transport, attempts >>
  BY DEF RunRxWelcome, Unacceptable
<1>2. (~EarlyReconnect => OneConnect)'
  BY <1>1, SameConnects, DequeueConnects
<1> QED BY <1>1, <1>2
        DEF LifeInv, TransportPresent, HandshakeAwaited, HandshakeAlone, ReadyToReceive

\* ABORT preserves the invariant.
LEMMA RunAbortLife ==
    ASSUME IndInv, LifeInv, strand # << >>, RunRxAbort(Head(strand), Tail(strand))
    PROVE  LifeInv'
<1>1. /\ Fewer(Tail(strand)) /\ Tail(strand) \in Seq(Tasks)
      /\ attempts' = attempts
  BY DequeueConnects DEF RunRxAbort
<1>2. CASE state \in {"establishing", "authenticating"}
  <2>1. /\ strand' = Tail(strand) /\ state' = "closed" /\ UNCHANGED transport
        /\ ProcessWampReply(<<"hello", 0>>, FALSE)
    BY <1>2 DEF RunRxAbort
  <2>2. /\ DOMAIN oneShot' \subseteq DOMAIN oneShot \ {<<"hello", 0>>}
        /\ DOMAIN multiShot' \subseteq DOMAIN multiShot
    BY <2>1, ReplyKeeps
  <2>3. (~EarlyReconnect => OneConnect)'
    BY <1>1, <1>2, <2>1, SameConnects DEF ReadyToReceive
  <2> QED BY <1>2, <2>1, <2>2, <2>3
          DEF LifeInv, TransportPresent, HandshakeAwaited, HandshakeAlone, ReadyToReceive
<1>3. CASE state = "shuttingDown"
  <2>1. strand' = Tail(strand) /\ UNCHANGED << state, transport, oneShot, multiShot >>
    BY <1>3 DEF RunRxAbort
  <2> QED BY <1>1, <2>1, IdleLife
<1>4. CASE state = "established"
  BY <1>1, <1>4, FailLife DEF RunRxAbort
<1> QED BY <1>2, <1>3, <1>4 DEF RunRxAbort

\* GOODBYE ends the session: nothing stays pending.
LEMMA RunGoodbyeLife ==
    ASSUME IndInv, LifeInv, strand # << >>, RunRxGoodbye(Head(strand), Tail(strand))
    PROVE  LifeInv'
<1> DEFINE key == <<"goodbye", 0>>
           q == Tail(strand)
           rest == Without(oneShot, key)
           p1 == PostAll(Held(rest), "sessionEnded")
           p2 == PostAll(Held(multiShot), "sessionEnded")
<1>1. /\ Fewer(q) /\ q \in Seq(Tasks)
      /\ state' = "closed" /\ state \in ReadyToReceive
      /\ UNCHANGED << transport, attempts >>
  BY DequeueConnects DEF RunRxGoodbye, Unacceptable
<1>2. /\ ConnectIndices(strand') = ConnectIndices(q)
      /\ "goodbye" \notin Oversized => DOMAIN oneShot' = {} /\ DOMAIN multiShot' = {}
  <2>1. CASE state = "shuttingDown" /\ key \in DOMAIN oneShot
    <3>1. /\ strand' = IF isTerminating THEN q ELSE (q \o p1) \o p2
          /\ oneShot' = << >> /\ multiShot' = << >>
      BY <2>1 DEF RunRxGoodbye
    <3>2. "sessionEnded" \in Errors
      BY DEF Errors
    <3>3. Held(rest) \in SUBSET Handlers /\ Held(multiShot) \in SUBSET Handlers
      BY DEF IndInv, TypeOK, IsMap, Held, Without
    <3> HIDE DEF rest
    <3>4. /\ p1 \in Seq(Tasks) /\ ConnectIndices(p1) = {}
          /\ p2 \in Seq(Tasks) /\ ConnectIndices(p2) = {}
      BY <3>2, <3>3, PostAllConnects
    <3> HIDE DEF p1, p2, q
    <3>5. q \o p1 \in Seq(Tasks) /\ ConnectIndices(q \o p1) = ConnectIndices(q)
      BY <1>1, <3>4, QueueConnects
    <3>6. ConnectIndices((q \o p1) \o p2) = ConnectIndices(q)
      BY <3>4, <3>5, QueueConnects
    <3> QED BY <3>1, <3>6
  <2>2. CASE state = "shuttingDown" /\ key \notin DOMAIN oneShot
    <3>1. strand' = q /\ "goodbye" \in Oversized
      BY <2>2 DEF RunRxGoodbye, LifeInv, HandshakeAwaited
    <3> QED BY <3>1
  <2>3. CASE state # "shuttingDown"
    <3>1. AbortPending("closeRealm", isTerminating, q)
      BY <2>3 DEF RunRxGoodbye
    <3>2. "closeRealm" \in Errors /\ isTerminating \in BOOLEAN
      BY DEF Errors, IndInv, TypeOK
    <3> QED BY <1>1, <3>1, <3>2, AbortConnects
  <2> QED BY <2>1, <2>2, <2>3
<1> HIDE DEF q
<1>3. (~EarlyReconnect => OneConnect)'
  BY <1>1, <1>2, SameConnects
<1> QED BY <1>1, <1>2, <1>3
        DEF LifeInv, TransportPresent, HandshakeAwaited, HandshakeAlone, ReadyToReceive

\* A task of the strand preserves the invariant.
LEMMA RunStrandLife ==
    ASSUME IndInv, LifeInv, RunStrand
    PROVE  LifeInv'
<1> DEFINE t == Head(strand)
           q == Tail(strand)
<1>1. strand # << >>
  BY DEF RunStrand
<1>2. Fewer(q) /\ q \in Seq(Tasks)
  BY <1>1, DequeueConnects
<1>3. CASE RunPosted(t, q)
  BY <1>2, <1>3, IdleLife DEF RunPosted
<1>4. CASE RunConnected(t, q)
  BY <1>1, <1>4, RunConnectedLife
<1>5. CASE RunRxError(t, q)
  BY <1>2, <1>5, FailLife, IdleLife DEF RunRxError
<1>6. CASE RunRxRejected(t, q)
  BY <1>2, <1>6, FailLife DEF RunRxRejected
<1>7. CASE RunRxReply(t, q) \/ RunRxInbound(t, q)
  BY <1>1, <1>7, RunReplyLife, RunInboundLife
<1>8. CASE RunRxWelcome(t, q) \/ RunRxAbort(t, q) \/ RunRxGoodbye(t, q)
  BY <1>1, <1>8, RunWelcomeLife, RunAbortLife, RunGoodbyeLife
<1> QED BY <1>3, <1>4, <1>5, <1>6, <1>7, <1>8 DEF RunStrand

\* The invariant holds when the program starts.
LEMMA InitLife == Init => LifeInv
<1> SUFFICES ASSUME Init PROVE LifeInv
  OBVIOUS
<1>1. ConnectIndices(strand) = {} /\ attempts = {} /\ state = "disconnected"
  BY DEF Init, ConnectIndices
<1>2. DOMAIN oneShot = {} /\ DOMAIN multiShot = {}
  BY DEF Init
<1> QED BY <1>1, <1>2
        DEF LifeInv, TransportPresent, HandshakeAwaited, OneConnect, HandshakeAlone,
            ReadyToReceive

\* Every step preserves the invariant.
LEMMA NextLife == IndInv /\ LifeInv /\ [Next]_vars => LifeInv'
<1> SUFFICES ASSUME IndInv, LifeInv, [Next]_vars PROVE LifeInv'
  OBVIOUS
<1>1. CASE \E h \in Handlers : connect(h) \/ join(h) \/ leave(h)
  BY <1>1, ConnectLife, JoinLife, LeaveLife
<1>2. CASE \E h \in Handlers : publish(h) \/ oneShotCall(h) \/ ongoingCall(h)
  <2>1. TRUE \in BOOLEAN /\ FALSE \in BOOLEAN
    OBVIOUS
  <2>2. PICK h \in Handlers : \/ DoRequest("publish", h, FALSE)
                              \/ DoRequest("call", h, FALSE)
                              \/ DoRequest("call", h, TRUE)
    BY <1>2 DEF publish, oneShotCall, ongoingCall
  <2> QED BY <2>1, <2>2, DoRequestLife
<1>3. CASE \E id \in RequestId, mode \in {"kill", "killnowait", "skip"} : cancelCall(id, mode)
  BY <1>3, CancelLife
<1>4. CASE disconnect \/ terminate
  <2>1. isTerminating \in BOOLEAN /\ TRUE \in BOOLEAN
    BY DEF IndInv, TypeOK
  <2> QED BY <1>4, <2>1, DisconnectLife DEF disconnect, terminate
<1>5. CASE \E a \in attempts, result \in {"ok", "error", "aborted"} : ConnectorCompletes(a, result)
  BY <1>5, ConnectorLife
<1>6. CASE (\E m \in Messages : ReceiveMessage(m)) \/ ReceiveError \/ SendError
  BY <1>6, TransportLife
<1>7. CASE RunStrand
  BY <1>7, RunStrandLife
<1>8. CASE UNCHANGED vars
  BY <1>8 DEF vars, LifeInv, TransportPresent, HandshakeAwaited, OneConnect, HandshakeAlone
<1> QED BY <1>1, <1>2, <1>3, <1>4, <1>5, <1>6, <1>7, <1>8
        DEF Next, UserOperation, IoCompletion

\* The phases of a session, for every set of messages that may be oversized and
\* for users that may or may not connect again early.
THEOREM LifeInvariance == Spec => []LifeInv
<1>1. IndInv /\ LifeInv /\ [Next]_vars => LifeInv'
  BY NextLife
<1> QED BY <1>1, InitLife, Invariance, PTL DEF Spec

\* The assertions transport_ != nullptr of Peer::start, sendMessage and
\* sendRequest hold whenever Client lets an operation reach them.
THEOREM TransportIsPresent == Spec => []TransportPresent
<1>1. LifeInv => TransportPresent
  BY DEF LifeInv
<1> QED BY <1>1, LifeInvariance, PTL

\* A session being established or shut down still has the HELLO or GOODBYE
\* request that will tell its user, when these messages fit the transport.
THEOREM HandshakesAreAwaited == Spec => []HandshakeAwaited
<1>1. LifeInv => HandshakeAwaited
  BY DEF LifeInv
<1> QED BY <1>1, LifeInvariance, PTL

\* No request outlives its session: neither processAbort nor onConnectFailure,
\* which abort nothing, can be reached with a request to lose.
THEOREM RequestsAreNotOrphaned == Spec => []NoOrphanedRequests
<1>1. LifeInv => NoOrphanedRequests
  BY DEF LifeInv, HandshakeAlone, NoOrphanedRequests, Held
<1> QED BY <1>1, LifeInvariance, PTL

=============================================================================
