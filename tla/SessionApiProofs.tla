-------------------------- MODULE SessionApiProofs --------------------------
(***************************************************************************)
(* Machine-checked proofs about SessionApi, for any number of threads and  *)
(* of calls: no completion handler is invoked twice, a state change handler *)
(* is never behind once it was told a state, and terminate() silences the   *)
(* session.                                                                *)
(***************************************************************************)
EXTENDS SessionApi, FiniteSetTheorems, TLAPS

Ops == WithHandler \cup WithFuture \cup Plain \cup {"abort"}

\* The tasks that own a completion handler.
HandlerOps == WithHandler \cup {"abort"}

Operation == [op : Ops, id : Nat]

\* What is pending: a connection attempt may have been cancelled.
Waiter == [op : WithHandler \cup {"cancelled"}, id : Nat]

States == { "disconnected", "connecting", "closed", "establishing", "authenticating",
            "established", "shuttingDown", "failed" }

TypeOK ==
    /\ shared \in BOOLEAN /\ terminating \in BOOLEAN /\ watched \in BOOLEAN
    /\ reading \in BOOLEAN /\ connector \in Nat /\ changed \in BOOLEAN
    /\ state \in States /\ posted \in States \cup {"none"}
    /\ calls \in Nat /\ handed \in Nat
    /\ pending \in SUBSET Waiter
    /\ strand \in Seq(Operation)
    /\ userQueue \in Seq(Nat)
    /\ ready \in SUBSET Nat /\ chits \in BOOLEAN
    /\ waiting \in SUBSET (1 .. calls)

-----------------------------------------------------------------------------
(* Where a handler that is still to be invoked can be *)

PendingOnce(ps) == \A p, q \in ps : p.id = q.id => p = q

HandlerTasks(q) == { i \in 1 .. Len(q) : q[i].op \in HandlerOps }
StrandIds(q) == { q[i].id : i \in HandlerTasks(q) }
StrandOnce(q) == \A i, j \in HandlerTasks(q) : q[i].id = q[j].id => i = j

QueueIds(q) == { q[i] : i \in 1 .. Len(q) }
QueueOnce(q) == \A i, j \in 1 .. Len(q) : q[i] = q[j] => i = j

\* A handler is in one place only, and none of them was invoked yet.
HandlersInv ==
    /\ twice = FALSE
    /\ PendingOnce(pending) /\ StrandOnce(strand) /\ QueueOnce(userQueue)
    /\ PendingIds(pending) \subseteq waiting
    /\ StrandIds(strand) \subseteq waiting
    /\ QueueIds(userQueue) \subseteq waiting
    /\ PendingIds(pending) \cap StrandIds(strand) = {}
    /\ PendingIds(pending) \cap QueueIds(userQueue) = {}
    /\ StrandIds(strand) \cap QueueIds(userQueue) = {}

IndInv == TypeOK /\ StateReported /\ HandlersInv

-----------------------------------------------------------------------------
(* Queues *)

\* Two queues of handlers with none in common, one after the other
LEMMA QueueConcat ==
    ASSUME NEW q \in Seq(Nat), NEW r \in Seq(Nat), QueueOnce(q), QueueOnce(r),
           QueueIds(q) \cap QueueIds(r) = {}
    PROVE  /\ q \o r \in Seq(Nat)
           /\ QueueOnce(q \o r)
           /\ QueueIds(q \o r) = QueueIds(q) \cup QueueIds(r)
<1>1. /\ q \o r \in Seq(Nat) /\ Len(q \o r) = Len(q) + Len(r)
      /\ Len(q) \in Nat /\ Len(r) \in Nat
  OBVIOUS
<1>2. /\ \A i \in 1 .. Len(q) : (q \o r)[i] = q[i]
      /\ \A i \in Len(q) + 1 .. Len(q) + Len(r) : (q \o r)[i] = r[i - Len(q)]
  OBVIOUS
<1>3. \A i \in 1 .. Len(q \o r) :
         \/ i \in 1 .. Len(q)
         \/ i \in Len(q) + 1 .. Len(q) + Len(r) /\ i - Len(q) \in 1 .. Len(r)
  BY <1>1
<1>4. QueueOnce(q \o r)
  <2> SUFFICES ASSUME NEW i \in 1 .. Len(q \o r), NEW j \in 1 .. Len(q \o r),
                      (q \o r)[i] = (q \o r)[j]
               PROVE  i = j
    BY DEF QueueOnce
  <2>1. CASE i \in 1 .. Len(q) /\ j \in 1 .. Len(q)
    BY <1>2, <2>1 DEF QueueOnce
  <2>2. CASE i \notin 1 .. Len(q) /\ j \notin 1 .. Len(q)
    <3>1. /\ i \in Len(q) + 1 .. Len(q) + Len(r) /\ i - Len(q) \in 1 .. Len(r)
          /\ j \in Len(q) + 1 .. Len(q) + Len(r) /\ j - Len(q) \in 1 .. Len(r)
      BY <1>3, <2>2
    <3>2. r[i - Len(q)] = r[j - Len(q)]
      BY <1>2, <3>1
    <3>3. i - Len(q) = j - Len(q)
      BY <3>1, <3>2 DEF QueueOnce
    <3> QED BY <1>1, <3>3
  <2>3. CASE i \in 1 .. Len(q) /\ j \notin 1 .. Len(q)
    BY <1>2, <1>3, <2>3, ZenonT(40) DEF QueueIds
  <2>4. CASE i \notin 1 .. Len(q) /\ j \in 1 .. Len(q)
    BY <1>2, <1>3, <2>4, ZenonT(40) DEF QueueIds
  <2> QED BY <2>1, <2>2, <2>3, <2>4
<1>5. QueueIds(q \o r) = QueueIds(q) \cup QueueIds(r)
  <2>1. QueueIds(q \o r) \subseteq QueueIds(q) \cup QueueIds(r)
    BY <1>2, <1>3 DEF QueueIds
  <2>2. QueueIds(q) \subseteq QueueIds(q \o r)
    <3>1. \A i \in 1 .. Len(q) : i \in 1 .. Len(q \o r) /\ (q \o r)[i] = q[i]
      BY <1>1, <1>2
    <3> QED BY <3>1 DEF QueueIds
  <2>3. ASSUME NEW x \in QueueIds(r)
        PROVE  x \in QueueIds(q \o r)
    <3>1. PICK i \in 1 .. Len(r) : r[i] = x
      BY DEF QueueIds
    <3>2. i + Len(q) \in 1 .. Len(q \o r) /\ (q \o r)[i + Len(q)] = r[i]
      BY <1>1, <1>2
    <3> QED BY <3>1, <3>2 DEF QueueIds
  <2> QED BY <2>1, <2>2, <2>3
<1> QED BY <1>1, <1>4, <1>5

\* Two lists of posted operations with none in common, one after the other
LEMMA StrandConcat ==
    ASSUME NEW q \in Seq(Operation), NEW r \in Seq(Operation), StrandOnce(q), StrandOnce(r),
           StrandIds(q) \cap StrandIds(r) = {}
    PROVE  /\ q \o r \in Seq(Operation)
           /\ StrandOnce(q \o r)
           /\ StrandIds(q \o r) = StrandIds(q) \cup StrandIds(r)
<1>1. /\ q \o r \in Seq(Operation) /\ Len(q \o r) = Len(q) + Len(r)
      /\ Len(q) \in Nat /\ Len(r) \in Nat
  OBVIOUS
<1>2. /\ \A i \in 1 .. Len(q) : (q \o r)[i] = q[i]
      /\ \A i \in Len(q) + 1 .. Len(q) + Len(r) : (q \o r)[i] = r[i - Len(q)]
  OBVIOUS
<1>3. \A i \in HandlerTasks(q \o r) :
         \/ i \in HandlerTasks(q)
         \/ i \in Len(q) + 1 .. Len(q) + Len(r) /\ i - Len(q) \in HandlerTasks(r)
  BY <1>1, <1>2 DEF HandlerTasks
<1>4. /\ \A i \in HandlerTasks(q) : i \in HandlerTasks(q \o r) /\ i \in 1 .. Len(q)
      /\ \A i \in HandlerTasks(r) : i + Len(q) \in HandlerTasks(q \o r) /\ i \in 1 .. Len(r)
  <2>1. \A i \in HandlerTasks(q) : i \in HandlerTasks(q \o r) /\ i \in 1 .. Len(q)
    BY <1>1, <1>2 DEF HandlerTasks
  <2>2. ASSUME NEW i \in HandlerTasks(r)
        PROVE  i + Len(q) \in HandlerTasks(q \o r) /\ i \in 1 .. Len(r)
    <3>1. i \in 1 .. Len(r) /\ i + Len(q) \in Len(q) + 1 .. Len(q) + Len(r)
      BY <1>1 DEF HandlerTasks
    <3>2. (q \o r)[i + Len(q)] = r[i]
      BY <1>1, <1>2, <3>1
    <3> QED BY <1>1, <3>1, <3>2 DEF HandlerTasks
  <2> QED BY <2>1, <2>2
<1>5. StrandOnce(q \o r)
  <2> SUFFICES ASSUME NEW i \in HandlerTasks(q \o r), NEW j \in HandlerTasks(q \o r),
                      (q \o r)[i].id = (q \o r)[j].id
               PROVE  i = j
    BY DEF StrandOnce
  <2>1. CASE i \in HandlerTasks(q) /\ j \in HandlerTasks(q)
    BY <1>2, <1>4, <2>1 DEF StrandOnce
  <2>2. CASE i \notin HandlerTasks(q) /\ j \notin HandlerTasks(q)
    <3>1. i - Len(q) = j - Len(q)
      BY <1>2, <1>3, <2>2 DEF StrandOnce
    <3>2. i \in Nat /\ j \in Nat
      BY DEF HandlerTasks
    <3> QED BY <1>1, <3>1, <3>2
  <2>3. CASE i \in HandlerTasks(q) /\ j \notin HandlerTasks(q)
    <3>1. (q \o r)[i] = q[i] /\ (q \o r)[j] = r[j - Len(q)] /\ j - Len(q) \in HandlerTasks(r)
      BY <1>2, <1>3, <1>4, <2>3
    <3> QED BY <2>3, <3>1 DEF StrandIds
  <2>4. CASE i \notin HandlerTasks(q) /\ j \in HandlerTasks(q)
    <3>1. (q \o r)[j] = q[j] /\ (q \o r)[i] = r[i - Len(q)] /\ i - Len(q) \in HandlerTasks(r)
      BY <1>2, <1>3, <1>4, <2>4
    <3> QED BY <2>4, <3>1 DEF StrandIds
  <2> QED BY <2>1, <2>2, <2>3, <2>4
<1>6. StrandIds(q \o r) = StrandIds(q) \cup StrandIds(r)
  <2>1. StrandIds(q \o r) \subseteq StrandIds(q) \cup StrandIds(r)
    BY <1>2, <1>3, <1>4 DEF StrandIds
  <2>2. StrandIds(q) \subseteq StrandIds(q \o r)
    BY <1>2, <1>4 DEF StrandIds
  <2>3. ASSUME NEW x \in StrandIds(r)
        PROVE  x \in StrandIds(q \o r)
    <3>1. PICK i \in HandlerTasks(r) : r[i].id = x
      BY DEF StrandIds
    <3>2. (q \o r)[i + Len(q)] = r[i]
      BY <1>1, <1>2, <1>4
    <3> QED BY <1>4, <3>1, <3>2 DEF StrandIds
  <2> QED BY <2>1, <2>2, <2>3
<1> QED BY <1>1, <1>5, <1>6

\* The tasks that abortPending posts.
LEMMA AbortTasks ==
    ASSUME NEW s \in Seq(Nat), QueueOnce(s)
    PROVE  LET r == [i \in DOMAIN s |-> Task("abort", s[i])]
           IN  /\ r \in Seq(Operation)
               /\ StrandOnce(r)
               /\ StrandIds(r) = QueueIds(s)
<1> DEFINE r == [i \in DOMAIN s |-> Task("abort", s[i])]
<1>1. DOMAIN s = 1 .. Len(s) /\ Len(s) \in Nat /\ \A i \in 1 .. Len(s) : s[i] \in Nat
  OBVIOUS
<1>2. \A n \in Nat : /\ Task("abort", n) \in Operation
                     /\ Task("abort", n).op \in HandlerOps
                     /\ Task("abort", n).id = n
  BY DEF Task, Operation, Ops, HandlerOps
<1>3. r \in Seq(Operation) /\ Len(r) = Len(s) /\ \A i \in 1 .. Len(s) : r[i] = Task("abort", s[i])
  BY <1>1, <1>2
<1> HIDE DEF r
<1>4. HandlerTasks(r) = 1 .. Len(s)
  BY <1>1, <1>2, <1>3 DEF HandlerTasks
<1>5. StrandOnce(r) /\ StrandIds(r) = QueueIds(s)
  BY <1>1, <1>2, <1>3, <1>4 DEF StrandOnce, StrandIds, QueueOnce, QueueIds
<1> QED BY <1>3, <1>5 DEF r

\* abortPending posts each handler once.
LEMMA AbortOrderLemma ==
    ASSUME NEW ps \in SUBSET Waiter, NEW n \in Nat, PendingIds(ps) \subseteq 1 .. n
    PROVE  /\ AbortOrder(ps) \in Seq(Nat)
           /\ QueueOnce(AbortOrder(ps))
           /\ QueueIds(AbortOrder(ps)) \subseteq PendingIds(ps)
<1> DEFINE S == PendingIds(ps)
           k == Cardinality(S)
           f == AbortOrder(ps)
<1>1. IsFiniteSet(S) /\ S \subseteq Nat
  <2>1. IsFiniteSet(1 .. n)
    BY FS_Interval
  <2>2. IsFiniteSet(S)
    BY <2>1, FS_Subset
  <2> QED BY <2>2
<1>2. k \in Nat /\ ExistsBijection(1 .. k, S)
  BY <1>1, FS_CardinalityType
<1>3. \E g \in [1 .. k -> S] : IsInjective(g)
  BY <1>2 DEF ExistsBijection, Bijection, Injection, IsInjective
<1>4. f = CHOOSE g \in [1 .. k -> S] : IsInjective(g)
  BY DEF AbortOrder, SetToSeq, PendingIds
<1>5. f \in [1 .. k -> S] /\ IsInjective(f)
  BY <1>3, <1>4
<1> HIDE DEF f, S, k
<1>6. f \in Seq(Nat) /\ Len(f) = k
  <2>1. f \in [1 .. k -> Nat]
    BY <1>1, <1>5
  <2> QED BY <1>2, <2>1
<1>7. QueueOnce(f) /\ QueueIds(f) \subseteq S
  BY <1>5, <1>6 DEF QueueOnce, QueueIds, IsInjective
<1> QED BY <1>6, <1>7 DEF f, S

-----------------------------------------------------------------------------
(* The effects of a task *)

Effect ==
    [state : States, terminating : BOOLEAN, watched : BOOLEAN, reading : BOOLEAN,
     connector : Nat, posted : States \cup {"none"}, changed : BOOLEAN,
     pending : SUBSET Waiter, aborts : Seq(Nat), posts : Seq(Nat), dispatches : Seq(Nat),
     drops : SUBSET Nat, ready : SUBSET Nat, chits : BOOLEAN]

\* A change of state will have been told.
Tells(e) == e.watched /\ e.changed /\ ~e.terminating => e.posted = e.state

\* A session that was and is terminating hands no handler over.
Silent(e) == terminating /\ e.terminating => e.posts = << >> /\ e.dispatches = << >>

\* The handlers of what is pending, and those of the set G, each go to one place.
Split(e, G) ==
    /\ PendingOnce(e.pending)
    /\ QueueOnce(e.aborts) /\ QueueOnce(e.posts) /\ QueueOnce(e.dispatches)
    /\ PendingIds(e.pending) \subseteq PendingIds(pending) \cup G
    /\ QueueIds(e.aborts) \subseteq PendingIds(pending) \cup G
    /\ QueueIds(e.posts) \subseteq PendingIds(pending) \cup G
    /\ QueueIds(e.dispatches) \subseteq PendingIds(pending) \cup G
    /\ e.drops \subseteq PendingIds(pending) \cup G
    /\ PendingIds(e.pending) \cap QueueIds(e.aborts) = {}
    /\ PendingIds(e.pending) \cap QueueIds(e.posts) = {}
    /\ PendingIds(e.pending) \cap QueueIds(e.dispatches) = {}
    /\ PendingIds(e.pending) \cap e.drops = {}
    /\ QueueIds(e.aborts) \cap QueueIds(e.posts) = {}
    /\ QueueIds(e.aborts) \cap QueueIds(e.dispatches) = {}
    /\ QueueIds(e.aborts) \cap e.drops = {}
    /\ QueueIds(e.posts) \cap QueueIds(e.dispatches) = {}
    /\ QueueIds(e.posts) \cap e.drops = {}
    /\ QueueIds(e.dispatches) \cap e.drops = {}

Good(e, G) == e \in Effect /\ Tells(e) /\ Silent(e) /\ Split(e, G)

\* An effect that does nothing to the handlers.
Bare(e) ==
    /\ e \in Effect
    /\ e.pending = pending
    /\ e.aborts = << >> /\ e.posts = << >> /\ e.dispatches = << >> /\ e.drops = {}

\* Effects that differ in nothing a handler can notice.
Like(e, f) ==
    /\ f \in Effect
    /\ f.state = e.state /\ f.terminating = e.terminating /\ f.watched = e.watched
    /\ f.posted = e.posted /\ f.changed = e.changed
    /\ f.pending = e.pending /\ f.aborts = e.aborts /\ f.posts = e.posts
    /\ f.dispatches = e.dispatches /\ f.drops = e.drops

\* Such effects are good, and bare, together.
LEMMA LikeGood ==
    ASSUME NEW e, NEW f, Like(e, f), NEW G
    PROVE  /\ Good(e, G) => Good(f, G)
           /\ Bare(e) => Bare(f)
           /\ Tells(e) => Tells(f)
BY DEF Like, Good, Bare, Tells, Silent, Split

\* A queue with no handlers
LEMMA EmptyQueue ==
    /\ << >> \in Seq(Nat)
    /\ QueueOnce(<< >>)
    /\ QueueIds(<< >>) = {}
BY DEF QueueOnce, QueueIds

\* A queue with one handler
LEMMA SingleQueue ==
    ASSUME NEW id \in Nat
    PROVE  /\ << id >> \in Seq(Nat)
           /\ QueueOnce(<< id >>)
           /\ QueueIds(<< id >>) = {id}
<1>1. << id >> \in Seq(Nat) /\ Len(<< id >>) = 1 /\ << id >>[1] = id
  OBVIOUS
<1>2. \A i \in 1 .. 1 : i = 1
  OBVIOUS
<1> QED BY <1>1, <1>2 DEF QueueOnce, QueueIds

\* An operation without an effect
LEMMA NoEffectFields ==
    ASSUME TypeOK
    PROVE  /\ Bare(NoEffect)
           /\ NoEffect.state = state /\ NoEffect.terminating = terminating
           /\ NoEffect.watched = watched /\ NoEffect.posted = posted
           /\ NoEffect.changed = changed
<1>1. << >> \in Seq(Nat)
  OBVIOUS
<1> QED BY <1>1 DEF NoEffect, Bare, Effect, TypeOK

\* Peer::setState tells the handler, and does nothing else.
LEMMA SetStateFields ==
    ASSUME NEW e \in Effect, NEW s \in States
    PROVE  LET f == SetState(e, s)
           IN  /\ f \in Effect /\ f.state = s
               /\ f.terminating = e.terminating /\ f.watched = e.watched
               /\ f.pending = e.pending /\ f.aborts = e.aborts /\ f.posts = e.posts
               /\ f.dispatches = e.dispatches /\ f.drops = e.drops
               /\ e.state # s /\ e.watched /\ ~e.terminating => f.posted = s
               /\ Tells(e) => Tells(f)
<1> DEFINE f == SetState(e, s)
           p == IF e.state # s /\ e.watched /\ ~e.terminating THEN s ELSE e.posted
           c == e.changed \/ (e.watched /\ e.state # s)
<1>1. f = [e EXCEPT !.state = s, !.posted = p, !.changed = c]
  BY DEF SetState
<1>2. p \in States \cup {"none"} /\ c \in BOOLEAN
  BY DEF Effect
<1> HIDE DEF p, f, c
<1>3. /\ f \in Effect /\ f.state = s /\ f.posted = p /\ f.changed = c
      /\ f.terminating = e.terminating /\ f.watched = e.watched
      /\ f.pending = e.pending /\ f.aborts = e.aborts /\ f.posts = e.posts
      /\ f.dispatches = e.dispatches /\ f.drops = e.drops
  BY <1>1, <1>2 DEF Effect
<1>4. Tells(e) => Tells(f)
  BY <1>3 DEF p, c, Tells
<1> QED BY <1>3, <1>4 DEF f, p

\* setState() moves no handler.
LEMMA GoodSetState ==
    ASSUME NEW e, NEW G, Good(e, G), NEW s \in States
    PROVE  LET f == SetState(e, s)
           IN  /\ Good(f, G)
               /\ f.pending = e.pending /\ f.aborts = e.aborts
<1>1. e \in Effect
  BY DEF Good
<1> QED BY <1>1, SetStateFields DEF Good, Silent, Split

\* A bare effect keeps every handler where it is.
LEMMA BareSplit ==
    ASSUME PendingOnce(pending), NEW e, Bare(e), NEW G
    PROVE  Split(e, G) /\ Silent(e)
BY EmptyQueue DEF Bare, Split, Silent

\* The handler of a new operation waits with the pending ones.
LEMMA AwaitsGood ==
    ASSUME IndInv, NEW id \in Nat, id \notin PendingIds(pending), NEW op \in WithHandler,
           NEW e, Bare(e), Tells(e)
    PROVE  Good(Await(e, op, id), {id})
<1> DEFINE f == Await(e, op, id)
           t == Task(op, id)
<1>1. t \in Waiter /\ t.id = id
  BY DEF Task, Waiter
<1>2. /\ f = [e EXCEPT !.pending = e.pending \cup {t}] /\ e \in Effect
      /\ PendingOnce(pending) /\ pending \in SUBSET Waiter
  BY DEF Await, Bare, IndInv, TypeOK, HandlersInv
<1> HIDE DEF t, f
<1>3. /\ f \in Effect /\ f.pending = pending \cup {t}
      /\ f.aborts = << >> /\ f.posts = << >> /\ f.dispatches = << >> /\ f.drops = {}
      /\ f.state = e.state /\ f.terminating = e.terminating
      /\ f.watched = e.watched /\ f.posted = e.posted /\ f.changed = e.changed
  BY <1>1, <1>2 DEF Effect, Bare
<1>4. PendingOnce(f.pending) /\ PendingIds(f.pending) = PendingIds(pending) \cup {id}
  BY <1>1, <1>2, <1>3 DEF PendingOnce, PendingIds
<1>5. Split(f, {id}) /\ Silent(f) /\ Tells(f)
  BY <1>3, <1>4, EmptyQueue DEF Split, Silent, Tells
<1> QED BY <1>3, <1>5 DEF f, Good

\* A handler is posted or dispatched, or dropped when the session is terminating.
LEMMA HandGood ==
    ASSUME NEW e \in Effect, Tells(e), e.terminating = terminating,
           e.aborts = << >>, e.posts = << >>, e.dispatches = << >>, e.drops = {},
           PendingOnce(e.pending), PendingIds(e.pending) \subseteq PendingIds(pending),
           NEW id \in Nat, id \notin PendingIds(e.pending), NEW G,
           id \in PendingIds(pending) \cup G,
           NEW f \in {PostUserHandler(e, id), DispatchUserHandler(e, id),
                      Drop(e, id)}
    PROVE  Good(f, G) /\ f.pending = e.pending /\ f.aborts = << >>
<1> DEFINE u == << id >>
<1>1. u \in Seq(Nat) /\ QueueOnce(u) /\ QueueIds(u) = {id}
  BY SingleQueue
<1>2. \/ f = Drop(e, id)
      \/ f = [e EXCEPT !.posts = u] /\ ~e.terminating
      \/ f = [e EXCEPT !.dispatches = u] /\ ~e.terminating
  BY DEF PostUserHandler, DispatchUserHandler
<1> HIDE DEF u
<1>3. /\ f \in Effect
      /\ f.pending = e.pending /\ f.aborts = << >>
      /\ f.state = e.state /\ f.terminating = e.terminating
      /\ f.watched = e.watched /\ f.posted = e.posted /\ f.changed = e.changed
      /\ \/ f.posts = << >> /\ f.dispatches = << >> /\ f.drops = {id}
         \/ f.posts = u /\ f.dispatches = << >> /\ f.drops = {} /\ ~e.terminating
         \/ f.posts = << >> /\ f.dispatches = u /\ f.drops = {} /\ ~e.terminating
  <2>1. CASE f = Drop(e, id)
    <3> DEFINE d == {id}
    <3>1. f = [e EXCEPT !.drops = d] /\ d \in SUBSET Nat
      BY <2>1 DEF Drop
    <3> HIDE DEF d
    <3>2. /\ f \in Effect
          /\ f.pending = e.pending /\ f.aborts = << >>
          /\ f.state = e.state /\ f.terminating = e.terminating
          /\ f.watched = e.watched /\ f.posted = e.posted /\ f.changed = e.changed
          /\ f.posts = << >> /\ f.dispatches = << >> /\ f.drops = d
      BY <3>1 DEF Effect
    <3> QED BY <3>2 DEF d
  <2>2. CASE f = [e EXCEPT !.posts = u] /\ ~e.terminating
    BY <1>1, <2>2 DEF Effect
  <2>3. CASE f = [e EXCEPT !.dispatches = u] /\ ~e.terminating
    BY <1>1, <2>3 DEF Effect
  <2> QED BY <1>2, <2>1, <2>2, <2>3
<1>4. Split(f, G)
  BY <1>1, <1>3, EmptyQueue DEF Split
<1>5. Tells(f) /\ Silent(f)
  BY <1>3 DEF Tells, Silent
<1> QED BY <1>3, <1>4, <1>5 DEF Good

\* Peer::abortPending posts, or drops, the handler of each request, and leaves the
\* connection attempts alone.
LEMMA AbortPendingGood ==
    ASSUME IndInv, NEW G, NEW e, Good(e, G), e.aborts = << >>,
           PendingIds(e.pending) \subseteq PendingIds(pending)
    PROVE  Good(AbortPending(e), G)
<1> DEFINE a == Attempts(e.pending)
           q == Requests(e.pending)
           o == AbortOrder(q)
           f == AbortPending(e)
<1>1. /\ e \in Effect /\ Tells(e) /\ Silent(e) /\ Split(e, G)
      /\ e.pending \in SUBSET Waiter /\ e.drops \in SUBSET Nat
  BY DEF Good, Effect
<1>2. /\ a \in SUBSET Waiter /\ q \in SUBSET Waiter
      /\ a \subseteq e.pending /\ q \subseteq e.pending /\ a \cap q = {}
  BY <1>1 DEF Attempts, Requests
<1>3. f = [e EXCEPT !.pending = a,
                    !.aborts = IF e.terminating THEN << >> ELSE o,
                    !.drops = IF e.terminating THEN e.drops \cup PendingIds(q) ELSE e.drops]
  BY DEF AbortPending
<1> HIDE DEF a, q, o, f
<1>4. /\ PendingOnce(e.pending) /\ PendingOnce(a)
      /\ PendingIds(a) \subseteq PendingIds(e.pending)
      /\ PendingIds(q) \subseteq PendingIds(e.pending)
      /\ PendingIds(a) \cap PendingIds(q) = {}
  <2>1. PendingOnce(e.pending)
    BY <1>1 DEF Split
  <2> QED BY <1>2, <2>1 DEF PendingOnce, PendingIds
<1>5. /\ calls \in Nat /\ PendingIds(q) \subseteq 1 .. calls
      /\ PendingIds(q) \in SUBSET Nat
  <2>1. /\ calls \in Nat /\ waiting \in SUBSET (1 .. calls)
        /\ PendingIds(pending) \subseteq waiting
    BY DEF IndInv, TypeOK, HandlersInv
  <2>2. PendingIds(q) \subseteq 1 .. calls
    BY <1>4, <2>1
  <2>3. \A i \in 1 .. calls : i \in Nat
    BY <2>1
  <2> QED BY <2>1, <2>2, <2>3
<1>6. o \in Seq(Nat) /\ QueueOnce(o) /\ QueueIds(o) \subseteq PendingIds(q)
  BY <1>2, <1>5, AbortOrderLemma DEF o
<1>7. /\ f \in Effect
      /\ f.pending = a
      /\ f.state = e.state /\ f.terminating = e.terminating
      /\ f.watched = e.watched /\ f.posted = e.posted /\ f.changed = e.changed
      /\ f.posts = e.posts /\ f.dispatches = e.dispatches
      /\ \/ f.aborts = << >> /\ f.drops = e.drops \cup PendingIds(q)
         \/ f.aborts = o /\ f.drops = e.drops
  <2>1. CASE e.terminating
    <3>1. f = [e EXCEPT !.pending = a, !.aborts = << >>, !.drops = e.drops \cup PendingIds(q)]
      BY <1>3, <2>1
    <3>2. << >> \in Seq(Nat) /\ e.drops \cup PendingIds(q) \in SUBSET Nat
      BY <1>1, <1>5
    <3> QED BY <1>1, <1>2, <3>1, <3>2 DEF Effect
  <2>2. CASE ~e.terminating
    <3>1. f = [e EXCEPT !.pending = a, !.aborts = o, !.drops = e.drops]
      BY <1>3, <2>2
    <3> QED BY <1>1, <1>2, <1>6, <3>1 DEF Effect
  <2> QED BY <2>1, <2>2
<1>8. Tells(f) /\ Silent(f)
  BY <1>1, <1>7 DEF Tells, Silent
<1>9. Split(f, G)
  BY <1>1, <1>4, <1>6, <1>7, EmptyQueue DEF Split
<1> QED BY <1>7, <1>8, <1>9 DEF f, Good

\* Client::doDisconnect cancels the attempt, and aborts all that is pending.
LEMMA DisconnectGood ==
    ASSUME IndInv, NEW e, Bare(e), Tells(e), NEW G
    PROVE  Good(Disconnect(e), G)
<1> DEFINE g == SetState(e, "disconnected")
           c == Cancelled(e)
           h == [g EXCEPT !.pending = c]
<1>1. /\ e \in Effect /\ e.pending = pending /\ "disconnected" \in States
      /\ pending \in SUBSET Waiter /\ PendingOnce(pending)
  BY DEF Bare, States, IndInv, TypeOK, HandlersInv
<1>2. /\ g \in Effect /\ Tells(g) /\ g.terminating = e.terminating
      /\ g.aborts = << >> /\ g.posts = << >> /\ g.dispatches = << >> /\ g.drops = {}
  BY <1>1, SetStateFields DEF Bare
<1>3. /\ c \in SUBSET Waiter /\ PendingOnce(c)
      /\ PendingIds(c) \subseteq PendingIds(pending)
  <2>1. \A p \in pending : Task("cancelled", p.id) \in Waiter
    BY <1>1 DEF Task, Waiter
  <2>2. \A p \in pending : Task("cancelled", p.id).id = p.id
    BY DEF Task
  <2>3. \A x \in c : x \in Waiter /\ \E p \in pending : x.id = p.id
    BY <1>1, <2>1, <2>2 DEF Cancelled
  <2>4. c \in SUBSET Waiter /\ PendingIds(c) \subseteq PendingIds(pending)
    BY <2>3 DEF PendingIds
  <2>5. ASSUME NEW x \in c, NEW y \in c, x.id = y.id
        PROVE  x = y
    <3>1. PICK p \in pending : x = IF e.state = "connecting" /\ p = Task("connect", e.connector)
                                   THEN Task("cancelled", p.id) ELSE p
      BY <1>1 DEF Cancelled
    <3>2. PICK q \in pending : y = IF e.state = "connecting" /\ q = Task("connect", e.connector)
                                   THEN Task("cancelled", q.id) ELSE q
      BY <1>1 DEF Cancelled
    <3>3. x.id = p.id /\ y.id = q.id
      BY <2>2, <3>1, <3>2
    <3>4. p = q
      BY <1>1, <2>5, <3>3 DEF PendingOnce
    <3> QED BY <3>1, <3>2, <3>4
  <2> QED BY <2>4, <2>5 DEF PendingOnce
<1> HIDE DEF g, c
<1>4. /\ h \in Effect /\ h.pending = c
      /\ h.aborts = << >> /\ h.posts = << >> /\ h.dispatches = << >> /\ h.drops = {}
      /\ h.state = g.state /\ h.terminating = g.terminating
      /\ h.watched = g.watched /\ h.posted = g.posted /\ h.changed = g.changed
  BY <1>2, <1>3 DEF Effect
<1> HIDE DEF h
<1>5. Good(h, G)
  <2>1. Tells(h) /\ Silent(h)
    BY <1>2, <1>4 DEF Tells, Silent
  <2>2. Split(h, G)
    BY <1>3, <1>4, EmptyQueue DEF Split
  <2> QED BY <1>4, <2>1, <2>2 DEF Good
<1>6. Good(AbortPending(h), G)
  BY <1>3, <1>4, <1>5, AbortPendingGood
<1> QED BY <1>6 DEF Disconnect, h, g, c

\* The end of the session, or the loss of its transport, aborts what is pending.
LEMMA EndGood ==
    ASSUME IndInv, NEW G, NEW e, Good(e, G), e.aborts = << >>,
           PendingIds(e.pending) \subseteq PendingIds(pending)
    PROVE  Good(Closed(e), G) /\ Good(Failed(e), G)
<1>1. "closed" \in States /\ "failed" \in States
  BY DEF States
<1>2. \A s \in States : Good(AbortPending(SetState(e, s)), G)
  BY GoodSetState, AbortPendingGood
<1> QED BY <1>1, <1>2 DEF Closed, Failed

\* NoEffect, and what the rejection of an operation adds to it.
LEMMA NoEffectGood ==
    ASSUME IndInv, NEW G
    PROVE  /\ Good(NoEffect, G)
           /\ Bare(NoEffect) /\ NoEffect \in Effect /\ Tells(NoEffect)
           /\ NoEffect.terminating = terminating /\ NoEffect.state = state
<1>1. /\ Bare(NoEffect)
      /\ NoEffect.state = state /\ NoEffect.terminating = terminating
      /\ NoEffect.watched = watched /\ NoEffect.posted = posted
      /\ NoEffect.changed = changed
  BY NoEffectFields DEF IndInv
<1>2. Tells(NoEffect)
  BY <1>1 DEF IndInv, StateReported, Tells
<1>3. Split(NoEffect, G) /\ Silent(NoEffect)
  BY <1>1, BareSplit DEF IndInv, HandlersInv
<1> QED BY <1>1, <1>2, <1>3 DEF Good, Bare

\* A handler that is posted, dispatched or dropped goes to one place.
LEMMA UserHandlerGood ==
    ASSUME IndInv, NEW id \in Nat, id \notin PendingIds(pending),
           NEW f \in {PostUserHandler(NoEffect, id), DispatchUserHandler(NoEffect, id),
                      Drop(NoEffect, id)}
    PROVE  Good(f, {id})
<1> DEFINE e == NoEffect
<1>1. /\ Bare(e) /\ e \in Effect /\ Tells(e)
      /\ e.terminating = terminating
  BY NoEffectGood
<1>2. f \in {PostUserHandler(e, id), DispatchUserHandler(e, id), Drop(e, id)}
  OBVIOUS
<1> HIDE DEF e
<1>3. /\ e.aborts = << >> /\ e.posts = << >> /\ e.dispatches = << >> /\ e.drops = {}
      /\ PendingOnce(e.pending) /\ PendingIds(e.pending) = PendingIds(pending)
  BY <1>1 DEF Bare, IndInv, HandlersInv
<1>4. id \notin PendingIds(e.pending) /\ id \in PendingIds(pending) \cup {id}
      /\ PendingIds(e.pending) \subseteq PendingIds(pending)
  BY <1>3
<1> QED BY <1>1, <1>2, <1>3, <1>4, HandGood, ZenonT(40)

\* setState() moves no handler, and tells who watches.
LEMMA BareSetState ==
    ASSUME NEW e, Bare(e), Tells(e), NEW s \in States
    PROVE  Bare(SetState(e, s)) /\ Tells(SetState(e, s))
BY SetStateFields DEF Bare


\* An attempt that the session's connector is now.
LEMMA AttemptGood ==
    ASSUME NEW e, NEW id \in Nat, NEW G, Good(Await(e, "connect", id), G)
    PROVE  Good(Attempt(e, id), G)
<1> DEFINE w == Await(e, "connect", id)
           f == [w EXCEPT !.connector = id]
<1>1. Good(w, G) /\ w \in Effect
  BY DEF Good
<1>2. Attempt(e, id) = f
  BY DEF Attempt
<1> HIDE DEF w
<1>3. Like(w, f)
  BY <1>1 DEF Like, Effect
<1> QED BY <1>1, <1>2, <1>3, LikeGood

\* Client::connect also ends the termination: it announces the new state itself.
LEMMA ConnectGood ==
    ASSUME IndInv, NEW id \in Nat, id \notin PendingIds(pending), state = "disconnected"
    PROVE  Good(Connect(id), {id})
<1> DEFINE n == NoEffect
           e == [n EXCEPT !.terminating = FALSE]
           g == SetState(e, "connecting")
<1>1. Bare(n) /\ n \in Effect /\ n.state = "disconnected"
  BY NoEffectGood
<1> HIDE DEF n
<1>2. Bare(e) /\ e.state = "disconnected" /\ ~e.terminating
  BY <1>1 DEF Bare, Effect
<1> HIDE DEF e
<1>3. "connecting" \in States /\ e \in Effect /\ "connecting" # "disconnected"
  BY <1>2 DEF Bare, States
<1>4. /\ Bare(g) /\ g.state = "connecting"
      /\ g.watched => g.posted = "connecting"
  BY <1>2, <1>3, SetStateFields DEF Bare
<1>5. Tells(g)
  BY <1>4 DEF Tells
<1> HIDE DEF g
<1>6. "connect" \in WithHandler
  BY DEF WithHandler
<1>7. Good(Await(g, "connect", id), {id})
  BY <1>4, <1>5, <1>6, AwaitsGood
<1> QED BY <1>7, AttemptGood DEF Connect, g, e, n

\* The chits and the futures an effect sets are no business of the handlers.
LEMMA MarksGood ==
    ASSUME NEW e, NEW G, Good(e, G), NEW S \in SUBSET Nat
    PROVE  Good([e EXCEPT !.ready = S], G) /\ Good([e EXCEPT !.chits = TRUE], G)
<1>1. e \in Effect
  BY DEF Good
<1>2. Like(e, [e EXCEPT !.ready = S]) /\ Like(e, [e EXCEPT !.chits = TRUE])
  BY <1>1 DEF Like, Effect
<1> QED BY <1>2, LikeGood

\* A request hands its handler on, or keeps it pending.
LEMMA RequestGood ==
    ASSUME IndInv, NEW id \in Nat, id \notin PendingIds(pending)
    PROVE  Good(Request(id), {id})
<1>1. "request" \in WithHandler
  BY DEF WithHandler
<1> QED BY <1>1, AwaitsGood, NoEffectGood DEF Request

\* Client::join also starts the transport.
LEMMA JoinGood ==
    ASSUME IndInv, NEW id \in Nat, id \notin PendingIds(pending)
    PROVE  Good(Join(id), {id}) /\ Good(Leave(id), {id})
<1>1. /\ "establishing" \in States /\ "shuttingDown" \in States
      /\ "join" \in WithHandler /\ "leave" \in WithHandler
  BY DEF WithHandler, States
<1>2. \A s \in States : Bare(SetState(NoEffect, s)) /\ Tells(SetState(NoEffect, s))
  BY NoEffectGood, BareSetState
<1> DEFINE e == SetState(NoEffect, "establishing")
           f == [e EXCEPT !.reading = TRUE]
<1>3. Bare(e) /\ Tells(e)
  BY <1>1, <1>2
<1> HIDE DEF e
<1>4. Like(e, f)
  BY <1>3 DEF Like, Bare, Effect
<1>5. Bare(f) /\ Tells(f)
  BY <1>3, <1>4, LikeGood
<1> HIDE DEF f
<1>6. Good(Await(f, "join", id), {id})
  BY <1>1, <1>5, AwaitsGood
<1>7. Good(Leave(id), {id})
  BY <1>1, <1>2, AwaitsGood DEF Leave
<1> QED BY <1>6, <1>7 DEF Join, e, f

\* setStateChangeHandler tells nothing, and nothing has changed since.
LEMMA WatchGood ==
    ASSUME IndInv, NEW G
    PROVE  Good(Watch, G)
<1> DEFINE e == NoEffect
           f == [e EXCEPT !.watched = TRUE, !.posted = "none", !.changed = FALSE]
<1>1. Bare(e) /\ e \in Effect /\ PendingOnce(pending)
  BY NoEffectGood DEF IndInv, HandlersInv
<1>2. Watch = f
  BY DEF Watch
<1> HIDE DEF e
<1>3. /\ f \in Effect /\ f.changed = FALSE
      /\ f.drops = {} /\ f.pending = pending
      /\ f.aborts = << >> /\ f.posts = << >> /\ f.dispatches = << >>
  BY <1>1 DEF Effect, Bare
<1> HIDE DEF f
<1>4. Bare(f) /\ Tells(f)
  BY <1>3 DEF Bare, Tells
<1>5. Split(f, G) /\ Silent(f)
  BY <1>1, <1>4, BareSplit
<1> QED BY <1>2, <1>3, <1>4, <1>5 DEF Good

\* terminate() moves every pending handler to one place.
LEMMA TerminateGood ==
    ASSUME IndInv, NEW G
    PROVE  Good(Terminate, G)
<1> DEFINE n == NoEffect
           e == [n EXCEPT !.terminating = TRUE]
<1>1. Bare(n)
  BY NoEffectGood
<1> HIDE DEF n
<1>2. Bare(e) /\ e.terminating
  BY <1>1 DEF Bare, Effect
<1> HIDE DEF e
<1>3. Good(Disconnect(e), G)
  BY <1>2, DisconnectGood DEF Tells
<1> QED BY <1>3 DEF Terminate, e, n

\* The ids whose handler a task owns.
Owned(task) == IF task.op \in HandlerOps THEN {task.id} ELSE {}

\* Whatever a task does on the strand is good.
LEMMA EffectsGood ==
    ASSUME IndInv, NEW task \in Operation, Owned(task) \cap PendingIds(pending) = {},
           NEW e \in Effects(task)
    PROVE  Good(e, Owned(task))
<1> DEFINE id == task.id
           op == task.op
<1>1. id \in Nat /\ op \in Ops
  BY DEF Operation
<1>2. op \in HandlerOps => id \notin PendingIds(pending) /\ Owned(task) = {id}
  BY DEF Owned
<1>3. CASE op \in WithHandler \ {"cleanup"} /\ state # Expected(op)
  <2>1. e \in {PostUserHandler(NoEffect, id)}
    BY <1>3 DEF Effects, WithHandler
  <2> QED BY <1>1, <1>2, <1>3, <2>1, UserHandlerGood DEF HandlerOps
<1>4. CASE op = "connect" /\ state = Expected(op)
  <2>1. state = "disconnected" /\ e = Connect(id)
    BY <1>4 DEF Effects, Expected
  <2> QED BY <1>1, <1>2, <1>4, <2>1, ConnectGood DEF HandlerOps, WithHandler
<1>5. CASE op \in {"join", "leave"} /\ state = Expected(op)
  <2>1. e = Join(id) \/ e = Leave(id)
    BY <1>5 DEF Effects
  <2>2. id \notin PendingIds(pending) /\ Owned(task) = {id}
    BY <1>2, <1>5 DEF HandlerOps, WithHandler
  <2> QED BY <1>1, <2>1, <2>2, JoinGood
<1>6. CASE op \in {"request", "chit"} /\ state = Expected(op)
  <2>1. e = Request(id) \/ e = [Request(id) EXCEPT !.chits = TRUE]
    BY <1>6 DEF Effects
  <2> DEFINE r == Request(id)
  <2>2. Good(r, Owned(task))
    BY <1>1, <1>2, <1>6, RequestGood DEF HandlerOps, WithHandler
  <2>3. e = r \/ e = [r EXCEPT !.chits = TRUE]
    BY <2>1
  <2> HIDE DEF r
  <2>4. {} \in SUBSET Nat
    OBVIOUS
  <2>5. Good([r EXCEPT !.chits = TRUE], Owned(task))
    BY <2>2, <2>4, MarksGood
  <2> QED BY <2>2, <2>3, <2>5
<1>7. CASE op = "cleanup"
  <2>1. \/ e = PostUserHandler(NoEffect, id)
        \/ e = Drop(NoEffect, id)
        \/ e = Request(id)
    BY <1>7 DEF Effects, Cleanups
  <2>2. id \notin PendingIds(pending) /\ Owned(task) = {id}
    BY <1>2, <1>7 DEF HandlerOps, WithHandler
  <2> QED BY <1>1, <2>1, <2>2, UserHandlerGood, RequestGood
<1>8. CASE op = "future"
  <2>1. e = [NoEffect EXCEPT !.ready = {id}] /\ {id} \in SUBSET Nat
    BY <1>1, <1>8 DEF Effects, Future, WithHandler
  <2> QED BY <2>1, NoEffectGood, MarksGood
<1>9. CASE op = "disconnect"
  <2>1. e = Disconnect(NoEffect)
    BY <1>9 DEF Effects, WithHandler
  <2> QED BY <2>1, NoEffectGood, DisconnectGood
<1>10. CASE op = "terminate"
  <2>1. e = Terminate
    BY <1>10 DEF Effects, WithHandler
  <2> QED BY <2>1, TerminateGood
<1>11. CASE op = "watch"
  <2>1. e = Watch
    BY <1>11 DEF Effects, WithHandler
  <2> QED BY <2>1, WatchGood
<1>12. CASE op = "quiet"
  <2>1. e = NoEffect
    BY <1>12 DEF Effects, WithHandler
  <2> QED BY <2>1, NoEffectGood
<1>13. CASE op = "abort"
  <2>1. e = DispatchUserHandler(NoEffect, id)
    BY <1>13 DEF Effects, Abort, WithHandler
  <2> QED BY <1>1, <1>2, <1>13, <2>1, UserHandlerGood DEF HandlerOps
<1> QED BY <1>1, <1>3, <1>4, <1>5, <1>6, <1>7, <1>8, <1>9, <1>10, <1>11, <1>12, <1>13
        DEF Ops, WithHandler, WithFuture, Plain

\* What is pending is settled: its handler is held by the step alone.
LEMMA SettleFields ==
    ASSUME IndInv, NEW p \in pending
    PROVE  LET e == Settle(NoEffect, p)
           IN  /\ e \in Effect /\ Tells(e) /\ e.terminating = terminating /\ e.state = state
               /\ e.pending = pending \ {p}
               /\ e.aborts = << >> /\ e.posts = << >> /\ e.dispatches = << >> /\ e.drops = {}
               /\ PendingOnce(e.pending)
               /\ PendingIds(e.pending) \subseteq PendingIds(pending)
               /\ p.id \in Nat /\ p.id \in PendingIds(pending)
               /\ p.id \notin PendingIds(e.pending)
<1> DEFINE n == NoEffect
           e == [n EXCEPT !.pending = n.pending \ {p}]
<1>1. /\ pending \in SUBSET Waiter /\ PendingOnce(pending)
      /\ p.id \in Nat /\ p.id \in PendingIds(pending)
  BY DEF IndInv, TypeOK, HandlersInv, Waiter, PendingIds
<1>2. /\ Bare(n) /\ n \in Effect /\ Tells(n)
      /\ n.terminating = terminating /\ n.state = state
  BY NoEffectGood
<1>3. Settle(NoEffect, p) = e
  BY DEF Settle
<1> HIDE DEF n
<1>4. /\ e \in Effect /\ e.pending = pending \ {p}
      /\ e.aborts = << >> /\ e.posts = << >> /\ e.dispatches = << >> /\ e.drops = {}
      /\ e.state = n.state /\ e.terminating = terminating
      /\ e.watched = n.watched /\ e.posted = n.posted /\ e.changed = n.changed
  BY <1>1, <1>2 DEF Bare, Effect
<1> HIDE DEF e
<1>5. /\ PendingOnce(e.pending)
      /\ PendingIds(e.pending) \subseteq PendingIds(pending)
      /\ p.id \notin PendingIds(e.pending)
  BY <1>1, <1>4 DEF PendingOnce, PendingIds
<1>6. Tells(e)
  BY <1>2, <1>4 DEF Tells
<1> QED BY <1>1, <1>2, <1>3, <1>4, <1>5, <1>6

\* Whatever a reply does is good.
LEMMA RepliesGood ==
    ASSUME IndInv, NEW p \in pending, NEW f \in Replies(p)
    PROVE  Good(f, {})
<1> DEFINE g == Settle(NoEffect, p)
           e == DispatchUserHandler(g, p.id)
<1>1. /\ g \in Effect /\ Tells(g) /\ g.terminating = terminating
      /\ g.aborts = << >> /\ g.posts = << >> /\ g.dispatches = << >> /\ g.drops = {}
      /\ PendingOnce(g.pending)
      /\ PendingIds(g.pending) \subseteq PendingIds(pending)
      /\ p.id \in Nat /\ p.id \in PendingIds(pending)
      /\ p.id \notin PendingIds(g.pending)
  BY SettleFields
<1>2. f = e \/ (\E s \in States : f = SetState(e, s)) \/ f = Closed(e)
  <2>1. "closed" \in States /\ "established" \in States
    BY DEF States
  <2>2. CASE p.op = "join"
    BY <2>1, <2>2 DEF Replies
  <2>3. CASE p.op = "leave"
    BY <2>3 DEF Replies
  <2>4. CASE p.op \notin {"join", "leave"}
    BY <2>4 DEF Replies
  <2> QED BY <2>2, <2>3, <2>4
<1> HIDE DEF g
<1>3. Good(e, {}) /\ e.pending = g.pending /\ e.aborts = << >>
  BY <1>1, HandGood
<1> HIDE DEF e
<1>4. \A s \in States : Good(SetState(e, s), {})
  BY <1>3, GoodSetState
<1>5. Good(Closed(e), {})
  BY <1>1, <1>3, EndGood
<1> QED BY <1>2, <1>3, <1>4, <1>5

\* An attempt that is pending again is the same place for its handler.
LEMMA AgainGood ==
    ASSUME IndInv, NEW p \in pending
    PROVE  Good(Await(Settle(NoEffect, p), "connect", p.id), {})
<1> DEFINE g == Settle(NoEffect, p)
           t == Task("connect", p.id)
           f == [g EXCEPT !.pending = g.pending \cup {t}]
<1>1. /\ g \in Effect /\ Tells(g) /\ g.terminating = terminating
      /\ g.aborts = << >> /\ g.posts = << >> /\ g.dispatches = << >> /\ g.drops = {}
      /\ PendingOnce(g.pending)
      /\ PendingIds(g.pending) \subseteq PendingIds(pending)
      /\ p.id \in Nat /\ p.id \in PendingIds(pending)
      /\ p.id \notin PendingIds(g.pending)
  BY SettleFields
<1>2. Await(g, "connect", p.id) = f
  BY DEF Await
<1>3. t \in Waiter /\ t.id = p.id
  BY <1>1 DEF Task, Waiter, WithHandler
<1> HIDE DEF g, t
<1>4. /\ f \in Effect /\ f.pending = g.pending \cup {t}
      /\ f.aborts = << >> /\ f.posts = << >> /\ f.dispatches = << >> /\ f.drops = {}
      /\ f.state = g.state /\ f.terminating = g.terminating
      /\ f.watched = g.watched /\ f.posted = g.posted /\ f.changed = g.changed
  BY <1>1, <1>3 DEF Effect
<1> HIDE DEF f
<1>5. PendingOnce(f.pending) /\ PendingIds(f.pending) \subseteq PendingIds(pending)
  BY <1>1, <1>3, <1>4 DEF PendingOnce, PendingIds
<1>6. Tells(f) /\ Silent(f)
  BY <1>1, <1>4 DEF Tells, Silent
<1>7. Split(f, {})
  BY <1>4, <1>5, EmptyQueue DEF Split
<1>8. Good(f, {})
  BY <1>4, <1>6, <1>7 DEF Good
<1> QED BY <1>2, <1>8 DEF g

\* However a connection attempt ends, its handler goes to one place.
LEMMA OutcomesGood ==
    ASSUME IndInv, NEW p \in pending, NEW f \in Outcomes(p)
    PROVE  Good(f, {})
<1> DEFINE e == Settle(NoEffect, p)
           c == SetState(e, "closed")
           o == [c EXCEPT !.reading = FALSE]
           x == SetState(e, "failed")
<1>1. /\ e \in Effect /\ Tells(e) /\ e.terminating = terminating
      /\ e.aborts = << >> /\ e.posts = << >> /\ e.dispatches = << >> /\ e.drops = {}
      /\ PendingOnce(e.pending)
      /\ PendingIds(e.pending) \subseteq PendingIds(pending)
      /\ p.id \in Nat /\ p.id \in PendingIds(pending)
      /\ p.id \notin PendingIds(e.pending)
  BY SettleFields
<1>2. Good(Attempt(e, p.id), {})
  BY <1>1, AgainGood, AttemptGood
<1>3. \/ f = Drop(e, p.id)
      \/ f = DispatchUserHandler(o, p.id)
      \/ f = PostUserHandler(e, p.id)
      \/ f = DispatchUserHandler(x, p.id)
      \/ f = Attempt(e, p.id)
      \/ f = DispatchUserHandler(e, p.id)
  BY DEF Outcomes
<1> HIDE DEF e
<1>4. "closed" \in States /\ "failed" \in States
  BY DEF States
<1>5. /\ c \in Effect /\ Tells(c) /\ c.terminating = terminating /\ c.pending = e.pending
      /\ c.aborts = << >> /\ c.posts = << >> /\ c.dispatches = << >> /\ c.drops = {}
  BY <1>1, <1>4, SetStateFields
<1>6. /\ x \in Effect /\ Tells(x) /\ x.terminating = terminating /\ x.pending = e.pending
      /\ x.aborts = << >> /\ x.posts = << >> /\ x.dispatches = << >> /\ x.drops = {}
  BY <1>1, <1>4, SetStateFields
<1> HIDE DEF c, x
<1>7. Like(c, o)
  BY <1>5 DEF Like, Effect
<1> HIDE DEF o
<1>8. /\ o \in Effect /\ Tells(o) /\ o.terminating = terminating /\ o.pending = e.pending
      /\ o.aborts = << >> /\ o.posts = << >> /\ o.dispatches = << >> /\ o.drops = {}
  BY <1>5, <1>7, LikeGood DEF Like
<1>9. ASSUME NEW g \in {e, o, x},
             f \in {PostUserHandler(g, p.id), DispatchUserHandler(g, p.id),
                    Drop(g, p.id)}
      PROVE  Good(f, {})
  <2>1. /\ g \in Effect /\ Tells(g) /\ g.terminating = terminating /\ g.pending = e.pending
        /\ g.aborts = << >> /\ g.posts = << >> /\ g.dispatches = << >> /\ g.drops = {}
    BY <1>1, <1>6, <1>8, <1>9
  <2>2. /\ PendingOnce(g.pending) /\ PendingIds(g.pending) \subseteq PendingIds(pending)
        /\ p.id \notin PendingIds(g.pending) /\ p.id \in PendingIds(pending) \cup {}
    BY <1>1, <2>1
  <2> QED BY <1>1, <1>9, <2>1, <2>2, HandGood, ZenonT(40)
<1>10. \/ f = Attempt(e, p.id)
       \/ \E g \in {e, o, x} : f \in {PostUserHandler(g, p.id), DispatchUserHandler(g, p.id),
                                      Drop(g, p.id)}
  BY <1>3, Zenon
<1> QED BY <1>2, <1>9, <1>10

-----------------------------------------------------------------------------
(* The steps *)

\* A good effect keeps the invariant, and keeps a terminating session silent.
LEMMA ApplyInv ==
    ASSUME IndInv, NEW e, NEW G, Good(e, G), NEW rest \in Seq(Operation), NEW before,
           StrandOnce(rest), G \cap PendingIds(pending) = {},
           StrandIds(rest) \subseteq before, QueueIds(userQueue) \subseteq before,
           PendingIds(pending) \subseteq before, G \subseteq before,
           StrandIds(rest) \cap PendingIds(pending) = {},
           StrandIds(rest) \cap QueueIds(userQueue) = {},
           StrandIds(rest) \cap G = {}, G \cap QueueIds(userQueue) = {},
           calls' \in Nat, before \subseteq 1 .. calls', shared' = shared,
           Apply(e, rest, before)
    PROVE  IndInv' /\ (terminating /\ terminating' => handed' = handed)
<1> DEFINE a == [i \in DOMAIN e.aborts |-> Task("abort", e.aborts[i])]
           d == IF shared THEN << >> ELSE e.dispatches
           invoked == IF shared THEN Range(e.dispatches) ELSE {}
<1>1. e \in Effect /\ Tells(e) /\ Silent(e) /\ Split(e, G)
  BY DEF Good
<1>2. /\ state' = e.state /\ terminating' = e.terminating /\ watched' = e.watched
      /\ reading' = e.reading /\ connector' = e.connector
      /\ posted' = e.posted /\ changed' = e.changed
      /\ pending' = e.pending
      /\ strand' = rest \o a
      /\ ready' = ready \cup { id \in e.ready : \E t \in Threads : getting[t] = id }
      /\ chits' = (chits \/ e.chits)
      /\ handed' = handed + Len(e.posts) + Len(e.dispatches)
      /\ userQueue' = (userQueue \o e.posts) \o d
      /\ waiting' = (before \ invoked) \ e.drops
      /\ twice' = (twice \/ ~(invoked \subseteq before))
  BY DEF Apply
<1>3. /\ e.state \in States /\ e.posted \in States \cup {"none"}
      /\ e.terminating \in BOOLEAN /\ e.watched \in BOOLEAN /\ e.changed \in BOOLEAN
      /\ e.reading \in BOOLEAN /\ e.connector \in Nat
      /\ e.pending \in SUBSET Waiter
      /\ e.aborts \in Seq(Nat) /\ e.posts \in Seq(Nat) /\ e.dispatches \in Seq(Nat)
      /\ e.ready \in SUBSET Nat /\ e.chits \in BOOLEAN
  BY <1>1 DEF Effect
<1>4. /\ QueueOnce(e.aborts) /\ QueueOnce(e.posts) /\ QueueOnce(e.dispatches)
      /\ PendingOnce(e.pending)
      /\ QueueIds(e.aborts) \subseteq PendingIds(pending) \cup G
      /\ QueueIds(e.posts) \subseteq PendingIds(pending) \cup G
      /\ QueueIds(e.dispatches) \subseteq PendingIds(pending) \cup G
      /\ QueueIds(e.posts) \cap QueueIds(e.dispatches) = {}
  BY <1>1 DEF Split
<1>5. /\ a \in Seq(Operation) /\ StrandOnce(a)
      /\ StrandIds(a) = QueueIds(e.aborts)
  BY <1>3, <1>4, AbortTasks
<1>6. Range(e.dispatches) = QueueIds(e.dispatches)
  <2>1. DOMAIN e.dispatches = 1 .. Len(e.dispatches)
    BY <1>3
  <2> QED BY <2>1 DEF Range, QueueIds
<1>7. /\ d \in Seq(Nat) /\ QueueOnce(d)
      /\ shared => QueueIds(d) = {} /\ invoked = QueueIds(e.dispatches)
      /\ ~shared => QueueIds(d) = QueueIds(e.dispatches) /\ invoked = {}
  BY <1>3, <1>4, <1>6, EmptyQueue
<1> HIDE DEF a, d, invoked
<1>8. /\ strand' \in Seq(Operation) /\ StrandOnce(strand')
      /\ StrandIds(strand') = StrandIds(rest) \cup QueueIds(e.aborts)
  <2>1. StrandIds(rest) \cap StrandIds(a) = {}
    BY <1>4, <1>5
  <2> QED BY <1>2, <1>5, <2>1, StrandConcat
<1>9. /\ userQueue' \in Seq(Nat) /\ QueueOnce(userQueue')
      /\ QueueIds(userQueue') = QueueIds(userQueue) \cup QueueIds(e.posts) \cup QueueIds(d)
  <2>1. /\ userQueue \in Seq(Nat) /\ QueueOnce(userQueue)
        /\ QueueIds(userQueue) \cap PendingIds(pending) = {}
    BY DEF IndInv, TypeOK, HandlersInv
  <2>2. QueueIds(userQueue) \cap QueueIds(e.posts) = {}
    BY <1>4, <2>1
  <2>3. /\ userQueue \o e.posts \in Seq(Nat) /\ QueueOnce(userQueue \o e.posts)
        /\ QueueIds(userQueue \o e.posts) = QueueIds(userQueue) \cup QueueIds(e.posts)
    BY <1>3, <1>4, <2>1, <2>2, QueueConcat
  <2>4. QueueIds(userQueue \o e.posts) \cap QueueIds(d) = {}
    BY <1>4, <1>7, <2>1, <2>3
  <2> QED BY <1>2, <1>7, <2>3, <2>4, QueueConcat
<1>10. /\ e.drops \subseteq PendingIds(pending) \cup G
       /\ PendingIds(e.pending) \subseteq PendingIds(pending) \cup G
       /\ PendingIds(e.pending) \cap QueueIds(e.aborts) = {}
       /\ PendingIds(e.pending) \cap QueueIds(e.posts) = {}
       /\ PendingIds(e.pending) \cap QueueIds(e.dispatches) = {}
       /\ PendingIds(e.pending) \cap e.drops = {}
       /\ QueueIds(e.aborts) \cap QueueIds(e.posts) = {}
       /\ QueueIds(e.aborts) \cap QueueIds(e.dispatches) = {}
       /\ QueueIds(e.aborts) \cap e.drops = {}
       /\ QueueIds(e.posts) \cap e.drops = {}
       /\ QueueIds(e.dispatches) \cap e.drops = {}
  BY <1>1 DEF Split
<1>11. QueueIds(userQueue) \cap PendingIds(pending) = {} /\ twice = FALSE
  BY DEF IndInv, HandlersInv
<1>12. HandlersInv'
  <2>1. twice' = FALSE
    BY <1>2, <1>4, <1>7, <1>11
  <2>2. PendingOnce(pending') /\ StrandOnce(strand') /\ QueueOnce(userQueue')
    BY <1>2, <1>4, <1>8, <1>9
  <2>3. PendingIds(pending') \subseteq waiting'
    BY <1>2, <1>7, <1>10
  <2>4. StrandIds(strand') \subseteq waiting'
    BY <1>2, <1>4, <1>7, <1>8, <1>10
  <2>5. QueueIds(userQueue') \subseteq waiting'
    BY <1>2, <1>4, <1>7, <1>9, <1>10, <1>11
  <2>6. /\ PendingIds(pending') \cap StrandIds(strand') = {}
        /\ PendingIds(pending') \cap QueueIds(userQueue') = {}
    BY <1>2, <1>7, <1>8, <1>9, <1>10, <1>11
  <2>7. StrandIds(strand') \cap QueueIds(userQueue') = {}
    BY <1>2, <1>4, <1>7, <1>8, <1>9, <1>10, <1>11
  <2> QED BY <2>1, <2>2, <2>3, <2>4, <2>5, <2>6, <2>7 DEF HandlersInv
<1>13. TypeOK'
  <2>1. handed' \in Nat
    <3>1. handed \in Nat /\ Len(e.posts) \in Nat /\ Len(e.dispatches) \in Nat
      BY <1>3 DEF IndInv, TypeOK
    <3>2. handed' = handed + Len(e.posts) + Len(e.dispatches)
      BY <1>2
    <3>3. \A i, j, k \in Nat : i + j + k \in Nat
      OBVIOUS
    <3> QED BY <3>1, <3>2, <3>3, Zenon
  <2>2. waiting' \in SUBSET (1 .. calls') /\ shared' \in BOOLEAN
    BY <1>2 DEF IndInv, TypeOK
  <2>3. ready' \in SUBSET Nat /\ chits' \in BOOLEAN
    BY <1>2, <1>3 DEF IndInv, TypeOK
  <2> QED BY <1>2, <1>3, <1>8, <1>9, <2>1, <2>2, <2>3 DEF TypeOK
<1>14. StateReported'
  BY <1>1, <1>2 DEF Tells, StateReported
<1>15. terminating /\ terminating' => handed' = handed
  <2>1. handed \in Nat
    BY DEF IndInv, TypeOK
  <2>2. Len(<< >>) = 0
    OBVIOUS
  <2>3. terminating /\ terminating' => e.posts = << >> /\ e.dispatches = << >>
    BY <1>1, <1>2 DEF Silent
  <2>4. terminating /\ terminating' => Len(e.posts) = 0 /\ Len(e.dispatches) = 0
    BY <2>2, <2>3
  <2>5. handed' = handed + Len(e.posts) + Len(e.dispatches)
    BY <1>2
  <2>6. CASE terminating /\ terminating'
    <3>1. handed' = handed + 0 + 0
      BY <2>4, <2>5, <2>6
    <3> QED BY <2>1, <3>1
  <2> QED BY <2>6
<1> QED BY <1>12, <1>13, <1>14, <1>15 DEF IndInv

\* A step that runs something beside the strand's queue.
LEMMA ApplyHere ==
    ASSUME IndInv, NEW e, Good(e, {}), Apply(e, strand, waiting), UNCHANGED << calls, shared >>
    PROVE  IndInv' /\ (terminating /\ terminating' => handed' = handed)
<1>1. /\ strand \in Seq(Operation) /\ StrandOnce(strand)
      /\ StrandIds(strand) \subseteq waiting /\ QueueIds(userQueue) \subseteq waiting
      /\ PendingIds(pending) \subseteq waiting
      /\ StrandIds(strand) \cap PendingIds(pending) = {}
      /\ StrandIds(strand) \cap QueueIds(userQueue) = {}
      /\ waiting \subseteq 1 .. calls /\ calls \in Nat
  BY DEF IndInv, TypeOK, HandlersInv
<1>2. calls' \in Nat /\ waiting \subseteq 1 .. calls' /\ shared' = shared
  BY <1>1
<1> DEFINE G == {}
<1>3. /\ G \cap PendingIds(pending) = {} /\ G \subseteq waiting
      /\ StrandIds(strand) \cap G = {} /\ G \cap QueueIds(userQueue) = {}
      /\ Good(e, G)
  OBVIOUS
<1> HIDE DEF G
<1> QED BY <1>1, <1>2, <1>3, ApplyInv

\* A task leaves the strand.
LEMMA HeadLemma ==
    ASSUME NEW s \in Seq(Operation), s # << >>, StrandOnce(s)
    PROVE  /\ Head(s) \in Operation
           /\ Tail(s) \in Seq(Operation)
           /\ StrandOnce(Tail(s))
           /\ StrandIds(Tail(s)) \subseteq StrandIds(s)
           /\ Owned(Head(s)) \subseteq StrandIds(s)
           /\ Owned(Head(s)) \cap StrandIds(Tail(s)) = {}
<1>1. /\ Len(s) \in Nat \ {0} /\ Tail(s) \in Seq(Operation) /\ Len(Tail(s)) = Len(s) - 1
      /\ Head(s) = s[1] /\ s[1] \in Operation
      /\ \A i \in 1 .. Len(Tail(s)) : Tail(s)[i] = s[i + 1]
  OBVIOUS
<1>2. \A i \in HandlerTasks(Tail(s)) :
         /\ i + 1 \in HandlerTasks(s) /\ Tail(s)[i] = s[i + 1]
         /\ i \in Nat \ {0}
  BY <1>1 DEF HandlerTasks
<1>3. StrandOnce(Tail(s))
  <2> SUFFICES ASSUME NEW i \in HandlerTasks(Tail(s)), NEW j \in HandlerTasks(Tail(s)),
                      Tail(s)[i].id = Tail(s)[j].id
               PROVE  i = j
    BY DEF StrandOnce
  <2>1. i + 1 = j + 1
    BY <1>2 DEF StrandOnce
  <2> QED BY <1>2, <2>1
<1>4. StrandIds(Tail(s)) \subseteq StrandIds(s)
  BY <1>2 DEF StrandIds
<1>5. s[1].op \in HandlerOps => 1 \in HandlerTasks(s)
  BY <1>1 DEF HandlerTasks
<1>6. Owned(Head(s)) \subseteq StrandIds(s)
  BY <1>1, <1>5 DEF Owned, StrandIds
<1>7. Owned(Head(s)) \cap StrandIds(Tail(s)) = {}
  <2> SUFFICES ASSUME s[1].op \in HandlerOps, NEW i \in HandlerTasks(Tail(s)),
                      Tail(s)[i].id = s[1].id
               PROVE  FALSE
    BY <1>1 DEF Owned, StrandIds
  <2>1. i + 1 = 1 /\ i \in Nat \ {0}
    BY <1>2, <1>5 DEF StrandOnce
  <2> QED BY <2>1
<1> QED BY <1>1, <1>3, <1>4, <1>6, <1>7

\* A task of the strand preserves the invariant.
LEMMA RunStrandInv ==
    ASSUME IndInv, RunStrand
    PROVE  IndInv' /\ (terminating /\ terminating' => handed' = handed)
<1> DEFINE t == Head(strand)
           q == Tail(strand)
           G == Owned(t)
<1>1. strand # << >> /\ UNCHANGED << shared, calls >>
  BY DEF RunStrand
<1>2. PICK e \in Effects(t) : Apply(e, q, waiting)
  BY DEF RunStrand
<1>3. /\ strand \in Seq(Operation) /\ StrandOnce(strand)
      /\ StrandIds(strand) \subseteq waiting /\ QueueIds(userQueue) \subseteq waiting
      /\ PendingIds(pending) \subseteq waiting
      /\ PendingIds(pending) \cap StrandIds(strand) = {}
      /\ StrandIds(strand) \cap QueueIds(userQueue) = {}
      /\ waiting \subseteq 1 .. calls /\ calls \in Nat
  BY DEF IndInv, TypeOK, HandlersInv
<1>4. /\ t \in Operation /\ q \in Seq(Operation) /\ StrandOnce(q)
      /\ StrandIds(q) \subseteq StrandIds(strand)
      /\ G \subseteq StrandIds(strand) /\ G \cap StrandIds(q) = {}
  BY <1>1, <1>3, HeadLemma
<1>5. G \cap PendingIds(pending) = {} /\ G \subseteq waiting /\ G \cap QueueIds(userQueue) = {}
  BY <1>3, <1>4
<1>6. Good(e, G)
  BY <1>4, <1>5, EffectsGood
<1>7. /\ StrandIds(q) \subseteq waiting
      /\ StrandIds(q) \cap PendingIds(pending) = {}
      /\ StrandIds(q) \cap QueueIds(userQueue) = {}
      /\ StrandIds(q) \cap G = {}
      /\ calls' \in Nat /\ waiting \subseteq 1 .. calls' /\ shared' = shared
  BY <1>1, <1>3, <1>4
<1> HIDE DEF t, q, G
<1> QED BY <1>2, <1>3, <1>4, <1>5, <1>6, <1>7, ApplyInv

\* The ids of an operation that is being called.
LEMMA FreshId ==
    ASSUME IndInv, NEW op \in Ops, calls' = calls + 1
    PROVE  LET t == Task(op, calls + 1)
               G == IF op \in WithHandler THEN {calls + 1} ELSE {}
           IN  /\ t \in Operation /\ t.op = op /\ t.id = calls + 1
               /\ op # "abort" => Owned(t) = G
               /\ calls + 1 \in Nat /\ calls' \in Nat
               /\ calls + 1 \notin waiting
               /\ Handlers(op) = waiting \cup G
               /\ Handlers(op) \subseteq 1 .. calls'
<1>1. calls \in Nat /\ waiting \subseteq 1 .. calls
  BY DEF IndInv, TypeOK
<1>2. calls + 1 \in Nat /\ calls + 1 \notin 1 .. calls /\ 1 .. calls' = 1 .. calls \cup {calls + 1}
  BY <1>1
<1> QED BY <1>1, <1>2 DEF Task, Operation, Owned, HandlerOps, Handlers

\* The start of an operation preserves the invariant.
LEMMA InitiateInv ==
    ASSUME IndInv, NEW op \in Ops \ {"abort"}, Initiate(op)
    PROVE  IndInv' /\ (terminating /\ terminating' => handed' = handed)
<1> DEFINE t == Task(op, calls + 1)
           G == Owned(t)
<1>1. calls' = calls + 1 /\ shared' = shared
  BY DEF Initiate
<1>2. PICK e \in Effects(t) : Apply(e, strand, Handlers(op))
  BY DEF Initiate
<1>3. /\ strand \in Seq(Operation) /\ StrandOnce(strand)
      /\ StrandIds(strand) \subseteq waiting /\ QueueIds(userQueue) \subseteq waiting
      /\ PendingIds(pending) \subseteq waiting
      /\ PendingIds(pending) \cap StrandIds(strand) = {}
      /\ StrandIds(strand) \cap QueueIds(userQueue) = {}
  BY DEF IndInv, TypeOK, HandlersInv
<1>4. /\ t \in Operation /\ G \cap waiting = {} /\ calls' \in Nat
      /\ Handlers(op) = waiting \cup G /\ Handlers(op) \subseteq 1 .. calls'
  BY <1>1, FreshId
<1>5. Good(e, G)
  <2>1. G \cap PendingIds(pending) = {}
    BY <1>3, <1>4
  <2> QED BY <1>4, <2>1, EffectsGood
<1> HIDE DEF t, G
<1>6. /\ StrandIds(strand) \subseteq Handlers(op) /\ QueueIds(userQueue) \subseteq Handlers(op)
      /\ PendingIds(pending) \subseteq Handlers(op) /\ G \subseteq Handlers(op)
      /\ G \cap PendingIds(pending) = {}
      /\ StrandIds(strand) \cap G = {} /\ G \cap QueueIds(userQueue) = {}
      /\ StrandIds(strand) \cap PendingIds(pending) = {}
  BY <1>3, <1>4
<1> QED BY <1>1, <1>2, <1>3, <1>4, <1>5, <1>6, ApplyInv

\* A task that is dispatched to the strand.
LEMMA AppendInv ==
    ASSUME IndInv, NEW op \in Ops \ {"abort"}, calls' = calls + 1,
           strand' = Append(strand, Task(op, calls + 1)), waiting' = Handlers(op),
           UNCHANGED << shared, client, userQueue, ready, chits, posted, changed, handed,
                        twice >>
    PROVE  IndInv' /\ handed' = handed
<1> DEFINE t == Task(op, calls + 1)
           r == << t >>
           G == Owned(t)
<1>1. /\ t \in Operation /\ G \cap waiting = {} /\ calls' \in Nat
      /\ waiting' = waiting \cup G /\ waiting' \subseteq 1 .. calls'
      /\ t.op \in HandlerOps => G = {t.id}
      /\ t.op \notin HandlerOps => G = {}
  BY FreshId, ZenonT(40) DEF Owned
<1> HIDE DEF t, G
<1>2. r \in Seq(Operation) /\ StrandOnce(r) /\ StrandIds(r) = G
  <2>1. r \in Seq(Operation) /\ Len(r) = 1 /\ r[1] = t
    BY <1>1
  <2>2. 1 .. 1 = {1}
    OBVIOUS
  <2>3. HandlerTasks(r) = IF t.op \in HandlerOps THEN {1} ELSE {}
    BY <2>1, <2>2 DEF HandlerTasks
  <2> QED BY <1>1, <2>1, <2>3 DEF StrandOnce, StrandIds
<1>3. /\ strand \in Seq(Operation) /\ StrandOnce(strand)
      /\ StrandIds(strand) \subseteq waiting /\ QueueIds(userQueue) \subseteq waiting
      /\ PendingIds(pending) \subseteq waiting
      /\ PendingIds(pending) \cap StrandIds(strand) = {}
      /\ StrandIds(strand) \cap QueueIds(userQueue) = {}
  BY DEF IndInv, TypeOK, HandlersInv
<1>4. strand' = strand \o r
  BY <1>1, <1>3 DEF t
<1>5. StrandIds(strand) \cap StrandIds(r) = {}
  BY <1>1, <1>2, <1>3
<1> HIDE DEF r
<1>6. /\ strand' \in Seq(Operation) /\ StrandOnce(strand')
      /\ StrandIds(strand') = StrandIds(strand) \cup G
  BY <1>2, <1>3, <1>4, <1>5, StrandConcat
<1>7. HandlersInv'
  <2>1. UNCHANGED << pending, userQueue, twice >>
    BY DEF client
  <2>2. twice = FALSE /\ PendingOnce(pending) /\ QueueOnce(userQueue)
        /\ PendingIds(pending) \cap QueueIds(userQueue) = {}
    BY DEF IndInv, HandlersInv
  <2>3. /\ PendingIds(pending) \cap StrandIds(strand') = {}
        /\ StrandIds(strand') \cap QueueIds(userQueue) = {}
        /\ StrandIds(strand') \subseteq waiting'
    BY <1>1, <1>3, <1>6
  <2>4. PendingIds(pending) \subseteq waiting' /\ QueueIds(userQueue) \subseteq waiting'
    BY <1>1, <1>3
  <2> QED BY <1>6, <2>1, <2>2, <2>3, <2>4 DEF HandlersInv
<1>8. TypeOK'
  BY <1>1, <1>6 DEF IndInv, TypeOK, client
<1>9. StateReported'
  BY DEF IndInv, StateReported, client
<1> QED BY <1>7, <1>8, <1>9 DEF IndInv


\* Session::initiate and Session::safelyInitiate.
LEMMA CallInv ==
    ASSUME IndInv, NEW t, NEW op \in Ops \ {"abort"},
           SafelyDispatch(t, op) \/ Initiate(op)
    PROVE  IndInv' /\ (terminating /\ terminating' => handed' = handed)
<1>1. CASE Initiate(op)
  BY <1>1, InitiateInv
<1>2. CASE SafelyDispatch(t, op)
  BY <1>2, AppendInv DEF SafelyDispatch
<1> QED BY <1>1, <1>2

\* A call that returns a future preserves the invariant.
LEMMA CallFutureInv ==
    ASSUME IndInv, NEW t, CallFuture(t)
    PROVE  IndInv' /\ (terminating /\ terminating' => handed' = handed)
<1>1. "future" \in Ops \ {"abort"} /\ "future" \notin WithHandler
  BY DEF Ops, WithFuture, WithHandler
<1>2. CASE Call(t, "future")
  BY <1>1, <1>2, CallInv DEF Call
<1>3. CASE ~Call(t, "future")
  <2>1. /\ calls' = calls + 1
        /\ strand' = Append(strand, Task("future", calls + 1))
        /\ waiting' = Handlers("future")
        /\ UNCHANGED << shared, client, userQueue, ready, chits, posted, changed, handed,
                        twice >>
    BY <1>1, <1>3 DEF CallFuture, Handlers
  <2> QED BY <1>1, <2>1, AppendInv
<1> QED BY <1>2, <1>3

\* Every call of a user's thread runs one operation, or dispatches it.
LEMMA UserCallsInv ==
    ASSUME IndInv, NEW t \in Threads, UserCalls(t)
    PROVE  IndInv' /\ (terminating /\ terminating' => handed' = handed)
<1>1. Ops \ {"abort"} = { "connect", "join", "leave", "request", "chit", "cleanup", "future",
                         "quiet", "disconnect", "terminate", "watch" }
  BY DEF Ops, WithHandler, WithFuture, Plain
<1>2. \/ \E op \in Ops \ {"abort"} : SafelyDispatch(t, op) \/ Initiate(op)
      \/ CallFuture(t)
  BY <1>1
     DEF UserCalls, connect, legacyConnect, join, leave, subscribe, publishAcked, enroll,
         enrollIntr, call, callChit, ongoingCall, ongoingCallChit, unsubscribeAcked,
         unregisterAcked, unsubscribe, unregister, disconnect, terminate,
         setStateChangeHandler, setLogHandler, setChallengeHandler, releaseSubscription,
         releaseRegistration, destroy, authenticate, publish, cancel, cancelChit, Call
<1> QED BY <1>2, CallInv, CallFutureInv

\* A call of a coroutine preserves the invariant.
LEMMA CoroCallsInv ==
    ASSUME IndInv, CoroCalls
    PROVE  IndInv' /\ (terminating /\ terminating' => handed' = handed)
<1>1. Ops \ {"abort"} = { "connect", "join", "leave", "request", "chit", "cleanup", "future",
                         "quiet", "disconnect", "terminate", "watch" }
  BY DEF Ops, WithHandler, WithFuture, Plain
<1>2. \E op \in Ops \ {"abort"} : Initiate(op)
  BY <1>1
     DEF CoroCalls, coroConnect, coroJoin, coroAuthenticate, coroLeave, coroSubscribe,
         coroPublish, coroPublishAcked, coroEnroll, coroEnrollIntr, coroCall,
         coroUnsubscribe, coroUnregister, InState, InExpectedState
<1> QED BY <1>2, InitiateInv

\* The user's executor invokes a handler that was waiting.
LEMMA RunUserHandlerInv ==
    ASSUME IndInv, RunUserHandler
    PROVE  IndInv' /\ handed' = handed
<1> DEFINE q == userQueue
           h == Head(q)
<1>1. /\ q # << >> /\ userQueue' = Tail(q)
      /\ waiting' = waiting \ {h}
      /\ twice' = (twice \/ h \notin waiting)
      /\ UNCHANGED << shared, client, strand, ready, chits, calls, posted, changed, handed >>
  BY DEF RunUserHandler
<1>2. q \in Seq(Nat) /\ QueueOnce(q) /\ QueueIds(q) \subseteq waiting
  BY DEF IndInv, TypeOK, HandlersInv
<1> HIDE DEF q
<1>3. /\ Len(q) \in Nat \ {0} /\ Tail(q) \in Seq(Nat) /\ Len(Tail(q)) = Len(q) - 1
      /\ h = q[1] /\ 1 \in 1 .. Len(q)
      /\ \A i \in 1 .. Len(Tail(q)) : Tail(q)[i] = q[i + 1] /\ i + 1 \in 1 .. Len(q) /\ i # 0
  BY <1>1, <1>2
<1>4. h \in QueueIds(q) /\ QueueIds(Tail(q)) \subseteq QueueIds(q)
  BY <1>3 DEF QueueIds
<1>5. QueueOnce(Tail(q))
  <2> SUFFICES ASSUME NEW i \in 1 .. Len(Tail(q)), NEW j \in 1 .. Len(Tail(q)),
                      Tail(q)[i] = Tail(q)[j]
               PROVE  i = j
    BY DEF QueueOnce
  <2>1. i + 1 = j + 1
    BY <1>2, <1>3 DEF QueueOnce
  <2> QED BY <2>1
<1>6. h \notin QueueIds(Tail(q))
  <2> SUFFICES ASSUME NEW i \in 1 .. Len(Tail(q)), Tail(q)[i] = h
               PROVE  FALSE
    BY DEF QueueIds
  <2>1. i + 1 = 1
    BY <1>2, <1>3 DEF QueueOnce
  <2> QED BY <2>1
<1>7. HandlersInv'
  <2>1. twice = FALSE /\ twice' = FALSE
    BY <1>1, <1>2, <1>4 DEF IndInv, HandlersInv
  <2>2. /\ PendingOnce(pending) /\ StrandOnce(strand)
        /\ PendingIds(pending) \subseteq waiting \ {h}
        /\ StrandIds(strand) \subseteq waiting \ {h}
        /\ PendingIds(pending) \cap StrandIds(strand) = {}
        /\ PendingIds(pending) \cap QueueIds(Tail(q)) = {}
        /\ StrandIds(strand) \cap QueueIds(Tail(q)) = {}
    BY <1>4 DEF IndInv, HandlersInv, q
  <2>3. QueueIds(Tail(q)) \subseteq waiting \ {h}
    BY <1>2, <1>4, <1>6
  <2>4. UNCHANGED << pending, strand >>
    BY <1>1 DEF client
  <2> QED BY <1>1, <1>5, <2>1, <2>2, <2>3, <2>4 DEF HandlersInv
<1>8. TypeOK'
  BY <1>1, <1>3 DEF IndInv, TypeOK, client
<1>9. StateReported'
  BY <1>1 DEF IndInv, StateReported, client
<1> QED BY <1>1, <1>7, <1>8, <1>9 DEF IndInv

-----------------------------------------------------------------------------
(* The theorems *)

\* The invariant holds when the program starts.
LEMMA InitInv == Init => IndInv
<1> SUFFICES ASSUME Init PROVE IndInv
  OBVIOUS
<1>1. << >> \in Seq(Operation) /\ << >> \in Seq(Nat) /\ Len(<< >>) = 0
  OBVIOUS
<1>2. TypeOK
  BY <1>1 DEF Init, TypeOK, States
<1>3. StateReported
  BY DEF Init, StateReported
<1>4. HandlersInv
  <2>1. /\ PendingIds(pending) = {} /\ PendingOnce(pending)
    BY DEF Init, PendingIds, PendingOnce
  <2>2. HandlerTasks(strand) = {} /\ strand = << >> /\ userQueue = << >>
    BY <1>1 DEF Init, HandlerTasks
  <2>3. StrandIds(strand) = {} /\ StrandOnce(strand)
    BY <2>2 DEF StrandIds, StrandOnce
  <2>4. QueueIds(userQueue) = {} /\ QueueOnce(userQueue)
    BY <2>2, EmptyQueue
  <2> QED BY <2>1, <2>3, <2>4 DEF Init, HandlersInv
<1> QED BY <1>2, <1>3, <1>4 DEF IndInv

\* Every step preserves the invariant, and hands on nothing while terminating.
LEMMA NextInv ==
    IndInv /\ [Next]_vars => IndInv' /\ (terminating /\ terminating' => handed' = handed)
<1> SUFFICES ASSUME IndInv, [Next]_vars
             PROVE  IndInv' /\ (terminating /\ terminating' => handed' = handed)
  OBVIOUS
<1>1. CASE \E t \in Threads : UserCalls(t)
  BY <1>1, UserCallsInv
<1>2. CASE /\ UNCHANGED << shared, client, strand, userQueue, chits, calls, posted, changed,
                           handed, waiting, twice >>
           /\ ready' \subseteq ready
  BY <1>2 DEF IndInv, TypeOK, StateReported, HandlersInv, client
<1>3. CASE CoroCalls
  BY <1>3, CoroCallsInv
<1>4. CASE RunStrand
  BY <1>4, RunStrandInv
<1>5. CASE RunUserHandler
  BY <1>5, RunUserHandlerInv
<1>6. CASE Challenge
  <2>1. Good(NoEffect, {}) /\ "authenticating" \in States
    BY NoEffectGood DEF States
  <2>2. Good(SetState(NoEffect, "authenticating"), {})
    BY <2>1, GoodSetState
  <2> QED BY <1>6, <2>2, ApplyHere DEF Challenge, OnStrand
<1>7. CASE Goodbye \/ TransportFails
  <2>1. Good(NoEffect, {}) /\ Bare(NoEffect)
    BY NoEffectGood
  <2>2. NoEffect.aborts = << >> /\ NoEffect.pending = pending
    BY <2>1 DEF Bare
  <2>3. Good(Closed(NoEffect), {}) /\ Good(Failed(NoEffect), {})
    BY <2>1, <2>2, EndGood
  <2> QED BY <1>7, <2>3, ApplyHere DEF Goodbye, TransportFails, OnStrand
<1>8. CASE \E p \in Requests(pending) : Reply(p)
  BY <1>8, RepliesGood, ApplyHere DEF Reply, OnStrand, Requests
<1>11. CASE \E p \in Attempts(pending) : Established(p) \/ GoesOn(p)
  <2>1. PICK p \in pending : Established(p) \/ GoesOn(p)
    BY <1>11 DEF Attempts
  <2>2. CASE Established(p)
    BY <2>2, OutcomesGood, ApplyHere DEF Established, OnStrand
  <2>3. CASE GoesOn(p)
    BY <2>3, AgainGood, ApplyHere DEF GoesOn, OnStrand
  <2> QED BY <2>1, <2>2, <2>3
<1>9. CASE \E t \in Threads : GetReturns(t)
  BY <1>2, <1>9 DEF GetReturns
<1>10. CASE UNCHANGED vars
  BY <1>2, <1>10 DEF vars
<1> QED BY <1>1, <1>3, <1>4, <1>5, <1>6, <1>7, <1>8, <1>9, <1>10, <1>11
        DEF Next

\* Every handler that is still to be invoked is in one place: with the pending
\* requests and connection attempts, on the strand, or on the user's executor.
THEOREM Invariance == Spec => []IndInv
BY InitInv, NextInv, PTL DEF Spec

\* No completion handler is invoked twice, however the calls of any number of
\* threads interleave with replies, aborts and the end of the session.
THEOREM HandlersRunOnce == Spec => []HandlersOnce
<1>1. IndInv => HandlersOnce
  BY DEF IndInv, HandlersInv, HandlersOnce
<1> QED BY <1>1, Invariance, PTL

\* Once the state has changed since a state change handler was set, that handler was
\* passed the session's state last, unless terminate() silenced it: Client::connect
\* ends the termination before Peer::setState, and no other step sets the state
\* without it, late connection attempts and lost transports included.
THEOREM StateIsReported == Spec => []StateReported
<1>1. IndInv => StateReported
  BY DEF IndInv
<1> QED BY <1>1, Invariance, PTL

\* While the session is terminating nothing is handed to the user's executor, not
\* even the handlers that an earlier disconnect() posted to the strand.
THEOREM TerminationIsSilent == Spec => TerminateSilences
<1>1. IndInv /\ [Next]_vars => [terminating /\ terminating' => handed' = handed]_vars
  BY NextInv
<1> QED BY <1>1, Invariance, PTL DEF Spec, TerminateSilences

=============================================================================
