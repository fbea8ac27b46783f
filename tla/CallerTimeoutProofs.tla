------------------------ MODULE CallerTimeoutProofs ------------------------
(***************************************************************************)
(* Machine-checked proofs about CallerTimeout, for any set of timeouts and *)
(* any number of calls, sessions and ticks of the clock.                   *)
(***************************************************************************)
EXTENDS CallerTimeout, FiniteSetTheorems, TLAPS

-----------------------------------------------------------------------------
(* The inductive invariant *)

\* Request IDs are not reused, a record is in the set at most once, and only the
\* deadlines of calls that were made and not forgotten are there.
AccountsInv ==
    /\ IsFiniteSet(added)
    /\ \A r \in added : r.requestId <= Cardinality(added)
    /\ \A r, s \in added : r.requestId = s.requestId => r = s
    /\ \A r, s \in deadlines : r.deadline = s.deadline => r = s
    /\ dismissed \subseteq Ids(added)
    /\ Ids(deadlines) \cap dismissed = {}
    /\ timer # NoWait => timer \in added
    /\ \A i \in Callbacks : strand[i].requestId \in Ids(added)
    /\ state = "established" \/ deadlines # {} => listening

\* A wait that was not cancelled ended in time, and what was reported is due and
\* older than everything that still has to be.
PunctualInv ==
    /\ \A i \in Callbacks : ~strand[i].cancelled =>
          \E r \in added : r.requestId = strand[i].requestId /\ r.deadline <= now
    /\ \A i \in 1 .. Len(fired) : fired[i].deadline <= now
    /\ \A i \in 1 .. Len(fired) : \A r \in deadlines : fired[i].deadline < r.deadline
    /\ FiredInOrder

\* As long as remove() is not used, the timer waits or one callback is under way,
\* never both; a cancelled callback is not the one of the first deadline.
WaitInv ==
    removals = 0 =>
        /\ \A i, j \in Callbacks : i = j
        /\ deadlines # {} =>
              \/ timer = First(deadlines) /\ Callbacks = {}
              \/ timer = NoWait /\ Callbacks # {}
        /\ deadlines = {} => timer = NoWait
        /\ deadlines = {} /\ state = "established" => Callbacks = {}
        /\ deadlines # {} =>
              \A i \in Callbacks :
                  strand[i].cancelled => strand[i].requestId # First(deadlines).requestId

\* The WELCOME of a session that is being joined is under way, and the callback
\* that an earlier session left behind runs before it.
WelcomeInv ==
    /\ \A i, j \in 1 .. Len(strand) : strand[i] = Welcome /\ strand[j] = Welcome => i = j
    /\ removals = 0 /\ state = "joining" /\ deadlines = {} =>
          \A i \in Callbacks, j \in 1 .. Len(strand) : strand[j] = Welcome => i < j

IndInv == TypeOK /\ AccountsInv /\ PunctualInv /\ WaitInv /\ WelcomeInv /\ TimeoutKept

-----------------------------------------------------------------------------
(* The set of deadlines *)

\* deadlines_.begin() is a record of the set that has the least deadline.
LEMMA FirstLemma ==
    ASSUME NEW set, set # {}, \A r \in set : r.deadline \in Nat
    PROVE  /\ First(set) \in set
           /\ \A s \in set : First(set).deadline <= s.deadline
<1> DEFINE D == { r.deadline : r \in set }
           R == OpToRel(<, Nat)
<1>1. D \subseteq Nat /\ D # {}
  OBVIOUS
<1>2. \E d \in D : \A e \in D : ~(<< e, d >> \in R)
  <2> HIDE DEF D, R
  <2>1. IsWellFoundedOn(R, Nat)
    BY NatLessThanWellFounded DEF R
  <2> QED BY <1>1, <2>1, WFMin
<1>3. PICK d \in D : \A e \in D : ~(<< e, d >> \in R)
  BY <1>2
<1>4. \A e \in D : << e, d >> \in R <=> e < d
  BY <1>1 DEF OpToRel
<1>5. \A e \in D : d <= e
  <2> HIDE DEF D, R
  <2> TAKE e \in D
  <2>1. d \in Nat /\ e \in Nat /\ ~(e < d)
    BY <1>1, <1>3, <1>4
  <2> QED BY <2>1
<1>6. PICK r \in set : r.deadline = d
  OBVIOUS
<1>7. \A s \in set : r.deadline <= s.deadline
  BY <1>5, <1>6
<1> QED BY <1>7 DEF First

\* Deadlines differ, so the first one is determined by being the least.
LEMMA FirstIs ==
    ASSUME NEW set, \A r \in set : r.deadline \in Nat,
           \A r, s \in set : r.deadline = s.deadline => r = s,
           NEW t \in set, \A s \in set : t.deadline <= s.deadline
    PROVE  First(set) = t
<1>1. First(set) \in set /\ First(set).deadline <= t.deadline
  BY FirstLemma
<1>2. First(set).deadline \in Nat /\ t.deadline \in Nat /\ t.deadline <= First(set).deadline
  BY <1>1
<1>3. First(set).deadline = t.deadline
  BY <1>1, <1>2
<1> QED BY <1>1, <1>3

-----------------------------------------------------------------------------
(* Tasks and records *)

\* What the posted tasks are
LEMMA TaskLemma ==
    /\ Welcome \in Tasks /\ Welcome.task = "welcome"
    /\ \A id \in RequestIds, c \in BOOLEAN :
          /\ Callback(id, c) \in Tasks
          /\ Callback(id, c).task = "timer"
          /\ Callback(id, c).requestId = id
          /\ Callback(id, c).cancelled = c
    /\ \A t \in Tasks : t.task = "timer" \/ t = Welcome
    /\ \A t \in Tasks : t.task = "timer" => t.requestId \in RequestIds /\ t.cancelled \in BOOLEAN
BY DEF Tasks, Welcome, Callback

\* What a record of a deadline is
LEMMA RecordLemma ==
    /\ \A r \in Records : r.deadline \in 0 .. MaxTime /\ r.requestId \in RequestIds
    /\ NoWait \notin Records
    /\ RequestIds \subseteq Nat \ {0}
<1>1. RequestIds \subseteq Nat \ {0}
  BY TimeBoundsAssumption DEF RequestIds
<1>2. \A r \in Records : r.deadline \in 0 .. MaxTime /\ r.requestId \in RequestIds
  BY DEF Records, Record
<1>3. NoWait.requestId = 0
  BY DEF NoWait, Record
<1> QED BY <1>1, <1>2, <1>3

\* timer_.cancel() queues one more callback, if the timer waits.
LEMMA CancelledLemma ==
    ASSUME TypeOK, NEW queue \in Seq(Tasks)
    PROVE  /\ Cancelled(queue) \in Seq(Tasks)
           /\ timer = NoWait => Cancelled(queue) = queue
           /\ timer # NoWait =>
                 /\ timer.requestId \in RequestIds
                 /\ Cancelled(queue) = Append(queue, Callback(timer.requestId, TRUE))
<1>1. timer # NoWait => timer.requestId \in RequestIds
  BY RecordLemma DEF TypeOK
<1>2. CASE timer = NoWait
  BY <1>2 DEF Cancelled
<1>3. CASE timer # NoWait
  <2> DEFINE c == Callback(timer.requestId, TRUE)
  <2>1. c \in Tasks
    BY <1>1, <1>3, TaskLemma
  <2>2. Cancelled(queue) = Append(queue, c)
    BY <1>3 DEF Cancelled
  <2> HIDE DEF c
  <2>3. Append(queue, c) \in Seq(Tasks)
    BY <2>1
  <2> QED BY <1>1, <1>3, <2>2, <2>3 DEF c
<1> QED BY <1>2, <1>3

-----------------------------------------------------------------------------
(* The strand *)

\* Every task on the strand after a step was there before, or is WELCOME, or is
\* the callback of the wait that the step ended.
LEMMA StrandStep ==
    ASSUME TypeOK, [Next]_vars
    PROVE  /\ strand' \in Seq(Tasks)
           /\ \A i \in 1 .. Len(strand') :
                 \/ \E j \in 1 .. Len(strand) : strand'[i] = strand[j]
                 \/ strand'[i] = Welcome
                 \/ timer # NoWait /\ strand'[i] = Callback(timer.requestId, TRUE)
                 \/ /\ timer # NoWait /\ timer.deadline <= now
                    /\ strand'[i] = Callback(timer.requestId, FALSE)
<1> DEFINE From(q, i) ==
             \/ \E j \in 1 .. Len(strand) : q[i] = strand[j]
             \/ q[i] = Welcome
             \/ timer # NoWait /\ q[i] = Callback(timer.requestId, TRUE)
             \/ /\ timer # NoWait /\ timer.deadline <= now
                /\ q[i] = Callback(timer.requestId, FALSE)
           Good(q) == q \in Seq(Tasks) /\ \A i \in 1 .. Len(q) : From(q, i)
<1>0. strand \in Seq(Tasks) /\ Good(strand)
  BY DEF TypeOK
<1>1. ASSUME NEW q, Good(q), NEW t \in Tasks,
             \/ t = Welcome
             \/ timer # NoWait /\ t = Callback(timer.requestId, TRUE)
             \/ timer # NoWait /\ timer.deadline <= now /\ t = Callback(timer.requestId, FALSE)
      PROVE  Good(Append(q, t))
  <2>1. /\ Append(q, t) \in Seq(Tasks) /\ Len(Append(q, t)) = Len(q) + 1 /\ Len(q) \in Nat
        /\ \A i \in 1 .. Len(q) : Append(q, t)[i] = q[i]
        /\ Append(q, t)[Len(q) + 1] = t
    BY <1>1
  <2>2. ASSUME NEW i \in 1 .. Len(Append(q, t)) PROVE From(Append(q, t), i)
    <3>1. CASE i \in 1 .. Len(q)
      <4>1. From(q, i) /\ Append(q, t)[i] = q[i]
        BY <1>1, <2>1, <3>1
      <4> QED BY <4>1
    <3>2. CASE i = Len(q) + 1
      <4>1. Append(q, t)[i] = t
        BY <2>1, <3>2
      <4> QED BY <1>1, <4>1
    <3>3. i \in 1 .. Len(q) \/ i = Len(q) + 1
      BY <2>1
    <3> QED BY <3>1, <3>2, <3>3
  <2> QED BY <2>1, <2>2
<1>2. ASSUME NEW q, Good(q) PROVE Good(Cancelled(q))
  <2>1. CASE timer = NoWait
    BY <1>2, <2>1, CancelledLemma
  <2>2. CASE timer # NoWait
    <3> DEFINE c == Callback(timer.requestId, TRUE)
    <3>1. c \in Tasks /\ Cancelled(q) = Append(q, c)
      BY <1>2, <2>2, CancelledLemma, TaskLemma
    <3>2. timer # NoWait /\ c = Callback(timer.requestId, TRUE)
      BY <2>2
    <3> HIDE DEF c, Good
    <3> QED BY <1>1, <1>2, <3>1, <3>2
  <2> QED BY <2>1, <2>2
<1>3. ASSUME strand # << >> PROVE Good(Tail(strand))
  <2>1. /\ Tail(strand) \in Seq(Tasks) /\ Len(strand) \in Nat
        /\ Len(Tail(strand)) = Len(strand) - 1
        /\ \A i \in 1 .. Len(Tail(strand)) : Tail(strand)[i] = strand[i + 1]
    BY <1>0, <1>3
  <2>2. \A i \in 1 .. Len(Tail(strand)) : i + 1 \in 1 .. Len(strand)
    BY <2>1
  <2> QED BY <2>1, <2>2
<1>4. Good(strand')
  <2> HIDE DEF Good
  <2>1. CASE ReceiveWelcome
    BY <1>0, <1>1, <2>1, TaskLemma DEF ReceiveWelcome
  <2>2. CASE Expire
    <3> DEFINE c == Callback(timer.requestId, FALSE)
    <3>1. c \in Tasks
      BY <2>2, TaskLemma, RecordLemma DEF Expire, TypeOK
    <3>2. /\ timer # NoWait /\ timer.deadline <= now /\ c = Callback(timer.requestId, FALSE)
          /\ strand' = Append(strand, c)
      BY <2>2 DEF Expire
    <3> HIDE DEF c
    <3> QED BY <1>0, <1>1, <3>1, <3>2
  <2>3. CASE \/ strand' = strand
             \/ strand' = Cancelled(strand)
             \/ strand # << >> /\ strand' = Tail(strand)
             \/ strand # << >> /\ strand' = Cancelled(Tail(strand))
    BY <1>0, <1>2, <1>3, <2>3
  <2>4. CASE \/ \E timeout \in Timeouts : add(timeout)
             \/ \E id \in RequestIds : remove(id)
    BY <2>3, <2>4 DEF add, remove, ProcessNextDeadline
  <2>5. CASE \/ leave \/ disconnect \/ SessionEnds \/ RunWelcome \/ Tick \/ UNCHANGED vars
    BY <2>3, <2>5 DEF leave, disconnect, Clear, SessionEnds, RunWelcome, Tick, vars
  <2>6. CASE RunOnTimer
    BY <2>3, <2>6 DEF RunOnTimer, ProcessNextDeadline
  <2> QED BY <2>1, <2>2, <2>4, <2>5, <2>6 DEF Next
<1> QED BY <1>4

-----------------------------------------------------------------------------
(* Types *)

\* The record of a new call.
LEMMA AddLemma ==
    ASSUME IndInv, NEW timeout \in Timeouts, add(timeout)
    PROVE  \E r \in Records :
              /\ r.deadline > now /\ r.requestId = Cardinality(added) + 1
              /\ r = Record(now + timeout, Cardinality(added) + 1)
              /\ r \notin added /\ added' = added \cup {r}
              /\ deadlines' = Insert(r)
              /\ \A s \in added : s.requestId # r.requestId
<1> DEFINE r == Record(now + timeout, Cardinality(added) + 1)
<1>1. /\ r \in Records /\ added' = added \cup {r} /\ deadlines' = Insert(r)
  BY DEF add
<1>2. now \in Nat /\ timeout \in Nat \ {0} /\ Cardinality(added) \in Nat
  BY TimeoutsAssumption, TimeBoundsAssumption, FS_CardinalityType DEF IndInv, TypeOK, AccountsInv
<1>3. r.deadline = now + timeout /\ r.requestId = Cardinality(added) + 1
  BY DEF Record
<1> HIDE DEF r
<1>4. \A s \in added : s.requestId # r.requestId
  <2> TAKE s \in added
  <2>1. s.requestId \in Nat /\ s.requestId <= Cardinality(added)
    BY RecordLemma DEF IndInv, TypeOK, AccountsInv
  <2> QED BY <1>2, <1>3, <2>1
<1>5. r.deadline > now
  BY <1>2, <1>3
<1> QED BY <1>1, <1>3, <1>4, <1>5 DEF r

\* Every step keeps the types.
LEMMA TypeStep == IndInv /\ [Next]_vars => TypeOK'
<1> SUFFICES ASSUME IndInv, [Next]_vars PROVE TypeOK'
  OBVIOUS
<1>0. TypeOK /\ strand' \in Seq(Tasks)
  BY StrandStep DEF IndInv
<1> USE TimeBoundsAssumption
<1>1. ASSUME NEW timeout \in Timeouts, add(timeout) PROVE TypeOK'
  <2>1. PICK r \in Records : added' = added \cup {r} /\ deadlines' = Insert(r)
    BY <1>1, AddLemma
  <2>2. deadlines' \subseteq added' /\ added' \subseteq Records
    BY <1>0, <2>1 DEF Insert, TypeOK
  <2>3. timer' \in Records \cup {NoWait}
    <3>1. deadlines = {} => First(Insert(r)) = r
      BY DEF Insert, First
    <3> QED BY <1>0, <1>1, <2>1, <3>1 DEF add, ProcessNextDeadline, TypeOK
  <2>4. fired' \in Seq(added')
    BY <1>0, <1>1, <2>1 DEF add, TypeOK
  <2> QED BY <1>0, <1>1, <2>2, <2>3, <2>4 DEF add, TypeOK
<1>2. ASSUME NEW id \in RequestIds, remove(id) PROVE TypeOK'
  BY <1>0, <1>2 DEF remove, TypeOK
<1>3. Ids(deadlines) \subseteq RequestIds
  BY <1>0, RecordLemma DEF TypeOK, Ids
<1>4. CASE leave \/ disconnect
  BY <1>0, <1>3, <1>4 DEF leave, disconnect, Clear, TypeOK
<1>5. CASE SessionEnds \/ RunWelcome \/ Expire \/ UNCHANGED vars
  BY <1>0, <1>5 DEF SessionEnds, RunWelcome, Listen, Expire, TypeOK, vars
<1>6. CASE ReceiveWelcome \/ Tick
  BY <1>0, <1>6 DEF ReceiveWelcome, Tick, TypeOK
<1>7. CASE RunOnTimer
  <2>1. \A r \in deadlines : r.deadline \in Nat /\ r \in Records
    BY <1>0, RecordLemma DEF TypeOK
  <2>2. deadlines # {} => First(deadlines) \in deadlines
    BY <2>1, FirstLemma
  <2>3. \A set \in SUBSET deadlines : set # {} => First(set) \in Records
    BY <2>1, FirstLemma
  <2>4. timer' \in Records \cup {NoWait} /\ deadlines' \subseteq deadlines
    BY <1>0, <1>7, <2>3 DEF RunOnTimer, ProcessNextDeadline, TypeOK
  <2>5. fired' \in Seq(added)
    <3>1. CASE fired' = fired
      BY <1>0, <3>1 DEF TypeOK
    <3>2. CASE deadlines # {} /\ fired' = Append(fired, First(deadlines))
      <4>1. First(deadlines) \in added
        BY <1>0, <2>2, <3>2 DEF TypeOK
      <4>2. fired \in Seq(added)
        BY <1>0 DEF TypeOK
      <4> QED BY <3>2, <4>1, <4>2
    <3> QED BY <1>7, <3>1, <3>2 DEF RunOnTimer
  <2> QED BY <1>0, <1>7, <2>4, <2>5 DEF RunOnTimer, TypeOK
<1> QED BY <1>1, <1>2, <1>4, <1>5, <1>6, <1>7 DEF Next

-----------------------------------------------------------------------------
(* Accounts *)

\* The facts about the deadlines that every step below needs.
LEMMA DeadlinesLemma ==
    ASSUME IndInv
    PROVE  /\ deadlines \subseteq added /\ added \subseteq Records
           /\ \A r \in added : r.deadline \in Nat /\ r.requestId \in Nat \ {0}
           /\ \A set \in SUBSET deadlines : set # {} =>
                 First(set) \in set /\ \A s \in set : First(set).deadline <= s.deadline
           /\ \A set \in SUBSET deadlines : \A t \in set :
                 (\A s \in set : t.deadline <= s.deadline) => First(set) = t
<1>1. deadlines \subseteq added /\ added \subseteq Records
  BY DEF IndInv, TypeOK
<1>2. \A r \in added : r.deadline \in Nat /\ r.requestId \in Nat \ {0}
  <2> TAKE r \in added
  <2>1. r.deadline \in 0 .. MaxTime /\ r.requestId \in RequestIds
    BY <1>1, RecordLemma
  <2>2. r.requestId \in Nat \ {0}
    BY <2>1, RecordLemma
  <2> QED BY <2>1, <2>2, TimeBoundsAssumption
<1>3. \A set \in SUBSET deadlines : \A r \in set : r.deadline \in Nat
  BY <1>1, <1>2
<1>4. \A r, s \in deadlines : r.deadline = s.deadline => r = s
  BY DEF IndInv, AccountsInv
<1>5. ASSUME NEW set \in SUBSET deadlines, set # {}
      PROVE  First(set) \in set /\ \A s \in set : First(set).deadline <= s.deadline
  BY <1>3, <1>5, FirstLemma
<1>6. ASSUME NEW set \in SUBSET deadlines, NEW t \in set, \A s \in set : t.deadline <= s.deadline
      PROVE  First(set) = t
  <2>1. \A r, s \in set : r.deadline = s.deadline => r = s
    BY <1>4
  <2> QED BY <1>3, <1>6, <2>1, FirstIs
<1> QED BY <1>1, <1>2, <1>5, <1>6

\* Every callback on the strand is the one of a call that was made; it was not
\* cancelled only if the call is due.
LEMMA CallbackStep ==
    ASSUME IndInv, [Next]_vars, added \subseteq added', now' >= now
    PROVE  \A i \in Callbacks' :
              /\ strand'[i].requestId \in Ids(added')
              /\ ~strand'[i].cancelled =>
                    \E r \in added' : r.requestId = strand'[i].requestId /\ r.deadline <= now'
<1> DEFINE Sound(t) ==
             /\ t.requestId \in Ids(added')
             /\ ~t.cancelled => \E r \in added' : r.requestId = t.requestId /\ r.deadline <= now'
<1>1. TypeOK
  BY DEF IndInv
<1>2. now \in Nat /\ now' \in Nat
  BY TypeStep, TimeBoundsAssumption DEF IndInv, TypeOK
<1>3. \A r \in added : r.deadline \in Nat /\ (r.deadline <= now => r.deadline <= now')
  BY <1>2, DeadlinesLemma
<1>4. ASSUME NEW i \in Callbacks' PROVE Sound(strand'[i])
  <2>1. i \in 1 .. Len(strand') /\ strand'[i].task = "timer"
    BY <1>4 DEF Callbacks
  <2>2. ASSUME NEW j \in 1 .. Len(strand), strand'[i] = strand[j] PROVE Sound(strand'[i])
    <3>1. j \in Callbacks
      BY <2>1, <2>2 DEF Callbacks
    <3>2. /\ strand[j].requestId \in Ids(added)
          /\ ~strand[j].cancelled =>
                \E r \in added : r.requestId = strand[j].requestId /\ r.deadline <= now
      BY <3>1 DEF IndInv, AccountsInv, PunctualInv
    <3> QED BY <1>3, <2>2, <3>2 DEF Ids
  <2>3. timer # NoWait => timer \in added /\ timer.requestId \in RequestIds
    BY RecordLemma DEF IndInv, AccountsInv, TypeOK
  <2>4. CASE timer # NoWait /\ strand'[i] = Callback(timer.requestId, TRUE)
    <3>1. strand'[i].requestId = timer.requestId /\ strand'[i].cancelled = TRUE
      BY <2>3, <2>4, TaskLemma
    <3> QED BY <2>3, <2>4, <3>1 DEF Ids
  <2>5. CASE /\ timer # NoWait /\ timer.deadline <= now
             /\ strand'[i] = Callback(timer.requestId, FALSE)
    <3>1. strand'[i].requestId = timer.requestId
      BY <2>3, <2>5, TaskLemma
    <3> QED BY <1>3, <2>3, <2>5, <3>1 DEF Ids
  <2>6. strand'[i] # Welcome
    BY <2>1, TaskLemma
  <2> QED BY <1>1, <2>1, <2>2, <2>4, <2>5, <2>6, StrandStep
<1> QED BY <1>4

\* Every step keeps the accounts.
LEMMA AccountsStep == IndInv /\ [Next]_vars => AccountsInv'
<1> SUFFICES ASSUME IndInv, [Next]_vars PROVE AccountsInv'
  OBVIOUS
<1>0. AccountsInv /\ deadlines \subseteq added
  BY DEF IndInv, TypeOK
<1>1. added \subseteq added' /\ now' >= now
  <2>1. now \in Nat
    BY TimeBoundsAssumption DEF IndInv, TypeOK
  <2>2. added \subseteq added'
    BY DEF Next, add, remove, leave, disconnect, SessionEnds, ReceiveWelcome, RunWelcome, Tick,
           Expire, RunOnTimer, vars
  <2>3. now' = now \/ now' = now + 1
    BY DEF Next, add, remove, leave, disconnect, SessionEnds, ReceiveWelcome, RunWelcome, Tick,
           Expire, RunOnTimer, vars
  <2> QED BY <2>1, <2>2, <2>3
<1>2. \A i \in Callbacks' : strand'[i].requestId \in Ids(added')
  BY <1>1, CallbackStep
<1>3. ASSUME NEW timeout \in Timeouts, add(timeout) PROVE AccountsInv'
  <2>1. PICK r \in Records :
           /\ r.requestId = Cardinality(added) + 1
           /\ r \notin added /\ added' = added \cup {r} /\ deadlines' = Insert(r)
           /\ \A s \in added : s.requestId # r.requestId
    BY <1>3, AddLemma
  <2>2. IsFiniteSet(added') /\ Cardinality(added') = Cardinality(added) + 1
        /\ Cardinality(added) \in Nat
    BY <1>0, <2>1, FS_AddElement, FS_CardinalityType DEF AccountsInv
  <2>3. \A s \in added' : s.requestId <= Cardinality(added')
    <3> TAKE s \in added'
    <3>1. CASE s = r
      BY <2>1, <2>2, <3>1
    <3>2. CASE s \in added
      <4>1. s.requestId \in Nat /\ s.requestId <= Cardinality(added)
        BY <1>0, <3>2, DeadlinesLemma DEF AccountsInv
      <4> QED BY <2>2, <4>1
    <3> QED BY <2>1, <3>1, <3>2
  <2>4. \A s, t \in added' : s.requestId = t.requestId => s = t
    BY <1>0, <2>1 DEF AccountsInv
  <2>5. \A s, t \in deadlines' : s.deadline = t.deadline => s = t
    BY <1>0, <2>1 DEF AccountsInv, Insert
  <2>6. dismissed' = dismissed /\ dismissed \subseteq Ids(added)
    BY <1>0, <1>3 DEF AccountsInv, add
  <2>7. Ids(deadlines') \cap dismissed' = {}
    BY <1>0, <2>1, <2>6 DEF AccountsInv, Insert, Ids
  <2>8. timer' # NoWait => timer' \in added'
    <3>1. deadlines = {} => First(Insert(r)) = r
      BY DEF Insert, First
    <3> QED BY <1>0, <1>3, <2>1, <3>1 DEF add, ProcessNextDeadline, AccountsInv
  <2>9. listening' /\ state' = state
    BY <1>0, <1>3 DEF add, AccountsInv
  <2>10. dismissed' \subseteq Ids(added')
    BY <1>1, <2>6 DEF Ids
  <2> QED BY <1>2, <2>2, <2>3, <2>4, <2>5, <2>7, <2>8, <2>9, <2>10 DEF AccountsInv
<1>4. ASSUME added' = added,
             deadlines' \subseteq deadlines, dismissed \subseteq dismissed',
             dismissed' \ dismissed \subseteq Ids(deadlines),
             Ids(deadlines') \cap dismissed' = {},
             timer' # NoWait => timer' \in added,
             state' = "established" \/ deadlines' # {} => listening'
      PROVE  AccountsInv'
  <2>1. dismissed' \subseteq Ids(added)
    BY <1>0, <1>4 DEF AccountsInv, Ids
  <2>2. \A s, t \in deadlines' : s.deadline = t.deadline => s = t
    BY <1>0, <1>4 DEF AccountsInv
  <2> HIDE DEF Callbacks
  <2> QED BY <1>0, <1>2, <1>4, <2>1, <2>2 DEF AccountsInv
<1>5. ASSUME NEW id \in RequestIds, remove(id) PROVE AccountsInv'
  <2>1. PICK r \in deadlines : r.requestId = id /\ deadlines' = deadlines \ {r}
    BY <1>5 DEF remove
  <2>2. dismissed' = dismissed \cup {id} /\ added' = added /\ listening' = listening
        /\ state' = state /\ (timer' = timer \/ timer' = NoWait)
    BY <1>5 DEF remove
  <2>3. Ids(deadlines') \cap dismissed' = {}
    BY <1>0, <2>1, <2>2 DEF AccountsInv, Ids
  <2>4. id \in Ids(deadlines)
    BY <2>1 DEF Ids
  <2> QED BY <1>0, <1>4, <2>1, <2>2, <2>3, <2>4 DEF AccountsInv
<1>6. CASE leave \/ disconnect
  <2>1. /\ deadlines' = {} /\ timer' = NoWait /\ dismissed' = dismissed \cup Ids(deadlines)
        /\ state' = "idle" /\ added' = added
    BY <1>6 DEF leave, disconnect, Clear
  <2>2. Ids(deadlines') = {}
    BY <2>1 DEF Ids
  <2> QED BY <1>4, <2>1, <2>2
<1>7. CASE SessionEnds \/ ReceiveWelcome \/ Tick \/ UNCHANGED vars
  BY <1>0, <1>4, <1>7 DEF SessionEnds, ReceiveWelcome, Tick, vars, AccountsInv
<1>8. CASE RunWelcome
  BY <1>0, <1>4, <1>8 DEF RunWelcome, Listen, AccountsInv
<1>9. CASE Expire
  BY <1>0, <1>4, <1>9 DEF Expire, AccountsInv
<1>10. CASE RunOnTimer
  <2>1. deadlines' \subseteq deadlines
    BY <1>10 DEF RunOnTimer
  <2>2. \A set \in SUBSET deadlines : set # {} => First(set) \in added
    BY <1>0, DeadlinesLemma
  <2>3. timer' = NoWait \/ timer' \in added
    BY <1>0, <1>10, <2>2 DEF RunOnTimer, ProcessNextDeadline, AccountsInv
  <2>4. Ids(deadlines') \cap dismissed = {}
    BY <1>0, <2>1 DEF AccountsInv, Ids
  <2>5. /\ added' = added /\ dismissed' = dismissed /\ listening' = listening
        /\ state' = state
    BY <1>10 DEF RunOnTimer
  <2> QED BY <1>0, <1>4, <2>1, <2>3, <2>4, <2>5 DEF AccountsInv
<1> QED BY <1>3, <1>5, <1>6, <1>7, <1>8, <1>9, <1>10 DEF Next

-----------------------------------------------------------------------------
(* Punctuality and order *)

\* A call that is reported is the first of the deadlines, and it is due.
LEMMA FireLemma ==
    ASSUME IndInv, RunOnTimer, fired' # fired
    PROVE  LET top == First(deadlines)
           IN  /\ top \in deadlines
               /\ fired' = Append(fired, top)
               /\ deadlines' = deadlines \ {top}
               /\ top.deadline <= now
<1> DEFINE top == First(deadlines)
           t   == Head(strand)
<1>1. /\ strand # << >> /\ t.task = "timer" /\ deadlines # {} /\ top.requestId = t.requestId
      /\ ~t.cancelled /\ fired' = Append(fired, top) /\ deadlines' = deadlines \ {top}
  BY DEF RunOnTimer, Fires
<1>2. top \in deadlines /\ deadlines \subseteq added
  BY <1>1, DeadlinesLemma
<1>3. 1 \in Callbacks /\ strand[1] = t
  <2>1. strand \in Seq(Tasks)
    BY DEF IndInv, TypeOK
  <2>2. Len(strand) \in Nat \ {0} /\ strand[1] = Head(strand)
    BY <1>1, <2>1
  <2> QED BY <1>1, <2>2 DEF Callbacks
<1>4. PICK r \in added : r.requestId = t.requestId /\ r.deadline <= now
  BY <1>1, <1>3 DEF IndInv, PunctualInv
<1>5. r = top
  BY <1>1, <1>2, <1>4 DEF IndInv, AccountsInv
<1> QED BY <1>1, <1>2, <1>4, <1>5

\* Every step keeps the order of the reports.
LEMMA PunctualStep == IndInv /\ [Next]_vars => PunctualInv'
<1> SUFFICES ASSUME IndInv, [Next]_vars PROVE PunctualInv'
  OBVIOUS
<1>0. PunctualInv /\ fired \in Seq(added) /\ now \in Nat
  BY TimeBoundsAssumption DEF IndInv, TypeOK
<1>1. added \subseteq added' /\ now' \in Nat /\ now' >= now
  <2>1. added \subseteq added'
    BY DEF Next, add, remove, leave, disconnect, SessionEnds, ReceiveWelcome, RunWelcome, Tick,
           Expire, RunOnTimer, vars
  <2>2. now' = now \/ now' = now + 1
    BY DEF Next, add, remove, leave, disconnect, SessionEnds, ReceiveWelcome, RunWelcome, Tick,
           Expire, RunOnTimer, vars
  <2> QED BY <1>0, <2>1, <2>2
<1>2. \A i \in Callbacks' : ~strand'[i].cancelled =>
         \E r \in added' : r.requestId = strand'[i].requestId /\ r.deadline <= now'
  BY <1>1, CallbackStep
<1>3. \A i \in 1 .. Len(fired) : fired[i] \in added /\ fired[i].deadline \in Nat
  BY <1>0, DeadlinesLemma
<1>4. ASSUME fired' = fired,
             \A i \in 1 .. Len(fired) : \A r \in deadlines' : fired[i].deadline < r.deadline
      PROVE  PunctualInv'
  <2>1. \A i \in 1 .. Len(fired') : fired'[i].deadline <= now'
    BY <1>0, <1>1, <1>3, <1>4 DEF PunctualInv
  <2>2. FiredInOrder'
    BY <1>0, <1>4 DEF PunctualInv, FiredInOrder
  <2> QED BY <1>2, <1>4, <2>1, <2>2 DEF PunctualInv
<1>5. ASSUME fired' = fired, deadlines' \subseteq deadlines PROVE PunctualInv'
  BY <1>0, <1>4, <1>5 DEF PunctualInv
<1>6. ASSUME NEW timeout \in Timeouts, add(timeout) PROVE PunctualInv'
  <2>1. PICK r \in Records : r.deadline > now /\ deadlines' = Insert(r)
    BY <1>6, AddLemma
  <2>2. r.deadline \in Nat
    BY RecordLemma, TimeBoundsAssumption
  <2>3. \A i \in 1 .. Len(fired) : fired[i].deadline < r.deadline
    BY <1>0, <1>3, <2>1, <2>2 DEF PunctualInv
  <2>4. fired' = fired
    BY <1>6 DEF add
  <2> QED BY <1>0, <1>4, <2>1, <2>3, <2>4 DEF PunctualInv, Insert
<1>7. CASE \/ \E id \in RequestIds : remove(id)
           \/ leave \/ disconnect \/ SessionEnds \/ ReceiveWelcome \/ RunWelcome \/ Tick
           \/ Expire \/ UNCHANGED vars
  <2>1. fired' = fired
    BY <1>7 DEF remove, leave, disconnect, SessionEnds, ReceiveWelcome, RunWelcome, Tick, Expire, vars
  <2>2. deadlines' \subseteq deadlines
    BY <1>7 DEF remove, leave, disconnect, Clear, SessionEnds, ReceiveWelcome, RunWelcome, Tick,
                Expire, vars
  <2> QED BY <1>5, <2>1, <2>2
<1>8. CASE RunOnTimer /\ fired' = fired
  BY <1>5, <1>8 DEF RunOnTimer
<1>9. CASE RunOnTimer /\ fired' # fired
  <2> DEFINE top == First(deadlines)
  <2>1. /\ top \in deadlines /\ fired' = Append(fired, top)
        /\ deadlines' = deadlines \ {top} /\ top.deadline <= now
    BY <1>9, FireLemma
  <2>2. /\ top \in added /\ top.deadline \in Nat
        /\ \A s \in deadlines : s.deadline \in Nat /\ top.deadline <= s.deadline
    BY <2>1, DeadlinesLemma
  <2> HIDE DEF top
  <2>3. \A s \in deadlines' : top.deadline < s.deadline
    BY <2>1, <2>2 DEF IndInv, AccountsInv
  <2>4. /\ Len(fired') = Len(fired) + 1 /\ Len(fired) \in Nat
        /\ \A i \in 1 .. Len(fired) : fired'[i] = fired[i]
        /\ fired'[Len(fired) + 1] = top
    BY <1>0, <2>1, <2>2
  <2>5. \A i \in 1 .. Len(fired') : i \in 1 .. Len(fired) \/ i = Len(fired) + 1
    BY <2>4
  <2>6. \A i \in 1 .. Len(fired') : fired'[i].deadline <= now'
    BY <1>0, <1>1, <1>3, <2>1, <2>2, <2>4, <2>5 DEF PunctualInv
  <2>7. \A i \in 1 .. Len(fired') : \A r \in deadlines' : fired'[i].deadline < r.deadline
    BY <1>0, <2>1, <2>3, <2>4, <2>5 DEF PunctualInv
  <2>8. FiredInOrder'
    <3> SUFFICES ASSUME NEW i \in 1 .. Len(fired'), NEW j \in 1 .. Len(fired'), i < j
                 PROVE  fired'[i].deadline < fired'[j].deadline
      BY DEF FiredInOrder
    <3>1. i \in 1 .. Len(fired)
      BY <2>4
    <3>2. CASE j \in 1 .. Len(fired)
      BY <1>0, <2>4, <3>1, <3>2 DEF PunctualInv, FiredInOrder
    <3>3. CASE j = Len(fired) + 1
      BY <1>0, <2>1, <2>4, <3>1, <3>3 DEF PunctualInv
    <3> QED BY <2>5, <3>2, <3>3
  <2> QED BY <1>2, <2>6, <2>7, <2>8 DEF PunctualInv
<1> QED BY <1>6, <1>7, <1>8, <1>9 DEF Next

-----------------------------------------------------------------------------
(* Nothing is lost *)

\* Without remove(), the callback that finds the deadline it waited for reports it.
LEMMA ReportLemma ==
    ASSUME IndInv, removals = 0, RunOnTimer, deadlines # {},
           First(deadlines).requestId = Head(strand).requestId
    PROVE  fired' = Append(fired, First(deadlines))
<1>1. 1 \in Callbacks /\ strand[1] = Head(strand)
  <2>1. strand \in Seq(Tasks)
    BY DEF IndInv, TypeOK
  <2>2. strand # << >> /\ Head(strand).task = "timer"
    BY DEF RunOnTimer
  <2>3. Len(strand) \in Nat \ {0} /\ strand[1] = Head(strand)
    BY <2>1, <2>2
  <2> QED BY <2>2, <2>3 DEF Callbacks
<1>2. ~Head(strand).cancelled
  BY <1>1 DEF IndInv, WaitInv
<1>3. listening
  BY DEF IndInv, AccountsInv
<1> QED BY <1>2, <1>3 DEF RunOnTimer, Fires

\* Every step keeps the deadlines that are not reported yet.
LEMMA KeptStep == IndInv /\ [Next]_vars => TimeoutKept'
<1> SUFFICES ASSUME IndInv, [Next]_vars, removals' = 0, NEW r \in added'
             PROVE  \/ r \in deadlines' \/ r.requestId \in FiredIds' \cup dismissed' \/ Shared(r)'
  BY DEF TimeoutKept
<1>0. removals = 0 /\ removals' = removals
  <2>1. removals' = removals \/ removals' = removals + 1
    BY DEF Next, add, remove, leave, disconnect, SessionEnds, ReceiveWelcome, RunWelcome, Tick,
           Expire, RunOnTimer, vars
  <2>2. removals \in Nat
    BY DEF IndInv, TypeOK
  <2> QED BY <2>1, <2>2
<1>1. ASSUME NEW timeout \in Timeouts, add(timeout)
      PROVE  \/ r \in deadlines' \/ r.requestId \in FiredIds' \cup dismissed' \/ Shared(r)'
  <2>1. PICK n \in Records : /\ n \notin added /\ added' = added \cup {n}
                             /\ deadlines' = Insert(n)
    BY <1>1, AddLemma
  <2>2. fired' = fired /\ dismissed' = dismissed
    BY <1>1 DEF add
  <2>3. CASE r = n
    <3>1. CASE n \in deadlines'
      BY <2>3, <3>1
    <3>2. CASE n \notin deadlines'
      <4>1. PICK s \in deadlines : s.deadline = n.deadline
        BY <2>1, <3>2 DEF Insert
      <4>2. s \in added /\ s # n
        BY <2>1, DeadlinesLemma
      <4> QED BY <2>1, <2>3, <4>1, <4>2 DEF Shared
    <3> QED BY <3>1, <3>2
  <2>4. CASE r \in added
    BY <1>0, <2>1, <2>2, <2>4 DEF IndInv, TimeoutKept, Insert, FiredIds, Shared
  <2> QED BY <2>1, <2>3, <2>4
<1>2. ASSUME added' = added,
             deadlines \ deadlines' = {} \/ Ids(deadlines) \subseteq dismissed',
             dismissed \subseteq dismissed', fired' = fired
      PROVE  \/ r \in deadlines' \/ r.requestId \in FiredIds' \cup dismissed' \/ Shared(r)'
  BY <1>0, <1>2 DEF IndInv, TimeoutKept, FiredIds, Shared, Ids
<1>3. CASE leave \/ disconnect
  BY <1>2, <1>3 DEF leave, disconnect, Clear
<1>4. CASE SessionEnds \/ ReceiveWelcome \/ RunWelcome \/ Tick \/ Expire \/ UNCHANGED vars
  BY <1>2, <1>4 DEF SessionEnds, ReceiveWelcome, RunWelcome, Tick, Expire, vars
<1>5. CASE RunOnTimer
  <2> DEFINE top == First(deadlines)
  <2>1. added' = added /\ dismissed' = dismissed
    BY <1>5 DEF RunOnTimer
  <2>2. CASE deadlines' = deadlines /\ fired' = fired
    BY <1>2, <2>1, <2>2
  <2>3. CASE deadlines # {} /\ top.requestId = Head(strand).requestId
    <3>1. deadlines' = deadlines \ {top}
      BY <1>5, <2>3 DEF RunOnTimer
    <3>2. fired' = Append(fired, top) /\ top \in added /\ fired \in Seq(added)
      BY <1>0, <1>5, <2>3, ReportLemma, DeadlinesLemma DEF IndInv, TypeOK
    <3> HIDE DEF top
    <3>3. /\ Len(fired') = Len(fired) + 1 /\ Len(fired) \in Nat
          /\ \A i \in 1 .. Len(fired) : fired'[i] = fired[i]
          /\ fired'[Len(fired) + 1] = top
      BY <3>2
    <3>4. FiredIds \subseteq FiredIds' /\ top.requestId \in FiredIds'
      BY <3>3 DEF FiredIds
    <3> QED BY <1>0, <2>1, <3>1, <3>4 DEF IndInv, TimeoutKept, Shared
  <2> QED BY <1>5, <2>2, <2>3 DEF RunOnTimer
<1> QED BY <1>0, <1>1, <1>3, <1>4, <1>5 DEF Next, remove, IndInv, TypeOK

-----------------------------------------------------------------------------
(* One wait at a time *)

\* Taking the first task off the strand.
LEMMA TailLemma ==
    ASSUME TypeOK, strand # << >>
    PROVE  /\ Len(strand) \in Nat \ {0} /\ Len(Tail(strand)) = Len(strand) - 1
           /\ Tail(strand) \in Seq(Tasks)
           /\ \A i \in 1 .. Len(Tail(strand)) : Tail(strand)[i] = strand[i + 1]
           /\ strand[1] = Head(strand)
<1>1. strand \in Seq(Tasks)
  BY DEF TypeOK
<1> QED BY <1>1

\* Queueing one more task.
LEMMA AppendLemma ==
    ASSUME TypeOK, NEW t \in Tasks
    PROVE  /\ Len(strand) \in Nat /\ Len(Append(strand, t)) = Len(strand) + 1
           /\ \A i \in 1 .. Len(strand) : Append(strand, t)[i] = strand[i]
           /\ Append(strand, t)[Len(strand) + 1] = t
<1>1. strand \in Seq(Tasks)
  BY DEF TypeOK
<1> QED BY <1>1

\* Cancelling a wait while no callback is queued leaves exactly its callback.
LEMMA CancelLemma ==
    ASSUME IndInv, removals = 0, strand' = Cancelled(strand)
    PROVE  /\ timer = NoWait => strand' = strand
           /\ timer # NoWait =>
                 /\ Callbacks = {}
                 /\ Callbacks' = {Len(strand) + 1}
                 /\ strand'[Len(strand) + 1].requestId = First(deadlines).requestId
                 /\ timer = First(deadlines)
                 /\ Len(strand') = Len(strand) + 1
                 /\ \A i \in 1 .. Len(strand) : strand'[i] = strand[i]
<1>0. TypeOK /\ strand \in Seq(Tasks)
  BY DEF IndInv, TypeOK
<1>1. CASE timer = NoWait
  BY <1>0, <1>1, CancelledLemma
<1>2. CASE timer # NoWait
  <2> DEFINE c == Callback(timer.requestId, TRUE)
  <2>1. Callbacks = {} /\ timer = First(deadlines)
    BY <1>2 DEF IndInv, WaitInv
  <2>2. c \in Tasks /\ strand' = Append(strand, c) /\ c.task = "timer"
        /\ c.requestId = timer.requestId
    BY <1>0, <1>2, CancelledLemma, TaskLemma
  <2> HIDE DEF c
  <2>3. /\ Len(strand) \in Nat /\ Len(strand') = Len(strand) + 1
        /\ \A i \in 1 .. Len(strand) : strand'[i] = strand[i]
        /\ strand'[Len(strand) + 1] = c
    BY <1>0, <2>2, AppendLemma
  <2>4. Callbacks' = {Len(strand) + 1}
    <3>1. \A i \in 1 .. Len(strand') : i \in 1 .. Len(strand) \/ i = Len(strand) + 1
      BY <2>3
    <3>2. \A i \in 1 .. Len(strand) : strand'[i].task # "timer"
      BY <2>1, <2>3 DEF Callbacks
    <3>3. Len(strand) + 1 \in 1 .. Len(strand') /\ strand'[Len(strand) + 1].task = "timer"
      BY <2>2, <2>3
    <3> QED BY <3>1, <3>2, <3>3 DEF Callbacks
  <2> QED BY <1>2, <2>1, <2>2, <2>3, <2>4
<1> QED BY <1>1, <1>2

\* Running the only callback leaves none.
LEMMA LastCallback ==
    ASSUME IndInv, removals = 0, strand # << >>, Head(strand).task = "timer",
           strand' = Tail(strand)
    PROVE  Callbacks' = {} /\ 1 \in Callbacks
<1>1. TypeOK
  BY DEF IndInv
<1>2. 1 \in Callbacks
  BY <1>1, TailLemma DEF Callbacks
<1>3. ASSUME NEW i \in Callbacks' PROVE FALSE
  <2>1. i + 1 \in Callbacks /\ i + 1 # 1
    BY <1>1, <1>3, TailLemma DEF Callbacks
  <2> QED BY <1>2, <2>1 DEF IndInv, WaitInv
<1> QED BY <1>2, <1>3

\* Every step keeps the discipline of the timer.
LEMMA WaitStep == IndInv /\ [Next]_vars => WaitInv'
<1> SUFFICES ASSUME IndInv, [Next]_vars, removals' = 0 PROVE WaitInv'
  BY DEF WaitInv
<1>0. removals = 0 /\ removals' = removals
  <2>1. removals' = removals \/ removals' = removals + 1
    BY DEF Next, add, remove, leave, disconnect, SessionEnds, ReceiveWelcome, RunWelcome, Tick,
           Expire, RunOnTimer, vars
  <2>2. removals \in Nat
    BY DEF IndInv, TypeOK
  <2> QED BY <2>1, <2>2
<1>1. TypeOK /\ strand \in Seq(Tasks)
  BY DEF IndInv, TypeOK
<1>2. /\ \A i, j \in Callbacks : i = j
      /\ deadlines # {} => \/ timer = First(deadlines) /\ Callbacks = {}
                           \/ timer = NoWait /\ Callbacks # {}
      /\ deadlines = {} => timer = NoWait
      /\ deadlines = {} /\ state = "established" => Callbacks = {}
      /\ deadlines # {} => \A i \in Callbacks : strand[i].cancelled
                                => strand[i].requestId # First(deadlines).requestId
  BY <1>0 DEF IndInv, WaitInv
<1>3. ASSUME NEW timeout \in Timeouts, add(timeout) PROVE WaitInv'
  <2>1. PICK r \in Records :
           /\ r = Record(now + timeout, Cardinality(added) + 1)
           /\ r \notin added /\ deadlines' = Insert(r) /\ added' = added \cup {r}
           /\ \A s \in added : s.requestId # r.requestId
    BY <1>3, AddLemma
  <2>2. /\ \A s \in deadlines' : s.deadline \in Nat
        /\ \A s, t \in deadlines' : s.deadline = t.deadline => s = t
        /\ deadlines' # {}
    <3>1. AccountsInv' /\ r.deadline \in Nat
      BY AccountsStep, RecordLemma, TimeBoundsAssumption
    <3> QED BY <2>1, <3>1, DeadlinesLemma DEF AccountsInv, Insert
  <2>3. CASE deadlines = {}
    <3>1. First(Insert(r)) = r
      BY <2>3 DEF Insert, First
    <3>2. Callbacks = {} /\ timer = NoWait
      BY <1>2, <1>3, <2>3 DEF add
    <3>3. timer' = First(deadlines') /\ strand' = Cancelled(strand)
      BY <1>3, <2>1, <2>3 DEF add, ProcessNextDeadline, Preempts
    <3>4. strand' = strand
      BY <1>1, <3>2, <3>3, CancelledLemma
    <3>5. Callbacks' = {}
      BY <3>2, <3>4 DEF Callbacks
    <3> QED BY <2>2, <3>3, <3>5 DEF WaitInv
  <2>4. CASE deadlines # {} /\ Preempts(r)
    <3>1. First(deadlines) \in deadlines /\ r.deadline < First(deadlines).deadline
          /\ \A s \in deadlines : s.deadline \in Nat /\ First(deadlines).deadline <= s.deadline
      BY <2>4, DeadlinesLemma DEF Preempts
    <3>2. r.deadline \in Nat
      BY RecordLemma, TimeBoundsAssumption
    <3>3. deadlines' = deadlines \cup {r} /\ \A s \in deadlines' : r.deadline <= s.deadline
      BY <2>1, <3>1, <3>2 DEF Insert
    <3>4. First(deadlines') = r
      BY <2>2, <3>3, FirstIs
    <3>5. strand' = Cancelled(strand) /\ timer' = NoWait
      BY <1>3, <2>1, <2>4 DEF add
    <3>6. First(deadlines).requestId # r.requestId
      BY <2>1, <3>1, DeadlinesLemma
    <3>7. CASE timer = NoWait
      <4>1. strand' = strand /\ Callbacks' = Callbacks
        BY <1>0, <3>5, <3>7, CancelLemma DEF Callbacks
      <4>2. Callbacks # {}
        BY <1>1, <1>2, <2>4, <3>1, <3>7, RecordLemma DEF TypeOK
      <4>3. \A i \in Callbacks : strand[i].requestId # r.requestId
        BY <2>1 DEF IndInv, AccountsInv, Ids
      <4> QED BY <1>2, <2>2, <3>4, <3>5, <4>1, <4>2, <4>3 DEF WaitInv
    <3>8. CASE timer # NoWait
      <4>1. /\ Callbacks' = {Len(strand) + 1}
            /\ strand'[Len(strand) + 1].requestId = First(deadlines).requestId
        BY <1>0, <3>5, <3>8, CancelLemma
      <4> QED BY <2>2, <3>4, <3>5, <3>6, <4>1 DEF WaitInv
    <3> QED BY <3>7, <3>8
  <2>5. CASE deadlines # {} /\ ~Preempts(r)
    <3>1. First(deadlines) \in deadlines
          /\ \A s \in deadlines : s.deadline \in Nat /\ First(deadlines).deadline <= s.deadline
      BY <2>5, DeadlinesLemma
    <3>2. r.deadline \in Nat /\ First(deadlines).deadline <= r.deadline
      BY <2>5, <3>1, RecordLemma, TimeBoundsAssumption DEF Preempts
    <3>3. First(deadlines) \in deadlines' /\ \A s \in deadlines' : First(deadlines).deadline <= s.deadline
      BY <2>1, <3>1, <3>2 DEF Insert
    <3>4. First(deadlines') = First(deadlines)
      BY <2>2, <3>3, FirstIs
    <3>5. strand' = strand /\ timer' = timer /\ Callbacks' = Callbacks
      BY <1>3, <2>1, <2>5 DEF add, Callbacks
    <3> QED BY <1>2, <2>2, <2>5, <3>4, <3>5 DEF WaitInv
  <2> QED BY <2>3, <2>4, <2>5
<1>4. CASE leave \/ disconnect
  <2>1. deadlines' = {} /\ timer' = NoWait /\ state' = "idle" /\ strand' = Cancelled(strand)
    BY <1>4 DEF leave, disconnect, Clear
  <2>2. \A i, j \in Callbacks' : i = j
    BY <1>0, <1>2, <2>1, CancelLemma DEF Callbacks
  <2> QED BY <2>1, <2>2 DEF WaitInv
<1>5. CASE SessionEnds \/ Tick \/ UNCHANGED vars
  <2>1. UNCHANGED << strand, timer, deadlines >> /\ (state' = state \/ state' = "idle")
    BY <1>5 DEF SessionEnds, Tick, vars
  <2>2. Callbacks' = Callbacks
    BY <2>1 DEF Callbacks
  <2> QED BY <1>2, <2>1, <2>2 DEF WaitInv
<1>6. CASE ReceiveWelcome
  <2>1. UNCHANGED << timer, deadlines >> /\ state' = "joining" /\ strand' = Append(strand, Welcome)
    BY <1>6 DEF ReceiveWelcome
  <2>2. /\ Len(strand) \in Nat /\ Len(strand') = Len(strand) + 1
        /\ \A i \in 1 .. Len(strand) : strand'[i] = strand[i]
        /\ strand'[Len(strand) + 1] = Welcome
    BY <1>1, <2>1, AppendLemma, TaskLemma
  <2>3. Callbacks' = Callbacks /\ \A i \in Callbacks : strand'[i] = strand[i]
    <3>1. \A i \in 1 .. Len(strand') : i \in 1 .. Len(strand) \/ i = Len(strand) + 1
      BY <2>2
    <3>2. \A i \in 1 .. Len(strand) : i \in 1 .. Len(strand')
      BY <2>2
    <3> QED BY <2>2, <3>1, <3>2, TaskLemma DEF Callbacks
  <2> QED BY <1>2, <2>1, <2>3 DEF WaitInv
<1>7. CASE RunWelcome
  <2>1. /\ UNCHANGED << timer, deadlines >> /\ strand # << >> /\ strand' = Tail(strand)
        /\ Head(strand).task = "welcome"
        /\ (state' = state \/ (state = "joining" /\ state' = "established"))
    BY <1>7 DEF RunWelcome
  <2>2. /\ Len(strand) \in Nat \ {0} /\ Len(strand') = Len(strand) - 1
        /\ \A i \in 1 .. Len(strand') : strand'[i] = strand[i + 1] /\ i + 1 \in 1 .. Len(strand)
        /\ strand[1] = Head(strand)
    BY <1>1, <2>1, TailLemma
  <2>3. \A i \in Callbacks' : i \in Int /\ i + 1 \in Callbacks /\ strand'[i] = strand[i + 1]
    BY <2>2 DEF Callbacks
  <2>4. \A i \in Callbacks : i - 1 \in Callbacks'
    BY <2>1, <2>2 DEF Callbacks
  <2>5. \A i, j \in Callbacks' : i = j
    BY <1>2, <2>3
  <2>6. Callbacks = {} <=> Callbacks' = {}
    BY <2>3, <2>4
  <2>7. ASSUME deadlines = {}, state' = "established" PROVE Callbacks' = {}
    <3>1. CASE state = "established"
      BY <1>2, <2>6, <2>7, <3>1
    <3>2. CASE state = "joining"
      <4>1. strand[1] = Welcome /\ 1 \in 1 .. Len(strand)
        BY <1>1, <2>1, <2>2, TaskLemma
      <4>2. \A i \in Callbacks : i < 1
        BY <1>0, <2>7, <3>2, <4>1 DEF IndInv, WelcomeInv
      <4>3. Callbacks = {}
        BY <4>2, <2>2 DEF Callbacks
      <4> QED BY <2>6, <4>3
    <3> QED BY <2>1, <2>7, <3>1, <3>2
  <2> QED BY <1>2, <2>1, <2>3, <2>5, <2>6, <2>7 DEF WaitInv
<1>8. CASE Expire
  <2> DEFINE c == Callback(timer.requestId, FALSE)
  <2>1. UNCHANGED << deadlines, state >> /\ timer' = NoWait /\ strand' = Append(strand, c)
        /\ timer # NoWait
    BY <1>8 DEF Expire
  <2>2. deadlines # {} /\ timer = First(deadlines) /\ Callbacks = {}
    BY <1>2, <2>1
  <2>3. c \in Tasks /\ c.task = "timer" /\ c.cancelled = FALSE
    BY <1>1, <2>1, TaskLemma, RecordLemma DEF TypeOK
  <2> HIDE DEF c
  <2>4. /\ Len(strand) \in Nat /\ Len(strand') = Len(strand) + 1
        /\ \A i \in 1 .. Len(strand) : strand'[i] = strand[i]
        /\ strand'[Len(strand) + 1] = c
    BY <1>1, <2>1, <2>3, AppendLemma
  <2>5. Callbacks' = {Len(strand) + 1}
    <3>1. \A i \in 1 .. Len(strand') : i \in 1 .. Len(strand) \/ i = Len(strand) + 1
      BY <2>4
    <3>2. \A i \in 1 .. Len(strand) : strand'[i].task # "timer"
      BY <2>2, <2>4 DEF Callbacks
    <3>3. Len(strand) + 1 \in 1 .. Len(strand') /\ strand'[Len(strand) + 1].task = "timer"
      BY <2>3, <2>4
    <3> QED BY <3>1, <3>2, <3>3 DEF Callbacks
  <2> QED BY <2>1, <2>2, <2>3, <2>4, <2>5 DEF WaitInv
<1>9. CASE RunOnTimer
  <2> DEFINE top == First(deadlines)
             rest == deadlines \ {top}
  <2>1. strand # << >> /\ Head(strand).task = "timer" /\ state' = state
    BY <1>9 DEF RunOnTimer
  <2>2. 1 \in Callbacks
    BY <1>1, <2>1, TailLemma DEF Callbacks
  <2>3. timer = NoWait
    BY <1>2, <2>2
  <2>4. Cancelled(Tail(strand)) = Tail(strand)
    BY <1>1, <2>1, <2>3, TailLemma, CancelledLemma
  <2>5. strand' = Tail(strand)
    BY <1>9, <2>4 DEF RunOnTimer, ProcessNextDeadline
  <2>6. Callbacks' = {}
    BY <1>0, <2>1, <2>5, LastCallback
  <2>7. \/ deadlines' = {} /\ timer' = NoWait
        \/ deadlines' # {} /\ timer' = First(deadlines')
    BY <1>9, <2>3 DEF RunOnTimer, ProcessNextDeadline
  <2> QED BY <2>6, <2>7 DEF WaitInv
<1> QED BY <1>0, <1>3, <1>4, <1>5, <1>6, <1>7, <1>8, <1>9 DEF Next, remove, IndInv, TypeOK

-----------------------------------------------------------------------------
(* Joining again *)

\* Every step keeps the place of WELCOME.
LEMMA WelcomeStep == IndInv /\ [Next]_vars => WelcomeInv'
<1> SUFFICES ASSUME IndInv, [Next]_vars PROVE WelcomeInv'
  OBVIOUS
<1>0. TypeOK /\ WelcomeInv /\ WaitInv /\ strand \in Seq(Tasks)
  BY DEF IndInv, TypeOK
<1> DEFINE Unique(q) == \A i, j \in 1 .. Len(q) : q[i] = Welcome /\ q[j] = Welcome => i = j
<1>1. Unique(strand)
  BY <1>0 DEF WelcomeInv
<1>2. ASSUME strand # << >> PROVE Unique(Tail(strand))
  <2>1. /\ Len(strand) \in Nat \ {0} /\ Len(Tail(strand)) = Len(strand) - 1
        /\ \A i \in 1 .. Len(Tail(strand)) : /\ Tail(strand)[i] = strand[i + 1]
                                            /\ i + 1 \in 1 .. Len(strand)
    BY <1>0, <1>2, TailLemma
  <2> QED BY <1>1, <2>1
<1>3. ASSUME NEW q \in Seq(Tasks), Unique(q), NEW t \in Tasks, t # Welcome
      PROVE  Unique(Append(q, t))
  <2>1. /\ Len(q) \in Nat /\ Len(Append(q, t)) = Len(q) + 1
        /\ \A i \in 1 .. Len(q) : Append(q, t)[i] = q[i]
        /\ Append(q, t)[Len(q) + 1] = t
    OBVIOUS
  <2>2. \A i \in 1 .. Len(Append(q, t)) : i \in 1 .. Len(q) \/ i = Len(q) + 1
    BY <2>1
  <2> QED BY <1>3, <2>1, <2>2
<1>4. ASSUME NEW q \in Seq(Tasks), Unique(q) PROVE Unique(Cancelled(q))
  <2>1. CASE timer = NoWait
    BY <1>0, <1>4, <2>1, CancelledLemma
  <2>2. CASE timer # NoWait
    <3> DEFINE c == Callback(timer.requestId, TRUE)
    <3>1. c \in Tasks /\ c # Welcome /\ Cancelled(q) = Append(q, c)
      BY <1>0, <2>2, CancelledLemma, TaskLemma
    <3> HIDE DEF c, Unique
    <3> QED BY <1>3, <1>4, <3>1
  <2> QED BY <2>1, <2>2
<1> HIDE DEF Unique
<1>5. ASSUME Unique(strand'),
             removals' = 0 /\ state' = "joining" /\ deadlines' = {} =>
                \A i \in Callbacks', j \in 1 .. Len(strand') : strand'[j] = Welcome => i < j
      PROVE  WelcomeInv'
  BY <1>5 DEF WelcomeInv, Unique
<1>6. ASSUME NEW timeout \in Timeouts, add(timeout) PROVE WelcomeInv'
  <2>1. strand' = strand \/ strand' = Cancelled(strand)
    BY <1>6 DEF add, ProcessNextDeadline
  <2>2. Unique(strand')
    BY <1>0, <1>1, <1>4, <2>1
  <2>3. state' = "established"
    BY <1>6 DEF add
  <2> QED BY <1>5, <2>2, <2>3
<1>7. ASSUME NEW id \in RequestIds, remove(id) PROVE WelcomeInv'
  <2>1. strand' = strand \/ strand' = Cancelled(strand)
    BY <1>7 DEF remove
  <2>2. Unique(strand')
    BY <1>0, <1>1, <1>4, <2>1
  <2>3. removals' # 0
    BY <1>0, <1>7 DEF remove, TypeOK
  <2> QED BY <1>5, <2>2, <2>3
<1>8. CASE leave \/ disconnect
  <2>1. strand' = Cancelled(strand) /\ state' = "idle"
    BY <1>8 DEF leave, disconnect, Clear
  <2>2. Unique(strand')
    BY <1>0, <1>1, <1>4, <2>1
  <2> QED BY <1>5, <2>1, <2>2
<1>9. CASE SessionEnds \/ Tick \/ UNCHANGED vars
  <2>1. UNCHANGED << strand, deadlines, removals >> /\ (state' = state \/ state' = "idle")
    BY <1>9 DEF SessionEnds, Tick, vars
  <2> QED BY <1>0, <2>1 DEF WelcomeInv, Callbacks
<1>10. CASE ReceiveWelcome
  <2>1. strand' = Append(strand, Welcome) /\ \A i \in 1 .. Len(strand) : strand[i] # Welcome
    BY <1>10 DEF ReceiveWelcome
  <2>2. /\ Len(strand) \in Nat /\ Len(strand') = Len(strand) + 1
        /\ \A i \in 1 .. Len(strand) : strand'[i] = strand[i]
        /\ strand'[Len(strand) + 1] = Welcome
    BY <1>0, <2>1, AppendLemma, TaskLemma
  <2>3. \A i \in 1 .. Len(strand') : i \in 1 .. Len(strand) \/ i = Len(strand) + 1
    BY <2>2
  <2>4. \A j \in 1 .. Len(strand') : strand'[j] = Welcome => j = Len(strand) + 1
    BY <2>1, <2>2, <2>3
  <2>5. \A i \in Callbacks' : i < Len(strand) + 1
    BY <2>2, <2>3, TaskLemma DEF Callbacks
  <2> QED BY <1>5, <2>4, <2>5 DEF Unique
<1>11. CASE RunWelcome
  <2>1. /\ strand # << >> /\ strand' = Tail(strand) /\ Head(strand).task = "welcome"
        /\ state' # "joining"
    BY <1>11 DEF RunWelcome
  <2> QED BY <1>2, <1>5, <2>1
<1>12. CASE Expire
  <2> DEFINE c == Callback(timer.requestId, FALSE)
  <2>1. c \in Tasks /\ c # Welcome /\ strand' = Append(strand, c)
    BY <1>0, <1>12, TaskLemma, RecordLemma DEF Expire, TypeOK
  <2> HIDE DEF c
  <2>2. Unique(strand')
    BY <1>0, <1>1, <1>3, <2>1
  <2>3. deadlines' = deadlines /\ removals' = removals /\ timer # NoWait
    BY <1>12 DEF Expire
  <2>4. ~(removals' = 0 /\ deadlines' = {})
    BY <1>0, <2>3 DEF WaitInv
  <2> QED BY <1>5, <2>2, <2>4
<1>13. CASE RunOnTimer
  <2>1. strand # << >> /\ Head(strand).task = "timer" /\ removals' = removals
    BY <1>13 DEF RunOnTimer
  <2>2. strand' = Tail(strand) \/ strand' = Cancelled(Tail(strand))
    BY <1>13 DEF RunOnTimer, ProcessNextDeadline
  <2>3. Unique(strand')
    BY <1>0, <1>2, <1>4, <2>1, <2>2, TailLemma
  <2>4. removals = 0 => Callbacks' = {}
    <3> SUFFICES ASSUME removals = 0 PROVE Callbacks' = {}
      OBVIOUS
    <3>1. 1 \in Callbacks
      BY <1>0, <2>1, TailLemma DEF Callbacks
    <3>2. timer = NoWait
      BY <1>0, <3>1 DEF WaitInv
    <3>3. strand' = Tail(strand)
      BY <1>0, <2>1, <2>2, <3>2, TailLemma, CancelledLemma
    <3> QED BY <2>1, <3>3, LastCallback
  <2> QED BY <1>5, <2>1, <2>3, <2>4
<1> QED BY <1>6, <1>7, <1>8, <1>9, <1>10, <1>11, <1>12, <1>13 DEF Next

-----------------------------------------------------------------------------
(* The theorems *)

\* The scheduler starts in the invariant.
LEMMA InitInv == Init => IndInv
<1> SUFFICES ASSUME Init PROVE IndInv
  OBVIOUS
<1>1. strand \in Seq(Tasks) /\ Len(strand) = 0 /\ fired \in Seq(added) /\ Len(fired) = 0
  BY DEF Init
<1>2. Callbacks = {} /\ Ids(added) = {} /\ Ids(deadlines) = {}
  BY <1>1 DEF Callbacks, Ids, Init
<1>3. TypeOK
  <2>1. 0 \in 0 .. MaxTime /\ 0 \in 0 .. MaxSessions
    BY TimeBoundsAssumption
  <2> QED BY <1>1, <2>1 DEF Init, TypeOK
<1>4. AccountsInv
  BY <1>2, FS_EmptySet DEF Init, AccountsInv
<1>5. PunctualInv
  BY <1>1, <1>2 DEF PunctualInv, FiredInOrder
<1>6. WaitInv /\ WelcomeInv /\ TimeoutKept
  BY <1>1, <1>2 DEF Init, WaitInv, WelcomeInv, TimeoutKept
<1> QED BY <1>3, <1>4, <1>5, <1>6 DEF IndInv

\* The inductive invariant of the scheduler.
THEOREM Invariance == Spec => []IndInv
<1>1. IndInv /\ [Next]_vars => IndInv'
  BY TypeStep, AccountsStep, PunctualStep, WaitStep, WelcomeStep, KeptStep DEF IndInv
<1> QED BY <1>1, InitInv, PTL DEF Spec

\* "The first record represents a deadline being waited on by the timer": the one
\* timer waits for the first deadline, or one callback will make it, for any number
\* of calls, preemptions and sessions.
THEOREM TimerWaitsOnFirst == Spec => []WaitsOnFirst
<1>1. IndInv => WaitsOnFirst
  <2> SUFFICES ASSUME IndInv, deadlines # {}, removals = 0
               PROVE  \/ timer = First(deadlines) /\ Callbacks = {}
                      \/ timer = NoWait /\ Cardinality(Callbacks) = 1
    BY DEF WaitsOnFirst
  <2>1. CASE timer = NoWait /\ Callbacks # {}
    <3>1. PICK i \in Callbacks : Callbacks = {i}
      BY <2>1 DEF IndInv, WaitInv
    <3> QED BY <2>1, <3>1, FS_Singleton
  <2> QED BY <2>1 DEF IndInv, WaitInv
<1> QED BY <1>1, Invariance, PTL

\* No timeout is lost: a deadline stays in the set until it is reported, dismissed
\* with its session, or shared with another call.
THEOREM TimeoutsAreKept == Spec => []TimeoutKept
<1>1. IndInv => TimeoutKept
  BY DEF IndInv
<1> QED BY <1>1, Invariance, PTL

\* Calls time out in the order of their deadlines, and none of them twice.
THEOREM TimeoutsFireInOrder == Spec => []FiredInOrder
<1>1. IndInv => FiredInOrder
  BY DEF IndInv, PunctualInv
<1> QED BY <1>1, Invariance, PTL

\* No step of the scheduler reports a call ahead of its deadline, or one that was
\* dismissed by leave(), disconnect() or remove().
THEOREM TimeoutsFireOnTime == Spec => FiresOnTime
<1>1. IndInv /\ [Next]_vars =>
         [fired' # fired =>
            LET r == fired'[Len(fired')]
            IN  r.deadline <= now /\ r.requestId \notin dismissed]_vars
  <2> SUFFICES ASSUME IndInv, [Next]_vars, fired' # fired
               PROVE  /\ fired'[Len(fired')].deadline <= now
                      /\ fired'[Len(fired')].requestId \notin dismissed
    OBVIOUS
  <2> DEFINE top == First(deadlines)
  <2>1. RunOnTimer
    BY DEF Next, add, remove, leave, disconnect, SessionEnds, ReceiveWelcome, RunWelcome, Tick,
           Expire, vars
  <2>2. top \in deadlines /\ fired' = Append(fired, top) /\ top.deadline <= now
    BY <2>1, FireLemma
  <2>3. fired \in Seq(added) /\ top \in added
    BY <2>2 DEF IndInv, TypeOK
  <2> HIDE DEF top
  <2>4. fired'[Len(fired')] = top
    BY <2>2, <2>3
  <2>5. top.requestId \notin dismissed
    BY <2>2 DEF IndInv, AccountsInv, Ids
  <2> QED BY <2>2, <2>4, <2>5
<1> QED BY <1>1, Invariance, PTL DEF Spec, FiresOnTime
=============================================================================
