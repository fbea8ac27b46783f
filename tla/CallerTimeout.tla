--------------------------- MODULE CallerTimeout ---------------------------
(***************************************************************************)
(* CallerTimeoutScheduler: one steady_timer multiplexed over the deadlines *)
(* of all pending calls, and the way Client drives it.                     *)
(*                                                                         *)
(* A wait that the timer ends, by expiring or by being cancelled, only     *)
(* queues its callback on the strand; "strand" holds those callbacks and   *)
(* the WELCOME that establishes the next session.  A callback knows the    *)
(* request it was armed for and whether it was cancelled, nothing else:    *)
(* by the time it runs the deadlines may be different ones.                *)
(***************************************************************************)
EXTENDS Naturals, Sequences, FiniteSets

CONSTANTS
    Timeouts,          \* the timeouts calls are made with
    MaxTime,           \* bound: the clock stops here
    MaxCalls,          \* bound: number of calls with a timeout
    MaxSessions        \* bound: number of sessions established

ASSUME TimeoutsAssumption == Timeouts \subseteq Nat \ {0}
ASSUME TimeBoundsAssumption ==
    MaxTime \in Nat /\ MaxCalls \in Nat /\ MaxSessions \in Nat

VARIABLES
    now,               \* steady_clock::now()
    deadlines,         \* deadlines_: a set ordered, and compared, by deadline
    timer,             \* timer_: the record it waits for, if any
    strand,            \* callbacks of ended waits, and WELCOME, oldest first
    listening,         \* timeoutHandler_ is set
    state,             \* of Client: joining, established, or none of them
    sessions,          \* history: number of WELCOMEs on their way or received
    added,             \* history: the records of the calls that were made
    fired,             \* history: requests passed to timeoutHandler_, in order
    dismissed,         \* history: requests forgotten by clear() or remove()
    removals           \* history: number of requests that remove() was called for

vars == << now, deadlines, timer, strand, listening, state, sessions,
           added, fired, dismissed, removals >>

-----------------------------------------------------------------------------
(* Data *)

RequestIds == 1 .. MaxCalls
Record(deadline, id) == [deadline |-> deadline, requestId |-> id]
Records == { Record(d, id) : d \in 0 .. MaxTime, id \in RequestIds }
NoWait == Record(0, 0)

Callback(id, cancelled) == [task |-> "timer", requestId |-> id, cancelled |-> cancelled]
Welcome == [task |-> "welcome", requestId |-> 0, cancelled |-> FALSE]

\* Mutant: the records are ordered the wrong way round.
MutFirst(set) == CHOOSE r \in set : \A s \in set : s.deadline <= r.deadline

\* deadlines_.begin(), for a set that is not empty.
First(set) == CHOOSE r \in set : \A s \in set : r.deadline <= s.deadline

Ids(set) == { r.requestId : r \in set }

\* timer_.cancel(), given the callbacks queued so far.
Cancelled(queue) ==
    IF timer = NoWait THEN queue
    ELSE Append(queue, Callback(timer.requestId, TRUE))

-----------------------------------------------------------------------------
Init ==
    /\ now = 0
    /\ deadlines = {}
    /\ timer = NoWait
    /\ strand = << >>
    /\ listening = FALSE
    /\ state = "idle"
    /\ sessions = 0
    /\ added = {}
    /\ fired = << >>
    /\ dismissed = {}
    /\ removals = 0

-----------------------------------------------------------------------------
\* processNextDeadline: expires_at() cancels the wait in progress.
ProcessNextDeadline(set, queue) ==
    /\ timer' = First(set)
    /\ strand' = Cancelled(queue)

\* Mutant: an earlier deadline does not interrupt the wait for a later one.
MutPreempts(r) == FALSE

Preempts(r) == deadlines # {} /\ r.deadline < First(deadlines).deadline

\* std::set::insert does nothing when an equal key is there, and records are
\* compared by their deadlines only.
Insert(r) ==
    IF \E s \in deadlines : s.deadline = r.deadline THEN deadlines
    ELSE deadlines \cup {r}

\* Client::oneShotCall and ongoingCall with a caller timeout.
add(timeout) ==
    LET r == Record(now + timeout, Cardinality(added) + 1)
    IN  /\ state = "established"
        /\ r \in Records
        /\ added' = added \cup {r}
        /\ deadlines' = Insert(r)
        /\ \/ /\ deadlines = {}
              /\ ProcessNextDeadline(Insert(r), strand)
           \/ /\ deadlines # {} /\ Preempts(r)
              /\ strand' = Cancelled(strand)
              /\ timer' = NoWait
           \/ /\ deadlines # {} /\ ~Preempts(r)
              /\ UNCHANGED << strand, timer >>
        /\ UNCHANGED << now, listening, state, sessions, fired, dismissed, removals >>

\* Nothing in Client calls this one yet.
remove(id) ==
    /\ \E r \in deadlines :
          /\ r.requestId = id
          /\ deadlines' = deadlines \ {r}
          /\ IF r = First(deadlines)
               THEN strand' = Cancelled(strand) /\ timer' = NoWait
               ELSE UNCHANGED << strand, timer >>
    /\ dismissed' = dismissed \cup {id}
    /\ removals' = removals + 1
    /\ UNCHANGED << now, listening, state, sessions, added, fired >>

\* clear().
Clear ==
    /\ listening' = FALSE
    /\ deadlines' = {}
    /\ strand' = Cancelled(strand)
    /\ timer' = NoWait
    /\ dismissed' = dismissed \cup Ids(deadlines)

leave ==
    /\ state = "established"
    /\ Clear
    /\ state' = "idle"
    /\ UNCHANGED << now, sessions, added, fired, removals >>

\* Client::doDisconnect.
disconnect ==
    /\ Clear
    /\ state' = "idle"
    /\ UNCHANGED << now, sessions, added, fired, removals >>

\* A GOODBYE from the router, or a failure, ends the session as well, but
\* leaves the scheduler alone.
SessionEnds ==
    /\ state = "established"
    /\ state' = "idle"
    /\ UNCHANGED << now, deadlines, timer, strand, listening, sessions, added,
                    fired, dismissed, removals >>

\* join(), and the WELCOME that answers it, which queues like everything else.
ReceiveWelcome ==
    /\ state = "idle"
    /\ \A i \in 1 .. Len(strand) : strand[i] # Welcome
    /\ sessions < MaxSessions
    /\ sessions' = sessions + 1
    /\ state' = "joining"
    /\ strand' = Append(strand, Welcome)
    /\ UNCHANGED << now, deadlines, timer, listening, added, fired, dismissed, removals >>

\* Mutant: nobody listens.
MutListen == UNCHANGED listening

\* listen().
Listen == listening' = TRUE

\* Client::onWelcome, unless disconnect() came first.
RunWelcome ==
    /\ strand # << >> /\ Head(strand).task = "welcome"
    /\ strand' = Tail(strand)
    /\ IF state = "joining" THEN Listen /\ state' = "established"
       ELSE UNCHANGED << listening, state >>
    /\ UNCHANGED << now, deadlines, timer, sessions, added, fired, dismissed, removals >>

-----------------------------------------------------------------------------
(* The timer *)

Tick ==
    /\ now < MaxTime
    /\ now' = now + 1
    /\ UNCHANGED << deadlines, timer, strand, listening, state, sessions,
                    added, fired, dismissed, removals >>

Expire ==
    /\ timer # NoWait
    /\ timer.deadline <= now
    /\ strand' = Append(strand, Callback(timer.requestId, FALSE))
    /\ timer' = NoWait
    /\ UNCHANGED << now, deadlines, listening, state, sessions, added,
                    fired, dismissed, removals >>

\* Mutant: the callback does not look whether the wait was cancelled.
MutFires(t) == listening

\* onTimer calls timeoutHandler_, which makes Client cancel the call.
Fires(t) == listening /\ ~t.cancelled

\* Mutant: the callback of a cancelled wait returns at once.
MutRunOnTimer ==
    /\ strand # << >> /\ Head(strand).task = "timer"
    /\ LET t    == Head(strand)
           top  == First(deadlines)
           rest == deadlines \ {top}
       IN  \/ /\ deadlines = {} \/ t.cancelled
              /\ strand' = Tail(strand)
              /\ UNCHANGED << deadlines, timer, fired >>
           \/ /\ deadlines # {} /\ ~t.cancelled
              /\ fired' = IF Fires(t) THEN Append(fired, top) ELSE fired
              /\ deadlines' = rest
              /\ IF rest = {} THEN strand' = Tail(strand) /\ UNCHANGED timer
                 ELSE ProcessNextDeadline(rest, Tail(strand))
    /\ UNCHANGED << now, listening, state, sessions, added, dismissed, removals >>

\* onTimer: top is the first deadline, which may not be the one that was awaited.
RunOnTimer ==
    /\ strand # << >> /\ Head(strand).task = "timer"
    /\ LET t    == Head(strand)
           top  == First(deadlines)
           rest == deadlines \ {top}
       IN  \/ /\ deadlines = {}
              /\ strand' = Tail(strand)
              /\ UNCHANGED << deadlines, timer, fired >>
           \/ /\ deadlines # {} /\ top.requestId # t.requestId
              /\ ProcessNextDeadline(deadlines, Tail(strand))
              /\ UNCHANGED << deadlines, fired >>
           \/ /\ deadlines # {} /\ top.requestId = t.requestId
              /\ fired' = IF Fires(t) THEN Append(fired, top) ELSE fired
              /\ deadlines' = rest
              /\ IF rest = {} THEN strand' = Tail(strand) /\ UNCHANGED timer
                 ELSE ProcessNextDeadline(rest, Tail(strand))
    /\ UNCHANGED << now, listening, state, sessions, added, dismissed, removals >>

Next ==
    \/ \E timeout \in Timeouts : add(timeout)
    \/ \E id \in RequestIds : remove(id)
    \/ leave
    \/ disconnect
    \/ SessionEnds
    \/ ReceiveWelcome
    \/ RunWelcome
    \/ Tick
    \/ Expire
    \/ RunOnTimer

Spec == Init /\ [][Next]_vars

\* Time passes, the timer reports, and the strand runs.
FairSpec == Spec /\ WF_vars(Tick) /\ WF_vars(Expire)
                 /\ WF_vars(RunOnTimer) /\ WF_vars(RunWelcome)

-----------------------------------------------------------------------------
(* Properties *)

FiredIds == { fired[i].requestId : i \in 1 .. Len(fired) }

Tasks == { Callback(id, c) : id \in RequestIds, c \in BOOLEAN } \cup {Welcome}

\* Type invariant.
TypeOK ==
    /\ now \in 0 .. MaxTime
    /\ deadlines \subseteq added
    /\ timer \in Records \cup {NoWait}
    /\ strand \in Seq(Tasks)
    /\ listening \in BOOLEAN
    /\ state \in {"idle", "joining", "established"}
    /\ sessions \in 0 .. MaxSessions
    /\ added \subseteq Records
    /\ fired \in Seq(added)
    /\ dismissed \subseteq RequestIds
    /\ removals \in Nat

Callbacks == { i \in 1 .. Len(strand) : strand[i].task = "timer" }

\* std::set takes this record for the same as another.
Shared(r) == \E s \in added : s # r /\ s.deadline = r.deadline

\* "The first record represents a deadline being waited on by the timer": either
\* the timer waits for the first deadline and no callback is under way, or one
\* callback is, which will start the next wait.  It holds for what Client does;
\* remove() would break it, and lose a timeout.
WaitsOnFirst ==
    (deadlines # {} /\ removals = 0) =>
        \/ timer = First(deadlines) /\ Callbacks = {}
        \/ timer = NoWait /\ Cardinality(Callbacks) = 1

\* The deadline of a call is kept until it is reported, unless the session was
\* ended by leave() or disconnect(), or another call has exactly the same deadline:
\* neither preemption nor a callback that comes late loses one.
TimeoutKept ==
    removals = 0 =>
        \A r \in added : \/ r \in deadlines
                         \/ r.requestId \in FiredIds \cup dismissed
                         \/ Shared(r)

\* A call is timed out at most once, and never ahead of a call whose deadline is
\* earlier, however calls with shorter timeouts preempt the timer.
FiredInOrder ==
    \A i, j \in 1 .. Len(fired) : i < j => fired[i].deadline < fired[j].deadline

\* No call is timed out before its deadline, nor after leave() or disconnect().
FiresOnTime ==
    [][fired' # fired =>
         LET r == fired'[Len(fired')]
         IN  r.deadline <= now /\ r.requestId \notin dismissed]_vars

\* Every deadline that has an entry of its own is eventually reported, or dismissed
\* with its session.
EventuallyFires ==
    \A id \in RequestIds :
        (id \in Ids(deadlines) /\ removals = 0)
            ~> (id \in FiredIds \cup dismissed \/ removals > 0)
=============================================================================
