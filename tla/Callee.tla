------------------------------- MODULE Callee -------------------------------
(***************************************************************************)
(* The callee of a client: the procedures it has registered and the        *)
(* invocations it works on, from INVOCATION to the answer.                 *)
(*                                                                         *)
(* The slot of a call runs on the user's executor, which may have several  *)
(* threads, so that what was posted runs in any order.  It answers by its  *)
(* outcome, by throwing, or later through its Invocation object; answers   *)
(* given from other threads are dispatched to the strand and wait there.   *)
(* An INTERRUPT runs the interrupt slot of the procedure, which answers in *)
(* the same ways and beside the call slot.  Meanwhile the procedure may be *)
(* unregistered, and the session left and joined again.                    *)
(*                                                                         *)
(* The life of the session is reduced to what matters here; module Session *)
(* has it in full.  The dealer is external.                                *)
(***************************************************************************)
EXTENDS Naturals, Sequences

CONSTANTS
    MaxEnrolments,     \* bound: procedures enrolled
    MaxInvocations,    \* bound: invocations per session
    MaxProgress,       \* bound: progressive results
    MaxSessions,       \* bound: sessions joined, of which the last does not end
    Oversized          \* kinds of answers that may exceed maxTxLength_

ASSUME CalleeAssumption ==
    /\ {MaxEnrolments, MaxInvocations, MaxProgress, MaxSessions} \subseteq Nat
    /\ Oversized \subseteq {"answer", "progress"}

VARIABLES
    state,             \* Peer::state_
    registry,          \* Client::registry_: registration ID -> has an interrupt slot
    pendingInvocations,\* Client::pendingInvocations_: request ID -> registration ID
    posted,            \* slots posted to the user's executor
    deferred,          \* slots that have returned a deferment
    yields,            \* answers that safeYield has dispatched to the strand
    thrown,            \* errors thrown by a slot, past yield()'s test of the state
    toRouter,          \* messages under way to the router, oldest first
    toClient,          \* messages under way to the client
    router,            \* the dealer: last registration ID, registrations, invocations,
                       \*   interrupted requests, requests answered
    session,           \* number of sessions joined so far
    counts,            \* history: enrolments and progressive results so far
    answers,           \* history: final answers sent, by which slot and to which request
    faults             \* history: what went wrong

client == << state, registry, pendingInvocations >>
slots == << posted, deferred, yields, thrown >>
channels == << toRouter, toClient >>
history == << counts, answers, faults >>
vars == << client, slots, channels, router, session, history >>

RequestIds == 1 .. MaxInvocations

\* An invocation is identified by its session and by its request ID, which the
\* router counts from 1 in each session.
Request(n, id) == [session |-> n, id |-> id]
Requests == { Request(n, id) : n \in 1 .. MaxSessions, id \in RequestIds }

Slot(kind, request) == [kind |-> kind, request |-> request]
Slots == { Slot(kind, r) : kind \in {"call", "interrupt"}, r \in Requests }

\* What a slot gives: an "answer", which is a result or an error, or a "progress".
Answer(slot, kind) == [slot |-> slot, kind |-> kind]
Message(type, id) == [type |-> type, id |-> id]

Without(f, key) == [k \in DOMAIN f \ {key} |-> f[k]]
With(f, key, value) == [k \in DOMAIN f \cup {key} |-> IF k = key THEN value ELSE f[k]]

NewRouter(lastReg) ==
    [lastReg |-> lastReg, registered |-> {}, invoked |-> << >>, interrupted |-> {},
     answered |-> {}]

-----------------------------------------------------------------------------
Init ==
    /\ state = "established" /\ session = 1
    /\ registry = << >> /\ pendingInvocations = << >>
    /\ posted = {} /\ deferred = {} /\ yields = << >> /\ thrown = {}
    /\ toRouter = << >> /\ toClient = << >>
    /\ router = NewRouter(0)
    /\ counts = [enrol |-> 0, progress |-> 0]
    /\ answers = {} /\ faults = {}

-----------------------------------------------------------------------------
(* Registrations *)

\* Client::enroll when established.  The interrupt slot travels with the handler
\* of the reply; here the messages carry whether there is one.
enroll(interruptible) ==
    /\ state = "established"
    /\ counts.enrol < MaxEnrolments
    /\ counts' = [counts EXCEPT !.enrol = @ + 1]
    /\ toRouter' = Append(toRouter, Message("register", interruptible))
    /\ UNCHANGED << client, slots, toClient, router, session, answers, faults >>

\* The reply handler of Client::enroll.
OnRegistered ==
    /\ toClient # << >> /\ Head(toClient).type = "registered"
    /\ toClient' = Tail(toClient)
    /\ registry' = With(registry, Head(toClient).reg, Head(toClient).id)
    /\ UNCHANGED << state, pendingInvocations, slots, toRouter, router, session, history >>

\* Client::unregister, with or without a handler: the registration is erased
\* at once, and UNREGISTER sent when established.
unregister(reg) ==
    /\ reg \in DOMAIN registry
    /\ registry' = Without(registry, reg)
    /\ toRouter' = IF state = "established"
                     THEN Append(toRouter, Message("unregister", reg)) ELSE toRouter
    /\ UNCHANGED << state, pendingInvocations, slots, toClient, router, session, history >>

-----------------------------------------------------------------------------
(* Answering *)

\* A final answer was sent for an invocation, by one of its own slots.
Answered(r) == \E x \in answers : x.slot.request = r /\ x.to = r

\* The history of a final answer to request id of the current session: the last one
\* of its slot, or the error in place of a progressive result.
Answers(slot, id, last) ==
    LET to == Request(session, id)
        entry == [slot |-> slot, to |-> to, last |-> last]
    IN  /\ answers' = answers \cup {entry}
        /\ faults' = faults
             \cup (IF last /\ slot.request = to /\ entry \in answers
                     THEN {"answered twice"} ELSE {})
             \cup (IF slot.request # to /\ id \in DOMAIN router.invoked /\ ~Answered(to)
                     THEN {"answered another"} ELSE {})

\* Mutant: answered invocations stay pending.
MutErasePending(id) == UNCHANGED pendingInvocations

ErasePending(id) == pendingInvocations' = Without(pendingInvocations, id)

\* Is it the last that its slot gives?
Last(a) == a.kind = "answer"

MayBeBig(a) == { big \in BOOLEAN : big => a.kind \in Oversized }

\* Is what Client::yield sends the last of an invocation?  A result that does
\* not fit, progressive or not, is replaced by an error; an error that does not
\* fit is sent by Peer::sendError without its arguments.
Final(a, big) == Last(a) \/ big

\* The part of Client::yield that follows the test of the state.  It does not
\* look at what is pending.
Send(a) ==
    \/ /\ \E big \in MayBeBig(a) : Final(a, big)
       /\ ErasePending(a.slot.request.id)
       /\ toRouter' = Append(toRouter, Message("answer", a.slot.request.id))
       /\ Answers(a.slot, a.slot.request.id, Last(a))
    \/ /\ \E big \in MayBeBig(a) : ~Final(a, big)
       /\ UNCHANGED << pendingInvocations, toRouter, answers, faults >>

\* Client::safeYield from another thread.
SafeYield(a) == yields' = Append(yields, a)

\* ...and Client::yield, once it runs on the strand.
RunYield ==
    /\ yields # << >>
    /\ yields' = Tail(yields)
    /\ \/ state = "established" /\ Send(Head(yields))
       \/ /\ state # "established"
          /\ UNCHANGED << pendingInvocations, toRouter, answers, faults >>
    /\ UNCHANGED << state, registry, posted, deferred, thrown, toClient, router, session,
                    counts >>

-----------------------------------------------------------------------------
(* The user's executor: Client::postRpcRequest *)

\* A slot of a call or of an interrupt returns a deferment...
SlotDefers(s) ==
    /\ s \in posted
    /\ posted' = posted \ {s}
    /\ deferred' = deferred \cup {s}
    /\ UNCHANGED << client, yields, thrown, channels, router, session, history >>

\* The user answers for slot s and has done with it.  Whose interrupt slot answers
\* may drop the deferred call, or leave it to answer as well.
Resolve(s) ==
    \/ deferred' = deferred \ {s}
    \/ s.kind = "interrupt" /\ deferred' = deferred \ {s, Slot("call", s.request)}

\* ...or a result or an error...
SlotReturns(s) ==
    /\ s \in posted
    /\ posted' = posted \ {s}
    /\ Resolve(s)
    /\ SafeYield(Answer(s, "answer"))
    /\ UNCHANGED << client, thrown, channels, router, session, history >>

\* ...or throws an Error or a BadType.  The catch clauses call yield() where they
\* are, beside the strand; it does nothing when the session is not established.
SlotThrows(s) ==
    /\ s \in posted
    /\ posted' = posted \ {s}
    /\ Resolve(s)
    /\ thrown' = IF state = "established" THEN thrown \cup {Answer(s, "answer")} ELSE thrown
    /\ UNCHANGED << client, yields, channels, router, session, history >>

\* The rest of that yield().  Meanwhile the strand may have gone on, the session
\* ended, and its transport been dropped.
ThrownYield(a) ==
    /\ a \in thrown
    /\ thrown' = thrown \ {a}
    /\ \/ state = "established" /\ Send(a)
       \/ /\ state # "established"
          /\ ErasePending(a.slot.request.id)
          /\ UNCHANGED << toRouter, answers, faults >>
    /\ UNCHANGED << state, registry, posted, deferred, yields, toClient, router, session,
                    counts >>

\* yield(ThreadSafe, ...) of an Invocation or Interruption, by a user who gives one
\* result or error for each slot that was deferred.
DeferredAnswer(s) ==
    /\ s \in deferred
    /\ Resolve(s)
    /\ SafeYield(Answer(s, "answer"))
    /\ UNCHANGED << client, posted, thrown, channels, router, session, history >>

\* A progressive result of a call.  The user goes on to answer, though one that does
\* not fit will be replaced by a final error.
DeferredProgress(s) ==
    /\ s \in deferred /\ s.kind = "call"
    /\ counts.progress < MaxProgress
    /\ counts' = [counts EXCEPT !.progress = @ + 1]
    /\ SafeYield(Answer(s, "progress"))
    /\ UNCHANGED << client, posted, deferred, thrown, channels, router, session, answers,
                    faults >>

-----------------------------------------------------------------------------
(* Messages received by the client; Peer discards them while shutting down *)

\* Mutant: an unknown registration is not answered.
MutNoSuchProcedure(id) == UNCHANGED << toRouter, answers, faults >>

\* Peer::sendError with wamp.error.no_such_procedure
NoSuchProcedure(id) ==
    /\ toRouter' = Append(toRouter, Message("answer", id))
    /\ Answers(Slot("call", Request(session, id)), id, TRUE)

\* Mutant: the slot of a procedure that was unregistered is still called.
MutRefuses(id, reg) ==
    /\ NoSuchProcedure(id)
    /\ posted' = posted \cup {Slot("call", Request(session, id))}
    /\ UNCHANGED pendingInvocations

\* Client::onInvocation for a registration that is not known...
Refuses(id, reg) ==
    /\ NoSuchProcedure(id)
    /\ UNCHANGED << pendingInvocations, posted >>

\* ...and for one that is.
Invokes(id, reg) ==
    /\ pendingInvocations' = With(pendingInvocations, id, reg)
    /\ posted' = posted \cup {Slot("call", Request(session, id))}
    /\ UNCHANGED << toRouter, answers, faults >>

\* Client::onInvocation
OnInvocation ==
    /\ toClient # << >> /\ Head(toClient).type = "invocation"
    /\ toClient' = Tail(toClient)
    /\ LET id  == Head(toClient).id
           reg == Head(toClient).reg
       IN  \/ state = "established" /\ reg \in DOMAIN registry /\ Invokes(id, reg)
           \/ state = "established" /\ reg \notin DOMAIN registry /\ Refuses(id, reg)
           \/ /\ state = "shuttingDown"
              /\ UNCHANGED << pendingInvocations, posted, toRouter, answers, faults >>
    /\ UNCHANGED << state, registry, deferred, yields, thrown, router, session, counts >>

\* Does Client::onInterrupt post the interrupt slot?
Interrupts(id) ==
    /\ state = "established"
    /\ id \in DOMAIN pendingInvocations
    /\ pendingInvocations[id] \in DOMAIN registry
    /\ registry[pendingInvocations[id]]

\* Should it?  The call is not answered, and its procedure registered and
\* interruptible.
Interruptible(id) ==
    /\ state = "established"
    /\ ~Answered(Request(session, id))
    /\ router.invoked[id] \in DOMAIN registry
    /\ registry[router.invoked[id]]

\* Client::onInterrupt
OnInterrupt ==
    /\ toClient # << >> /\ Head(toClient).type = "interrupt"
    /\ toClient' = Tail(toClient)
    /\ LET id == Head(toClient).id
       IN  /\ pendingInvocations' = IF state = "established"
                                      THEN Without(pendingInvocations, id)
                                      ELSE pendingInvocations
           /\ posted' = posted \cup
                (IF Interrupts(id) THEN {Slot("interrupt", Request(session, id))} ELSE {})
           /\ faults' = faults \cup
                (IF Interrupts(id) # Interruptible(id) THEN {"stray interrupt"} ELSE {})
    /\ UNCHANGED << state, registry, deferred, yields, thrown, toRouter, router, session,
                    counts, answers >>

-----------------------------------------------------------------------------
(* The end of a session, and the next one *)

leave ==
    /\ state = "established" /\ session < MaxSessions
    /\ state' = "shuttingDown"
    /\ toRouter' = Append(toRouter, Message("goodbye", 0))
    /\ UNCHANGED << registry, pendingInvocations, slots, toClient, router, session, history >>

\* What is under way between the two ends of a session is lost with it.
RouterForgets ==
    /\ toRouter' = << >> /\ toClient' = << >>
    /\ router' = NewRouter(router.lastReg)

\* The GOODBYE reply: the handler of Client::leave clears the registry, but not
\* the pending invocations.
OnGoodbyeReply ==
    /\ state = "shuttingDown"
    /\ toRouter # << >> /\ Head(toRouter).type = "goodbye" /\ toClient = << >>
    /\ state' = "closed"
    /\ registry' = << >>
    /\ RouterForgets
    /\ UNCHANGED << pendingInvocations, slots, session, history >>

\* A GOODBYE of the router's own, or the loss of the connection, clears nothing;
\* but the handler of a leave that the loss aborts clears the registry.
SessionEnds ==
    /\ session < MaxSessions
    /\ \/ /\ state = "established" /\ state' \in {"closed", "failed"}
          /\ UNCHANGED registry
       \/ /\ state = "shuttingDown" /\ state' = "failed"
          /\ registry' = << >>
    /\ RouterForgets
    /\ UNCHANGED << pendingInvocations, slots, session, history >>

\* Client::doDisconnect
disconnect ==
    /\ state # "disconnected" /\ session < MaxSessions
    /\ state' = "disconnected"
    /\ registry' = << >> /\ pendingInvocations' = << >>
    /\ RouterForgets
    /\ UNCHANGED << slots, session, history >>

\* Pending invocations, and the registrations they are of, outlive their session.
EntriesKept ==
    \E id \in DOMAIN pendingInvocations : pendingInvocations[id] \in DOMAIN registry

\* A new session, on the same connection or on a new one.
join ==
    /\ state \in {"closed", "disconnected"}
    /\ session < MaxSessions
    /\ state' = "established"
    /\ session' = session + 1
    /\ faults' = faults \cup (IF EntriesKept THEN {"entries kept"} ELSE {})
    /\ UNCHANGED << registry, pendingInvocations, slots, channels, router, counts,
                    answers >>

-----------------------------------------------------------------------------
(* The dealer *)

\* A registration ID is not used again.
RouterRegisters ==
    /\ toRouter # << >> /\ Head(toRouter).type = "register"
    /\ toRouter' = Tail(toRouter)
    /\ LET reg == router.lastReg + 1
       IN  /\ router' = [router EXCEPT !.lastReg = reg, !.registered = @ \cup {reg}]
           /\ toClient' = Append(toClient, [type |-> "registered", id |-> Head(toRouter).id,
                                            reg |-> reg])
    /\ UNCHANGED << client, slots, session, history >>

RouterUnregisters ==
    /\ toRouter # << >> /\ Head(toRouter).type = "unregister"
    /\ toRouter' = Tail(toRouter)
    /\ router' = [router EXCEPT !.registered = @ \ {Head(toRouter).id}]
    /\ UNCHANGED << client, slots, toClient, session, history >>

RouterGetsAnswer ==
    /\ toRouter # << >> /\ Head(toRouter).type = "answer"
    /\ toRouter' = Tail(toRouter)
    /\ router' = [router EXCEPT !.answered = @ \cup {Head(toRouter).id}]
    /\ UNCHANGED << client, slots, toClient, session, history >>

RouterInvokes(reg) ==
    LET id == Len(router.invoked) + 1
    IN  /\ state \in {"established", "shuttingDown"}
        /\ reg \in router.registered
        /\ id \in RequestIds
        /\ router' = [router EXCEPT !.invoked = Append(@, reg)]
        /\ toClient' = Append(toClient, [type |-> "invocation", id |-> id, reg |-> reg])
        /\ UNCHANGED << client, slots, toRouter, session, history >>

\* A caller cancels its call.
RouterInterrupts(id) ==
    /\ id \in (DOMAIN router.invoked \ router.answered) \ router.interrupted
    /\ router' = [router EXCEPT !.interrupted = @ \cup {id}]
    /\ toClient' = Append(toClient, Message("interrupt", id))
    /\ UNCHANGED << client, slots, toRouter, session, history >>

-----------------------------------------------------------------------------
Received == OnRegistered \/ OnInvocation \/ OnInterrupt
RunSlot(s) == SlotDefers(s) \/ SlotReturns(s) \/ SlotThrows(s)
Registering ==
    \/ \E interruptible \in BOOLEAN : enroll(interruptible)
    \/ \E reg \in 1 .. MaxEnrolments : unregister(reg)
Ending == leave \/ OnGoodbyeReply \/ SessionEnds \/ disconnect \/ join
Dealer ==
    \/ RouterRegisters \/ RouterUnregisters \/ RouterGetsAnswer
    \/ \E reg \in 1 .. MaxEnrolments : RouterInvokes(reg)
    \/ \E id \in RequestIds : RouterInterrupts(id)

Next ==
    \/ Registering \/ Received \/ RunYield \/ Ending \/ Dealer
    \/ \E s \in Slots : RunSlot(s) \/ DeferredAnswer(s) \/ DeferredProgress(s)
    \/ \E a \in thrown : ThrownYield(a)

\* The strand and the user's executor run what is queued on them, and a user who
\* defers the answer to a call gives it in the end, or drops the call when its
\* interrupt slot has answered.
Fairness ==
    /\ WF_vars(Received) /\ WF_vars(RunYield)
    /\ WF_vars(\E a \in thrown : ThrownYield(a))
    /\ \A s \in Slots : WF_vars(RunSlot(s))
    /\ \A r \in Requests : WF_vars(DeferredAnswer(Slot("call", r)))

Spec == Init /\ [][Next]_vars /\ Fairness

-----------------------------------------------------------------------------
(* Properties *)

\* Neither the call slot of an invocation nor its interrupt slot answers it twice,
\* whichever of a result, an exception, a deferred answer and the refusal for an
\* unknown registration that is.  So an invocation gets two final answers in two
\* cases only: its call slot and its interrupt slot have both answered, or one of
\* the answers is the error in place of a progressive result that did not fit.
AnsweredOnce == "answered twice" \notin faults

\* An answer of an earlier session was sent in a later one.
StaleAnswer == \E x \in answers : x.slot.request # x.to

\* An INTERRUPT that meets an unanswered invocation of a registered procedure runs
\* its interrupt slot, and one that comes too late runs none: pendingInvocations_
\* is right.  There are two exceptions: an answer left over from an earlier session
\* can erase the entry of a new invocation with the same request ID, and entries
\* that a GOODBYE of the router's has left behind can be taken for new ones.
InterruptsReach ==
    "stray interrupt" \in faults => StaleAnswer \/ "entries kept" \in faults

\* An invocation that the client has been sent and has not answered.
Waiting(r) ==
    /\ state = "established" /\ r.session = session
    /\ r.id \in DOMAIN router.invoked
    /\ ~Answered(r)

\* Every invocation is answered in the end, unless its session ends: whether its
\* procedure is still registered or not, and whether its answer fits or not.
EventuallyAnswered == \A r \in Requests : Waiting(r) ~> ~Waiting(r)

\* What Invocation::yield sends goes back to the caller of that invocation, and not
\* to one that waits for the answer of another.
OwnAnswers == "answered another" \notin faults

=============================================================================
