---------------------------- MODULE CalleeProofs ----------------------------
(***************************************************************************)
(* A slot answers an invocation once and interrupts reach the calls they   *)
(* are for, proved for any number of procedures, invocations, progressive  *)
(* results and sessions.                                                   *)
(*                                                                         *)
(* The argument follows a slot.  Its answer is in one place at a time:     *)
(* with the message that brings the invocation or the interrupt, the slot  *)
(* that was posted, the user who has deferred, the queue of the strand or  *)
(* an exception; or it has been sent.  The dealer's messages arrive in     *)
(* the order sent, so that an INTERRUPT finds its invocation received; and *)
(* registration IDs are not used again, so that what is left over from an  *)
(* earlier session stays inert.                                            *)
(***************************************************************************)
EXTENDS Callee, TLAPS

-----------------------------------------------------------------------------
(* Types *)

Reqs == [session : Nat, id : Nat]
States == {"established", "shuttingDown", "closed", "failed", "disconnected"}
SlotType == [kind : {"call", "interrupt"}, request : Reqs]
AnswerType == [slot : SlotType, kind : {"answer", "progress"}]
ThrownType == [slot : SlotType, kind : {"answer"}]
SentType == [slot : SlotType, to : Reqs, last : BOOLEAN]
RouterMessages ==
    [type : {"register"}, id : BOOLEAN] \cup [type : {"unregister", "answer", "goodbye"}, id : Nat]
ClientMessages ==
    [type : {"registered"}, id : BOOLEAN, reg : Nat] \cup
    [type : {"invocation"}, id : Nat, reg : Nat] \cup
    [type : {"interrupt"}, id : Nat]
RouterType ==
    [lastReg : Nat, registered : SUBSET Nat, invoked : Seq(Nat), interrupted : SUBSET Nat,
     answered : SUBSET Nat]
FaultType == {"answered twice", "answered another", "stray interrupt", "entries kept"}

TypeOK ==
    /\ state \in States /\ session \in Nat
    /\ registry \in [DOMAIN registry -> BOOLEAN] /\ DOMAIN registry \subseteq Nat
    /\ pendingInvocations \in [DOMAIN pendingInvocations -> Nat]
    /\ DOMAIN pendingInvocations \subseteq Nat
    /\ posted \subseteq SlotType /\ deferred \subseteq SlotType
    /\ yields \in Seq(AnswerType) /\ thrown \subseteq ThrownType
    /\ toRouter \in Seq(RouterMessages) /\ toClient \in Seq(ClientMessages)
    /\ router \in RouterType
    /\ counts \in [enrol : Nat, progress : Nat]
    /\ answers \subseteq SentType
    /\ faults \subseteq FaultType

-----------------------------------------------------------------------------
(* The duty to answer *)

Own(id) == Request(session, id)

Invited(id) == \E i \in DOMAIN toClient : toClient[i].type = "invocation" /\ toClient[i].id = id
Interrupting(id) ==
    \E i \in DOMAIN toClient : toClient[i].type = "interrupt" /\ toClient[i].id = id

\* Where the answer of slot s may be, and whether it was sent.
Called(s) == s \in posted
Queued(s) == \E i \in DOMAIN yields : yields[i].slot = s /\ Last(yields[i])
Thrown(s) == \E a \in thrown : a.slot = s
Settled(s) == [slot |-> s, to |-> s.request, last |-> TRUE] \in answers

\* Progressive results of slot s, dispatched or sent as errors, count here too.
Waits(s) == \E i \in DOMAIN yields : yields[i].slot = s
HasSent(s) == \E x \in answers : x.slot = s /\ x.to = s.request

Begun(s) == Called(s) \/ s \in deferred \/ Waits(s) \/ Thrown(s) \/ HasSent(s)

\* The answer is in one place at a time...
AtOnePlace(s) ==
    /\ Called(s) => s \notin deferred /\ ~Queued(s) /\ ~Thrown(s) /\ ~Settled(s)
    /\ s \in deferred => ~Queued(s) /\ ~Thrown(s) /\ ~Settled(s)
    /\ Queued(s) => ~Thrown(s) /\ ~Settled(s)
    /\ Thrown(s) => ~Settled(s)

Exclusive == \A s \in SlotType : AtOnePlace(s)

\* ...and once there...
QueuedOnce ==
    \A i, j \in DOMAIN yields :
        Last(yields[i]) /\ Last(yields[j]) /\ yields[i].slot = yields[j].slot => i = j

\* ...for invocations and interrupts that were received, in this session or in an
\* earlier one.
Brought(s) ==
    /\ s.request.id \in DOMAIN router.invoked /\ ~Invited(s.request.id)
    /\ s.kind = "interrupt" =>
          s.request.id \in router.interrupted /\ ~Interrupting(s.request.id)

BegunInv ==
    \A s \in SlotType : Begun(s) =>
        /\ s.request.session <= session
        /\ s.request.session = session /\ state \in {"established", "shuttingDown"} =>
              Brought(s)

DutyInv == Exclusive /\ QueuedOnce /\ BegunInv /\ AnsweredOnce

-----------------------------------------------------------------------------
(* The dealer's messages *)

OfType(i, type) == toClient[i].type = type

\* Registration IDs are not used again.
RegsInv ==
    /\ \A reg \in DOMAIN registry : reg <= router.lastReg
    /\ \A id \in DOMAIN pendingInvocations : pendingInvocations[id] <= router.lastReg
    /\ \A reg \in router.registered : reg <= router.lastReg
    /\ \A id \in DOMAIN router.invoked : router.invoked[id] <= router.lastReg

\* An invocation is announced once...
InvocationsInv ==
    \A i \in DOMAIN toClient : OfType(i, "invocation") =>
        /\ toClient[i].id \in DOMAIN router.invoked
        /\ toClient[i].reg = router.invoked[toClient[i].id]
        /\ \A j \in DOMAIN toClient :
              OfType(j, "invocation") /\ toClient[j].id = toClient[i].id => j = i

\* ...and interrupted once, after that...
InterruptsInv ==
    \A i \in DOMAIN toClient : OfType(i, "interrupt") =>
        /\ toClient[i].id \in DOMAIN router.invoked
        /\ toClient[i].id \in router.interrupted
        /\ \A j \in DOMAIN toClient :
              /\ OfType(j, "interrupt") /\ toClient[j].id = toClient[i].id => j = i
              /\ OfType(j, "invocation") /\ toClient[j].id = toClient[i].id => j < i

\* ...and a procedure is invoked after the client was told that it is registered.
RegisteredInv ==
    \A i \in DOMAIN toClient : OfType(i, "registered") =>
        /\ toClient[i].reg <= router.lastReg
        /\ \A id \in DOMAIN pendingInvocations : pendingInvocations[id] # toClient[i].reg
        /\ \A id \in DOMAIN router.invoked :
              router.invoked[id] = toClient[i].reg =>
                 \E j \in DOMAIN toClient :
                    j > i /\ OfType(j, "invocation") /\ toClient[j].id = id

QuietInv ==
    state \notin {"established", "shuttingDown"} =>
        toRouter = << >> /\ toClient = << >> /\ router.invoked = << >>

MessagesInv == RegsInv /\ InvocationsInv /\ InterruptsInv /\ RegisteredInv /\ QuietInv

-----------------------------------------------------------------------------
(* The pending invocations *)

\* Nothing has crossed from one session to another.
Clean == ~StaleAnswer /\ "entries kept" \notin faults

\* pendingInvocations_ has no entry of a registered procedure that was answered...
NoneTooMany ==
    \A id \in DOMAIN pendingInvocations :
        pendingInvocations[id] \in DOMAIN registry =>
            /\ id \in DOMAIN router.invoked
            /\ router.invoked[id] = pendingInvocations[id]
            /\ ~Invited(id) /\ ~Answered(Own(id))

\* ...and has the entries of those that were not, unless interrupted.
NoneMissing ==
    \A id \in DOMAIN router.invoked :
        /\ ~Invited(id) /\ ~Answered(Own(id))
        /\ router.invoked[id] \in DOMAIN registry
        /\ id \in router.interrupted => Interrupting(id)
        => id \in DOMAIN pendingInvocations /\ pendingInvocations[id] = router.invoked[id]

PendingInv == state = "established" /\ Clean => NoneTooMany /\ NoneMissing

IndInv == TypeOK /\ DutyInv /\ MessagesInv /\ PendingInv /\ InterruptsReach

-----------------------------------------------------------------------------
(* The invariant holds initially *)

\* The router of a new session knows of nothing.
LEMMA NewRouterFields ==
    ASSUME NEW n \in Nat
    PROVE  /\ NewRouter(n) \in RouterType
           /\ NewRouter(n).lastReg = n /\ NewRouter(n).registered = {}
           /\ NewRouter(n).invoked = << >> /\ NewRouter(n).interrupted = {}
<1>1. << >> \in Seq(Nat) /\ {} \in SUBSET Nat
  OBVIOUS
<1>2. NewRouter(n) \in RouterType
  BY <1>1 DEF NewRouter, RouterType
<1>3. QED
  BY <1>2 DEF NewRouter

\* The invariant holds when the program starts.
LEMMA InitInv == Init => IndInv
<1> SUFFICES ASSUME Init PROVE IndInv
  OBVIOUS
<1> USE DEF Init
<1>1. /\ router.registered = {} /\ router.invoked = << >> /\ DOMAIN << >> = {}
      /\ \A S : << >> \in Seq(S)
  BY NewRouterFields
<1>2. TypeOK
  <2>1. router \in RouterType
    BY NewRouterFields
  <2>2. registry \in [DOMAIN registry -> BOOLEAN] /\ DOMAIN registry \subseteq Nat
    BY <1>1
  <2>3. /\ pendingInvocations \in [DOMAIN pendingInvocations -> Nat]
        /\ DOMAIN pendingInvocations \subseteq Nat
    BY <1>1
  <2>4. yields \in Seq(AnswerType) /\ toRouter \in Seq(RouterMessages)
    BY <1>1
  <2>5. toClient \in Seq(ClientMessages)
    BY <1>1
  <2>6. QED
    BY <2>1, <2>2, <2>3, <2>4, <2>5 DEF TypeOK, States
<1>3. DutyInv
  <2>1. \A s \in SlotType : ~Begun(s) /\ ~Queued(s) /\ ~Settled(s)
    BY <1>1 DEF Begun, Called, Waits, HasSent, Queued, Thrown, Settled
  <2>2. QED
    BY <1>1, <2>1 DEF DutyInv, Exclusive, QueuedOnce, BegunInv, AnsweredOnce, Begun,
     AtOnePlace
<1>4. MessagesInv
  BY <1>1 DEF MessagesInv, RegsInv, InvocationsInv, InterruptsInv, RegisteredInv, QuietInv
<1>5. PendingInv
  BY <1>1 DEF PendingInv, NoneTooMany, NoneMissing
<1>6. QED
  BY <1>2, <1>3, <1>4, <1>5 DEF IndInv, InterruptsReach

-----------------------------------------------------------------------------
(* Facts about the constructors *)

\* A request is what its session and its ID make it.
LEMMA RequestFields ==
    ASSUME NEW n, NEW id
    PROVE  /\ Request(n, id).session = n /\ Request(n, id).id = id
           /\ \A r \in Reqs : r.session = n /\ r.id = id <=> r = Request(n, id)
           /\ n \in Nat /\ id \in Nat => Request(n, id) \in Reqs
  BY DEF Request, Reqs

\* A slot is what its kind and its request make it.
LEMMA SlotFields ==
    ASSUME NEW kind, NEW r
    PROVE  /\ Slot(kind, r).kind = kind /\ Slot(kind, r).request = r
           /\ kind \in {"call", "interrupt"} /\ r \in Reqs => Slot(kind, r) \in SlotType
  BY DEF Slot, SlotType

\* What an answer consists of
LEMMA AnswerFields ==
    ASSUME NEW s \in SlotType
    PROVE  /\ \A kind : Answer(s, kind).slot = s /\ Answer(s, kind).kind = kind
           /\ Last(Answer(s, "answer")) /\ ~Last(Answer(s, "progress"))
           /\ \A kind \in {"answer", "progress"} : Answer(s, kind) \in AnswerType
<1>1. \A kind : Answer(s, kind).slot = s /\ Answer(s, kind).kind = kind
  BY DEF Answer
<1>2. \A kind \in {"answer", "progress"} : Answer(s, kind) \in AnswerType
  BY DEF Answer, AnswerType
<1>3. QED
  BY <1>1, <1>2 DEF Last

\* An error thrown by a slot is the only one of its slot, and final.
LEMMA ThrownFields ==
    /\ \A s \in SlotType : Answer(s, "answer") \in ThrownType /\ Answer(s, "answer").slot = s
    /\ \A a \in ThrownType : a.slot \in SlotType /\ Last(a) /\ a \in AnswerType
    /\ \A a, b \in ThrownType : a.slot = b.slot => a = b
<1>1. \A s \in SlotType : Answer(s, "answer") \in ThrownType /\ Answer(s, "answer").slot = s
  BY DEF Answer, ThrownType
<1>2. \A a \in ThrownType : a.slot \in SlotType /\ Last(a) /\ a \in AnswerType
  BY DEF ThrownType, AnswerType, Last
<1>3. \A a, b \in ThrownType : a.slot = b.slot => a = b
  <2> TAKE a, b \in ThrownType
  <2>1. /\ a = [slot |-> a.slot, kind |-> a.kind]
        /\ b = [slot |-> b.slot, kind |-> b.kind]
    BY DEF ThrownType
  <2>2. a.kind = b.kind
    BY DEF ThrownType
  <2>3. QED
    BY <2>1, <2>2
<1>4. QED
  BY <1>1, <1>2, <1>3

\* The messages that each side sends are of the types that the other reads.
LEMMA MessageTypes ==
    /\ \A id \in BOOLEAN : Message("register", id) \in RouterMessages
    /\ \A id \in Nat : /\ Message("unregister", id) \in RouterMessages
                       /\ Message("answer", id) \in RouterMessages
                       /\ Message("goodbye", id) \in RouterMessages
                       /\ Message("interrupt", id) \in ClientMessages
    /\ \A type, id : Message(type, id).type = type /\ Message(type, id).id = id
<1>1. \A id \in BOOLEAN : Message("register", id) \in RouterMessages
  BY DEF Message, RouterMessages
<1>2. \A id \in Nat : /\ Message("unregister", id) \in RouterMessages
                      /\ Message("answer", id) \in RouterMessages
                      /\ Message("goodbye", id) \in RouterMessages
  BY DEF Message, RouterMessages
<1>3. \A id \in Nat : Message("interrupt", id) \in ClientMessages
  BY DEF Message, ClientMessages
<1>4. \A type, id : Message(type, id).type = type /\ Message(type, id).id = id
  BY DEF Message
<1>5. QED
  BY <1>1, <1>2, <1>3, <1>4

\* The fields that a message to the client has, by its type.
LEMMA ClientFields ==
    ASSUME NEW m \in ClientMessages
    PROVE  /\ m.type \in {"registered", "invocation", "interrupt"}
           /\ m.type = "registered" => m.id \in BOOLEAN /\ m.reg \in Nat
           /\ m.type = "invocation" => m.id \in Nat /\ m.reg \in Nat
           /\ m.type = "interrupt" => m.id \in Nat
  BY DEF ClientMessages

\* What a message to the router carries
LEMMA RouterFields ==
    ASSUME NEW m \in RouterMessages
    PROVE  /\ m.type = "register" => m.id \in BOOLEAN
           /\ m.type # "register" => m.id \in Nat
  BY DEF RouterMessages

\* An entry added to a function
LEMMA WithFacts ==
    ASSUME NEW f, NEW key, NEW value
    PROVE  /\ DOMAIN With(f, key, value) = DOMAIN f \cup {key}
           /\ With(f, key, value)[key] = value
           /\ \A k \in DOMAIN f : k # key => With(f, key, value)[k] = f[k]
  BY DEF With

\* An entry removed from a function
LEMMA WithoutFacts ==
    ASSUME NEW f, NEW key
    PROVE  /\ DOMAIN Without(f, key) = DOMAIN f \ {key}
           /\ \A k \in DOMAIN f : k # key => Without(f, key)[k] = f[k]
  BY DEF Without

\* The tables of the client keep their types.
LEMMA TableTypes ==
    ASSUME TypeOK, NEW key \in Nat
    PROVE  /\ \A value \in Nat :
                 /\ With(pendingInvocations, key, value)
                      \in [DOMAIN With(pendingInvocations, key, value) -> Nat]
                 /\ DOMAIN With(pendingInvocations, key, value) \subseteq Nat
           /\ Without(pendingInvocations, key) \in [DOMAIN Without(pendingInvocations, key) -> Nat]
           /\ DOMAIN Without(pendingInvocations, key) \subseteq Nat
           /\ \A value \in BOOLEAN :
                 /\ With(registry, key, value) \in [DOMAIN With(registry, key, value) -> BOOLEAN]
                 /\ DOMAIN With(registry, key, value) \subseteq Nat
           /\ Without(registry, key) \in [DOMAIN Without(registry, key) -> BOOLEAN]
           /\ DOMAIN Without(registry, key) \subseteq Nat
  BY DEF With, Without, TypeOK

\* A message put at the end of a queue
LEMMA AppendFacts ==
    ASSUME NEW S, NEW s \in Seq(S), NEW e \in S
    PROVE  /\ Append(s, e) \in Seq(S)
           /\ DOMAIN s = 1 .. Len(s) /\ Len(s) \in Nat
           /\ DOMAIN Append(s, e) = 1 .. Len(s) + 1
           /\ \A i \in DOMAIN s : Append(s, e)[i] = s[i]
           /\ Append(s, e)[Len(s) + 1] = e
  OBVIOUS

\* A message taken from the front of a queue
LEMMA TailFacts ==
    ASSUME NEW S, NEW s \in Seq(S), s # << >>
    PROVE  /\ Tail(s) \in Seq(S) /\ Head(s) \in S /\ Head(s) = s[1]
           /\ Len(s) \in Nat /\ Len(s) > 0 /\ DOMAIN s = 1 .. Len(s)
           /\ DOMAIN Tail(s) = 1 .. Len(s) - 1
           /\ \A i \in DOMAIN Tail(s) : i + 1 \in DOMAIN s /\ Tail(s)[i] = s[i + 1]
           /\ \A i \in DOMAIN s : i # 1 => i - 1 \in DOMAIN Tail(s) /\ Tail(s)[i - 1] = s[i]
  OBVIOUS

-----------------------------------------------------------------------------
(* Types are kept *)

\* The slots of the model
LEMMA ServedSlots == Slots \subseteq SlotType
<1>1. \A n \in 1 .. MaxSessions, id \in RequestIds : n \in Nat /\ id \in Nat
  BY CalleeAssumption DEF RequestIds
<1>2. Requests \subseteq Reqs
  BY <1>1, RequestFields DEF Requests
<1>3. QED
  BY <1>2, SlotFields DEF Slots

\* The history of an answer.
LEMMA AnswersFacts ==
    ASSUME TypeOK, NEW slot \in SlotType, NEW id \in Nat, NEW last \in BOOLEAN,
           Answers(slot, id, last)
    PROVE  /\ answers' = answers \cup {[slot |-> slot, to |-> Own(id), last |-> last]}
           /\ answers' \subseteq SentType /\ faults' \subseteq FaultType
           /\ faults \subseteq faults'
           /\ faults' \subseteq faults \cup {"answered twice", "answered another"}
           /\ "answered twice" \in faults' =>
                 "answered twice" \in faults \/ (last /\ slot.request = Own(id) /\ Settled(slot))
<1>1. Own(id) \in Reqs
  BY RequestFields DEF Own, TypeOK
<1> DEFINE entry == [slot |-> slot, to |-> Own(id), last |-> last]
           twice == IF last /\ slot.request = Own(id) /\ entry \in answers
                      THEN {"answered twice"} ELSE {}
           another == IF slot.request # Own(id) /\ id \in DOMAIN router.invoked /\ ~Answered(Own(id))
                        THEN {"answered another"} ELSE {}
<1>2. answers' = answers \cup {entry} /\ faults' = faults \cup twice \cup another
  BY DEF Answers, Own
<1>3. entry \in SentType
  BY <1>1 DEF SentType
<1>4. last /\ slot.request = Own(id) /\ entry \in answers => Settled(slot)
  BY DEF Settled
<1>5. /\ twice \subseteq {"answered twice"} /\ another \subseteq {"answered another"}
      /\ "answered twice" \in twice => last /\ slot.request = Own(id) /\ Settled(slot)
  BY <1>4
<1> HIDE DEF entry, twice, another
<1>6. /\ answers' \subseteq SentType /\ faults' \subseteq FaultType
      /\ faults \subseteq faults'
      /\ faults' \subseteq faults \cup {"answered twice", "answered another"}
      /\ "answered twice" \in faults' =>
            "answered twice" \in faults \/ (last /\ slot.request = Own(id) /\ Settled(slot))
  BY <1>2, <1>3, <1>5 DEF TypeOK, FaultType
<1>7. QED
  BY <1>2, <1>6 DEF entry

\* yield() sends the last of an invocation, or a progressive result that fits.
LEMMA SendCases ==
    ASSUME NEW a \in AnswerType, Send(a)
    PROVE  /\ a.slot \in SlotType /\ a.slot.request \in Reqs /\ a.slot.request.id \in Nat
           /\ Last(a) \in BOOLEAN
           /\ \/ /\ pendingInvocations' = Without(pendingInvocations, a.slot.request.id)
                 /\ toRouter' = Append(toRouter, Message("answer", a.slot.request.id))
                 /\ Answers(a.slot, a.slot.request.id, Last(a))
              \/ ~Last(a) /\ UNCHANGED << pendingInvocations, toRouter, answers, faults >>
<1>1. a.slot \in SlotType /\ a.slot.request \in Reqs /\ a.slot.request.id \in Nat
  BY DEF AnswerType, SlotType, Reqs
<1>2. QED
  BY <1>1 DEF Send, ErasePending, Final, Last

\* What answering leaves: the entry of the request is gone, the answer on its way.
LEMMA SendTypes ==
    ASSUME TypeOK, NEW a \in AnswerType, Send(a)
    PROVE  /\ pendingInvocations' \in [DOMAIN pendingInvocations' -> Nat]
           /\ DOMAIN pendingInvocations' \subseteq Nat
           /\ toRouter' \in Seq(RouterMessages)
           /\ answers' \subseteq SentType
           /\ faults' \subseteq FaultType
<1>1. PICK k \in Nat : k = a.slot.request.id
  BY SendCases
<1>2. CASE UNCHANGED << pendingInvocations, toRouter, answers, faults >>
  BY <1>2 DEF TypeOK
<1>3. CASE /\ pendingInvocations' = Without(pendingInvocations, k)
           /\ toRouter' = Append(toRouter, Message("answer", k))
           /\ Answers(a.slot, k, Last(a))
  <2>1. /\ pendingInvocations' \in [DOMAIN pendingInvocations' -> Nat]
        /\ DOMAIN pendingInvocations' \subseteq Nat
    BY <1>3, TableTypes
  <2>2. toRouter' \in Seq(RouterMessages)
    BY <1>3, MessageTypes, AppendFacts DEF TypeOK
  <2>3. answers' \subseteq SentType /\ faults' \subseteq FaultType
    BY <1>3, SendCases, AnswersFacts
  <2>4. QED
    BY <2>1, <2>2, <2>3
<1>4. QED
  BY <1>1, <1>2, <1>3, SendCases

\* Once a session is over, the router knows of none of its invocations.
LEMMA ForgetTypes ==
    ASSUME TypeOK, RouterForgets
    PROVE  /\ toRouter' \in Seq(RouterMessages) /\ toClient' \in Seq(ClientMessages)
           /\ router' \in RouterType
           /\ router'.lastReg = router.lastReg /\ router'.registered = {}
           /\ router'.invoked = << >> /\ router'.interrupted = {}
<1>1. router.lastReg \in Nat
  BY DEF TypeOK, RouterType
<1>2. QED
  BY <1>1, NewRouterFields DEF RouterForgets

\* Every step keeps every variable of its type.
LEMMA TypeStep == TypeOK /\ [Next]_vars => TypeOK'
<1> SUFFICES ASSUME TypeOK, [Next]_vars PROVE TypeOK'
  OBVIOUS
<1> USE DEF client, slots, channels, history
<1>1. CASE \E interruptible \in BOOLEAN : enroll(interruptible)
  <2>1. PICK interruptible \in BOOLEAN : enroll(interruptible)
    BY <1>1
  <2>2. toRouter' \in Seq(RouterMessages)
    BY <2>1, MessageTypes, AppendFacts DEF enroll, TypeOK
  <2>3. counts' \in [enrol : Nat, progress : Nat]
    <3>1. counts' = [counts EXCEPT !.enrol = @ + 1]
      BY <2>1 DEF enroll
    <3>2. counts \in [enrol : Nat, progress : Nat]
      BY DEF TypeOK
    <3>3. counts.enrol + 1 \in Nat
      BY <3>2
    <3>4. QED
      BY <3>1, <3>2, <3>3
  <2>4. QED
    BY <2>1, <2>2, <2>3 DEF enroll, TypeOK
<1>2. CASE \E reg \in 1 .. MaxEnrolments : unregister(reg)
  <2>1. PICK reg \in 1 .. MaxEnrolments : unregister(reg)
    BY <1>2
  <2>2. toRouter' \in Seq(RouterMessages)
    <3>1. reg \in Nat
      OBVIOUS
    <3>2. QED
      BY <2>1, <3>1, MessageTypes, AppendFacts DEF unregister, TypeOK
  <2>3. registry' \in [DOMAIN registry' -> BOOLEAN] /\ DOMAIN registry' \subseteq Nat
    <3>1. reg \in Nat
      OBVIOUS
    <3>2. QED
      BY <2>1, <3>1, TableTypes DEF unregister
  <2>4. QED
    BY <2>1, <2>2, <2>3 DEF unregister, TypeOK
<1>3. CASE OnRegistered
  <2>1. toClient' \in Seq(ClientMessages) /\ Head(toClient) \in ClientMessages
    BY <1>3, TailFacts DEF OnRegistered, TypeOK
  <2>2. registry' \in [DOMAIN registry' -> BOOLEAN] /\ DOMAIN registry' \subseteq Nat
    <3>1. Head(toClient).reg \in Nat /\ Head(toClient).id \in BOOLEAN
      BY <1>3, <2>1, ClientFields DEF OnRegistered
    <3>2. QED
      BY <1>3, <3>1, TableTypes DEF OnRegistered
  <2>3. QED
    BY <1>3, <2>1, <2>2 DEF OnRegistered, TypeOK
<1>4. CASE OnInvocation
  <2> DEFINE id == Head(toClient).id
             reg == Head(toClient).reg
  <2>1. toClient' \in Seq(ClientMessages) /\ Head(toClient) \in ClientMessages
    BY <1>4, TailFacts DEF OnInvocation, TypeOK
  <2>2. id \in Nat /\ reg \in Nat /\ Request(session, id) \in Reqs
    BY <1>4, <2>1, ClientFields, RequestFields DEF OnInvocation, TypeOK
  <2>3. \/ Invokes(id, reg) \/ Refuses(id, reg)
        \/ UNCHANGED << pendingInvocations, posted, toRouter, answers, faults >>
    BY <1>4 DEF OnInvocation
  <2> HIDE DEF id, reg
  <2>4. /\ pendingInvocations' \in [DOMAIN pendingInvocations' -> Nat]
        /\ DOMAIN pendingInvocations' \subseteq Nat
    <3>1. \/ pendingInvocations' = pendingInvocations
          \/ pendingInvocations' = With(pendingInvocations, id, reg)
      BY <2>3 DEF Invokes, Refuses
    <3>2. QED
      BY <2>2, <3>1, TableTypes DEF TypeOK
  <2>5. posted' \subseteq SlotType
    BY <2>2, <2>3, SlotFields DEF Invokes, Refuses, TypeOK
  <2>6. toRouter' \in Seq(RouterMessages)
    <3>1. \/ toRouter' = toRouter
          \/ toRouter' = Append(toRouter, Message("answer", id))
      BY <2>3 DEF Invokes, Refuses, NoSuchProcedure
    <3>2. QED
      <4>1. toRouter \in Seq(RouterMessages) /\ Message("answer", id) \in RouterMessages
        BY <2>2, MessageTypes DEF TypeOK
      <4>2. Append(toRouter, Message("answer", id)) \in Seq(RouterMessages)
        BY <4>1
      <4>3. QED
        BY <3>1, <4>1, <4>2
  <2>7. answers' \subseteq SentType /\ faults' \subseteq FaultType
    <3>1. \/ UNCHANGED << answers, faults >>
          \/ Answers(Slot("call", Request(session, id)), id, TRUE)
      BY <2>3 DEF Invokes, Refuses, NoSuchProcedure
    <3>2. Slot("call", Request(session, id)) \in SlotType
      BY <2>2, SlotFields
    <3>3. QED
      BY <2>2, <3>1, <3>2, AnswersFacts DEF TypeOK
  <2>8. QED
    BY <1>4, <2>1, <2>4, <2>5, <2>6, <2>7 DEF OnInvocation, TypeOK
<1>5. CASE OnInterrupt
  <2> DEFINE id == Head(toClient).id
  <2>1. toClient' \in Seq(ClientMessages) /\ Head(toClient) \in ClientMessages
    BY <1>5, TailFacts DEF OnInterrupt, TypeOK
  <2>2. id \in Nat /\ Request(session, id) \in Reqs
    BY <1>5, <2>1, ClientFields, RequestFields DEF OnInterrupt, TypeOK
  <2>3. /\ pendingInvocations' \in [DOMAIN pendingInvocations' -> Nat]
        /\ DOMAIN pendingInvocations' \subseteq Nat
    <3>1. \/ pendingInvocations' = pendingInvocations
          \/ pendingInvocations' = Without(pendingInvocations, id)
      BY <1>5 DEF OnInterrupt
    <3>2. QED
      BY <2>2, <3>1, TableTypes DEF TypeOK
  <2>4. posted' \subseteq SlotType
    <3>1. posted' \subseteq posted \cup {Slot("interrupt", Request(session, id))}
      BY <1>5 DEF OnInterrupt
    <3>2. QED
      BY <3>1, <2>2, SlotFields DEF TypeOK
  <2>5. faults' \subseteq FaultType
    BY <1>5 DEF OnInterrupt, TypeOK, FaultType
  <2>6. QED
    BY <1>5, <2>1, <2>3, <2>4, <2>5 DEF OnInterrupt, TypeOK
<1>6. CASE RunYield
  <2>1. yields' \in Seq(AnswerType) /\ Head(yields) \in AnswerType
    BY <1>6, TailFacts DEF RunYield, TypeOK
  <2>2. CASE state = "established" /\ Send(Head(yields))
    BY <1>6, <2>1, <2>2, SendTypes DEF RunYield, TypeOK
  <2>3. CASE UNCHANGED << pendingInvocations, toRouter, answers, faults >>
    BY <1>6, <2>1, <2>3 DEF RunYield, TypeOK
  <2>4. QED
    BY <1>6, <2>2, <2>3 DEF RunYield
<1>7. CASE leave
  <2>1. toRouter' \in Seq(RouterMessages)
    BY <1>7, MessageTypes, AppendFacts DEF leave, TypeOK
  <2>2. QED
    BY <1>7, <2>1 DEF leave, TypeOK, States
<1>8. CASE OnGoodbyeReply
  <2>1. RouterForgets
    BY <1>8 DEF OnGoodbyeReply
  <2>2. /\ toRouter' \in Seq(RouterMessages) /\ toClient' \in Seq(ClientMessages)
        /\ router' \in RouterType
    BY <2>1, ForgetTypes
  <2>3. /\ registry' \in [DOMAIN registry' -> BOOLEAN] /\ DOMAIN registry' \subseteq Nat
        /\ pendingInvocations' \in [DOMAIN pendingInvocations' -> Nat]
        /\ DOMAIN pendingInvocations' \subseteq Nat
    BY <1>8 DEF OnGoodbyeReply, TypeOK
  <2>4. QED
    BY <1>8, <2>2, <2>3 DEF OnGoodbyeReply, TypeOK, States
<1>9. CASE SessionEnds
  <2>1. RouterForgets
    BY <1>9 DEF SessionEnds
  <2>2. /\ toRouter' \in Seq(RouterMessages) /\ toClient' \in Seq(ClientMessages)
        /\ router' \in RouterType
    BY <2>1, ForgetTypes
  <2>3. /\ registry' \in [DOMAIN registry' -> BOOLEAN] /\ DOMAIN registry' \subseteq Nat
        /\ pendingInvocations' \in [DOMAIN pendingInvocations' -> Nat]
        /\ DOMAIN pendingInvocations' \subseteq Nat
    <3>1. /\ registry' = registry \/ registry' = << >>
          /\ pendingInvocations' = pendingInvocations
      BY <1>9 DEF SessionEnds
    <3>2. << >> \in [DOMAIN << >> -> BOOLEAN] /\ DOMAIN << >> \subseteq Nat
      OBVIOUS
    <3>3. QED
      BY <3>1, <3>2 DEF TypeOK
  <2>4. QED
    BY <1>9, <2>2, <2>3 DEF SessionEnds, TypeOK, States
<1>10. CASE disconnect
  <2>1. RouterForgets
    BY <1>10 DEF disconnect
  <2>2. /\ toRouter' \in Seq(RouterMessages) /\ toClient' \in Seq(ClientMessages)
        /\ router' \in RouterType
    BY <2>1, ForgetTypes
  <2>3. /\ registry' \in [DOMAIN registry' -> BOOLEAN] /\ DOMAIN registry' \subseteq Nat
        /\ pendingInvocations' \in [DOMAIN pendingInvocations' -> Nat]
        /\ DOMAIN pendingInvocations' \subseteq Nat
    BY <1>10 DEF disconnect, TypeOK
  <2>4. QED
    BY <1>10, <2>2, <2>3 DEF disconnect, TypeOK, States
<1>11. CASE join
  <2>1. faults' \subseteq FaultType
    BY <1>11 DEF join, TypeOK, FaultType
  <2>2. QED
    <3>1. session' = session + 1 /\ session \in Nat /\ state' \in States
      BY <1>11 DEF join, TypeOK, States
    <3>2. session' \in Nat
      BY <3>1
    <3>3. QED
      BY <1>11, <2>1, <3>1, <3>2 DEF join, TypeOK
<1>12. CASE RouterRegisters
  <2> DEFINE reg == router.lastReg + 1
             told == [type |-> "registered", id |-> Head(toRouter).id, reg |-> reg]
  <2>1. toRouter' \in Seq(RouterMessages) /\ Head(toRouter) \in RouterMessages
    BY <1>12, TailFacts DEF RouterRegisters, TypeOK
  <2>2. reg \in Nat
    BY DEF TypeOK, RouterType
  <2>3. told \in ClientMessages
    BY <1>12, <2>1, <2>2, RouterFields DEF RouterRegisters, ClientMessages
  <2>4. toClient' \in Seq(ClientMessages)
    BY <1>12, <2>3, AppendFacts DEF RouterRegisters, TypeOK
  <2>5. router' \in RouterType
    BY <1>12, <2>2 DEF RouterRegisters, TypeOK, RouterType
  <2>6. QED
    BY <1>12, <2>1, <2>4, <2>5 DEF RouterRegisters, TypeOK
<1>13. CASE RouterUnregisters
  <2>1. toRouter' \in Seq(RouterMessages) /\ Head(toRouter) \in RouterMessages
    BY <1>13, TailFacts DEF RouterUnregisters, TypeOK
  <2>2. Head(toRouter).id \in Nat
    BY <1>13, <2>1, RouterFields DEF RouterUnregisters
  <2>3. router' \in RouterType
    BY <1>13, <2>2 DEF RouterUnregisters, TypeOK, RouterType
  <2>4. QED
    BY <1>13, <2>1, <2>3 DEF RouterUnregisters, TypeOK
<1>14. CASE RouterGetsAnswer
  <2>1. toRouter' \in Seq(RouterMessages) /\ Head(toRouter) \in RouterMessages
    BY <1>14, TailFacts DEF RouterGetsAnswer, TypeOK
  <2>2. Head(toRouter).id \in Nat
    BY <1>14, <2>1, RouterFields DEF RouterGetsAnswer
  <2>3. router' \in RouterType
    BY <1>14, <2>2 DEF RouterGetsAnswer, TypeOK, RouterType
  <2>4. QED
    BY <1>14, <2>1, <2>3 DEF RouterGetsAnswer, TypeOK
<1>15. CASE \E reg \in 1 .. MaxEnrolments : RouterInvokes(reg)
  <2>1. PICK reg \in 1 .. MaxEnrolments : RouterInvokes(reg)
    BY <1>15
  <2> DEFINE id == Len(router.invoked) + 1
             told == [type |-> "invocation", id |-> id, reg |-> reg]
  <2>2. router.invoked \in Seq(Nat) /\ id \in Nat /\ reg \in Nat
    BY DEF TypeOK, RouterType
  <2>3. told \in ClientMessages
    BY <2>2 DEF ClientMessages
  <2>4. toClient' \in Seq(ClientMessages)
    BY <2>1, <2>3, AppendFacts DEF RouterInvokes, TypeOK
  <2>5. Append(router.invoked, reg) \in Seq(Nat)
    BY <2>2
  <2>6. router' \in RouterType
    BY <2>1, <2>5 DEF RouterInvokes, TypeOK, RouterType
  <2>7. QED
    BY <2>1, <2>4, <2>6 DEF RouterInvokes, TypeOK
<1>16. CASE \E id \in RequestIds : RouterInterrupts(id)
  <2>1. PICK id \in RequestIds : RouterInterrupts(id)
    BY <1>16
  <2>2. id \in Nat
    BY CalleeAssumption DEF RequestIds
  <2>3. toClient' \in Seq(ClientMessages)
    BY <2>1, <2>2, MessageTypes, AppendFacts DEF RouterInterrupts, TypeOK
  <2>4. router' \in RouterType
    BY <2>1, <2>2 DEF RouterInterrupts, TypeOK, RouterType
  <2>5. QED
    BY <2>1, <2>3, <2>4 DEF RouterInterrupts, TypeOK
<1>17. CASE \E s \in Slots : RunSlot(s) \/ DeferredAnswer(s) \/ DeferredProgress(s)
  <2>1. PICK s \in Slots : RunSlot(s) \/ DeferredAnswer(s) \/ DeferredProgress(s)
    BY <1>17
  <2>2. s \in SlotType
    BY ServedSlots
  <2>3. PICK a \in AnswerType : yields' = yields \/ yields' = Append(yields, a)
    BY <2>1, <2>2, AnswerFields
    DEF RunSlot, SlotDefers, SlotReturns, SlotThrows, DeferredAnswer, DeferredProgress, SafeYield
  <2>4. yields' \in Seq(AnswerType)
    <3>1. yields \in Seq(AnswerType)
      BY DEF TypeOK
    <3>2. Append(yields, a) \in Seq(AnswerType)
      BY <3>1
    <3>3. QED
      BY <2>3, <3>1, <3>2
  <2>5. posted' \subseteq SlotType /\ deferred' \subseteq SlotType /\ thrown' \subseteq ThrownType
    <3>1. posted' \subseteq posted /\ deferred' \subseteq deferred \cup {s}
      BY <2>1 DEF RunSlot, SlotDefers, SlotReturns, SlotThrows, DeferredAnswer, DeferredProgress,
         Resolve
    <3>2. thrown' = thrown \/ thrown' = thrown \cup {Answer(s, "answer")}
      BY <2>1 DEF RunSlot, SlotDefers, SlotReturns, SlotThrows, DeferredAnswer, DeferredProgress
    <3>3. Answer(s, "answer") \in ThrownType
      BY <2>2, ThrownFields
    <3>4. QED
      BY <2>2, <3>1, <3>2, <3>3 DEF TypeOK
  <2>6. counts' \in [enrol : Nat, progress : Nat]
    <3>1. \/ counts' = counts
          \/ counts' = [counts EXCEPT !.progress = @ + 1]
      BY <2>1 DEF RunSlot, SlotDefers, SlotReturns, SlotThrows, DeferredAnswer, DeferredProgress
    <3>2. counts \in [enrol : Nat, progress : Nat]
      BY DEF TypeOK
    <3>3. counts.progress + 1 \in Nat
      BY <3>2
    <3>4. QED
      BY <3>1, <3>2, <3>3
  <2>7. UNCHANGED << client, channels, router, session, answers, faults >>
    BY <2>1 DEF RunSlot, SlotDefers, SlotReturns, SlotThrows, DeferredAnswer, DeferredProgress
  <2>8. QED
    BY <2>4, <2>5, <2>6, <2>7 DEF TypeOK
<1>18. CASE \E a \in thrown : ThrownYield(a)
  <2>1. PICK a \in thrown : ThrownYield(a)
    BY <1>18
  <2>2. a \in AnswerType
    BY ThrownFields DEF TypeOK
  <2>3. CASE state = "established" /\ Send(a)
    BY <2>1, <2>2, <2>3, SendTypes DEF ThrownYield, TypeOK
  <2>4. CASE state # "established"
    <3>1. /\ pendingInvocations' \in [DOMAIN pendingInvocations' -> Nat]
          /\ DOMAIN pendingInvocations' \subseteq Nat
      <4>1. a.slot.request.id \in Nat
        BY <2>2 DEF AnswerType, SlotType, Reqs
      <4>2. pendingInvocations' = Without(pendingInvocations, a.slot.request.id)
        BY <2>1, <2>4 DEF ThrownYield, ErasePending
      <4>3. QED
        BY <4>1, <4>2, TableTypes
    <3>2. QED
      BY <2>1, <2>4, <3>1 DEF ThrownYield, TypeOK
  <2>5. QED
    BY <2>1, <2>3, <2>4 DEF ThrownYield
<1>19. CASE UNCHANGED vars
  BY <1>19 DEF vars, TypeOK
<1>20. QED
  BY <1>1, <1>2, <1>3, <1>4, <1>5, <1>6, <1>7, <1>8, <1>9, <1>10, <1>11, <1>12, <1>13, <1>14,
     <1>15, <1>16, <1>17, <1>18, <1>19
  DEF Next, Registering, Received, Ending, Dealer

-----------------------------------------------------------------------------
(* The duty to answer moves, and is never copied *)

\* A step takes the answer of slot s nowhere it was not.
NotMoved(s) ==
    /\ Called(s)' => Called(s)
    /\ s \in deferred' => s \in deferred
    /\ Queued(s)' => Queued(s)
    /\ Thrown(s)' => Thrown(s)
    /\ Settled(s)' => Settled(s)
    /\ Begun(s)' => Begun(s)

\* A step that moves no answer disturbs no duty to answer.
LEMMA DutyKept ==
    ASSUME TypeOK, DutyInv, QueuedOnce', AnsweredOnce', \A s \in SlotType : NotMoved(s),
           session' = session,
           state' \in {"established", "shuttingDown"} =>
              /\ state \in {"established", "shuttingDown"}
              /\ \A id \in DOMAIN router.invoked :
                    id \in DOMAIN router'.invoked /\ (Invited(id)' => Invited(id))
              /\ \A id \in router.interrupted :
                    id \in router'.interrupted /\ (Interrupting(id)' => Interrupting(id))
    PROVE  DutyInv'
<1>1. Exclusive'
  BY DEF DutyInv, Exclusive, AtOnePlace, NotMoved
<1>2. BegunInv'
  <2> SUFFICES ASSUME NEW s \in SlotType, Begun(s)'
               PROVE  /\ s.request.session <= session'
                      /\ s.request.session = session' /\ state' \in {"established", "shuttingDown"}
                            => Brought(s)'
    BY DEF BegunInv
  <2>1. Begun(s)
    BY DEF NotMoved
  <2>2. QED
    BY <2>1 DEF DutyInv, BegunInv, Brought
<1>3. QED
  BY <1>1, <1>2 DEF DutyInv

\* A step that moves one answer leaves it at one place.
LEMMA DutyMoved ==
    ASSUME TypeOK, DutyInv, NEW q \in SlotType, Begun(q),
           \A s \in SlotType : s # q => NotMoved(s),
           AtOnePlace(q)', QueuedOnce', AnsweredOnce',
           UNCHANGED << state, session, router, toClient >>
    PROVE  DutyInv'
<1>1. Exclusive'
  <2> SUFFICES ASSUME NEW s \in SlotType, s # q PROVE AtOnePlace(s)'
    BY DEF Exclusive
  <2>1. AtOnePlace(s) /\ NotMoved(s)
    BY DEF DutyInv, Exclusive
  <2>2. QED
    BY <2>1 DEF AtOnePlace, NotMoved
<1>2. \A s \in SlotType : Begun(s)' => Begun(s)
  BY DEF NotMoved
<1>3. \A id : (Invited(id)' <=> Invited(id)) /\ (Interrupting(id)' <=> Interrupting(id))
  BY DEF Invited, Interrupting
<1>4. BegunInv'
  <2> SUFFICES ASSUME NEW s \in SlotType, Begun(s)'
               PROVE  /\ s.request.session <= session'
                      /\ s.request.session = session' /\ state' \in {"established", "shuttingDown"}
                            => Brought(s)'
    BY DEF BegunInv
  <2>1. Begun(s)
    BY <1>2
  <2>2. QED
    BY <1>3, <2>1 DEF DutyInv, BegunInv, Brought
<1>5. QED
  BY <1>1, <1>4 DEF DutyInv

\* An answer dispatched to the strand by safeYield.
LEMMA QueueAppend ==
    ASSUME TypeOK, QueuedOnce, NEW a \in AnswerType, SafeYield(a),
           Last(a) => ~Queued(a.slot)
    PROVE  /\ QueuedOnce'
           /\ \A s : Queued(s)' <=> Queued(s) \/ (Last(a) /\ a.slot = s)
           /\ \A s : Waits(s)' <=> Waits(s) \/ a.slot = s
<1> DEFINE n == Len(yields) + 1
<1>1. yields' = Append(yields, a)
  BY DEF SafeYield
<1>2. /\ DOMAIN yields = 1 .. Len(yields) /\ Len(yields) \in Nat
      /\ DOMAIN yields' = 1 .. n
      /\ \A i \in DOMAIN yields : yields'[i] = yields[i]
      /\ yields'[n] = a
  BY <1>1, AppendFacts DEF TypeOK
<1>3. DOMAIN yields' = DOMAIN yields \cup {n} /\ n \notin DOMAIN yields
  BY <1>2
<1> HIDE DEF n
<1>4. \A s : Queued(s)' <=> Queued(s) \/ (Last(a) /\ a.slot = s)
  BY <1>2, <1>3 DEF Queued, Last
<1>5. \A s : Waits(s)' <=> Waits(s) \/ a.slot = s
  BY <1>2, <1>3 DEF Waits
<1>6. QueuedOnce'
  BY <1>2, <1>3 DEF QueuedOnce, Queued, Last
<1>7. QED
  BY <1>4, <1>5, <1>6

\* The strand takes the next one.
LEMMA QueueTail ==
    ASSUME TypeOK, QueuedOnce, yields # << >>, yields' = Tail(yields)
    PROVE  /\ QueuedOnce'
           /\ \A s : (Queued(s)' => Queued(s)) /\ (Waits(s)' => Waits(s))
           /\ Waits(Head(yields).slot)
           /\ \A s : Last(Head(yields)) /\ Head(yields).slot = s => Queued(s) /\ ~Queued(s)'
<1>1. /\ Head(yields) = yields[1] /\ 1 \in DOMAIN yields
      /\ DOMAIN yields' \subseteq Nat /\ 0 \notin DOMAIN yields'
      /\ \A i \in DOMAIN yields' : i + 1 \in DOMAIN yields /\ yields'[i] = yields[i + 1]
  BY TailFacts DEF TypeOK
<1>2. \A i, j \in DOMAIN yields' : i + 1 = j + 1 => i = j
  BY <1>1
<1>3. \A i \in DOMAIN yields' : i + 1 # 1
  BY <1>1
<1>4. QueuedOnce'
  <2> SUFFICES ASSUME NEW i \in DOMAIN yields', NEW j \in DOMAIN yields',
                      Last(yields'[i]), Last(yields'[j]),
                      yields'[i].slot = yields'[j].slot
               PROVE  i = j
    BY DEF QueuedOnce, Last
  <2>1. i + 1 = j + 1
    BY <1>1 DEF QueuedOnce
  <2>2. QED
    BY <1>2, <2>1
<1>5. \A s : (Queued(s)' => Queued(s)) /\ (Waits(s)' => Waits(s))
  BY <1>1 DEF Queued, Waits, Last
<1>6. Waits(Head(yields).slot)
  BY <1>1 DEF Waits
<1>7. ASSUME NEW s, Last(Head(yields)), Head(yields).slot = s
      PROVE  Queued(s) /\ ~Queued(s)'
  <2>1. Queued(s)
    BY <1>1, <1>7 DEF Queued
  <2>2. ASSUME NEW i \in DOMAIN yields', yields'[i].slot = s, Last(yields'[i])
        PROVE  FALSE
    BY <1>1, <1>3, <1>7, <2>2 DEF QueuedOnce
  <2>3. QED
    BY <2>1, <2>2 DEF Queued, Last
<1>8. QED
  BY <1>4, <1>5, <1>6, <1>7

\* Is the answer that yield() sends the first of its slot?
LEMMA SendSettles ==
    ASSUME TypeOK, NEW a \in AnswerType, Send(a), AnsweredOnce,
           Last(a) => ~Settled(a.slot)
    PROVE  /\ AnsweredOnce'
           /\ \A s \in SlotType : /\ Settled(s)' => Settled(s) \/ (Last(a) /\ s = a.slot)
                                  /\ HasSent(s)' => HasSent(s) \/ s = a.slot
<1>1. PICK k \in Nat : k = a.slot.request.id
  BY SendCases
<1>2. CASE ~Last(a) /\ UNCHANGED << answers, faults >>
  BY <1>2 DEF AnsweredOnce, Settled, HasSent
<1>3. CASE Answers(a.slot, k, Last(a))
  <2>0. PICK e : e = [slot |-> a.slot, to |-> Own(k), last |-> Last(a)]
    OBVIOUS
  <2>5. a.slot \in SlotType /\ Last(a) \in BOOLEAN
    BY SendCases
  <2>1. /\ answers' = answers \cup {e}
        /\ "answered twice" \in faults' =>
                 "answered twice" \in faults \/ (Last(a) /\ Settled(a.slot))
    BY <1>3, <2>0, <2>5, AnswersFacts
  <2>2. \A s \in SlotType : Settled(s)' => Settled(s) \/ (Last(a) /\ s = a.slot)
    <3> SUFFICES ASSUME NEW s \in SlotType, Settled(s)', ~Settled(s)
                 PROVE  Last(a) /\ s = a.slot
      OBVIOUS
    <3>1. [slot |-> s, to |-> s.request, last |-> TRUE] = e
      BY <2>1 DEF Settled
    <3>2. QED
      BY <2>0, <3>1
  <2>3. \A s \in SlotType : HasSent(s)' => HasSent(s) \/ s = a.slot
    <3>1. e.slot = a.slot
      BY <2>0
    <3>2. QED
      BY <2>1, <3>1 DEF HasSent
  <2>4. QED
    BY <2>1, <2>2, <2>3 DEF AnsweredOnce
<1>4. QED
  BY <1>1, <1>2, <1>3, SendCases

\* What a step leaves alone stays where it is.
LEMMA SameDuties ==
    ASSUME DutyInv
    PROVE  /\ UNCHANGED yields =>
                 QueuedOnce' /\ \A s : (Queued(s)' <=> Queued(s)) /\ (Waits(s)' <=> Waits(s))
           /\ UNCHANGED posted => \A s : Called(s)' <=> Called(s)
           /\ UNCHANGED thrown => \A s : Thrown(s)' <=> Thrown(s)
           /\ UNCHANGED answers =>
                 \A s : (Settled(s)' <=> Settled(s)) /\ (HasSent(s)' <=> HasSent(s))
           /\ UNCHANGED faults => AnsweredOnce'
           /\ UNCHANGED << posted, deferred, yields, thrown, answers >> =>
                 \A s \in SlotType : NotMoved(s)
<1>1. UNCHANGED yields =>
         QueuedOnce' /\ \A s : (Queued(s)' <=> Queued(s)) /\ (Waits(s)' <=> Waits(s))
  BY DEF DutyInv, QueuedOnce, Queued, Waits, Last
<1>2. UNCHANGED posted => \A s : Called(s)' <=> Called(s)
  BY DEF Called
<1>3. UNCHANGED thrown => \A s : Thrown(s)' <=> Thrown(s)
  BY DEF Thrown
<1>4. UNCHANGED answers => \A s : (Settled(s)' <=> Settled(s)) /\ (HasSent(s)' <=> HasSent(s))
  BY DEF Settled, HasSent
<1>5. UNCHANGED faults => AnsweredOnce'
  BY DEF DutyInv, AnsweredOnce
<1>6. UNCHANGED << posted, deferred, yields, thrown, answers >> =>
         \A s \in SlotType : NotMoved(s)
  BY <1>1, <1>2, <1>3, <1>4 DEF NotMoved, Begun
<1>7. QED
  BY <1>1, <1>2, <1>3, <1>4, <1>5, <1>6

\* The head of the strand's queue is answered, or dropped.
LEMMA DutyRunYield ==
    ASSUME TypeOK, DutyInv, RunYield
    PROVE  DutyInv'
<1>0. Head(yields) \in AnswerType /\ yields # << >> /\ yields' = Tail(yields)
  BY TailFacts DEF RunYield, TypeOK
<1>1. PICK a \in AnswerType : a = Head(yields)
  BY <1>0
<1>2. PICK q \in SlotType : q = a.slot
  BY <1>1 DEF AnswerType
<1>3. /\ QueuedOnce'
      /\ \A s : (Queued(s)' => Queued(s)) /\ (Waits(s)' => Waits(s))
      /\ Waits(q)
      /\ Last(a) => Queued(q) /\ ~Queued(q)'
  BY <1>0, <1>1, <1>2, QueueTail DEF DutyInv
<1>4. UNCHANGED << posted, deferred, thrown, state, session, router, toClient >>
  BY DEF RunYield
<1>5. Send(a) \/ UNCHANGED << answers, faults >>
  BY <1>1 DEF RunYield
<1>6. Last(a) => ~Settled(q)
  BY <1>2, <1>3 DEF DutyInv, Exclusive, AtOnePlace
<1>7. /\ AnsweredOnce'
      /\ \A s \in SlotType : /\ Settled(s)' => Settled(s) \/ (Last(a) /\ s = q)
                             /\ HasSent(s)' => HasSent(s) \/ s = q
  <2>1. CASE Send(a)
    BY <1>2, <1>6, <2>1, SendSettles DEF DutyInv
  <2>2. CASE UNCHANGED << answers, faults >>
    BY <2>2, SameDuties
  <2>3. QED
    BY <1>5, <2>1, <2>2
<1>8. \A s \in SlotType : /\ Called(s)' <=> Called(s)
                          /\ s \in deferred' <=> s \in deferred
                          /\ Thrown(s)' <=> Thrown(s)
  BY <1>4 DEF Called, Thrown
<1>9. Begun(q)
  BY <1>3 DEF Begun
<1>10. \A s \in SlotType : s # q => NotMoved(s)
  BY <1>3, <1>7, <1>8 DEF NotMoved, Begun
<1>11. AtOnePlace(q)'
  BY <1>3, <1>7, <1>8 DEF AtOnePlace, DutyInv, Exclusive
<1>12. QED
  BY <1>3, <1>4, <1>7, <1>9, <1>10, <1>11, DutyMoved

\* A slot that was posted runs: it defers, returns or throws.
LEMMA DutySlot ==
    ASSUME TypeOK, DutyInv, NEW q \in SlotType, RunSlot(q)
    PROVE  DutyInv'
<1>1. /\ Called(q) /\ posted' = posted \ {q}
      /\ UNCHANGED << state, session, router, toClient, answers, faults >>
  BY DEF RunSlot, SlotDefers, SlotReturns, SlotThrows, Called, client, channels, history
<1>2. (\A s : Called(s)' => Called(s)) /\ ~Called(q)'
  BY <1>1 DEF Called
<1>3. AnsweredOnce' /\ \A s : (Settled(s)' <=> Settled(s)) /\ (HasSent(s)' <=> HasSent(s))
  BY <1>1, SameDuties
<1>4. AtOnePlace(q) /\ q \notin deferred /\ ~Queued(q) /\ ~Thrown(q) /\ ~Settled(q) /\ Begun(q)
  BY <1>1 DEF DutyInv, Exclusive, AtOnePlace, Begun
<1>5. CASE SlotDefers(q)
  <2>1. deferred' = deferred \cup {q} /\ UNCHANGED << yields, thrown >>
    BY <1>5 DEF SlotDefers
  <2>2. /\ QueuedOnce' /\ \A s : (Queued(s)' <=> Queued(s)) /\ (Waits(s)' <=> Waits(s))
        /\ \A s : Thrown(s)' <=> Thrown(s)
    BY <2>1, SameDuties
  <2>3. AtOnePlace(q)' /\ \A s \in SlotType : s # q => NotMoved(s)
    BY <1>2, <1>3, <1>4, <2>1, <2>2 DEF AtOnePlace, NotMoved, Begun
  <2>4. QED
    BY <1>1, <1>3, <1>4, <2>2, <2>3, DutyMoved
<1>6. CASE SlotReturns(q)
  <2>1. PICK a : a \in AnswerType /\ a.slot = q /\ SafeYield(a)
    BY <1>6, AnswerFields DEF SlotReturns
  <2>2. deferred' \subseteq deferred /\ UNCHANGED thrown
    BY <1>6 DEF SlotReturns, Resolve
  <2>3. /\ QueuedOnce' /\ \A s : Queued(s)' <=> Queued(s) \/ (Last(a) /\ q = s)
        /\ \A s : Waits(s)' <=> Waits(s) \/ q = s
    BY <1>4, <2>1, QueueAppend DEF DutyInv
  <2>4. \A s : Thrown(s)' <=> Thrown(s)
    BY <2>2, SameDuties
  <2>5. AtOnePlace(q)' /\ \A s \in SlotType : s # q => NotMoved(s)
    BY <1>2, <1>3, <1>4, <2>2, <2>3, <2>4 DEF AtOnePlace, NotMoved, Begun
  <2>6. QED
    BY <1>1, <1>3, <1>4, <2>3, <2>5, DutyMoved
<1>7. CASE SlotThrows(q)
  <2>1. /\ \/ thrown' = thrown \/ thrown' = thrown \cup {Answer(q, "answer")}
        /\ deferred' \subseteq deferred /\ UNCHANGED yields
    BY <1>7 DEF SlotThrows, Resolve
  <2>2. QueuedOnce' /\ \A s : (Queued(s)' <=> Queued(s)) /\ (Waits(s)' <=> Waits(s))
    BY <2>1, SameDuties
  <2>3. \A s \in SlotType : s # q => (Thrown(s)' => Thrown(s))
    BY <2>1, ThrownFields DEF Thrown
  <2>4. AtOnePlace(q)' /\ \A s \in SlotType : s # q => NotMoved(s)
    BY <1>2, <1>3, <1>4, <2>1, <2>2, <2>3 DEF AtOnePlace, NotMoved, Begun
  <2>5. QED
    BY <1>1, <1>3, <1>4, <2>2, <2>4, DutyMoved
<1>8. QED
  BY <1>5, <1>6, <1>7 DEF RunSlot

\* The user who has deferred answers, or gives a progressive result.
LEMMA DutyUser ==
    ASSUME TypeOK, DutyInv, NEW q \in SlotType, DeferredAnswer(q) \/ DeferredProgress(q)
    PROVE  DutyInv'
<1>1. q \in deferred /\ UNCHANGED << state, session, router, toClient, thrown, answers, faults, posted >>
  BY DEF DeferredAnswer, DeferredProgress, client, channels, history
<1>2. AtOnePlace(q) /\ ~Called(q) /\ ~Queued(q) /\ ~Thrown(q) /\ ~Settled(q) /\ Begun(q)
  BY <1>1 DEF DutyInv, Exclusive, AtOnePlace, Begun
<1>3. PICK a \in AnswerType :
         /\ a.slot = q /\ SafeYield(a)
         /\ deferred' \subseteq deferred /\ (Last(a) => q \notin deferred')
  BY AnswerFields DEF DeferredAnswer, DeferredProgress, Resolve
<1>4. /\ QueuedOnce' /\ \A s : Queued(s)' <=> Queued(s) \/ (Last(a) /\ q = s)
      /\ \A s : Waits(s)' <=> Waits(s) \/ q = s
  BY <1>2, <1>3, QueueAppend DEF DutyInv
<1>5. /\ AnsweredOnce' /\ \A s : (Settled(s)' <=> Settled(s)) /\ (HasSent(s)' <=> HasSent(s))
      /\ \A s : (Thrown(s)' <=> Thrown(s)) /\ (Called(s)' <=> Called(s))
  BY <1>1, SameDuties
<1>6. AtOnePlace(q)' /\ \A s \in SlotType : s # q => NotMoved(s)
  BY <1>2, <1>3, <1>4, <1>5 DEF AtOnePlace, NotMoved, Begun
<1>7. QED
  BY <1>1, <1>2, <1>4, <1>5, <1>6, DutyMoved

\* The rest of the yield() that a catch clause has called.
LEMMA DutyThrownYield ==
    ASSUME TypeOK, DutyInv, NEW a \in thrown, ThrownYield(a)
    PROVE  DutyInv'
<1>1. a \in AnswerType /\ a \in ThrownType /\ Last(a)
  BY ThrownFields DEF TypeOK
<1>2. PICK q \in SlotType : q = a.slot
  BY <1>1 DEF AnswerType
<1>3. /\ thrown' = thrown \ {a}
      /\ UNCHANGED << state, session, router, toClient, posted, deferred, yields >>
  BY DEF ThrownYield
<1>4. (\A s : Thrown(s)' => Thrown(s)) /\ ~Thrown(q)' /\ Thrown(q)
  BY <1>1, <1>2, <1>3, ThrownFields DEF Thrown, TypeOK
<1>5. ~Called(q) /\ q \notin deferred /\ ~Queued(q) /\ ~Settled(q) /\ Begun(q)
  BY <1>4 DEF DutyInv, Exclusive, AtOnePlace, Begun
<1>6. /\ QueuedOnce'
      /\ \A s : (Queued(s)' <=> Queued(s)) /\ (Waits(s)' <=> Waits(s))
      /\ \A s : Called(s)' <=> Called(s)
  BY <1>3, SameDuties
<1>7. /\ AnsweredOnce'
      /\ \A s \in SlotType : (Settled(s)' => Settled(s) \/ s = q) /\ (HasSent(s)' => HasSent(s) \/ s = q)
  <2>1. CASE Send(a)
    BY <1>1, <1>2, <1>5, <2>1, SendSettles DEF DutyInv
  <2>2. CASE state # "established"
    <3>1. UNCHANGED << answers, faults >>
      BY <2>2 DEF ThrownYield
    <3>2. QED
      BY <3>1, SameDuties
  <2>3. QED
    BY <2>1, <2>2 DEF ThrownYield
<1>8. AtOnePlace(q)' /\ \A s \in SlotType : s # q => NotMoved(s)
  BY <1>3, <1>4, <1>5, <1>6, <1>7 DEF AtOnePlace, NotMoved, Begun
<1>9. QED
  BY <1>3, <1>5, <1>6, <1>7, <1>8, DutyMoved

-----------------------------------------------------------------------------
(* Messages arrive in the order sent *)

\* The client takes a message: what is behind it is under way as before.
LEMMA Taken ==
    ASSUME TypeOK, MessagesInv, toClient # << >>, toClient' = Tail(toClient),
           UNCHANGED << router, state >>
    PROVE  /\ InvocationsInv' /\ InterruptsInv' /\ QuietInv'
           /\ \A id : Invited(id)' => Invited(id)
           /\ \A id : Invited(id) =>
                 Invited(id)' \/ (Head(toClient).type = "invocation" /\ Head(toClient).id = id)
           /\ \A id : Head(toClient).type = "invocation" /\ Head(toClient).id = id =>
                 Invited(id) /\ ~Invited(id)' /\ id \in DOMAIN router.invoked
                 /\ Head(toClient).reg = router.invoked[id]
           /\ \A id : Interrupting(id)' => Interrupting(id)
           /\ \A id : Interrupting(id) =>
                 Interrupting(id)' \/ (Head(toClient).type = "interrupt" /\ Head(toClient).id = id)
           /\ \A id : Head(toClient).type = "interrupt" /\ Head(toClient).id = id =>
                 /\ ~Interrupting(id)' /\ Interrupting(id) /\ ~Invited(id)
                 /\ id \in DOMAIN router.invoked /\ id \in router.interrupted
<1>1. /\ Head(toClient) = toClient[1] /\ 1 \in DOMAIN toClient
      /\ DOMAIN toClient \subseteq Nat /\ 0 \notin DOMAIN toClient
      /\ DOMAIN toClient' \subseteq Nat /\ 0 \notin DOMAIN toClient'
      /\ \A i \in DOMAIN toClient' : i + 1 \in DOMAIN toClient /\ toClient'[i] = toClient[i + 1]
      /\ \A i \in DOMAIN toClient :
            i # 1 => i - 1 \in DOMAIN toClient' /\ toClient'[i - 1] = toClient[i]
  BY TailFacts DEF TypeOK
<1>2. \A i, j \in DOMAIN toClient' : (i + 1 = j + 1 => i = j) /\ (i + 1 < j + 1 => i < j)
  BY <1>1
<1>3. \A i \in DOMAIN toClient' : i + 1 # 1
  BY <1>1
<1>4. InvocationsInv'
  <2> SUFFICES ASSUME NEW i \in DOMAIN toClient', toClient'[i].type = "invocation"
               PROVE  /\ toClient'[i].id \in DOMAIN router'.invoked
                      /\ toClient'[i].reg = router'.invoked[toClient'[i].id]
                      /\ \A j \in DOMAIN toClient' :
                            toClient'[j].type = "invocation" /\ toClient'[j].id = toClient'[i].id
                                => j = i
    BY DEF InvocationsInv, OfType
  <2>1. QED
    BY <1>1, <1>2 DEF MessagesInv, InvocationsInv, OfType
<1>5. InterruptsInv'
  <2> SUFFICES ASSUME NEW i \in DOMAIN toClient', toClient'[i].type = "interrupt"
               PROVE  /\ toClient'[i].id \in DOMAIN router'.invoked
                      /\ toClient'[i].id \in router'.interrupted
                      /\ \A j \in DOMAIN toClient' :
                            /\ toClient'[j].type = "interrupt" /\ toClient'[j].id = toClient'[i].id
                                  => j = i
                            /\ toClient'[j].type = "invocation" /\ toClient'[j].id = toClient'[i].id
                                  => j < i
    BY DEF InterruptsInv, OfType
  <2>1. QED
    BY <1>1, <1>2 DEF MessagesInv, InterruptsInv, OfType
<1>6. QuietInv'
  BY DEF MessagesInv, QuietInv
<1>7. /\ \A id : Invited(id)' => Invited(id)
      /\ \A id : Interrupting(id)' => Interrupting(id)
  BY <1>1 DEF Invited, Interrupting, OfType
<1>8. \A id : Invited(id) =>
         Invited(id)' \/ (Head(toClient).type = "invocation" /\ Head(toClient).id = id)
  BY <1>1, ZenonT(40) DEF Invited
<1>9. \A id : Interrupting(id) =>
         Interrupting(id)' \/ (Head(toClient).type = "interrupt" /\ Head(toClient).id = id)
  BY <1>1, ZenonT(40) DEF Interrupting, OfType
<1>10. ASSUME NEW id, Head(toClient).type = "invocation", Head(toClient).id = id
       PROVE  /\ Invited(id) /\ ~Invited(id)' /\ id \in DOMAIN router.invoked
              /\ Head(toClient).reg = router.invoked[id]
  BY <1>1, <1>3, <1>10 DEF Invited, MessagesInv, InvocationsInv, OfType
<1>11. ASSUME NEW id, Head(toClient).type = "interrupt", Head(toClient).id = id
       PROVE  /\ ~Interrupting(id)' /\ Interrupting(id) /\ ~Invited(id)
              /\ id \in DOMAIN router.invoked /\ id \in router.interrupted
  <2>1. /\ id \in DOMAIN router.invoked /\ id \in router.interrupted
        /\ \A j \in DOMAIN toClient :
              /\ toClient[j].type = "interrupt" /\ toClient[j].id = id => j = 1
              /\ toClient[j].type = "invocation" /\ toClient[j].id = id => j < 1
    BY <1>1, <1>11 DEF MessagesInv, InterruptsInv, OfType
  <2>2. ~Interrupting(id)' /\ Interrupting(id)
    BY <1>1, <1>3, <1>11, <2>1 DEF Interrupting, OfType
  <2>3. ~Invited(id)
    <3>1. \A j \in DOMAIN toClient : ~(j < 1)
      BY <1>1
    <3>2. QED
      BY <2>1, <3>1 DEF Invited
  <2>4. QED
    BY <2>1, <2>2, <2>3
<1>12. QED
  BY <1>4, <1>5, <1>6, <1>7, <1>8, <1>9, <1>10, <1>11

\* Registrations still to be told of, when a message is taken.
LEMMA TakenRegistered ==
    ASSUME TypeOK, MessagesInv, toClient # << >>, toClient' = Tail(toClient),
           UNCHANGED router,
           \A id \in DOMAIN pendingInvocations' :
              \/ /\ id \in DOMAIN pendingInvocations
                 /\ pendingInvocations'[id] = pendingInvocations[id]
              \/ /\ Head(toClient).type = "invocation" /\ Head(toClient).id = id
                 /\ pendingInvocations'[id] = router.invoked[id]
    PROVE  RegisteredInv'
<1>1. /\ Head(toClient) = toClient[1] /\ 1 \in DOMAIN toClient
      /\ DOMAIN toClient \subseteq Nat
      /\ DOMAIN toClient' \subseteq Nat /\ 0 \notin DOMAIN toClient'
      /\ \A i \in DOMAIN toClient' : i + 1 \in DOMAIN toClient /\ toClient'[i] = toClient[i + 1]
      /\ \A i \in DOMAIN toClient :
            i # 1 => i - 1 \in DOMAIN toClient' /\ toClient'[i - 1] = toClient[i]
  BY TailFacts DEF TypeOK
<1> SUFFICES ASSUME NEW i \in DOMAIN toClient', toClient'[i].type = "registered"
             PROVE  /\ toClient'[i].reg <= router'.lastReg
                    /\ \A id \in DOMAIN pendingInvocations' :
                          pendingInvocations'[id] # toClient'[i].reg
                    /\ \A id \in DOMAIN router'.invoked :
                          router'.invoked[id] = toClient'[i].reg =>
                             \E j \in DOMAIN toClient' :
                                j > i /\ toClient'[j].type = "invocation" /\ toClient'[j].id = id
  BY DEF RegisteredInv, OfType
<1>2. /\ toClient[i + 1].type = "registered" /\ toClient[i + 1].reg = toClient'[i].reg
      /\ i + 1 \in DOMAIN toClient
  BY <1>1
<1>3. /\ toClient[i + 1].reg <= router.lastReg
      /\ \A id \in DOMAIN pendingInvocations : pendingInvocations[id] # toClient[i + 1].reg
      /\ \A id \in DOMAIN router.invoked :
            router.invoked[id] = toClient[i + 1].reg =>
               \E j \in DOMAIN toClient :
                  j > i + 1 /\ toClient[j].type = "invocation" /\ toClient[j].id = id
  BY <1>2 DEF MessagesInv, RegisteredInv, OfType
<1>4. ASSUME NEW id \in DOMAIN router.invoked, router.invoked[id] = toClient[i + 1].reg
      PROVE  /\ \E j \in DOMAIN toClient' :
                   j > i /\ toClient'[j].type = "invocation" /\ toClient'[j].id = id
             /\ ~(Head(toClient).type = "invocation" /\ Head(toClient).id = id)
  <2>1. PICK j \in DOMAIN toClient :
           j > i + 1 /\ toClient[j].type = "invocation" /\ toClient[j].id = id
    BY <1>3, <1>4
  <2>2. j \in Nat /\ i \in Nat /\ j # 1 /\ j - 1 > i
    BY <1>1, <2>1
  <2>3. j - 1 \in DOMAIN toClient' /\ toClient'[j - 1] = toClient[j]
    BY <1>1, <2>2
  <2>4. ~(toClient[1].type = "invocation" /\ toClient[1].id = id)
    BY <1>1, <2>1, <2>2 DEF MessagesInv, InvocationsInv, OfType
  <2>5. QED
    BY <1>1, <2>1, <2>2, <2>3, <2>4
<1>5. \A id \in DOMAIN pendingInvocations' : pendingInvocations'[id] # toClient'[i].reg
  <2> TAKE id \in DOMAIN pendingInvocations'
  <2>1. CASE /\ id \in DOMAIN pendingInvocations
             /\ pendingInvocations'[id] = pendingInvocations[id]
    BY <1>2, <1>3, <2>1
  <2>2. CASE /\ Head(toClient).type = "invocation" /\ Head(toClient).id = id
             /\ pendingInvocations'[id] = router.invoked[id]
    <3>1. id \in DOMAIN router.invoked
      BY <1>1, <2>2 DEF MessagesInv, InvocationsInv, OfType
    <3>2. QED
      BY <1>2, <1>4, <2>2, <3>1
  <2>3. QED
    BY <2>1, <2>2
<1>6. QED
  BY <1>2, <1>3, <1>4, <1>5

\* The dealer sends a message.
LEMMA Sent ==
    ASSUME TypeOK, NEW m \in ClientMessages, toClient' = Append(toClient, m)
    PROVE  /\ \E n \in Nat :
                 /\ DOMAIN toClient' = DOMAIN toClient \cup {n} /\ toClient'[n] = m
                 /\ \A i \in DOMAIN toClient : i \in Nat /\ i < n /\ i # n /\ toClient'[i] = toClient[i]
           /\ \A id : Invited(id)' <=> Invited(id) \/ (m.type = "invocation" /\ m.id = id)
           /\ \A id : Interrupting(id)' <=> Interrupting(id) \/ (m.type = "interrupt" /\ m.id = id)
<1> DEFINE n == Len(toClient) + 1
<1>1. /\ DOMAIN toClient = 1 .. Len(toClient) /\ Len(toClient) \in Nat
      /\ DOMAIN toClient' = 1 .. n
      /\ \A i \in DOMAIN toClient : toClient'[i] = toClient[i]
      /\ toClient'[n] = m
  BY AppendFacts DEF TypeOK
<1>2. /\ n \in Nat /\ DOMAIN toClient' = DOMAIN toClient \cup {n}
      /\ \A i \in DOMAIN toClient : i \in Nat /\ i < n /\ i # n
  BY <1>1
<1> HIDE DEF n
<1>3. /\ \A id : Invited(id)' <=> Invited(id) \/ (m.type = "invocation" /\ m.id = id)
      /\ \A id : Interrupting(id)' <=> Interrupting(id) \/ (m.type = "interrupt" /\ m.id = id)
  BY <1>1, <1>2 DEF Invited, Interrupting, OfType
<1>4. QED
  BY <1>1, <1>2, <1>3

\* A registration changes nothing for the invocations.
LEMMA MessagesRegisters ==
    ASSUME TypeOK, MessagesInv, RouterRegisters
    PROVE  /\ MessagesInv'
           /\ \A id : Invited(id)' <=> Invited(id)
           /\ \A id : Interrupting(id)' <=> Interrupting(id)
           /\ router'.invoked = router.invoked /\ router'.interrupted = router.interrupted
<1> DEFINE reg == router.lastReg + 1
           m == [type |-> "registered", id |-> Head(toRouter).id, reg |-> reg]
<1>1. /\ toClient' = Append(toClient, m)
      /\ router' = [router EXCEPT !.lastReg = reg, !.registered = @ \cup {reg}]
      /\ UNCHANGED << state, registry, pendingInvocations >>
  BY DEF RouterRegisters, client
<1>2. /\ router.lastReg \in Nat /\ reg \in Nat /\ reg > router.lastReg
      /\ router.invoked \in Seq(Nat) /\ router.registered \subseteq Nat
  BY DEF TypeOK, RouterType
<1>3. /\ router'.lastReg = reg /\ router'.registered = router.registered \cup {reg}
      /\ router'.invoked = router.invoked /\ router'.interrupted = router.interrupted
  BY <1>1 DEF TypeOK, RouterType
<1>4. m \in ClientMessages
  BY TailFacts, RouterFields, <1>2 DEF RouterRegisters, ClientMessages, TypeOK
<1>5. m.type = "registered" /\ m.reg = reg
  OBVIOUS
<1> HIDE DEF m, reg
<1>6. PICK n \in Nat :
         /\ DOMAIN toClient' = DOMAIN toClient \cup {n} /\ toClient'[n] = m
         /\ \A i \in DOMAIN toClient : i \in Nat /\ i < n /\ i # n /\ toClient'[i] = toClient[i]
  BY <1>1, <1>4, Sent
<1>7. /\ \A id : Invited(id)' <=> Invited(id)
      /\ \A id : Interrupting(id)' <=> Interrupting(id)
  BY <1>1, <1>4, <1>5, Sent
<1>8. RegsInv'
  <2>1. /\ \A k \in DOMAIN registry : k \in Nat /\ k <= router.lastReg
        /\ \A id \in DOMAIN pendingInvocations :
              pendingInvocations[id] \in Nat /\ pendingInvocations[id] <= router.lastReg
        /\ \A k \in router.registered : k \in Nat /\ k <= router.lastReg
        /\ \A id \in DOMAIN router.invoked :
              router.invoked[id] \in Nat /\ router.invoked[id] <= router.lastReg
    BY <1>2 DEF MessagesInv, RegsInv, TypeOK
  <2>2. \A k \in Nat : k <= router.lastReg => k <= reg
    BY <1>2
  <2>3. QED
    BY <1>1, <1>2, <1>3, <2>1, <2>2 DEF RegsInv
<1>9. InvocationsInv'
  BY <1>3, <1>5, <1>6 DEF MessagesInv, InvocationsInv, OfType
<1>10. InterruptsInv'
  BY <1>3, <1>5, <1>6 DEF MessagesInv, InterruptsInv, OfType
<1>11. RegisteredInv'
  <2> SUFFICES ASSUME NEW i \in DOMAIN toClient', toClient'[i].type = "registered"
               PROVE  /\ toClient'[i].reg <= router'.lastReg
                      /\ \A id \in DOMAIN pendingInvocations' :
                            pendingInvocations'[id] # toClient'[i].reg
                      /\ \A id \in DOMAIN router'.invoked :
                            router'.invoked[id] = toClient'[i].reg =>
                               \E j \in DOMAIN toClient' :
                                  j > i /\ toClient'[j].type = "invocation" /\ toClient'[j].id = id
    BY DEF RegisteredInv, OfType
  <2>1. CASE i = n
    <3>1. toClient'[i].reg = reg /\ reg <= reg
      BY <1>2, <1>5, <1>6, <2>1
    <3>2. \A id \in DOMAIN pendingInvocations : pendingInvocations[id] # reg
      BY <1>2 DEF MessagesInv, RegsInv, TypeOK
    <3>3. \A id \in DOMAIN router.invoked : router.invoked[id] # reg
      BY <1>2 DEF MessagesInv, RegsInv
    <3>4. QED
      BY <1>1, <1>3, <3>1, <3>2, <3>3
  <2>2. CASE i \in DOMAIN toClient
    <3>1. toClient[i] \in ClientMessages /\ toClient[i] = toClient'[i]
      BY <1>6, <2>2 DEF TypeOK
    <3>2. toClient[i].reg \in Nat /\ toClient[i].reg <= router.lastReg
      BY <3>1, <2>2, ClientFields DEF MessagesInv, RegisteredInv, OfType
    <3>3. toClient'[i].reg <= router'.lastReg
      BY <1>2, <1>3, <3>1, <3>2
    <3>4. QED
      BY <1>1, <1>3, <1>6, <2>2, <3>3 DEF MessagesInv, RegisteredInv, OfType
  <2>3. QED
    BY <1>6, <2>1, <2>2
<1>12. QuietInv'
  <2>1. state \in {"established", "shuttingDown"}
    BY DEF RouterRegisters, MessagesInv, QuietInv
  <2>2. QED
    BY <1>1, <2>1 DEF QuietInv
<1>13. QED
  BY <1>3, <1>7, <1>8, <1>9, <1>10, <1>11, <1>12 DEF MessagesInv

\* A new INVOCATION is the only one of its ID, and under way.
LEMMA MessagesInvokes ==
    ASSUME TypeOK, MessagesInv, NEW reg \in Nat, RouterInvokes(reg)
    PROVE  /\ MessagesInv'
           /\ \A id \in DOMAIN router.invoked :
                 id \in DOMAIN router'.invoked /\ router'.invoked[id] = router.invoked[id]
           /\ \A id \in DOMAIN router.invoked : Invited(id)' <=> Invited(id)
           /\ \A id \in DOMAIN router'.invoked : id \in DOMAIN router.invoked \/ Invited(id)'
           /\ \A id : Interrupting(id)' <=> Interrupting(id)
           /\ router'.interrupted = router.interrupted
<1> DEFINE new == Len(router.invoked) + 1
           m == [type |-> "invocation", id |-> new, reg |-> reg]
<1>1. /\ toClient' = Append(toClient, m) /\ reg \in router.registered
      /\ router' = [router EXCEPT !.invoked = Append(@, reg)]
      /\ UNCHANGED << state, registry, pendingInvocations, toRouter >>
      /\ state \in {"established", "shuttingDown"}
  BY DEF RouterInvokes, client
<1>2. router.lastReg \in Nat /\ router.invoked \in Seq(Nat) /\ new \in Nat
  BY DEF TypeOK, RouterType
<1>3. /\ router'.lastReg = router.lastReg /\ router'.registered = router.registered
      /\ router'.interrupted = router.interrupted
      /\ router'.invoked = Append(router.invoked, reg)
  BY <1>1 DEF TypeOK, RouterType
<1>4. /\ DOMAIN router'.invoked = DOMAIN router.invoked \cup {new}
      /\ new \notin DOMAIN router.invoked /\ router'.invoked[new] = reg
      /\ \A id \in DOMAIN router.invoked : router'.invoked[id] = router.invoked[id]
  BY <1>2, <1>3
<1>5. m \in ClientMessages
  BY <1>2 DEF ClientMessages
<1>6. m.type = "invocation" /\ m.id = new /\ m.reg = reg
  OBVIOUS
<1> HIDE DEF m, new
<1>7. PICK n \in Nat :
         /\ DOMAIN toClient' = DOMAIN toClient \cup {n} /\ toClient'[n] = m
         /\ \A i \in DOMAIN toClient : i \in Nat /\ i < n /\ i # n /\ toClient'[i] = toClient[i]
  BY <1>1, <1>5, Sent
<1>8. /\ \A id : Invited(id)' <=> Invited(id) \/ id = new
      /\ \A id : Interrupting(id)' <=> Interrupting(id)
  BY <1>1, <1>5, <1>6, Sent
<1>9. RegsInv'
  BY <1>1, <1>3, <1>4 DEF MessagesInv, RegsInv
<1>10. InvocationsInv'
  BY <1>4, <1>6, <1>7 DEF MessagesInv, InvocationsInv, OfType
<1>11. InterruptsInv'
  BY <1>3, <1>4, <1>6, <1>7 DEF MessagesInv, InterruptsInv, OfType
<1>12. RegisteredInv'
  <2> SUFFICES ASSUME NEW i \in DOMAIN toClient', toClient'[i].type = "registered"
               PROVE  /\ toClient'[i].reg <= router'.lastReg
                      /\ \A id \in DOMAIN pendingInvocations' :
                            pendingInvocations'[id] # toClient'[i].reg
                      /\ \A id \in DOMAIN router'.invoked :
                            router'.invoked[id] = toClient'[i].reg =>
                               \E j \in DOMAIN toClient' :
                                  j > i /\ toClient'[j].type = "invocation" /\ toClient'[j].id = id
    BY DEF RegisteredInv, OfType
  <2>1. i \in DOMAIN toClient /\ toClient[i] = toClient'[i] /\ n > i
    BY <1>6, <1>7
  <2>2. /\ toClient[i].reg <= router.lastReg
        /\ \A id \in DOMAIN pendingInvocations : pendingInvocations[id] # toClient[i].reg
        /\ \A id \in DOMAIN router.invoked :
              router.invoked[id] = toClient[i].reg =>
                 \E j \in DOMAIN toClient :
                    j > i /\ toClient[j].type = "invocation" /\ toClient[j].id = id
    BY <2>1 DEF MessagesInv, RegisteredInv, OfType
  <2>3. QED
    BY <1>1, <1>3, <1>4, <1>6, <1>7, <2>1, <2>2
<1>13. QuietInv'
  BY <1>1 DEF QuietInv
<1>14. QED
  BY <1>3, <1>4, <1>8, <1>9, <1>10, <1>11, <1>12, <1>13 DEF MessagesInv

\* A new INTERRUPT follows the INVOCATION that it is about.
LEMMA MessagesInterrupts ==
    ASSUME TypeOK, MessagesInv, NEW new \in Nat, RouterInterrupts(new)
    PROVE  /\ MessagesInv'
           /\ \A id : Invited(id)' <=> Invited(id)
           /\ \A id : Interrupting(id)' <=> Interrupting(id) \/ id = new
           /\ router'.invoked = router.invoked
           /\ router'.interrupted = router.interrupted \cup {new}
           /\ new \in DOMAIN router.invoked /\ new \notin router.interrupted
<1> DEFINE m == Message("interrupt", new)
<1>1. /\ toClient' = Append(toClient, m)
      /\ new \in DOMAIN router.invoked /\ new \notin router.interrupted
      /\ router' = [router EXCEPT !.interrupted = @ \cup {new}]
      /\ UNCHANGED << state, registry, pendingInvocations, toRouter >>
  BY DEF RouterInterrupts, client
<1>2. /\ router'.lastReg = router.lastReg /\ router'.registered = router.registered
      /\ router'.interrupted = router.interrupted \cup {new}
      /\ router'.invoked = router.invoked
  BY <1>1 DEF TypeOK, RouterType
<1>3. m \in ClientMessages /\ m.type = "interrupt" /\ m.id = new
  BY MessageTypes
<1> HIDE DEF m
<1>4. PICK n \in Nat :
         /\ DOMAIN toClient' = DOMAIN toClient \cup {n} /\ toClient'[n] = m
         /\ \A i \in DOMAIN toClient : i \in Nat /\ i < n /\ i # n /\ toClient'[i] = toClient[i]
  BY <1>1, <1>3, Sent
<1>5. /\ \A id : Invited(id)' <=> Invited(id)
      /\ \A id : Interrupting(id)' <=> Interrupting(id) \/ id = new
  BY <1>1, <1>3, Sent
<1>6. RegsInv'
  BY <1>1, <1>2 DEF MessagesInv, RegsInv
<1>7. InvocationsInv'
  BY <1>2, <1>3, <1>4 DEF MessagesInv, InvocationsInv, OfType
<1>8. InterruptsInv'
  <2> SUFFICES ASSUME NEW i \in DOMAIN toClient', toClient'[i].type = "interrupt"
               PROVE  /\ toClient'[i].id \in DOMAIN router'.invoked
                      /\ toClient'[i].id \in router'.interrupted
                      /\ \A j \in DOMAIN toClient' :
                            /\ toClient'[j].type = "interrupt" /\ toClient'[j].id = toClient'[i].id
                                  => j = i
                            /\ toClient'[j].type = "invocation" /\ toClient'[j].id = toClient'[i].id
                                  => j < i
    BY DEF InterruptsInv, OfType
  <2>1. \A j \in DOMAIN toClient : toClient[j].type = "interrupt" => toClient[j].id # new
    BY <1>1 DEF MessagesInv, InterruptsInv, OfType
  <2>2. CASE i = n
    BY <1>1, <1>2, <1>3, <1>4, <2>1, <2>2
  <2>3. CASE i \in DOMAIN toClient
    BY <1>2, <1>3, <1>4, <2>1, <2>3 DEF MessagesInv, InterruptsInv, OfType
  <2>4. QED
    BY <1>4, <2>2, <2>3
<1>9. RegisteredInv'
  BY <1>1, <1>2, <1>3, <1>4 DEF MessagesInv, RegisteredInv, OfType
<1>10. QuietInv'
  BY <1>1 DEF MessagesInv, QuietInv
<1>11. QED
  BY <1>1, <1>2, <1>5, <1>6, <1>7, <1>8, <1>9, <1>10 DEF MessagesInv

\* Steps that leave the messages to the client, and what the dealer has counted,
\* and that take nothing new into the client's tables.
LEMMA MessagesKept ==
    ASSUME TypeOK, MessagesInv, UNCHANGED << toClient, state >>,
           router'.lastReg = router.lastReg, router'.invoked = router.invoked,
           router'.interrupted = router.interrupted, router'.registered \subseteq router.registered,
           DOMAIN registry' \subseteq DOMAIN registry,
           \A id \in DOMAIN pendingInvocations' :
              id \in DOMAIN pendingInvocations /\ pendingInvocations'[id] = pendingInvocations[id],
           toRouter' # << >> => toRouter # << >> \/ state = "established"
    PROVE  /\ MessagesInv'
           /\ \A id : (Invited(id)' <=> Invited(id)) /\ (Interrupting(id)' <=> Interrupting(id))
<1>1. RegsInv'
  BY DEF MessagesInv, RegsInv
<1>2. InvocationsInv' /\ InterruptsInv'
  BY DEF MessagesInv, InvocationsInv, InterruptsInv, OfType
<1>3. RegisteredInv'
  BY DEF MessagesInv, RegisteredInv, OfType
<1>4. QuietInv'
  BY DEF MessagesInv, QuietInv
<1>5. \A id : (Invited(id)' <=> Invited(id)) /\ (Interrupting(id)' <=> Interrupting(id))
  BY DEF Invited, Interrupting, OfType
<1>6. QED
  BY <1>1, <1>2, <1>3, <1>4, <1>5 DEF MessagesInv

\* The end of a session leaves nothing under way.
LEMMA MessagesForgotten ==
    ASSUME TypeOK, MessagesInv, RouterForgets,
           DOMAIN registry' \subseteq DOMAIN registry,
           \A id \in DOMAIN pendingInvocations' :
              id \in DOMAIN pendingInvocations /\ pendingInvocations'[id] = pendingInvocations[id]
    PROVE  MessagesInv'
<1>1. /\ toRouter' = << >> /\ toClient' = << >> /\ DOMAIN << >> = {}
      /\ router'.lastReg = router.lastReg /\ router'.registered = {} /\ router'.invoked = << >>
  BY ForgetTypes DEF RouterForgets
<1>2. QED
  BY <1>1 DEF MessagesInv, RegsInv, InvocationsInv, InterruptsInv, RegisteredInv, QuietInv

-----------------------------------------------------------------------------
(* pendingInvocations_ is right *)

\* What was unclean stays unclean, and a step without a stray interrupt adds none.
LEMMA CleanKept ==
    ASSUME InterruptsReach, answers \subseteq answers', faults \subseteq faults',
           "stray interrupt" \in faults' => "stray interrupt" \in faults
    PROVE  (Clean' => Clean) /\ InterruptsReach'
<1>1. StaleAnswer => StaleAnswer'
  BY DEF StaleAnswer
<1>2. QED
  BY <1>1 DEF Clean, InterruptsReach

\* Steps that leave the table alone, and give none of its entries a meaning.
LEMMA PendingKept ==
    ASSUME PendingInv, state' = "established" => state = "established", Clean' => Clean,
           UNCHANGED << session, pendingInvocations >>,
           router'.invoked = router.invoked, router'.interrupted = router.interrupted,
           DOMAIN registry' \subseteq DOMAIN registry,
           \A r : Answered(r)' <=> Answered(r),
           \A id : (Invited(id)' <=> Invited(id)) /\ (Interrupting(id)' <=> Interrupting(id))
    PROVE  PendingInv'
<1> SUFFICES ASSUME state = "established", Clean, NoneTooMany, NoneMissing
             PROVE  NoneTooMany' /\ NoneMissing'
  BY DEF PendingInv
<1>1. \A id : Own(id)' = Own(id)
  BY DEF Own, Request
<1>2. \A id : Answered(Own(id))' <=> Answered(Own(id))
  BY <1>1 DEF Answered
<1>3. NoneTooMany'
  BY <1>2 DEF NoneTooMany
<1>4. NoneMissing'
  BY <1>2 DEF NoneMissing
<1>5. QED
  BY <1>3, <1>4

\* Nobody is answered by a step that sends nothing.
LEMMA SameAnswers ==
    ASSUME UNCHANGED answers
    PROVE  /\ \A r : Answered(r)' <=> Answered(r)
           /\ UNCHANGED session => \A id : Answered(Own(id))' <=> Answered(Own(id))
  BY DEF Answered, Own, Request

\* A step that erases the entries of what it answers.
LEMMA PendingSend ==
    ASSUME TypeOK, PendingInv, NEW a \in AnswerType, Send(a), Clean' => Clean,
           UNCHANGED << state, session, registry, router, toClient >>
    PROVE  PendingInv'
<1> SUFFICES ASSUME state = "established", Clean', NoneTooMany, NoneMissing
             PROVE  NoneTooMany' /\ NoneMissing'
  BY DEF PendingInv
<1>1. PICK k \in Nat : k = a.slot.request.id
  BY SendCases
<1>2. \A id : (Invited(id)' <=> Invited(id)) /\ (Interrupting(id)' <=> Interrupting(id))
  BY DEF Invited, Interrupting
<1>3. CASE UNCHANGED << pendingInvocations, answers >>
  <2>1. PendingInv'
    BY <1>2, <1>3, SameAnswers, PendingKept
  <2>2. QED
    BY <2>1 DEF PendingInv
<1>4. CASE /\ pendingInvocations' = Without(pendingInvocations, k)
           /\ Answers(a.slot, k, Last(a))
  <2>1. PICK e : e = [slot |-> a.slot, to |-> Own(k), last |-> Last(a)]
    OBVIOUS
  <2>10. a.slot \in SlotType /\ Last(a) \in BOOLEAN
    BY SendCases
  <2>2. answers' = answers \cup {e}
    BY <1>4, <2>1, <2>10, AnswersFacts
  <2>3. e.to = Own(k) /\ e.slot.request = Own(k)
    BY <2>1, <2>2 DEF Clean, StaleAnswer
  <2>4. \A id : Own(id)' = Own(id) /\ (Own(id) = Own(k) => id = k)
    BY DEF Own, Request
  <2>5. /\ \A id : Answered(Own(id))' => Answered(Own(id)) \/ id = k
        /\ \A id : Answered(Own(id)) => Answered(Own(id))'
        /\ \A id : id = k => Answered(Own(id))'
    BY <2>2, <2>3, <2>4 DEF Answered
  <2>6. /\ DOMAIN pendingInvocations' = DOMAIN pendingInvocations \ {k}
        /\ \A id \in DOMAIN pendingInvocations' : pendingInvocations'[id] = pendingInvocations[id]
    BY <1>4, WithoutFacts
  <2>7. NoneTooMany'
    BY <1>2, <2>5, <2>6 DEF NoneTooMany
  <2>8. NoneMissing'
    BY <1>2, <2>5, <2>6 DEF NoneMissing
  <2>9. QED
    BY <2>7, <2>8
<1>5. QED
  BY <1>1, <1>3, <1>4, SendCases

\* REGISTERED preserves the invariant.
LEMMA StepOnRegistered ==
    ASSUME IndInv, OnRegistered
    PROVE  DutyInv' /\ MessagesInv' /\ PendingInv' /\ InterruptsReach'
<1> USE DEF IndInv
<1>1. PICK reg : reg = Head(toClient).reg
  OBVIOUS
<1>2. /\ toClient # << >> /\ toClient' = Tail(toClient) /\ Head(toClient).type = "registered"
      /\ registry' = With(registry, reg, Head(toClient).id)
      /\ UNCHANGED << state, pendingInvocations, posted, deferred, yields, thrown, toRouter, router,
                      session, answers, faults >>
  BY <1>1 DEF OnRegistered, slots, history
<1>3. /\ InvocationsInv' /\ InterruptsInv' /\ QuietInv'
      /\ \A id : (Invited(id)' <=> Invited(id)) /\ (Interrupting(id)' <=> Interrupting(id))
  BY <1>2, Taken
<1>4. RegisteredInv'
  BY <1>2, TakenRegistered
<1>5. /\ DOMAIN registry' = DOMAIN registry \cup {reg}
      /\ 1 \in DOMAIN toClient /\ toClient[1] = Head(toClient)
  <2>1. DOMAIN registry' = DOMAIN registry \cup {reg}
    BY <1>2, WithFacts
  <2>2. 1 \in DOMAIN toClient /\ toClient[1] = Head(toClient)
    BY <1>2, TailFacts DEF TypeOK
  <2>3. QED
    BY <2>1, <2>2
<1>6. /\ reg <= router.lastReg
      /\ \A id \in DOMAIN pendingInvocations : pendingInvocations[id] # reg
      /\ \A id \in DOMAIN router.invoked : router.invoked[id] = reg => Invited(id)
  BY <1>1, <1>2, <1>5 DEF MessagesInv, RegisteredInv, OfType, Invited
<1>7. RegsInv'
  BY <1>2, <1>5, <1>6 DEF MessagesInv, RegsInv
<1>8. QueuedOnce' /\ AnsweredOnce' /\ \A s \in SlotType : NotMoved(s)
  BY <1>2, SameDuties
<1>9. DutyInv'
  BY <1>2, <1>3, <1>8, DutyKept
<1>10. (Clean' => Clean) /\ InterruptsReach'
  BY <1>2, CleanKept
<1>11. PendingInv'
  <2> SUFFICES ASSUME state = "established", Clean, NoneTooMany, NoneMissing
               PROVE  NoneTooMany' /\ NoneMissing'
    BY <1>2, <1>10 DEF PendingInv
  <2>1. \A id : Answered(Own(id))' <=> Answered(Own(id))
    BY <1>2, SameAnswers
  <2>2. NoneTooMany'
    BY <1>2, <1>3, <1>5, <1>6, <2>1 DEF NoneTooMany
  <2>3. NoneMissing'
    BY <1>2, <1>3, <1>5, <1>6, <2>1 DEF NoneMissing
  <2>4. QED
    BY <2>2, <2>3
<1>12. QED
  BY <1>3, <1>4, <1>7, <1>9, <1>10, <1>11 DEF MessagesInv

\* A slot begins with the message that brings it, and no other does.
LEMMA DutyBegins ==
    ASSUME TypeOK, DutyInv, MessagesInv, toClient # << >>, toClient' = Tail(toClient),
           NEW q \in SlotType, q.request.session = session, AtOnePlace(q)', QueuedOnce', AnsweredOnce',
           Brought(q)', \A s \in SlotType : s # q => NotMoved(s),
           UNCHANGED << state, session, router >>
    PROVE  DutyInv'
<1>1. Exclusive'
  <2> SUFFICES ASSUME NEW s \in SlotType, s # q PROVE AtOnePlace(s)'
    BY DEF Exclusive
  <2>1. AtOnePlace(s) /\ NotMoved(s)
    BY DEF DutyInv, Exclusive
  <2>2. QED
    BY <2>1 DEF AtOnePlace, NotMoved
<1>2. \A id : (Invited(id)' => Invited(id)) /\ (Interrupting(id)' => Interrupting(id))
  BY Taken
<1>3. BegunInv'
  <2> SUFFICES ASSUME NEW s \in SlotType, Begun(s)'
               PROVE  /\ s.request.session <= session'
                      /\ s.request.session = session' /\ state' \in {"established", "shuttingDown"}
                            => Brought(s)'
    BY DEF BegunInv
  <2>1. CASE s = q
    <3>1. session \in Nat /\ session <= session
      BY DEF TypeOK
    <3>2. QED
      BY <2>1, <3>1
  <2>2. CASE s # q
    <3>1. Begun(s)
      BY <2>2 DEF NotMoved
    <3>2. QED
      BY <1>2, <3>1 DEF DutyInv, BegunInv, Brought
  <2>3. QED
    BY <2>1, <2>2
<1>4. QED
  BY <1>1, <1>3 DEF DutyInv

\* INVOCATION preserves the invariant.
LEMMA StepOnInvocation ==
    ASSUME IndInv, OnInvocation
    PROVE  DutyInv' /\ MessagesInv' /\ PendingInv' /\ InterruptsReach'
<1> USE DEF IndInv
<1>1. /\ toClient # << >> /\ toClient' = Tail(toClient) /\ Head(toClient).type = "invocation"
      /\ UNCHANGED << state, registry, deferred, yields, thrown, router, session >>
  BY DEF OnInvocation
<1>2. Head(toClient).id \in Nat /\ Head(toClient).reg \in Nat
  BY <1>1, TailFacts, ClientFields DEF TypeOK
<1>3. PICK id \in Nat, reg \in Nat : id = Head(toClient).id /\ reg = Head(toClient).reg
  BY <1>2
<1>4. PICK q \in SlotType :
         q = Slot("call", Own(id)) /\ q.kind = "call" /\ q.request = Own(id)
  <2>1. Own(id) \in Reqs
    BY RequestFields DEF Own, TypeOK
  <2>2. QED
    BY <2>1, SlotFields
<1>5. /\ InvocationsInv' /\ InterruptsInv' /\ QuietInv'
      /\ \A k : Invited(k)' => Invited(k)
      /\ \A k : Invited(k) => Invited(k)' \/ k = id
      /\ \A k : Interrupting(k)' <=> Interrupting(k)
      /\ Invited(id) /\ ~Invited(id)' /\ id \in DOMAIN router.invoked /\ reg = router.invoked[id]
  BY <1>1, <1>3, Taken
<1>6. state \in {"established", "shuttingDown"}
  BY <1>1 DEF MessagesInv, QuietInv
<1>7. /\ q.request.session = session /\ q.request.id = id
      /\ \A s \in SlotType : s.request = Own(id) => ~Begun(s)
  <2>1. Own(id).session = session /\ Own(id).id = id
    BY RequestFields DEF Own
  <2>2. QED
    BY <1>4, <1>5, <1>6, <2>1 DEF DutyInv, BegunInv, Brought
<1>8. \A k : Own(k)' = Own(k) /\ (Own(k) = Own(id) => k = id)
  BY <1>1 DEF Own, Request
<1>9. \/ /\ state = "established" /\ reg \in DOMAIN registry /\ Invokes(id, reg)
      \/ /\ state = "established" /\ reg \notin DOMAIN registry /\ Refuses(id, reg)
      \/ /\ state = "shuttingDown"
         /\ UNCHANGED << pendingInvocations, posted, toRouter, answers, faults >>
  BY <1>3 DEF OnInvocation
<1>10. Brought(q)'
  BY <1>1, <1>4, <1>5, <1>7 DEF Brought
<1>11. /\ QueuedOnce'
       /\ \A s : (Queued(s)' <=> Queued(s)) /\ (Waits(s)' <=> Waits(s)) /\ (Thrown(s)' <=> Thrown(s))
  BY <1>1, SameDuties
\* Nobody has answered it.
<1>16. ~Answered(Own(id)) /\ ~Called(q) /\ q \notin deferred /\ ~Queued(q) /\ ~Thrown(q) /\ ~Settled(q)
  <2>1. ~Answered(Own(id))
    <3> SUFFICES ASSUME NEW x \in answers, x.slot.request = Own(id), x.to = Own(id) PROVE FALSE
      BY DEF Answered
    <3>1. x.slot \in SlotType
      BY DEF TypeOK, SentType
    <3>2. Begun(x.slot)
      BY DEF Begun, HasSent
    <3>3. QED
      BY <1>7, <3>1, <3>2
  <2>2. ~Queued(q) /\ ~Called(q) /\ q \notin deferred /\ ~Thrown(q)
    BY <1>4, <1>7 DEF Begun, Queued, Waits
  <2>3. ~Settled(q)
    <3> DEFINE e == [slot |-> q, to |-> q.request, last |-> TRUE]
    <3>1. e.slot = q /\ e.to = q.request
      OBVIOUS
    <3> HIDE DEF e
    <3>2. e \notin answers
      BY <1>4, <1>7, <3>1 DEF Begun, HasSent
    <3>3. QED
      BY <3>2 DEF Settled, e
  <2>4. QED
    BY <2>1, <2>2, <2>3
<1>12. CASE reg \in DOMAIN registry /\ Invokes(id, reg)
  <2>1. /\ pendingInvocations' = With(pendingInvocations, id, reg)
        /\ posted' = posted \cup {q}
        /\ UNCHANGED << toRouter, answers, faults >>
    BY <1>4, <1>12 DEF Invokes, Own
  <2>2. \A s : Called(s)' => Called(s) \/ s = q
    BY <2>1 DEF Called
  <2>3. AnsweredOnce' /\ \A s : (Settled(s)' <=> Settled(s)) /\ (HasSent(s)' <=> HasSent(s))
    BY <2>1, SameDuties
  <2>4. DutyInv'
    <3>1. \A s \in SlotType : s # q => NotMoved(s)
      BY <1>1, <1>11, <2>2, <2>3 DEF NotMoved, Begun
    <3>2. AtOnePlace(q)'
      BY <1>1, <1>11, <1>16, <2>3 DEF AtOnePlace
    <3>3. QED
      BY <1>1, <1>7, <1>10, <1>11, <2>3, <3>1, <3>2, DutyBegins
  <2>5. /\ DOMAIN pendingInvocations' = DOMAIN pendingInvocations \cup {id}
        /\ pendingInvocations'[id] = reg
        /\ \A k \in DOMAIN pendingInvocations :
              k # id => pendingInvocations'[k] = pendingInvocations[k]
    <3> DEFINE f == With(pendingInvocations, id, reg)
    <3>1. /\ DOMAIN f = DOMAIN pendingInvocations \cup {id}
          /\ f[id] = reg
          /\ \A k \in DOMAIN pendingInvocations : k # id => f[k] = pendingInvocations[k]
      BY DEF With
    <3> HIDE DEF f
    <3>2. pendingInvocations' = f
      BY <2>1 DEF f
    <3>3. QED
      BY <3>1, <3>2
  <2>6. RegisteredInv'
    BY <1>1, <1>3, <1>5, <2>5, TakenRegistered
  <2>7. RegsInv'
    BY <1>1, <1>5, <2>5 DEF MessagesInv, RegsInv
  <2>8. (Clean' => Clean) /\ InterruptsReach'
    BY <2>1, CleanKept
  <2>9. PendingInv'
    <3> SUFFICES ASSUME state = "established", Clean, NoneTooMany, NoneMissing
                 PROVE  NoneTooMany' /\ NoneMissing'
      BY <1>1, <2>8 DEF PendingInv
    <3>1. \A k : Answered(Own(k))' <=> Answered(Own(k))
      BY <1>1, <2>1, SameAnswers
    <3>3. NoneTooMany'
      BY <1>1, <1>5, <1>16, <2>5, <3>1 DEF NoneTooMany
    <3>4. NoneMissing'
      BY <1>1, <1>5, <2>5, <3>1 DEF NoneMissing
    <3>5. QED
      BY <3>3, <3>4
  <2>10. QED
    BY <1>5, <2>4, <2>6, <2>7, <2>8, <2>9 DEF MessagesInv
<1>13. CASE reg \notin DOMAIN registry /\ Refuses(id, reg)
  <2>1. /\ UNCHANGED << pendingInvocations, posted >>
        /\ Answers(q, id, TRUE)
    BY <1>4, <1>13 DEF Refuses, NoSuchProcedure, Own
  <2>12. PICK e : e = [slot |-> q, to |-> Own(id), last |-> TRUE] /\ e.slot = q /\ e.to = Own(id)
    <3>1. /\ [slot |-> q, to |-> Own(id), last |-> TRUE].slot = q
          /\ [slot |-> q, to |-> Own(id), last |-> TRUE].to = Own(id)
      OBVIOUS
    <3>2. QED
      BY <3>1
  <2>2. /\ answers' = answers \cup {e}
        /\ faults \subseteq faults' /\ faults' \subseteq faults \cup {"answered twice", "answered another"}
        /\ "answered twice" \in faults' => "answered twice" \in faults \/ Settled(q)
    BY <1>4, <2>1, <2>12, AnswersFacts
  <2>3. AnsweredOnce'
    BY <1>16, <2>2 DEF DutyInv, AnsweredOnce
  <2>4. \A s : s # q => (Settled(s)' => Settled(s)) /\ (HasSent(s)' => HasSent(s))
    <3>1. \A s : s # q => [slot |-> s, to |-> s.request, last |-> TRUE] # e
      BY <2>12
    <3>2. QED
      BY <2>12, <2>2, <3>1 DEF Settled, HasSent
  <2>5. \A s : Called(s)' <=> Called(s)
    BY <2>1, SameDuties
  <2>6. DutyInv'
    <3>1. \A s \in SlotType : s # q => NotMoved(s)
      BY <1>1, <1>11, <2>4, <2>5 DEF NotMoved, Begun
    <3>2. AtOnePlace(q)'
      BY <1>1, <1>11, <1>16, <2>5 DEF AtOnePlace
    <3>3. QED
      BY <1>1, <1>7, <1>10, <1>11, <2>3, <3>1, <3>2, DutyBegins
  <2>7. RegisteredInv'
    BY <1>1, <2>1, TakenRegistered
  <2>8. RegsInv'
    BY <1>1, <2>1 DEF MessagesInv, RegsInv
  <2>9. (Clean' => Clean) /\ InterruptsReach'
    BY <2>2, CleanKept
  <2>10. PendingInv'
    <3> SUFFICES ASSUME state = "established", Clean, NoneTooMany, NoneMissing
                 PROVE  NoneTooMany' /\ NoneMissing'
      BY <1>1, <2>9 DEF PendingInv
    <3>1. \A k : Answered(Own(k))' <=> Answered(Own(k)) \/ k = id
      BY <1>4, <1>8, <2>2, <2>12 DEF Answered
    <3>2. NoneTooMany'
      BY <1>1, <1>5, <2>1, <3>1 DEF NoneTooMany
    <3>3. NoneMissing'
      BY <1>1, <1>5, <2>1, <3>1 DEF NoneMissing
    <3>4. QED
      BY <3>2, <3>3
  <2>11. QED
    BY <1>5, <2>6, <2>7, <2>8, <2>9, <2>10 DEF MessagesInv
<1>14. CASE state = "shuttingDown" /\ UNCHANGED << pendingInvocations, posted, answers, faults >>
  <2>1. QueuedOnce' /\ AnsweredOnce' /\ \A s \in SlotType : NotMoved(s)
    BY <1>1, <1>14, SameDuties
  <2>2. DutyInv'
    BY <1>1, <1>5, <2>1, DutyKept
  <2>3. RegisteredInv'
    BY <1>1, <1>14, TakenRegistered
  <2>4. RegsInv'
    BY <1>1, <1>14 DEF MessagesInv, RegsInv
  <2>5. InterruptsReach' /\ PendingInv'
    BY <1>1, <1>14, CleanKept DEF PendingInv
  <2>6. QED
    BY <1>5, <2>2, <2>3, <2>4, <2>5 DEF MessagesInv
<1>15. QED
  BY <1>9, <1>12, <1>13, <1>14

\* INTERRUPT preserves the invariant.
LEMMA StepOnInterrupt ==
    ASSUME IndInv, OnInterrupt
    PROVE  DutyInv' /\ MessagesInv' /\ PendingInv' /\ InterruptsReach'
<1> USE DEF IndInv
<1>1. /\ toClient # << >> /\ toClient' = Tail(toClient) /\ Head(toClient).type = "interrupt"
      /\ UNCHANGED << state, registry, deferred, yields, thrown, router, session, answers >>
  BY DEF OnInterrupt
<1>2. PICK id : id = Head(toClient).id
  OBVIOUS
<1>3. /\ pendingInvocations' = IF state = "established" THEN Without(pendingInvocations, id)
                               ELSE pendingInvocations
      /\ posted' \subseteq posted \cup {Slot("interrupt", Request(session, id))}
      /\ faults \subseteq faults' /\ faults' \subseteq faults \cup {"stray interrupt"}
      /\ (Interrupts(id) <=> Interruptible(id)) => faults' = faults
  <2>1. /\ posted' = posted \cup
              (IF Interrupts(id) THEN {Slot("interrupt", Request(session, id))} ELSE {})
        /\ faults' = faults \cup
              (IF Interrupts(id) # Interruptible(id) THEN {"stray interrupt"} ELSE {})
        /\ pendingInvocations' = IF state = "established" THEN Without(pendingInvocations, id)
                                 ELSE pendingInvocations
    BY <1>2 DEF OnInterrupt
  <2>2. Interrupts(id) \in BOOLEAN /\ Interruptible(id) \in BOOLEAN
    BY DEF Interrupts, Interruptible, TypeOK
  <2>3. QED
    BY <2>1, <2>2
<1>4. /\ InvocationsInv' /\ InterruptsInv' /\ QuietInv'
      /\ \A k : Invited(k)' <=> Invited(k)
      /\ \A k : Interrupting(k)' => Interrupting(k)
      /\ \A k : Interrupting(k) => Interrupting(k)' \/ k = id
      /\ ~Interrupting(id)' /\ Interrupting(id) /\ ~Invited(id)
      /\ id \in DOMAIN router.invoked /\ id \in router.interrupted
  BY <1>1, <1>2, Taken
<1>5. \A k \in DOMAIN pendingInvocations' :
         k \in DOMAIN pendingInvocations /\ pendingInvocations'[k] = pendingInvocations[k]
  <2>1. CASE state = "established"
    <3>1. pendingInvocations' = Without(pendingInvocations, id)
      BY <1>3, <2>1
    <3>2. QED
      BY <3>1 DEF Without
  <2>2. CASE state # "established"
    BY <1>3, <2>2
  <2>3. QED
    BY <2>1, <2>2
<1>6. RegisteredInv'
  BY <1>1, <1>5, TakenRegistered
<1>7. RegsInv'
  BY <1>1, <1>5 DEF MessagesInv, RegsInv
<1>8. DutyInv'
  <2>0. id \in Nat
    BY <1>1, <1>2, TailFacts, ClientFields DEF TypeOK
  <2>1. PICK q \in SlotType : /\ q = Slot("interrupt", Request(session, id)) /\ q.kind = "interrupt"
                              /\ q.request.session = session /\ q.request.id = id
    <3>1. Request(session, id) \in Reqs
      BY <2>0, RequestFields DEF TypeOK
    <3>2. QED
      BY <3>1, SlotFields, RequestFields
  <2>2. /\ QueuedOnce'
        /\ \A s : (Queued(s)' <=> Queued(s)) /\ (Waits(s)' <=> Waits(s)) /\ (Thrown(s)' <=> Thrown(s))
        /\ \A s : (Settled(s)' <=> Settled(s)) /\ (HasSent(s)' <=> HasSent(s))
    BY <1>1, SameDuties
  <2>3. AnsweredOnce'
    BY <1>3 DEF DutyInv, AnsweredOnce
  <2>4. \A s \in SlotType : s # q => NotMoved(s)
    BY <1>1, <1>3, <2>1, <2>2 DEF NotMoved, Begun, Called
  <2>5. Brought(q)'
    BY <1>1, <1>4, <2>1 DEF Brought
  <2>6. AtOnePlace(q)'
    <3>1. state \in {"established", "shuttingDown"}
      BY <1>1 DEF MessagesInv, QuietInv
    <3>2. ~Begun(q)
      BY <1>4, <2>1, <3>1 DEF DutyInv, BegunInv, Brought
    <3>3. ~Queued(q)
      BY <3>2 DEF Begun, Queued, Waits
    <3>4. ~Settled(q)
      <4> DEFINE e == [slot |-> q, to |-> q.request, last |-> TRUE]
      <4>1. e.slot = q /\ e.to = q.request
        OBVIOUS
      <4> HIDE DEF e
      <4>2. e \notin answers
        BY <3>2, <4>1 DEF Begun, HasSent
      <4>3. QED
        BY <4>2 DEF Settled, e
    <3>5. QED
      BY <1>1, <2>2, <3>2, <3>3, <3>4 DEF AtOnePlace, Begun
  <2>7. QED
    BY <1>1, <2>1, <2>2, <2>3, <2>4, <2>5, <2>6, DutyBegins
<1>9. Clean' => Clean
  BY <1>1, <1>3 DEF Clean, StaleAnswer
<1>10. \A k : Answered(Own(k))' <=> Answered(Own(k))
  BY <1>1, SameAnswers
<1>11. PendingInv'
  <2> SUFFICES ASSUME state = "established", Clean, NoneTooMany, NoneMissing
               PROVE  NoneTooMany' /\ NoneMissing'
    BY <1>1, <1>9 DEF PendingInv
  <2>1. NoneTooMany'
    BY <1>1, <1>4, <1>5, <1>10 DEF NoneTooMany
  <2>2. DOMAIN pendingInvocations' = DOMAIN pendingInvocations \ {id}
    BY <1>3, WithoutFacts
  <2>3. NoneMissing'
    BY <1>1, <1>4, <1>5, <1>10, <2>2 DEF NoneMissing
  <2>4. QED
    BY <2>1, <2>3
<1>12. InterruptsReach'
  <2>1. CASE ~(state = "established" /\ Clean)
    <3>1. CASE ~Clean
      BY <1>9, <3>1 DEF InterruptsReach, Clean
    <3>2. CASE state # "established"
      <4>1. faults' = faults
        BY <1>3, <3>2 DEF Interrupts, Interruptible
      <4>2. QED
        BY <1>1, <4>1, CleanKept
    <3>3. QED
      BY <2>1, <3>1, <3>2
  <2>2. CASE state = "established" /\ Clean
    <3>1. NoneTooMany /\ NoneMissing
      BY <2>2 DEF PendingInv
    <3>2. Answered(Own(id)) <=> Answered(Request(session, id))
      BY DEF Own
    <3>3. Interrupts(id) => Interruptible(id)
      BY <3>1, <3>2 DEF NoneTooMany, Interrupts, Interruptible
    <3>4. Interruptible(id) => Interrupts(id)
      BY <1>4, <3>1, <3>2 DEF NoneMissing, Interrupts, Interruptible
    <3>5. faults' = faults
      BY <1>3, <3>3, <3>4
    <3>6. QED
      BY <1>1, <3>5, CleanKept
  <2>3. QED
    BY <2>1, <2>2
<1>13. QED
  BY <1>4, <1>6, <1>7, <1>8, <1>11, <1>12 DEF MessagesInv

\* A new session preserves the invariant.
LEMMA StepJoin ==
    ASSUME IndInv, join
    PROVE  DutyInv' /\ MessagesInv' /\ PendingInv' /\ InterruptsReach'
<1> USE DEF IndInv
<1>1. /\ state \in {"closed", "disconnected"} /\ state' = "established"
      /\ session' = session + 1 /\ session \in Nat
      /\ faults \subseteq faults' /\ faults' \subseteq faults \cup {"entries kept"}
      /\ EntriesKept => "entries kept" \in faults'
      /\ UNCHANGED << registry, pendingInvocations, posted, deferred, yields, thrown, toRouter,
                      toClient, router, answers >>
  BY DEF join, slots, channels, TypeOK
<1>2. toClient = << >> /\ router.invoked = << >> /\ DOMAIN << >> = {}
  <2>1. state \notin {"established", "shuttingDown"}
    BY <1>1
  <2>2. toClient = << >> /\ router.invoked = << >>
    BY <2>1 DEF MessagesInv, QuietInv
  <2>3. DOMAIN << >> = {}
    OBVIOUS
  <2>4. QED
    BY <2>2, <2>3
<1>3. MessagesInv'
  <2>1. RegsInv' /\ QuietInv'
    BY <1>1 DEF MessagesInv, RegsInv, QuietInv
  <2>2. InvocationsInv' /\ InterruptsInv' /\ RegisteredInv'
    BY <1>1, <1>2 DEF InvocationsInv, InterruptsInv, RegisteredInv
  <2>3. QED
    BY <2>1, <2>2 DEF MessagesInv
<1>4. DutyInv'
  <2>1. QueuedOnce' /\ \A s \in SlotType : NotMoved(s)
    BY <1>1, SameDuties
  <2>2. AnsweredOnce'
    BY <1>1 DEF DutyInv, AnsweredOnce
  <2>3. Exclusive'
    BY <2>1 DEF DutyInv, Exclusive, AtOnePlace, NotMoved
  <2>4. BegunInv'
    <3> SUFFICES ASSUME NEW s \in SlotType, Begun(s)'
                 PROVE  s.request.session <= session' /\ s.request.session # session'
      BY DEF BegunInv
    <3>1. Begun(s)
      BY <2>1 DEF NotMoved
    <3>2. s.request.session <= session /\ s.request.session \in Nat
      BY <3>1 DEF DutyInv, BegunInv, SlotType, Reqs
    <3>3. session' = session + 1 /\ session \in Nat
      BY <1>1
    <3>4. QED
      BY <3>2, <3>3
  <2>5. QED
    BY <2>1, <2>2, <2>3, <2>4 DEF DutyInv
<1>5. (Clean' => Clean) /\ InterruptsReach'
  BY <1>1, CleanKept
<1>6. PendingInv'
  <2> SUFFICES ASSUME Clean' PROVE NoneTooMany' /\ NoneMissing'
    BY DEF PendingInv
  <2>1. ~EntriesKept
    BY <1>1 DEF Clean
  <2>2. NoneTooMany'
    BY <1>1, <2>1 DEF NoneTooMany, EntriesKept
  <2>3. NoneMissing'
    BY <1>1, <1>2 DEF NoneMissing
  <2>4. QED
    BY <2>2, <2>3
<1>7. QED
  BY <1>3, <1>4, <1>5, <1>6

\* The session ends, by either side or with the connection.
LEMMA StepEnding ==
    ASSUME IndInv, OnGoodbyeReply \/ SessionEnds \/ disconnect
    PROVE  DutyInv' /\ MessagesInv' /\ PendingInv' /\ InterruptsReach'
<1> USE DEF IndInv
<1>1. /\ state' \in {"closed", "failed", "disconnected"} /\ RouterForgets
      /\ registry' = registry \/ registry' = << >>
      /\ pendingInvocations' = pendingInvocations \/ pendingInvocations' = << >>
      /\ UNCHANGED << posted, deferred, yields, thrown, session, answers, faults >>
  BY DEF OnGoodbyeReply, SessionEnds, disconnect, slots, history
<1>2. DOMAIN << >> = {}
  OBVIOUS
<1>3. MessagesInv'
  BY <1>1, <1>2, MessagesForgotten
<1>4. QueuedOnce' /\ AnsweredOnce' /\ \A s \in SlotType : NotMoved(s)
  BY <1>1, SameDuties
<1>5. DutyInv'
  BY <1>1, <1>4, DutyKept
<1>6. QED
  BY <1>1, <1>3, <1>5, CleanKept DEF PendingInv

\* Steps on which neither slots, nor answers, nor what is pending depend.
LEMMA StepAside ==
    ASSUME IndInv,
           \/ \E interruptible \in BOOLEAN : enroll(interruptible)
           \/ \E reg \in 1 .. MaxEnrolments : unregister(reg)
           \/ leave \/ RouterUnregisters \/ RouterGetsAnswer \/ UNCHANGED vars
    PROVE  DutyInv' /\ MessagesInv' /\ PendingInv' /\ InterruptsReach'
<1> USE DEF IndInv
<1>1. /\ UNCHANGED << posted, deferred, yields, thrown, session, answers, faults,
                      pendingInvocations, toClient >>
      /\ DOMAIN registry' \subseteq DOMAIN registry
  <2>1. /\ UNCHANGED << posted, deferred, yields, thrown, session, answers, faults,
                        pendingInvocations, toClient >>
        /\ registry' = registry \/ \E reg : registry' = Without(registry, reg)
    BY DEF enroll, unregister, leave, RouterUnregisters, RouterGetsAnswer, vars, client, slots,
       channels, history
  <2>2. QED
    BY <2>1 DEF Without
<1>2. /\ router'.lastReg = router.lastReg /\ router'.invoked = router.invoked
      /\ router'.interrupted = router.interrupted
      /\ router'.registered \subseteq router.registered
  BY DEF enroll, unregister, leave, RouterUnregisters, RouterGetsAnswer, vars, TypeOK, RouterType
<1>3. /\ state' = state \/ (state = "established" /\ state' = "shuttingDown")
      /\ toRouter' # << >> => toRouter # << >> \/ state = "established"
  <2>1. CASE RouterUnregisters \/ RouterGetsAnswer
    BY <2>1 DEF RouterUnregisters, RouterGetsAnswer, client
  <2>2. CASE \/ \E interruptible \in BOOLEAN : enroll(interruptible)
             \/ leave
    BY <2>2 DEF enroll, leave, client
  <2>3. CASE \E reg \in 1 .. MaxEnrolments : unregister(reg)
    BY <2>3 DEF unregister
  <2>4. CASE UNCHANGED vars
    BY <2>4 DEF vars, client, channels
  <2>5. QED
    BY <2>1, <2>2, <2>3, <2>4
<1>4. MessagesInv' /\ \A id : (Invited(id)' <=> Invited(id)) /\ (Interrupting(id)' <=> Interrupting(id))
  <2>1. CASE state' = state
    BY <1>1, <1>2, <1>3, <2>1, MessagesKept
  <2>2. CASE state' # state
    <3>1. RegsInv' /\ InvocationsInv' /\ InterruptsInv'
      BY <1>1, <1>2 DEF MessagesInv, RegsInv, InvocationsInv, InterruptsInv, OfType
    <3>2. RegisteredInv' /\ QuietInv'
      BY <1>1, <1>2, <1>3, <2>2 DEF MessagesInv, RegisteredInv, OfType, QuietInv
    <3>3. \A id : (Invited(id)' <=> Invited(id)) /\ (Interrupting(id)' <=> Interrupting(id))
      BY <1>1 DEF Invited, Interrupting, OfType
    <3>4. QED
      BY <3>1, <3>2, <3>3 DEF MessagesInv
  <2>3. QED
    BY <2>1, <2>2
<1>5. QueuedOnce' /\ AnsweredOnce' /\ \A s \in SlotType : NotMoved(s)
  BY <1>1, SameDuties
<1>6. DutyInv'
  BY <1>1, <1>2, <1>3, <1>4, <1>5, DutyKept
<1>7. (Clean' => Clean) /\ InterruptsReach'
  BY <1>1, CleanKept
<1>8. \A r : Answered(r)' <=> Answered(r)
  BY <1>1, SameAnswers
<1>9. PendingInv'
  BY <1>1, <1>2, <1>3, <1>4, <1>7, <1>8, PendingKept
<1>10. QED
  BY <1>4, <1>6, <1>7, <1>9

\* The dealer registers, invokes and interrupts.
LEMMA StepDealer ==
    ASSUME IndInv,
           \/ RouterRegisters
           \/ \E reg \in 1 .. MaxEnrolments : RouterInvokes(reg)
           \/ \E id \in RequestIds : RouterInterrupts(id)
    PROVE  DutyInv' /\ MessagesInv' /\ PendingInv' /\ InterruptsReach'
<1> USE DEF IndInv
<1>1. UNCHANGED << state, registry, pendingInvocations, posted, deferred, yields, thrown, session,
                   answers, faults >>
  BY DEF RouterRegisters, RouterInvokes, RouterInterrupts, client, slots, history
<1>2. QueuedOnce' /\ AnsweredOnce' /\ \A s \in SlotType : NotMoved(s)
  BY <1>1, SameDuties
<1>3. (Clean' => Clean) /\ InterruptsReach'
  BY <1>1, CleanKept
<1>4. \A id : Answered(Own(id))' <=> Answered(Own(id))
  BY <1>1, SameAnswers
<1>5. CASE RouterRegisters
  <2>1. /\ MessagesInv'
        /\ \A id : Invited(id)' <=> Invited(id)
        /\ \A id : Interrupting(id)' <=> Interrupting(id)
        /\ router'.invoked = router.invoked /\ router'.interrupted = router.interrupted
    BY <1>5, MessagesRegisters
  <2>2. DutyInv'
    BY <1>1, <1>2, <2>1, DutyKept
  <2>3. PendingInv'
    BY <1>1, <1>3, <1>4, <2>1 DEF PendingInv, NoneTooMany, NoneMissing
  <2>4. QED
    BY <1>3, <2>1, <2>2, <2>3
<1>6. CASE \E reg \in 1 .. MaxEnrolments : RouterInvokes(reg)
  <2>1. PICK reg \in Nat : RouterInvokes(reg)
    BY <1>6
  <2>2. /\ MessagesInv'
        /\ \A id \in DOMAIN router.invoked :
              id \in DOMAIN router'.invoked /\ router'.invoked[id] = router.invoked[id]
        /\ \A id \in DOMAIN router.invoked : Invited(id)' <=> Invited(id)
        /\ \A id \in DOMAIN router'.invoked : id \in DOMAIN router.invoked \/ Invited(id)'
        /\ \A id : Interrupting(id)' <=> Interrupting(id)
        /\ router'.interrupted = router.interrupted
    BY <2>1, MessagesInvokes
  <2>3. DutyInv'
    BY <1>1, <1>2, <2>2, DutyKept
  <2>4. PendingInv'
    BY <1>1, <1>3, <1>4, <2>2 DEF PendingInv, NoneTooMany, NoneMissing
  <2>5. QED
    BY <1>3, <2>2, <2>3, <2>4
<1>7. CASE \E id \in RequestIds : RouterInterrupts(id)
  <2>1. PICK new \in RequestIds : RouterInterrupts(new)
    BY <1>7
  <2>2. new \in Nat
    BY CalleeAssumption DEF RequestIds
  <2>3. /\ MessagesInv'
        /\ \A id : Invited(id)' <=> Invited(id)
        /\ \A id : Interrupting(id)' <=> Interrupting(id) \/ id = new
        /\ router'.invoked = router.invoked
        /\ router'.interrupted = router.interrupted \cup {new}
        /\ new \in DOMAIN router.invoked /\ new \notin router.interrupted
    BY <2>1, <2>2, MessagesInterrupts
  <2>4. DutyInv'
    BY <1>1, <1>2, <2>3, DutyKept
  <2>5. PendingInv'
    BY <1>1, <1>3, <1>4, <2>3 DEF PendingInv, NoneTooMany, NoneMissing
  <2>6. QED
    BY <1>3, <2>3, <2>4, <2>5
<1>8. QED
  BY <1>5, <1>6, <1>7

\* Slots run, and the user answers.
LEMMA StepSlots ==
    ASSUME IndInv, NEW s \in Slots, RunSlot(s) \/ DeferredAnswer(s) \/ DeferredProgress(s)
    PROVE  DutyInv' /\ MessagesInv' /\ PendingInv' /\ InterruptsReach'
<1> USE DEF IndInv
<1>1. s \in SlotType
  BY ServedSlots
<1>2. DutyInv'
  BY <1>1, DutySlot, DutyUser
<1>3. UNCHANGED << state, registry, pendingInvocations, toRouter, toClient, router, session, answers,
                   faults >>
  BY DEF RunSlot, SlotDefers, SlotReturns, SlotThrows, DeferredAnswer, DeferredProgress, client,
     channels, history
<1>4. MessagesInv' /\ \A id : (Invited(id)' <=> Invited(id)) /\ (Interrupting(id)' <=> Interrupting(id))
  BY <1>3, MessagesKept
<1>5. (Clean' => Clean) /\ InterruptsReach'
  BY <1>3, CleanKept
<1>6. \A r : Answered(r)' <=> Answered(r)
  BY <1>3, SameAnswers
<1>7. PendingInv'
  BY <1>3, <1>4, <1>5, <1>6, PendingKept
<1>8. QED
  BY <1>2, <1>4, <1>5, <1>7

\* yield() runs on the strand, or where an exception was caught.
LEMMA StepYield ==
    ASSUME IndInv, RunYield \/ \E a \in thrown : ThrownYield(a)
    PROVE  DutyInv' /\ MessagesInv' /\ PendingInv' /\ InterruptsReach'
<1> USE DEF IndInv
<1>1. DutyInv'
  BY DutyRunYield, DutyThrownYield
<1>2. UNCHANGED << state, registry, toClient, router, session >>
  BY DEF RunYield, ThrownYield
<1>3. PICK a \in AnswerType :
         \/ state = "established" /\ Send(a)
         \/ /\ state # "established"
            /\ UNCHANGED << toRouter, answers, faults >>
            /\ pendingInvocations' = pendingInvocations
                 \/ pendingInvocations' = Without(pendingInvocations, a.slot.request.id)
  <2>1. CASE RunYield
    <3>1. Head(yields) \in AnswerType
      BY <2>1, TailFacts DEF RunYield, TypeOK
    <3>2. QED
      BY <2>1, <3>1 DEF RunYield
  <2>2. CASE \E a \in thrown : ThrownYield(a)
    <3>1. \A a \in thrown : a \in AnswerType
      BY ThrownFields DEF TypeOK
    <3>2. QED
      BY <2>2, <3>1 DEF ThrownYield, ErasePending
  <2>3. QED
    BY <2>1, <2>2
<1>4. CASE state = "established" /\ Send(a)
  <2>1. /\ \A id \in DOMAIN pendingInvocations' :
              id \in DOMAIN pendingInvocations /\ pendingInvocations'[id] = pendingInvocations[id]
        /\ answers \subseteq answers' /\ faults \subseteq faults'
        /\ faults' \subseteq faults \cup {"answered twice", "answered another"}
    <3>1. CASE UNCHANGED << pendingInvocations, answers, faults >>
      BY <3>1
    <3>2. CASE /\ pendingInvocations' = Without(pendingInvocations, a.slot.request.id)
               /\ Answers(a.slot, a.slot.request.id, Last(a))
      <4>1. \A id \in DOMAIN pendingInvocations' :
               id \in DOMAIN pendingInvocations /\ pendingInvocations'[id] = pendingInvocations[id]
        BY <3>2 DEF Without
      <4>2. QED
        BY <1>4, <3>2, <4>1, SendCases, AnswersFacts
    <3>3. QED
      BY <1>4, <3>1, <3>2, SendCases
  <2>2. MessagesInv'
    BY <1>2, <1>4, <2>1, MessagesKept
  <2>3. (Clean' => Clean) /\ InterruptsReach'
    BY <2>1, CleanKept
  <2>4. PendingInv'
    BY <1>2, <1>4, <2>3, PendingSend
  <2>5. QED
    BY <1>1, <2>2, <2>3, <2>4
<1>5. CASE state # "established"
  <2>1. /\ UNCHANGED << toRouter, answers, faults >>
        /\ pendingInvocations' = pendingInvocations
             \/ pendingInvocations' = Without(pendingInvocations, a.slot.request.id)
    BY <1>3, <1>5
  <2>2. \A id \in DOMAIN pendingInvocations' :
           id \in DOMAIN pendingInvocations /\ pendingInvocations'[id] = pendingInvocations[id]
    BY <2>1 DEF Without
  <2>3. MessagesInv'
    BY <1>2, <2>1, <2>2, MessagesKept
  <2>4. InterruptsReach'
    BY <2>1, CleanKept
  <2>5. QED
    BY <1>1, <1>2, <1>5, <2>3, <2>4 DEF PendingInv
<1>6. QED
  BY <1>3, <1>4, <1>5

-----------------------------------------------------------------------------
(* The theorems *)

\* Every step preserves the invariant.
LEMMA Step == IndInv /\ [Next]_vars => IndInv'
<1> SUFFICES ASSUME IndInv, [Next]_vars PROVE IndInv'
  OBVIOUS
<1>1. TypeOK'
  BY TypeStep DEF IndInv
<1>2. DutyInv' /\ MessagesInv' /\ PendingInv' /\ InterruptsReach'
  BY StepAside, StepOnRegistered, StepOnInvocation, StepOnInterrupt, StepYield, StepEnding, StepJoin,
     StepDealer, StepSlots
  DEF Next, Registering, Received, Ending, Dealer
<1>3. QED
  BY <1>1, <1>2 DEF IndInv

\* The answer of a slot is in one place, and pendingInvocations_ says which
\* invocations may be interrupted, in every reachable state.
THEOREM Invariance == Spec => []IndInv
  BY InitInv, Step, PTL DEF Spec

\* Client::onInvocation, Client::yield and the catch clauses of postRpcRequest
\* between them send no second answer for the call slot of an invocation, nor for
\* its interrupt slot, for any number of invocations, oversized answers, interrupts
\* and sessions.
THEOREM InvocationsAnsweredOnce == Spec => []AnsweredOnce
<1>1. IndInv => AnsweredOnce
  BY DEF IndInv, DutyInv
<1>2. QED
  BY <1>1, Invariance, PTL

\* Client::onInterrupt posts an interrupt slot for each unanswered call of a
\* registered, interruptible procedure and for no other, as long as neither an
\* answer nor a table entry has crossed from an earlier session.
THEOREM InterruptsReachCalls == Spec => []InterruptsReach
<1>1. IndInv => InterruptsReach
  BY DEF IndInv
<1>2. QED
  BY <1>1, Invariance, PTL
=============================================================================
