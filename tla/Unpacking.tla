----------------------------- MODULE Unpacking -----------------------------
(***************************************************************************)
(* Payload's conversion of the arguments of a message, and the wrappers    *)
(* that call a slot with them: EventUnpacker, InvocationUnpacker, their    *)
(* Simple and Coro forms, under the catch clauses of Client::postEvent and *)
(* Client::postRpcRequest that run them.                                   *)
(*                                                                         *)
(* A wrapper is [coro, rpc, simple].  A slot is what it does once it is    *)
(* called: "returns", "fails" (an Outcome that holds an Error), "defers",  *)
(* or throws: "Error", "Conversion" or "Access".  The Simple forms pass    *)
(* the arguments alone, and cannot fail or defer without throwing.         *)
(***************************************************************************)
EXTENDS Values

CONSTANT
    ConvertTo(_, _)   \* Variant::to<T>(), for any T that a slot may ask for

\* What is assumed of it: it succeeds or throws one of the two errors, and is
\* VariantConvertTo for scalars.
Converts(T, v) ==
    /\ ConvertTo(T, v)[1] = "ok" \/ ConvertTo(T, v) \in {Conversion, Access}
    /\ T[1] \in Scalars => ConvertTo(T, v) = ToScalar(T, v)

Wrappers == [coro : BOOLEAN, rpc : BOOLEAN, simple : BOOLEAN]

Slots == {"returns", "fails", "defers", "Error", "Conversion", "Access"}

Possible(wrapper, slot) == wrapper.simple \/ ~wrapper.rpc => slot \notin {"fails", "defers"}

\* error::Conversion and error::Access are error::BadType
BadType == {"Conversion", "Access"}

UserError == "user"                               \* the URI of an Error of the slot
InvalidArgument == "wamp.error.invalid_argument"

-----------------------------------------------------------------------------
(* Payload *)

Least(m, n) == IF m < n THEN m ELSE n

\* unbundleTo, unbundleToTuple: as many arguments as there are targets
convertTo(args, types) ==
    Gather([i \in 1 .. Least(Len(args), Len(types)) |-> ConvertTo(types[i], args[i])], InOrder)

\* unbundleAs: the field itself, if it has the very type asked for
moveTo(args, types) ==
    LET Field(v, T) == IF T[1] \in Scalars /\ T[1] # "narrow" /\ FieldType(T) = v[1]
                         THEN Ok(v[2]) ELSE Access
    IN Gather([i \in 1 .. Least(Len(args), Len(types)) |-> Field(args[i], types[i])], InOrder)

-----------------------------------------------------------------------------
(* What the call of a wrapper comes to: the values that the slot was called *)
(* with, if it was, and what was thrown or returned.                        *)

NotCalled(thrown) == [called |-> FALSE, values |-> << >>, ends |-> thrown, spawned |-> FALSE]
Called(values, slot) == [called |-> TRUE, values |-> values, ends |-> slot, spawned |-> FALSE]

\* Mutant: only the conversions are checked, and an argument less than the
\* slot has parameters is passed as T().
MutTooFew(args, types) == FALSE

TooFew(args, types) == Len(args) < Len(types)

\* A Conversion becomes an UnpackError, which is an Error.
UnpackError(r) == IF r[1] = "Conversion" THEN InvalidArgument ELSE r[1]

\* operator() and invoke() of the wrappers that are not coroutines
Invoked(args, types, slot) ==
    LET r == convertTo(args, types)
    IN CASE TooFew(args, types) -> NotCalled(InvalidArgument)
         [] ~TooFew(args, types) /\ r[1] = "ok" -> Called(r[2], slot)
         [] OTHER -> NotCalled(UnpackError(r))

EventUnpacker(args, types, slot) == Invoked(args, types, slot)
SimpleEventUnpacker(args, types, slot) == Invoked(args, types, slot)
InvocationUnpacker(args, types, slot) == Invoked(args, types, slot)
SimpleInvocationUnpacker(args, types, slot) == Invoked(args, types, slot)

\* The coroutine of an event: BadType is dropped, an Error is nobody's.
EventCoroEnd(ends) == CASE ends \in BadType -> "dropped"
                        [] ends = "Error" -> "escapes"
                        [] OTHER -> "done"

\* The coroutine of a call answers it.
RpcCoroEnd(ends) == CASE ends \in BadType -> InvalidArgument
                      [] ends \in {"Error", "fails"} -> UserError
                      [] ends = "returns" -> "result"
                      [] ends = "defers" -> "deferred"

\* operator() of the others, and of Spawned, where the conversion and the slot
\* are under one try; the end of the coroutine is not seen by who called it
Spawned(args, types, slot, rpc) ==
    LET r == convertTo(args, types)
        call == IF r[1] = "ok" THEN Called(r[2], slot) ELSE NotCalled(r[1])
    IN IF TooFew(args, types) THEN NotCalled(InvalidArgument)
       ELSE [call EXCEPT !.ends = IF rpc THEN RpcCoroEnd(@) ELSE EventCoroEnd(@), !.spawned = TRUE]

CoroEventUnpacker(args, types, slot) == Spawned(args, types, slot, FALSE)
SimpleCoroEventUnpacker(args, types, slot) == Spawned(args, types, slot, FALSE)
CoroInvocationUnpacker(args, types, slot) == Spawned(args, types, slot, TRUE)
SimpleCoroInvocationUnpacker(args, types, slot) == Spawned(args, types, slot, TRUE)

\* Client::postEvent: what a slot throws is logged.
postEvent(ends) == CASE ends \in BadType \cup {"Error", InvalidArgument} -> "warned"
                     [] OTHER -> "done"

\* Client::postRpcRequest: an Error is sent as it is, a BadType as an Error.
postRpcRequest(ends) ==
    CASE ends \in BadType \cup {InvalidArgument} -> InvalidArgument
      [] ends \in {"Error", "fails"} -> UserError
      [] ends = "returns" -> "result"
      [] ends = "defers" -> "deferred"

Unpacked(wrapper, args, types, slot) ==
    CASE wrapper = [coro |-> FALSE, rpc |-> FALSE, simple |-> FALSE] -> EventUnpacker(args, types, slot)
      [] wrapper = [coro |-> FALSE, rpc |-> FALSE, simple |-> TRUE] -> SimpleEventUnpacker(args, types, slot)
      [] wrapper = [coro |-> FALSE, rpc |-> TRUE, simple |-> FALSE] -> InvocationUnpacker(args, types, slot)
      [] wrapper = [coro |-> FALSE, rpc |-> TRUE, simple |-> TRUE] -> SimpleInvocationUnpacker(args, types, slot)
      [] wrapper = [coro |-> TRUE, rpc |-> FALSE, simple |-> FALSE] -> CoroEventUnpacker(args, types, slot)
      [] wrapper = [coro |-> TRUE, rpc |-> FALSE, simple |-> TRUE] -> SimpleCoroEventUnpacker(args, types, slot)
      [] wrapper = [coro |-> TRUE, rpc |-> TRUE, simple |-> FALSE] -> CoroInvocationUnpacker(args, types, slot)
      [] wrapper = [coro |-> TRUE, rpc |-> TRUE, simple |-> TRUE] -> SimpleCoroInvocationUnpacker(args, types, slot)

\* A message with these arguments reaches a slot of these types: what the
\* slot is called with, and what becomes of the message.
Deliver(wrapper, args, types, slot) ==
    LET call == Unpacked(wrapper, args, types, slot)
    IN CASE call.spawned -> call
         [] ~call.spawned /\ wrapper.rpc -> [call EXCEPT !.ends = postRpcRequest(@)]
         [] OTHER -> [call EXCEPT !.ends = postEvent(@)]

-----------------------------------------------------------------------------
\* A message with too few arguments, or with one that does not convert, never
\* reaches a slot and never lets an exception out of the library: a call is
\* answered with wamp.error.invalid_argument and an event is logged or dropped.
\* Other messages reach the slot with what conversion gives, which is what
\* moveTo gives where it applies; and nothing but an Error thrown by the
\* coroutine of an event slot gets out.
BadArgumentsAnswered ==
    input[1] = "arguments" =>
        LET args == input[2]
            types == input[3]
        IN \A values \in {convertTo(args, types)}, moved \in {moveTo(args, types)} :
            /\ moved[1] = "ok" => moved = values
            /\ \A w \in Wrappers, slot \in Slots : Possible(w, slot) =>
                \A d \in {Deliver(w, args, types, slot)} :
                    /\ d.called <=> Len(args) >= Len(types) /\ values[1] = "ok"
                    /\ d.called => d.values = values[2]
                    /\ ~d.called => d.ends \in IF w.rpc THEN {InvalidArgument} ELSE {"warned", "dropped"}
                    /\ d.ends = "escapes" => d.called /\ w.coro /\ ~w.rpc /\ slot = "Error"
=============================================================================
