------------------------------ MODULE Messages ------------------------------
(***************************************************************************)
(* WAMP messages: what WampMessage::parse accepts, the message classes     *)
(* with their accessors, and the peer data types through which users fill  *)
(* in and read options and arguments.                                      *)
(*                                                                         *)
(* A message is a type and a sequence of variants; positions count from 0, *)
(* as in the code.  URIs are numbers, and so are the keys of objects.      *)
(***************************************************************************)
EXTENDS Values, MessageTraits

\* The enumerators of WampMsgType
MsgTypeNumber ==
    [ hello |-> 1, welcome |-> 2, abort |-> 3, challenge |-> 4, authenticate |-> 5, goodbye |-> 6, error |-> 8,
      publish |-> 16, published |-> 17, subscribe |-> 32, subscribed |-> 33, unsubscribe |-> 34,
      unsubscribed |-> 35, event |-> 36, call |-> 48, cancel |-> 49, result |-> 50, enroll |-> 64,
      registered |-> 65, unregister |-> 66, unregistered |-> 67, invocation |-> 68, interrupt |-> 69, yield |-> 70 ]

\* A row of the table: minSize and fieldTypes.  In every row maxSize is the
\* number of types before the nulls.
Row(minSize, fieldTypes) == [minSize |-> minSize, fieldTypes |-> fieldTypes]

Schema ==
    LET i == "integer"
        s == "string"
        a == "array"
        o == "object"
    IN [ hello |-> Row(3, << i, s, o >>), welcome |-> Row(3, << i, i, o >>), abort |-> Row(3, << i, o, s >>),
         challenge |-> Row(3, << i, s, o >>), authenticate |-> Row(3, << i, s, o >>), goodbye |-> Row(3, << i, o, s >>),
         error |-> Row(5, << i, i, i, o, s, a, o >>),
         publish |-> Row(4, << i, i, o, s, a, o >>), published |-> Row(3, << i, i, i >>),
         subscribe |-> Row(4, << i, i, o, s >>), subscribed |-> Row(3, << i, i, i >>),
         unsubscribe |-> Row(3, << i, i, i >>), unsubscribed |-> Row(2, << i, i >>),
         event |-> Row(4, << i, i, i, o, a, o >>),
         call |-> Row(4, << i, i, o, s, a, o >>), cancel |-> Row(3, << i, i, o >>), result |-> Row(3, << i, i, o, a, o >>),
         enroll |-> Row(4, << i, i, o, s >>), registered |-> Row(3, << i, i, i >>),
         unregister |-> Row(3, << i, i, i >>), unregistered |-> Row(2, << i, i >>),
         invocation |-> Row(4, << i, i, i, o, a, o >>), interrupt |-> Row(3, << i, i, o >>),
         yield |-> Row(3, << i, i, o, a, o >>) ]

idPosition(type) == IF type \in hasRequestId THEN 1 ELSE 0

-----------------------------------------------------------------------------
(* WampMessage *)

Integer(n) == << "integer", n >>

\* The type's number is written over whatever the first field was.
WampMessage(type, fields) ==
    [type |-> type, fields |-> [fields EXCEPT ![1] = Integer(MsgTypeNumber[type])]]

setType(m, type) == WampMessage(type, m.fields)

\* Only a type with an ID position has its ID assigned.
setRequestId(m, id) ==
    IF idPosition(m.type) = 0 THEN m ELSE [m EXCEPT !.fields[idPosition(m.type) + 1] = Integer(id)]

parseMsgType(fields) ==
    IF fields = << >> \/ fields[1][1] # "integer" THEN "none"
    ELSE LET types == { t \in DOMAIN MsgTypeNumber : MsgTypeNumber[t] = fields[1][2] }
         IN IF types = {} THEN "none" ELSE CHOOSE t \in types : TRUE

protocolViolation == << "protocolViolation" >>

\* Mutant: a message may leave out its last mandatory field.
MutParse(fields) ==
    LET type == parseMsgType(fields)
    IN IF /\ type # "none"
          /\ Len(fields) \in Schema[type].minSize - 1 .. Len(Schema[type].fieldTypes)
          /\ \A i \in DOMAIN fields : fields[i][1] = Schema[type].fieldTypes[i]
         THEN Ok(WampMessage(type, fields)) ELSE protocolViolation

parse(fields) ==
    LET type == parseMsgType(fields)
    IN IF /\ type # "none"
          /\ Len(fields) \in Schema[type].minSize .. Len(Schema[type].fieldTypes)
          /\ \A i \in DOMAIN fields : fields[i][1] = Schema[type].fieldTypes[i]
         THEN Ok(WampMessage(type, fields)) ELSE protocolViolation

\* fields_.at(i).as<T>(); to<RequestId>() of an integer is no different.
FieldAs(m, i, T) ==
    CASE i >= Len(m.fields) -> << "out_of_range" >>
      [] i < Len(m.fields) /\ m.fields[i + 1][1] # T -> Access
      [] OTHER -> Ok(m.fields[i + 1][2])

\* An ERROR is about the request in its fields, whose type is cut to 8 bits.
requestId(m) ==
    CASE m.type = "error" -> FieldAs(m, 2, "integer")
      [] m.type # "error" /\ idPosition(m.type) = 0 -> Ok(0)
      [] OTHER -> FieldAs(m, idPosition(m.type), "integer")

requestType(m) == FieldAs(m, 1, "integer")[2] % 256

requestKey(m) ==
    << IF m.type = "error" THEN requestType(m) ELSE MsgTypeNumber[m.type], requestId(m)[2] >>

-----------------------------------------------------------------------------
(* The message classes: the fields a new message has, where its options    *)
(* and arguments are (0: it has none), and what its other accessors read   *)

None == 0
Zero == Integer(0)
Uri(n) == << "string", n >>
NoOptions == << "object", << >> >>
Fields(m, optionsPos, argsPos, reads) ==
    [new |-> m, optionsPos |-> optionsPos, argsPos |-> argsPos, reads |-> reads]

HelloMessage(uri) == Fields(WampMessage("hello", << Zero, Uri(uri), NoOptions >>), 2, None, {<< 1, "string" >>})
ChallengeMessage == Fields(WampMessage("challenge", << Zero, Uri(0) >>), 2, None, {<< 1, "string" >>})
AuthenticateMessage(sig) ==
    Fields(WampMessage("authenticate", << Zero, Uri(sig), NoOptions >>), 2, None, {<< 1, "string" >>})
WelcomeMessage == Fields(WampMessage("welcome", << Zero, Zero, NoOptions >>), 2, None, {<< 1, "integer" >>})
AbortMessage(uri) == Fields(WampMessage("abort", << Zero, NoOptions, Uri(uri) >>), 1, None, {<< 2, "string" >>})

\* "wamp.error.close_realm" stands in for a reason that is empty.
closeRealm == 9
GoodbyeMessage(uri) ==
    LET reason == IF uri = 0 THEN closeRealm ELSE uri
    IN Fields(WampMessage("goodbye", << Zero, NoOptions, Uri(reason) >>), 1, None, {<< 2, "string" >>})

ErrorMessage(uri) ==
    Fields(WampMessage("error", << Zero, Zero, Zero, NoOptions, Uri(uri) >>), 3, 5,
           {<< 1, "integer" >>, << 2, "integer" >>, << 4, "string" >>})
setRequestInfo(m, type, id) == [m EXCEPT !.fields[2] = Integer(MsgTypeNumber[type]), !.fields[3] = Integer(id)]

PublishMessage(uri) ==
    Fields(WampMessage("publish", << Zero, Zero, NoOptions, Uri(uri) >>), 2, 4, {<< 1, "integer" >>, << 3, "string" >>})
PublishedMessage ==
    Fields(WampMessage("published", << Zero, Zero, Zero >>), None, None, {<< 1, "integer" >>, << 2, "integer" >>})
SubscribeMessage(uri) ==
    Fields(WampMessage("subscribe", << Zero, Zero, NoOptions, Uri(uri) >>), 2, None,
           {<< 1, "integer" >>, << 3, "string" >>})
SubscribedMessage ==
    Fields(WampMessage("subscribed", << Zero, Zero, Zero >>), None, None, {<< 1, "integer" >>, << 2, "integer" >>})
UnsubscribeMessage(subId) ==
    Fields(WampMessage("unsubscribe", << Zero, Zero, Integer(subId) >>), None, None,
           {<< 1, "integer" >>, << 2, "integer" >>})
UnsubscribedMessage == Fields(WampMessage("unsubscribed", << Zero, Zero >>), None, None, {<< 1, "integer" >>})
EventMessage ==
    Fields(WampMessage("event", << Zero, Zero, Zero, NoOptions >>), 3, 4, {<< 1, "integer" >>, << 2, "integer" >>})
CallMessage(uri) ==
    Fields(WampMessage("call", << Zero, Zero, NoOptions, Uri(uri) >>), 2, 4, {<< 1, "integer" >>, << 3, "string" >>})
RegisterMessage(uri) ==
    Fields(WampMessage("enroll", << Zero, Zero, NoOptions, Uri(uri) >>), 2, None,
           {<< 1, "integer" >>, << 3, "string" >>})
RegisteredMessage ==
    Fields(WampMessage("registered", << Zero, Zero, Zero >>), None, None, {<< 1, "integer" >>, << 2, "integer" >>})
UnregisterMessage(regId) ==
    Fields(WampMessage("unregister", << Zero, Zero, Integer(regId) >>), None, None,
           {<< 1, "integer" >>, << 2, "integer" >>})
UnregisteredMessage == Fields(WampMessage("unregistered", << Zero, Zero >>), None, None, {<< 1, "integer" >>})
InvocationMessage ==
    Fields(WampMessage("invocation", << Zero, Zero, Zero, NoOptions >>), 3, 4,
           {<< 1, "integer" >>, << 2, "integer" >>})
YieldMessage(id) == Fields(WampMessage("yield", << Zero, Integer(id), NoOptions >>), 2, 3, {<< 1, "integer" >>})
ResultMessage == Fields(WampMessage("result", << Zero, Zero, NoOptions >>), 2, 3, {<< 1, "integer" >>})
CancelMessage(id) == Fields(WampMessage("cancel", << Zero, Integer(id), NoOptions >>), 2, None, {<< 1, "integer" >>})
InterruptMessage(id) ==
    Fields(WampMessage("interrupt", << Zero, Integer(id), NoOptions >>), 2, None, {<< 1, "integer" >>})

\* The class that message_cast takes a message of each type for, as it is when
\* new; x is the URI or the ID that it is made with
MessageClass(type, x) ==
    CASE type = "hello" -> HelloMessage(x)           [] type = "challenge" -> ChallengeMessage
      [] type = "authenticate" -> AuthenticateMessage(x) [] type = "welcome" -> WelcomeMessage
      [] type = "abort" -> AbortMessage(x)           [] type = "goodbye" -> GoodbyeMessage(x)
      [] type = "error" -> ErrorMessage(x)           [] type = "publish" -> PublishMessage(x)
      [] type = "published" -> PublishedMessage      [] type = "subscribe" -> SubscribeMessage(x)
      [] type = "subscribed" -> SubscribedMessage    [] type = "unsubscribe" -> UnsubscribeMessage(x)
      [] type = "unsubscribed" -> UnsubscribedMessage [] type = "event" -> EventMessage
      [] type = "call" -> CallMessage(x)             [] type = "enroll" -> RegisterMessage(x)
      [] type = "registered" -> RegisteredMessage    [] type = "unregister" -> UnregisterMessage(x)
      [] type = "unregistered" -> UnregisteredMessage [] type = "invocation" -> InvocationMessage
      [] type = "yield" -> YieldMessage(x)           [] type = "result" -> ResultMessage
      [] type = "cancel" -> CancelMessage(x)         [] type = "interrupt" -> InterruptMessage(x)

-----------------------------------------------------------------------------
(* Options and payload *)

optionsPos(m) == MessageClass(m.type, 0).optionsPos
argsPos(m) == MessageClass(m.type, 0).argsPos

options(m) == FieldAs(m, optionsPos(m), "object")

\* Arguments that are not there are appended to the message when asked for.
argsOf(m) ==
    IF Len(m.fields) <= argsPos(m) THEN [m EXCEPT !.fields = Append(@, << "array", << >> >>)] ELSE m
kwargsOf(m) ==
    IF Len(m.fields) <= argsPos(m) + 1 THEN [argsOf(m) EXCEPT !.fields = Append(@, NoOptions)] ELSE m

withArgList(m, list) == [argsOf(m) EXCEPT !.fields[argsPos(m) + 1] = << "array", list >>]
withKwargs(m, map) == [kwargsOf(m) EXCEPT !.fields[argsPos(m) + 2] = << "object", map >>]

\* Options::withOption emplaces: an option that is there keeps its value.
withOption(m, key, v) ==
    [m EXCEPT !.fields[optionsPos(m) + 1] = << "object", Emplaced(@[2], << key >>, << v >>) >>]

\* Options::optionByKey, optionOr<T>, and Variant::valueOr<T> of an option
optionByKey(m, key) == IF key \in DOMAIN options(m)[2] THEN options(m)[2][key] ELSE Null
optionOr(m, key, T, fallback) ==
    IF key \in DOMAIN options(m)[2] THEN ToScalar(T, options(m)[2][key]) ELSE Ok(fallback)
valueOr(v, T, fallback) == IF v[1] = "null" THEN Ok(fallback) ELSE ToScalar(T, v)

\* Keys of options
progress == 1
receiveProgress == 2
mode == 3
rolesKey == 4

isProgressiveResponse(m) ==
    IF m.type # "result" \/ Len(m.fields) < 3 \/ m.fields[3][1] # "object" THEN Ok(FALSE)
    ELSE valueOr(optionByKey(m, progress), << "bool" >>, FALSE)

\* Result::isProgressive and Invocation::isProgressive
isProgressive(m) ==
    optionOr(m, IF m.type = "invocation" THEN receiveProgress ELSE progress, << "bool" >>, FALSE)

\* Result::yieldMessage, with ResultMessage::transformToYield
yieldMessageOf(m, id) == setType(setRequestId(m, id), "yield")

\* CallCancellation: the mode is an option, for each of the three modes
CallCancellation(id, how) == withOption(CancelMessage(id).new, mode, << "string", how >>)

\* An Rpc and what withProgressiveResults does to it
Rpc(uri) == [message |-> CallMessage(uri).new, progressive |-> FALSE]
withProgressiveResults(rpc, enabled) ==
    [message |-> withOption(rpc.message, receiveProgress, << "boolean", enabled >>), progressive |-> enabled]

\* SessionInfo::supportsRoles: every role is in the router's dictionary, which
\* must be one
supportsRoles(m, roles) ==
    CASE roles = {} -> Ok(TRUE)
      [] roles # {} /\ rolesKey \notin DOMAIN options(m)[2] -> Ok(FALSE)
      [] OTHER -> LET found == options(m)[2][rolesKey]
                  IN IF found[1] # "object" THEN Access ELSE Ok(roles \subseteq DOMAIN found[2])

\* SessionInfo::supportsFeatures, in the order of the roles.  "features" is the
\* only key of a role that is read: 1.
hasFeature(map, f) == f \in DOMAIN map /\ ~NotEqualTo(map[f], << "boolean", TRUE >>, =)

roleSupports(routerRoles, role, reqFeatureSet) ==
    IF role \notin DOMAIN routerRoles THEN Ok(FALSE)
    ELSE LET map == routerRoles[role]
         IN CASE map[1] # "object" -> Access
              [] map[1] = "object" /\ 1 \notin DOMAIN map[2] -> Ok(FALSE)
              [] OTHER -> IF map[2][1][1] # "object" THEN Access
                          ELSE Ok(\A f \in reqFeatureSet : hasFeature(map[2][1][2], f))

supportsFeatures(m, features) ==
    LET found == options(m)[2][rolesKey]
        stops == { role \in DOMAIN features : roleSupports(found[2], role, features[role]) # Ok(TRUE) }
        first == CHOOSE role \in stops : \A r \in stops : role <= r
    IN CASE features = << >> -> Ok(TRUE)
         [] features # << >> /\ rolesKey \notin DOMAIN options(m)[2] -> Ok(FALSE)
         [] OTHER -> CASE found[1] # "object" -> Access
                       [] found[1] = "object" /\ stops = {} -> Ok(TRUE)
                       [] OTHER -> roleSupports(found[2], first, features[first])

-----------------------------------------------------------------------------
(* What messages must be *)

\* What the accessors of a message's class and Peer read of it
Readable(m) ==
    LET class == MessageClass(m.type, 0)
    IN /\ \A r \in class.reads : FieldAs(m, r[1], r[2])[1] = "ok"
       /\ class.optionsPos # None => options(m)[1] = "ok"
       /\ class.argsPos # None => /\ FieldAs(argsOf(m), class.argsPos, "array")[1] = "ok"
                                  /\ FieldAs(kwargsOf(m), class.argsPos + 1, "object")[1] = "ok"
                                  /\ parse(kwargsOf(m).fields) = Ok(kwargsOf(m))
       /\ requestId(m)[1] = "ok"

\* Messages that are made as the client and a router make them from the same
\* classes: with an option, arguments, an ID
Made(t, id) ==
    LET m == setRequestId(MessageClass(t, 1).new, id)
        o == IF optionsPos(m) # None /\ options(m)[1] = "ok" THEN withOption(m, progress, << "boolean", TRUE >>) ELSE m
    IN {m, o} \cup IF argsPos(m) = None THEN {}
                   ELSE {withArgList(o, << Null >>), withKwargs(o, << Null >>),
                         withKwargs(withArgList(m, << Null >>), << >>)}

\* The request that a message is about, as the peer that sent the request looks
\* for it: processWampReply's key
ReplyKey(m) == IF m.type = "error" THEN requestKey(m) ELSE << MsgTypeNumber[repliesTo(m.type)], requestId(m)[2] >>

\* What an array of fields is read as, if parse() accepts it
FieldsRead(fields) ==
    LET m == parse(fields) IN m[1] = "ok" => Readable(m[2]) /\ m[2].fields = fields

\* What is sent, and what is answered to it
AsSent(t, id) ==
    \A m \in Made(t, id) :
        /\ t # "challenge" => parse(m.fields) = Ok(m)
        /\ \A r \in DOMAIN Schema : repliesTo(r) = t /\ t \in hasRequestId /\ r \in hasRequestId =>
                \A reply \in Made(r, id) : ReplyKey(reply) = requestKey(m)
        /\ \A e \in Made("error", id) : ReplyKey(setRequestInfo(e, t, id)) = << MsgTypeNumber[t], id >>
        /\ t = "result" =>
                LET y == yieldMessageOf(m, id + 1)
                IN /\ parse(y.fields) = Ok(y) /\ y.type = "yield"
                   /\ FieldAs(y, 1, "integer") = Ok(id + 1) /\ options(y) = options(m) /\ Len(y.fields) = Len(m.fields)
        /\ t = "cancel" => \A how \in 1 .. 3 :
                LET c == CallCancellation(id, how)
                IN parse(c.fields) = Ok(c) /\ FieldAs(c, 1, "integer") = Ok(id)

\* Peer's and the caller's look at the "progress" of a result
ProgressAgreed(v) ==
    LET m == withOption(ResultMessage.new, progress, v)
    IN /\ isProgressiveResponse(m) = isProgressive(m) \/ v = Null
       /\ isProgressiveResponse(m)[1] = "ok" \/ v[1] \in {"string", "blob", "array", "object"}

\* An ongoing call, for which progressive results were asked for, or not, before
OngoingAsks(asked) ==
    LET r == CASE asked = << >> -> Rpc(1)
               [] Len(asked) = 1 -> withProgressiveResults(Rpc(1), asked[1])
               [] OTHER -> withProgressiveResults(withProgressiveResults(Rpc(1), asked[1]), asked[2])
        ongoing == withProgressiveResults(r, TRUE)
        option(x) == optionByKey(x.message, receiveProgress)
    IN ongoing.progressive /\ (option(ongoing) = << "boolean", TRUE >> \/ option(r) = << "boolean", FALSE >>)

\* Features demanded at once and one by one
FeaturesEach(details, demanded) ==
    LET m == [WelcomeMessage.new EXCEPT !.fields[3] = << "object", details >>]
    IN supportsFeatures(m, demanded) = Ok(TRUE) <=>
        \A r \in DOMAIN demanded : \A f \in {{}} \cup { {x} : x \in demanded[r] } :
            /\ supportsFeatures(m, [role \in {r} |-> f]) = Ok(TRUE)
            /\ supportsRoles(m, {r}) = Ok(TRUE)

\* No accessor of a message that parse() accepts throws, nor does looking at
\* arguments that are not there make it a message that parse() refuses.  Every
\* message that is sent is accepted at the other end as what it was (a
\* CHALLENGE is never sent), the reply to a request has the key under which
\* the request's handler is kept, a YIELD the ID of its invocation.  The two
\* ends of a result agree on whether it is progressive, unless its "progress"
\* is null or no truth value: then reading it throws.  An ongoing call asks for
\* progressive results, unless the option was set before.  A router supports
\* some features if and only if it supports each of them.
MessagesFit ==
    CASE input[1] = "fields" -> FieldsRead(input[2])
      [] input[1] = "new" -> AsSent(input[2], input[3])
      [] input[1] = "progress" -> ProgressAgreed(input[2])
      [] input[1] = "rpc" -> OngoingAsks(input[2])
      [] input[1] = "roles" -> FeaturesEach(input[2], input[3])
      [] OTHER -> TRUE
=============================================================================
