--------------------------- MODULE MessageTraits ---------------------------
(***************************************************************************)
(* The table of WAMP message types that MessageTraits::lookup returns a    *)
(* row of: which request a message answers, whether sendMessage assigns it *)
(* a request ID, and in which session states each role may receive it.     *)
(* The sizes and types of fields are in module Messages.                   *)
(***************************************************************************)

\* The valid rows of the table (isValidType).
WampMsgType ==
    { "hello", "welcome", "abort", "challenge", "authenticate", "goodbye",
      "error", "publish", "published", "subscribe", "subscribed",
      "unsubscribe", "unsubscribed", "event", "call", "cancel", "result",
      "enroll", "registered", "unregister", "unregistered", "invocation",
      "interrupt", "yield" }

\* The repliesTo column, for the rows where it is not W::none.
ReplyTable ==
    [ authenticate |-> "challenge",  published    |-> "publish",
      subscribed   |-> "subscribe",  unsubscribed |-> "unsubscribe",
      result       |-> "call",       registered   |-> "enroll",
      unregistered |-> "unregister", yield        |-> "invocation" ]

repliesTo(type) ==
    IF type \in DOMAIN ReplyTable THEN ReplyTable[type] ELSE "none"

\* The idPosition column: the types whose request ID the sending peer assigns
\* (hasRequestId) when they are outbound.
hasRequestId ==
    { "publish", "published", "subscribe", "subscribed", "unsubscribe",
      "unsubscribed", "call", "result", "enroll", "registered", "unregister",
      "unregistered", "invocation" }

isRouterRx ==
    { "hello", "authenticate", "goodbye", "error", "publish", "subscribe",
      "unsubscribe", "call", "cancel", "enroll", "unregister", "yield" }

isClientRx ==
    { "welcome", "abort", "challenge", "goodbye", "error", "published",
      "subscribed", "unsubscribed", "event", "result", "registered",
      "unregistered", "invocation", "interrupt" }

forEstablishing == { "hello", "welcome", "abort", "challenge" }

forChallenging == { "welcome", "abort", "challenge", "authenticate" }

forEstablished ==
    WampMsgType \ { "hello", "welcome", "challenge", "authenticate" }

\* May a peer of this role receive a message of this type in session state s?
isValidRx(type, s, isRouter) ==
    /\ type \in (IF isRouter THEN isRouterRx ELSE isClientRx)
    /\ \/ s = "establishing" /\ type \in forEstablishing
       \/ s = "authenticating" /\ type \in forChallenging
       \/ s \in {"established", "shuttingDown"} /\ type \in forEstablished
=============================================================================
