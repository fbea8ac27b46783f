------------------------- MODULE RawsockConnection -------------------------
(***************************************************************************)
(* A RawsockConnector (with its TcpOpener) and a RawsockListener (with its *)
(* TcpAcceptor) that negotiate one connection.                             *)
(*                                                                         *)
(* Both are chains of asynchronous operations.  An operation ends in its   *)
(* own time and its handler runs later; cancel() may come at any moment.   *)
(* It turns a pending operation into a cancelled one, but does not reach   *)
(* an operation that has ended and whose handler is about to start the     *)
(* next one.                                                               *)
(***************************************************************************)
EXTENDS RawsockHandshake, FiniteSets, Sequences

CONSTANTS
    ClientCodecs,      \* codecs the connector may be made for
    ServerCodecs,      \* codecIds_ of the listener
    ClientLength,      \* the connector's maxRxLength_
    ServerLength,      \* the listener's maxRxLength_
    ForeignWords       \* handshakes a foreign client or server may send

ASSUME CodecsAssumption == (ClientCodecs \cup ServerCodecs) \subseteq 1 .. 15
ASSUME LengthsAssumption == ClientLength \in MaxLengths /\ ServerLength \in MaxLengths

VARIABLES
    cCodecId,          \* codecId_ of the connector, which never changes
    cStage,            \* what the connector is doing
    cOp,               \* result of the operation it waits for
    cSocket,           \* the opener's, then the connector's socket_
    cWord,             \* handshake_ of the connector
    cOutcome,          \* what its handler was given
    cCancelled,        \* cancel() was called before that, which is done once at most
    sStage, sOp, sSocket, sWord, sOutcome,   \* likewise for the listener
    sMaxTxLength,      \* maxTxLength_ of the listener
    sHeard,            \* history: the handshake that the listener has read
    toClient,          \* bytes on their way to the client
    toServer,          \* bytes on their way to the server
    foreign,           \* which side, if any, is not CppWAMP
    calls              \* history: number of times each handler was called

vars == << cCodecId, cStage, cOp, cSocket, cWord, cOutcome, cCancelled, sStage, sOp,
           sSocket, sWord, sOutcome, sMaxTxLength, sHeard, toClient, toServer, foreign, calls >>

setup == << cCodecId, foreign >>
client == << cStage, cOp, cSocket, cWord, cOutcome, cCancelled >>
server == << sStage, sOp, sSocket, sWord, sOutcome, sMaxTxLength, sHeard >>

NoWord == 0
NoOutcome == [kind |-> "none"]
Transport(codec, maxTx, maxRx) ==
    [kind |-> "transport", codec |-> codec, maxTx |-> maxTx, maxRx |-> maxRx]
Error(what) == [kind |-> "error", what |-> what]           \* std::errc, TransportErrc
Refused(errc) == [kind |-> "refused", errc |-> errc]       \* RawsockErrc

-----------------------------------------------------------------------------
Init ==
    /\ cStage = "idle" /\ cOp = "none" /\ cSocket = "none" /\ cWord = NoWord
    /\ cOutcome = NoOutcome /\ cCancelled = FALSE
    /\ sStage = "idle" /\ sOp = "none" /\ sSocket = "none" /\ sWord = NoWord
    /\ sOutcome = NoOutcome /\ sMaxTxLength = 0 /\ sHeard = NoWord
    /\ toClient = << >> /\ toServer = << >>
    /\ cCodecId \in ClientCodecs
    /\ foreign \in {"none", "client", "server"}
    /\ calls = [client |-> 0, server |-> 0]

\* An operation started on a socket that cancel() closed fails, though not
\* with operation_canceled.
Started(socket) == IF socket = "closed" THEN "error" ELSE "pending"

\* close() on a socket makes what is pending end with operation_canceled.
Cancelled(op) == IF op = "pending" THEN "cancelled" ELSE op

\* check() and the callback of the opener or acceptor translate the error.
ErrorOf(op) == Error(IF op = "cancelled" THEN "aborted" ELSE "failed")

-----------------------------------------------------------------------------
(* The connector *)

\* Its handler is moved out, called, and the socket released.
ConnectorEnds(outcome) ==
    /\ cStage' = "done" /\ cOp' = "none" /\ cSocket' = "none"
    /\ cOutcome' = outcome
    /\ calls' = [calls EXCEPT !.client = @ + 1]

establishConnector ==
    /\ cStage = "idle" /\ foreign # "client"
    /\ cStage' = "resolving" /\ cOp' = "pending"
    /\ UNCHANGED << cSocket, cWord, cOutcome, cCancelled, server, toClient,
                    toServer, setup, calls >>

\* Mutant: a cancelled operation is taken for one that will complete later.
MutConnectorFails ==
    /\ cStage \in {"resolving", "connecting", "sending", "receiving"}
    /\ cOp = "error"
    /\ ConnectorEnds(ErrorOf(cOp))
    /\ UNCHANGED << cWord, cCancelled, server, toClient, toServer, setup >>

ConnectorFails ==
    /\ cStage \in {"resolving", "connecting", "sending", "receiving"}
    /\ cOp \in {"error", "cancelled"}
    /\ ConnectorEnds(ErrorOf(cOp))
    /\ UNCHANGED << cWord, cCancelled, server, toClient, toServer, setup >>

\* TcpOpener::connect, once the host name is resolved: on a new socket.
ConnectorResolved ==
    /\ cStage = "resolving" /\ cOp = "ok"
    /\ cStage' = "connecting" /\ cOp' = "pending" /\ cSocket' = "open"
    /\ UNCHANGED << cWord, cOutcome, cCancelled, server, toClient, toServer,
                    setup, calls >>

ConnectorSendHandshake ==
    /\ cStage = "connecting" /\ cOp = "ok"
    /\ cStage' = "sending" /\ cOp' = Started(cSocket)
    /\ cWord' = Handshake(cCodecId, ClientLength)
    /\ UNCHANGED << cSocket, cOutcome, cCancelled, server, toClient, toServer,
                    setup, calls >>

ConnectorReceiveHandshake ==
    /\ cStage = "sending" /\ cOp = "ok"
    /\ cStage' = "receiving" /\ cOp' = Started(cSocket)
    /\ cWord' = NoWord
    /\ UNCHANGED << cSocket, cOutcome, cCancelled, server, toClient, toServer,
                    setup, calls >>

\* Mutant: an answer with another codec is bad before it is looked at for an error.
MutConnectorVerdict(hs) ==
    IF ~hasMagicOctet(hs) THEN Refused(badHandshake)
    ELSE IF reserved(hs) # 0 THEN Refused(reservedBitsUsed)
    ELSE IF codecId(hs) = cCodecId
      THEN Transport(cCodecId, byteLengthOf(maxLength(hs)), byteLengthOf(ClientLength))
    ELSE Refused(badHandshake)

\* RawsockConnector::onHandshakeReceived and complete.
ConnectorVerdict(hs) ==
    IF ~hasMagicOctet(hs) THEN Refused(badHandshake)
    ELSE IF reserved(hs) # 0 THEN Refused(reservedBitsUsed)
    ELSE IF codecId(hs) = cCodecId
      THEN Transport(cCodecId, byteLengthOf(maxLength(hs)), byteLengthOf(ClientLength))
    ELSE IF hasError(hs) THEN Refused(errorCode(hs))
    ELSE Refused(badHandshake)

ConnectorHandshakeReceived ==
    /\ cStage = "receiving" /\ cOp = "ok"
    /\ ConnectorEnds(ConnectorVerdict(cWord))
    /\ UNCHANGED << cWord, cCancelled, server, toClient, toServer, setup >>

\* Mutant: cancel() reports the cancellation by itself.
MutCancelConnector ==
    /\ cStage \in {"resolving", "connecting", "sending", "receiving"}
    /\ ~cCancelled
    /\ cCancelled' = TRUE
    /\ calls' = [calls EXCEPT !.client = @ + 1]
    /\ cOp' = Cancelled(cOp)
    /\ cSocket' = IF cSocket = "open" THEN "closed" ELSE cSocket
    /\ UNCHANGED << cStage, cWord, cOutcome, server, toClient, toServer, setup >>

cancelConnector ==
    /\ cStage \in {"resolving", "connecting", "sending", "receiving"}
    /\ ~cCancelled
    /\ cCancelled' = TRUE
    /\ cOp' = Cancelled(cOp)
    /\ cSocket' = IF cSocket = "open" THEN "closed" ELSE cSocket
    /\ UNCHANGED << cStage, cWord, cOutcome, server, toClient, toServer, setup, calls >>

-----------------------------------------------------------------------------
(* The listener *)

ListenerEnds(outcome) ==
    /\ sStage' = "done" /\ sOp' = "none" /\ sSocket' = "none"
    /\ sOutcome' = outcome
    /\ calls' = [calls EXCEPT !.server = @ + 1]

establishListener ==
    /\ sStage = "idle" /\ foreign # "server"
    /\ sStage' = "accepting" /\ sOp' = "pending"
    /\ UNCHANGED << sSocket, sWord, sOutcome, sMaxTxLength, sHeard, client, toClient,
                    toServer, setup, calls >>

ListenerFails ==
    /\ sStage \in {"accepting", "receiving", "sending"}
    /\ sOp \in {"error", "cancelled"}
    /\ ListenerEnds(ErrorOf(sOp))
    /\ UNCHANGED << sWord, sMaxTxLength, sHeard, client, toClient, toServer, setup >>

ListenerReceiveHandshake ==
    /\ sStage = "accepting" /\ sOp = "ok"
    /\ sStage' = "receiving" /\ sOp' = "pending" /\ sSocket' = "open"
    /\ sWord' = NoWord
    /\ UNCHANGED << sOutcome, sMaxTxLength, sHeard, client, toClient, toServer, setup, calls >>

\* RawsockListener::onHandshakeReceived: fail without an answer...
ListenerRejects ==
    /\ sStage = "receiving" /\ sOp = "ok"
    /\ ~hasMagicOctet(sWord)
    /\ ListenerEnds(Refused(badHandshake))
    /\ UNCHANGED << sWord, sMaxTxLength, sHeard, client, toClient, toServer, setup >>

\* Mutant: reserved bits are ignored.
MutAnswer(hs) ==
    IF codecId(hs) \in ServerCodecs THEN Handshake(codecId(hs), ServerLength)
    ELSE eUnsupportedFormat

\* ...or answer, refusing or accepting.
Answer(hs) ==
    IF reserved(hs) # 0 THEN eReservedBitsUsed
    ELSE IF codecId(hs) \in ServerCodecs THEN Handshake(codecId(hs), ServerLength)
    ELSE eUnsupportedFormat

ListenerSendHandshake ==
    /\ sStage = "receiving" /\ sOp = "ok"
    /\ hasMagicOctet(sWord)
    /\ sStage' = "sending" /\ sOp' = Started(sSocket)
    /\ sWord' = Answer(sWord)
    /\ sMaxTxLength' = IF hasError(Answer(sWord)) THEN sMaxTxLength ELSE maxLength(sWord)
    /\ UNCHANGED << sSocket, sOutcome, sHeard, client, toClient, toServer, setup, calls >>

ListenerHandshakeSent ==
    /\ sStage = "sending" /\ sOp = "ok"
    /\ ListenerEnds(IF hasError(sWord) THEN Refused(errorCode(sWord))
                    ELSE Transport(codecId(sWord), byteLengthOf(sMaxTxLength),
                                   byteLengthOf(ServerLength)))
    /\ UNCHANGED << sWord, sMaxTxLength, sHeard, client, toClient, toServer, setup >>

cancelListener ==
    /\ sStage \in {"accepting", "receiving", "sending"}
    /\ sOp' = Cancelled(sOp)
    /\ sSocket' = IF sSocket = "open" THEN "closed" ELSE sSocket
    /\ sOp' # sOp \/ sSocket' # sSocket
    /\ UNCHANGED << sStage, sWord, sOutcome, sMaxTxLength, sHeard, client, toClient,
                    toServer, setup, calls >>

-----------------------------------------------------------------------------
(* The network, and a foreign client or server *)

NetResolve ==
    /\ cStage = "resolving" /\ cOp = "pending"
    /\ cOp' \in {"ok", "error"}
    /\ UNCHANGED << cStage, cSocket, cWord, cOutcome, cCancelled, server, toClient,
                    toServer, setup, calls >>

NetConnect ==
    /\ \/ cStage = "connecting" /\ cOp = "pending" /\ cOp' = "ok"
       \/ foreign = "client" /\ UNCHANGED cOp
    /\ \/ sStage = "accepting" /\ sOp = "pending" /\ sOp' = "ok"
       \/ foreign = "server" /\ UNCHANGED sOp
    /\ UNCHANGED << cStage, cSocket, cWord, cOutcome, cCancelled, sStage, sSocket,
                    sWord, sOutcome, sMaxTxLength, sHeard, toClient, toServer, setup, calls >>

NetConnectFails ==
    /\ cStage = "connecting" /\ cOp = "pending"
    /\ cOp' = "error"
    /\ UNCHANGED << cStage, cSocket, cWord, cOutcome, cCancelled, server, toClient,
                    toServer, setup, calls >>

NetConnectorWrites ==
    /\ cStage = "sending" /\ cOp = "pending"
    /\ cOp' = "ok"
    /\ toServer' = << cWord >>
    /\ UNCHANGED << cStage, cSocket, cWord, cOutcome, cCancelled, server, toClient,
                    setup, calls >>

NetListenerReads ==
    /\ sStage = "receiving" /\ sOp = "pending"
    /\ toServer # << >>
    /\ sOp' = "ok" /\ sWord' = Head(toServer) /\ sHeard' = Head(toServer)
    /\ toServer' = << >>
    /\ UNCHANGED << sStage, sSocket, sOutcome, sMaxTxLength, client, toClient,
                    setup, calls >>

NetListenerWrites ==
    /\ sStage = "sending" /\ sOp = "pending"
    /\ sOp' = "ok"
    /\ toClient' = << sWord >>
    /\ UNCHANGED << sStage, sSocket, sWord, sOutcome, sMaxTxLength, sHeard, client,
                    toServer, setup, calls >>

NetConnectorReads ==
    /\ cStage = "receiving" /\ cOp = "pending"
    /\ toClient # << >>
    /\ cOp' = "ok" /\ cWord' = Head(toClient)
    /\ toClient' = << >>
    /\ UNCHANGED << cStage, cSocket, cOutcome, cCancelled, server, toServer,
                    setup, calls >>

ForeignSends ==
    \/ /\ foreign = "server" /\ cStage = "receiving" /\ toClient = << >>
       /\ \E w \in ForeignWords : toClient' = << w >>
       /\ UNCHANGED << client, server, toServer, setup, calls >>
    \/ /\ foreign = "client" /\ sStage = "receiving" /\ toServer = << >>
       /\ \E w \in ForeignWords : toServer' = << w >>
       /\ UNCHANGED << client, server, toClient, setup, calls >>

\* The connection breaks, or the other side is gone: a read finds nothing.
ConnectorLosesPeer ==
    /\ cStage = "receiving" /\ cOp = "pending" /\ toClient = << >>
    /\ sStage = "done" \/ foreign = "server"
    /\ cOp' = "error"
    /\ UNCHANGED << cStage, cSocket, cWord, cOutcome, cCancelled, server, toClient,
                    toServer, setup, calls >>

ListenerLosesPeer ==
    /\ sStage = "receiving" /\ sOp = "pending" /\ toServer = << >>
    /\ cStage = "done" \/ foreign = "client"
    /\ sOp' = "error"
    /\ UNCHANGED << sStage, sSocket, sWord, sOutcome, sMaxTxLength, sHeard, client,
                    toClient, toServer, setup, calls >>

-----------------------------------------------------------------------------
Connector ==
    \/ ConnectorFails
    \/ ConnectorResolved
    \/ ConnectorSendHandshake
    \/ ConnectorReceiveHandshake
    \/ ConnectorHandshakeReceived

Listener ==
    \/ ListenerFails
    \/ ListenerReceiveHandshake
    \/ ListenerRejects
    \/ ListenerSendHandshake
    \/ ListenerHandshakeSent

Network ==
    \/ NetResolve
    \/ NetConnect
    \/ NetConnectFails
    \/ NetConnectorWrites
    \/ NetListenerReads
    \/ NetListenerWrites
    \/ NetConnectorReads
    \/ ForeignSends
    \/ ConnectorLosesPeer
    \/ ListenerLosesPeer

User == establishConnector \/ establishListener \/ cancelConnector \/ cancelListener

Next == User \/ Connector \/ Listener \/ Network

Spec == Init /\ [][Next]_vars

\* Handlers run, and the network between two CppWAMP ends delivers or fails.
FairSpec == Spec /\ WF_vars(Connector) /\ WF_vars(Listener) /\ WF_vars(Network)

-----------------------------------------------------------------------------
(* Properties *)

\* The two ends of a connection that both report as established use the same
\* codec, and neither is allowed to send more than the other accepts.
Agreement ==
    (cOutcome.kind = "transport" /\ sOutcome.kind = "transport") =>
        /\ cOutcome.codec = sOutcome.codec
        /\ cOutcome.maxTx = sOutcome.maxRx
        /\ sOutcome.maxTx = cOutcome.maxRx

\* Whatever the other end sends, a transport is only reported for a genuine
\* handshake with no reserved bits, for a codec that was asked for and that is
\* supported, and with the limit that the other end has stated.
HandshakeHonoured ==
    /\ cOutcome.kind = "transport" =>
          /\ hasMagicOctet(cWord) /\ reserved(cWord) = 0
          /\ codecId(cWord) = cCodecId /\ cOutcome.codec = cCodecId
          /\ cOutcome.maxTx = byteLengthOf(maxLength(cWord))
    /\ sOutcome.kind = "transport" =>
          /\ hasMagicOctet(sHeard) /\ reserved(sHeard) = 0
          /\ codecId(sHeard) \in ServerCodecs /\ sOutcome.codec = codecId(sHeard)
          /\ sOutcome.maxTx = byteLengthOf(maxLength(sHeard))

\* A codec that the listener does not support is refused at both ends, and a
\* connector whose connection lasts reports the listener's reason, not another.
RefusalIsReported ==
    foreign = "none" /\ cCodecId \notin ServerCodecs =>
        /\ sOutcome.kind # "transport"
        /\ cOutcome.kind \in {"none", "error"} \/ cOutcome = Refused(badSerializer)

\* The handler of each establish() is called at most once, though cancel() races
\* the completion of every operation.
OneOutcome == calls.client <= 1 /\ calls.server <= 1

\* Between two CppWAMP ends, an establishment that both have started ends.
EstablishEnds ==
    (cStage # "idle" /\ sStage # "idle" /\ foreign = "none")
        ~> (cStage = "done")
=============================================================================
