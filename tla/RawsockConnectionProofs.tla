---------------------- MODULE RawsockConnectionProofs ----------------------
(***************************************************************************)
(* What RawsockConnector and RawsockListener report, proved for any codecs *)
(* and lengths, whatever a foreign end sends and whenever an establishment *)
(* is cancelled.                                                           *)
(*                                                                         *)
(* The invariant ties what each end holds to what the other has sent.  The *)
(* words are only known by their fields, so the proof starts with what the *)
(* shifts and masks of RawsockHandshake give for the words that CppWAMP    *)
(* itself makes.                                                           *)
(***************************************************************************)
EXTENDS RawsockConnection, TLAPS

-----------------------------------------------------------------------------
(* Handshakes *)

\* The fields of a handshake made by setCodecId and setMaxLength are the codec
\* and the length it was made with: RawsockHandshake::put and get agree.
LEMMA HandshakeFields ==
    ASSUME NEW codec \in 0 .. 15, NEW length \in 0 .. 15
    PROVE  /\ hasMagicOctet(Handshake(codec, length))
           /\ reserved(Handshake(codec, length)) = 0
           /\ codecId(Handshake(codec, length)) = codec
           /\ maxLength(Handshake(codec, length)) = length
<1>1. 2^0 = 1 /\ 2^4 = 16 /\ 2^8 = 256 /\ 2^16 = 65536 /\ 2^20 = 1048576 /\ 2^24 = 16777216
  BY SMT
<1> DEFINE w == 127 * 16777216 + codec * 65536 + length * 1048576
<1>2. Handshake(codec, length) = w
  BY <1>1 DEF Handshake, magicOctet
<1>3. (w \div 16777216) % 256 = 127
  BY SMT
<1>4. (w \div 1) % 65536 = 0
  BY SMT
<1>5. (w \div 65536) % 16 = codec
  BY SMT
<1>6. (w \div 1048576) % 16 = length
  BY SMT
<1> HIDE DEF w
<1>7. QED
  BY <1>1, <1>2, <1>3, <1>4, <1>5, <1>6
  DEF hasMagicOctet, reserved, codecId, maxLength, Get

\* The two refusals of RawsockListener are genuine handshakes with no codec,
\* and eUnsupportedFormat is the one that means badSerializer.
LEMMA RefusalFields ==
    /\ hasMagicOctet(eUnsupportedFormat) /\ hasMagicOctet(eReservedBitsUsed)
    /\ reserved(eUnsupportedFormat) = 0 /\ reserved(eReservedBitsUsed) = 0
    /\ hasError(eUnsupportedFormat) /\ hasError(eReservedBitsUsed)
    /\ errorCode(eUnsupportedFormat) = badSerializer
<1>1. magicOctet \in Nat /\ 1 * 2^20 = 1048576 /\ 3 * 2^20 = 3145728 /\ 2^16 = 65536 /\ 2^20 = 1048576
  BY SMT DEF magicOctet
<1>2. /\ eUnsupportedFormat = Handshake(0, 1)
      /\ eReservedBitsUsed = Handshake(0, 3)
  BY <1>1, SMT DEF eUnsupportedFormat, eReservedBitsUsed, Handshake
<1>3. QED
  BY <1>2, HandshakeFields DEF hasError, errorCode, maxLength, badSerializer

\* No handshake has been read yet when the word is still that of the constructor.
LEMMA NoWordFields == ~hasMagicOctet(NoWord)
  <1>1. 2^24 = 16777216 /\ 2^8 = 256
    BY SMT
  <1>2. (0 \div 16777216) % 256 # 127
    BY SMT
  <1>3. QED
    BY <1>1, <1>2 DEF hasMagicOctet, Get, NoWord

\* What RawsockListener::onHandshakeReceived answers is a genuine handshake: a
\* refusal, or the codec that was asked for, which it supports, with its limit.
LEMMA AnswerFields ==
    ASSUME NEW hs
    PROVE  /\ hasMagicOctet(Answer(hs)) /\ reserved(Answer(hs)) = 0
           /\ \/ hasError(Answer(hs))
              \/ /\ reserved(hs) = 0 /\ codecId(hs) \in ServerCodecs
                 /\ codecId(Answer(hs)) = codecId(hs)
                 /\ maxLength(Answer(hs)) = ServerLength
<1>1. CASE reserved(hs) # 0
  BY <1>1, RefusalFields DEF Answer
<1>2. CASE reserved(hs) = 0 /\ codecId(hs) \in ServerCodecs
  <2>1. codecId(hs) \in 0 .. 15 /\ ServerLength \in 0 .. 15
    BY <1>2, CodecsAssumption, LengthsAssumption DEF MaxLengths
  <2>2. Answer(hs) = Handshake(codecId(hs), ServerLength)
    BY <1>2 DEF Answer
  <2>3. QED
    BY <1>2, <2>1, <2>2, HandshakeFields
<1>3. CASE reserved(hs) = 0 /\ codecId(hs) \notin ServerCodecs
  BY <1>3, RefusalFields DEF Answer
<1>4. QED
  BY <1>1, <1>2, <1>3

-----------------------------------------------------------------------------
(* The inductive invariant *)

\* The handshake that the connector sends.
Hello == Handshake(cCodecId, ClientLength)

\* What either end may report when an operation has failed.
Failures == { Error(what) : what \in {"aborted", "failed"} }

\* The report of the listener once its answer is sent.
ListenerVerdict ==
    IF hasError(sWord) THEN Refused(errorCode(sWord))
    ELSE Transport(codecId(sWord), byteLengthOf(sMaxTxLength), byteLengthOf(ServerLength))

Setup ==
    /\ cCodecId \in ClientCodecs
    /\ foreign \in {"none", "client", "server"}
    /\ foreign = "client" => cStage = "idle"
    /\ foreign = "server" => sStage = "idle"

\* A handler is called by the step that ends its establishment, and by no other.
CallsInv ==
    /\ calls \in [client : Nat, server : Nat]
    /\ calls.client = IF cStage = "done" THEN 1 ELSE 0
    /\ calls.server = IF sStage = "done" THEN 1 ELSE 0

ConnectorInv ==
    /\ cStage # "done" => cOutcome = NoOutcome
    /\ cStage = "done" => cOutcome \in Failures \/ cOutcome = ConnectorVerdict(cWord)

\* The listener judges the word it has read, and answers that one.
Answered ==
    /\ hasMagicOctet(sHeard)
    /\ sWord = Answer(sHeard)
    /\ ~hasError(sWord) => sMaxTxLength = maxLength(sHeard)

ListenerInv ==
    /\ sStage # "done" => sOutcome = NoOutcome
    /\ sStage = "receiving" /\ sOp = "ok" => sWord = sHeard
    /\ sStage = "sending" => Answered
    /\ sStage = "done" => \/ sOutcome \in Failures \cup {Refused(badHandshake)}
                          \/ sOutcome = ListenerVerdict /\ Answered

\* Between two CppWAMP ends only the connector's handshake and the listener's
\* answer to it travel.
WordsInv ==
    foreign = "none" =>
        /\ cStage = "sending" => cWord = Hello
        /\ toServer \in {<< >>, << Hello >>}
        /\ sHeard \in {NoWord, Hello}
        /\ toClient \in {<< >>, << Answer(Hello) >>}
        /\ cStage = "receiving" /\ cOp = "ok" => cWord = Answer(Hello)
        /\ cStage = "done" => cOutcome \in Failures \/ cWord = Answer(Hello)

IndInv == Setup /\ CallsInv /\ ConnectorInv /\ ListenerInv /\ WordsInv

-----------------------------------------------------------------------------
(* The invariant is inductive *)

\* The invariant holds when the program starts.
LEMMA InitInv == Init => IndInv
<1> SUFFICES ASSUME Init PROVE IndInv
  OBVIOUS
<1> USE DEF Init
<1>1. Setup /\ ConnectorInv /\ ListenerInv
  BY DEF Setup, ConnectorInv, ListenerInv
<1>2. CallsInv
  BY DEF CallsInv
<1>3. WordsInv
  BY DEF WordsInv
<1>4. QED
  BY <1>1, <1>2, <1>3 DEF IndInv

\* What the connector's state says stays true as long as it is left alone.
LEMMA ClientKept ==
    ASSUME IndInv, UNCHANGED << cStage, cWord, cOutcome, cCodecId >>
    PROVE  ConnectorInv'
<1>1. ConnectorVerdict(cWord)' = ConnectorVerdict(cWord)
  BY DEF ConnectorVerdict
<1>2. QED
  BY <1>1 DEF IndInv, ConnectorInv

\* Likewise for the listener, whose socket and operation may still change so long
\* as no read is taken for ended.
LEMMA ServerKept ==
    ASSUME IndInv, UNCHANGED << sStage, sWord, sOutcome, sMaxTxLength, sHeard >>,
           sOp' = "ok" /\ sStage = "receiving" => sOp = "ok"
    PROVE  ListenerInv'
<1>1. /\ ListenerVerdict' = ListenerVerdict
      /\ Answered' = Answered
  BY DEF ListenerVerdict, Answered
<1>2. QED
  BY <1>1 DEF IndInv, ListenerInv

\* The messages between two CppWAMP ends stay what they are.
LEMMA WordsKept ==
    ASSUME IndInv, UNCHANGED << cCodecId, foreign, cWord, cOutcome, cStage, sHeard, toClient, toServer >>,
           cOp' = "ok" /\ cStage = "receiving" => cOp = "ok"
    PROVE  WordsInv'
<1>1. Hello' = Hello
  BY DEF Hello
<1>2. QED
  BY <1>1 DEF IndInv, WordsInv

\* Every step preserves the invariant.
LEMMA Step == IndInv /\ [Next]_vars => IndInv'
<1> SUFFICES ASSUME IndInv, [Next]_vars PROVE IndInv'
  OBVIOUS
<1>0. Hello' = Hello /\ UNCHANGED << cCodecId, foreign >>
  BY DEF Next, User, Connector, Listener, Network, vars, setup, Hello, establishConnector, establishListener,
     cancelConnector, cancelListener, ConnectorFails, ConnectorResolved, ConnectorSendHandshake,
     ConnectorReceiveHandshake, ConnectorHandshakeReceived, ListenerFails, ListenerReceiveHandshake,
     ListenerRejects, ListenerSendHandshake, ListenerHandshakeSent, NetResolve, NetConnect, NetConnectFails,
     NetConnectorWrites, NetListenerReads, NetListenerWrites, NetConnectorReads, ForeignSends,
     ConnectorLosesPeer, ListenerLosesPeer
<1> USE DEF setup, client, server
<1>1. CASE establishConnector
  <2> USE <1>1 DEF establishConnector
  <2>1. Setup' /\ CallsInv'
    BY <1>0 DEF IndInv, Setup, CallsInv
  <2>2. ConnectorInv'
    BY DEF IndInv, ConnectorInv
  <2>3. ListenerInv'
    BY ServerKept
  <2>4. WordsInv'
    BY <1>0 DEF IndInv, WordsInv
  <2>5. QED
    BY <2>1, <2>2, <2>3, <2>4 DEF IndInv
<1>2. CASE establishListener
  <2> USE <1>2 DEF establishListener
  <2>1. Setup' /\ CallsInv'
    BY <1>0 DEF IndInv, Setup, CallsInv
  <2>2. ConnectorInv'
    BY ClientKept
  <2>3. ListenerInv'
    BY DEF IndInv, ListenerInv
  <2>4. WordsInv'
    BY WordsKept
  <2>5. QED
    BY <2>1, <2>2, <2>3, <2>4 DEF IndInv
<1>3. CASE cancelConnector
  <2> USE <1>3 DEF cancelConnector, Cancelled
  <2>1. Setup' /\ CallsInv'
    BY <1>0 DEF IndInv, Setup, CallsInv
  <2>2. ConnectorInv'
    BY ClientKept
  <2>3. ListenerInv'
    BY ServerKept
  <2>4. WordsInv'
    BY WordsKept
  <2>5. QED
    BY <2>1, <2>2, <2>3, <2>4 DEF IndInv
<1>4. CASE cancelListener
  <2> USE <1>4 DEF cancelListener, Cancelled
  <2>1. Setup' /\ CallsInv'
    BY <1>0 DEF IndInv, Setup, CallsInv
  <2>2. ConnectorInv'
    BY ClientKept
  <2>3. ListenerInv'
    BY ServerKept
  <2>4. WordsInv'
    BY WordsKept
  <2>5. QED
    BY <2>1, <2>2, <2>3, <2>4 DEF IndInv
<1>5. CASE ConnectorFails
  <2> USE <1>5 DEF ConnectorFails, ConnectorEnds
  <2>1. Setup' /\ CallsInv'
    BY <1>0 DEF IndInv, Setup, CallsInv
  <2>2. ConnectorInv'
    BY DEF IndInv, ConnectorInv, ErrorOf, Failures
  <2>3. ListenerInv'
    BY ServerKept
  <2>4. WordsInv'
    BY <1>0 DEF IndInv, WordsInv, ErrorOf, Failures
  <2>5. QED
    BY <2>1, <2>2, <2>3, <2>4 DEF IndInv
<1>6. CASE ConnectorResolved
  <2> USE <1>6 DEF ConnectorResolved
  <2>1. Setup' /\ CallsInv'
    BY <1>0 DEF IndInv, Setup, CallsInv
  <2>2. ConnectorInv'
    BY DEF IndInv, ConnectorInv
  <2>3. ListenerInv'
    BY ServerKept
  <2>4. WordsInv'
    BY <1>0 DEF IndInv, WordsInv
  <2>5. QED
    BY <2>1, <2>2, <2>3, <2>4 DEF IndInv
<1>7. CASE ConnectorSendHandshake
  <2> USE <1>7 DEF ConnectorSendHandshake
  <2>1. Setup' /\ CallsInv'
    BY <1>0 DEF IndInv, Setup, CallsInv
  <2>2. ConnectorInv'
    BY DEF IndInv, ConnectorInv
  <2>3. ListenerInv'
    BY ServerKept
  <2>4. WordsInv'
    <3>1. cWord' = Hello
      BY DEF Hello
    <3>2. QED
      BY <1>0, <3>1 DEF IndInv, WordsInv
  <2>5. QED
    BY <2>1, <2>2, <2>3, <2>4 DEF IndInv
<1>8. CASE ConnectorReceiveHandshake
  <2> USE <1>8 DEF ConnectorReceiveHandshake
  <2>1. Setup' /\ CallsInv'
    BY <1>0 DEF IndInv, Setup, CallsInv
  <2>2. ConnectorInv'
    BY DEF IndInv, ConnectorInv
  <2>3. ListenerInv'
    BY ServerKept
  <2>4. WordsInv'
    BY <1>0 DEF IndInv, WordsInv, Started
  <2>5. QED
    BY <2>1, <2>2, <2>3, <2>4 DEF IndInv
<1>9. CASE ConnectorHandshakeReceived
  <2> USE <1>9 DEF ConnectorHandshakeReceived, ConnectorEnds
  <2>1. Setup' /\ CallsInv'
    BY <1>0 DEF IndInv, Setup, CallsInv
  <2>2. ConnectorInv'
    <3>1. ConnectorVerdict(cWord)' = ConnectorVerdict(cWord)
      BY <1>0 DEF ConnectorVerdict
    <3>2. QED
      BY <3>1 DEF IndInv, ConnectorInv
  <2>3. ListenerInv'
    BY ServerKept
  <2>4. WordsInv'
    BY <1>0 DEF IndInv, WordsInv
  <2>5. QED
    BY <2>1, <2>2, <2>3, <2>4 DEF IndInv
<1>10. CASE ListenerFails
  <2> USE <1>10 DEF ListenerFails, ListenerEnds
  <2>1. Setup' /\ CallsInv'
    BY <1>0 DEF IndInv, Setup, CallsInv
  <2>2. ConnectorInv'
    BY ClientKept
  <2>3. ListenerInv'
    BY DEF IndInv, ListenerInv, ErrorOf, Failures
  <2>4. WordsInv'
    BY WordsKept
  <2>5. QED
    BY <2>1, <2>2, <2>3, <2>4 DEF IndInv
<1>11. CASE ListenerReceiveHandshake
  <2> USE <1>11 DEF ListenerReceiveHandshake
  <2>1. Setup' /\ CallsInv'
    BY <1>0 DEF IndInv, Setup, CallsInv
  <2>2. ConnectorInv'
    BY ClientKept
  <2>3. ListenerInv'
    BY DEF IndInv, ListenerInv
  <2>4. WordsInv'
    BY WordsKept
  <2>5. QED
    BY <2>1, <2>2, <2>3, <2>4 DEF IndInv
<1>12. CASE ListenerRejects
  <2> USE <1>12 DEF ListenerRejects, ListenerEnds
  <2>1. Setup' /\ CallsInv'
    BY <1>0 DEF IndInv, Setup, CallsInv
  <2>2. ConnectorInv'
    BY ClientKept
  <2>3. ListenerInv'
    BY DEF IndInv, ListenerInv
  <2>4. WordsInv'
    BY WordsKept
  <2>5. QED
    BY <2>1, <2>2, <2>3, <2>4 DEF IndInv
<1>13. CASE ListenerSendHandshake
  <2> USE <1>13 DEF ListenerSendHandshake
  <2>1. Setup' /\ CallsInv'
    BY <1>0 DEF IndInv, Setup, CallsInv
  <2>2. ConnectorInv'
    BY ClientKept
  <2>3. ListenerInv'
    BY DEF IndInv, ListenerInv, Answered
  <2>4. WordsInv'
    BY WordsKept
  <2>5. QED
    BY <2>1, <2>2, <2>3, <2>4 DEF IndInv
<1>14. CASE ListenerHandshakeSent
  <2> USE <1>14 DEF ListenerHandshakeSent, ListenerEnds
  <2>1. Setup' /\ CallsInv'
    BY <1>0 DEF IndInv, Setup, CallsInv
  <2>2. ConnectorInv'
    BY ClientKept
  <2>3. ListenerInv'
    <3>1. Answered /\ Answered'
      BY DEF IndInv, ListenerInv, Answered
    <3>2. sOutcome' = ListenerVerdict'
      BY DEF ListenerVerdict
    <3>3. QED
      BY <3>1, <3>2 DEF ListenerInv
  <2>4. WordsInv'
    BY WordsKept
  <2>5. QED
    BY <2>1, <2>2, <2>3, <2>4 DEF IndInv
<1>15. CASE NetResolve
  <2> USE <1>15 DEF NetResolve
  <2>1. Setup' /\ CallsInv'
    BY <1>0 DEF IndInv, Setup, CallsInv
  <2>2. ConnectorInv'
    BY ClientKept
  <2>3. ListenerInv'
    BY ServerKept
  <2>4. WordsInv'
    BY WordsKept
  <2>5. QED
    BY <2>1, <2>2, <2>3, <2>4 DEF IndInv
<1>16. CASE NetConnect
  <2> USE <1>16 DEF NetConnect
  <2>1. Setup' /\ CallsInv'
    BY <1>0 DEF IndInv, Setup, CallsInv
  <2>2. ConnectorInv'
    BY ClientKept
  <2>3. ListenerInv'
    BY ServerKept
  <2>4. WordsInv'
    BY WordsKept
  <2>5. QED
    BY <2>1, <2>2, <2>3, <2>4 DEF IndInv
<1>17. CASE NetConnectFails
  <2> USE <1>17 DEF NetConnectFails
  <2>1. Setup' /\ CallsInv'
    BY <1>0 DEF IndInv, Setup, CallsInv
  <2>2. ConnectorInv'
    BY ClientKept
  <2>3. ListenerInv'
    BY ServerKept
  <2>4. WordsInv'
    BY WordsKept
  <2>5. QED
    BY <2>1, <2>2, <2>3, <2>4 DEF IndInv
<1>18. CASE NetConnectorWrites
  <2> USE <1>18 DEF NetConnectorWrites
  <2>1. Setup' /\ CallsInv'
    BY <1>0 DEF IndInv, Setup, CallsInv
  <2>2. ConnectorInv'
    BY ClientKept
  <2>3. ListenerInv'
    BY ServerKept
  <2>4. WordsInv'
    BY <1>0 DEF IndInv, WordsInv
  <2>5. QED
    BY <2>1, <2>2, <2>3, <2>4 DEF IndInv
<1>19. CASE NetListenerReads
  <2> USE <1>19 DEF NetListenerReads
  <2>1. Setup' /\ CallsInv'
    BY <1>0 DEF IndInv, Setup, CallsInv
  <2>2. ConnectorInv'
    BY ClientKept
  <2>3. ListenerInv'
    BY DEF IndInv, ListenerInv
  <2>4. WordsInv'
    BY <1>0 DEF IndInv, WordsInv
  <2>5. QED
    BY <2>1, <2>2, <2>3, <2>4 DEF IndInv
<1>20. CASE NetListenerWrites
  <2> USE <1>20 DEF NetListenerWrites
  <2>1. Setup' /\ CallsInv'
    BY <1>0 DEF IndInv, Setup, CallsInv
  <2>2. ConnectorInv'
    BY ClientKept
  <2>3. ListenerInv'
    BY ServerKept
  <2>4. WordsInv'
    <3>1. foreign = "none" => sWord = Answer(Hello)
      BY NoWordFields DEF IndInv, ListenerInv, Answered, WordsInv
    <3>2. QED
      BY <1>0, <3>1 DEF IndInv, WordsInv
  <2>5. QED
    BY <2>1, <2>2, <2>3, <2>4 DEF IndInv
<1>21. CASE NetConnectorReads
  <2> USE <1>21 DEF NetConnectorReads
  <2>1. Setup' /\ CallsInv'
    BY <1>0 DEF IndInv, Setup, CallsInv
  <2>2. ConnectorInv'
    BY DEF IndInv, ConnectorInv
  <2>3. ListenerInv'
    BY ServerKept
  <2>4. WordsInv'
    BY <1>0 DEF IndInv, WordsInv
  <2>5. QED
    BY <2>1, <2>2, <2>3, <2>4 DEF IndInv
<1>22. CASE ForeignSends
  <2> USE <1>22 DEF ForeignSends
  <2>1. Setup' /\ CallsInv'
    BY <1>0 DEF IndInv, Setup, CallsInv
  <2>2. ConnectorInv'
    BY ClientKept
  <2>3. ListenerInv'
    BY ServerKept
  <2>4. WordsInv'
    BY <1>0 DEF IndInv, WordsInv
  <2>5. QED
    BY <2>1, <2>2, <2>3, <2>4 DEF IndInv
<1>23. CASE ConnectorLosesPeer
  <2> USE <1>23 DEF ConnectorLosesPeer
  <2>1. Setup' /\ CallsInv'
    BY <1>0 DEF IndInv, Setup, CallsInv
  <2>2. ConnectorInv'
    BY ClientKept
  <2>3. ListenerInv'
    BY ServerKept
  <2>4. WordsInv'
    BY WordsKept
  <2>5. QED
    BY <2>1, <2>2, <2>3, <2>4 DEF IndInv
<1>24. CASE ListenerLosesPeer
  <2> USE <1>24 DEF ListenerLosesPeer
  <2>1. Setup' /\ CallsInv'
    BY <1>0 DEF IndInv, Setup, CallsInv
  <2>2. ConnectorInv'
    BY ClientKept
  <2>3. ListenerInv'
    BY ServerKept
  <2>4. WordsInv'
    BY WordsKept
  <2>5. QED
    BY <2>1, <2>2, <2>3, <2>4 DEF IndInv
<1>25. CASE UNCHANGED vars
  <2> USE <1>25 DEF vars
  <2>1. Setup' /\ CallsInv'
    BY <1>0 DEF IndInv, Setup, CallsInv
  <2>2. QED
    BY <2>1, ClientKept, ServerKept, WordsKept DEF IndInv
<1>26. QED
  BY <1>1, <1>2, <1>3, <1>4, <1>5, <1>6, <1>7, <1>8, <1>9, <1>10, <1>11, <1>12, <1>13, <1>14,
     <1>15, <1>16, <1>17, <1>18, <1>19, <1>20, <1>21, <1>22, <1>23, <1>24, <1>25 DEF Next, User,
     Connector, Listener, Network

\* What each end holds is what its counterpart has sent, in every reachable state.
THEOREM Invariance == Spec => []IndInv
  BY InitInv, Step, PTL DEF Spec

-----------------------------------------------------------------------------
(* The properties *)

\* What the connector has read when it reports a transport.
LEMMA ConnectorTransport ==
    ASSUME IndInv, cOutcome.kind = "transport"
    PROVE  /\ cStage = "done" /\ cOutcome \notin Failures
           /\ hasMagicOctet(cWord) /\ reserved(cWord) = 0 /\ codecId(cWord) = cCodecId
           /\ cOutcome = Transport(cCodecId, byteLengthOf(maxLength(cWord)),
                                   byteLengthOf(ClientLength))
<1>1. cStage = "done" /\ cOutcome \notin Failures
  BY DEF IndInv, ConnectorInv, NoOutcome, Failures, Error
<1>2. cOutcome = ConnectorVerdict(cWord)
  BY <1>1 DEF IndInv, ConnectorInv
<1>3. \A errc : cOutcome # Refused(errc)
  BY DEF Refused
<1>4. QED
  BY <1>1, <1>2, <1>3 DEF ConnectorVerdict

\* What the listener has read when it reports a transport.
LEMMA ListenerTransport ==
    ASSUME IndInv, sOutcome.kind = "transport"
    PROVE  /\ hasMagicOctet(sHeard) /\ reserved(sHeard) = 0 /\ codecId(sHeard) \in ServerCodecs
           /\ sStage = "done"
           /\ sOutcome = Transport(codecId(sHeard), byteLengthOf(maxLength(sHeard)),
                                   byteLengthOf(ServerLength))
<1>1. sStage = "done" /\ sOutcome \notin Failures
  BY DEF IndInv, ListenerInv, NoOutcome, Failures, Error
<1>2. \A errc : sOutcome # Refused(errc)
  BY DEF Refused
<1>3. sOutcome = ListenerVerdict /\ Answered
  BY <1>1, <1>2 DEF IndInv, ListenerInv
<1>4. ~hasError(sWord)
  BY <1>2, <1>3 DEF ListenerVerdict
<1>5. /\ reserved(sHeard) = 0 /\ codecId(sHeard) \in ServerCodecs
      /\ codecId(sWord) = codecId(sHeard) /\ sMaxTxLength = maxLength(sHeard)
  BY <1>3, <1>4, AnswerFields DEF Answered
<1>6. QED
  BY <1>1, <1>3, <1>4, <1>5 DEF ListenerVerdict, Answered

\* The fields of the handshake that the connector sends.
LEMMA HelloFields ==
    ASSUME IndInv
    PROVE  /\ hasMagicOctet(Hello) /\ reserved(Hello) = 0
           /\ codecId(Hello) = cCodecId /\ maxLength(Hello) = ClientLength
           /\ cCodecId # 0
<1>1. cCodecId \in 0 .. 15 /\ cCodecId # 0 /\ ClientLength \in 0 .. 15
  BY CodecsAssumption, LengthsAssumption DEF IndInv, Setup, MaxLengths
<1>2. QED
  BY <1>1, HandshakeFields DEF Hello

\* Two ends that established a transport agree, by the words that they sent.
LEMMA AgreementHolds == IndInv => Agreement
<1> SUFFICES ASSUME IndInv, cOutcome.kind = "transport", sOutcome.kind = "transport"
             PROVE  /\ cOutcome.codec = sOutcome.codec
                    /\ cOutcome.maxTx = sOutcome.maxRx
                    /\ sOutcome.maxTx = cOutcome.maxRx
  BY DEF Agreement
<1>1. foreign = "none"
  BY ConnectorTransport, ListenerTransport DEF IndInv, Setup
<1>2. sHeard = Hello
  BY <1>1, ListenerTransport, NoWordFields DEF IndInv, WordsInv
<1>3. cWord = Answer(Hello)
  BY <1>1, ConnectorTransport DEF IndInv, WordsInv
<1>4. maxLength(cWord) = ServerLength
  BY <1>3, AnswerFields, HelloFields, ConnectorTransport DEF hasError
<1>5. codecId(sHeard) = cCodecId /\ maxLength(sHeard) = ClientLength
  BY <1>2, HelloFields
<1>6. QED
  BY <1>4, <1>5, ConnectorTransport, ListenerTransport DEF Transport

\* Each end keeps to the limits that the other asked for.
LEMMA HonouredHolds == IndInv => HandshakeHonoured
  BY ConnectorTransport, ListenerTransport DEF HandshakeHonoured, Transport

\* A refusal is reported as what it says.
LEMMA RefusalHolds == IndInv => RefusalIsReported
<1> SUFFICES ASSUME IndInv, foreign = "none", cCodecId \notin ServerCodecs
             PROVE  /\ sOutcome.kind # "transport"
                    /\ cOutcome.kind \in {"none", "error"} \/ cOutcome = Refused(badSerializer)
  BY DEF RefusalIsReported
<1>1. sOutcome.kind # "transport"
  BY ListenerTransport, HelloFields, NoWordFields DEF IndInv, WordsInv
<1>2. Answer(Hello) = eUnsupportedFormat
  BY HelloFields DEF Answer
<1>3. ConnectorVerdict(Answer(Hello)) = Refused(badSerializer)
  BY <1>2, HelloFields, RefusalFields DEF ConnectorVerdict, hasError
<1>4. CASE cStage # "done"
  BY <1>1, <1>4 DEF IndInv, ConnectorInv, NoOutcome
<1>5. CASE cStage = "done" /\ cOutcome \in Failures
  BY <1>1, <1>5 DEF Failures, Error
<1>6. CASE cStage = "done" /\ cOutcome \notin Failures
  BY <1>1, <1>3, <1>6 DEF IndInv, ConnectorInv, WordsInv
<1>7. QED
  BY <1>4, <1>5, <1>6

\* An attempt to establish has one outcome.
LEMMA OneOutcomeHolds == IndInv => OneOutcome
  BY DEF IndInv, CallsInv, OneOutcome

\* Two CppWAMP ends that both report a transport have agreed: RawsockConnector and
\* RawsockListener complete() with the same codec, and the limit on what one sends
\* is the limit on what the other accepts, for any two lengths.
THEOREM EndsAgree == Spec => []Agreement
  BY Invariance, AgreementHolds, PTL

\* Whatever words a foreign end sends, neither onHandshakeReceived reports a
\* transport for one without the magic octet, with reserved bits, or for a codec
\* that was not asked for or is not supported.
THEOREM HandshakesAreHonoured == Spec => []HandshakeHonoured
  BY Invariance, HonouredHolds, PTL

\* A codec that the listener lacks ends in badSerializer at the connector, unless
\* the connection or a cancel() comes between: the error is not lost to the test
\* of the codec that precedes it in RawsockConnector::onHandshakeReceived.
THEOREM RefusalsAreReported == Spec => []RefusalIsReported
  BY Invariance, RefusalHolds, PTL

\* The handler of establish() is called once at most at either end, though cancel()
\* may meet any operation pending, ended or not yet started.
THEOREM OutcomesAreSingle == Spec => []OneOutcome
  BY Invariance, OneOutcomeHolds, PTL
=============================================================================
