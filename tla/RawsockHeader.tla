--------------------------- MODULE RawsockHeader ---------------------------
(***************************************************************************)
(* internal::RawsockHeader and the lengths at which it is used.            *)
(*                                                                         *)
(* A message that Peer lets through (Peer::send compares its size with     *)
(* maxTxLength_) is framed under a header of 32 bits, eight for the type   *)
(* and 24 for the length, and the header is checked where it is read.  The *)
(* module takes one frame from one end to the other.                       *)
(***************************************************************************)
EXTENDS Integers

CONSTANTS
    Limits,            \* the RawsockMaxLength enumerators that ends may use
    MsgTypeCodes       \* type octets that a foreign peer may send

ASSUME LimitsAssumption == Limits \subseteq 0 .. 15

VARIABLES
    stage,             \* "idle", "sent", "read" or "refused"
    sent,              \* type and length of the frame
    limit,             \* maxTxLength of the sender, which is the receiver's maxRxLength
    header,            \* the word on the wire
    result             \* how the receiver has understood it

headerVars == << stage, sent, limit, header, result >>

byteLengthOf(length) == 2^(length + 9)

\* RawsockMsgType: wamp, ping, pong
wamp == 0
ping == 1
pong == 2

\* Mutant: the type is shifted by two octets, into the length.
MutHeader(type, length) == (type * 2^16) + length

\* RawsockHeader().setMsgType(type).setLength(length).  put() ors the bits
\* in; of a length up to the limit, 2^24 alone has a bit among the type's: the
\* lowest.
Header(type, length) ==
    LET octet == IF length < 2^24 \/ type % 2 = 1 THEN type ELSE type + 1
    IN (octet * 2^24) + (length % 2^24)

Length(hdr) == hdr % 2^24
MsgType(hdr) == hdr \div 2^24
msgTypeIsValid(hdr) == MsgType(hdr) \in {wamp, ping, pong}

\* Lengths around the limit, of which Peer lets the first ones through.
LengthsNear(max) == {0, 1, max \div 2, max - 1, max, max + 1}

NoResult == [type |-> 0, length |-> 0]

HeaderInit ==
    /\ stage = "idle" /\ header = 0 /\ sent = NoResult /\ result = NoResult
    /\ limit \in { byteLengthOf(l) : l \in Limits }

\* Peer::send, then enframe().
Send(type, length) ==
    /\ stage = "idle"
    /\ length <= limit
    /\ sent' = [type |-> type, length |-> length]
    /\ header' = Header(type, length)
    /\ stage' = "sent"
    /\ UNCHANGED << limit, result >>

\* A peer that is not CppWAMP sends a header of its own.
ForeignSend(type, length) ==
    /\ stage = "idle"
    /\ length < 2^24
    /\ sent' = [type |-> type, length |-> length]
    /\ header' = (type * 2^24) + length
    /\ stage' = "sent"
    /\ UNCHANGED << limit, result >>

Accepts(hdr, max) == Length(hdr) <= max /\ msgTypeIsValid(hdr)

\* RawsockTransport::processHeader
processHeader ==
    /\ stage = "sent"
    /\ IF Accepts(header, limit)
         THEN stage' = "read" /\ result' = [type |-> MsgType(header), length |-> Length(header)]
         ELSE stage' = "refused" /\ UNCHANGED result
    /\ UNCHANGED << sent, limit, header >>

HeaderNext ==
    \/ \E t \in {wamp, ping, pong}, n \in LengthsNear(limit) : Send(t, n)
    \/ \E t \in MsgTypeCodes, n \in LengthsNear(limit) : ForeignSend(t, n)
    \/ processHeader

-----------------------------------------------------------------------------
\* A frame is read as what was sent, and every frame with a type that exists and
\* a length up to the limit, which is what Peer lets through, is read; but for a
\* message of 2^24 octets, which a limit of 16 MB lets through and whose length
\* does not fit the header: its type and length are read wrong, or it is refused.
FrameSurvives ==
    sent.length < 2^24 =>
        /\ stage = "read" => result = sent /\ sent.length <= limit
        /\ stage = "refused" => sent.length > limit \/ sent.type \notin {wamp, ping, pong}
=============================================================================
