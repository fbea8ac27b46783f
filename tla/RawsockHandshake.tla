-------------------------- MODULE RawsockHandshake --------------------------
(***************************************************************************)
(* internal::RawsockHandshake: the 32-bit words, in host order, that open  *)
(* a raw socket connection.  The octets are the magic one, one for the     *)
(* maximum length (or the error) and the codec, and two reserved ones.     *)
(***************************************************************************)
EXTENDS Naturals

-----------------------------------------------------------------------------
magicOctet == 127 * 2^24

\* RawsockHandshake::get for a field of the given width.
Get(word, pos, width) == (word \div 2^pos) % 2^width

reserved(hs)      == Get(hs, 0, 16)
codecId(hs)       == Get(hs, 16, 4)
maxLength(hs)     == Get(hs, 20, 4)
errorCode(hs)     == Get(hs, 20, 4)
hasMagicOctet(hs) == Get(hs, 24, 8) = 127

\* An error is a handshake with no codec.
hasError(hs) == codecId(hs) = 0

\* Mutant: the length is left out.
MutHandshake(codec, length) == magicOctet + codec * 2^16

\* RawsockHandshake().setCodecId(codec).setMaxLength(length).  put() ors the bits
\* in; for a codec and a length below 16 they are disjoint, and or is a sum.
Handshake(codec, length) == magicOctet + codec * 2^16 + length * 2^20

eUnsupportedFormat == magicOctet + 1 * 2^20
eReservedBitsUsed  == magicOctet + 3 * 2^20

\* RawsockErrc, for the errors of a handshake.
badSerializer    == 1
reservedBitsUsed == 3
badHandshake     == 16

\* RawsockMaxLength B_512 .. MB_16, and its length in bytes.
MaxLengths == 0 .. 15
byteLengthOf(length) == 2^(length + 9)
=============================================================================
