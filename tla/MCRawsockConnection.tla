------------------------ MODULE MCRawsockConnection ------------------------
(* Model checking of RawsockConnection: a foreign peer answers with a codec  *)
(* that was asked for or another one, with every error, with reserved bits   *)
(* set, or with something that is not a handshake at all.                    *)
EXTENDS RawsockConnection

MCForeignWords ==
    { Handshake(c, l) : c \in {0, 1, 2, 3}, l \in {0, 1, 3, 15} }
        \cup { Handshake(1, 4) + 1, Handshake(2, 15) + 2^15, 0, 126 * 2^24 }
=============================================================================
