------------------------------ MODULE Channel ------------------------------
(***************************************************************************)
(* What a transport promises the Peer that uses it.  The frames handed to  *)
(* it come out at the other end in their order, without a gap, until the   *)
(* connection breaks and for good.  Messages, and pongs of the ping that   *)
(* waits for one, arrive from start() until close() or the one error that  *)
(* is reported.  What has arrived is heard once, in its order and later:   *)
(* also after the end of the channel, whose error may be heard first.      *)
(***************************************************************************)
EXTENDS Naturals, Sequences

CONSTANTS
    Frames,           \* what may be handed to the channel
    NoPing            \* no ping waits for a pong

VARIABLES
    stage,            \* "new", "open" once it was started, and "over"
    accepted,         \* the frames that were handed over
    delivered,        \* those that went out
    broken,           \* nothing goes out any more
    arrived,          \* what came in and was not heard yet
    heard,            \* what was reported
    awaiting          \* the place among the accepted frames of the ping that waits

vars == << stage, accepted, delivered, broken, arrived, heard, awaiting >>

Note(what, ofPing) == [what |-> what, ping |-> ofPing, pong |-> ofPing]
Message == Note("message", NoPing)
Error == Note("error", NoPing)

Init ==
    /\ stage = "new" /\ ~broken
    /\ accepted = << >> /\ delivered = << >>
    /\ arrived = << >> /\ heard = << >>
    /\ awaiting = NoPing

Start ==
    /\ stage = "new" /\ stage' = "open"
    /\ UNCHANGED << accepted, delivered, broken, arrived, heard, awaiting >>

\* A frame is taken, though it goes nowhere once the channel is broken.
Accept(frame) ==
    /\ stage # "new"
    /\ accepted' = Append(accepted, frame)
    /\ awaiting' \in {awaiting, Len(accepted) + 1}
    /\ UNCHANGED << stage, delivered, broken, arrived, heard >>

Deliver ==
    /\ ~broken /\ Len(delivered) < Len(accepted)
    /\ delivered' = Append(delivered, accepted[Len(delivered) + 1])
    /\ UNCHANGED << stage, accepted, broken, arrived, heard, awaiting >>

Break ==
    /\ ~broken /\ broken' = TRUE
    /\ UNCHANGED << stage, accepted, delivered, arrived, heard, awaiting >>

Arrive ==
    /\ stage = "open"
    /\ arrived' = Append(arrived, Message)
    /\ UNCHANGED << stage, accepted, delivered, broken, heard, awaiting >>

Pong ==
    /\ stage = "open" /\ awaiting # NoPing
    /\ arrived' = Append(arrived, Note("pong", awaiting)) /\ awaiting' = NoPing
    /\ UNCHANGED << stage, accepted, delivered, broken, heard >>

\* In any stage.
Hear ==
    /\ arrived # << >>
    /\ heard' = Append(heard, Head(arrived)) /\ arrived' = Tail(arrived)
    /\ UNCHANGED << stage, accepted, delivered, broken, awaiting >>

\* The channel ends: with an error that is heard at once or in its turn, or by
\* close(), which is not reported.
End(atOnce, inTurn) ==
    /\ stage = "open" /\ stage' = "over"
    /\ broken' = TRUE
    /\ heard' = heard \o atOnce /\ arrived' = arrived \o inTurn
    /\ awaiting' \in {awaiting, NoPing}
    /\ UNCHANGED << accepted, delivered >>

\* What is left after the end is put away.
Tidy ==
    /\ stage = "over" /\ awaiting' = NoPing
    /\ UNCHANGED << stage, accepted, delivered, broken, arrived, heard >>

Next ==
    \/ Start \/ Deliver \/ Break \/ Arrive \/ Pong \/ Hear \/ Tidy
    \/ \E frame \in Frames : Accept(frame)
    \/ End(<< >>, << >>) \/ End(<< Error >>, << >>) \/ End(<< >>, << Error >>)

Spec == Init /\ [][Next]_vars
=============================================================================
