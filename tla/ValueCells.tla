----------------------------- MODULE ValueCells -----------------------------
(***************************************************************************)
(* What Variant, Outcome, ErrorOr and the handles of subscriptions promise *)
(* their users: objects that hold a value each, are made, copied, moved,   *)
(* swapped and dropped, and never hold anything else than was put into     *)
(* them.  A scoped object ends what it holds when it loses it, unless it   *)
(* is moved to another or released.                                        *)
(***************************************************************************)
CONSTANTS
    Cells,            \* the objects
    Scoped,           \* those among them that end what they hold
    Values,           \* what they may hold
    None,             \* of an object that does not exist
    Empty,            \* of a handle of nothing
    MovedFrom(_)      \* what may be left of a value that was moved away

VARIABLES
    val,              \* what each object holds
    ended,            \* the values that scoped objects have ended
    op                \* the operation that was called last

Init == val = [c \in Cells |-> None] /\ ended = {} /\ op = << >>

Ends(c) == ended' = ended \cup (IF c \in Scoped THEN {val[c]} \ {None, Empty} ELSE {})

Make(c, v) == op' = << "make", c, v >> /\ val' = [val EXCEPT ![c] = v] /\ Ends(c)

Drop(c) == op' = << "drop", c >> /\ val' = [val EXCEPT ![c] = None] /\ Ends(c)

Copy(c, d) ==
    /\ val[d] # None
    /\ op' = << "copy", c, d >> /\ val' = [val EXCEPT ![c] = val[d]] /\ Ends(c)

\* An object that is moved to itself may also keep its value.
Move(c, d) ==
    /\ val[d] # None
    /\ op' = << "move", c, d >>
    /\ \E left \in MovedFrom(val[d]) \cup (IF c = d THEN {val[d]} ELSE {}) :
          val' = [val EXCEPT ![c] = val[d], ![d] = left]
    /\ Ends(c)

\* The value is moved to somewhere else.
Take(c) ==
    /\ val[c] # None
    /\ op' = << "take", c >>
    /\ \E left \in MovedFrom(val[c]) : val' = [val EXCEPT ![c] = left]
    /\ UNCHANGED ended

Swap(c, d) ==
    /\ op' = << "swap", c, d >> /\ val' = [val EXCEPT ![c] = val[d], ![d] = val[c]]
    /\ UNCHANGED ended

Release(c) ==
    /\ c \in Scoped
    /\ op' = << "release", c >> /\ val' = [val EXCEPT ![c] = Empty]
    /\ UNCHANGED ended

Next ==
    \E c \in Cells :
        \/ \E v \in Values : Make(c, v)
        \/ Drop(c) \/ Take(c) \/ Release(c)
        \/ \E d \in Cells : Copy(c, d) \/ Move(c, d) \/ Swap(c, d)

Spec == Init /\ [][Next]_<< val, ended, op >>
=============================================================================
