----------------------------- MODULE Completion -----------------------------
(***************************************************************************)
(* What a session promises those who hand it a completion handler: every   *)
(* handler it has taken it owes one final outcome, which it hands over     *)
(* once, after any number of intermediate ones, or does not owe any more   *)
(* because the user has terminated the session.  One handler is told at a  *)
(* time, and a terminated session is silent until it is used again.        *)
(***************************************************************************)
CONSTANTS
    Handlers,         \* the completion handlers that users may pass
    Final             \* the outcomes that end an operation

VARIABLES
    issued,           \* handlers that were passed to an operation
    owed,             \* those of them that the session still holds
    heard,            \* what each was told last
    excused,          \* those whose users have given up on an answer
    silent            \* the session was terminated

vars == << issued, owed, heard, excused, silent >>

Init ==
    /\ issued = {} /\ owed = {} /\ excused = {} /\ silent = FALSE
    /\ heard = [h \in Handlers |-> "none"]

\* An operation begins.
Take(h) ==
    /\ h \in Handlers \ issued
    /\ issued' = issued \cup {h} /\ owed' = owed \cup {h} /\ silent' = FALSE
    /\ UNCHANGED << heard, excused >>

\* An operation is refused at once, in a state in which it has no place.
Refuse(h) ==
    /\ h \in Handlers \ issued /\ ~silent
    /\ issued' = issued \cup {h}
    /\ heard' = [heard EXCEPT ![h] = "invalidState"]
    /\ UNCHANGED << owed, excused, silent >>

\* The same, after the session was terminated: nobody is told.
Ignore(h) ==
    /\ h \in Handlers \ issued /\ silent
    /\ issued' = issued \cup {h} /\ excused' = excused \cup {h}
    /\ UNCHANGED << owed, heard, silent >>

\* An intermediate outcome
Advance(h) ==
    /\ h \in owed /\ heard[h] \notin Final /\ ~silent
    /\ heard' = [heard EXCEPT ![h] = "progress"]
    /\ UNCHANGED << issued, owed, excused, silent >>

\* The final outcome, of a handler that has not had one
Complete(h, outcome) ==
    /\ h \in owed /\ heard[h] \notin Final /\ ~silent
    /\ heard' = [heard EXCEPT ![h] = outcome]
    /\ owed' = owed \ {h}
    /\ UNCHANGED << issued, excused, silent >>

\* The user terminates the session, which drops handlers then or later on.
Terminate ==
    /\ silent' = TRUE
    /\ excused' = excused \cup owed
    /\ owed' \in SUBSET owed
    /\ UNCHANGED << issued, heard >>

Next ==
    \/ \E h \in Handlers :
        \/ Take(h) \/ Refuse(h) \/ Ignore(h) \/ Advance(h)
        \/ \E outcome \in Final : Complete(h, outcome)
    \/ Terminate

Spec == Init /\ [][Next]_vars
=============================================================================
