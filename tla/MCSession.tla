----------------------------- MODULE MCSession -----------------------------
(* Model checking of Session.  Handlers are interchangeable, so they are    *)
(* handed out in the order 1, 2, 3, ...                                     *)
EXTENDS Session

CONSTANT NumHandlers

MCHandlers == 1 .. NumHandlers

InOrder == issued' = 1 .. Cardinality(issued')

MCNext == Next /\ InOrder

MCSpec == Init /\ [][MCNext]_vars

MCFairSpec == MCSpec /\ WF_vars(RunStrand)
=============================================================================
