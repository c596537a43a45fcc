---------------------------- MODULE MCScrollback ----------------------------
(* Scrollback with both kinds of records in one instance: the cfg gives the *)
(* one whose cursors are in the cursor file alone, and a behaviour may be   *)
(* of the shipped one, whose records carry them.                            *)
EXTENDS Scrollback

VARIABLE shipped    \* TRUE: a byte limit of 1024 or more

Shipped == INSTANCE Scrollback WITH InlineCursors <- TRUE

MCInit == Init /\ shipped \in BOOLEAN
MCNext ==
    /\ IF shipped THEN Shipped!Next ELSE Next
    /\ UNCHANGED shipped

MCSpec ==
    /\ MCInit /\ [][MCNext]_<<vars, shipped>>
    /\ (shipped /\ Shipped!Fairness) \/ (~shipped /\ Fairness)
=============================================================================
