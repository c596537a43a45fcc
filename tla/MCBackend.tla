------------------------------ MODULE MCBackend ------------------------------
(* Two calls at a time: a heartbeat or an approval, and any other one. *)
EXTENDS Backend, TLC

AnyAndApproval(w) ==
    IF w = "second" THEN {"heartbeat", "approve"}
    ELSE {"create", "approve", "reject", "publish", "peer", "turn"}

BrowsersAlike == Permutations(Browsers)
=============================================================================
