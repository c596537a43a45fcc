--------------------------- MODULE MCRemoteOutput ---------------------------
(* Two instances of RemoteOutput in one: the cfg gives the one whose       *)
(* connection is lost and resumed, and a behaviour may be of the one whose *)
(* process exits and whose tab is closed.                                  *)
EXTENDS RemoteOutput

VARIABLE ending

Ending == INSTANCE RemoteOutput WITH
    MayExit <- TRUE, MayClose <- TRUE, MaxConnections <- 1, MaxRequests <- 2

MCNext ==
    /\ IF ending THEN Ending!Next ELSE Next
    /\ UNCHANGED ending
MCInit == Init /\ ending \in BOOLEAN
MCSpec == MCInit /\ [][MCNext]_<<vars, ending>> /\ Fairness

\* What is published is in order, once, and without a gap, with reads that cut chunks;
\* what is sent is bounded (attachment-pump.ts pump, terminal-router.ts acceptFrame).
StreamFollows == ReceivesTheStream /\ NoGap /\ BufferBounded

\* Unless its process exits or its tab is closed, every stored byte reaches the renderer
\* of a session that stays connected and was attached once to its connection
\* (attachment-pump.ts, onBufferedAmountLow).
ResumedOutputArrives ==
    []<>(ending \/ attachment = "later" \/ Len(received) = Stored \/ Abandoned)
=============================================================================
