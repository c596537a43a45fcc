------------------------- MODULE MCTerminalManager -------------------------
(* TerminalManager over both repositories in one instance: the cfg gives   *)
(* the one of contracts.ts, and a behaviour may choose the shipped one.    *)
EXTENDS TerminalManager

VARIABLE shipped    \* TRUE: better-sqlite3

Shipped == INSTANCE TerminalManager WITH SqliteRepository <- TRUE

MCInit == Init /\ shipped \in BOOLEAN
MCNext ==
    /\ IF shipped THEN Shipped!Next ELSE Next
    /\ UNCHANGED shipped

MCSpec ==
    /\ MCInit /\ [][MCNext]_<<vars, shipped>>
    /\ (shipped /\ Shipped!Fairness) \/ (~shipped /\ Fairness)

\* Over the shipped repository the first of a close and the native exit decides the
\* exit code that is recorded; row, descriptor and announcements agree; and closeAll()
\* fulfils only with the process dead, the row exited and the output published
\* (manager.ts, finalizationCause, enqueueDescriptorTransition and closeAll).
ShippedAgrees ==
    shipped => FirstCauseWins /\ RecordAgrees /\ CloseAllMeansClosed

\* Over the shipped repository the manager is the abstract terminal: it appears once,
\* is resized and speaks in order while it runs, and exits once, after its last chunk
\* (manager.ts, onChanged and onOutput).
ShippedContract == INSTANCE TerminalContract WITH
    shown <- [t \in Terminals |-> IF shipped THEN Shown(t) ELSE NoDescriptor],
    log <- [t \in Terminals |-> IF shipped THEN output[t].published ELSE <<>>]
KeepsContract == ShippedContract!Spec

\* A process that exited gets its session finalized for good, however many closes gave
\* up before, and whoever waits on closeAll() gets an answer (manager.ts,
\* runFinalization and closeAll).
EveryCloseEnds == FinalizationEnds /\ CloseAllAnswers
=============================================================================
