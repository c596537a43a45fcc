-------------------------- MODULE TerminalManager --------------------------
(***************************************************************************)
(* The desktop's TerminalManager (apps/desktop/src/main/terminal/          *)
(* manager.ts): one session object per PTY, created, fed by PTY callbacks, *)
(* resized, and finalized exactly once, while every call on the repository *)
(* and on the output store is a promise whose continuation runs later.     *)
(*                                                                         *)
(* The PTY, the repository and the output store are the environment; what  *)
(* they may do wrong is the constant Faults.  With SqliteRepository the    *)
(* repository is the shipped one: its statements run inside the call, so   *)
(* a continuation is a microtask and no macrotask (PTY event, timer, file  *)
(* system completion, IPC request) fits between the call and it.  Without  *)
(* it the repository is anything contracts.ts allows.                      *)
(***************************************************************************)
EXTENDS Integers, Sequences

CONSTANTS
    Terminals,          \* terminal identifiers (randomUUID)
    NativeCodes,        \* exit codes a PTY may report
    MaxOutput,          \* bound: data events of one PTY
    MaxResize,          \* bound: resize requests of one terminal
    SqliteRepository,   \* TRUE: better-sqlite3; FALSE: any TerminalRepository
    Faults              \* operations of the environment that may fail

FaultKinds == {"save", "update", "append", "pty", "listener"}

ASSUME TerminalManagerAssumption ==
    /\ NativeCodes \subseteq Nat
    /\ MaxOutput \in Nat
    /\ MaxResize \in Nat
    /\ SqliteRepository \in BOOLEAN
    /\ Faults \subseteq FaultKinds

VARIABLES
    creation,       \* where create() is
    session,        \* acceptingInput, pty, listeners, nativeExitCode
    output,         \* outputTail with what precedes and follows it
    record,         \* descriptorTail, the descriptor, the row, announcements
    finalization,   \* finalizationPromise and the run behind it
    process,        \* the child process (environment)
    closeAll,       \* per terminal, the promise the last closeAll() waits on
    history         \* what came first, and whether an update was rejected

vars == <<creation, session, output, record, finalization, process, closeAll,
          history>>

-----------------------------------------------------------------------------
(* Data *)

Undefined == -2         \* exitCode of a descriptor that has none
RolledBackCode == -1
ExitTransition == 0     \* a queued transition: 0 is the exit, n a resize to n

ExitCodes == NativeCodes \cup {0, RolledBackCode, Undefined}

Sizes == 0..MaxResize       \* a size is the number of the resize that set it
Chunks == 1..MaxOutput      \* a chunk is the number of its data event

Descriptors == [state : {"none", "running", "exited"},
                size : Sizes,
                exitCode : ExitCodes]

NoDescriptor == [state |-> "none", size |-> 0, exitCode |-> Undefined]
FirstDescriptor == [state |-> "running", size |-> 0, exitCode |-> Undefined]

Exited(d, code) == [d EXCEPT !.state = "exited", !.exitCode = code]

Update(r, d) == IF r = NoDescriptor THEN r ELSE d   \* UPDATE ... WHERE id = ?

Ids(n) == [i \in 1..n |-> i]

\* An error variable: undefined, or an error; and what a call may throw.
Errors == {"undefined", "error"}
Thrown(kind) == IF kind \in Faults THEN Errors ELSE {"undefined"}
Coalesce(first, second) == IF first = "undefined" THEN second ELSE first

-----------------------------------------------------------------------------
(* Reading the state *)

InMap(t) == creation[t] \in {"saving", "saveFailing", "created"}

ExitResolved(t) == session[t].exitCode # Undefined

CauseCode(t) ==
    IF finalization[t].cause = "close" THEN 0 ELSE session[t].exitCode

\* No continuation of a settled repository promise is waiting to run.
MicrotasksRun ==
    SqliteRepository =>
        \A t \in Terminals : /\ creation[t] \notin {"saving", "saveFailing"}
                             /\ record[t].next = NoDescriptor

-----------------------------------------------------------------------------
NoSession == [acceptingInput |-> FALSE, pty |-> FALSE, subscribed |-> FALSE,
              exitCode |-> Undefined]
NoOutput == [emitted |-> 0, early |-> <<>>, queue |-> <<>>, published |-> <<>>,
             outputError |-> "undefined"]
NoRecord == [descriptor |-> NoDescriptor, queue |-> <<>>,
             next |-> NoDescriptor, error |-> "undefined",
             row |-> NoDescriptor, announced |-> <<>>, resizes |-> 0]
NoFinalization == [stage |-> "none", cause |-> "none", awaited |-> 0,
                   lifecycleError |-> "undefined"]
NoHistory == [first |-> "none", updateError |-> "undefined"]

Init ==
    /\ creation = [t \in Terminals |-> "absent"]
    /\ session = [t \in Terminals |-> NoSession]
    /\ output = [t \in Terminals |-> NoOutput]
    /\ record = [t \in Terminals |-> NoRecord]
    /\ finalization = [t \in Terminals |-> NoFinalization]
    /\ process = [t \in Terminals |-> "none"]
    /\ closeAll = [t \in Terminals |-> "idle"]
    /\ history = [t \in Terminals |-> NoHistory]

-----------------------------------------------------------------------------
(* startFinalization and the synchronous part of runFinalization *)

\* A mutant: the latest cause instead of the first.
LatestCause(f, kind) == kind

\* finalizationCause ??= requestedCause
FirstCause(f, kind) == IF f.cause = "none" THEN kind ELSE f.cause

\* The finalization of t after startFinalization(t, kind): joined when one is
\* in flight, else run up to its first await.  exit and queue are the exit
\* code and output queue it finds, error what the PTY handle throws.
Started(t, kind, exit, queue, error) ==
    LET f == finalization[t]
        cause == FirstCause(f, kind)
        kills == cause = "close" /\ exit = Undefined
    IN  IF f.stage # "none" THEN f
        ELSE [stage |-> IF kills THEN "sighup" ELSE "draining",
              cause |-> cause,
              awaited |-> IF kills THEN 0 ELSE Len(queue),
              lifecycleError |-> error]

\* Its session: no more input, and no listeners once the exit is known.
Quiesced(t, exit) ==
    [session[t] EXCEPT
        !.acceptingInput = FALSE,
        !.exitCode = exit,
        !.subscribed = IF finalization[t].stage = "none" /\ exit # Undefined
                       THEN FALSE ELSE @]

\* Its process: kill() only asks (SIGHUP) and only if the handle is there.
HungUp(t, error) ==
    IF /\ finalization[t].stage = "none"
       /\ session[t].pty
       /\ error = "undefined"
       /\ process[t] = "alive"
    THEN "hungUp" ELSE process[t]

CloseStarts(S, error) ==
    /\ finalization' = [t \in Terminals |->
          IF t \in S
          THEN Started(t, "close", session[t].exitCode, output[t].queue,
                       error[t])
          ELSE finalization[t]]
    /\ session' = [t \in Terminals |->
          IF t \in S THEN Quiesced(t, session[t].exitCode) ELSE session[t]]
    /\ process' = [t \in Terminals |->
          IF t \in S THEN HungUp(t, error[t]) ELSE process[t]]
    /\ history' = [t \in Terminals |->
          IF t \in S /\ history[t].first = "none"
          THEN [history[t] EXCEPT !.first = "close"] ELSE history[t]]
    /\ UNCHANGED <<creation, output, record>>

\* A mutant: only fulfilment settles the promise closeAll() waits on.
SettleFulfilled(t, outcome) ==
    closeAll' = [closeAll EXCEPT ![t] =
        IF @ = "pending" /\ outcome = "resolved" THEN outcome ELSE @]

\* Settle the promise of t's finalization, for closeAll too.
Settle(t, outcome) ==
    closeAll' = [closeAll EXCEPT ![t] = IF @ = "pending" THEN outcome ELSE @]

-----------------------------------------------------------------------------
(* create() *)

Create(t) ==
    /\ creation[t] = "absent"
    /\ process' = [process EXCEPT ![t] = "alive"]
    /\ session' = [session EXCEPT ![t] =
          [acceptingInput |-> TRUE, pty |-> TRUE, subscribed |-> TRUE,
           exitCode |-> Undefined]]
    /\ \/ /\ creation' = [creation EXCEPT ![t] = "saving"]
          /\ record' = [record EXCEPT ![t].descriptor = FirstDescriptor,
                                      ![t].row = FirstDescriptor]
       \/ /\ "save" \in Faults
          /\ creation' = [creation EXCEPT ![t] = "saveFailing"]
          /\ \E row \in {NoDescriptor}
                \cup (IF SqliteRepository THEN {} ELSE {FirstDescriptor}) :
                record' = [record EXCEPT ![t].descriptor = FirstDescriptor,
                                         ![t].row = row]
    /\ UNCHANGED <<output, finalization, closeAll, history>>

\* onExit or onData throws: rolled back before save is attempted.
CreateWithoutListeners(t) ==
    /\ creation[t] = "absent"
    /\ "listener" \in Faults
    /\ creation' = [creation EXCEPT ![t] = "rolledBack"]
    /\ record' = [record EXCEPT ![t].descriptor = FirstDescriptor]
    /\ \E error \in Thrown("pty") :
          process' = [process EXCEPT ![t] =
              IF error = "undefined" THEN "hungUp" ELSE "alive"]
    /\ UNCHANGED <<session, output, finalization, closeAll, history>>

\* A mutant: what the PTY said before the row existed is lost.
FlushedNothing(t) == output[t].queue

\* enqueueOutput for each of pendingOutput.
Flushed(t) == output[t].queue \o output[t].early

\* save() resolved: flush what the PTY said meanwhile, announce, and finalize
\* if the PTY exited meanwhile.
CreateResumes(t) ==
    LET queue == Flushed(t)
        exit == session[t].exitCode
    IN  /\ creation[t] = "saving"
        /\ creation' = [creation EXCEPT ![t] = "created"]
        /\ output' = [output EXCEPT ![t].queue = queue, ![t].early = <<>>]
        /\ record' = [record EXCEPT ![t].announced =
                         Append(@, FirstDescriptor)]
        /\ \/ /\ exit = Undefined
              /\ UNCHANGED <<session, finalization>>
           \/ /\ exit # Undefined
              /\ session' = [session EXCEPT ![t] = Quiesced(t, exit)]
              /\ \E error \in Thrown("pty") :
                    finalization' = [finalization EXCEPT ![t] =
                        Started(t, "native", exit, queue, error)]
        /\ UNCHANGED <<process, closeAll, history>>

\* repository.update with the descriptor of a rolled back creation.
RolledBack(t) ==
    Update(record[t].row, Exited(record[t].descriptor, RolledBackCode))

\* save() rejected: rollbackCreation.
RollbackCreation(t) ==
    /\ creation[t] = "saveFailing"
    /\ creation' = [creation EXCEPT ![t] = "rolledBack"]
    /\ session' = [session EXCEPT ![t].acceptingInput = FALSE,
                                  ![t].subscribed = FALSE,
                                  ![t].pty = FALSE]
    /\ output' = [output EXCEPT ![t].early = <<>>]
    /\ \E error \in Thrown("pty") :
          process' = [process EXCEPT ![t] =
              IF @ = "alive" /\ session[t].pty /\ error = "undefined"
              THEN "hungUp" ELSE @]
    /\ \/ /\ record' = [record EXCEPT ![t].row = RolledBack(t)]
          /\ UNCHANGED history
       \/ /\ "update" \in Faults
          /\ history' = [history EXCEPT ![t].updateError = "error"]
          /\ UNCHANGED record
    /\ UNCHANGED <<finalization, closeAll>>

-----------------------------------------------------------------------------
(* PTY callbacks *)

\* handleData and enqueueOutput; a chunk is the number of its data event.
PtyData(t) ==
    /\ MicrotasksRun
    /\ process[t] \in {"alive", "hungUp", "killed"}
    /\ session[t].subscribed
    /\ output[t].emitted < MaxOutput
    /\ LET chunk == output[t].emitted + 1 IN
          output' = [output EXCEPT
              ![t].emitted = chunk,
              ![t].early = IF creation[t] = "created" THEN @
                           ELSE Append(@, chunk),
              ![t].queue = IF creation[t] = "created" THEN Append(@, chunk)
                           ELSE @]
    /\ UNCHANGED <<creation, session, record, finalization, process, closeAll,
                   history>>

\* handleExit: nobody listens after a rollback, and a session that is still
\* being created only remembers the code.
PtyExit(t) ==
    /\ MicrotasksRun
    /\ process[t] \in {"alive", "hungUp", "killed"}
    /\ process' = [process EXCEPT ![t] = "exited"]
    /\ \/ /\ ~session[t].subscribed
          /\ UNCHANGED <<session, finalization, history>>
       \/ /\ session[t].subscribed
          /\ history' = [history EXCEPT ![t].first =
                IF @ = "none" THEN "native" ELSE @]
          /\ \E code \in NativeCodes, error \in Thrown("pty") :
                IF creation[t] = "created"
                THEN /\ session' = [session EXCEPT ![t] = Quiesced(t, code)]
                     /\ finalization' = [finalization EXCEPT ![t] =
                          Started(t, "native", code, output[t].queue, error)]
                ELSE /\ session' = [session EXCEPT ![t].exitCode = code]
                     /\ UNCHANGED finalization
    /\ UNCHANGED <<creation, output, record, closeAll>>

-----------------------------------------------------------------------------
(* Requests *)

\* Somebody outside can name t: its row was listed or it was announced.
Known(t) ==
    /\ MicrotasksRun
    /\ record[t].row # NoDescriptor

\* A mutant: a resize is accepted while the terminal is closed.
ResizeWhileClosing(t) ==
    /\ Known(t)
    /\ InMap(t)
    /\ session[t].pty
    /\ record[t].resizes < MaxResize
    /\ record' = [record EXCEPT
          ![t].resizes = @ + 1,
          ![t].queue = Append(@, record[t].resizes + 1)]
    /\ UNCHANGED <<creation, session, output, finalization, process, closeAll,
                   history>>

Resize(t) ==
    /\ Known(t)
    /\ InMap(t)
    /\ session[t].acceptingInput /\ session[t].pty
    /\ record[t].resizes < MaxResize
    /\ record' = [record EXCEPT
          ![t].resizes = @ + 1,
          ![t].queue = Append(@, record[t].resizes + 1)]
    /\ UNCHANGED <<creation, session, output, finalization, process, closeAll,
                   history>>

Close(t) ==
    /\ Known(t)
    /\ InMap(t)
    /\ \E error \in Thrown("pty") :
          CloseStarts({t}, [u \in Terminals |-> error])
    /\ UNCHANGED closeAll

CloseAll ==
    LET open == {t \in Terminals : InMap(t)}
    IN  /\ \A t \in Terminals : closeAll[t] # "pending"
        /\ \E error \in [Terminals -> Thrown("pty")] :
              CloseStarts(open, error)
        /\ closeAll' = [t \in Terminals |->
              CASE t \notin open -> "idle"
                [] t \in open /\ finalization[t].stage
                      \in {"resolved", "rejected"} -> finalization[t].stage
                [] OTHER -> "pending"]

-----------------------------------------------------------------------------
(* The rest of runFinalization *)

Killed(t, error) ==
    IF session[t].pty /\ error = "undefined" THEN "killed" ELSE process[t]

\* The first wait timed out: SIGKILL.
EscalateToSigkill(t) ==
    /\ MicrotasksRun
    /\ finalization[t].stage = "sighup"
    /\ ~ExitResolved(t)
    /\ \E error \in Thrown("pty") :
          /\ ~session[t].pty => error = "undefined"
          /\ finalization' = [finalization EXCEPT
                ![t].stage = "sigkill",
                ![t].lifecycleError = Coalesce(@, error)]
          /\ process' = [process EXCEPT ![t] = Killed(t, error)]
    /\ UNCHANGED <<creation, session, output, record, closeAll, history>>

\* A mutant: a double timeout is taken for an exit.
GiveUpAndExit(t) ==
    /\ MicrotasksRun
    /\ finalization[t].stage = "sigkill"
    /\ ~ExitResolved(t)
    /\ finalization' = [finalization EXCEPT ![t].stage = "draining"]
    /\ UNCHANGED <<creation, session, output, record, process, closeAll,
                   history>>

\* The second wait timed out: TerminalTerminationError; only this error
\* forgets the promise, so that a later close or the late exit starts afresh.
GiveUpTermination(t) ==
    /\ MicrotasksRun
    /\ finalization[t].stage = "sigkill"
    /\ ~ExitResolved(t)
    /\ finalization' = [finalization EXCEPT ![t].stage = "none"]
    /\ Settle(t, "rejected")
    /\ UNCHANGED <<creation, session, output, record, process, history>>

\* The exit ended a wait: drop the listeners, then await outputTail.
NoticeExit(t) ==
    /\ finalization[t].stage \in {"sighup", "sigkill"}
    /\ ExitResolved(t)
    /\ session' = [session EXCEPT ![t].subscribed = FALSE]
    /\ \E error \in Thrown("pty") :
          finalization' = [finalization EXCEPT
              ![t].stage = "draining",
              ![t].awaited = Len(output[t].queue),
              ![t].lifecycleError = Coalesce(@, error)]
    /\ UNCHANGED <<creation, output, record, process, closeAll, history>>

\* What outputTail was when it was awaited has settled.
OutputDrained(t) ==
    /\ finalization[t].stage = "draining"
    /\ finalization[t].awaited = 0
    /\ finalization' = [finalization EXCEPT ![t].stage = "updating"]
    /\ record' = [record EXCEPT ![t].queue = Append(@, ExitTransition)]
    /\ UNCHANGED <<creation, session, output, process, closeAll, history>>

-----------------------------------------------------------------------------
(* The output queue and the descriptor queue *)

OneFewerAwaited(n) == IF n = 0 THEN 0 ELSE n - 1

\* The append at the head of outputTail settles.
AppendSettles(t) ==
    /\ MicrotasksRun
    /\ output[t].queue # <<>>
    /\ \E error \in Thrown("append") :
          output' = [output EXCEPT
              ![t].queue = Tail(@),
              ![t].outputError = Coalesce(@, error),
              ![t].published = IF error = "error" THEN @
                               ELSE Append(@, Head(output[t].queue))]
    /\ finalization' = [finalization EXCEPT ![t].awaited =
          OneFewerAwaited(@)]
    /\ UNCHANGED <<creation, session, record, process, closeAll, history>>

\* A mutant: the exit spreads the descriptor create() made.
TransitionedFromFirst(t) ==
    LET step == Head(record[t].queue)
    IN  IF step = ExitTransition THEN Exited(FirstDescriptor, CauseCode(t))
        ELSE [record[t].descriptor EXCEPT !.size = step]

\* The descriptor a queued transition makes of the one it finds when it runs.
Transitioned(t) ==
    LET d == record[t].descriptor
        step == Head(record[t].queue)
    IN  IF step = ExitTransition THEN Exited(d, CauseCode(t))
        ELSE [d EXCEPT !.size = step]

UpdateStarts(t) ==
    /\ record[t].queue # <<>>
    /\ record[t].next = NoDescriptor
    /\ \E error \in Thrown("update") :
          /\ record' = [record EXCEPT
                ![t].next = Transitioned(t),
                ![t].error = error,
                ![t].row = IF error = "error" THEN @
                           ELSE Update(@, Transitioned(t))]
          /\ history' = [history EXCEPT ![t].updateError = Coalesce(@, error)]
    /\ UNCHANGED <<creation, session, output, finalization, process, closeAll>>

\* The continuation of repository.update: keep and announce the descriptor,
\* unless the update was rejected.
UpdateSettled(t) ==
    /\ record[t].next # NoDescriptor
    /\ record' = [record EXCEPT
          ![t].queue = Tail(@),
          ![t].next = NoDescriptor,
          ![t].error = "undefined",
          ![t].descriptor = IF record[t].error = "error" THEN @
                            ELSE record[t].next,
          ![t].announced = IF record[t].error = "error" THEN @
                           ELSE Append(@, record[t].next)]

ResizeSettles(t) ==
    /\ UpdateSettled(t)
    /\ Head(record[t].queue) # ExitTransition
    /\ UNCHANGED <<creation, session, output, finalization, process, closeAll,
                   history>>

\* A mutant: every failure forgets the promise, not only a termination error.
FinalizationForgotten(t) ==
    /\ UpdateSettled(t)
    /\ Head(record[t].queue) = ExitTransition
    /\ session' = [session EXCEPT ![t].pty = FALSE]
    /\ LET failed == \/ record[t].error = "error"
                     \/ output[t].outputError = "error"
                     \/ finalization[t].lifecycleError = "error"
       IN  /\ finalization' = [finalization EXCEPT ![t].stage =
                 IF failed THEN "none" ELSE "resolved"]
           /\ Settle(t, IF failed THEN "rejected" ELSE "resolved")
    /\ UNCHANGED <<creation, output, process, history>>

FinalizationSettles(t) ==
    LET outcome == IF /\ record[t].error = "undefined"
                      /\ output[t].outputError = "undefined"
                      /\ finalization[t].lifecycleError = "undefined"
                   THEN "resolved" ELSE "rejected"
    IN  /\ UpdateSettled(t)
        /\ Head(record[t].queue) = ExitTransition
        /\ session' = [session EXCEPT ![t].pty = FALSE]
        /\ finalization' = [finalization EXCEPT ![t].stage = outcome]
        /\ Settle(t, outcome)
        /\ UNCHANGED <<creation, output, process, history>>

-----------------------------------------------------------------------------
Next ==
    \/ CloseAll
    \/ \E t \in Terminals :
          \/ Create(t)
          \/ CreateWithoutListeners(t)
          \/ CreateResumes(t)
          \/ RollbackCreation(t)
          \/ PtyData(t)
          \/ PtyExit(t)
          \/ Resize(t)
          \/ Close(t)
          \/ EscalateToSigkill(t)
          \/ GiveUpTermination(t)
          \/ NoticeExit(t)
          \/ OutputDrained(t)
          \/ AppendSettles(t)
          \/ UpdateStarts(t)
          \/ ResizeSettles(t)
          \/ FinalizationSettles(t)

Spec == Init /\ [][Next]_vars

\* Promises settle, timers fire and a killed process dies.  Nothing is assumed
\* of a process that only got SIGHUP, nor of the requests.
Fairness ==
    \A t \in Terminals :
        /\ WF_vars(CreateResumes(t))
        /\ WF_vars(RollbackCreation(t))
        /\ WF_vars(process[t] = "killed" /\ PtyExit(t))
        /\ WF_vars(EscalateToSigkill(t))
        /\ WF_vars(GiveUpTermination(t))
        /\ WF_vars(NoticeExit(t))
        /\ WF_vars(OutputDrained(t))
        /\ WF_vars(AppendSettles(t))
        /\ WF_vars(UpdateStarts(t))
        /\ WF_vars(ResizeSettles(t))
        /\ WF_vars(FinalizationSettles(t))

FairSpec == Spec /\ Fairness

-----------------------------------------------------------------------------
(* Properties *)

Creations == {"absent", "saving", "saveFailing", "created", "rolledBack"}
Sessions == [acceptingInput : BOOLEAN, pty : BOOLEAN, subscribed : BOOLEAN,
             exitCode : ExitCodes]
Outputs == [emitted : 0..MaxOutput, early : Seq(Chunks),
            queue : Seq(Chunks), published : Seq(Chunks),
            outputError : Errors]
Records == [descriptor : Descriptors, queue : Seq(Sizes),
            next : Descriptors, error : Errors, row : Descriptors,
            announced : Seq(Descriptors), resizes : Sizes]
Finalizations == [stage : {"none", "sighup", "sigkill", "draining", "updating",
                           "resolved", "rejected"},
                  cause : {"none", "close", "native"},
                  awaited : Nat, lifecycleError : Errors]
Processes == {"none", "alive", "hungUp", "killed", "exited"}
Promises == {"idle", "pending", "resolved", "rejected"}
Histories == [first : {"none", "close", "native"}, updateError : Errors]

\* The state keeps its shape: every field in the values the code gives it.
TypeOK ==
    /\ creation \in [Terminals -> Creations]
    /\ session \in [Terminals -> Sessions]
    /\ output \in [Terminals -> Outputs]
    /\ record \in [Terminals -> Records]
    /\ finalization \in [Terminals -> Finalizations]
    /\ process \in [Terminals -> Processes]
    /\ closeAll \in [Terminals -> Promises]
    /\ history \in [Terminals -> Histories]

AnnouncedExits(t) ==
    {i \in DOMAIN record[t].announced :
        record[t].announced[i].state = "exited"}

\* No false exit (manager.test.ts "rejects a double timeout without publishing
\* a false exit"): a terminal is announced or persisted as exited by its
\* finalization only when its process has exited, whatever timed out before.
NoFalseExit ==
    \A t \in Terminals :
        \/ /\ AnnouncedExits(t) # {}
        \/ /\ record[t].row.state = "exited"
           /\ creation[t] # "rolledBack"
        => process[t] = "exited"

\* However many closes, exits and retries meet, one exit is announced.
ExitAnnouncedOnce ==
    \A t \in Terminals : \A i, j \in AnnouncedExits(t) : i = j

\* Chunks are published in the order the PTY produced them, each once and
\* none skipped unless an append failed, across the early output that create()
\* holds back and the queue.
OutputKept ==
    \A t \in Terminals :
        output[t].outputError = "undefined" /\ creation[t] # "rolledBack" =>
            output[t].published \o output[t].queue \o output[t].early
                = Ids(output[t].emitted)

\* The first of an explicit close and the native exit decides the exit code
\* that is recorded, also when a close timed out and the exit came late.
FirstCauseWins ==
    \A t \in Terminals :
        record[t].row.state = "exited" /\ creation[t] = "created" =>
            record[t].row.exitCode =
                IF history[t].first = "close" THEN 0 ELSE session[t].exitCode

\* Between transitions the row, the session's descriptor and what the
\* listeners were last told agree, and every resize that was accepted is in
\* them, also after the exit, unless the repository rejected an update.
RecordAgrees ==
    \A t \in Terminals :
        /\ creation[t] = "created"
        /\ record[t].next = NoDescriptor
        /\ history[t].updateError = "undefined"
        => /\ record[t].queue = <<>> => record[t].row.size = record[t].resizes
           /\ record[t].row = record[t].descriptor
           /\ record[t].row = record[t].announced[Len(record[t].announced)]

\* closeAll() does not fulfil for a terminal whose process is alive, whose row
\* still says running, or whose output is not all published.
CloseAllMeansClosed ==
    \A t \in Terminals :
        closeAll[t] = "resolved" =>
            /\ process[t] = "exited"
            /\ record[t].row.state # "running"
            /\ Len(output[t].published) = output[t].emitted

\* A creation that failed leaves no row that says running, also when save
\* rejected after it committed (rollbackCreation does not queue its update
\* behind a resize that was accepted meanwhile, hence the last condition).
RolledBackRow ==
    \A t \in Terminals :
        /\ creation[t] = "rolledBack"
        /\ history[t].updateError = "undefined"
        /\ record[t].resizes = 0
        => record[t].row.state # "running"

\* Over every repository one exit is announced, and a failed creation leaves no row
\* that runs (manager.ts, finalizationPromise and rollbackCreation).
EndedOnce == ExitAnnouncedOnce /\ RolledBackRow

\* What the subscribers of onChanged and onOutput were told so far.
Shown(t) ==
    IF record[t].announced = <<>> THEN NoDescriptor
    ELSE record[t].announced[Len(record[t].announced)]

\* A process that exited gets its session finalized for good, however many
\* closes timed out and gave up before, unless its creation is rolled back.
FinalizationEnds ==
    \A t \in Terminals :
        process[t] = "exited" ~>
            \/ finalization[t].stage \in {"resolved", "rejected"}
            \/ creation[t] = "rolledBack"

\* Whoever waits on closeAll() gets an answer.
CloseAllAnswers ==
    \A t \in Terminals : closeAll[t] = "pending" ~> closeAll[t] # "pending"
=============================================================================
