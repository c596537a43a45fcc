-------------------------- MODULE DesktopLifecycle --------------------------
(***************************************************************************)
(* The desktop process around the TerminalManager: the admission gate that *)
(* terminal IPC passes (ipc/admission.ts), the quit sequence (lifecycle.ts *)
(* onBeforeQuit, with closeAll of the terminal router), the host gateway,  *)
(* whose requests reach the manager without passing the gate, and what     *)
(* bootstrap.ts does with the rows a dead process left behind.             *)
(*                                                                         *)
(* The manager is TerminalManager itself, over the shipped repository; its *)
(* steps are this module's.  A process that starts has a new manager, and  *)
(* what earlier ones left behind is kept apart in left.                    *)
(***************************************************************************)
EXTENDS Integers, Sequences, FiniteSetsExt

CONSTANTS
    LocalTerminals,     \* terminals the desktop's own renderer creates
    GatewayTerminals,   \* terminals remote clients create through the gateway
    NativeCodes, Faults,
    MaxActivity,        \* bound: output chunks and resizes of all terminals
    ShutdownMayFail,    \* closeRemoteHost or closeDatabase may throw
    MaxStarts           \* bound: starts of the desktop process

Terminals == LocalTerminals \cup GatewayTerminals

VARIABLES
    creation, session, output, record, finalization, process, closeAll,
    history,        \* TerminalManager's
    quit,           \* where onBeforeQuit is, or that the process is down
    admission,      \* the gate: closed, and the requests in flight
    gateway,        \* whether it is open, and the launches it validates
    left,           \* of earlier processes: the rows, and PTYs that still run
    starts          \* how many times the process was started

managerVars == <<creation, session, output, record, finalization, process,
                 closeAll, history>>
vars == <<managerVars, quit, admission, gateway, left, starts>>

Manager == INSTANCE TerminalManager
    WITH MaxOutput <- MaxActivity, MaxResize <- MaxActivity,
         SqliteRepository <- TRUE

ASSUME DesktopLifecycleAssumption ==
    /\ LocalTerminals \cap GatewayTerminals = {}
    /\ NativeCodes \subseteq Nat
    /\ Faults \subseteq Manager!FaultKinds
    /\ MaxActivity \in Nat
    /\ ShutdownMayFail \in BOOLEAN
    /\ MaxStarts \in Nat \ {0}

\* The bound on activity is shared by the terminals.
MayAct ==
    MapThenSumSet(LAMBDA t : output[t].emitted + record[t].resizes, Terminals)
        < MaxActivity

Requests == ({"create", "resize", "close"} \X Terminals)
                \cup {<<"peer", "peer">>}     \* one that a remote peer answers

NothingLeft == [row |-> Manager!NoDescriptor, process |-> "none"]

\* The row in the database, of this process or of an earlier one.
Row(t) ==
    IF left[t] = NothingLeft THEN record[t].row ELSE left[t].row

Init ==
    /\ Manager!Init
    /\ left = [t \in Terminals |-> NothingLeft]
    /\ quit = "idle"
    /\ admission = [closed |-> FALSE, inFlight |-> {}]
    /\ gateway = [open |-> FALSE, launching |-> {}]
    /\ starts = 1

-----------------------------------------------------------------------------
(* The admission gate *)

\* A mutant: a rejected request never leaves inFlight.
InFlightUntilFulfilled(r) ==
    LET t == r[2] IN
    CASE r[1] = "create" -> creation[t] \in {"saving", "saveFailing"}
      [] r[1] = "resize" -> \E i \in DOMAIN record[t].queue :
                               record[t].queue[i] # Manager!ExitTransition
      [] r[1] = "close" -> finalization[t].stage # "resolved"
      [] OTHER -> TRUE

\* The promise of an admitted request is pending.
InFlight(r) ==
    LET t == r[2] IN
    CASE r[1] = "create" -> creation[t] \in {"saving", "saveFailing"}
      [] r[1] = "resize" -> \E i \in DOMAIN record[t].queue :
                               record[t].queue[i] # Manager!ExitTransition
      [] r[1] = "close" -> finalization[t].stage
                               \in {"sighup", "sigkill", "draining", "updating"}
      [] OTHER -> TRUE

\* inFlight after a step of the manager in which the requests S were admitted.
Admitted(S) ==
    admission' = [admission EXCEPT !.inFlight =
        {r \in admission.inFlight \cup S : InFlight(r)'}]

\* A request of the local renderer.
Admits(S) ==
    /\ ~admission.closed
    /\ Admitted(S)
    /\ UNCHANGED <<quit, gateway, left, starts>>

\* An identifier is a random one, and was not used before.
LocalCreate(t) ==
    /\ t \in LocalTerminals
    /\ left[t] = NothingLeft
    /\ Manager!Create(t) \/ Manager!CreateWithoutListeners(t)
    /\ Admits({<<"create", t>>})

LocalResize(t) ==
    /\ MayAct
    /\ Manager!Resize(t)
    /\ Admits({<<"resize", t>>})

LocalClose(t) == Manager!Close(t) /\ Admits({<<"close", t>>})

\* A request for a terminal of a remote host waits for that host.
PeerRequest ==
    /\ UNCHANGED managerVars
    /\ Admits({<<"peer", "peer">>})

\* It answers, or the request times out or finds the peer closed.
PeerAnswers ==
    /\ <<"peer", "peer">> \in admission.inFlight
    /\ admission' = [admission EXCEPT !.inFlight = @ \ {<<"peer", "peer">>}]
    /\ UNCHANGED <<managerVars, quit, gateway, left, starts>>

-----------------------------------------------------------------------------
(* The host gateway: it calls the manager, not the router, and no gate *)

GatewayOpens ==
    /\ quit \notin {"signingOut", "quit", "down"}
    /\ ~gateway.open
    /\ gateway' = [gateway EXCEPT !.open = TRUE]
    /\ UNCHANGED <<managerVars, quit, admission, left, starts>>

\* agent.launch awaits the workspace and the runtimes before it creates.
GatewayLaunch(t) ==
    /\ t \in GatewayTerminals
    /\ gateway.open
    /\ creation[t] = "absent" /\ left[t] = NothingLeft
    /\ t \notin gateway.launching
    /\ gateway' = [gateway EXCEPT !.launching = @ \cup {t}]
    /\ UNCHANGED <<managerVars, quit, admission, left, starts>>

\* It does not look again whether the gateway was closed meanwhile.
GatewayCreate(t) ==
    /\ t \in gateway.launching
    /\ Manager!Create(t) \/ Manager!CreateWithoutListeners(t)
    /\ gateway' = [gateway EXCEPT !.launching = @ \ {t}]
    /\ UNCHANGED <<quit, admission, left, starts>>

\* The workspace or the runtime was refused.
GatewayRefuses(t) ==
    /\ t \in gateway.launching
    /\ gateway' = [gateway EXCEPT !.launching = @ \ {t}]
    /\ UNCHANGED <<managerVars, quit, admission, left, starts>>

GatewayResize(t) ==
    /\ t \in GatewayTerminals
    /\ gateway.open
    /\ MayAct
    /\ Manager!Resize(t)
    /\ Admitted({})
    /\ UNCHANGED <<quit, gateway, left, starts>>

-----------------------------------------------------------------------------
(* onBeforeQuit *)

RunningRows == {t \in Terminals : Row(t).state = "running"}

CloseAdmission ==
    /\ quit' = "draining"
    /\ admission' = [admission EXCEPT !.closed = TRUE]

\* The router lists the local rows and the sessions it proxies, so a quit may
\* have to be confirmed although no local terminal runs.
BeforeQuit ==
    /\ Manager!MicrotasksRun
    /\ quit = "idle"
    /\ \/ quit' = "confirming" /\ UNCHANGED admission
       \/ RunningRows = {} /\ CloseAdmission
    /\ UNCHANGED <<managerVars, gateway, left, starts>>

CancelQuit ==
    /\ quit = "confirming"
    /\ quit' = "idle"
    /\ UNCHANGED <<managerVars, admission, gateway, left, starts>>

ConfirmQuit ==
    /\ quit = "confirming"
    /\ CloseAdmission
    /\ UNCHANGED <<managerVars, gateway, left, starts>>

\* drain(): the gate is closed, so nothing joins what is in flight.
Drained ==
    /\ quit = "draining"
    /\ admission.inFlight = {}
    /\ quit' = "detaching"
    /\ UNCHANGED <<managerVars, admission, gateway, left, starts>>

\* The router's closeAll: every detach of a proxied session has settled.
Detached ==
    /\ quit = "detaching"
    /\ Manager!CloseAll
    /\ quit' = "closing"
    /\ Admitted({})
    /\ UNCHANGED <<gateway, left, starts>>

\* closeAll() rejected: the gate reopens and the quit may be tried again.
CloseAllFailed ==
    /\ quit = "closing"
    /\ \A t \in Terminals : closeAll[t] # "pending"
    /\ \E t \in Terminals : closeAll[t] = "rejected"
    /\ quit' = "idle"
    /\ admission' = [admission EXCEPT !.closed = FALSE]
    /\ UNCHANGED <<managerVars, gateway, left, starts>>

\* A mutant: one rejected finalization is overlooked.
CloseAllSettled ==
    /\ quit = "closing"
    /\ \A t \in Terminals : closeAll[t] # "pending"
    /\ quit' = "signingOut"
    /\ gateway' = [gateway EXCEPT !.open = FALSE]
    /\ UNCHANGED <<managerVars, admission, left, starts>>

\* closeRemoteHost closes the connector and its gateways, then signs out.
CloseAllSucceeded ==
    /\ quit = "closing"
    /\ \A t \in Terminals : closeAll[t] \notin {"pending", "rejected"}
    /\ quit' = "signingOut"
    /\ gateway' = [gateway EXCEPT !.open = FALSE]
    /\ UNCHANGED <<managerVars, admission, left, starts>>

\* What follows closeAll() throws: reported, and the gate is not reopened.
ShutdownFailed ==
    /\ ShutdownMayFail
    /\ quit = "signingOut"
    /\ quit' = "idle"
    /\ UNCHANGED <<managerVars, admission, gateway, left, starts>>

\* Signed out; the database is closed, IPC unregistered and app.quit() called
\* in one go.
Quits ==
    /\ quit = "signingOut"
    /\ quit' = "quit"
    /\ UNCHANGED <<managerVars, admission, gateway, left, starts>>

-----------------------------------------------------------------------------
(* The process ends, and starts again *)

\* What is left of a terminal when the process ends: its row, and its PTY, which
\* the kernel hangs up.
Left(t) ==
    [row |-> record[t].row,
     process |-> IF process[t] = "alive" THEN "hungUp" ELSE process[t]]

\* The process is gone, after a quit or a crash, and what it kept in memory
\* with it.
ProcessEnds ==
    /\ quit # "down"
    /\ starts < MaxStarts
    /\ quit' = "down"
    /\ left' = [t \in Terminals |->
          IF creation[t] = "absent" THEN left[t] ELSE Left(t)]
    /\ creation' = [t \in Terminals |-> "absent"]
    /\ process' = [t \in Terminals |-> "none"]
    /\ record' = [t \in Terminals |-> Manager!NoRecord]
    /\ session' = [t \in Terminals |-> Manager!NoSession]
    /\ output' = [t \in Terminals |-> Manager!NoOutput]
    /\ finalization' = [t \in Terminals |-> Manager!NoFinalization]
    /\ closeAll' = [t \in Terminals |-> "idle"]
    /\ history' = [t \in Terminals |-> Manager!NoHistory]
    /\ admission' = [closed |-> FALSE, inFlight |-> {}]
    /\ gateway' = [open |-> FALSE, launching |-> {}]
    /\ UNCHANGED starts

\* A child process without its desktop exits, and nobody is told.
OrphanExits(t) ==
    /\ left[t].process \in {"hungUp", "killed"}
    /\ left' = [left EXCEPT ![t].process = "exited"]
    /\ UNCHANGED <<managerVars, quit, admission, gateway, starts>>

\* A mutant: the recovery marks every row.
EveryRowExited(d) ==
    IF d = Manager!NoDescriptor THEN d
    ELSE Manager!Exited(d, Manager!RolledBackCode)

\* markRunningExited(-1) on one row.
RunningRowExited(d) ==
    IF d.state = "running" THEN Manager!Exited(d, Manager!RolledBackCode)
    ELSE d

\* bootstrapDesktop: the rows are recovered before anything can read them.
Starts ==
    /\ quit = "down"
    /\ quit' = "idle"
    /\ starts' = starts + 1
    /\ left' = [t \in Terminals |->
          [left[t] EXCEPT !.row = RunningRowExited(left[t].row)]]
    /\ UNCHANGED <<managerVars, admission, gateway>>

-----------------------------------------------------------------------------
\* Continuations, timers and the PTYs.
ManagerRuns ==
    /\ \E t \in Terminals :
          \/ Manager!CreateResumes(t)
          \/ Manager!RollbackCreation(t)
          \/ MayAct /\ Manager!PtyData(t)
          \/ Manager!PtyExit(t)
          \/ Manager!EscalateToSigkill(t)
          \/ Manager!GiveUpTermination(t)
          \/ Manager!NoticeExit(t)
          \/ Manager!OutputDrained(t)
          \/ Manager!AppendSettles(t)
          \/ Manager!UpdateStarts(t)
          \/ Manager!ResizeSettles(t)
          \/ Manager!FinalizationSettles(t)
    /\ Admitted({})
    /\ UNCHANGED <<quit, gateway, left, starts>>

Next ==
    \/ ManagerRuns
    \/ \E t \in Terminals :
          \/ quit \notin {"quit", "down"} /\ LocalCreate(t)
          \/ quit \notin {"quit", "down"} /\ LocalResize(t)
          \/ quit \notin {"quit", "down"} /\ LocalClose(t)
          \/ GatewayLaunch(t)
          \/ GatewayCreate(t)
          \/ GatewayRefuses(t)
          \/ GatewayResize(t)
          \/ OrphanExits(t)
    \/ quit \notin {"quit", "down"} /\ PeerRequest
    \/ PeerAnswers
    \/ GatewayOpens
    \/ BeforeQuit
    \/ CancelQuit
    \/ ConfirmQuit
    \/ Drained
    \/ Detached
    \/ CloseAllFailed
    \/ CloseAllSucceeded
    \/ ShutdownFailed
    \/ Quits
    \/ ProcessEnds
    \/ Starts

Spec == Init /\ [][Next]_vars

\* As for the manager; a remote peer answers or its request times out, and the
\* steps of a quit that was confirmed follow one another.
Fairness ==
    /\ Manager!Fairness
    /\ WF_vars(PeerAnswers)
    /\ WF_vars(Drained)
    /\ WF_vars(Detached)
    /\ WF_vars(CloseAllFailed)
    /\ WF_vars(CloseAllSucceeded)
    /\ WF_vars(Quits)

FairSpec == Spec /\ Fairness

\* A user who asks to quit again and again, and never cancels for good.
PersistentUser == WF_vars(BeforeQuit) /\ SF_vars(ConfirmQuit)

RetrySpec == FairSpec /\ PersistentUser

-----------------------------------------------------------------------------
(* Properties *)

\* The state keeps its shape, and inFlight holds pending promises only.
TypeOK ==
    /\ quit \in {"idle", "confirming", "draining", "detaching", "closing",
                 "signingOut", "quit", "down"}
    /\ admission \in [closed : BOOLEAN, inFlight : SUBSET Requests]
    /\ \A r \in admission.inFlight : InFlight(r)
    /\ gateway \in [open : BOOLEAN, launching : SUBSET GatewayTerminals]
    /\ left \in [Terminals -> [row : Manager!Descriptors,
                               process : Manager!Processes]]
    /\ starts \in 1..MaxStarts

\* app.quit() is called with nothing of the local terminals unfinished: no
\* save, no update, no process, and no output that was not stored, whatever
\* requests were in flight when the gate closed.
QuitIsClean ==
    quit = "quit" =>
        \A t \in LocalTerminals :
            /\ creation[t] \notin {"saving", "saveFailing"}
            /\ creation[t] = "created" =>
                  /\ process[t] = "exited"
                  /\ record[t].row.state = "exited"
                  /\ record[t].queue = <<>>
                  /\ Len(output[t].published) = output[t].emitted

\* An exit that was recorded stays as it was recorded, across late exits,
\* crashes and the recovery of the rows at the next start.
RecordedExitIsFinal ==
    [][\A t \in Terminals :
          Row(t).state = "exited" => Row(t)' = Row(t)]_vars

\* While the desktop runs, a row that says running is the row of a session it
\* has: one that a crash left behind is never shown as a live terminal.
NoGhostRow ==
    quit # "down" => \A t \in RunningRows : Manager!InMap(t)

\* What the rows say outlives crashes and quits: no terminal that is gone is
\* shown as live, and no exit is recorded again (markRunningExited).
RowsOutliveCrashes == RecordedExitIsFinal /\ []NoGhostRow

\* A quit that was confirmed ends, in app.quit() or with an error: drain() and
\* closeAll() do not wait for ever for a request or a process.
QuitEnds == quit = "draining" ~> quit \in {"idle", "quit", "down"}

\* A gate that a quit closed opens again or the desktop quits, so that no
\* failure of the remote side degrades the local one.
AdmissionReturns ==
    admission.closed ~> ~admission.closed \/ quit \in {"quit", "down"}

\* "Explicit Quit warns and then leaves no PTY child process."
QuitLeavesNoProcess ==
    quit = "quit" => \A t \in Terminals :
        {process[t], left[t].process} \subseteq {"none", "exited"}

\* "reports close-all failure without closing resources and allows a later
\* retry": a user who retries after closeAll() failed gets to quit.
RetryQuits ==
    (quit = "closing" /\ \E t \in Terminals : closeAll[t] = "rejected")
        ~> quit = "quit"
=============================================================================
