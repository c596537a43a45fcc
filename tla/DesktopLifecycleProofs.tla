----------------------- MODULE DesktopLifecycleProofs -----------------------
(***************************************************************************)
(* What the desktop process promises around the TerminalManager, for any   *)
(* terminals, bounds, faults and number of starts.                         *)
(***************************************************************************)
EXTENDS DesktopLifecycle, TLAPS

\* The manager again, with what is proved of it.
Shipped == INSTANCE TerminalManagerProofs
    WITH MaxOutput <- MaxActivity, MaxResize <- MaxActivity,
         SqliteRepository <- TRUE

\* What the proofs about the manager assume of its constants.
LEMMA ShippedAssumption ==
    /\ NativeCodes \subseteq Nat /\ MaxActivity \in Nat /\ TRUE \in BOOLEAN
    /\ Faults \subseteq Shipped!FaultKinds
  BY DesktopLifecycleAssumption DEF Manager!FaultKinds, Shipped!FaultKinds

-----------------------------------------------------------------------------
(* The two names of the manager are one *)

LEMMA SameData ==
    /\ Manager!NoDescriptor = Shipped!NoDescriptor
    /\ Manager!FirstDescriptor = Shipped!FirstDescriptor
    /\ Manager!Undefined = Shipped!Undefined
    /\ Manager!ExitTransition = Shipped!ExitTransition
    /\ Manager!MicrotasksRun <=> Shipped!MicrotasksRun
    /\ \A kind : Manager!Thrown(kind) = Shipped!Thrown(kind)
    /\ \A x, y : Manager!Coalesce(x, y) = Shipped!Coalesce(x, y)
    /\ \A x, y : Manager!Update(x, y) = Shipped!Update(x, y)
    /\ \A x, y : Manager!Exited(x, y) = Shipped!Exited(x, y)
  BY DEF Manager!NoDescriptor, Shipped!NoDescriptor, Manager!FirstDescriptor,
         Shipped!FirstDescriptor, Manager!Undefined, Shipped!Undefined,
         Manager!ExitTransition, Shipped!ExitTransition, Manager!MicrotasksRun,
         Shipped!MicrotasksRun, Manager!Thrown, Shipped!Thrown, Manager!Errors,
         Shipped!Errors, Manager!Coalesce, Shipped!Coalesce, Manager!Update,
         Shipped!Update, Manager!Exited, Shipped!Exited

LEMMA SameStarts ==
  ASSUME NEW t
  PROVE  /\ \A kind, exit, queue, error :
               Manager!Started(t, kind, exit, queue, error)
                  = Shipped!Started(t, kind, exit, queue, error)
         /\ \A exit : Manager!Quiesced(t, exit) = Shipped!Quiesced(t, exit)
         /\ \A error : Manager!HungUp(t, error) = Shipped!HungUp(t, error)
         /\ \A error : Manager!Killed(t, error) = Shipped!Killed(t, error)
         /\ Manager!InMap(t) <=> Shipped!InMap(t)
         /\ Manager!Known(t) <=> Shipped!Known(t)
         /\ Manager!ExitResolved(t) <=> Shipped!ExitResolved(t)
         /\ \A outcome :
               Manager!Settle(t, outcome) <=> Shipped!Settle(t, outcome)
  BY SameData
  DEF Manager!Started, Shipped!Started, Manager!FirstCause, Shipped!FirstCause,
      Manager!Quiesced, Shipped!Quiesced, Manager!HungUp, Shipped!HungUp,
      Manager!Killed, Shipped!Killed, Manager!InMap, Shipped!InMap,
      Manager!Known, Shipped!Known, Manager!ExitResolved, Shipped!ExitResolved,
      Manager!Settle, Shipped!Settle

LEMMA SameSteps ==
  ASSUME NEW t \in Terminals
  PROVE  /\ Manager!Create(t) => Shipped!Create(t)
         /\ Manager!CreateWithoutListeners(t) => Shipped!CreateWithoutListeners(t)
         /\ Manager!CreateResumes(t) => Shipped!CreateResumes(t)
         /\ Manager!RollbackCreation(t) => Shipped!RollbackCreation(t)
         /\ Manager!PtyData(t) => Shipped!PtyData(t)
         /\ Manager!PtyExit(t) => Shipped!PtyExit(t)
         /\ Manager!Resize(t) => Shipped!Resize(t)
         /\ Manager!EscalateToSigkill(t) => Shipped!EscalateToSigkill(t)
         /\ Manager!GiveUpTermination(t) => Shipped!GiveUpTermination(t)
         /\ Manager!NoticeExit(t) => Shipped!NoticeExit(t)
         /\ Manager!OutputDrained(t) => Shipped!OutputDrained(t)
         /\ Manager!AppendSettles(t) => Shipped!AppendSettles(t)
         /\ Manager!UpdateStarts(t) => Shipped!UpdateStarts(t)
         /\ Manager!ResizeSettles(t) => Shipped!ResizeSettles(t)
         /\ Manager!FinalizationSettles(t) => Shipped!FinalizationSettles(t)
  <1>1. Manager!Create(t) => Shipped!Create(t)
    BY SameData DEF Manager!Create, Shipped!Create
  <1>2. Manager!CreateWithoutListeners(t) => Shipped!CreateWithoutListeners(t)
    BY SameData DEF Manager!CreateWithoutListeners,
                    Shipped!CreateWithoutListeners
  <1>3. Manager!CreateResumes(t) => Shipped!CreateResumes(t)
    BY SameData
       DEF Manager!CreateResumes, Shipped!CreateResumes, Manager!Flushed,
           Shipped!Flushed, Manager!Started, Shipped!Started,
           Manager!FirstCause, Shipped!FirstCause, Manager!Quiesced,
           Shipped!Quiesced
  <1>4. Manager!RollbackCreation(t) => Shipped!RollbackCreation(t)
    BY SameData
       DEF Manager!RollbackCreation, Shipped!RollbackCreation,
           Manager!RolledBack, Shipped!RolledBack, Manager!RolledBackCode,
           Shipped!RolledBackCode
  <1>5. Manager!PtyData(t) => Shipped!PtyData(t)
    BY SameData DEF Manager!PtyData, Shipped!PtyData
  <1>6. Manager!PtyExit(t) => Shipped!PtyExit(t)
    BY SameData
       DEF Manager!PtyExit, Shipped!PtyExit, Manager!Started, Shipped!Started,
           Manager!FirstCause, Shipped!FirstCause, Manager!Quiesced,
           Shipped!Quiesced
  <1>7. Manager!Resize(t) => Shipped!Resize(t)
    BY SameStarts DEF Manager!Resize, Shipped!Resize
  <1>8. Manager!EscalateToSigkill(t) => Shipped!EscalateToSigkill(t)
    <2>1. /\ Manager!MicrotasksRun <=> Shipped!MicrotasksRun
          /\ Manager!ExitResolved(t) <=> Shipped!ExitResolved(t)
          /\ Manager!Thrown("pty") = Shipped!Thrown("pty")
          /\ \A error : Manager!Killed(t, error) = Shipped!Killed(t, error)
          /\ \A x, y : Manager!Coalesce(x, y) = Shipped!Coalesce(x, y)
      BY SameData, SameStarts
    <2> QED
      BY <2>1 DEF Manager!EscalateToSigkill, Shipped!EscalateToSigkill
  <1>9. Manager!GiveUpTermination(t) => Shipped!GiveUpTermination(t)
    BY SameData, SameStarts
       DEF Manager!GiveUpTermination, Shipped!GiveUpTermination
  <1>10. Manager!NoticeExit(t) => Shipped!NoticeExit(t)
    BY SameData, SameStarts DEF Manager!NoticeExit, Shipped!NoticeExit
  <1>11. Manager!OutputDrained(t) => Shipped!OutputDrained(t)
    BY SameData DEF Manager!OutputDrained, Shipped!OutputDrained
  <1>12. Manager!AppendSettles(t) => Shipped!AppendSettles(t)
    BY SameData DEF Manager!AppendSettles, Shipped!AppendSettles,
                    Manager!OneFewerAwaited, Shipped!OneFewerAwaited
  <1>13. Manager!UpdateStarts(t) => Shipped!UpdateStarts(t)
    BY SameData DEF Manager!UpdateStarts, Shipped!UpdateStarts,
                    Manager!Transitioned, Shipped!Transitioned,
                    Manager!CauseCode, Shipped!CauseCode
  <1>14. Manager!UpdateSettled(t) => Shipped!UpdateSettled(t)
    BY SameData DEF Manager!UpdateSettled, Shipped!UpdateSettled
  <1>15. Manager!ResizeSettles(t) => Shipped!ResizeSettles(t)
    BY <1>14, SameData DEF Manager!ResizeSettles, Shipped!ResizeSettles
  <1>16. Manager!FinalizationSettles(t) => Shipped!FinalizationSettles(t)
    BY <1>14, SameData, SameStarts
       DEF Manager!FinalizationSettles, Shipped!FinalizationSettles
  <1> QED BY <1>1, <1>2, <1>3, <1>4, <1>5, <1>6, <1>7, <1>8, <1>9, <1>10, <1>11,
             <1>12, <1>13, <1>15, <1>16

LEMMA SameCloses ==
    /\ Manager!CloseAll => Shipped!CloseAll
    /\ \A t \in Terminals : Manager!Close(t) => Shipped!Close(t)
  <1>1. ASSUME NEW S, NEW error, Manager!CloseStarts(S, error)
        PROVE  Shipped!CloseStarts(S, error)
    <2>1. \A t \in Terminals :
             /\ Manager!Started(t, "close", session[t].exitCode,
                                output[t].queue, error[t])
                   = Shipped!Started(t, "close", session[t].exitCode,
                                     output[t].queue, error[t])
             /\ Manager!Quiesced(t, session[t].exitCode)
                   = Shipped!Quiesced(t, session[t].exitCode)
             /\ Manager!HungUp(t, error[t]) = Shipped!HungUp(t, error[t])
      BY SameStarts
    <2>2. finalization' = [t \in Terminals |->
             IF t \in S
             THEN Shipped!Started(t, "close", session[t].exitCode,
                                  output[t].queue, error[t])
             ELSE finalization[t]]
      BY <1>1, <2>1 DEF Manager!CloseStarts
    <2>3. session' = [t \in Terminals |->
             IF t \in S THEN Shipped!Quiesced(t, session[t].exitCode)
             ELSE session[t]]
      BY <1>1, <2>1 DEF Manager!CloseStarts
    <2>4. process' = [t \in Terminals |->
             IF t \in S THEN Shipped!HungUp(t, error[t]) ELSE process[t]]
      BY <1>1, <2>1 DEF Manager!CloseStarts
    <2> QED
      BY <1>1, <2>2, <2>3, <2>4 DEF Manager!CloseStarts, Shipped!CloseStarts
  <1>2. Manager!CloseAll => Shipped!CloseAll
    BY <1>1, SameData, SameStarts DEF Manager!CloseAll, Shipped!CloseAll
  <1>3. \A t \in Terminals : Manager!Close(t) => Shipped!Close(t)
    BY <1>1, SameData, SameStarts DEF Manager!Close, Shipped!Close
  <1> QED BY <1>2, <1>3

-----------------------------------------------------------------------------
(* The invariant *)

Creating == {"saving", "saveFailing"}

\* While a creation of a local terminal is not settled its request is in
\* flight, and the quit closes the gate before it waits for the requests: so
\* there is no creation when closeAll() runs, and none comes after it.
GateInv ==
    /\ \A t \in LocalTerminals :
          creation[t] \in Creating => <<"create", t>> \in admission.inFlight
    /\ quit \in {"draining", "detaching", "closing", "signingOut", "quit"} =>
          admission.closed
    /\ quit \in {"detaching", "closing", "signingOut", "quit"} =>
          \A t \in LocalTerminals : creation[t] \notin Creating

\* closeAll() was asked for every local terminal there is, and the quit goes on
\* only when it fulfilled for each.
ClosedInv ==
    \A t \in LocalTerminals : creation[t] = "created" =>
        /\ quit = "closing" => closeAll[t] # "idle"
        /\ quit \in {"signingOut", "quit"} => finalization[t].stage = "resolved"

\* What an earlier process left behind is not used again, and was recovered
\* when the desktop runs.
LeftInv ==
    /\ \A t \in Terminals : left[t] # NothingLeft =>
          creation[t] = "absent" /\ t \notin gateway.launching
    /\ quit # "down" => \A t \in Terminals : left[t].row.state # "running"
    /\ quit = "down" => starts < MaxStarts

DesktopInv ==
    /\ Shipped!DurableInv
    /\ TypeOK /\ GateInv /\ ClosedInv /\ LeftInv

LEMMA InitDesktop == Init => DesktopInv
  <1> SUFFICES ASSUME Init
               PROVE  DesktopInv
    OBVIOUS
  <1>1. Shipped!DurableInv
    <2>1. Shipped!Init
      BY DEF Init, Manager!Init, Shipped!Init, Manager!NoSession,
             Shipped!NoSession, Manager!NoOutput, Shipped!NoOutput,
             Manager!NoRecord, Shipped!NoRecord, Manager!NoFinalization,
             Shipped!NoFinalization, Manager!NoHistory, Shipped!NoHistory,
             Manager!NoDescriptor, Shipped!NoDescriptor, Manager!Undefined,
             Shipped!Undefined
    <2> QED BY <2>1, ShippedAssumption, Shipped!InitDurable
  <1>2. \A t \in Terminals : creation[t] = "absent" /\ left[t] = NothingLeft
    BY DEF Init, Manager!Init
  <1>3. TypeOK
    <2>1. NothingLeft \in [row : Manager!Descriptors, process : Manager!Processes]
      BY DesktopLifecycleAssumption
         DEF NothingLeft, Manager!NoDescriptor, Manager!Descriptors,
             Manager!Sizes, Manager!ExitCodes, Manager!Undefined,
             Manager!Processes
    <2> QED BY <2>1, DesktopLifecycleAssumption DEF Init, TypeOK
  <1>4. GateInv /\ ClosedInv
    BY <1>2 DEF Init, GateInv, ClosedInv, Creating, Terminals
  <1>5. LeftInv
    BY <1>2 DEF Init, LeftInv, NothingLeft, Manager!NoDescriptor
  <1> QED BY <1>1, <1>3, <1>4, <1>5 DEF DesktopInv

-----------------------------------------------------------------------------
(* The steps of the manager *)

LEMMA AdmittedIs ==
  ASSUME TypeOK, NEW S \in SUBSET Requests, Admitted(S)
  PROVE  /\ admission' \in [closed : BOOLEAN, inFlight : SUBSET Requests]
         /\ admission'.closed = admission.closed
         /\ \A r \in admission'.inFlight : InFlight(r)'
         /\ \A t \in Terminals :
               /\ creation'[t] \in Creating
               /\ <<"create", t>> \in admission.inFlight \cup S
               => <<"create", t>> \in admission'.inFlight
  <1> DEFINE settled == {r \in admission.inFlight \cup S : InFlight(r)'}
  <1>1. /\ admission \in [closed : BOOLEAN, inFlight : SUBSET Requests]
        /\ admission' = [admission EXCEPT !.inFlight = settled]
    BY DEF TypeOK, Admitted
  <1>2. settled \subseteq Requests
    BY <1>1
  <1>3. \A r \in settled : InFlight(r)'
    OBVIOUS
  <1>4. \A t \in Terminals :
           /\ creation'[t] \in Creating
           /\ <<"create", t>> \in admission.inFlight \cup S
           => <<"create", t>> \in settled
    BY DEF InFlight, Creating
  <1> HIDE DEF settled
  <1>5. /\ admission' \in [closed : BOOLEAN, inFlight : SUBSET Requests]
        /\ admission'.closed = admission.closed
        /\ admission'.inFlight = settled
    BY <1>1, <1>2
  <1> QED BY <1>3, <1>4, <1>5

\* A step of the manager that creates local terminals only while the gate is
\* open, and none that an earlier process had.
LEMMA ManagerKeeps ==
  ASSUME DesktopInv, Shipped!DurableInv',
         \A u \in Terminals : Shipped!Lasts(u) /\ Shipped!Moves(u),
         UNCHANGED <<quit, left, starts>>,
         gateway' \in [open : BOOLEAN, launching : SUBSET GatewayTerminals],
         gateway'.launching \subseteq gateway.launching,
         admission' \in [closed : BOOLEAN, inFlight : SUBSET Requests],
         admission'.closed = admission.closed,
         \A r \in admission'.inFlight : InFlight(r)',
         \A u \in LocalTerminals :
            creation'[u] \in Creating =>
               /\ <<"create", u>> \in admission'.inFlight
               /\ creation'[u] = creation[u] \/ ~admission.closed,
         \A u \in Terminals :
            left[u] # NothingLeft /\ creation[u] = "absent" =>
               creation'[u] = "absent"
  PROVE  DesktopInv'
  <1>1. TypeOK'
    BY DEF DesktopInv, TypeOK
  <1>2. GateInv'
    BY DEF DesktopInv, GateInv
  <1>3. ClosedInv'
    <2> SUFFICES ASSUME NEW t \in LocalTerminals, creation'[t] = "created",
                        quit \in {"closing", "signingOut", "quit"}
                 PROVE  /\ quit = "closing" => closeAll'[t] # "idle"
                        /\ quit \in {"signingOut", "quit"} =>
                              finalization'[t].stage = "resolved"
      BY DEF ClosedInv
    <2>1. creation[t] = "created"
      BY DEF DesktopInv, GateInv, Creating, Terminals, Shipped!Moves
    <2> QED BY <2>1 DEF DesktopInv, ClosedInv, Terminals, Shipped!Moves,
                        Shipped!Lasts
  <1>4. LeftInv'
    BY DEF DesktopInv, LeftInv
  <1> QED BY <1>1, <1>2, <1>3, <1>4 DEF DesktopInv

\* What a step of one terminal does in the manager.
LEMMA ManagerDoes ==
  ASSUME Shipped!DurableInv, NEW t \in Terminals,
         Shipped!StepOf(t) \/ Shipped!Close(t)
  PROVE  /\ Shipped!DurableInv'
         /\ \A u \in Terminals :
               /\ Shipped!Lasts(u) /\ Shipped!Moves(u)
               /\ \/ Shipped!Goes(t) \/ Shipped!Close(t) \/ u # t
                  => Shipped!CreatesNone(u)
  <1>1. Shipped!TypeOK
    BY DEF Shipped!DurableInv, Shipped!AgreeInv, Shipped!ContractInv,
           Shipped!ExitInv, Shipped!TypeInv
  <1>2. Shipped!Next
    BY DEF Shipped!Next, Shipped!StepOf
  <1>3. Shipped!DurableInv' /\ \A u \in Terminals : Shipped!Lasts(u)
    BY <1>2, ShippedAssumption, Shipped!StepDurable
  <1>4. ASSUME NEW u \in Terminals
        PROVE  /\ Shipped!Moves(u)
               /\ \/ Shipped!Goes(t) \/ Shipped!Close(t) \/ u # t
                  => Shipped!CreatesNone(u)
    <2>1. CASE Shipped!Close(t)
      BY <2>1, ShippedAssumption, Shipped!CloseMoves
    <2>2. CASE Shipped!StepOf(t) /\ ~Shipped!Close(t)
      BY <1>1, <2>2, ShippedAssumption, Shipped!StepMoves
    <2> QED BY <2>1, <2>2
  <1> QED BY <1>3, <1>4

LEMMA GoesKeeps ==
  ASSUME DesktopInv, NEW t \in Terminals,
         Shipped!Goes(t) \/ Shipped!Close(t),
         NEW S \in SUBSET Requests, Admitted(S),
         UNCHANGED <<quit, gateway, left, starts>>
  PROVE  DesktopInv'
  <1>1. /\ Shipped!DurableInv'
        /\ \A u \in Terminals : /\ Shipped!Lasts(u) /\ Shipped!Moves(u)
                                /\ Shipped!CreatesNone(u)
    <2>1. Shipped!StepOf(t) \/ Shipped!Close(t)
      BY DEF Shipped!Goes, Shipped!StepOf
    <2> QED BY <2>1, ManagerDoes DEF DesktopInv
  <1>2. /\ admission' \in [closed : BOOLEAN, inFlight : SUBSET Requests]
        /\ admission'.closed = admission.closed
        /\ \A r \in admission'.inFlight : InFlight(r)'
        /\ \A u \in Terminals :
              creation'[u] \in Creating /\ <<"create", u>> \in admission.inFlight
              => <<"create", u>> \in admission'.inFlight
    BY AdmittedIs DEF DesktopInv
  <1>3. \A u \in LocalTerminals :
           creation'[u] \in Creating =>
              <<"create", u>> \in admission'.inFlight /\ creation'[u] = creation[u]
    BY <1>1, <1>2 DEF DesktopInv, GateInv, Creating, Terminals,
                      Shipped!CreatesNone
  <1>4. \A u \in Terminals :
           left[u] # NothingLeft /\ creation[u] = "absent" =>
              creation'[u] = "absent"
    BY <1>1 DEF Shipped!CreatesNone
  <1>5. /\ gateway' \in [open : BOOLEAN, launching : SUBSET GatewayTerminals]
        /\ gateway'.launching \subseteq gateway.launching
    BY DEF DesktopInv, TypeOK
  <1> QED BY <1>1, <1>2, <1>3, <1>4, <1>5, ManagerKeeps

LEMMA ManagerRunsKeeps ==
  ASSUME DesktopInv, ManagerRuns
  PROVE  DesktopInv'
  <1>1. PICK t \in Terminals :
           \/ Manager!CreateResumes(t) \/ Manager!RollbackCreation(t)
           \/ Manager!PtyData(t) \/ Manager!PtyExit(t)
           \/ Manager!EscalateToSigkill(t) \/ Manager!GiveUpTermination(t)
           \/ Manager!NoticeExit(t) \/ Manager!OutputDrained(t)
           \/ Manager!AppendSettles(t) \/ Manager!UpdateStarts(t)
           \/ Manager!ResizeSettles(t) \/ Manager!FinalizationSettles(t)
    BY DEF ManagerRuns
  <1>2. Shipped!Goes(t)
    BY <1>1, SameSteps DEF Shipped!Goes
  <1>3. Admitted({}) /\ UNCHANGED <<quit, gateway, left, starts>>
    BY DEF ManagerRuns
  <1> QED BY <1>2, <1>3, GoesKeeps

LEMMA RequestKeeps ==
  ASSUME DesktopInv, NEW t \in Terminals,
         LocalResize(t) \/ LocalClose(t) \/ GatewayResize(t)
  PROVE  DesktopInv'
  <1>1. Shipped!Goes(t) \/ Shipped!Close(t)
    BY SameSteps, SameCloses
       DEF LocalResize, LocalClose, GatewayResize, Shipped!Goes
  <1>2. PICK S \in SUBSET Requests :
           Admitted(S) /\ UNCHANGED <<quit, gateway, left, starts>>
    <2>1. CASE GatewayResize(t)
      BY <2>1 DEF GatewayResize
    <2>2. CASE LocalResize(t)
      <3>1. {<<"resize", t>>} \in SUBSET Requests
        BY DEF Requests
      <3> QED BY <2>2, <3>1 DEF LocalResize, Admits
    <2>3. CASE LocalClose(t)
      <3>1. {<<"close", t>>} \in SUBSET Requests
        BY DEF Requests
      <3> QED BY <2>3, <3>1 DEF LocalClose, Admits
    <2> QED BY <2>1, <2>2, <2>3
  <1> QED BY <1>1, <1>2, GoesKeeps

LEMMA CreateIs ==
  ASSUME DesktopInv, NEW t \in Terminals,
         Manager!Create(t) \/ Manager!CreateWithoutListeners(t)
  PROVE  /\ Shipped!DurableInv'
         /\ \A u \in Terminals : /\ Shipped!Lasts(u) /\ Shipped!Moves(u)
                                 /\ u # t => Shipped!CreatesNone(u)
  <1>1. Shipped!StepOf(t)
    BY SameSteps DEF Shipped!StepOf
  <1> QED BY <1>1, ManagerDoes DEF DesktopInv

\* A local create() was admitted, so its request is in flight.
LEMMA LocalCreateKeeps ==
  ASSUME DesktopInv, NEW t \in Terminals, LocalCreate(t)
  PROVE  DesktopInv'
  <1>1. /\ left[t] = NothingLeft /\ ~admission.closed
        /\ Admitted({<<"create", t>>})
        /\ UNCHANGED <<quit, gateway, left, starts>>
    BY DEF LocalCreate, Admits
  <1>2. /\ Shipped!DurableInv'
        /\ \A u \in Terminals : /\ Shipped!Lasts(u) /\ Shipped!Moves(u)
                                /\ u # t => Shipped!CreatesNone(u)
    BY CreateIs DEF LocalCreate
  <1>3. /\ admission' \in [closed : BOOLEAN, inFlight : SUBSET Requests]
        /\ admission'.closed = admission.closed
        /\ \A r \in admission'.inFlight : InFlight(r)'
        /\ \A u \in Terminals :
              /\ creation'[u] \in Creating
              /\ <<"create", u>> \in admission.inFlight \cup {<<"create", t>>}
              => <<"create", u>> \in admission'.inFlight
    <2>1. {<<"create", t>>} \in SUBSET Requests
      BY DEF Requests
    <2> QED BY <1>1, <2>1, AdmittedIs DEF DesktopInv
  <1>4. \A u \in LocalTerminals :
           creation'[u] \in Creating =>
              /\ <<"create", u>> \in admission'.inFlight
              /\ creation'[u] = creation[u] \/ ~admission.closed
    BY <1>1, <1>2, <1>3 DEF DesktopInv, GateInv, Creating, Terminals,
                            Shipped!CreatesNone
  <1>5. \A u \in Terminals :
           left[u] # NothingLeft /\ creation[u] = "absent" =>
              creation'[u] = "absent"
    BY <1>1, <1>2 DEF Shipped!CreatesNone
  <1>6. /\ gateway' \in [open : BOOLEAN, launching : SUBSET GatewayTerminals]
        /\ gateway'.launching \subseteq gateway.launching
    BY <1>1 DEF DesktopInv, TypeOK
  <1> QED BY <1>1, <1>2, <1>3, <1>4, <1>5, <1>6, ManagerKeeps

\* The gateway passes no gate, and creates no local terminal.
LEMMA GatewayCreateKeeps ==
  ASSUME DesktopInv, NEW t \in Terminals, GatewayCreate(t)
  PROVE  DesktopInv'
  <1>1. /\ t \in gateway.launching
        /\ gateway' = [gateway EXCEPT !.launching = gateway.launching \ {t}]
        /\ UNCHANGED <<quit, admission, left, starts>>
    BY DEF GatewayCreate
  <1>2. /\ Shipped!DurableInv'
        /\ \A u \in Terminals : /\ Shipped!Lasts(u) /\ Shipped!Moves(u)
                                /\ u # t => Shipped!CreatesNone(u)
    BY CreateIs DEF GatewayCreate
  <1>3. /\ admission \in [closed : BOOLEAN, inFlight : SUBSET Requests]
        /\ \A r \in admission.inFlight : InFlight(r)
        /\ gateway \in [open : BOOLEAN, launching : SUBSET GatewayTerminals]
    BY DEF DesktopInv, TypeOK
  <1>4. t \in GatewayTerminals /\ t \notin LocalTerminals /\ left[t] = NothingLeft
    BY <1>1, <1>3, DesktopLifecycleAssumption DEF DesktopInv, LeftInv
  <1>5. /\ gateway' \in [open : BOOLEAN, launching : SUBSET GatewayTerminals]
        /\ gateway'.launching \subseteq gateway.launching
    BY <1>1, <1>3
  <1>6. /\ creation[t] = "absent"
        /\ \A u \in Terminals : u # t => creation'[u] = creation[u]
        /\ \A u \in Terminals :
              record'[u].queue = record[u].queue
        /\ UNCHANGED finalization
    <2>1. Shipped!TypeOK
      BY DEF DesktopInv, Shipped!DurableInv, Shipped!AgreeInv,
             Shipped!ContractInv, Shipped!ExitInv, Shipped!TypeInv
    <2>2. Shipped!Create(t) \/ Shipped!CreateWithoutListeners(t)
      BY SameSteps DEF GatewayCreate
    <2>3. creation[t] = "absent" /\ UNCHANGED finalization
      BY <2>2 DEF Shipped!Create, Shipped!CreateWithoutListeners
    <2>4. \A u \in Terminals : u # t => creation'[u] = creation[u]
      BY <2>1, <2>2 DEF Shipped!Create, Shipped!CreateWithoutListeners,
                        Shipped!TypeOK
    <2>5. \/ \E row : record' = [record EXCEPT
                ![t].descriptor = Shipped!FirstDescriptor, ![t].row = row]
          \/ record' = [record EXCEPT
                ![t].descriptor = Shipped!FirstDescriptor]
      BY <2>2 DEF Shipped!Create, Shipped!CreateWithoutListeners
    <2>6. ASSUME NEW u \in Terminals PROVE record'[u].queue = record[u].queue
      <3>1. record \in [Terminals -> Shipped!Records]
        BY <2>1 DEF Shipped!TypeOK
      <3>2. ASSUME NEW row,
                   record' = [record EXCEPT
                      ![t].descriptor = Shipped!FirstDescriptor, ![t].row = row]
            PROVE  record'[u].queue = record[u].queue
        BY <3>1, <3>2 DEF Shipped!Records
      <3>3. ASSUME record' = [record EXCEPT
                      ![t].descriptor = Shipped!FirstDescriptor]
            PROVE  record'[u].queue = record[u].queue
        BY <3>1, <3>3 DEF Shipped!Records
      <3> QED BY <2>5, <3>2, <3>3
    <2> QED BY <2>3, <2>4, <2>6
  <1>7. \A r \in admission'.inFlight : InFlight(r)'
    <2> SUFFICES ASSUME NEW r \in admission.inFlight
                 PROVE  InFlight(r)'
      BY <1>1
    <2>1. InFlight(r) /\ r \in Requests
      BY <1>3
    <2>2. CASE r = <<"peer", "peer">>
      BY <2>2 DEF InFlight
    <2>3. ASSUME NEW kind \in {"create", "resize", "close"}, NEW u \in Terminals,
                 r = <<kind, u>>
          PROVE  InFlight(r)'
      BY <1>6, <2>1, <2>3 DEF InFlight
    <2> QED BY <2>1, <2>2, <2>3 DEF Requests
  <1>8. \A u \in LocalTerminals :
           creation'[u] \in Creating =>
              /\ <<"create", u>> \in admission'.inFlight
              /\ creation'[u] = creation[u] \/ ~admission.closed
    BY <1>1, <1>4, <1>6 DEF DesktopInv, GateInv, Terminals
  <1>9. \A u \in Terminals :
           left[u] # NothingLeft /\ creation[u] = "absent" =>
              creation'[u] = "absent"
    BY <1>4, <1>6
  <1> QED BY <1>1, <1>2, <1>3, <1>5, <1>7, <1>8, <1>9, ManagerKeeps

\* closeAll() is asked for every terminal there is.
LEMMA DetachedKeeps ==
  ASSUME DesktopInv, Detached
  PROVE  DesktopInv'
  <1>1. /\ quit = "detaching" /\ quit' = "closing" /\ Admitted({})
        /\ Shipped!CloseAll /\ UNCHANGED <<gateway, left, starts>>
    BY SameCloses DEF Detached
  <1>2. Shipped!DurableInv'
    BY <1>1, ShippedAssumption, Shipped!StepDurable
       DEF DesktopInv, Shipped!Next
  <1>3. /\ creation' = creation
        /\ \A u \in Terminals : creation[u] = "created" => closeAll'[u] # "idle"
    BY <1>1, ShippedAssumption, Shipped!CloseAllAsks
  <1>4. /\ admission' \in [closed : BOOLEAN, inFlight : SUBSET Requests]
        /\ admission'.closed = admission.closed
        /\ \A r \in admission'.inFlight : InFlight(r)'
        /\ \A u \in Terminals :
              creation'[u] \in Creating /\ <<"create", u>> \in admission.inFlight
              => <<"create", u>> \in admission'.inFlight
    BY <1>1, AdmittedIs DEF DesktopInv
  <1>5. TypeOK'
    BY <1>1, <1>4 DEF DesktopInv, TypeOK
  <1>6. GateInv'
    BY <1>1, <1>3, <1>4 DEF DesktopInv, GateInv, Terminals
  <1>7. ClosedInv'
    BY <1>1, <1>3 DEF ClosedInv, Terminals
  <1>8. LeftInv'
    BY <1>1, <1>3 DEF DesktopInv, LeftInv
  <1> QED BY <1>2, <1>5, <1>6, <1>7, <1>8 DEF DesktopInv

-----------------------------------------------------------------------------
(* The steps of the desktop *)

\* Those of a quit, of the gate and of the gateway that call no manager.
Quiet ==
    \/ \E t \in Terminals :
          GatewayLaunch(t) \/ GatewayRefuses(t) \/ OrphanExits(t)
    \/ PeerRequest \/ PeerAnswers \/ GatewayOpens
    \/ BeforeQuit \/ CancelQuit \/ ConfirmQuit \/ Drained
    \/ CloseAllFailed \/ CloseAllSucceeded \/ ShutdownFailed \/ Quits
    \/ Starts

LEMMA QuietManager ==
  ASSUME DesktopInv, Quiet
  PROVE  /\ UNCHANGED managerVars /\ Shipped!DurableInv'
         /\ \A r : InFlight(r) => InFlight(r)'
  <1>1. UNCHANGED managerVars
    BY DEF Quiet, GatewayLaunch, GatewayRefuses, OrphanExits, PeerRequest,
           PeerAnswers, GatewayOpens, BeforeQuit, CancelQuit, ConfirmQuit,
           Drained, CloseAllFailed, CloseAllSucceeded, ShutdownFailed, Quits,
           Starts
  <1>2. UNCHANGED Shipped!vars
    BY <1>1 DEF managerVars, Shipped!vars
  <1>3. Shipped!DurableInv'
    BY <1>2, ShippedAssumption, Shipped!StepDurable DEF DesktopInv
  <1>4. ASSUME NEW r, InFlight(r) PROVE InFlight(r)'
    BY <1>1, <1>4 DEF managerVars, InFlight
  <1> QED BY <1>1, <1>3, <1>4

LEMMA QuietTypeOK ==
  ASSUME DesktopInv, Quiet
  PROVE  TypeOK'
  <1>0. /\ \A r : InFlight(r) => InFlight(r)'
        /\ quit \in {"idle", "confirming", "draining", "detaching", "closing",
                     "signingOut", "quit", "down"}
        /\ admission \in [closed : BOOLEAN, inFlight : SUBSET Requests]
        /\ \A r \in admission.inFlight : InFlight(r)
        /\ gateway \in [open : BOOLEAN, launching : SUBSET GatewayTerminals]
        /\ left \in [Terminals -> [row : Manager!Descriptors,
                                   process : Manager!Processes]]
        /\ starts \in 1..MaxStarts
    BY QuietManager DEF DesktopInv, TypeOK
  <1>1. quit' \in {"idle", "confirming", "draining", "detaching", "closing",
                   "signingOut", "quit", "down"}
    BY <1>0 DEF Quiet, GatewayLaunch, GatewayRefuses, OrphanExits, PeerRequest,
                Admits, PeerAnswers, GatewayOpens, BeforeQuit, CancelQuit,
                ConfirmQuit, CloseAdmission, Drained, CloseAllFailed,
                CloseAllSucceeded, ShutdownFailed, Quits, Starts
  <1>2. /\ admission' \in [closed : BOOLEAN, inFlight : SUBSET Requests]
        /\ \A r \in admission'.inFlight : InFlight(r)'
    <2>1. CASE PeerRequest
      <3>1. {<<"peer", "peer">>} \in SUBSET Requests
        BY DEF Requests
      <3> QED BY <2>1, <3>1, AdmittedIs DEF DesktopInv, PeerRequest, Admits
    <2>2. CASE PeerAnswers
      BY <1>0, <2>2 DEF PeerAnswers
    <2>3. CASE admission' = admission
      BY <1>0, <2>3
    <2>4. CASE \E closed \in BOOLEAN :
                  admission' = [admission EXCEPT !.closed = closed]
      BY <1>0, <2>4
    <2>5. ASSUME ~PeerRequest, ~PeerAnswers
          PROVE  \/ admission' = admission
                 \/ \E closed \in BOOLEAN :
                       admission' = [admission EXCEPT !.closed = closed]
      BY <2>5 DEF Quiet, GatewayLaunch, GatewayRefuses, OrphanExits,
                  GatewayOpens, BeforeQuit, CancelQuit, ConfirmQuit,
                  CloseAdmission, Drained, CloseAllFailed, CloseAllSucceeded,
                  ShutdownFailed, Quits, Starts
    <2> QED BY <2>1, <2>2, <2>3, <2>4, <2>5
  <1>3. gateway' \in [open : BOOLEAN, launching : SUBSET GatewayTerminals]
    <2>1. CASE \E t \in Terminals : GatewayLaunch(t) \/ GatewayRefuses(t)
      BY <1>0, <2>1 DEF GatewayLaunch, GatewayRefuses
    <2>2. CASE GatewayOpens \/ CloseAllSucceeded
      BY <1>0, <2>2 DEF GatewayOpens, CloseAllSucceeded
    <2>3. CASE gateway' = gateway
      BY <1>0, <2>3
    <2> QED
      BY <2>1, <2>2, <2>3
         DEF Quiet, OrphanExits, PeerRequest, Admits, PeerAnswers, BeforeQuit,
             CancelQuit, ConfirmQuit, Drained, CloseAllFailed, ShutdownFailed,
             Quits, Starts
  <1>4. left' \in [Terminals -> [row : Manager!Descriptors,
                                 process : Manager!Processes]]
    <2>1. CASE \E t \in Terminals : OrphanExits(t)
      <3>1. PICK t \in Terminals :
               left' = [left EXCEPT ![t].process = "exited"]
        BY <2>1 DEF OrphanExits
      <3> QED BY <1>0, <3>1 DEF Manager!Processes
    <2>2. CASE Starts
      <3>1. \A d \in Manager!Descriptors :
               RunningRowExited(d) \in Manager!Descriptors
        BY DEF RunningRowExited, Manager!Exited, Manager!Descriptors,
               Manager!ExitCodes
      <3> QED BY <1>0, <2>2, <3>1 DEF Starts
    <2>3. CASE left' = left
      BY <1>0, <2>3
    <2> QED
      BY <2>1, <2>2, <2>3
         DEF Quiet, GatewayLaunch, GatewayRefuses, GatewayOpens, PeerRequest,
             Admits, PeerAnswers, BeforeQuit, CancelQuit, ConfirmQuit, Drained,
             CloseAllFailed, CloseAllSucceeded, ShutdownFailed, Quits
  <1>5. starts' \in 1..MaxStarts
    <2>1. CASE Starts
      BY <1>0, <2>1, DesktopLifecycleAssumption
         DEF DesktopInv, LeftInv, Starts
    <2>2. CASE starts' = starts
      BY <1>0, <2>2
    <2> QED
      BY <2>1, <2>2
         DEF Quiet, GatewayLaunch, GatewayRefuses, OrphanExits, GatewayOpens,
             PeerRequest, Admits, PeerAnswers, BeforeQuit, CancelQuit,
             ConfirmQuit, Drained, CloseAllFailed, CloseAllSucceeded,
             ShutdownFailed, Quits
  <1> QED BY <1>1, <1>2, <1>3, <1>4, <1>5 DEF TypeOK

LEMMA QuietGate ==
  ASSUME DesktopInv, Quiet
  PROVE  GateInv' /\ ClosedInv'
  <1>0. /\ UNCHANGED <<creation, closeAll, finalization>>
        /\ GateInv /\ ClosedInv
        /\ admission \in [closed : BOOLEAN, inFlight : SUBSET Requests]
    BY QuietManager DEF managerVars, DesktopInv, TypeOK
  <1>1. CASE PeerRequest
    <2>1. {<<"peer", "peer">>} \in SUBSET Requests
      BY DEF Requests
    <2>2. /\ admission'.closed = admission.closed
          /\ \A t \in Terminals :
                creation'[t] \in Creating /\ <<"create", t>> \in admission.inFlight
                => <<"create", t>> \in admission'.inFlight
      BY <1>1, <2>1, AdmittedIs DEF DesktopInv, PeerRequest, Admits
    <2>3. quit' = quit
      BY <1>1 DEF PeerRequest, Admits
    <2> QED BY <1>0, <2>2, <2>3 DEF GateInv, ClosedInv, Terminals
  <1>2. CASE PeerAnswers
    <2>1. /\ quit' = quit /\ admission'.closed = admission.closed
          /\ admission'.inFlight = admission.inFlight \ {<<"peer", "peer">>}
      BY <1>0, <1>2 DEF PeerAnswers
    <2> QED BY <1>0, <2>1 DEF GateInv, ClosedInv
  <1>3. CASE quit' = quit /\ admission' = admission
    BY <1>0, <1>3 DEF GateInv, ClosedInv
  <1>4. CASE BeforeQuit \/ ConfirmQuit
    <2>1. /\ quit' \in {"confirming", "draining"}
          /\ admission'.inFlight = admission.inFlight
          /\ quit' = "draining" => admission'.closed
      BY <1>0, <1>4 DEF BeforeQuit, ConfirmQuit, CloseAdmission
    <2> QED BY <1>0, <2>1 DEF GateInv, ClosedInv
  <1>5. CASE CancelQuit \/ CloseAllFailed \/ ShutdownFailed \/ Starts
    <2>1. quit' = "idle" /\ admission'.inFlight = admission.inFlight
      BY <1>0, <1>5 DEF CancelQuit, CloseAllFailed, ShutdownFailed, Starts
    <2> QED BY <1>0, <2>1 DEF GateInv, ClosedInv
  <1>6. CASE Drained
    BY <1>0, <1>6 DEF Drained, GateInv, ClosedInv
  <1>7. CASE CloseAllSucceeded
    <2>1. /\ quit = "closing" /\ quit' = "signingOut" /\ admission' = admission
          /\ \A t \in Terminals : closeAll[t] \notin {"pending", "rejected"}
      BY <1>7 DEF CloseAllSucceeded
    <2>2. GateInv'
      BY <1>0, <2>1 DEF GateInv
    <2>3. ASSUME NEW t \in LocalTerminals, creation[t] = "created"
          PROVE  finalization[t].stage = "resolved"
      <3>1. closeAll[t] # "idle" /\ t \in Terminals
        BY <1>0, <2>1, <2>3 DEF ClosedInv, Terminals
      <3>2. /\ closeAll[t] \in {"idle", "pending", "resolved", "rejected"}
            /\ closeAll[t] = "resolved" => finalization[t].stage = "resolved"
        BY <3>1 DEF DesktopInv, Shipped!DurableInv, Shipped!AgreeInv,
                    Shipped!ContractInv, Shipped!ExitInv, Shipped!TypeInv,
                    Shipped!TypeOK, Shipped!Promises, Shipped!AgreesOf,
                    Shipped!ClosesClean
      <3> QED BY <2>1, <3>1, <3>2
    <2> QED BY <1>0, <2>1, <2>2, <2>3 DEF ClosedInv
  <1>8. CASE Quits
    BY <1>0, <1>8 DEF Quits, GateInv, ClosedInv
  <1> QED
    BY <1>1, <1>2, <1>3, <1>4, <1>5, <1>6, <1>7, <1>8
       DEF Quiet, GatewayLaunch, GatewayRefuses, OrphanExits, GatewayOpens

LEMMA QuietLeft ==
  ASSUME DesktopInv, Quiet
  PROVE  LeftInv'
  <1>0. /\ UNCHANGED creation /\ LeftInv
        /\ left \in [Terminals -> [row : Manager!Descriptors,
                                   process : Manager!Processes]]
        /\ gateway \in [open : BOOLEAN, launching : SUBSET GatewayTerminals]
    BY QuietManager DEF managerVars, DesktopInv, TypeOK
  <1>1. CASE \E t \in Terminals : OrphanExits(t)
    <2>1. PICK t \in Terminals :
             /\ left[t].process \in {"hungUp", "killed"}
             /\ left' = [left EXCEPT ![t].process = "exited"]
             /\ UNCHANGED <<quit, gateway, starts>>
      BY <1>1 DEF OrphanExits
    <2>2. left[t] # NothingLeft
      BY <2>1 DEF NothingLeft
    <2>3. /\ \A u \in Terminals : left'[u].row = left[u].row
          /\ \A u \in Terminals : left'[u] # NothingLeft => left[u] # NothingLeft
      BY <1>0, <2>1, <2>2
    <2> QED BY <1>0, <2>1, <2>3 DEF LeftInv
  <1>2. CASE Starts
    <2>1. /\ quit = "down" /\ quit' = "idle" /\ UNCHANGED gateway
          /\ left' = [t \in Terminals |->
                [left[t] EXCEPT !.row = RunningRowExited(left[t].row)]]
      BY <1>2 DEF Starts
    <2>2. ASSUME NEW u \in Terminals
          PROVE  /\ left'[u].row.state # "running"
                 /\ left'[u] # NothingLeft => left[u] # NothingLeft
      <3>1. /\ left'[u].row = RunningRowExited(left[u].row)
            /\ left'[u] = [left[u] EXCEPT !.row = RunningRowExited(left[u].row)]
            /\ left[u].row \in Manager!Descriptors
        BY <1>0, <2>1
      <3>2. left'[u].row.state # "running"
        BY <3>1 DEF RunningRowExited, Manager!Exited, Manager!Descriptors
      <3>3. left[u] = NothingLeft => left'[u] = NothingLeft
        BY <3>1 DEF RunningRowExited, NothingLeft, Manager!NoDescriptor
      <3> QED BY <3>2, <3>3
    <2> QED BY <1>0, <2>1, <2>2 DEF LeftInv
  <1>3. CASE \E t \in Terminals : GatewayLaunch(t)
    <2>1. PICK t \in Terminals :
             /\ left[t] = NothingLeft
             /\ gateway'.launching = gateway.launching \cup {t}
             /\ UNCHANGED <<quit, left, starts>>
      BY <1>0, <1>3 DEF GatewayLaunch
    <2> QED BY <1>0, <2>1 DEF LeftInv
  <1>4. ASSUME ~(\E t \in Terminals : OrphanExits(t) \/ GatewayLaunch(t)), ~Starts
        PROVE  /\ UNCHANGED <<left, starts>>
               /\ gateway'.launching \subseteq gateway.launching
               /\ quit' = "down" <=> quit = "down"
    <2>1. CASE \E t \in Terminals : GatewayRefuses(t)
      BY <1>0, <2>1 DEF GatewayRefuses
    <2>2. CASE GatewayOpens \/ CloseAllSucceeded
      BY <1>0, <2>2 DEF GatewayOpens, CloseAllSucceeded
    <2>3. CASE \/ PeerRequest \/ PeerAnswers \/ BeforeQuit \/ CancelQuit
               \/ ConfirmQuit \/ Drained \/ CloseAllFailed \/ ShutdownFailed
               \/ Quits
      BY <2>3 DEF PeerRequest, Admits, PeerAnswers, BeforeQuit, CancelQuit,
                  ConfirmQuit, CloseAdmission, Drained, CloseAllFailed,
                  ShutdownFailed, Quits
    <2> QED BY <1>4, <2>1, <2>2, <2>3 DEF Quiet
  <1> QED BY <1>0, <1>1, <1>2, <1>3, <1>4 DEF LeftInv

\* The next process has a manager in its initial state.
LEMMA EndsInit ==
  ASSUME ProcessEnds
  PROVE  Shipped!Init'
  BY DEF ProcessEnds, Shipped!Init, Manager!NoSession, Shipped!NoSession,
         Manager!NoOutput, Shipped!NoOutput, Manager!NoRecord,
         Shipped!NoRecord, Manager!NoFinalization, Shipped!NoFinalization,
         Manager!NoHistory, Shipped!NoHistory, Manager!NoDescriptor,
         Shipped!NoDescriptor, Manager!Undefined, Shipped!Undefined

LEMMA InitDurableNext == Shipped!Init' => Shipped!DurableInv'
  <1>1. Shipped!Init => Shipped!DurableInv
    BY ShippedAssumption, Shipped!InitDurable
  <1>2. (Shipped!Init => Shipped!DurableInv)'
    BY <1>1, PTL
  <1> QED BY <1>2

LEMMA EndsKeeps ==
  ASSUME DesktopInv, ProcessEnds
  PROVE  DesktopInv'
  <1>1. Shipped!DurableInv'
    BY EndsInit, InitDurableNext
  <1>2. /\ \A t \in Terminals : creation'[t] = "absent"
        /\ quit' = "down" /\ starts' = starts /\ starts < MaxStarts
        /\ admission' = [closed |-> FALSE, inFlight |-> {}]
        /\ gateway' = [open |-> FALSE, launching |-> {}]
        /\ left' = [t \in Terminals |->
              IF creation[t] = "absent" THEN left[t] ELSE Left(t)]
    BY DEF ProcessEnds
  <1>3. ASSUME NEW t \in Terminals
        PROVE  Left(t) \in [row : Manager!Descriptors,
                            process : Manager!Processes]
    <2>1. /\ record[t] \in Shipped!Records /\ process[t] \in Shipped!Processes
      BY DEF DesktopInv, Shipped!DurableInv, Shipped!AgreeInv,
             Shipped!ContractInv, Shipped!ExitInv, Shipped!TypeInv,
             Shipped!TypeOK
    <2>2. record[t].row \in Manager!Descriptors
      BY <2>1 DEF Shipped!Records, Shipped!Descriptors, Manager!Descriptors,
                  Shipped!Sizes, Manager!Sizes, Shipped!ExitCodes,
                  Manager!ExitCodes, Shipped!RolledBackCode,
                  Manager!RolledBackCode, Shipped!Undefined, Manager!Undefined
    <2> QED BY <2>1, <2>2 DEF Left, Shipped!Processes, Manager!Processes
  <1>4. TypeOK'
    BY <1>2, <1>3 DEF DesktopInv, TypeOK
  <1>5. GateInv' /\ ClosedInv' /\ LeftInv'
    BY <1>2 DEF GateInv, ClosedInv, LeftInv, Creating, Terminals
  <1> QED BY <1>1, <1>4, <1>5 DEF DesktopInv

LEMMA StepDesktop == DesktopInv /\ [Next]_vars => DesktopInv'
  <1> SUFFICES ASSUME DesktopInv, [Next]_vars
               PROVE  DesktopInv'
    OBVIOUS
  <1>1. CASE ManagerRuns
    BY <1>1, ManagerRunsKeeps
  <1>2. ASSUME NEW t \in Terminals,
               LocalResize(t) \/ LocalClose(t) \/ GatewayResize(t)
        PROVE  DesktopInv'
    BY <1>2, RequestKeeps
  <1>3. ASSUME NEW t \in Terminals, LocalCreate(t)
        PROVE  DesktopInv'
    BY <1>3, LocalCreateKeeps
  <1>4. ASSUME NEW t \in Terminals, GatewayCreate(t)
        PROVE  DesktopInv'
    BY <1>4, GatewayCreateKeeps
  <1>5. CASE Detached
    BY <1>5, DetachedKeeps
  <1>6. CASE ProcessEnds
    BY <1>6, EndsKeeps
  <1>7. CASE Quiet
    BY <1>7, QuietManager, QuietTypeOK, QuietGate, QuietLeft DEF DesktopInv
  <1>8. CASE UNCHANGED vars
    <2>1. UNCHANGED Shipped!vars
      BY <1>8 DEF vars, managerVars, Shipped!vars
    <2>2. Shipped!DurableInv'
      BY <2>1, ShippedAssumption, Shipped!StepDurable DEF DesktopInv
    <2>3. TypeOK'
      <3>1. ASSUME NEW r, InFlight(r) PROVE InFlight(r)'
        BY <1>8, <3>1 DEF vars, managerVars, InFlight
      <3> QED BY <1>8, <3>1 DEF vars, DesktopInv, TypeOK
    <2>4. GateInv' /\ ClosedInv' /\ LeftInv'
      BY <1>8 DEF vars, managerVars, DesktopInv, GateInv, ClosedInv, LeftInv
    <2> QED BY <2>2, <2>3, <2>4 DEF DesktopInv
  <1> QED
    BY <1>1, <1>2, <1>3, <1>4, <1>5, <1>6, <1>7, <1>8 DEF Next, Quiet

\* The desktop's state keeps its shape, and the gate waits for pending requests
\* only (inFlight of ipc/admission.ts).
THEOREM DesktopTyped == Spec => []TypeOK
  <1>1. Init => DesktopInv
    BY InitDesktop
  <1>2. DesktopInv /\ [Next]_vars => DesktopInv'
    BY StepDesktop
  <1>3. DesktopInv => TypeOK
    BY DEF DesktopInv
  <1> QED BY <1>1, <1>2, <1>3, PTL DEF Spec

\* app.quit() is called with nothing of the local terminals unfinished: the
\* gate closes before the requests are awaited and closeAll() is called after,
\* so it meets every local terminal, and the quit goes on only when each
\* finalization met no error (onBeforeQuit of lifecycle.ts).
THEOREM QuitsClean == Spec => []QuitIsClean
  <1>1. Init => DesktopInv
    BY InitDesktop
  <1>2. DesktopInv /\ [Next]_vars => DesktopInv'
    BY StepDesktop
  <1>3. DesktopInv => QuitIsClean
    <2> SUFFICES ASSUME DesktopInv, quit = "quit", NEW t \in LocalTerminals
                 PROVE  /\ creation[t] \notin {"saving", "saveFailing"}
                        /\ creation[t] = "created" =>
                              /\ process[t] = "exited"
                              /\ record[t].row.state = "exited"
                              /\ record[t].queue = <<>>
                              /\ Len(output[t].published) = output[t].emitted
      BY DEF QuitIsClean
    <2>1. creation[t] \notin {"saving", "saveFailing"} /\ t \in Terminals
      BY DEF DesktopInv, GateInv, Creating, Terminals
    <2>2. creation[t] = "created" => finalization[t].stage = "resolved"
      BY DEF DesktopInv, ClosedInv
    <2> QED BY <2>1, <2>2, ShippedAssumption, Shipped!ResolvedIsClean
            DEF DesktopInv
  <1> QED BY <1>1, <1>2, <1>3, PTL DEF Spec

-----------------------------------------------------------------------------
(* The rows, across processes *)

LEMMA NeverGhost == DesktopInv => NoGhostRow
  <1> SUFFICES ASSUME DesktopInv, quit # "down", NEW t \in Terminals,
                      Row(t).state = "running"
               PROVE  Manager!InMap(t)
    BY DEF NoGhostRow, RunningRows
  <1>1. left[t] = NothingLeft /\ record[t].row.state = "running"
    BY DEF DesktopInv, LeftInv, Row
  <1>2. Shipped!RowKept(t)
    BY DEF DesktopInv, Shipped!DurableInv
  <1>3. creation[t] \in {"saving", "created"}
    BY <1>1, <1>2 DEF Shipped!RowKept, Shipped!NoDescriptor
  <1> QED BY <1>3 DEF Manager!InMap

\* What a step of the manager does to the rows.
LEMMA ManagerRows ==
  ASSUME DesktopInv, [Next]_vars, UNCHANGED left, NEW t \in Terminals,
         Row(t).state = "exited", ~ProcessEnds
  PROVE  Row(t)' = Row(t)
  <1>1. Shipped!Lasts(t)
    <2>1. CASE Shipped!Next \/ UNCHANGED Shipped!vars
      BY <2>1, ShippedAssumption, Shipped!StepDurable DEF DesktopInv
    <2>2. CASE UNCHANGED managerVars
      <3>1. UNCHANGED Shipped!vars
        BY <2>2 DEF managerVars, Shipped!vars
      <3> QED BY <2>1, <3>1
    <2>3. ASSUME NEW u \in Terminals,
                 \/ LocalCreate(u) \/ GatewayCreate(u) \/ LocalResize(u)
                 \/ LocalClose(u) \/ GatewayResize(u)
          PROVE  Shipped!Next
      BY <2>3, SameSteps, SameCloses
         DEF LocalCreate, GatewayCreate, LocalResize, LocalClose,
             GatewayResize, Shipped!Next
    <2>4. ASSUME ManagerRuns PROVE Shipped!Next
      <3>1. PICK u \in Terminals :
               \/ Manager!CreateResumes(u) \/ Manager!RollbackCreation(u)
               \/ Manager!PtyData(u) \/ Manager!PtyExit(u)
               \/ Manager!EscalateToSigkill(u) \/ Manager!GiveUpTermination(u)
               \/ Manager!NoticeExit(u) \/ Manager!OutputDrained(u)
               \/ Manager!AppendSettles(u) \/ Manager!UpdateStarts(u)
               \/ Manager!ResizeSettles(u) \/ Manager!FinalizationSettles(u)
        BY <2>4 DEF ManagerRuns
      <3> QED BY <3>1, SameSteps DEF Shipped!Next
    <2>5. ASSUME Detached PROVE Shipped!Next
      BY <2>5, SameCloses DEF Detached, Shipped!Next
    <2>6. ASSUME Quiet PROVE UNCHANGED managerVars
      BY <2>6, QuietManager
    <2>7. ASSUME UNCHANGED vars PROVE UNCHANGED managerVars
      BY <2>7 DEF vars
    <2> QED BY <2>1, <2>2, <2>3, <2>4, <2>5, <2>6, <2>7 DEF Next, Quiet
  <1>2. record[t].row.state = "exited" => record'[t].row = record[t].row
    BY <1>1 DEF Shipped!Lasts
  <1> QED BY <1>2 DEF Row, NothingLeft

LEMMA StepRows ==
  ASSUME DesktopInv, [Next]_vars, NEW t \in Terminals, Row(t).state = "exited"
  PROVE  Row(t)' = Row(t)
  <1>0. /\ left \in [Terminals -> [row : Manager!Descriptors,
                                   process : Manager!Processes]]
        /\ left[t] # NothingLeft => creation[t] = "absent"
        /\ creation[t] = "absent" => record[t].row.state # "exited"
    BY DEF DesktopInv, TypeOK, LeftInv, Shipped!DurableInv, Shipped!RowKept,
           Shipped!NoDescriptor
  <1>1. NothingLeft.row.state = "none"
    BY DEF NothingLeft, Manager!NoDescriptor
  <1>2. CASE ProcessEnds
    <2>1. left'[t] = IF creation[t] = "absent" THEN left[t] ELSE Left(t)
      BY <1>2 DEF ProcessEnds
    <2>2. CASE creation[t] = "absent"
      <3>1. left[t] # NothingLeft
        BY <1>0, <2>2 DEF Row
      <3> QED BY <2>1, <2>2, <3>1 DEF Row, NothingLeft
    <2>3. CASE creation[t] # "absent"
      <3>1. left[t] = NothingLeft /\ record[t].row.state = "exited"
        BY <1>0, <2>3 DEF Row
      <3>2. Left(t).row = record[t].row
        BY DEF Left
      <3>3. left'[t] = Left(t) /\ left'[t] # NothingLeft
        BY <1>1, <2>1, <2>3, <3>1, <3>2
      <3> QED BY <3>1, <3>2, <3>3 DEF Row, NothingLeft
    <2> QED BY <2>2, <2>3
  <1>3. CASE \E u \in Terminals : OrphanExits(u)
    <2>1. PICK u \in Terminals :
             /\ left[u].process \in {"hungUp", "killed"}
             /\ left' = [left EXCEPT ![u].process = "exited"]
             /\ UNCHANGED record
      BY <1>3 DEF OrphanExits, managerVars
    <2>2. left'[t].row = left[t].row
      BY <1>0, <2>1
    <2>3. left'[t] = NothingLeft <=> left[t] = NothingLeft
      <3>1. CASE u = t
        <4>1. left'[t].process = "exited" /\ NothingLeft.process = "none"
          BY <1>0, <2>1, <3>1 DEF NothingLeft
        <4> QED BY <2>1, <3>1, <4>1
      <3>2. CASE u # t
        BY <1>0, <2>1, <3>2
      <3> QED BY <3>1, <3>2
    <2> QED BY <2>1, <2>2, <2>3 DEF Row, NothingLeft
  <1>4. CASE Starts
    <2>1. /\ left' = [u \in Terminals |->
                [left[u] EXCEPT !.row = RunningRowExited(left[u].row)]]
          /\ UNCHANGED record
      BY <1>4 DEF Starts, managerVars
    <2>2. left'[t] = [left[t] EXCEPT !.row = RunningRowExited(left[t].row)]
      BY <2>1
    <2>3. CASE left[t] = NothingLeft
      <3>1. left'[t] = NothingLeft
        BY <2>2, <2>3 DEF RunningRowExited, NothingLeft, Manager!NoDescriptor
      <3> QED BY <2>1, <2>3, <3>1 DEF Row, NothingLeft
    <2>4. CASE left[t] # NothingLeft
      <3>1. left[t].row.state = "exited"
        BY <2>4 DEF Row
      <3>2. left'[t] = left[t]
        BY <1>0, <2>2, <3>1 DEF RunningRowExited
      <3> QED BY <2>4, <3>2 DEF Row, NothingLeft
    <2> QED BY <2>3, <2>4
  <1>5. ASSUME ~ProcessEnds, ~(\E u \in Terminals : OrphanExits(u)), ~Starts
        PROVE  UNCHANGED left
    BY <1>5
       DEF Next, ManagerRuns, LocalCreate, LocalResize, LocalClose, Admits,
           GatewayLaunch, GatewayCreate, GatewayRefuses, GatewayResize,
           PeerRequest, PeerAnswers, GatewayOpens, BeforeQuit, CancelQuit,
           ConfirmQuit, Drained, Detached, CloseAllFailed, CloseAllSucceeded,
           ShutdownFailed, Quits, vars
  <1> QED BY <1>2, <1>3, <1>4, <1>5, ManagerRows

\* What the rows say outlives crashes and quits: an exit that was recorded stays
\* as it was, across late exits and the recovery at the next start, and while
\* the desktop runs a row that says running is that of a session it has
\* (bootstrapDesktop, markRunningExited and the transitions of manager.ts).
THEOREM RowsLast == Spec => RowsOutliveCrashes
  <1>1. Init => DesktopInv
    BY InitDesktop
  <1>2. DesktopInv /\ [Next]_vars => DesktopInv'
    BY StepDesktop
  <1>3. DesktopInv => NoGhostRow
    BY NeverGhost
  <1>4. DesktopInv /\ [Next]_vars =>
           [\A t \in Terminals :
               Row(t).state = "exited" => Row(t)' = Row(t)]_vars
    BY StepRows
  <1> QED BY <1>1, <1>2, <1>3, <1>4, PTL
          DEF Spec, RowsOutliveCrashes, RecordedExitIsFinal
=============================================================================
