----------------------- MODULE TerminalManagerProofs -----------------------
(***************************************************************************)
(* What a TerminalManager keeps for any terminals, bounds, faults and      *)
(* repository, and what it promises over the shipped one, in six parts.    *)
(*                                                                         *)
(* Its shape.  TypeOK is not inductive by itself: the continuation of an   *)
(* update takes the head of the descriptor queue, so a queue with an       *)
(* update in progress must not be empty (UpdateHasTransition).             *)
(*                                                                         *)
(* That it never claims an exit that did not happen.  NoFalseExit speaks   *)
(* of the row and of the announcements only; it is not inductive, since    *)
(* both are written from a descriptor that went through a queue, put there *)
(* by a finalization that believed exitResolved.  ExitInv says each of     *)
(* these waits for the exit.                                               *)
(*                                                                         *)
(* That output is kept.  OutputKept is not inductive either: PtyData       *)
(* appends to the queue of a created terminal, which is the next chunk     *)
(* only if nothing is held back any more.  OutputInv adds that.            *)
(*                                                                         *)
(* That a terminal ends once.  EndedOnce counts the exits announced, and   *)
(* an update announces what it takes from the queue of transitions.        *)
(* RowInv counts the exits in the queue, and those before them, too.       *)
(*                                                                         *)
(* Over the shipped repository, that it keeps its contract: every          *)
(* behaviour of it, seen through onChanged and onOutput, is one of         *)
(* TerminalContract.  A step maps to a step only in states that the        *)
(* manager keeps it in: what was announced last is the descriptor, a queue *)
(* of transitions holds resizes in the order they were accepted and an     *)
(* exit at its end, and a finalization that queues the exit has published  *)
(* all output before.  Contracted says this of one terminal.               *)
(*                                                                         *)
(* And that its records agree: the row says what was announced, the code   *)
(* that is kept is that of what ended the terminal first, and what         *)
(* closeAll() answered is so.  AgreeInv adds what the row, the             *)
(* finalization and the answer are between the step that decides and the   *)
(* one that records.  DurableInv, Lasts and Moves are for the process that *)
(* runs the manager: what outlives it, and what a step does to a row.      *)
(***************************************************************************)
EXTENDS TerminalManager, TLAPS

\* The codes and sizes the code writes are among those the types allow.
LEMMA Constants ==
  /\ NativeCodes \subseteq ExitCodes
  /\ 0 \in ExitCodes /\ RolledBackCode \in ExitCodes /\ Undefined \in ExitCodes
  /\ 0 \in Sizes /\ 0 \in 0..MaxOutput
  /\ ExitTransition \in Sizes
  BY TerminalManagerAssumption
  DEF ExitCodes, RolledBackCode, Undefined, Sizes, ExitTransition

\* Descriptors stay descriptors through exited() and the row's update.
LEMMA DescriptorsTyped ==
  /\ NoDescriptor \in Descriptors
  /\ FirstDescriptor \in Descriptors
  /\ \A d \in Descriptors, code \in ExitCodes : Exited(d, code) \in Descriptors
  /\ \A r \in Descriptors, d \in Descriptors : Update(r, d) \in Descriptors
  BY Constants DEF NoDescriptor, FirstDescriptor, Exited, Update, Descriptors

\* What a call may throw, and the first of two errors, are error values.
LEMMA ErrorsTyped ==
  /\ \A kind : Thrown(kind) \subseteq Errors
  /\ \A e, f \in Errors : Coalesce(e, f) \in Errors
  BY DEF Thrown, Errors, Coalesce

\* A queue that was appended to is not empty.
LEMMA AppendNotEmpty ==
  ASSUME NEW S, NEW q \in Seq(S), NEW x \in S
  PROVE  Append(q, x) # <<>>
  <1>1. Len(Append(q, x)) = Len(q) + 1 /\ Len(q) \in Nat
    OBVIOUS
  <1> QED
    BY <1>1

\* What startFinalization leaves of the finalization, session and process.
LEMMA StartedTyped ==
  ASSUME TypeOK, NEW t \in Terminals, NEW kind \in {"close", "native"},
         NEW exit \in ExitCodes, NEW queue \in Seq(Chunks),
         NEW error \in Errors
  PROVE  /\ Started(t, kind, exit, queue, error) \in Finalizations
         /\ Quiesced(t, exit) \in Sessions
         /\ HungUp(t, error) \in Processes
  <1>1. Started(t, kind, exit, queue, error) \in Finalizations
    BY DEF TypeOK, Started, FirstCause, Finalizations
  <1>2. Quiesced(t, exit) \in Sessions
    BY DEF TypeOK, Quiesced, Sessions
  <1>3. HungUp(t, error) \in Processes
    BY DEF TypeOK, HungUp, Processes
  <1> QED
    BY <1>1, <1>2, <1>3

\* close and closeAll keep the shape of the state.
LEMMA CloseStartsTyped ==
  ASSUME TypeOK, NEW S \in SUBSET Terminals,
         NEW error \in [Terminals -> Thrown("pty")], CloseStarts(S, error),
         closeAll' \in [Terminals -> Promises]
  PROVE  TypeOK'
  <1>1. \A t \in Terminals :
           /\ error[t] \in Errors
           /\ session[t].exitCode \in ExitCodes
           /\ output[t].queue \in Seq(Chunks)
    BY ErrorsTyped DEF TypeOK, Sessions, Outputs
  <1>2. finalization' \in [Terminals -> Finalizations]
    BY <1>1, StartedTyped DEF TypeOK, CloseStarts
  <1>3. session' \in [Terminals -> Sessions]
    <2>1. \A t \in Terminals : Quiesced(t, session[t].exitCode) \in Sessions
      BY <1>1, StartedTyped
    <2> QED
      BY <2>1 DEF TypeOK, CloseStarts
  <1>4. process' \in [Terminals -> Processes]
    BY <1>1, StartedTyped DEF TypeOK, CloseStarts
  <1>5. history' \in [Terminals -> Histories]
    BY DEF TypeOK, CloseStarts, Histories
  <1> QED
    BY <1>2, <1>3, <1>4, <1>5 DEF TypeOK, CloseStarts

\* The settlement of an update keeps the shape of the records.
LEMMA UpdateSettledTyped ==
  ASSUME TypeOK, NEW t \in Terminals, UpdateSettled(t), record[t].queue # <<>>
  PROVE  record' \in [Terminals -> Records]
  <1>1. /\ record[t].next \in Descriptors
        /\ NoDescriptor \in Descriptors
        /\ "undefined" \in Errors
        /\ Tail(record[t].queue) \in Seq(Sizes)
        /\ Append(record[t].announced, record[t].next) \in Seq(Descriptors)
    BY DescriptorsTyped DEF TypeOK, Records, Errors
  <1> QED
    BY <1>1 DEF TypeOK, UpdateSettled, Records

\* An update that runs belongs to the transition at the head of the queue.
UpdateHasTransition ==
    \A t \in Terminals :
        record[t].next # NoDescriptor => record[t].queue # <<>>

TypeInv == TypeOK /\ UpdateHasTransition

\* Every step of the manager keeps the shape of the state.
LEMMA StepTypeOK == TypeInv /\ [Next]_vars => TypeOK'
  <1> SUFFICES ASSUME TypeInv, [Next]_vars PROVE TypeOK'
    OBVIOUS
  <1>0. TypeOK
    BY DEF TypeInv
  <1>1. ASSUME NEW t \in Terminals, Create(t) PROVE TypeOK'
    <2>1. creation' \in [Terminals -> Creations]
      BY <1>0, <1>1 DEF TypeOK, Create, Creations
    <2>2. session' \in [Terminals -> Sessions]
      <3>1. [acceptingInput |-> TRUE, pty |-> TRUE, subscribed |-> TRUE,
             exitCode |-> Undefined] \in Sessions
        BY Constants DEF Sessions
      <3> QED
        BY <1>0, <1>1, <3>1 DEF TypeOK, Create
    <2>3. record' \in [Terminals -> Records]
      <3>1. PICK row \in Descriptors :
               record' = [record EXCEPT ![t].descriptor = FirstDescriptor,
                                        ![t].row = row]
        BY <1>1, DescriptorsTyped DEF Create
      <3> QED
        BY <1>0, <3>1, DescriptorsTyped DEF TypeOK, Records
    <2>4. process' \in [Terminals -> Processes]
      BY <1>0, <1>1 DEF TypeOK, Create, Processes
    <2> QED
      BY <1>0, <1>1, <2>1, <2>2, <2>3, <2>4 DEF TypeOK, Create
  <1>2. ASSUME NEW t \in Terminals, CreateWithoutListeners(t) PROVE TypeOK'
    <2>1. creation' \in [Terminals -> Creations]
      BY <1>0, <1>2 DEF TypeOK, CreateWithoutListeners, Creations
    <2>2. record' \in [Terminals -> Records]
      <3>1. record' = [record EXCEPT ![t].descriptor = FirstDescriptor]
        BY <1>2 DEF CreateWithoutListeners
      <3> QED
        BY <1>0, <3>1, DescriptorsTyped DEF TypeOK, Records
    <2>3. process' \in [Terminals -> Processes]
      BY <1>0, <1>2 DEF TypeOK, CreateWithoutListeners, Processes
    <2> QED
      BY <1>0, <1>2, <2>1, <2>2, <2>3 DEF TypeOK, CreateWithoutListeners
  <1>3. ASSUME NEW t \in Terminals, CreateResumes(t) PROVE TypeOK'
    <2> DEFINE queue == Flushed(t)
    <2>1. creation' \in [Terminals -> Creations]
      BY <1>0, <1>3 DEF TypeOK, CreateResumes, Creations
    <2>2. queue \in Seq(Chunks)
      BY <1>0 DEF TypeOK, Outputs, Flushed
    <2>3. output' \in [Terminals -> Outputs]
      <3>1. output' = [output EXCEPT ![t].queue = queue, ![t].early = <<>>]
        BY <1>3 DEF CreateResumes
      <3>2. <<>> \in Seq(Chunks)
        OBVIOUS
      <3> HIDE DEF queue
      <3> QED
        BY <1>0, <2>2, <3>1, <3>2 DEF TypeOK, Outputs
    <2>4. record' \in [Terminals -> Records]
      <3>1. /\ record' = [record EXCEPT ![t].announced =
                            Append(@, FirstDescriptor)]
            /\ Append(record[t].announced, FirstDescriptor) \in Seq(Descriptors)
        BY <1>0, <1>3, DescriptorsTyped DEF CreateResumes, TypeOK, Records
      <3> QED
        BY <1>0, <3>1 DEF TypeOK, Records
    <2>5. /\ session' \in [Terminals -> Sessions]
          /\ finalization' \in [Terminals -> Finalizations]
      <3>1. session[t].exitCode \in ExitCodes
        BY <1>0 DEF TypeOK, Sessions
      <3>2. CASE session[t].exitCode = Undefined
        BY <1>0, <1>3, <3>2 DEF TypeOK, CreateResumes
      <3>3. CASE session[t].exitCode # Undefined
        <4>1. PICK error \in Thrown("pty") :
                 finalization' = [finalization EXCEPT ![t] =
                     Started(t, "native", session[t].exitCode, queue, error)]
          BY <1>3, <3>3 DEF CreateResumes
        <4>2. session' =
                 [session EXCEPT ![t] = Quiesced(t, session[t].exitCode)]
          BY <1>3, <3>3 DEF CreateResumes
        <4>3. error \in Errors
          BY ErrorsTyped
        <4> HIDE DEF queue
        <4>4. /\ Started(t, "native", session[t].exitCode, queue, error)
                   \in Finalizations
              /\ Quiesced(t, session[t].exitCode) \in Sessions
          BY <1>0, <2>2, <3>1, <4>3, StartedTyped
        <4> QED
          BY <1>0, <4>1, <4>2, <4>4 DEF TypeOK
      <3> QED
        BY <3>2, <3>3
    <2> QED
      BY <1>0, <1>3, <2>1, <2>3, <2>4, <2>5 DEF TypeOK, CreateResumes
  <1>4. ASSUME NEW t \in Terminals, RollbackCreation(t) PROVE TypeOK'
    <2>1. creation' \in [Terminals -> Creations]
      BY <1>0, <1>4 DEF TypeOK, RollbackCreation, Creations
    <2>2. session' \in [Terminals -> Sessions]
      <3>1. session' = [session EXCEPT ![t].acceptingInput = FALSE,
                                       ![t].subscribed = FALSE,
                                       ![t].pty = FALSE]
        BY <1>4 DEF RollbackCreation
      <3> QED
        BY <1>0, <3>1 DEF TypeOK, Sessions
    <2>3. output' \in [Terminals -> Outputs]
      <3>1. /\ output' = [output EXCEPT ![t].early = <<>>]
            /\ <<>> \in Seq(Chunks)
        BY <1>4 DEF RollbackCreation
      <3> QED
        BY <1>0, <3>1 DEF TypeOK, Outputs
    <2>4. record' \in [Terminals -> Records]
      <3> DEFINE row == RolledBack(t)
      <3>1. \/ record' = record
            \/ record' = [record EXCEPT ![t].row = row]
        BY <1>4, Zenon DEF RollbackCreation
      <3>2. row \in Descriptors
        BY <1>0, Constants, DescriptorsTyped DEF TypeOK, Records, RolledBack
      <3> HIDE DEF row
      <3> QED
        BY <1>0, <3>1, <3>2 DEF TypeOK, Records
    <2>5. process' \in [Terminals -> Processes]
      BY <1>0, <1>4 DEF TypeOK, RollbackCreation, Processes
    <2>6. history' \in [Terminals -> Histories]
      BY <1>0, <1>4 DEF TypeOK, RollbackCreation, Histories, Errors
    <2> QED
      BY <1>0, <1>4, <2>1, <2>2, <2>3, <2>4, <2>5, <2>6
      DEF TypeOK, RollbackCreation
  <1>5. ASSUME NEW t \in Terminals, PtyData(t) PROVE TypeOK'
    <2> DEFINE chunk == output[t].emitted + 1
    <2>1. /\ chunk \in Chunks
          /\ chunk \in 0..MaxOutput
      BY <1>0, <1>5, TerminalManagerAssumption
      DEF TypeOK, PtyData, Outputs, Chunks
    <2>2. PICK early \in Seq(Chunks), queue \in Seq(Chunks) :
             output' = [output EXCEPT ![t].emitted = chunk,
                                      ![t].early = early,
                                      ![t].queue = queue]
      <3>1. /\ output[t].early \in Seq(Chunks)
            /\ output[t].queue \in Seq(Chunks)
            /\ Append(output[t].early, chunk) \in Seq(Chunks)
            /\ Append(output[t].queue, chunk) \in Seq(Chunks)
        BY <1>0, <2>1 DEF TypeOK, Outputs
      <3> QED
        BY <1>5, <3>1 DEF PtyData
    <2> HIDE DEF chunk
    <2>3. output' \in [Terminals -> Outputs]
      BY <1>0, <2>1, <2>2 DEF TypeOK, Outputs
    <2> QED
      BY <1>0, <1>5, <2>3 DEF TypeOK, PtyData
  <1>6. ASSUME NEW t \in Terminals, PtyExit(t) PROVE TypeOK'
    <2>1. process' \in [Terminals -> Processes]
      BY <1>0, <1>6 DEF TypeOK, PtyExit, Processes
    <2>2. history' \in [Terminals -> Histories]
      BY <1>0, <1>6 DEF TypeOK, PtyExit, Histories
    <2>3. /\ session' \in [Terminals -> Sessions]
          /\ finalization' \in [Terminals -> Finalizations]
      <3>1. CASE ~session[t].subscribed
        BY <1>0, <1>6, <3>1 DEF TypeOK, PtyExit
      <3>2. CASE session[t].subscribed
        <4>1. PICK code \in NativeCodes, error \in Thrown("pty") :
                 IF creation[t] = "created"
                 THEN /\ session' = [session EXCEPT ![t] = Quiesced(t, code)]
                      /\ finalization' = [finalization EXCEPT ![t] =
                           Started(t, "native", code, output[t].queue, error)]
                 ELSE /\ session' = [session EXCEPT ![t].exitCode = code]
                      /\ UNCHANGED finalization
          BY <1>6, <3>2 DEF PtyExit
        <4>2. /\ code \in ExitCodes
              /\ error \in Errors
              /\ output[t].queue \in Seq(Chunks)
          BY <1>0, Constants, ErrorsTyped DEF TypeOK, Outputs
        <4>3. /\ Started(t, "native", code, output[t].queue, error)
                   \in Finalizations
              /\ Quiesced(t, code) \in Sessions
          BY <1>0, <4>2, StartedTyped
        <4>4. CASE creation[t] = "created"
          BY <1>0, <4>1, <4>3, <4>4 DEF TypeOK
        <4>5. CASE creation[t] # "created"
          BY <1>0, <4>1, <4>2, <4>5 DEF TypeOK, Sessions
        <4> QED
          BY <4>4, <4>5
      <3> QED
        BY <3>1, <3>2
    <2> QED
      BY <1>0, <1>6, <2>1, <2>2, <2>3 DEF TypeOK, PtyExit
  <1>7. ASSUME NEW t \in Terminals, Resize(t) PROVE TypeOK'
    <2> DEFINE size == record[t].resizes + 1
    <2>1. size \in Sizes
      BY <1>0, <1>7, TerminalManagerAssumption
      DEF TypeOK, Resize, Records, Sizes
    <2>2. record' = [record EXCEPT ![t].resizes = size,
                                   ![t].queue = Append(@, size)]
      BY <1>7 DEF Resize
    <2> HIDE DEF size
    <2>3. record' \in [Terminals -> Records]
      <3>1. Append(record[t].queue, size) \in Seq(Sizes)
        BY <1>0, <2>1 DEF TypeOK, Records
      <3> QED
        BY <1>0, <2>1, <2>2, <3>1 DEF TypeOK, Records
    <2> QED
      BY <1>0, <1>7, <2>3 DEF TypeOK, Resize
  <1>8. ASSUME NEW t \in Terminals, Close(t) PROVE TypeOK'
    <2>1. PICK error \in Thrown("pty") :
             CloseStarts({t}, [u \in Terminals |-> error])
      BY <1>8 DEF Close
    <2>2. closeAll' \in [Terminals -> Promises]
      BY <1>0, <1>8 DEF TypeOK, Close
    <2> QED
      BY <1>0, <2>1, <2>2, CloseStartsTyped
  <1>9. ASSUME CloseAll PROVE TypeOK'
    <2> DEFINE open == {t \in Terminals : InMap(t)}
    <2>1. PICK error \in [Terminals -> Thrown("pty")] : CloseStarts(open, error)
      BY <1>9 DEF CloseAll
    <2>2. closeAll' \in [Terminals -> Promises]
      BY <1>0, <1>9 DEF TypeOK, CloseAll, Promises
    <2> QED
      BY <1>0, <2>1, <2>2, CloseStartsTyped
  <1>10. ASSUME NEW t \in Terminals, EscalateToSigkill(t) PROVE TypeOK'
    <2>1. PICK error \in Thrown("pty") :
             finalization' = [finalization EXCEPT
                 ![t].stage = "sigkill",
                 ![t].lifecycleError = Coalesce(@, error)]
      BY <1>10 DEF EscalateToSigkill
    <2>2. Coalesce(finalization[t].lifecycleError, error) \in Errors
      BY <1>0, ErrorsTyped DEF TypeOK, Finalizations
    <2>3. finalization' \in [Terminals -> Finalizations]
      BY <1>0, <2>1, <2>2 DEF TypeOK, Finalizations
    <2>4. process' \in [Terminals -> Processes]
      BY <1>0, <1>10 DEF TypeOK, EscalateToSigkill, Killed, Processes
    <2> QED
      BY <1>0, <1>10, <2>3, <2>4 DEF TypeOK, EscalateToSigkill
  <1>11. ASSUME NEW t \in Terminals, GiveUpTermination(t) PROVE TypeOK'
    <2>1. finalization' \in [Terminals -> Finalizations]
      BY <1>0, <1>11 DEF TypeOK, GiveUpTermination, Finalizations
    <2>2. closeAll' \in [Terminals -> Promises]
      BY <1>0, <1>11 DEF TypeOK, GiveUpTermination, Settle, Promises
    <2> QED
      BY <1>0, <1>11, <2>1, <2>2 DEF TypeOK, GiveUpTermination
  <1>12. ASSUME NEW t \in Terminals, NoticeExit(t) PROVE TypeOK'
    <2>1. PICK error \in Thrown("pty") :
             finalization' = [finalization EXCEPT
                 ![t].stage = "draining",
                 ![t].awaited = Len(output[t].queue),
                 ![t].lifecycleError = Coalesce(@, error)]
      BY <1>12 DEF NoticeExit
    <2>2. /\ Coalesce(finalization[t].lifecycleError, error) \in Errors
          /\ Len(output[t].queue) \in Nat
      BY <1>0, ErrorsTyped DEF TypeOK, Finalizations, Outputs
    <2>3. finalization' \in [Terminals -> Finalizations]
      BY <1>0, <2>1, <2>2 DEF TypeOK, Finalizations
    <2>4. session' \in [Terminals -> Sessions]
      <3>1. session' = [session EXCEPT ![t].subscribed = FALSE]
        BY <1>12 DEF NoticeExit
      <3> QED
        BY <1>0, <3>1 DEF TypeOK, Sessions
    <2> QED
      BY <1>0, <1>12, <2>3, <2>4 DEF TypeOK, NoticeExit
  <1>13. ASSUME NEW t \in Terminals, OutputDrained(t) PROVE TypeOK'
    <2>1. finalization' \in [Terminals -> Finalizations]
      BY <1>0, <1>13 DEF TypeOK, OutputDrained, Finalizations
    <2>2. record' \in [Terminals -> Records]
      <3>1. /\ record' = [record EXCEPT ![t].queue = Append(@, ExitTransition)]
            /\ Append(record[t].queue, ExitTransition) \in Seq(Sizes)
        BY <1>0, <1>13, Constants DEF TypeOK, OutputDrained, Records
      <3> QED
        BY <1>0, <3>1 DEF TypeOK, Records
    <2> QED
      BY <1>0, <1>13, <2>1, <2>2 DEF TypeOK, OutputDrained
  <1>14. ASSUME NEW t \in Terminals, AppendSettles(t) PROVE TypeOK'
    <2>1. finalization' \in [Terminals -> Finalizations]
      <3>1. finalization' = [finalization EXCEPT ![t].awaited =
               OneFewerAwaited(@)]
        BY <1>14 DEF AppendSettles
      <3> QED
        BY <1>0, <3>1 DEF TypeOK, Finalizations, OneFewerAwaited
    <2>2. PICK error \in Thrown("append") :
             output' = [output EXCEPT
                 ![t].queue = Tail(@),
                 ![t].outputError = Coalesce(@, error),
                 ![t].published = IF error = "error" THEN @
                                  ELSE Append(@, Head(output[t].queue))]
      BY <1>14 DEF AppendSettles
    <2>3. /\ output[t].queue \in Seq(Chunks)
          /\ output[t].published \in Seq(Chunks)
          /\ output[t].queue # <<>>
          /\ Coalesce(output[t].outputError, error) \in Errors
      BY <1>0, <1>14, ErrorsTyped DEF TypeOK, AppendSettles, Outputs
    <2>4. /\ Tail(output[t].queue) \in Seq(Chunks)
          /\ Append(output[t].published, Head(output[t].queue)) \in Seq(Chunks)
      BY <2>3
    <2>5. output' \in [Terminals -> Outputs]
      BY <1>0, <2>2, <2>3, <2>4 DEF TypeOK, Outputs
    <2> QED
      BY <1>0, <1>14, <2>1, <2>5 DEF TypeOK, AppendSettles
  <1>15. ASSUME NEW t \in Terminals, UpdateStarts(t) PROVE TypeOK'
    <2>1. Transitioned(t) \in Descriptors
      <3>1. /\ record[t].queue \in Seq(Sizes)
            /\ record[t].queue # <<>>
            /\ record[t].descriptor \in Descriptors
            /\ CauseCode(t) \in ExitCodes
        BY <1>0, <1>15, Constants
        DEF TypeOK, UpdateStarts, Records, Sessions, CauseCode
      <3>2. Head(record[t].queue) \in Sizes
        BY <3>1
      <3>3. [record[t].descriptor EXCEPT !.size = Head(record[t].queue)]
               \in Descriptors
        BY <3>1, <3>2 DEF Descriptors
      <3> QED
        BY <3>1, <3>3, DescriptorsTyped DEF Transitioned
    <2>2. PICK error \in Thrown("update") :
             /\ record' = [record EXCEPT
                    ![t].next = Transitioned(t),
                    ![t].error = error,
                    ![t].row = IF error = "error" THEN @
                               ELSE Update(@, Transitioned(t))]
             /\ history' = [history EXCEPT
                    ![t].updateError = Coalesce(@, error)]
      BY <1>15 DEF UpdateStarts
    <2>3. /\ error \in Errors
          /\ Coalesce(history[t].updateError, error) \in Errors
          /\ record[t].row \in Descriptors
          /\ Update(record[t].row, Transitioned(t)) \in Descriptors
      BY <1>0, <2>1, ErrorsTyped, DescriptorsTyped DEF TypeOK, Histories, Records
    <2>4. record' \in [Terminals -> Records]
      BY <1>0, <2>1, <2>2, <2>3 DEF TypeOK, Records
    <2>5. history' \in [Terminals -> Histories]
      BY <1>0, <2>2, <2>3 DEF TypeOK, Histories
    <2> QED
      BY <1>0, <1>15, <2>4, <2>5 DEF TypeOK, UpdateStarts
  <1>16. ASSUME NEW t \in Terminals, ResizeSettles(t) PROVE TypeOK'
    <2>1. record' \in [Terminals -> Records]
      BY <1>0, <1>16, UpdateSettledTyped
      DEF TypeInv, UpdateHasTransition, ResizeSettles, UpdateSettled
    <2> QED
      BY <1>0, <1>16, <2>1 DEF TypeOK, ResizeSettles
  <1>17. ASSUME NEW t \in Terminals, FinalizationSettles(t) PROVE TypeOK'
    <2>1. record' \in [Terminals -> Records]
      BY <1>0, <1>17, UpdateSettledTyped
      DEF TypeInv, UpdateHasTransition, FinalizationSettles, UpdateSettled
    <2>2. session' \in [Terminals -> Sessions]
      BY <1>0, <1>17 DEF TypeOK, FinalizationSettles, Sessions
    <2>3. PICK outcome \in {"resolved", "rejected"} :
             /\ finalization' = [finalization EXCEPT ![t].stage = outcome]
             /\ Settle(t, outcome)
      BY <1>17 DEF FinalizationSettles
    <2>4. finalization' \in [Terminals -> Finalizations]
      BY <1>0, <2>3 DEF TypeOK, Finalizations
    <2>5. closeAll' \in [Terminals -> Promises]
      BY <1>0, <2>3 DEF TypeOK, Settle, Promises
    <2> QED
      BY <1>0, <1>17, <2>1, <2>2, <2>4, <2>5 DEF TypeOK, FinalizationSettles
  <1>18. CASE UNCHANGED vars
    BY <1>0, <1>18 DEF TypeOK, vars
  <1> QED
    BY <1>1, <1>2, <1>3, <1>4, <1>5, <1>6, <1>7, <1>8, <1>9, <1>10, <1>11,
       <1>12, <1>13, <1>14, <1>15, <1>16, <1>17, <1>18 DEF Next

\* Every step keeps a transition queued while its update is in progress.
LEMMA StepUpdateHasTransition ==
  TypeInv /\ [Next]_vars => UpdateHasTransition'
  <1> SUFFICES ASSUME TypeInv, [Next]_vars PROVE UpdateHasTransition'
    OBVIOUS
  <1>0. TypeOK /\ UpdateHasTransition
    BY DEF TypeInv
  <1>1. CASE \A t \in Terminals :
                /\ record[t].next = record'[t].next
                /\ record[t].queue = record'[t].queue
    BY <1>0, <1>1 DEF UpdateHasTransition
  <1>2. CASE \E t \in Terminals : UpdateStarts(t)
    BY <1>0, <1>2 DEF UpdateHasTransition, UpdateStarts, TypeOK, Records
  <1>3. CASE \E t \in Terminals : UpdateSettled(t)
    BY <1>0, <1>3 DEF UpdateHasTransition, UpdateSettled, TypeOK, Records
  <1>4. CASE \E t \in Terminals : Resize(t)
    <2>1. PICK t \in Terminals :
             /\ record[t].resizes < MaxResize
             /\ record' = [record EXCEPT
                    ![t].resizes = @ + 1,
                    ![t].queue = Append(@, record[t].resizes + 1)]
      BY <1>4 DEF Resize
    <2>2. Append(record[t].queue, record[t].resizes + 1) # <<>>
      <3>1. /\ record[t].queue \in Seq(Sizes)
            /\ record[t].resizes + 1 \in Sizes
        BY <1>0, <2>1, TerminalManagerAssumption DEF TypeOK, Records, Sizes
      <3> QED
        BY <3>1, AppendNotEmpty
    <2> QED
      BY <1>0, <2>1, <2>2 DEF UpdateHasTransition, TypeOK, Records
  <1>5. CASE \E t \in Terminals : OutputDrained(t)
    <2>1. PICK t \in Terminals :
             record' = [record EXCEPT ![t].queue = Append(@, ExitTransition)]
      BY <1>5 DEF OutputDrained
    <2>2. Append(record[t].queue, ExitTransition) # <<>>
      BY <1>0, Constants, AppendNotEmpty DEF TypeOK, Records
    <2> QED
      BY <1>0, <2>1, <2>2 DEF UpdateHasTransition, TypeOK, Records
  <1>6. CASE \E t \in Terminals : \/ Create(t)
                                  \/ CreateWithoutListeners(t)
                                  \/ CreateResumes(t)
                                  \/ RollbackCreation(t)
    <2>1. PICK t \in Terminals : \/ Create(t)
                                 \/ CreateWithoutListeners(t)
                                 \/ CreateResumes(t)
                                 \/ RollbackCreation(t)
      BY <1>6
    <2>2. CASE Create(t)
      <3>1. PICK row : record' = [record EXCEPT
                           ![t].descriptor = FirstDescriptor, ![t].row = row]
        BY <2>2 DEF Create
      <3> QED
        BY <1>0, <1>1, <3>1 DEF TypeOK, Records
    <2>3. CASE CreateWithoutListeners(t)
      <3>1. record' = [record EXCEPT ![t].descriptor = FirstDescriptor]
        BY <2>3 DEF CreateWithoutListeners
      <3> QED
        BY <1>0, <1>1, <3>1 DEF TypeOK, Records
    <2>4. CASE CreateResumes(t)
      <3>1. record' = [record EXCEPT
                           ![t].announced = Append(@, FirstDescriptor)]
        BY <2>4 DEF CreateResumes
      <3> QED
        BY <1>0, <1>1, <3>1 DEF TypeOK, Records
    <2>5. CASE RollbackCreation(t)
      <3> DEFINE row == RolledBack(t)
      <3>1. \/ record' = [record EXCEPT ![t].row = row]
            \/ record' = record
        BY <2>5, Zenon DEF RollbackCreation
      <3> HIDE DEF row
      <3>2. CASE record' = [record EXCEPT ![t].row = row]
        BY <1>0, <1>1, <3>2 DEF TypeOK, Records
      <3> QED
        BY <1>1, <3>1, <3>2
    <2> QED
      BY <2>1, <2>2, <2>3, <2>4, <2>5
  <1>7. CASE UNCHANGED record
    BY <1>1, <1>7
  <1> QED
    BY <1>2, <1>3, <1>4, <1>5, <1>6, <1>7
    DEF Next, vars, PtyData, PtyExit, Close, CloseAll, CloseStarts,
        EscalateToSigkill, GiveUpTermination, NoticeExit, AppendSettles,
        ResizeSettles, FinalizationSettles

\* Nothing exists at first.
LEMMA InitTypeInv == Init => TypeInv
  <1>1. Init => TypeOK
    BY Constants, DescriptorsTyped
    DEF Init, NoSession, NoOutput, NoRecord, NoFinalization, NoHistory,
        TypeOK, Creations, Sessions, Outputs, Records, Finalizations,
        Processes, Promises, Histories, Errors
  <1>2. Init => UpdateHasTransition
    BY DEF Init, NoRecord, UpdateHasTransition
  <1> QED
    BY <1>1, <1>2 DEF TypeInv

\* Every reachable state has its shape: no queue, descriptor, promise or
\* process ever leaves the values TypeOK lists, in any number of terminals and
\* whichever operations of the environment fail.
THEOREM TypeCorrect == Spec => []TypeOK
  <1>1. Init => TypeInv
    BY InitTypeInv
  <1>2. TypeInv /\ [Next]_vars => TypeInv'
    BY StepTypeOK, StepUpdateHasTransition DEF TypeInv
  <1>3. TypeInv => TypeOK
    BY DEF TypeInv
  <1> QED
    BY <1>1, <1>2, <1>3, PTL DEF Spec

-----------------------------------------------------------------------------
(* No false exit.                                                           *)

\* What a session knows of its process: the PTY handle is watched until the
\* exit is known, and a known exit happened.
ExitKnown(t) ==
    /\ creation[t] = "absent" => process[t] = "none" /\ ~session[t].pty
    /\ ExitResolved(t) => process[t] = "exited"
    /\ session[t].pty => session[t].subscribed \/ ExitResolved(t)
    /\ session[t].pty /\ process[t] = "exited" => ExitResolved(t)

\* A finalization passes its waits, or has a native cause, after the exit.
FinalizedAfterExit(t) ==
    \/ finalization[t].cause = "native"
    \/ finalization[t].stage \in {"draining", "updating", "resolved",
                                  "rejected"}
    => ExitResolved(t)

\* Nothing on the way to the row or to a subscriber says exited before.
RecordedAfterExit(t) ==
    \/ \E i \in DOMAIN record[t].queue : record[t].queue[i] = ExitTransition
    \/ \E i \in DOMAIN record[t].announced :
          record[t].announced[i].state = "exited"
    \/ record[t].next.state = "exited"
    \/ record[t].descriptor.state = "exited"
    \/ record[t].row.state = "exited" /\ creation[t] # "rolledBack"
    => ExitResolved(t)

ExitInv ==
    /\ TypeInv
    /\ \A t \in Terminals : /\ ExitKnown(t)
                            /\ FinalizedAfterExit(t)
                            /\ RecordedAfterExit(t)

-----------------------------------------------------------------------------
\* What a PTY reports is an exit code, never the mark of its absence.
LEMMA CodesResolve == \A code \in NativeCodes : code # Undefined
  BY TerminalManagerAssumption DEF Undefined

\* The session after startFinalization: the handle and the exit stay, and the
\* listeners go only when the exit is known.
LEMMA QuiescedKeeps ==
  ASSUME TypeOK, NEW t \in Terminals, NEW exit \in ExitCodes
  PROVE  /\ Quiesced(t, exit).exitCode = exit
         /\ Quiesced(t, exit).pty = session[t].pty
         /\ \/ Quiesced(t, exit).subscribed = session[t].subscribed
            \/ exit # Undefined
  BY DEF TypeOK, Sessions, Quiesced

\* The process after startFinalization: asked to hang up, or as it was.
LEMMA HungUpKeeps ==
  ASSUME NEW t \in Terminals, NEW error
  PROVE  \/ HungUp(t, error) = process[t]
         \/ process[t] = "alive" /\ HungUp(t, error) = "hungUp"
  BY DEF HungUp

\* close and closeAll leave every exit as it is known.
LEMMA CloseStartsExit ==
  ASSUME ExitInv, NEW S \in SUBSET Terminals, NEW error, CloseStarts(S, error),
         NEW u \in Terminals, creation[u] # "absent" \/ u \notin S
  PROVE  ExitKnown(u)' /\ (ExitResolved(u) => ExitResolved(u)')
  <1>0. TypeOK /\ ExitKnown(u)
    BY DEF ExitInv, TypeInv
  <1>1. CASE u \notin S
    BY <1>0, <1>1 DEF CloseStarts, ExitKnown, ExitResolved
  <1>2. CASE u \in S
    <2>1. session'[u] = Quiesced(u, session[u].exitCode)
      BY <1>2 DEF CloseStarts
    <2>2. process'[u] = HungUp(u, error[u])
      BY <1>2 DEF CloseStarts
    <2>3. /\ session[u].exitCode \in ExitCodes
          /\ creation'[u] = creation[u]
      BY <1>0 DEF TypeOK, Sessions, CloseStarts
    <2>4. /\ session'[u].exitCode = session[u].exitCode
          /\ session'[u].pty = session[u].pty
          /\ \/ session'[u].subscribed = session[u].subscribed
             \/ session[u].exitCode # Undefined
      BY <1>0, <2>1, <2>3, QuiescedKeeps
    <2>5. \/ process'[u] = process[u]
          \/ process[u] = "alive" /\ process'[u] = "hungUp"
      BY <2>2, HungUpKeeps
    <2> QED
      BY <1>0, <1>2, <2>3, <2>4, <2>5 DEF ExitKnown, ExitResolved
  <1> QED
    BY <1>1, <1>2

\* Every step keeps what is known of an exit, and no step forgets one.
LEMMA StepExitKnown ==
  ASSUME ExitInv, Next, NEW u \in Terminals
  PROVE  ExitKnown(u)' /\ (ExitResolved(u) => ExitResolved(u)')
  <1>0. TypeOK /\ ExitKnown(u)
    BY DEF ExitInv, TypeInv
  <1>1. CASE UNCHANGED <<creation, session, process>>
    BY <1>0, <1>1 DEF ExitKnown, ExitResolved
  <1>2. ASSUME NEW t \in Terminals, Create(t)
        PROVE  ExitKnown(u)' /\ (ExitResolved(u) => ExitResolved(u)')
    <2>1. /\ creation[t] = "absent"
          /\ process' = [process EXCEPT ![t] = "alive"]
          /\ session' = [session EXCEPT ![t] =
                [acceptingInput |-> TRUE, pty |-> TRUE, subscribed |-> TRUE,
                 exitCode |-> Undefined]]
          /\ \E c \in {"saving", "saveFailing"} :
                creation' = [creation EXCEPT ![t] = c]
      BY <1>2 DEF Create
    <2> QED
      BY <1>0, <2>1 DEF TypeOK, ExitKnown, ExitResolved
  <1>3. ASSUME NEW t \in Terminals, CreateWithoutListeners(t)
        PROVE  ExitKnown(u)' /\ (ExitResolved(u) => ExitResolved(u)')
    <2>1. /\ creation[t] = "absent"
          /\ creation' = [creation EXCEPT ![t] = "rolledBack"]
          /\ session' = session
          /\ \E p \in {"hungUp", "alive"} :
                process' = [process EXCEPT ![t] = p]
      BY <1>3 DEF CreateWithoutListeners
    <2> QED
      BY <1>0, <2>1 DEF TypeOK, ExitKnown, ExitResolved
  <1>4. ASSUME NEW t \in Terminals, CreateResumes(t)
        PROVE  ExitKnown(u)' /\ (ExitResolved(u) => ExitResolved(u)')
    <2>1. /\ creation' = [creation EXCEPT ![t] = "created"]
          /\ process' = process
          /\ creation[t] = "saving"
          /\ \/ session' = session
             \/ /\ session[t].exitCode # Undefined
                /\ session' = [session EXCEPT ![t] =
                                  Quiesced(t, session[t].exitCode)]
      BY <1>4 DEF CreateResumes
    <2>2. /\ session[t].exitCode \in ExitCodes
          /\ Quiesced(t, session[t].exitCode).exitCode = session[t].exitCode
          /\ Quiesced(t, session[t].exitCode).pty = session[t].pty
      BY <1>0, QuiescedKeeps DEF TypeOK, Sessions
    <2> QED
      BY <1>0, <2>1, <2>2 DEF TypeOK, ExitKnown, ExitResolved
  <1>5. ASSUME NEW t \in Terminals, RollbackCreation(t)
        PROVE  ExitKnown(u)' /\ (ExitResolved(u) => ExitResolved(u)')
    <2>1. /\ creation' = [creation EXCEPT ![t] = "rolledBack"]
          /\ session' = [session EXCEPT ![t].acceptingInput = FALSE,
                                        ![t].subscribed = FALSE,
                                        ![t].pty = FALSE]
          /\ \/ process' = process
             \/ /\ process[t] = "alive"
                /\ process' = [process EXCEPT ![t] = "hungUp"]
      <3>1. PICK error \in Thrown("pty") :
               process' = [process EXCEPT ![t] =
                   IF @ = "alive" /\ session[t].pty /\ error = "undefined"
                   THEN "hungUp" ELSE @]
        BY <1>5 DEF RollbackCreation
      <3> QED
        BY <1>0, <1>5, <3>1 DEF RollbackCreation, TypeOK
    <2> QED
      BY <1>0, <2>1 DEF TypeOK, Sessions, ExitKnown, ExitResolved
  <1>6. ASSUME NEW t \in Terminals, PtyExit(t)
        PROVE  ExitKnown(u)' /\ (ExitResolved(u) => ExitResolved(u)')
    <2>1. /\ process[t] \in {"alive", "hungUp", "killed"}
          /\ process' = [process EXCEPT ![t] = "exited"]
          /\ creation' = creation
      BY <1>6 DEF PtyExit
    <2>2. CASE ~session[t].subscribed
      BY <1>0, <1>6, <2>1, <2>2 DEF PtyExit, TypeOK, ExitKnown, ExitResolved
    <2>3. CASE session[t].subscribed
      <3>1. PICK code \in NativeCodes :
               \/ session' = [session EXCEPT ![t] = Quiesced(t, code)]
               \/ session' = [session EXCEPT ![t].exitCode = code]
        BY <1>6, <2>3 DEF PtyExit
      <3>2. code # Undefined /\ code \in ExitCodes
        BY CodesResolve, Constants
      <3>3. session'[t].exitCode = code
        BY <1>0, <3>1, <3>2, QuiescedKeeps DEF TypeOK, Sessions
      <3>4. u # t => session'[u] = session[u] /\ process'[u] = process[u]
        BY <1>0, <2>1, <3>1 DEF TypeOK
      <3>5. creation[t] # "absent"
        BY <2>1 DEF ExitInv, ExitKnown
      <3> QED
        BY <1>0, <2>1, <3>2, <3>3, <3>4, <3>5
        DEF TypeOK, ExitKnown, ExitResolved
    <2> QED
      BY <2>2, <2>3
  <1>7. ASSUME NEW t \in Terminals, Close(t)
        PROVE  ExitKnown(u)' /\ (ExitResolved(u) => ExitResolved(u)')
    <2>1. PICK error : CloseStarts({t}, [v \in Terminals |-> error])
      BY <1>7 DEF Close
    <2>2. creation[t] # "absent"
      BY <1>7 DEF Close, InMap
    <2> QED
      BY <2>1, <2>2, CloseStartsExit
  <1>8. ASSUME CloseAll
        PROVE  ExitKnown(u)' /\ (ExitResolved(u) => ExitResolved(u)')
    <2> DEFINE open == {t \in Terminals : InMap(t)}
    <2>1. PICK error : CloseStarts(open, error)
      BY <1>8 DEF CloseAll
    <2>2. creation[u] # "absent" \/ u \notin open
      BY DEF InMap
    <2> QED
      BY <2>1, <2>2, CloseStartsExit
  <1>9. ASSUME NEW t \in Terminals, EscalateToSigkill(t)
        PROVE  ExitKnown(u)' /\ (ExitResolved(u) => ExitResolved(u)')
    <2>1. /\ ~ExitResolved(t)
          /\ creation' = creation
          /\ session' = session
          /\ \/ process' = process
             \/ session[t].pty /\ process' = [process EXCEPT ![t] = "killed"]
      <3>1. PICK error : process' = [process EXCEPT ![t] = Killed(t, error)]
        BY <1>9 DEF EscalateToSigkill
      <3> QED
        BY <1>0, <1>9, <3>1 DEF EscalateToSigkill, Killed, TypeOK
    <2>2. session[t].pty => creation[t] # "absent"
      BY DEF ExitInv, ExitKnown
    <2> QED
      BY <1>0, <2>1, <2>2 DEF TypeOK, ExitKnown, ExitResolved
  <1>10. ASSUME NEW t \in Terminals, NoticeExit(t)
         PROVE  ExitKnown(u)' /\ (ExitResolved(u) => ExitResolved(u)')
    <2>1. /\ ExitResolved(t)
          /\ creation' = creation
          /\ process' = process
          /\ session' = [session EXCEPT ![t].subscribed = FALSE]
      BY <1>10 DEF NoticeExit
    <2> QED
      BY <1>0, <2>1 DEF TypeOK, Sessions, ExitKnown, ExitResolved
  <1>11. ASSUME NEW t \in Terminals, FinalizationSettles(t)
         PROVE  ExitKnown(u)' /\ (ExitResolved(u) => ExitResolved(u)')
    <2>1. /\ creation' = creation
          /\ process' = process
          /\ session' = [session EXCEPT ![t].pty = FALSE]
      BY <1>11 DEF FinalizationSettles
    <2> QED
      BY <1>0, <2>1 DEF TypeOK, Sessions, ExitKnown, ExitResolved
  <1> QED
    BY <1>1, <1>2, <1>3, <1>4, <1>5, <1>6, <1>7, <1>8, <1>9, <1>10, <1>11
    DEF Next, PtyData, Resize, GiveUpTermination, OutputDrained,
        AppendSettles, UpdateStarts, ResizeSettles

-----------------------------------------------------------------------------
\* The finalization a request or an exit leaves behind waits for the exit.
LEMMA StartedAfterExit ==
  ASSUME TypeOK, NEW t \in Terminals, FinalizedAfterExit(t),
         NEW kind \in {"close", "native"}, NEW exit \in ExitCodes,
         NEW queue, NEW error,
         kind = "native" \/ ExitResolved(t) => exit # Undefined
  PROVE  \/ Started(t, kind, exit, queue, error).cause = "native"
         \/ Started(t, kind, exit, queue, error).stage
               \in {"draining", "updating", "resolved", "rejected"}
         => exit # Undefined
  BY DEF TypeOK, Finalizations, Started, FirstCause, FinalizedAfterExit

\* close and closeAll kill and wait unless the exit is known.
LEMMA CloseStartsFinalized ==
  ASSUME ExitInv, NEW S \in SUBSET Terminals, NEW error, CloseStarts(S, error),
         NEW u \in Terminals
  PROVE  FinalizedAfterExit(u)'
  <1>0. TypeOK /\ FinalizedAfterExit(u)
    BY DEF ExitInv, TypeInv
  <1>1. CASE u \notin S
    BY <1>0, <1>1 DEF CloseStarts, FinalizedAfterExit, ExitResolved
  <1>2. CASE u \in S
    <2>1. /\ finalization'[u] = Started(u, "close", session[u].exitCode,
                                        output[u].queue, error[u])
          /\ session'[u] = Quiesced(u, session[u].exitCode)
      BY <1>2 DEF CloseStarts
    <2>2. session[u].exitCode \in ExitCodes
      BY <1>0 DEF TypeOK, Sessions
    <2>3. session'[u].exitCode = session[u].exitCode
      BY <1>0, <2>1, <2>2, QuiescedKeeps
    <2>4. \/ finalization'[u].cause = "native"
          \/ finalization'[u].stage
                \in {"draining", "updating", "resolved", "rejected"}
          => session[u].exitCode # Undefined
      BY <1>0, <2>1, <2>2, StartedAfterExit DEF ExitResolved
    <2> QED
      BY <2>3, <2>4 DEF FinalizedAfterExit, ExitResolved
  <1> QED
    BY <1>1, <1>2

\* No step lets a finalization pass its waits before the exit.
LEMMA StepFinalizedAfterExit ==
  ASSUME ExitInv, Next, NEW u \in Terminals
  PROVE  FinalizedAfterExit(u)'
  <1>0. /\ TypeOK
        /\ FinalizedAfterExit(u)
        /\ ExitResolved(u) => ExitResolved(u)'
    BY StepExitKnown DEF ExitInv, TypeInv
  <1>1. CASE /\ finalization'[u].cause = finalization[u].cause
             /\ \/ finalization'[u].stage = finalization[u].stage
                \/ finalization'[u].stage \in {"none", "sighup", "sigkill"}
    BY <1>0, <1>1 DEF FinalizedAfterExit
  <1>2. CASE finalization' = finalization
    BY <1>1, <1>2
  <1>3. ASSUME NEW t \in Terminals, CreateResumes(t)
        PROVE  FinalizedAfterExit(u)'
    <2>1. CASE session[t].exitCode = Undefined
      BY <1>2, <1>3, <2>1 DEF CreateResumes
    <2>2. CASE session[t].exitCode # Undefined
      <3>1. PICK error : finalization' = [finalization EXCEPT ![t] =
               Started(t, "native", session[t].exitCode, Flushed(t), error)]
        BY <1>3, <2>2 DEF CreateResumes
      <3>2. ExitResolved(t)
        BY <2>2 DEF ExitResolved
      <3>3. CASE u = t
        BY <1>0, <3>2, <3>3 DEF FinalizedAfterExit
      <3>4. CASE u # t
        BY <1>0, <1>1, <3>1, <3>4 DEF TypeOK
      <3> QED
        BY <3>3, <3>4
    <2> QED
      BY <2>1, <2>2
  <1>4. ASSUME NEW t \in Terminals, PtyExit(t)
        PROVE  FinalizedAfterExit(u)'
    <2>1. CASE ~session[t].subscribed
      BY <1>2, <1>4, <2>1 DEF PtyExit
    <2>2. CASE session[t].subscribed
      <3>1. PICK code \in NativeCodes :
               \/ session' = [session EXCEPT ![t] = Quiesced(t, code)]
               \/ session' = [session EXCEPT ![t].exitCode = code]
        BY <1>4, <2>2 DEF PtyExit
      <3>2. code # Undefined /\ code \in ExitCodes
        BY CodesResolve, Constants
      <3>3. ExitResolved(t)'
        BY <1>0, <3>1, <3>2, QuiescedKeeps DEF TypeOK, Sessions, ExitResolved
      <3>4. CASE u = t
        BY <3>3, <3>4 DEF FinalizedAfterExit
      <3>5. CASE u # t
        <4>1. \/ finalization' = finalization
              \/ \E f : finalization' = [finalization EXCEPT ![t] = f]
          BY <1>4, <2>2 DEF PtyExit
        <4> QED
          BY <1>0, <1>1, <3>5, <4>1 DEF TypeOK
      <3> QED
        BY <3>4, <3>5
    <2> QED
      BY <2>1, <2>2
  <1>5. ASSUME NEW t \in Terminals, Close(t)
        PROVE  FinalizedAfterExit(u)'
    <2>1. PICK error : CloseStarts({t}, [v \in Terminals |-> error])
      BY <1>5 DEF Close
    <2> QED
      BY <2>1, CloseStartsFinalized
  <1>6. ASSUME CloseAll
        PROVE  FinalizedAfterExit(u)'
    <2> DEFINE open == {t \in Terminals : InMap(t)}
    <2>1. PICK error : CloseStarts(open, error)
      BY <1>6 DEF CloseAll
    <2> QED
      BY <2>1, CloseStartsFinalized
  <1>7. ASSUME NEW t \in Terminals, EscalateToSigkill(t)
        PROVE  FinalizedAfterExit(u)'
    <2>1. PICK error : finalization' = [finalization EXCEPT
             ![t].stage = "sigkill", ![t].lifecycleError = error]
      BY <1>7 DEF EscalateToSigkill
    <2> QED
      BY <1>0, <1>1, <2>1 DEF TypeOK, Finalizations
  <1>8. ASSUME NEW t \in Terminals, GiveUpTermination(t)
        PROVE  FinalizedAfterExit(u)'
    BY <1>0, <1>1, <1>8 DEF GiveUpTermination, TypeOK, Finalizations
  <1>9. ASSUME NEW t \in Terminals, NoticeExit(t)
        PROVE  FinalizedAfterExit(u)'
    <2>1. PICK awaited, error : finalization' = [finalization EXCEPT
             ![t].stage = "draining",
             ![t].awaited = awaited,
             ![t].lifecycleError = error]
      BY <1>9 DEF NoticeExit
    <2>2. ExitResolved(t)
      BY <1>9 DEF NoticeExit
    <2> QED
      BY <1>0, <1>1, <2>1, <2>2 DEF TypeOK, Finalizations, FinalizedAfterExit
  <1>10. ASSUME NEW t \in Terminals, OutputDrained(t)
         PROVE  FinalizedAfterExit(u)'
    <2>1. /\ finalization[t].stage = "draining"
          /\ finalization' = [finalization EXCEPT ![t].stage = "updating"]
      BY <1>10 DEF OutputDrained
    <2> QED
      BY <1>0, <1>1, <2>1 DEF TypeOK, Finalizations, FinalizedAfterExit
  <1>11. ASSUME NEW t \in Terminals, AppendSettles(t)
         PROVE  FinalizedAfterExit(u)'
    <2>1. PICK awaited :
             finalization' = [finalization EXCEPT ![t].awaited = awaited]
      BY <1>11 DEF AppendSettles
    <2> QED
      BY <1>0, <1>1, <2>1 DEF TypeOK, Finalizations
  <1>12. ASSUME NEW t \in Terminals, FinalizationSettles(t)
         PROVE  FinalizedAfterExit(u)'
    <2>1. PICK outcome :
             finalization' = [finalization EXCEPT ![t].stage = outcome]
      BY <1>12 DEF FinalizationSettles
    <2>2. ExitResolved(t)
      <3>1. /\ record[t].queue \in Seq(Sizes)
            /\ record[t].queue # <<>>
            /\ record[t].queue[1] = ExitTransition
        BY <1>0, <1>12
        DEF FinalizationSettles, UpdateSettled, ExitInv, TypeInv,
            UpdateHasTransition, TypeOK, Records
      <3>2. 1 \in DOMAIN record[t].queue
        BY <3>1
      <3> QED
        BY <3>1, <3>2 DEF ExitInv, RecordedAfterExit
    <2> QED
      BY <1>0, <1>1, <2>1, <2>2 DEF TypeOK, Finalizations, FinalizedAfterExit
  <1> QED
    BY <1>2, <1>3, <1>4, <1>5, <1>6, <1>7, <1>8, <1>9, <1>10, <1>11, <1>12
    DEF Next, Create, CreateWithoutListeners, RollbackCreation, PtyData,
        Resize, UpdateStarts, ResizeSettles

-----------------------------------------------------------------------------
\* A queue that gains an entry says exited only through it.
LEMMA AppendedClaims ==
  ASSUME NEW S, NEW q \in Seq(S), NEW x \in S, NEW P,
         P \in SUBSET S,
         \E i \in DOMAIN Append(q, x) : Append(q, x)[i] \in P
  PROVE  x \in P \/ \E i \in DOMAIN q : q[i] \in P
  <1>1. PICK i \in 1..(Len(q) + 1) : Append(q, x)[i] \in P
    OBVIOUS
  <1>2. CASE i = Len(q) + 1
    BY <1>1, <1>2
  <1>3. CASE i \in 1..Len(q)
    BY <1>1, <1>3
  <1> QED
    BY <1>1, <1>2, <1>3

\* A queue that loses its head claims nothing new.
LEMMA TailClaims ==
  ASSUME NEW S, NEW q \in Seq(S), q # <<>>, NEW P,
         \E i \in DOMAIN Tail(q) : Tail(q)[i] \in P
  PROVE  \E i \in DOMAIN q : q[i] \in P
  <1>1. PICK i \in 1..(Len(q) - 1) : Tail(q)[i] \in P
    OBVIOUS
  <1>2. Tail(q)[i] = q[i + 1] /\ i + 1 \in DOMAIN q
    BY <1>1
  <1> QED
    BY <1>1, <1>2

\* A queue of transitions, or of announcements, that claims an exit.
Exiting(queue) == \E i \in DOMAIN queue : queue[i] = ExitTransition
SaysExited(announced) ==
    \E i \in DOMAIN announced : announced[i].state = "exited"

\* A descriptor queue holds an exit only where one was queued.
LEMMA ExitingQueues ==
  ASSUME NEW q \in Seq(Sizes)
  PROVE  /\ \A size \in Sizes :
               Exiting(Append(q, size)) => size = ExitTransition \/ Exiting(q)
         /\ q # <<>> => (Exiting(Tail(q)) => Exiting(q))
         /\ q # <<>> => (Head(q) = ExitTransition => Exiting(q))
  <1>1. {ExitTransition} \in SUBSET Sizes
    BY Constants
  <1>2. ASSUME NEW size \in Sizes, Exiting(Append(q, size))
        PROVE  size = ExitTransition \/ Exiting(q)
    BY <1>1, <1>2, AppendedClaims DEF Exiting
  <1>3. ASSUME q # <<>>, Exiting(Tail(q)) PROVE Exiting(q)
    BY <1>3, TailClaims DEF Exiting
  <1>4. ASSUME q # <<>>, Head(q) = ExitTransition PROVE Exiting(q)
    <2>1. 1 \in DOMAIN q /\ q[1] = ExitTransition
      BY <1>4
    <2> QED
      BY <2>1 DEF Exiting
  <1> QED
    BY <1>2, <1>3, <1>4

\* A list of announcements says exited only where one did.
LEMMA SaysExitedAppended ==
  ASSUME NEW q \in Seq(Descriptors), NEW d \in Descriptors,
         SaysExited(Append(q, d))
  PROVE  d.state = "exited" \/ SaysExited(q)
  <1> DEFINE P == {e \in Descriptors : e.state = "exited"}
  <1>1. \A i \in DOMAIN Append(q, d) : Append(q, d)[i] \in Descriptors
    <2>1. Append(q, d) \in Seq(Descriptors)
      OBVIOUS
    <2> QED
      BY <2>1
  <1>2. \E i \in DOMAIN Append(q, d) : Append(q, d)[i] \in P
    BY <1>1 DEF SaysExited
  <1>3. d \in P \/ \E i \in DOMAIN q : q[i] \in P
    BY <1>2, AppendedClaims
  <1> QED
    BY <1>3 DEF SaysExited

\* Every step that puts an exit on its way to the row or to a subscriber, or
\* moves it along, comes after the exit.
LEMMA StepRecordedAfterExit ==
  ASSUME ExitInv, Next, NEW u \in Terminals
  PROVE  RecordedAfterExit(u)'
  <1> DEFINE r == record[u]
             s == record'[u]
             after == ExitResolved(u)
             Claims == /\ Exiting(s.queue) => after
                       /\ SaysExited(s.announced) => after
                       /\ s.next.state = "exited" => after
                       /\ s.descriptor.state = "exited" => after
                       /\ s.row.state = "exited" /\ creation'[u] # "rolledBack"
                          => after
  <1>0. /\ TypeOK
        /\ r \in Records
        /\ ExitResolved(u) => ExitResolved(u)'
    BY StepExitKnown DEF ExitInv, TypeInv, TypeOK
  <1>b. /\ Exiting(r.queue) => after
        /\ SaysExited(r.announced) => after
        /\ r.next.state = "exited" => after
        /\ r.descriptor.state = "exited" => after
        /\ r.row.state = "exited" /\ creation[u] # "rolledBack" => after
    BY DEF ExitInv, RecordedAfterExit, Exiting, SaysExited
  <1>c. SUFFICES Claims
    BY <1>0, <1>c DEF RecordedAfterExit, Exiting, SaysExited
  <1> HIDE DEF r, s, after, Claims
  <1>1. CASE s = r /\ (creation[u] = "rolledBack" => creation'[u] = "rolledBack")
    BY <1>b, <1>1 DEF Claims
  <1>2. CASE record' = record /\ creation' = creation
    BY <1>1, <1>2 DEF r, s
  <1>3. ASSUME NEW t \in Terminals, t # u, creation' = creation,
               \E f : record' = [record EXCEPT ![t] = f]
        PROVE  s = r /\ creation'[u] = creation[u]
    BY <1>0, <1>3 DEF TypeOK, r, s
  <1>4. ASSUME NEW t \in Terminals, Create(t) \/ CreateWithoutListeners(t)
        PROVE  Claims
    <2>1. PICK row, c :
             /\ record' = [record EXCEPT ![t].descriptor = FirstDescriptor,
                                         ![t].row = row]
             /\ creation' = [creation EXCEPT ![t] = c]
             /\ row.state = "exited" => c = "rolledBack"
             /\ creation[t] = "absent"
      <3>1. CASE Create(t)
        <4>1. FirstDescriptor.state # "exited" /\ NoDescriptor.state # "exited"
          BY DEF FirstDescriptor, NoDescriptor
        <4>2. creation[t] = "absent"
          BY <3>1 DEF Create
        <4>3. \E c : creation' = [creation EXCEPT ![t] = c]
          BY <3>1 DEF Create
        <4>4. \E row \in {FirstDescriptor, NoDescriptor} :
                 record' = [record EXCEPT ![t].descriptor = FirstDescriptor,
                                          ![t].row = row]
          BY <3>1 DEF Create
        <4> QED
          BY <4>1, <4>2, <4>3, <4>4, DescriptorsTyped
      <3>2. CASE CreateWithoutListeners(t)
        <4>1. /\ record' = [record EXCEPT ![t].descriptor = FirstDescriptor]
              /\ creation' = [creation EXCEPT ![t] = "rolledBack"]
              /\ creation[t] = "absent"
          BY <3>2 DEF CreateWithoutListeners
        <4>2. /\ record[t].row \in Descriptors
              /\ record' = [record EXCEPT ![t].descriptor = FirstDescriptor,
                                          ![t].row = record[t].row]
          BY <1>0, <4>1 DEF TypeOK, Records
        <4> QED
          BY <4>1, <4>2
      <3> QED
        BY <1>4, <3>1, <3>2
    <2>2. CASE t # u
      BY <1>0, <1>1, <1>b, <2>1, <2>2 DEF TypeOK, r, s
    <2>3. CASE t = u
      <3>1. /\ s.queue = r.queue
            /\ s.announced = r.announced
            /\ s.next = r.next
            /\ s.descriptor = FirstDescriptor
            /\ s.row = row
            /\ creation'[u] = c
        BY <1>0, <2>1, <2>3 DEF TypeOK, Records, r, s
      <3>2. FirstDescriptor.state # "exited"
        BY DEF FirstDescriptor
      <3> QED
        BY <1>b, <2>1, <3>1, <3>2 DEF Claims
    <2> QED
      BY <2>2, <2>3
  <1>5. ASSUME NEW t \in Terminals, CreateResumes(t)
        PROVE  Claims
    <2>1. /\ record' = [record EXCEPT ![t].announced =
                           Append(record[t].announced, FirstDescriptor)]
          /\ creation' = [creation EXCEPT ![t] = "created"]
          /\ creation[t] = "saving"
      BY <1>5 DEF CreateResumes
    <2>2. CASE t # u
      BY <1>0, <1>1, <2>1, <2>2 DEF TypeOK, r, s
    <2>3. CASE t = u
      <3>1. /\ s.announced = Append(r.announced, FirstDescriptor)
            /\ r.announced \in Seq(Descriptors)
            /\ s.queue = r.queue
            /\ s.next = r.next
            /\ s.descriptor = r.descriptor
            /\ s.row = r.row
            /\ creation[u] # "rolledBack"
        BY <1>0, <2>1, <2>3 DEF TypeOK, Records, r, s
      <3>2. FirstDescriptor \in Descriptors /\ FirstDescriptor.state # "exited"
        BY DescriptorsTyped DEF FirstDescriptor
      <3>3. SaysExited(s.announced) => SaysExited(r.announced)
        BY <3>1, <3>2, SaysExitedAppended
      <3> QED
        BY <1>b, <3>1, <3>3 DEF Claims
    <2> QED
      BY <2>2, <2>3
  <1>6. ASSUME NEW t \in Terminals, RollbackCreation(t)
        PROVE  Claims
    <2>1. /\ creation' = [creation EXCEPT ![t] = "rolledBack"]
          /\ \/ record' = record
             \/ record' = [record EXCEPT ![t].row = RolledBack(t)]
      BY <1>6, Zenon DEF RollbackCreation
    <2>2. CASE t # u
      BY <1>0, <1>1, <2>1, <2>2 DEF TypeOK, r, s
    <2>3. CASE t = u
      <3>1. /\ s.announced = r.announced
            /\ s.queue = r.queue
            /\ s.next = r.next
            /\ s.descriptor = r.descriptor
            /\ creation'[u] = "rolledBack"
        BY <1>0, <2>1, <2>3 DEF TypeOK, Records, r, s
      <3> QED
        BY <1>b, <3>1 DEF Claims
    <2> QED
      BY <2>2, <2>3
  <1>7. ASSUME NEW t \in Terminals, NEW size \in Sizes, NEW n,
               record' = [record EXCEPT ![t].resizes = n,
                                        ![t].queue = Append(@, size)],
               creation' = creation,
               size = ExitTransition => ExitResolved(t)
        PROVE  Claims
    <2>1. CASE t # u
      BY <1>0, <1>1, <1>7, <2>1 DEF TypeOK, r, s
    <2>2. CASE t = u
      <3>1. /\ s.queue = Append(r.queue, size)
            /\ r.queue \in Seq(Sizes)
            /\ s.announced = r.announced
            /\ s.next = r.next
            /\ s.descriptor = r.descriptor
            /\ s.row = r.row
            /\ creation'[u] = creation[u]
        BY <1>0, <1>7, <2>2 DEF TypeOK, Records, r, s
      <3>2. Exiting(s.queue) => size = ExitTransition \/ Exiting(r.queue)
        BY <3>1, ExitingQueues
      <3>3. size = ExitTransition => after
        BY <1>7, <2>2 DEF after
      <3> QED
        BY <1>b, <3>1, <3>2, <3>3 DEF Claims
    <2> QED
      BY <2>1, <2>2
  <1>8. ASSUME NEW t \in Terminals, Resize(t)
        PROVE  Claims
    <2>1. /\ record[t].resizes + 1 \in Sizes
          /\ record[t].resizes + 1 # ExitTransition
      BY <1>0, <1>8, TerminalManagerAssumption
      DEF Resize, TypeOK, Records, Sizes, ExitTransition
    <2>2. record' = [record EXCEPT
             ![t].resizes = record[t].resizes + 1,
             ![t].queue = Append(@, record[t].resizes + 1)]
      BY <1>8 DEF Resize
    <2>3. creation' = creation
      BY <1>8 DEF Resize
    <2> QED
      BY <1>7, <2>1, <2>2, <2>3
  <1>9. ASSUME NEW t \in Terminals, OutputDrained(t)
        PROVE  Claims
    <2>1. /\ finalization[t].stage = "draining"
          /\ record' = [record EXCEPT ![t].queue = Append(@, ExitTransition)]
          /\ creation' = creation
      BY <1>9 DEF OutputDrained
    <2>2. ExitResolved(t)
      BY <2>1 DEF ExitInv, FinalizedAfterExit
    <2>3. record' = [record EXCEPT
             ![t].resizes = record[t].resizes,
             ![t].queue = Append(@, ExitTransition)]
      BY <1>0, <2>1 DEF TypeOK, Records
    <2> QED
      BY <1>7, <2>1, <2>2, <2>3, Constants
  <1>10. ASSUME NEW t \in Terminals, UpdateStarts(t)
         PROVE  Claims
    <2>1. /\ record[t].queue # <<>>
          /\ creation' = creation
          /\ \E error : record' = [record EXCEPT
                ![t].next = Transitioned(t),
                ![t].error = error,
                ![t].row = IF error = "error" THEN @
                           ELSE Update(@, Transitioned(t))]
      BY <1>10 DEF UpdateStarts
    <2>2. CASE t # u
      BY <1>0, <1>1, <2>1, <2>2 DEF TypeOK, r, s
    <2>3. CASE t = u
      <3>1. /\ s.announced = r.announced
            /\ s.queue = r.queue
            /\ s.descriptor = r.descriptor
            /\ s.next = Transitioned(u)
            /\ s.row \in {r.row, Update(r.row, Transitioned(u))}
            /\ creation'[u] = creation[u]
        BY <1>0, <2>1, <2>3 DEF TypeOK, Records, r, s
      <3>2. Transitioned(u).state = "exited" => after
        <4>1. Head(r.queue) = ExitTransition => Exiting(r.queue)
          BY <1>0, <2>1, <2>3, ExitingQueues DEF r, Records
        <4>2. Head(r.queue) # ExitTransition =>
                 Transitioned(u).state = r.descriptor.state
          BY <1>0 DEF Transitioned, r, Records, Descriptors
        <4> QED
          BY <1>b, <4>1, <4>2
      <3>3. Update(r.row, Transitioned(u)) \in {r.row, Transitioned(u)}
        BY DEF Update
      <3> QED
        BY <1>b, <3>1, <3>2, <3>3 DEF Claims
    <2> QED
      BY <2>2, <2>3
  <1>11. ASSUME NEW t \in Terminals, UpdateSettled(t), creation' = creation
         PROVE  Claims
    <2>1. /\ record[t].queue # <<>>
          /\ \E d \in {record[t].descriptor, record[t].next},
                a \in {record[t].announced,
                       Append(record[t].announced, record[t].next)} :
                record' = [record EXCEPT
                    ![t].queue = Tail(@),
                    ![t].next = NoDescriptor,
                    ![t].error = "undefined",
                    ![t].descriptor = d,
                    ![t].announced = a]
      BY <1>11 DEF UpdateSettled, ExitInv, TypeInv, UpdateHasTransition
    <2>2. CASE t # u
      BY <1>0, <1>1, <1>11, <2>1, <2>2 DEF TypeOK, r, s
    <2>3. CASE t = u
      <3>1. /\ s.announced \in {r.announced, Append(r.announced, r.next)}
            /\ s.queue = Tail(r.queue)
            /\ s.descriptor \in {r.descriptor, r.next}
            /\ s.next = NoDescriptor
            /\ s.row = r.row
            /\ creation'[u] = creation[u]
        BY <1>0, <1>11, <2>1, <2>3 DEF TypeOK, Records, r, s
      <3>2. /\ r.announced \in Seq(Descriptors)
            /\ r.next \in Descriptors
            /\ r.queue \in Seq(Sizes)
            /\ r.queue # <<>>
        BY <1>0, <2>1, <2>3 DEF Records, r
      <3>3. Exiting(s.queue) => Exiting(r.queue)
        BY <3>1, <3>2, ExitingQueues
      <3>4. SaysExited(s.announced) =>
               r.next.state = "exited" \/ SaysExited(r.announced)
        BY <3>1, <3>2, SaysExitedAppended
      <3>5. NoDescriptor.state # "exited"
        BY DEF NoDescriptor
      <3> QED
        BY <1>b, <3>1, <3>3, <3>4, <3>5 DEF Claims
    <2> QED
      BY <2>2, <2>3
  <1> QED
    BY <1>2, <1>4, <1>5, <1>6, <1>8, <1>9, <1>10, <1>11
    DEF Next, PtyData, PtyExit, Close, CloseAll, CloseStarts,
        EscalateToSigkill, GiveUpTermination, NoticeExit, AppendSettles,
        ResizeSettles, FinalizationSettles

-----------------------------------------------------------------------------
LEMMA InitExitInv == Init => ExitInv
  <1>1. Init => TypeInv
    BY InitTypeInv
  <1>2. Init => \A t \in Terminals : ExitKnown(t) /\ FinalizedAfterExit(t)
    <2> SUFFICES ASSUME Init, NEW t \in Terminals
                 PROVE  ExitKnown(t) /\ FinalizedAfterExit(t)
      OBVIOUS
    <2>1. session[t].exitCode = Undefined /\ process[t] = "none"
      BY DEF Init, NoSession
    <2>2. session[t].pty = FALSE
      BY DEF Init, NoSession
    <2>3. finalization[t].cause = "none" /\ finalization[t].stage = "none"
      BY DEF Init, NoFinalization
    <2> QED
      BY <2>1, <2>2, <2>3 DEF ExitKnown, FinalizedAfterExit, ExitResolved
  <1>3. Init => \A t \in Terminals : RecordedAfterExit(t)
    BY DEF Init, NoRecord, RecordedAfterExit, NoDescriptor
  <1> QED
    BY <1>1, <1>2, <1>3 DEF ExitInv

LEMMA StepExitInv ==
  ASSUME ExitInv, [Next]_vars
  PROVE  ExitInv'
  <1>1. TypeInv'
    BY StepTypeOK, StepUpdateHasTransition DEF ExitInv, TypeInv
  <1>2. CASE Next
    BY <1>1, <1>2, StepExitKnown, StepFinalizedAfterExit,
       StepRecordedAfterExit DEF ExitInv
  <1>3. CASE UNCHANGED vars
    BY <1>1, <1>3
    DEF vars, ExitInv, ExitKnown, FinalizedAfterExit, RecordedAfterExit,
        ExitResolved
  <1> QED
    BY <1>2, <1>3

\* The manager never announces or records an exit of a process that has not
\* exited: not after a double timeout, not when a close meets a late exit, and
\* whatever the repository, the store and the PTY handle fail to do.
THEOREM NeverFalseExit == Spec => []NoFalseExit
  <1>1. Init => ExitInv
    BY InitExitInv
  <1>2. ExitInv /\ [Next]_vars => ExitInv'
    BY StepExitInv
  <1>3. ExitInv => NoFalseExit
    BY DEF ExitInv, ExitKnown, RecordedAfterExit, NoFalseExit, AnnouncedExits
  <1> QED
    BY <1>1, <1>2, <1>3, PTL DEF Spec

-----------------------------------------------------------------------------
(* Output.  OutputKept is inductive once the early output is known to be    *)
(* handed to the queue when the terminal is created; a concatenation is     *)
(* easier to keep chunk by chunk.                                           *)

\* The three parts of the output are the chunks 1 to n, in their order.
Consecutive(published, queue, early, n) ==
    /\ n = Len(published) + Len(queue) + Len(early)
    /\ \A i \in 1..Len(published) : published[i] = i
    /\ \A i \in 1..Len(queue) : queue[i] = Len(published) + i
    /\ \A i \in 1..Len(early) : early[i] = Len(published) + Len(queue) + i

OutputOf(t) ==
    /\ creation[t] = "created" => output[t].early = <<>>
    /\ output[t].outputError = "undefined" /\ creation[t] # "rolledBack" =>
          Consecutive(output[t].published, output[t].queue, output[t].early,
                      output[t].emitted)

OutputInv == TypeInv /\ \A t \in Terminals : OutputOf(t)

LEMMA ConsecutiveIs ==
  ASSUME NEW p \in Seq(Chunks), NEW q \in Seq(Chunks), NEW e \in Seq(Chunks),
         NEW n \in Nat, Consecutive(p, q, e, n)
  PROVE  p \o q \o e = Ids(n)
  <1> DEFINE s == p \o q \o e
  <1>1. /\ Len(p) \in Nat /\ Len(q) \in Nat /\ Len(e) \in Nat
        /\ s \in Seq(Chunks) /\ Len(s) = n
    BY DEF Consecutive
  <1>2. \A i \in 1..n : s[i] = i
    <2> SUFFICES ASSUME NEW i \in 1..n
                 PROVE  s[i] = i
      OBVIOUS
    <2>1. CASE i =< Len(p)
      BY <1>1, <2>1 DEF Consecutive
    <2>2. CASE Len(p) < i /\ i =< Len(p) + Len(q)
      <3>1. s[i] = q[i - Len(p)] /\ i - Len(p) \in 1..Len(q)
        BY <1>1, <2>2
      <3> QED BY <1>1, <3>1 DEF Consecutive
    <2>3. CASE Len(p) + Len(q) < i
      <3>1. /\ s[i] = e[i - (Len(p) + Len(q))]
            /\ i - (Len(p) + Len(q)) \in 1..Len(e)
        BY <1>1, <2>3 DEF Consecutive
      <3> QED BY <1>1, <3>1 DEF Consecutive
    <2> QED BY <1>1, <2>1, <2>2, <2>3
  <1> HIDE DEF s
  <1>3. s = [i \in 1..Len(s) |-> s[i]]
    BY <1>1
  <1>4. s = [i \in 1..n |-> i]
    BY <1>1, <1>2, <1>3
  <1> QED BY <1>4 DEF Ids, s

\* The next chunk, queued or held back; the early output that is queued; and
\* the head of the queue that is published.
LEMMA ConsecutiveNext ==
  ASSUME NEW p \in Seq(Chunks), NEW q \in Seq(Chunks), NEW e \in Seq(Chunks),
         NEW n \in Nat, Consecutive(p, q, e, n), n + 1 \in Chunks
  PROVE  /\ Consecutive(p, q, Append(e, n + 1), n + 1)
         /\ e = <<>> => Consecutive(p, Append(q, n + 1), e, n + 1)
  <1>1. Len(p) \in Nat /\ Len(q) \in Nat /\ Len(e) \in Nat
    OBVIOUS
  <1>2. ASSUME NEW s \in Seq(Chunks)
        PROVE  /\ Len(Append(s, n + 1)) = Len(s) + 1
               /\ \A i \in 1..Len(s) : Append(s, n + 1)[i] = s[i]
               /\ Append(s, n + 1)[Len(s) + 1] = n + 1
    OBVIOUS
  <1>3. Consecutive(p, q, Append(e, n + 1), n + 1)
    BY <1>1, <1>2 DEF Consecutive
  <1>4. ASSUME e = <<>>
        PROVE  Consecutive(p, Append(q, n + 1), e, n + 1)
    <2> DEFINE s == Append(q, n + 1)
    <2>1. Len(e) = 0 /\ n = Len(p) + Len(q)
      BY <1>1, <1>4 DEF Consecutive
    <2>2. /\ Len(s) = Len(q) + 1
          /\ \A i \in 1..Len(q) : s[i] = q[i]
          /\ s[Len(q) + 1] = n + 1
      BY <1>2
    <2> HIDE DEF s
    <2>3. ASSUME NEW i \in 1..Len(s)
          PROVE  s[i] = Len(p) + i
      <3>1. i \in 1..Len(q) \/ i = Len(q) + 1
        BY <1>1, <2>2
      <3>2. CASE i \in 1..Len(q)
        <4>1. q[i] = Len(p) + i
          BY <3>2 DEF Consecutive
        <4> QED BY <2>2, <3>2, <4>1
      <3>3. CASE i = Len(q) + 1
        BY <1>1, <2>1, <2>2, <3>3
      <3> QED BY <3>1, <3>2, <3>3
    <2>4. \A i \in 1..Len(p) : p[i] = i
      BY DEF Consecutive
    <2>5. Consecutive(p, s, e, n + 1)
      BY <1>1, <2>1, <2>2, <2>3, <2>4 DEF Consecutive
    <2> QED BY <2>5 DEF s
  <1> QED BY <1>3, <1>4

LEMMA ConsecutiveFlushed ==
  ASSUME NEW p \in Seq(Chunks), NEW q \in Seq(Chunks), NEW e \in Seq(Chunks),
         NEW n \in Nat, Consecutive(p, q, e, n)
  PROVE  Consecutive(p, q \o e, <<>>, n)
  <1>1. /\ Len(p) \in Nat /\ Len(q) \in Nat /\ Len(e) \in Nat
        /\ Len(q \o e) = Len(q) + Len(e) /\ Len(<<>>) = 0
    OBVIOUS
  <1>2. \A i \in 1..Len(q \o e) : (q \o e)[i] = Len(p) + i
    <2> SUFFICES ASSUME NEW i \in 1..Len(q \o e)
                 PROVE  (q \o e)[i] = Len(p) + i
      OBVIOUS
    <2>1. CASE i =< Len(q)
      BY <1>1, <2>1 DEF Consecutive
    <2>2. CASE Len(q) < i
      <3>1. (q \o e)[i] = e[i - Len(q)] /\ i - Len(q) \in 1..Len(e)
        BY <1>1, <2>2
      <3> QED BY <1>1, <3>1 DEF Consecutive
    <2> QED BY <1>1, <2>1, <2>2
  <1> QED BY <1>1, <1>2 DEF Consecutive

LEMMA ConsecutivePublished ==
  ASSUME NEW p \in Seq(Chunks), NEW q \in Seq(Chunks), NEW e \in Seq(Chunks),
         NEW n \in Nat, Consecutive(p, q, e, n), q # <<>>
  PROVE  Consecutive(Append(p, Head(q)), Tail(q), e, n)
  <1> DEFINE s == Append(p, Head(q))
             r == Tail(q)
  <1>1. /\ Len(p) \in Nat /\ Len(q) \in Nat /\ Len(e) \in Nat
        /\ Len(r) \in Nat /\ Len(q) = Len(r) + 1 /\ Head(q) = q[1]
        /\ \A i \in 1..Len(r) : r[i] = q[i + 1] /\ i + 1 \in 1..Len(q)
        /\ 1 \in 1..Len(q) /\ Head(q) \in Chunks
    OBVIOUS
  <1>2. /\ Len(s) = Len(p) + 1 /\ s[Len(p) + 1] = q[1]
        /\ \A i \in 1..Len(p) : s[i] = p[i]
    BY <1>1
  <1> HIDE DEF r, s
  <1>3. q[1] = Len(p) + 1
    BY <1>1 DEF Consecutive
  <1>4. ASSUME NEW i \in 1..Len(s)
        PROVE  s[i] = i
    <2>1. i \in 1..Len(p) \/ i = Len(p) + 1
      BY <1>1, <1>2
    <2>2. CASE i \in 1..Len(p)
      <3>1. p[i] = i
        BY <2>2 DEF Consecutive
      <3> QED BY <1>2, <2>2, <3>1
    <2>3. CASE i = Len(p) + 1
      BY <1>2, <1>3, <2>3
    <2> QED BY <2>1, <2>2, <2>3
  <1>5. \A i \in 1..Len(r) : r[i] = Len(s) + i
    BY <1>1, <1>2 DEF Consecutive
  <1>6. \A i \in 1..Len(e) : e[i] = Len(s) + Len(r) + i
    BY <1>1, <1>2 DEF Consecutive
  <1>7. n = Len(s) + Len(r) + Len(e)
    BY <1>1, <1>2 DEF Consecutive
  <1> QED BY <1>4, <1>5, <1>6, <1>7 DEF Consecutive, r, s

LEMMA InitOutputInv == Init => OutputInv
  <1> SUFFICES ASSUME Init
               PROVE  OutputInv
    OBVIOUS
  <1>1. ASSUME NEW t \in Terminals PROVE OutputOf(t)
    BY DEF Init, NoOutput, OutputOf, Consecutive
  <1> QED BY <1>1, InitTypeInv DEF OutputInv

\* A step of t that is not about its output, or one of another terminal.
LEMMA OutputStays ==
  ASSUME NEW t \in Terminals, OutputOf(t), output'[t] = output[t],
         creation'[t] = "created" => creation[t] = "created",
         creation[t] = "rolledBack" => creation'[t] = "rolledBack"
  PROVE  OutputOf(t)'
  BY DEF OutputOf

LEMMA StepOutputOf ==
  ASSUME OutputInv, Next, NEW u \in Terminals
  PROVE  OutputOf(u)'
  <1>0. /\ TypeOK /\ OutputOf(u) /\ output[u] \in Outputs
    BY DEF OutputInv, TypeInv, TypeOK
  <1> DEFINE p == output[u].published
             q == output[u].queue
             e == output[u].early
             n == output[u].emitted
  <1>1. p \in Seq(Chunks) /\ q \in Seq(Chunks) /\ e \in Seq(Chunks) /\ n \in Nat
    BY <1>0, TerminalManagerAssumption DEF Outputs
  <1>2. CASE UNCHANGED <<creation, output>>
    <2>1. creation'[u] = creation[u] /\ output'[u] = output[u]
      BY <1>2
    <2> QED BY <1>0, <2>1, OutputStays
  <1>3. ASSUME NEW t \in Terminals, Create(t) \/ CreateWithoutListeners(t)
        PROVE  OutputOf(u)'
    <2>1. /\ output' = output
          /\ creation[t] = "absent"
          /\ \E c \in {"saving", "saveFailing", "rolledBack"} :
                creation' = [creation EXCEPT ![t] = c]
      BY <1>3 DEF Create, CreateWithoutListeners
    <2>2. /\ creation'[u] = "created" => creation[u] = "created"
          /\ creation[u] = "rolledBack" => creation'[u] = "rolledBack"
      BY <1>0, <2>1 DEF TypeOK
    <2> QED
      BY <1>0, <2>1, <2>2, OutputStays
  <1>4. ASSUME NEW t \in Terminals,
               \/ CreateResumes(t) \/ RollbackCreation(t) \/ PtyData(t)
               \/ AppendSettles(t)
        PROVE  OutputOf(u)'
    <2>1. CASE u # t
      <3>1. creation'[u] = creation[u] /\ output'[u] = output[u]
        BY <1>0, <1>4, <2>1
           DEF CreateResumes, RollbackCreation, PtyData, AppendSettles, TypeOK
      <3> QED BY <1>0, <3>1, OutputStays
    <2>2. CASE u = t /\ CreateResumes(t)
      <3>1. /\ creation'[u] = "created" /\ creation[u] = "saving"
            /\ output'[u] = [output[u] EXCEPT !.queue = q \o e, !.early = <<>>]
        BY <1>0, <2>2 DEF CreateResumes, Flushed, TypeOK, Outputs
      <3>2. /\ output'[u].published = p /\ output'[u].queue = q \o e
            /\ output'[u].early = <<>> /\ output'[u].emitted = n
            /\ output'[u].outputError = output[u].outputError
        BY <1>0, <3>1 DEF Outputs
      <3>3. output[u].outputError = "undefined" => Consecutive(p, q \o e, <<>>, n)
        BY <1>0, <1>1, <3>1, ConsecutiveFlushed DEF OutputOf
      <3> QED BY <3>1, <3>2, <3>3 DEF OutputOf
    <2>3. CASE u = t /\ RollbackCreation(t)
      <3>1. creation'[u] = "rolledBack"
        BY <1>0, <2>3 DEF RollbackCreation, TypeOK
      <3> QED BY <3>1 DEF OutputOf
    <2>4. CASE u = t /\ PtyData(t)
      <3>1. n + 1 \in Chunks /\ UNCHANGED creation
        BY <1>1, <2>4, TerminalManagerAssumption DEF PtyData, Chunks
      <3>2. /\ output'[u].published = p /\ output'[u].emitted = n + 1
            /\ output'[u].outputError = output[u].outputError
            /\ creation[u] = "created" =>
                  output'[u].early = e /\ output'[u].queue = Append(q, n + 1)
            /\ creation[u] # "created" =>
                  output'[u].early = Append(e, n + 1) /\ output'[u].queue = q
        BY <1>0, <2>4 DEF PtyData, TypeOK, Outputs
      <3>3. output[u].outputError = "undefined" /\ creation[u] # "rolledBack" =>
               /\ Consecutive(p, q, Append(e, n + 1), n + 1)
               /\ e = <<>> => Consecutive(p, Append(q, n + 1), e, n + 1)
        BY <1>0, <1>1, <3>1, ConsecutiveNext DEF OutputOf
      <3> HIDE DEF p, q, e, n
      <3>4. creation[u] = "created" => e = <<>>
        BY <1>0 DEF OutputOf, e
      <3> QED BY <3>1, <3>2, <3>3, <3>4 DEF OutputOf
    <2>5. CASE u = t /\ AppendSettles(t)
      <3>1. UNCHANGED creation /\ q # <<>>
        BY <2>5 DEF AppendSettles
      <3>2. PICK error \in Errors : output' = [output EXCEPT
               ![t].queue = Tail(@),
               ![t].outputError = Coalesce(@, error),
               ![t].published = IF error = "error" THEN @
                                ELSE Append(@, Head(output[t].queue))]
        BY <2>5, ErrorsTyped DEF AppendSettles
      <3>3. /\ output'[u].queue = Tail(q) /\ output'[u].early = e
            /\ output'[u].emitted = n
            /\ output'[u].outputError = Coalesce(output[u].outputError, error)
            /\ output'[u].published =
                  IF error = "error" THEN p ELSE Append(p, Head(q))
        BY <1>0, <2>5, <3>2 DEF TypeOK, Outputs
      <3>4. output'[u].outputError = "undefined" =>
               output[u].outputError = "undefined" /\ error # "error"
        BY <3>3 DEF Coalesce
      <3>5. output[u].outputError = "undefined" /\ creation[u] # "rolledBack" =>
               Consecutive(Append(p, Head(q)), Tail(q), e, n)
        BY <1>0, <1>1, <3>1, ConsecutivePublished DEF OutputOf
      <3> HIDE DEF p, q, e, n
      <3>6. creation[u] = "created" => e = <<>>
        BY <1>0 DEF OutputOf, e
      <3> QED BY <3>1, <3>3, <3>4, <3>5, <3>6 DEF OutputOf
    <2> QED BY <1>4, <2>1, <2>2, <2>3, <2>4, <2>5
  <1> QED
    BY <1>2, <1>3, <1>4
    DEF Next, CloseAll, Close, CloseStarts, PtyExit, Resize, EscalateToSigkill,
        GiveUpTermination, NoticeExit, OutputDrained, UpdateStarts,
        ResizeSettles, FinalizationSettles

LEMMA StepOutputInv ==
  ASSUME OutputInv, [Next]_vars
  PROVE  OutputInv'
  <1>1. TypeInv'
    BY StepTypeOK, StepUpdateHasTransition DEF OutputInv, TypeInv
  <1>2. CASE Next
    BY <1>1, <1>2, StepOutputOf DEF OutputInv
  <1>3. CASE UNCHANGED vars
    BY <1>1, <1>3 DEF vars, OutputInv, OutputOf
  <1> QED BY <1>2, <1>3

\* No chunk of a PTY is lost, repeated or overtaken on its way through the
\* early output of create() and the output queue, over any repository and with
\* any number of chunks, unless an append failed (handleData, enqueueOutput and
\* the flush of create of manager.ts).
THEOREM OutputStaysInOrder == Spec => []OutputKept
  <1>1. Init => OutputInv
    BY InitOutputInv
  <1>2. OutputInv /\ [Next]_vars => OutputInv'
    BY StepOutputInv
  <1>3. OutputInv => OutputKept
    <2> SUFFICES ASSUME OutputInv, NEW t \in Terminals,
                        output[t].outputError = "undefined",
                        creation[t] # "rolledBack"
                 PROVE  output[t].published \o output[t].queue \o output[t].early
                           = Ids(output[t].emitted)
      BY DEF OutputKept
    <2>1. /\ output[t].published \in Seq(Chunks) /\ output[t].queue \in Seq(Chunks)
          /\ output[t].early \in Seq(Chunks) /\ output[t].emitted \in Nat
      BY TerminalManagerAssumption DEF OutputInv, TypeInv, TypeOK, Outputs
    <2>2. Consecutive(output[t].published, output[t].queue, output[t].early,
                      output[t].emitted)
      BY DEF OutputInv, OutputOf
    <2> DEFINE p == output[t].published
               q == output[t].queue
               e == output[t].early
               n == output[t].emitted
    <2> HIDE DEF p, q, e, n
    <2>3. /\ p \in Seq(Chunks) /\ q \in Seq(Chunks) /\ e \in Seq(Chunks)
          /\ n \in Nat /\ Consecutive(p, q, e, n)
      BY <2>1, <2>2 DEF p, q, e, n
    <2>4. p \o q \o e = Ids(n)
      BY <2>3, ConsecutiveIs
    <2> QED BY <2>4 DEF p, q, e, n
  <1> QED
    BY <1>1, <1>2, <1>3, PTL DEF Spec

-----------------------------------------------------------------------------
(* What a step of one terminal leaves alone *)

\* A step that leaves a terminal alone.
Same(t) ==
    /\ creation'[t] = creation[t] /\ session'[t] = session[t]
    /\ output'[t] = output[t] /\ record'[t] = record[t]
    /\ finalization'[t] = finalization[t]

\* A step of one terminal, which is not a close.
StepOf(t) ==
    \/ Create(t) \/ CreateWithoutListeners(t) \/ CreateResumes(t)
    \/ RollbackCreation(t) \/ PtyData(t) \/ PtyExit(t) \/ Resize(t)
    \/ EscalateToSigkill(t) \/ GiveUpTermination(t) \/ NoticeExit(t)
    \/ OutputDrained(t) \/ AppendSettles(t) \/ UpdateStarts(t)
    \/ ResizeSettles(t) \/ FinalizationSettles(t)

LEMMA OthersSame ==
  ASSUME TypeOK, NEW t \in Terminals, StepOf(t), NEW u \in Terminals, u # t
  PROVE  Same(u)
  <1>1. CASE Create(t)
    BY <1>1 DEF TypeOK, Create, Same
  <1>2. CASE CreateWithoutListeners(t)
    BY <1>2 DEF TypeOK, CreateWithoutListeners, Same
  <1>3. CASE CreateResumes(t)
    BY <1>3 DEF TypeOK, CreateResumes, Same
  <1>4. CASE RollbackCreation(t)
    BY <1>4 DEF TypeOK, RollbackCreation, Same
  <1>5. CASE PtyData(t)
    BY <1>5 DEF TypeOK, PtyData, Same
  <1>6. CASE PtyExit(t)
    <2>1. /\ \/ session' = session
             \/ \E s : session' = [session EXCEPT ![t] = s]
          /\ \/ finalization' = finalization
             \/ \E f : finalization' = [finalization EXCEPT ![t] = f]
          /\ UNCHANGED <<creation, output, record>>
      BY <1>6 DEF PtyExit
    <2> QED BY <2>1 DEF TypeOK, Same
  <1>7. CASE Resize(t)
    BY <1>7 DEF TypeOK, Resize, Same
  <1>8. CASE EscalateToSigkill(t) \/ GiveUpTermination(t)
    BY <1>8 DEF TypeOK, EscalateToSigkill, GiveUpTermination, Same
  <1>9. CASE NoticeExit(t)
    BY <1>9 DEF TypeOK, NoticeExit, Same
  <1>10. CASE OutputDrained(t)
    BY <1>10 DEF TypeOK, OutputDrained, Same
  <1>11. CASE AppendSettles(t)
    BY <1>11 DEF TypeOK, AppendSettles, Same
  <1>12. CASE UpdateStarts(t)
    BY <1>12 DEF TypeOK, UpdateStarts, Same
  <1>13. CASE ResizeSettles(t) \/ FinalizationSettles(t)
    BY <1>13 DEF TypeOK, ResizeSettles, FinalizationSettles, UpdateSettled, Same
  <1> QED
    BY <1>1, <1>2, <1>3, <1>4, <1>5, <1>6, <1>7, <1>8, <1>9, <1>10, <1>11,
       <1>12, <1>13 DEF StepOf

-----------------------------------------------------------------------------
(* One end.  EndedOnce is not inductive: an exit is announced from an       *)
(* update in progress, which came from a queue.  RowInv says that the queue *)
(* holds one exit, at its end, while its finalization awaits the update;    *)
(* that nothing is queued after it; and that a finalization which settled   *)
(* for any other reason than a termination error is never started again.    *)

\* The exit is queued once, last, by a finalization that awaits its update;
\* from the first finalization on no resize is accepted.
QueuedOnce(t) ==
    /\ creation[t] = "absent" => finalization[t].stage = "none"
    /\ finalization[t].stage # "none" => session[t].acceptingInput = FALSE
    /\ \A i \in 1..Len(record[t].queue) :
          record[t].queue[i] = ExitTransition => i = Len(record[t].queue)
    /\ Exiting(record[t].queue) => finalization[t].stage = "updating"

\* An exit that was announced was the last transition.
ExitedOnce(t) ==
    /\ record[t].next.state = "exited" => Head(record[t].queue) = ExitTransition
    /\ (record[t].descriptor.state = "exited" \/ SaysExited(record[t].announced))
          => /\ finalization[t].stage \in {"resolved", "rejected"}
             /\ record[t].queue = <<>>
    /\ \A i, j \in AnnouncedExits(t) : i = j

\* A row that a failed creation left behind is exited, or the terminal was
\* resized or an update rejected.
ClosedRow(t) ==
    /\ creation[t] = "absent" => record[t].row = NoDescriptor
    /\ record[t].resizes = 0 =>
          \A i \in 1..Len(record[t].queue) : record[t].queue[i] = ExitTransition
    /\ /\ creation[t] = "rolledBack"
       /\ history[t].updateError = "undefined"
       /\ record[t].resizes = 0
       => record[t].row.state # "running"

RowInv ==
    /\ TypeInv
    /\ \A t \in Terminals : QueuedOnce(t) /\ ExitedOnce(t) /\ ClosedRow(t)

LEMMA InitRowInv == Init => RowInv
  <1> SUFFICES ASSUME Init
               PROVE  RowInv
    OBVIOUS
  <1>1. ASSUME NEW t \in Terminals
        PROVE  QueuedOnce(t) /\ ExitedOnce(t) /\ ClosedRow(t)
    <2>1. /\ creation[t] = "absent" /\ finalization[t].stage = "none"
          /\ record[t] = NoRecord
      BY <1>1 DEF Init, NoFinalization
    <2>2. /\ record[t].queue = <<>> /\ record[t].announced = <<>>
          /\ record[t].next.state = "none" /\ record[t].row = NoDescriptor
          /\ record[t].descriptor.state = "none"
      BY <2>1 DEF NoRecord, NoDescriptor
    <2>3. QueuedOnce(t)
      BY <2>1, <2>2 DEF QueuedOnce, Exiting
    <2>4. ExitedOnce(t)
      BY <2>2 DEF ExitedOnce, SaysExited, AnnouncedExits
    <2>5. ClosedRow(t)
      BY <2>1, <2>2 DEF ClosedRow
    <2> QED BY <2>3, <2>4, <2>5
  <1> QED BY <1>1, InitTypeInv DEF RowInv

\* Transitions are appended last, and taken first.
LEMMA LastAppended ==
  ASSUME NEW q \in Seq(Sizes), NEW x \in Sizes, ~Exiting(q)
  PROVE  \A i \in 1..Len(Append(q, x)) :
            Append(q, x)[i] = ExitTransition => i = Len(Append(q, x))
  <1>1. /\ Len(Append(q, x)) = Len(q) + 1 /\ Len(q) \in Nat
        /\ \A i \in 1..Len(q) : Append(q, x)[i] = q[i] /\ i \in DOMAIN q
    OBVIOUS
  <1> QED BY <1>1 DEF Exiting

LEMMA LastOfTail ==
  ASSUME NEW q \in Seq(Sizes), q # <<>>,
         \A i \in 1..Len(q) : q[i] = ExitTransition => i = Len(q)
  PROVE  /\ \A i \in 1..Len(Tail(q)) :
               Tail(q)[i] = ExitTransition => i = Len(Tail(q))
         /\ Head(q) = ExitTransition => Tail(q) = <<>>
  <1> DEFINE r == Tail(q)
  <1>1. /\ Len(q) \in Nat /\ Len(r) \in Nat /\ Len(q) = Len(r) + 1
        /\ Head(q) = q[1] /\ r \in Seq(Sizes)
        /\ \A i \in 1..Len(r) : r[i] = q[i + 1] /\ i + 1 \in 1..Len(q)
    OBVIOUS
  <1> HIDE DEF r
  <1>2. Len(r) = 0 => r = <<>>
    BY <1>1
  <1>3. ASSUME NEW i \in 1..Len(r), r[i] = ExitTransition
        PROVE  i = Len(r)
    <2>1. q[i + 1] = ExitTransition /\ i + 1 \in 1..Len(q)
      BY <1>1, <1>3
    <2>2. i + 1 = Len(q)
      BY <2>1
    <2> QED BY <1>1, <2>2
  <1>4. ASSUME Head(q) = ExitTransition PROVE r = <<>>
    <2>1. 1 \in 1..Len(q) /\ q[1] = ExitTransition
      BY <1>1, <1>4
    <2>2. 1 = Len(q)
      BY <2>1
    <2> QED BY <1>1, <1>2, <2>2
  <1> QED BY <1>3, <1>4 DEF r

\* startFinalization joins a finalization in flight or settled, and stops input.
LEMMA StartedStage ==
  ASSUME TypeOK, NEW t \in Terminals, NEW kind, NEW exit, NEW queue, NEW error
  PROVE  /\ Quiesced(t, exit).acceptingInput = FALSE
         /\ \/ Started(t, kind, exit, queue, error).stage = finalization[t].stage
            \/ /\ finalization[t].stage = "none"
               /\ Started(t, kind, exit, queue, error).stage
                     \in {"sighup", "draining"}
  <1>1. Quiesced(t, exit).acceptingInput = FALSE
    BY DEF TypeOK, Sessions, Quiesced
  <1>2. \/ Started(t, kind, exit, queue, error).stage = finalization[t].stage
        \/ /\ finalization[t].stage = "none"
           /\ Started(t, kind, exit, queue, error).stage \in {"sighup", "draining"}
    BY DEF Started
  <1> QED BY <1>1, <1>2

RowOf(t) == QueuedOnce(t) /\ ExitedOnce(t) /\ ClosedRow(t)

\* A step that moves a finalization forward at most, and not one that awaits
\* its update or has settled.
LEMMA StageMoves ==
  ASSUME NEW t \in Terminals, RowOf(t), record'[t] = record[t],
         creation'[t] = creation[t],
         history'[t].updateError = history[t].updateError,
         creation[t] = "absent" => finalization'[t].stage = "none",
         finalization'[t].stage # "none" => session'[t].acceptingInput = FALSE,
         finalization[t].stage \in {"updating", "resolved", "rejected"}
            => finalization'[t].stage = finalization[t].stage
  PROVE  RowOf(t)'
  <1>1. QueuedOnce(t)'
    BY DEF RowOf, QueuedOnce
  <1>2. ExitedOnce(t)' /\ ClosedRow(t)'
    BY DEF RowOf, ExitedOnce, ClosedRow, AnnouncedExits
  <1> QED BY <1>1, <1>2 DEF RowOf

\* An announcement that is the first to say exited, or does not.
LEMMA OnceAnnounced ==
  ASSUME NEW t \in Terminals, NEW d \in Descriptors,
         record[t].announced \in Seq(Descriptors),
         record'[t].announced = Append(record[t].announced, d),
         \A i, j \in AnnouncedExits(t) : i = j,
         d.state = "exited" => ~SaysExited(record[t].announced)
  PROVE  \A i, j \in AnnouncedExits(t)' : i = j
  <1> DEFINE a == record[t].announced
             b == record'[t].announced
  <1>1. /\ Len(a) \in Nat /\ DOMAIN a = 1..Len(a) /\ DOMAIN b = 1..(Len(a) + 1)
        /\ b[Len(a) + 1] = d /\ \A i \in 1..Len(a) : b[i] = a[i]
    OBVIOUS
  <1>2. /\ AnnouncedExits(t) = {i \in DOMAIN a : a[i].state = "exited"}
        /\ AnnouncedExits(t)' = {i \in DOMAIN b : b[i].state = "exited"}
    BY DEF AnnouncedExits
  <1> HIDE DEF a, b
  <1>3. d.state = "exited" => \A i \in 1..Len(a) : a[i].state # "exited"
    BY <1>1 DEF SaysExited, a
  <1>4. ASSUME NEW i \in AnnouncedExits(t)', NEW j \in AnnouncedExits(t)'
        PROVE  i = j
    <2>1. /\ i \in 1..(Len(a) + 1) /\ b[i].state = "exited"
          /\ j \in 1..(Len(a) + 1) /\ b[j].state = "exited"
      BY <1>1, <1>2
    <2>2. CASE d.state = "exited"
      <3>1. \A k \in 1..(Len(a) + 1) : b[k].state = "exited" => k = Len(a) + 1
        BY <1>1, <1>3, <2>2
      <3> QED BY <2>1, <3>1
    <2>3. CASE d.state # "exited"
      <3>1. i \in 1..Len(a) /\ j \in 1..Len(a)
        BY <1>1, <2>1, <2>3
      <3>2. i \in AnnouncedExits(t) /\ j \in AnnouncedExits(t)
        BY <1>1, <1>2, <2>1, <3>1
      <3> QED BY <3>2
    <2> QED BY <2>2, <2>3
  <1> QED BY <1>4

LEMMA OthersHistory ==
  ASSUME TypeOK, NEW t \in Terminals, StepOf(t), NEW u \in Terminals, u # t
  PROVE  history'[u] = history[u] /\ closeAll'[u] = closeAll[u]
  <1>1. history'[u] = history[u]
    <2>1. CASE UNCHANGED history
      BY <2>1
    <2>2. CASE RollbackCreation(t)
      <3>1. \/ history' = history
            \/ history' = [history EXCEPT ![t].updateError = "error"]
        BY <2>2 DEF RollbackCreation
      <3> QED BY <3>1 DEF TypeOK
    <2>3. CASE PtyExit(t)
      <3>1. \/ history' = history
            \/ \E h : history' = [history EXCEPT ![t] = h]
        BY <2>3 DEF PtyExit
      <3> QED BY <3>1 DEF TypeOK
    <2>4. CASE UpdateStarts(t)
      <3>1. \E h : history' = [history EXCEPT ![t] = h]
        BY <2>4 DEF UpdateStarts
      <3> QED BY <3>1 DEF TypeOK
    <2> QED
      BY <2>1, <2>2, <2>3, <2>4
      DEF StepOf, Create, CreateWithoutListeners, CreateResumes, PtyData, Resize,
          EscalateToSigkill, GiveUpTermination, NoticeExit, OutputDrained,
          AppendSettles, ResizeSettles, FinalizationSettles
  <1>2. closeAll'[u] = closeAll[u]
    <2>1. CASE UNCHANGED closeAll
      BY <2>1
    <2>2. CASE GiveUpTermination(t) \/ FinalizationSettles(t)
      <3>1. \E p : closeAll' = [closeAll EXCEPT ![t] = p]
        BY <2>2 DEF GiveUpTermination, FinalizationSettles, Settle
      <3> QED BY <3>1 DEF TypeOK
    <2> QED
      BY <2>1, <2>2
      DEF StepOf, Create, CreateWithoutListeners, CreateResumes,
          RollbackCreation, PtyData, PtyExit, Resize, EscalateToSigkill,
          NoticeExit, OutputDrained, AppendSettles, UpdateStarts, ResizeSettles
  <1> QED BY <1>1, <1>2

LEMMA CreationRow ==
  ASSUME RowInv, NEW t \in Terminals,
         Create(t) \/ CreateWithoutListeners(t) \/ CreateResumes(t)
            \/ RollbackCreation(t)
  PROVE  RowOf(t)'
  <1>0. /\ TypeOK /\ RowOf(t) /\ record[t] \in Records
        /\ finalization[t].stage # "none" => session[t].acceptingInput = FALSE
    BY DEF RowInv, TypeInv, TypeOK, RowOf, QueuedOnce
  <1>1. CASE Create(t) \/ CreateWithoutListeners(t)
    <2>1. /\ creation[t] = "absent" /\ finalization' = finalization
          /\ history' = history
          /\ creation'[t] \in {"saving", "saveFailing", "rolledBack"}
      BY <1>0, <1>1 DEF Create, CreateWithoutListeners, TypeOK
    <2>2. /\ record'[t].queue = record[t].queue
          /\ record'[t].next = record[t].next
          /\ record'[t].announced = record[t].announced
          /\ record'[t].resizes = record[t].resizes
          /\ record'[t].descriptor = FirstDescriptor
          /\ creation'[t] = "rolledBack" => record'[t].row = record[t].row
      <3>1. CASE Create(t)
        BY <1>0, <3>1 DEF Create, TypeOK, Records
      <3>2. CASE CreateWithoutListeners(t)
        BY <1>0, <3>2 DEF CreateWithoutListeners, TypeOK, Records
      <3> QED BY <1>1, <3>1, <3>2
    <2>3. finalization[t].stage = "none"
      BY <1>0, <2>1 DEF RowOf, QueuedOnce
    <2>4. QueuedOnce(t)'
      BY <1>0, <2>1, <2>2, <2>3 DEF RowOf, QueuedOnce
    <2>5. ExitedOnce(t)'
      BY <1>0, <2>1, <2>2, <2>3
         DEF RowOf, ExitedOnce, AnnouncedExits, FirstDescriptor
    <2>6. ClosedRow(t)'
      BY <1>0, <2>1, <2>2 DEF RowOf, ClosedRow, NoDescriptor
    <2> QED BY <2>4, <2>5, <2>6 DEF RowOf
  <1>2. CASE CreateResumes(t)
    <2>1. /\ creation'[t] = "created" /\ creation[t] = "saving"
          /\ history' = history
          /\ record'[t] = [record[t] EXCEPT !.announced =
                              Append(record[t].announced, FirstDescriptor)]
      BY <1>0, <1>2 DEF CreateResumes, TypeOK
    <2>2. /\ record'[t].queue = record[t].queue
          /\ record'[t].next = record[t].next
          /\ record'[t].resizes = record[t].resizes
          /\ record'[t].descriptor = record[t].descriptor
          /\ record'[t].row = record[t].row
          /\ record'[t].announced = Append(record[t].announced, FirstDescriptor)
          /\ record[t].announced \in Seq(Descriptors)
      BY <1>0, <2>1 DEF Records
    <2>3. /\ finalization'[t].stage # "none" => session'[t].acceptingInput = FALSE
          /\ finalization[t].stage # "none" =>
                finalization'[t].stage = finalization[t].stage
      <3>1. CASE session[t].exitCode = Undefined
        BY <1>0, <1>2, <3>1 DEF CreateResumes
      <3>2. CASE session[t].exitCode # Undefined
        <4>1. PICK error :
                 /\ session'[t] = Quiesced(t, session[t].exitCode)
                 /\ finalization'[t] = Started(t, "native", session[t].exitCode,
                                               Flushed(t), error)
          BY <1>0, <1>2, <3>2 DEF CreateResumes, TypeOK
        <4>2. ASSUME NEW exit, NEW queue, NEW e
              PROVE  /\ Quiesced(t, exit).acceptingInput = FALSE
                     /\ \/ Started(t, "native", exit, queue, e).stage
                              = finalization[t].stage
                        \/ finalization[t].stage = "none"
          BY <1>0, StartedStage
        <4>3. /\ Quiesced(t, session[t].exitCode).acceptingInput = FALSE
              /\ \/ Started(t, "native", session[t].exitCode, Flushed(t), error).stage
                       = finalization[t].stage
                 \/ finalization[t].stage = "none"
          BY <4>2
        <4> QED BY <4>1, <4>3
      <3> QED BY <3>1, <3>2
    <2>4. /\ FirstDescriptor \in Descriptors
          /\ FirstDescriptor.state # "exited"
      BY DescriptorsTyped DEF FirstDescriptor
    <2>5. SaysExited(record'[t].announced) => SaysExited(record[t].announced)
      BY <2>2, <2>4, SaysExitedAppended
    <2>6. QueuedOnce(t)'
      BY <1>0, <2>1, <2>2, <2>3 DEF RowOf, QueuedOnce
    <2>7. \A i, j \in AnnouncedExits(t)' : i = j
      BY <1>0, <2>2, <2>4, OnceAnnounced DEF RowOf, ExitedOnce
    <2>8. ExitedOnce(t)'
      BY <1>0, <2>2, <2>3, <2>5, <2>7 DEF RowOf, ExitedOnce
    <2>9. ClosedRow(t)'
      BY <1>0, <2>1, <2>2 DEF RowOf, ClosedRow
    <2> QED BY <2>6, <2>8, <2>9 DEF RowOf
  <1>3. CASE RollbackCreation(t)
    <2>1. /\ creation'[t] = "rolledBack" /\ creation[t] = "saveFailing"
          /\ finalization' = finalization
          /\ session'[t].acceptingInput = FALSE
      BY <1>0, <1>3 DEF RollbackCreation, TypeOK, Sessions
    <2>2. \/ record'[t] = [record[t] EXCEPT !.row = RolledBack(t)]
          \/ record'[t] = record[t] /\ history'[t].updateError = "error"
      <3>1. \/ record' = [record EXCEPT ![t].row = RolledBack(t)]
            \/ /\ record' = record
               /\ history' = [history EXCEPT ![t].updateError = "error"]
        BY <1>3, Zenon DEF RollbackCreation
      <3> QED BY <1>0, <3>1 DEF TypeOK, Histories
    <2>3. /\ record'[t].queue = record[t].queue
          /\ record'[t].next = record[t].next
          /\ record'[t].resizes = record[t].resizes
          /\ record'[t].descriptor = record[t].descriptor
          /\ record'[t].announced = record[t].announced
          /\ \/ record'[t].row = RolledBack(t)
             \/ history'[t].updateError = "error"
      BY <1>0, <2>2 DEF Records
    <2>4. RolledBack(t).state # "running"
      BY <1>0 DEF RolledBack, Update, Exited, NoDescriptor, Records, Descriptors
    <2>5. QueuedOnce(t)'
      BY <1>0, <2>1, <2>3 DEF RowOf, QueuedOnce
    <2>6. ExitedOnce(t)'
      BY <1>0, <2>1, <2>3 DEF RowOf, ExitedOnce, AnnouncedExits
    <2>7. ClosedRow(t)'
      BY <1>0, <2>1, <2>3, <2>4 DEF RowOf, ClosedRow
    <2> QED BY <2>5, <2>6, <2>7 DEF RowOf
  <1> QED BY <1>1, <1>2, <1>3

LEMMA QueueRow ==
  ASSUME RowInv, NEW t \in Terminals, Resize(t) \/ OutputDrained(t)
  PROVE  RowOf(t)'
  <1>0. /\ TypeOK /\ RowOf(t) /\ record[t] \in Records
        /\ record[t].queue \in Seq(Sizes) /\ record[t].resizes \in Nat
        /\ finalization[t] \in Finalizations
    BY TerminalManagerAssumption
       DEF RowInv, TypeInv, TypeOK, RowOf, Records, Sizes
  <1> DEFINE q == record[t].queue
             r == record'[t].queue
  <1>1. PICK x \in Sizes :
           /\ r = Append(q, x)
           /\ record'[t].next = record[t].next
           /\ record'[t].descriptor = record[t].descriptor
           /\ record'[t].announced = record[t].announced
           /\ record'[t].row = record[t].row
           /\ \/ x = ExitTransition /\ finalization'[t].stage = "updating"
                 /\ finalization[t].stage = "draining"
                 /\ record'[t].resizes = record[t].resizes
              \/ x # ExitTransition /\ finalization'[t].stage = "none"
                 /\ record'[t].resizes # 0 /\ finalization[t].stage = "none"
    <2>1. CASE Resize(t)
      <3>1. /\ record[t].resizes + 1 \in Sizes
            /\ record[t].resizes + 1 # ExitTransition
            /\ record[t].resizes + 1 # 0
        BY <1>0, <2>1, TerminalManagerAssumption DEF Resize, Sizes, ExitTransition
      <3>2. record'[t] = [record[t] EXCEPT
               !.resizes = record[t].resizes + 1,
               !.queue = Append(q, record[t].resizes + 1)]
        BY <1>0, <2>1 DEF Resize, TypeOK
      <3>3. finalization[t].stage = "none" /\ finalization' = finalization
        BY <1>0, <2>1 DEF Resize, RowOf, QueuedOnce
      <3>4. /\ r = Append(q, record[t].resizes + 1)
            /\ record'[t].next = record[t].next
            /\ record'[t].descriptor = record[t].descriptor
            /\ record'[t].announced = record[t].announced
            /\ record'[t].row = record[t].row
            /\ record'[t].resizes = record[t].resizes + 1
        BY <1>0, <3>2 DEF Records
      <3> QED BY <3>1, <3>3, <3>4
    <2>2. CASE OutputDrained(t)
      <3>1. record'[t] = [record[t] EXCEPT !.queue = Append(q, ExitTransition)]
        BY <1>0, <2>2 DEF OutputDrained, TypeOK
      <3>2. /\ finalization[t].stage = "draining"
            /\ finalization'[t].stage = "updating"
        BY <1>0, <2>2 DEF OutputDrained, TypeOK, Finalizations
      <3>3. /\ r = Append(q, ExitTransition)
            /\ record'[t].next = record[t].next
            /\ record'[t].descriptor = record[t].descriptor
            /\ record'[t].announced = record[t].announced
            /\ record'[t].row = record[t].row
            /\ record'[t].resizes = record[t].resizes
        BY <1>0, <3>1 DEF Records
      <3> QED BY <3>2, <3>3, Constants
    <2> QED BY <2>1, <2>2
  <1>2. /\ UNCHANGED <<creation, session, history>>
        /\ creation[t] # "absent"
        /\ ~Exiting(q)
        /\ finalization[t].stage # "none" => session[t].acceptingInput = FALSE
    <2>1. CASE Resize(t)
      BY <1>0, <1>1, <2>1 DEF Resize, InMap, RowOf, QueuedOnce
    <2>2. CASE OutputDrained(t)
      BY <1>0, <1>1, <2>2 DEF OutputDrained, RowOf, QueuedOnce
    <2> QED BY <2>1, <2>2
  <1>3. /\ Len(r) = Len(q) + 1 /\ Len(q) \in Nat /\ r[Len(r)] = x
        /\ \A i \in 1..Len(q) : r[i] = q[i]
    BY <1>0, <1>1
  <1>4. \A i \in 1..Len(r) : r[i] = ExitTransition => i = Len(r)
    BY <1>0, <1>1, <1>2, LastAppended
  <1>5. Exiting(r) => x = ExitTransition
    BY <1>0, <1>1, <1>2, ExitingQueues
  <1>6. q # <<>> => Head(r) = Head(q)
    BY <1>0, <1>1
  <1>7. record[t].next.state = "exited" => q # <<>>
    BY DEF RowInv, TypeInv, UpdateHasTransition, NoDescriptor
  <1> HIDE DEF q, r
  <1>8. QueuedOnce(t)'
    BY <1>1, <1>2, <1>4, <1>5 DEF QueuedOnce, r
  <1>9. ExitedOnce(t)'
    BY <1>0, <1>1, <1>6, <1>7
       DEF RowOf, ExitedOnce, AnnouncedExits, q, r
  <1>10. ClosedRow(t)'
    <2>1. ASSUME record'[t].resizes = 0, NEW i \in 1..Len(r)
          PROVE  r[i] = ExitTransition
      <3>1. /\ x = ExitTransition
            /\ \A j \in 1..Len(q) : q[j] = ExitTransition
        BY <1>0, <1>1, <2>1 DEF RowOf, ClosedRow, q
      <3>2. i \in 1..Len(q) \/ i = Len(r)
        BY <1>3
      <3> QED BY <1>3, <3>1, <3>2
    <2> QED BY <1>0, <1>1, <1>2, <2>1 DEF RowOf, ClosedRow, r
  <1> QED BY <1>8, <1>9, <1>10 DEF RowOf

LEMMA UpdateRow ==
  ASSUME RowInv, NEW t \in Terminals, UpdateStarts(t)
  PROVE  RowOf(t)'
  <1>0. /\ TypeOK /\ RowOf(t) /\ record[t] \in Records
        /\ record[t].queue \in Seq(Sizes) /\ record[t].queue # <<>>
        /\ UNCHANGED <<creation, session, finalization>>
    BY DEF RowInv, TypeInv, TypeOK, RowOf, Records, UpdateStarts
  <1>1. PICK error \in Errors :
           /\ record'[t] = [record[t] EXCEPT
                 !.next = Transitioned(t), !.error = error,
                 !.row = IF error = "error" THEN @
                         ELSE Update(@, Transitioned(t))]
           /\ history'[t].updateError = Coalesce(history[t].updateError, error)
    <2>1. PICK error \in Errors :
             /\ record' = [record EXCEPT
                   ![t].next = Transitioned(t), ![t].error = error,
                   ![t].row = IF error = "error" THEN @
                              ELSE Update(@, Transitioned(t))]
             /\ history' = [history EXCEPT
                   ![t].updateError = Coalesce(@, error)]
      BY ErrorsTyped DEF UpdateStarts
    <2> QED BY <1>0, <2>1 DEF TypeOK, Histories
  <1>2. /\ record'[t].next = Transitioned(t)
        /\ record'[t].queue = record[t].queue
        /\ record'[t].descriptor = record[t].descriptor
        /\ record'[t].announced = record[t].announced
        /\ record'[t].resizes = record[t].resizes
        /\ record'[t].row = IF error = "error" THEN record[t].row
                            ELSE Update(record[t].row, Transitioned(t))
    BY <1>0, <1>1 DEF Records
  <1>3. /\ Head(record[t].queue) # ExitTransition =>
              Transitioned(t).state = record[t].descriptor.state
        /\ Head(record[t].queue) = ExitTransition =>
              Transitioned(t).state = "exited"
    BY <1>0 DEF Transitioned, Exited, Records, Descriptors
  <1>4. record[t].descriptor.state # "exited"
    BY <1>0 DEF RowOf, ExitedOnce
  <1>5. QueuedOnce(t)'
    BY <1>0, <1>2 DEF RowOf, QueuedOnce
  <1>6. ExitedOnce(t)'
    BY <1>0, <1>2, <1>3, <1>4 DEF RowOf, ExitedOnce, AnnouncedExits
  <1>7. ClosedRow(t)'
    <2>1. record[t].resizes = 0 => Head(record[t].queue) = ExitTransition
      BY <1>0 DEF RowOf, ClosedRow
    <2>2. record[t].resizes = 0 =>
             \/ record'[t].row = record[t].row
             \/ record'[t].row.state = "exited"
      BY <1>2, <1>3, <2>1 DEF Update
    <2>3. history'[t].updateError = "undefined" =>
             history[t].updateError = "undefined"
      BY <1>1 DEF Coalesce
    <2>4. creation[t] = "absent" => record'[t].row = NoDescriptor
      BY <1>0, <1>2 DEF RowOf, ClosedRow, Update
    <2> QED BY <1>0, <1>2, <2>2, <2>3, <2>4 DEF RowOf, ClosedRow
  <1> QED BY <1>5, <1>6, <1>7 DEF RowOf

LEMMA SettledRow ==
  ASSUME RowInv, NEW t \in Terminals,
         ResizeSettles(t) \/ FinalizationSettles(t)
  PROVE  RowOf(t)'
  <1>0. /\ TypeOK /\ RowOf(t) /\ record[t] \in Records
        /\ record[t].queue \in Seq(Sizes) /\ record[t].queue # <<>>
        /\ record[t].announced \in Seq(Descriptors)
        /\ record[t].next \in Descriptors
        /\ UNCHANGED <<creation, history>> /\ UpdateSettled(t)
    BY DEF RowInv, TypeInv, TypeOK, RowOf, Records, UpdateHasTransition,
           ResizeSettles, FinalizationSettles, UpdateSettled
  <1> DEFINE q == record[t].queue
  <1>1. /\ record'[t].queue = Tail(q)
        /\ record'[t].next = NoDescriptor
        /\ record'[t].resizes = record[t].resizes
        /\ record'[t].row = record[t].row
        /\ \/ /\ record'[t].descriptor = record[t].descriptor
              /\ record'[t].announced = record[t].announced
           \/ /\ record'[t].descriptor = record[t].next
              /\ record'[t].announced =
                    Append(record[t].announced, record[t].next)
    <2>1. record'[t] = [record[t] EXCEPT
             !.queue = Tail(@), !.next = NoDescriptor, !.error = "undefined",
             !.descriptor = IF record[t].error = "error" THEN @
                            ELSE record[t].next,
             !.announced = IF record[t].error = "error" THEN @
                           ELSE Append(@, record[t].next)]
      BY <1>0 DEF UpdateSettled, TypeOK
    <2> QED BY <1>0, <2>1 DEF Records
  <1>2. CASE ResizeSettles(t)
    <2>1. /\ Head(q) # ExitTransition /\ finalization' = finalization
          /\ session' = session
      BY <1>2 DEF ResizeSettles
    <2>2. record[t].next.state # "exited"
      BY <1>0, <2>1 DEF RowOf, ExitedOnce
    <2>3. ~SaysExited(record[t].announced) /\ record[t].descriptor.state # "exited"
      BY <1>0 DEF RowOf, ExitedOnce
    <2>4. ~SaysExited(record'[t].announced)
      BY <1>0, <1>1, <2>2, <2>3, SaysExitedAppended
    <2>5. record'[t].descriptor.state # "exited"
      BY <1>1, <2>2, <2>3
    <2>6. NoDescriptor.state # "exited"
      BY DEF NoDescriptor
    <2>7. QueuedOnce(t)'
      <3>1. \A i \in 1..Len(Tail(q)) :
               Tail(q)[i] = ExitTransition => i = Len(Tail(q))
        BY <1>0, LastOfTail DEF RowOf, QueuedOnce
      <3>2. Exiting(Tail(q)) => Exiting(q)
        BY <1>0, ExitingQueues
      <3> HIDE DEF q
      <3> QED BY <1>0, <1>1, <2>1, <3>1, <3>2 DEF RowOf, QueuedOnce, q
    <2>8. ExitedOnce(t)'
      BY <1>1, <2>4, <2>5, <2>6 DEF ExitedOnce, AnnouncedExits, SaysExited
    <2>9. ClosedRow(t)'
      <3>1. \A i \in 1..Len(Tail(q)) : Tail(q)[i] = q[i + 1] /\ i + 1 \in 1..Len(q)
        BY <1>0
      <3> HIDE DEF q
      <3> QED BY <1>0, <1>1, <3>1 DEF RowOf, ClosedRow, q
    <2> QED BY <2>7, <2>8, <2>9 DEF RowOf
  <1>3. CASE FinalizationSettles(t)
    <2>1. /\ Head(q) = ExitTransition
          /\ session'[t].acceptingInput = session[t].acceptingInput
          /\ finalization'[t].stage \in {"resolved", "rejected"}
      BY <1>0, <1>3 DEF FinalizationSettles, TypeOK, Sessions, Finalizations
    <2>2. finalization[t].stage = "updating"
      BY <1>0, <2>1, ExitingQueues DEF RowOf, QueuedOnce
    <2>3. ~SaysExited(record[t].announced)
      BY <1>0 DEF RowOf, ExitedOnce
    <2>4. Tail(q) = <<>>
      BY <1>0, <2>1, LastOfTail DEF RowOf, QueuedOnce
    <2>5. \A i, j \in AnnouncedExits(t)' : i = j
      <3>1. \A i, j \in AnnouncedExits(t) : i = j
        BY <1>0 DEF RowOf, ExitedOnce
      <3>2. CASE record'[t].announced = record[t].announced
        BY <3>1, <3>2 DEF AnnouncedExits
      <3>3. CASE record'[t].announced = Append(record[t].announced, record[t].next)
        BY <1>0, <2>3, <3>1, <3>3, OnceAnnounced
      <3> QED BY <1>1, <3>2, <3>3
    <2>6. QueuedOnce(t)'
      BY <1>0, <1>1, <2>1, <2>2, <2>4 DEF RowOf, QueuedOnce, Exiting
    <2>7. ExitedOnce(t)'
      BY <1>1, <2>1, <2>4, <2>5 DEF ExitedOnce, NoDescriptor
    <2>8. ClosedRow(t)'
      BY <1>0, <1>1, <2>4 DEF RowOf, ClosedRow
    <2> QED BY <2>6, <2>7, <2>8 DEF RowOf
  <1> QED BY <1>2, <1>3

LEMMA CloseStartsRow ==
  ASSUME RowInv, NEW S \in SUBSET Terminals, NEW error, CloseStarts(S, error),
         NEW u \in Terminals, u \in S => creation[u] # "absent"
  PROVE  RowOf(u)'
  <1>0. /\ TypeOK /\ RowOf(u)
        /\ UNCHANGED <<creation, record>>
        /\ creation[u] = "absent" => finalization[u].stage = "none"
        /\ finalization[u].stage # "none" => session[u].acceptingInput = FALSE
    BY DEF RowInv, TypeInv, RowOf, QueuedOnce, CloseStarts
  <1>1. history'[u].updateError = history[u].updateError
    BY <1>0 DEF CloseStarts, TypeOK, Histories
  <1>2. CASE u \notin S
    <2>1. finalization'[u] = finalization[u] /\ session'[u] = session[u]
      BY <1>2 DEF CloseStarts
    <2> QED BY <1>0, <1>1, <2>1, StageMoves
  <1>3. CASE u \in S
    <2>1. /\ finalization'[u] = Started(u, "close", session[u].exitCode,
                                        output[u].queue, error[u])
          /\ session'[u] = Quiesced(u, session[u].exitCode)
      BY <1>3 DEF CloseStarts
    <2>2. /\ Quiesced(u, session[u].exitCode).acceptingInput = FALSE
          /\ \/ Started(u, "close", session[u].exitCode, output[u].queue,
                        error[u]).stage = finalization[u].stage
             \/ finalization[u].stage = "none"
      <3>1. ASSUME NEW exit, NEW queue, NEW e
            PROVE  /\ Quiesced(u, exit).acceptingInput = FALSE
                   /\ \/ Started(u, "close", exit, queue, e).stage
                            = finalization[u].stage
                      \/ finalization[u].stage = "none"
        BY <1>0, StartedStage
      <3> QED BY <3>1
    <2>3. /\ session'[u].acceptingInput = FALSE
          /\ \/ finalization'[u].stage = finalization[u].stage
             \/ finalization[u].stage = "none"
      BY <2>1, <2>2
    <2> QED BY <1>0, <1>1, <1>3, <2>3, StageMoves
  <1> QED BY <1>2, <1>3

LEMMA StageRow ==
  ASSUME RowInv, NEW t \in Terminals,
         \/ PtyData(t) \/ PtyExit(t) \/ EscalateToSigkill(t)
         \/ GiveUpTermination(t) \/ NoticeExit(t) \/ AppendSettles(t)
  PROVE  RowOf(t)'
  <1>0. /\ TypeOK /\ RowOf(t) /\ finalization[t] \in Finalizations
        /\ creation[t] = "absent" => finalization[t].stage = "none"
        /\ finalization[t].stage # "none" => session[t].acceptingInput = FALSE
    BY DEF RowInv, TypeInv, TypeOK, RowOf, QueuedOnce
  <1>1. UNCHANGED <<creation, record>>
    BY DEF PtyData, PtyExit, EscalateToSigkill, GiveUpTermination, NoticeExit,
           AppendSettles
  <1>2. history'[t].updateError = history[t].updateError
    <2>1. CASE PtyExit(t)
      BY <1>0, <2>1 DEF PtyExit, TypeOK, Histories
    <2>2. CASE ~PtyExit(t)
      BY <2>2 DEF PtyData, EscalateToSigkill, GiveUpTermination, NoticeExit,
                  AppendSettles
    <2> QED BY <2>1, <2>2
  <1>3. /\ creation[t] = "absent" => finalization'[t].stage = "none"
        /\ finalization'[t].stage # "none" => session'[t].acceptingInput = FALSE
        /\ finalization[t].stage \in {"updating", "resolved", "rejected"}
              => finalization'[t].stage = finalization[t].stage
    <2>1. CASE PtyData(t)
      BY <1>0, <2>1 DEF PtyData
    <2>2. CASE PtyExit(t)
      <3>1. CASE UNCHANGED <<session, finalization>>
        BY <1>0, <3>1
      <3>2. CASE session[t].subscribed /\ creation[t] = "created"
        <4>1. PICK code, error :
                 /\ session' = [session EXCEPT ![t] = Quiesced(t, code)]
                 /\ finalization' = [finalization EXCEPT ![t] =
                       Started(t, "native", code, output[t].queue, error)]
          BY <2>2, <3>2 DEF PtyExit
        <4>2. /\ session'[t] = Quiesced(t, code)
              /\ finalization'[t] =
                    Started(t, "native", code, output[t].queue, error)
          BY <1>0, <4>1 DEF TypeOK
        <4>3. ASSUME NEW exit, NEW queue, NEW e
              PROVE  /\ Quiesced(t, exit).acceptingInput = FALSE
                     /\ \/ Started(t, "native", exit, queue, e).stage
                              = finalization[t].stage
                        \/ finalization[t].stage = "none"
          BY <1>0, StartedStage
        <4>4. /\ Quiesced(t, code).acceptingInput = FALSE
              /\ \/ Started(t, "native", code, output[t].queue, error).stage
                       = finalization[t].stage
                 \/ finalization[t].stage = "none"
          BY <4>3
        <4>5. /\ session'[t].acceptingInput = FALSE
              /\ \/ finalization'[t].stage = finalization[t].stage
                 \/ finalization[t].stage = "none"
          BY <4>2, <4>4
        <4> QED BY <3>2, <4>5
      <3>3. CASE session[t].subscribed /\ creation[t] # "created"
        <4>1. PICK code :
                 /\ session' = [session EXCEPT ![t].exitCode = code]
                 /\ finalization' = finalization
          BY <2>2, <3>3 DEF PtyExit
        <4>2. session'[t].acceptingInput = session[t].acceptingInput
          BY <1>0, <4>1 DEF TypeOK, Sessions
        <4> QED BY <1>0, <4>1, <4>2
      <3> QED BY <2>2, <3>1, <3>2, <3>3 DEF PtyExit
    <2>3. CASE EscalateToSigkill(t)
      <3>1. PICK error : finalization' = [finalization EXCEPT
               ![t].stage = "sigkill", ![t].lifecycleError = error]
        BY <2>3 DEF EscalateToSigkill
      <3>2. finalization'[t].stage = "sigkill"
        BY <1>0, <3>1 DEF TypeOK, Finalizations
      <3>3. finalization[t].stage = "sighup" /\ session' = session
        BY <2>3 DEF EscalateToSigkill
      <3> QED BY <1>0, <3>2, <3>3
    <2>4. CASE GiveUpTermination(t)
      <3>1. finalization'[t].stage = "none" /\ finalization[t].stage = "sigkill"
        BY <1>0, <2>4 DEF GiveUpTermination, TypeOK, Finalizations
      <3> QED BY <3>1
    <2>5. CASE NoticeExit(t)
      <3>1. PICK awaited, error : finalization' = [finalization EXCEPT
               ![t].stage = "draining",
               ![t].awaited = awaited,
               ![t].lifecycleError = error]
        BY <2>5 DEF NoticeExit
      <3>2. finalization'[t].stage = "draining"
        BY <1>0, <3>1 DEF TypeOK, Finalizations
      <3>3. finalization[t].stage \in {"sighup", "sigkill"}
        BY <2>5 DEF NoticeExit
      <3>4. session' = [session EXCEPT ![t].subscribed = FALSE]
        BY <2>5 DEF NoticeExit
      <3>5. session'[t].acceptingInput = session[t].acceptingInput
        BY <1>0, <3>4 DEF TypeOK, Sessions
      <3> QED BY <1>0, <3>2, <3>3, <3>5
    <2>6. CASE AppendSettles(t)
      <3>1. PICK awaited :
               finalization' = [finalization EXCEPT ![t].awaited = awaited]
        BY <2>6 DEF AppendSettles
      <3>2. finalization'[t].stage = finalization[t].stage
        BY <1>0, <3>1 DEF TypeOK, Finalizations
      <3>3. session' = session
        BY <2>6 DEF AppendSettles
      <3> QED BY <1>0, <3>2, <3>3
    <2> QED BY <2>1, <2>2, <2>3, <2>4, <2>5, <2>6
  <1> QED BY <1>0, <1>1, <1>2, <1>3, StageMoves

LEMMA StepRowOf ==
  ASSUME RowInv, Next, NEW u \in Terminals
  PROVE  RowOf(u)'
  <1>0. TypeOK /\ RowOf(u)
    BY DEF RowInv, TypeInv, RowOf
  <1>1. ASSUME NEW t \in Terminals, StepOf(t) PROVE RowOf(u)'
    <2>1. CASE u = t
      BY <1>1, <2>1, CreationRow, QueueRow, UpdateRow, SettledRow, StageRow
         DEF StepOf
    <2>2. CASE u # t
      <3>1. /\ Same(u) /\ history'[u].updateError = history[u].updateError
        BY <1>0, <1>1, <2>2, OthersSame, OthersHistory
      <3>2. /\ creation[u] = "absent" => finalization[u].stage = "none"
            /\ finalization[u].stage # "none" => session[u].acceptingInput = FALSE
        BY <1>0 DEF RowOf, QueuedOnce
      <3> QED BY <1>0, <3>1, <3>2, StageMoves DEF Same
    <2> QED BY <2>1, <2>2
  <1>2. ASSUME NEW t \in Terminals, Close(t) PROVE RowOf(u)'
    <2>1. PICK error : CloseStarts({t}, [v \in Terminals |-> error])
      BY <1>2 DEF Close
    <2>2. creation[t] # "absent"
      BY <1>2 DEF Close, InMap
    <2> QED BY <2>1, <2>2, CloseStartsRow
  <1>3. CASE CloseAll
    <2> DEFINE open == {t \in Terminals : InMap(t)}
    <2>1. PICK error : CloseStarts(open, error)
      BY <1>3 DEF CloseAll
    <2>2. u \in open => creation[u] # "absent"
      BY DEF InMap
    <2>3. open \in SUBSET Terminals
      OBVIOUS
    <2> HIDE DEF open
    <2> QED BY <2>1, <2>2, <2>3, CloseStartsRow
  <1> QED BY <1>1, <1>2, <1>3 DEF Next, StepOf

\* However many closes, exits and retries meet, one exit is announced, and a
\* creation that failed leaves no row that says running, over any repository
\* (finalizationPromise, enqueueDescriptorTransition and rollbackCreation of
\* manager.ts).
THEOREM EndsOnce == Spec => []EndedOnce
  <1>1. Init => RowInv
    BY InitRowInv
  <1>2. RowInv /\ [Next]_vars => RowInv'
    <2> SUFFICES ASSUME RowInv, [Next]_vars
                 PROVE  RowInv'
      OBVIOUS
    <2>1. TypeInv'
      BY StepTypeOK, StepUpdateHasTransition DEF RowInv, TypeInv
    <2>2. CASE Next
      BY <2>1, <2>2, StepRowOf DEF RowInv, RowOf
    <2>3. CASE UNCHANGED vars
      BY <2>1, <2>3
         DEF vars, RowInv, QueuedOnce, ExitedOnce, ClosedRow, AnnouncedExits
    <2> QED BY <2>2, <2>3
  <1>3. RowInv => EndedOnce
    BY DEF RowInv, ExitedOnce, ClosedRow, EndedOnce, ExitAnnouncedOnce,
           RolledBackRow
  <1> QED
    BY <1>1, <1>2, <1>3, PTL DEF Spec

-----------------------------------------------------------------------------
(* Over the shipped repository *)


Contract == INSTANCE TerminalContract WITH
    shown <- [t \in Terminals |-> Shown(t)],
    log <- [t \in Terminals |-> output[t].published]

\* Nothing happens to a terminal before save() resolved: no macrotask fits
\* between the call and its continuation.
NotYet(t) ==
    creation[t] # "created" =>
        /\ output[t].emitted = 0
        /\ output[t].queue = <<>> /\ output[t].published = <<>>
        /\ record[t].announced = <<>> /\ record[t].queue = <<>>
        /\ record[t].next = NoDescriptor /\ record[t].resizes = 0
        /\ session[t].exitCode = Undefined
        /\ finalization[t].stage \in {"none", "sighup", "sigkill"}
        /\ creation[t] = "absent" => finalization[t].stage = "none"
        /\ creation[t] \in {"absent", "rolledBack"} =>
              session[t].subscribed = FALSE
        /\ creation[t] = "saving" => record[t].descriptor = FirstDescriptor

\* The subscribers were told the descriptor the session keeps.
Announces(t) ==
    creation[t] = "created" =>
        record[t].announced # <<>> /\ Shown(t) = record[t].descriptor

\* An update that is awaited is the transition at the head of the queue.
InFlight(t) ==
    record[t].next # NoDescriptor =>
        /\ record[t].queue # <<>>
        /\ Head(record[t].queue) = ExitTransition =>
              \E code \in NativeCodes \cup {0} :
                 record[t].next = Exited(record[t].descriptor, code)
        /\ Head(record[t].queue) # ExitTransition =>
              record[t].next =
                 [record[t].descriptor EXCEPT !.size = Head(record[t].queue)]

\* Resizes are queued in order, and the exit after them.
Ascending(queue, size, resizes) ==
    /\ size =< resizes
    /\ \A i \in 1..Len(queue) :
          queue[i] # ExitTransition => size < queue[i] /\ queue[i] =< resizes
    /\ \A i, j \in 1..Len(queue) :
          i < j => /\ queue[i] # ExitTransition
                   /\ queue[j] # ExitTransition => queue[i] < queue[j]

Queued(t) ==
    /\ Ascending(record[t].queue, record[t].descriptor.size, record[t].resizes)
    /\ Exiting(record[t].queue) => finalization[t].stage = "updating"
    /\ creation[t] # "absent" => record[t].descriptor.state # "none"
    /\ record[t].descriptor.state = "exited" =>
          /\ record[t].queue = <<>>
          /\ finalization[t].stage \in {"resolved", "rejected"}
    /\ finalization[t].stage # "none" => session[t].acceptingInput = FALSE

\* The exit code is one that the PTY reported.
Reported(t) == session[t].exitCode \in NativeCodes \cup {Undefined}

\* A finalization waits for all output, and there is no more of it.
Drains(t) ==
    /\ finalization[t].stage \in {"draining", "updating", "resolved", "rejected"}
          => session[t].subscribed = FALSE
    /\ finalization[t].stage = "draining" =>
          finalization[t].awaited = Len(output[t].queue)
    /\ finalization[t].stage \in {"updating", "resolved", "rejected"} =>
          output[t].queue = <<>>

\* Chunks are published in the order of their events.
Spoken(published, queue, emitted) ==
    /\ \A i \in 1..Len(published) : published[i] =< emitted
    /\ \A i \in 1..Len(queue) : queue[i] =< emitted
    /\ \A i \in 1..Len(published), j \in 1..Len(queue) :
          published[i] < queue[j]
    /\ \A i, j \in 1..Len(queue) : i < j => queue[i] < queue[j]

Speaks(t) ==
    /\ output[t].early = <<>>
    /\ Spoken(output[t].published, output[t].queue, output[t].emitted)

Contracted(t) ==
    /\ NotYet(t) /\ Announces(t) /\ InFlight(t) /\ Queued(t)
    /\ Reported(t) /\ Drains(t) /\ Speaks(t)

ContractInv == ExitInv /\ \A t \in Terminals : Contracted(t)

-----------------------------------------------------------------------------
LEMMA InitContracted == ASSUME Init PROVE ContractInv
  <1>1. ExitInv
    BY InitExitInv
  <1>2. ASSUME NEW t \in Terminals PROVE Contracted(t)
    <2>1. /\ creation[t] = "absent" /\ session[t] = NoSession
          /\ output[t] = NoOutput /\ record[t] = NoRecord
          /\ finalization[t] = NoFinalization
      BY DEF Init
    <2>2. NotYet(t) /\ Announces(t) /\ InFlight(t) /\ Reported(t) /\ Drains(t)
      BY <2>1 DEF NoSession, NoOutput, NoRecord, NoFinalization, NotYet,
                  Announces, InFlight, Reported, Drains
    <2>3. Queued(t)
      BY <2>1 DEF NoRecord, NoDescriptor, NoFinalization, Queued, Ascending,
                  Exiting
    <2>4. Speaks(t)
      BY <2>1 DEF NoOutput, Speaks, Spoken
    <2> QED BY <2>2, <2>3, <2>4 DEF Contracted
  <1> QED BY <1>1, <1>2 DEF ContractInv

LEMMA SameKeeps ==
  ASSUME NEW t \in Terminals, Contracted(t), Same(t)
  PROVE  Contracted(t)'
  <1>1. NotYet(t)' /\ Announces(t)' /\ InFlight(t)' /\ Reported(t)' /\ Drains(t)'
    BY DEF Contracted, Same, NotYet, Announces, InFlight, Reported, Drains, Shown
  <1>2. Queued(t)' /\ Speaks(t)'
    BY DEF Contracted, Same, Queued, Speaks
  <1> QED BY <1>1, <1>2 DEF Contracted

-----------------------------------------------------------------------------
(* Creating a terminal *)

LEMMA CreateKeeps ==
  ASSUME ContractInv, SqliteRepository = TRUE, NEW t \in Terminals,
         Create(t) \/ CreateWithoutListeners(t)
  PROVE  Contracted(t)'
  <1>1. /\ TypeOK /\ Contracted(t) /\ creation[t] = "absent"
        /\ process[t] = "none" /\ session[t].pty = FALSE
    BY DEF ContractInv, ExitInv, TypeInv, ExitKnown, TypeOK, Sessions, Create,
           CreateWithoutListeners
  <1>2. /\ UNCHANGED <<output, finalization>>
        /\ creation'[t] \in {"saving", "saveFailing", "rolledBack"}
        /\ record'[t].descriptor = FirstDescriptor
        /\ record'[t].announced = record[t].announced
        /\ record'[t].queue = record[t].queue
        /\ record'[t].next = record[t].next
        /\ record'[t].resizes = record[t].resizes
    <2>1. CASE Create(t)
      BY <1>1, <2>1 DEF Create, TypeOK, Records
    <2>2. CASE CreateWithoutListeners(t)
      BY <1>1, <2>2 DEF CreateWithoutListeners, TypeOK, Records
    <2> QED BY <2>1, <2>2
  <1>3. /\ session'[t].exitCode = Undefined
        /\ creation'[t] = "rolledBack" => session'[t].subscribed = FALSE
    <2>1. CASE Create(t)
      <3>1. session'[t].exitCode = Undefined
        BY <1>1, <2>1 DEF Create, TypeOK
      <3>2. creation'[t] # "rolledBack"
        BY <1>1, <2>1 DEF Create, TypeOK
      <3> QED BY <3>1, <3>2
    <2>2. CASE CreateWithoutListeners(t)
      <3>1. session[t].exitCode = Undefined
        BY <1>1 DEF Contracted, NotYet
      <3>2. session[t].subscribed = FALSE
        BY <1>1 DEF Contracted, NotYet
      <3> QED BY <2>2, <3>1, <3>2 DEF CreateWithoutListeners
    <2> QED BY <2>1, <2>2
  <1>4. /\ record[t].queue = <<>> /\ record[t].next = NoDescriptor
        /\ record[t].resizes = 0 /\ finalization[t].stage = "none"
    BY <1>1 DEF Contracted, NotYet
  <1>5. NotYet(t)' /\ Announces(t)' /\ InFlight(t)' /\ Reported(t)'
    BY <1>1, <1>2, <1>3, <1>4
       DEF Contracted, NotYet, Announces, InFlight, Reported
  <1>6. Queued(t)'
    BY <1>2, <1>4 DEF Queued, Ascending, Exiting, FirstDescriptor
  <1>7. Drains(t)' /\ Speaks(t)'
    BY <1>1, <1>2, <1>4 DEF Contracted, Drains, Speaks
  <1> QED BY <1>5, <1>6, <1>7 DEF Contracted

\* A terminal that is being created has neither spoken nor exited.
LEMMA CreateResumesKeeps ==
  ASSUME ContractInv, NEW t \in Terminals, CreateResumes(t)
  PROVE  Contracted(t)'
  <1>1. /\ TypeOK /\ Contracted(t) /\ creation[t] = "saving"
        /\ creation'[t] = "created"
    BY DEF ContractInv, ExitInv, TypeInv, TypeOK, CreateResumes
  <1>2. /\ session[t].exitCode = Undefined
        /\ output[t].queue = <<>> /\ output[t].early = <<>>
        /\ record[t].announced = <<>> /\ record[t].queue = <<>>
        /\ record[t].next = NoDescriptor /\ record[t].resizes = 0
        /\ record[t].descriptor = FirstDescriptor
        /\ finalization[t].stage \in {"none", "sighup", "sigkill"}
    BY <1>1 DEF Contracted, NotYet, Speaks
  <1>3. UNCHANGED <<session, finalization>>
    BY <1>2 DEF CreateResumes
  <1>4. /\ output'[t].queue = <<>> /\ output'[t].early = <<>>
        /\ output'[t].published = output[t].published
        /\ output'[t].emitted = output[t].emitted
    <2>1. output[t].queue \o output[t].early = <<>>
      BY <1>2
    <2> QED BY <1>1, <2>1 DEF CreateResumes, Flushed, TypeOK, Outputs
  <1>5. /\ record'[t].announced = Append(record[t].announced, FirstDescriptor)
        /\ record'[t].queue = <<>> /\ record'[t].next = NoDescriptor
        /\ record'[t].descriptor = FirstDescriptor /\ record'[t].resizes = 0
    BY <1>1, <1>2 DEF CreateResumes, TypeOK, Records
  <1>6. Announces(t)'
    BY <1>2, <1>5 DEF Announces, Shown
  <1>7. NotYet(t)' /\ InFlight(t)' /\ Reported(t)' /\ Drains(t)'
    BY <1>1, <1>2, <1>3, <1>4, <1>5
       DEF Contracted, NotYet, InFlight, Reported, Drains
  <1>8. Queued(t)'
    BY <1>1, <1>3, <1>5
       DEF Contracted, Queued, Ascending, Exiting, FirstDescriptor
  <1>9. Speaks(t)'
    BY <1>1, <1>2, <1>4 DEF Contracted, Speaks
  <1> QED BY <1>3, <1>5, <1>6, <1>7, <1>8, <1>9 DEF Contracted

LEMMA RollbackKeeps ==
  ASSUME ContractInv, NEW t \in Terminals, RollbackCreation(t)
  PROVE  Contracted(t)'
  <1>1. /\ TypeOK /\ Contracted(t) /\ creation[t] = "saveFailing"
        /\ creation'[t] = "rolledBack" /\ finalization' = finalization
    BY DEF ContractInv, ExitInv, TypeInv, TypeOK, RollbackCreation
  <1>2. /\ output'[t].queue = output[t].queue /\ output'[t].early = <<>>
        /\ output'[t].published = output[t].published
        /\ output'[t].emitted = output[t].emitted
    BY <1>1 DEF RollbackCreation, TypeOK, Outputs
  <1>3. /\ session'[t].subscribed = FALSE /\ session'[t].acceptingInput = FALSE
        /\ session'[t].exitCode = session[t].exitCode
    BY <1>1 DEF RollbackCreation, TypeOK, Sessions
  <1>4. /\ record'[t].announced = record[t].announced
        /\ record'[t].queue = record[t].queue /\ record'[t].next = record[t].next
        /\ record'[t].descriptor = record[t].descriptor
        /\ record'[t].resizes = record[t].resizes
    <2>1. \/ record' = record
          \/ \E row : record' = [record EXCEPT ![t].row = row]
      BY DEF RollbackCreation
    <2> QED BY <1>1, <2>1 DEF TypeOK, Records
  <1>5. NotYet(t)' /\ Announces(t)' /\ InFlight(t)' /\ Reported(t)'
    BY <1>1, <1>2, <1>3, <1>4
       DEF Contracted, NotYet, Announces, InFlight, Reported
  <1>6. Queued(t)'
    BY <1>1, <1>3, <1>4 DEF Contracted, Queued
  <1>7. Drains(t)' /\ Speaks(t)'
    BY <1>1, <1>2, <1>3 DEF Contracted, Drains, Speaks
  <1> QED BY <1>5, <1>6, <1>7 DEF Contracted

-----------------------------------------------------------------------------
(* Starting a finalization *)

\* What startFinalization makes of the finalization and of the session: f and s.
Begun(t, f, s, exit, queue) ==
    /\ s.acceptingInput = FALSE /\ s.exitCode = exit
    /\ finalization[t].stage # "none" =>
          f = finalization[t] /\ s.subscribed = session[t].subscribed
    /\ finalization[t].stage = "none" =>
          \/ f.stage = "sighup"
          \/ /\ f.stage = "draining" /\ f.awaited = Len(queue)
             /\ exit # Undefined /\ s.subscribed = FALSE

LEMMA StartedIs ==
  ASSUME TypeOK, NEW t \in Terminals, FinalizedAfterExit(t),
         NEW kind \in {"close", "native"}, NEW exit \in ExitCodes,
         NEW queue, NEW error,
         kind = "native" => exit # Undefined,
         ExitResolved(t) => exit # Undefined
  PROVE  Begun(t, Started(t, kind, exit, queue, error), Quiesced(t, exit),
               exit, queue)
  <1>1. /\ session[t] \in Sessions /\ finalization[t] \in Finalizations
    BY DEF TypeOK
  <1>2. /\ Quiesced(t, exit).acceptingInput = FALSE
        /\ Quiesced(t, exit).exitCode = exit
        /\ finalization[t].stage # "none" =>
              Quiesced(t, exit).subscribed = session[t].subscribed
        /\ finalization[t].stage = "none" /\ exit # Undefined =>
              Quiesced(t, exit).subscribed = FALSE
    BY <1>1 DEF Quiesced, Sessions
  <1>3. finalization[t].stage # "none" =>
           Started(t, kind, exit, queue, error) = finalization[t]
    BY DEF Started
  <1>4. ASSUME finalization[t].stage = "none"
        PROVE  \/ Started(t, kind, exit, queue, error).stage = "sighup"
               \/ /\ Started(t, kind, exit, queue, error).stage = "draining"
                  /\ Started(t, kind, exit, queue, error).awaited = Len(queue)
                  /\ exit # Undefined
    <2>1. finalization[t].cause = "native" => exit # Undefined
      BY DEF FinalizedAfterExit
    <2>2. FirstCause(finalization[t], kind) \in {"close", "native"}
      BY <1>1 DEF FirstCause, Finalizations
    <2>3. FirstCause(finalization[t], kind) = "native" => exit # Undefined
      BY <2>1 DEF FirstCause
    <2>4. CASE FirstCause(finalization[t], kind) = "close" /\ exit = Undefined
      BY <1>4, <2>4 DEF Started
    <2>5. CASE ~(FirstCause(finalization[t], kind) = "close" /\ exit = Undefined)
      BY <1>4, <2>2, <2>3, <2>5 DEF Started
    <2> QED BY <2>4, <2>5
  <1> QED BY <1>2, <1>3, <1>4 DEF Begun

\* A terminal whose finalization is started, and nothing else.
LEMMA StartKeeps ==
  ASSUME ContractInv, NEW t \in Terminals,
         NEW kind \in {"close", "native"}, NEW exit \in ExitCodes, NEW error,
         kind = "native" => exit # Undefined,
         ExitResolved(t) => exit # Undefined,
         exit \in NativeCodes \cup {Undefined},
         creation[t] # "created" => exit = Undefined,
         creation[t] # "absent",
         finalization'[t] = Started(t, kind, exit, output[t].queue, error),
         session'[t] = Quiesced(t, exit),
         creation'[t] = creation[t], output'[t] = output[t],
         record'[t] = record[t]
  PROVE  Contracted(t)'
  <1>1. /\ TypeOK /\ Contracted(t) /\ FinalizedAfterExit(t)
    BY DEF ContractInv, ExitInv, TypeInv
  <1>2. /\ session'[t].acceptingInput = FALSE /\ session'[t].exitCode = exit
        /\ finalization[t].stage # "none" =>
              /\ finalization'[t] = finalization[t]
              /\ session'[t].subscribed = session[t].subscribed
        /\ finalization[t].stage = "none" =>
              \/ finalization'[t].stage = "sighup"
              \/ /\ finalization'[t].stage = "draining"
                 /\ finalization'[t].awaited = Len(output[t].queue)
                 /\ exit # Undefined /\ session'[t].subscribed = FALSE
    <2>1. Begun(t, finalization'[t], session'[t], exit, output[t].queue)
      <3>1. Begun(t, Started(t, kind, exit, output[t].queue, error),
                  Quiesced(t, exit), exit, output[t].queue)
        BY <1>1, StartedIs
      <3> QED BY <3>1
    <2> QED BY <2>1 DEF Begun
  <1>3. creation[t] = "rolledBack" => session'[t].subscribed = FALSE
    <2>1. session[t].subscribed = FALSE \/ creation[t] # "rolledBack"
      BY <1>1 DEF Contracted, NotYet
    <2>2. Quiesced(t, exit).subscribed \in {FALSE, session[t].subscribed}
      BY <1>1 DEF Quiesced, TypeOK, Sessions
    <2> QED BY <2>1, <2>2
  <1>4. NotYet(t)'
    BY <1>1, <1>2, <1>3 DEF Contracted, NotYet
  <1>5. Announces(t)' /\ InFlight(t)' /\ Reported(t)' /\ Speaks(t)'
    BY <1>1, <1>2 DEF Contracted, Announces, InFlight, Reported, Speaks, Shown
  <1>6. Queued(t)'
    BY <1>1, <1>2 DEF Contracted, Queued
  <1>7. Drains(t)'
    BY <1>1, <1>2 DEF Contracted, Drains
  <1> QED BY <1>4, <1>5, <1>6, <1>7 DEF Contracted

LEMMA CloseStartsKeeps ==
  ASSUME ContractInv, NEW S \in SUBSET Terminals, NEW error,
         CloseStarts(S, error), NEW u \in Terminals,
         u \in S => creation[u] # "absent"
  PROVE  Contracted(u)'
  <1>1. /\ TypeOK /\ Contracted(u)
        /\ creation' = creation /\ output' = output /\ record' = record
    BY DEF ContractInv, ExitInv, TypeInv, CloseStarts
  <1>2. CASE u \notin S
    <2>1. Same(u)
      BY <1>1, <1>2 DEF CloseStarts, Same
    <2> QED BY <1>1, <2>1, SameKeeps
  <1>3. CASE u \in S
    <2>1. /\ finalization'[u] = Started(u, "close", session[u].exitCode,
                                        output[u].queue, error[u])
          /\ session'[u] = Quiesced(u, session[u].exitCode)
      BY <1>3 DEF CloseStarts
    <2>2. /\ session[u].exitCode \in ExitCodes
          /\ session[u].exitCode \in NativeCodes \cup {Undefined}
          /\ creation[u] # "created" => session[u].exitCode = Undefined
      BY <1>1 DEF TypeOK, Sessions, Contracted, Reported, NotYet
    <2> QED BY <1>1, <1>3, <2>1, <2>2, StartKeeps DEF ExitResolved
  <1> QED BY <1>2, <1>3

\* Nobody listens, or the terminal was created: no macrotask comes before.
LEMMA HeardIsCreated ==
  ASSUME ContractInv, SqliteRepository = TRUE, NEW t \in Terminals,
         MicrotasksRun, session[t].subscribed = TRUE
  PROVE  creation[t] = "created"
  <1>1. creation[t] \in Creations /\ Contracted(t)
    BY DEF ContractInv, ExitInv, TypeInv, TypeOK
  <1>2. creation[t] \notin {"saving", "saveFailing"}
    BY DEF MicrotasksRun
  <1> QED BY <1>1, <1>2 DEF Contracted, NotYet, Creations

LEMMA PtyExitKeeps ==
  ASSUME ContractInv, SqliteRepository = TRUE, NEW t \in Terminals, PtyExit(t)
  PROVE  Contracted(t)'
  <1>1. /\ TypeOK /\ Contracted(t) /\ MicrotasksRun
        /\ UNCHANGED <<creation, output, record>>
    BY DEF ContractInv, ExitInv, TypeInv, PtyExit
  <1>2. CASE ~session[t].subscribed
    <2>1. Same(t)
      BY <1>1, <1>2 DEF PtyExit, Same
    <2> QED BY <1>1, <2>1, SameKeeps
  <1>3. CASE session[t].subscribed
    <2>1. session[t].subscribed = TRUE
      BY <1>1, <1>3 DEF TypeOK, Sessions
    <2>2. creation[t] = "created"
      BY <1>1, <2>1, HeardIsCreated
    <2>3. PICK code \in NativeCodes, error \in Thrown("pty") :
             /\ session' = [session EXCEPT ![t] = Quiesced(t, code)]
             /\ finalization' = [finalization EXCEPT ![t] =
                   Started(t, "native", code, output[t].queue, error)]
      BY <1>3, <2>2 DEF PtyExit
    <2>4. /\ session'[t] = Quiesced(t, code)
          /\ finalization'[t] =
                Started(t, "native", code, output[t].queue, error)
      BY <1>1, <2>3 DEF TypeOK
    <2>5. code # Undefined /\ code \in ExitCodes
      BY CodesResolve, Constants
    <2> QED BY <1>1, <2>2, <2>4, <2>5, StartKeeps
  <1> QED BY <1>2, <1>3

-----------------------------------------------------------------------------
(* Running a finalization *)

LEMMA TimesOutKeeps ==
  ASSUME ContractInv, NEW t \in Terminals,
         EscalateToSigkill(t) \/ GiveUpTermination(t)
  PROVE  Contracted(t)'
  <1>1. /\ TypeOK /\ Contracted(t)
        /\ UNCHANGED <<creation, session, output, record>>
    BY DEF ContractInv, ExitInv, TypeInv, EscalateToSigkill, GiveUpTermination
  <1>2. /\ finalization[t].stage \in {"sighup", "sigkill"}
        /\ finalization'[t].stage \in {"none", "sigkill"}
        /\ creation[t] = "absent" => finalization[t].stage = "none"
    <2>1. finalization[t] \in Finalizations
      BY <1>1 DEF TypeOK
    <2>2. CASE EscalateToSigkill(t)
      <3>1. PICK error : finalization' = [finalization EXCEPT
               ![t].stage = "sigkill", ![t].lifecycleError = Coalesce(@, error)]
        BY <2>2 DEF EscalateToSigkill
      <3>2. finalization'[t].stage = "sigkill"
        BY <1>1, <2>1, <3>1 DEF TypeOK, Finalizations
      <3>3. finalization[t].stage = "sighup"
        BY <2>2 DEF EscalateToSigkill
      <3> QED BY <1>1, <3>2, <3>3 DEF Contracted, NotYet
    <2>3. CASE GiveUpTermination(t)
      BY <1>1, <2>1, <2>3
         DEF GiveUpTermination, TypeOK, Finalizations, Contracted, NotYet
    <2> QED BY <2>2, <2>3
  <1>3. NotYet(t)'
    BY <1>1, <1>2 DEF Contracted, NotYet
  <1>4. Announces(t)' /\ InFlight(t)' /\ Reported(t)' /\ Speaks(t)'
    BY <1>1 DEF Contracted, Announces, InFlight, Reported, Speaks, Shown
  <1>5. Queued(t)'
    BY <1>1, <1>2 DEF Contracted, Queued
  <1>6. Drains(t)'
    BY <1>1, <1>2 DEF Drains
  <1> QED BY <1>3, <1>4, <1>5, <1>6 DEF Contracted

LEMMA NoticeExitKeeps ==
  ASSUME ContractInv, NEW t \in Terminals, NoticeExit(t)
  PROVE  Contracted(t)'
  <1>1. /\ TypeOK /\ Contracted(t)
        /\ UNCHANGED <<creation, output, record>>
        /\ finalization[t].stage \in {"sighup", "sigkill"}
        /\ session[t].exitCode # Undefined
    BY DEF ContractInv, ExitInv, TypeInv, NoticeExit, ExitResolved
  <1>2. creation[t] = "created"
    BY <1>1 DEF Contracted, NotYet
  <1>3. /\ finalization'[t].stage = "draining"
        /\ finalization'[t].awaited = Len(output[t].queue)
    <2>1. PICK error : finalization' = [finalization EXCEPT
             ![t].stage = "draining", ![t].awaited = Len(output[t].queue),
             ![t].lifecycleError = Coalesce(@, error)]
      BY DEF NoticeExit
    <2> QED BY <1>1, <2>1 DEF TypeOK, Finalizations
  <1>4. /\ session'[t].subscribed = FALSE
        /\ session'[t].exitCode = session[t].exitCode
        /\ session'[t].acceptingInput = session[t].acceptingInput
    BY <1>1 DEF NoticeExit, TypeOK, Sessions
  <1>5. NotYet(t)'
    BY <1>1, <1>2 DEF NotYet
  <1>6. Announces(t)' /\ InFlight(t)' /\ Reported(t)' /\ Speaks(t)'
    BY <1>1, <1>4 DEF Contracted, Announces, InFlight, Reported, Speaks, Shown
  <1>7. Queued(t)'
    BY <1>1, <1>3, <1>4 DEF Contracted, Queued
  <1>8. Drains(t)'
    BY <1>1, <1>3, <1>4 DEF Drains
  <1> QED BY <1>5, <1>6, <1>7, <1>8 DEF Contracted

\* The head of a queue that is not empty stays when something is appended.
LEMMA HeadStays ==
  ASSUME NEW S, NEW q \in Seq(S), q # <<>>, NEW x \in S
  PROVE  Append(q, x) # <<>> /\ Head(Append(q, x)) = Head(q)
  OBVIOUS

\* A transition is queued: a resize, larger than those before, or the exit.
LEMMA QueuesKeep ==
  ASSUME NEW t \in Terminals, record[t] \in Records, Contracted(t),
         creation[t] = "created", record'[t] \in Records, NEW x \in Sizes,
         record'[t].queue = Append(record[t].queue, x),
         record'[t].descriptor = record[t].descriptor,
         record'[t].next = record[t].next,
         record'[t].announced = record[t].announced,
         UNCHANGED <<creation, output>>, session'[t] = session[t]
  PROVE  NotYet(t)' /\ Announces(t)' /\ InFlight(t)' /\ Reported(t)' /\ Speaks(t)'
  <1>1. NotYet(t)' /\ Announces(t)' /\ Reported(t)' /\ Speaks(t)'
    BY DEF Contracted, NotYet, Announces, Reported, Speaks, Shown
  <1>2. record[t].next # NoDescriptor =>
           /\ record[t].queue # <<>> /\ record'[t].queue # <<>>
           /\ Head(record'[t].queue) = Head(record[t].queue)
    <2>1. record[t].queue \in Seq(Sizes)
      BY DEF Records
    <2> QED BY <2>1, HeadStays DEF Contracted, InFlight
  <1>3. InFlight(t)'
    BY <1>2 DEF Contracted, InFlight
  <1> QED BY <1>1, <1>3

LEMMA OutputDrainedKeeps ==
  ASSUME ContractInv, NEW t \in Terminals, OutputDrained(t)
  PROVE  Contracted(t)'
  <1>1. /\ TypeOK /\ Contracted(t)
        /\ UNCHANGED <<creation, session, output>>
        /\ finalization[t].stage = "draining" /\ finalization[t].awaited = 0
    BY DEF ContractInv, ExitInv, TypeInv, OutputDrained
  <1>2. creation[t] = "created" /\ output[t].queue = <<>>
    <2>1. output[t].queue \in Seq(Chunks) /\ Len(output[t].queue) = 0
      BY <1>1 DEF TypeOK, Outputs, Contracted, Drains
    <2> QED BY <1>1, <2>1 DEF Contracted, NotYet
  <1>3. finalization'[t].stage = "updating"
    BY <1>1 DEF OutputDrained, TypeOK, Finalizations
  <1>4. /\ record[t] \in Records /\ record'[t] \in Records
        /\ record'[t].queue = Append(record[t].queue, ExitTransition)
        /\ record'[t].descriptor = record[t].descriptor
        /\ record'[t].next = record[t].next
        /\ record'[t].announced = record[t].announced
        /\ record'[t].resizes = record[t].resizes
    <2>1. record[t] \in Records /\ record[t].queue \in Seq(Sizes)
      BY <1>1 DEF TypeOK, Records
    <2>2. Append(record[t].queue, ExitTransition) \in Seq(Sizes)
      BY <2>1, Constants
    <2>3. record'[t] = [record[t] EXCEPT
             !.queue = Append(record[t].queue, ExitTransition)]
      BY <1>1 DEF OutputDrained, TypeOK
    <2> QED BY <2>1, <2>2, <2>3 DEF Records
  <1>5. NotYet(t)' /\ Announces(t)' /\ InFlight(t)' /\ Reported(t)' /\ Speaks(t)'
    BY <1>1, <1>2, <1>4, Constants, QueuesKeep
  <1>6. Queued(t)'
    <2> DEFINE q == record[t].queue
               r == record'[t].queue
               size == record[t].descriptor.size
               n == record[t].resizes
    <2>1. /\ q \in Seq(Sizes) /\ r = Append(q, ExitTransition)
          /\ Ascending(q, size, n) /\ ~Exiting(q)
          /\ record[t].descriptor.state # "exited"
          /\ record[t].descriptor.state # "none"
          /\ session[t].acceptingInput = FALSE
      BY <1>1, <1>2, <1>4 DEF Contracted, Queued, Records
    <2> HIDE DEF q, r, size, n
    <2>2. Ascending(r, size, n)
      <3>1. /\ Len(r) = Len(q) + 1 /\ r[Len(r)] = ExitTransition
            /\ Len(q) \in Nat
            /\ \A i \in 1..Len(q) : r[i] = q[i] /\ q[i] # ExitTransition
        BY <2>1, Constants DEF Exiting
      <3> QED BY <2>1, <3>1 DEF Ascending
    <2> QED BY <1>1, <1>3, <1>4, <2>1, <2>2 DEF Queued, size, n, r
  <1>7. Drains(t)'
    BY <1>1, <1>2, <1>3 DEF Contracted, Drains
  <1> QED BY <1>5, <1>6, <1>7 DEF Contracted

LEMMA ResizeKeeps ==
  ASSUME ContractInv, SqliteRepository = TRUE, NEW t \in Terminals, Resize(t)
  PROVE  Contracted(t)'
  <1>1. /\ TypeOK /\ Contracted(t) /\ creation[t] = "created"
        /\ UNCHANGED <<creation, session, output, finalization>>
        /\ session[t].acceptingInput = TRUE
    BY DEF ContractInv, ExitInv, TypeInv, Resize, Known, InMap, MicrotasksRun,
           TypeOK, Sessions
  <1>2. /\ record[t].resizes + 1 \in Sizes
        /\ record[t].resizes + 1 # ExitTransition /\ record[t].resizes \in Nat
    BY <1>1, TerminalManagerAssumption
       DEF Resize, TypeOK, Records, Sizes, ExitTransition
  <1>3. /\ record[t] \in Records /\ record'[t] \in Records
        /\ record'[t].queue = Append(record[t].queue, record[t].resizes + 1)
        /\ record'[t].descriptor = record[t].descriptor
        /\ record'[t].next = record[t].next
        /\ record'[t].announced = record[t].announced
        /\ record'[t].resizes = record[t].resizes + 1
    <2>1. record[t] \in Records /\ record[t].queue \in Seq(Sizes)
      BY <1>1 DEF TypeOK, Records
    <2>2. Append(record[t].queue, record[t].resizes + 1) \in Seq(Sizes)
      BY <1>2, <2>1
    <2>3. record'[t] = [record[t] EXCEPT
             !.resizes = record[t].resizes + 1,
             !.queue = Append(record[t].queue, record[t].resizes + 1)]
      BY <1>1 DEF Resize, TypeOK
    <2> QED BY <1>2, <2>1, <2>2, <2>3 DEF Records
  <1>4. NotYet(t)' /\ Announces(t)' /\ InFlight(t)' /\ Reported(t)' /\ Speaks(t)'
    BY <1>1, <1>2, <1>3, QueuesKeep
  <1>5. Queued(t)'
    <2> DEFINE q == record[t].queue
               r == record'[t].queue
               size == record[t].descriptor.size
               n == record[t].resizes
    <2>1. finalization[t].stage = "none"
      BY <1>1 DEF Contracted, Queued
    <2>2. /\ q \in Seq(Sizes) /\ r = Append(q, n + 1) /\ n \in Nat
          /\ Ascending(q, size, n) /\ ~Exiting(q) /\ n + 1 # ExitTransition
          /\ record[t].descriptor.state # "exited"
          /\ record[t].descriptor.state # "none" /\ size \in Int
      BY <1>1, <1>2, <1>3, <2>1
         DEF Contracted, Queued, Records, Descriptors, Sizes
    <2> HIDE DEF q, r, size, n
    <2>3. /\ Len(r) = Len(q) + 1 /\ r[Len(r)] = n + 1 /\ Len(q) \in Nat
          /\ \A i \in 1..Len(q) : r[i] = q[i] /\ q[i] # ExitTransition /\ q[i] \in Int
          /\ Len(r) \in Nat /\ DOMAIN r = 1..Len(r)
      <3>1. \A i \in 1..Len(q) : q[i] \in Sizes
        BY <2>2
      <3> QED BY <1>2, <2>2, <3>1 DEF Exiting, Sizes, n
    <2>4. Ascending(r, size, n + 1)
      BY <2>2, <2>3 DEF Ascending
    <2>5. ~Exiting(r)
      <3> SUFFICES ASSUME NEW i \in 1..Len(r)
                   PROVE  r[i] # ExitTransition
        BY <2>3 DEF Exiting
      <3>1. i \in 1..Len(q) \/ i = Len(r)
        BY <2>3
      <3> QED BY <2>2, <2>3, <3>1
    <2> QED BY <1>1, <1>3, <2>1, <2>2, <2>4, <2>5 DEF Queued, size, n, r
  <1>6. Drains(t)'
    BY <1>1 DEF Contracted, Drains
  <1> QED BY <1>4, <1>5, <1>6 DEF Contracted

-----------------------------------------------------------------------------
(* Output *)

LEMMA PtyDataKeeps ==
  ASSUME ContractInv, SqliteRepository = TRUE, NEW t \in Terminals, PtyData(t)
  PROVE  Contracted(t)'
  <1>1. /\ TypeOK /\ Contracted(t) /\ MicrotasksRun
        /\ UNCHANGED <<creation, session, finalization, record>>
        /\ session[t].subscribed = TRUE
    BY DEF ContractInv, ExitInv, TypeInv, PtyData, TypeOK, Sessions
  <1>2. creation[t] = "created"
    BY <1>1, HeardIsCreated
  <1> DEFINE p == output[t].published
             q == output[t].queue
             r == output'[t].queue
             n == output[t].emitted
  <1>3. /\ p \in Seq(Chunks) /\ q \in Seq(Chunks) /\ n \in Nat
        /\ n + 1 \in Chunks /\ r = Append(q, n + 1)
        /\ output'[t].emitted = n + 1 /\ output'[t].published = p
        /\ output'[t].early = output[t].early
    <2>1. output[t] \in Outputs
      BY <1>1 DEF TypeOK
    <2>2. n \in Nat /\ n + 1 \in Chunks
      BY <2>1, TerminalManagerAssumption DEF PtyData, Outputs, Chunks
    <2>3. output'[t] = [output[t] EXCEPT
             !.emitted = n + 1, !.queue = Append(q, n + 1)]
      BY <1>1, <1>2, <2>1 DEF PtyData, TypeOK, Outputs
    <2> QED BY <2>1, <2>2, <2>3 DEF Outputs
  <1>4. finalization[t].stage \notin {"draining", "updating", "resolved", "rejected"}
    BY <1>1 DEF Contracted, Drains
  <1>5. NotYet(t)' /\ Announces(t)' /\ InFlight(t)' /\ Reported(t)' /\ Queued(t)'
    BY <1>1, <1>2
       DEF Contracted, NotYet, Announces, InFlight, Reported, Queued, Shown
  <1>6. Drains(t)'
    BY <1>1, <1>4 DEF Drains
  <1>7. Spoken(p, q, n) /\ output[t].early = <<>>
    BY <1>1 DEF Contracted, Speaks
  <1>8. Spoken(p, r, n + 1)
    <2> HIDE DEF p, q, r, n
    <2>1. /\ Len(r) = Len(q) + 1 /\ r[Len(r)] = n + 1
          /\ Len(q) \in Nat /\ Len(p) \in Nat
          /\ \A i \in 1..Len(q) : r[i] = q[i] /\ q[i] \in Int
          /\ \A i \in 1..Len(p) : p[i] \in Int
      <3>1. \A i \in 1..Len(q) : q[i] \in Chunks
        BY <1>3
      <3>2. \A i \in 1..Len(p) : p[i] \in Chunks
        BY <1>3
      <3> QED BY <1>3, <3>1, <3>2 DEF Chunks
    <2>2. \A i \in 1..Len(r) : (i \in 1..Len(q) /\ r[i] = q[i]) \/ i = Len(r)
      BY <2>1
    <2>3. \A i \in 1..Len(p) : p[i] =< n + 1 /\ p[i] < n + 1
      BY <1>3, <1>7, <2>1 DEF Spoken
    <2>4. \A i \in 1..Len(q) : q[i] =< n + 1 /\ q[i] < n + 1
      BY <1>3, <1>7, <2>1 DEF Spoken
    <2>5. \A i \in 1..Len(r) : r[i] =< n + 1
      BY <1>3, <2>1, <2>2, <2>4
    <2>6. \A i \in 1..Len(p), j \in 1..Len(r) : p[i] < r[j]
      BY <1>7, <2>1, <2>2, <2>3 DEF Spoken
    <2>7. \A i, j \in 1..Len(r) : i < j => r[i] < r[j]
      <3> SUFFICES ASSUME NEW i \in 1..Len(r), NEW j \in 1..Len(r), i < j
                   PROVE  r[i] < r[j]
        OBVIOUS
      <3>1. i \in 1..Len(q) /\ r[i] = q[i]
        BY <2>1, <2>2
      <3> QED BY <1>7, <2>1, <2>2, <2>4, <3>1 DEF Spoken
    <2> QED BY <2>3, <2>5, <2>6, <2>7 DEF Spoken
  <1>9. Speaks(t)'
    BY <1>3, <1>7, <1>8 DEF Speaks
  <1> QED BY <1>5, <1>6, <1>9 DEF Contracted

\* What is left of a queue when its head is taken.
LEMMA TailOf ==
  ASSUME NEW S, NEW q \in Seq(S), q # <<>>
  PROVE  /\ Len(q) \in Nat /\ Len(Tail(q)) \in Nat /\ Len(q) = Len(Tail(q)) + 1
         /\ Head(q) = q[1] /\ q[1] \in S
         /\ \A i \in 1..Len(Tail(q)) : Tail(q)[i] = q[i + 1] /\ i + 1 \in 1..Len(q)
  OBVIOUS

\* The chunk at the head follows what was published, and what is queued it.
LEMMA SpokenNext ==
  ASSUME NEW p \in Seq(Chunks), NEW q \in Seq(Chunks), NEW n \in Nat,
         Spoken(p, q, n), q # <<>>
  PROVE  /\ \A i \in 1..Len(p) : p[i] < Head(q)
         /\ Spoken(p, Tail(q), n) /\ Spoken(Append(p, Head(q)), Tail(q), n)
  <1> DEFINE r == Tail(q)
             s == Append(p, Head(q))
  <1>1. /\ Len(q) \in Nat /\ Len(r) \in Nat /\ Len(q) = Len(r) + 1
        /\ Head(q) = q[1] /\ q[1] \in Chunks
        /\ \A i \in 1..Len(r) : r[i] = q[i + 1] /\ i + 1 \in 1..Len(q)
    BY TailOf
  <1>2. /\ Len(p) \in Nat /\ Len(s) = Len(p) + 1 /\ s[Len(s)] = q[1]
        /\ \A i \in 1..Len(p) : s[i] = p[i]
    BY <1>1
  <1> HIDE DEF r, s
  <1>3. 1 \in 1..Len(q)
    BY <1>1
  <1>4. \A i \in 1..Len(p) : p[i] < q[1]
    BY <1>3 DEF Spoken
  <1>5. \A i \in 1..Len(r) : q[1] < r[i] /\ r[i] =< n
    BY <1>1, <1>3 DEF Spoken
  <1>6. \A i, j \in 1..Len(r) : i < j => r[i] < r[j]
    <2> SUFFICES ASSUME NEW i \in 1..Len(r), NEW j \in 1..Len(r), i < j
                 PROVE  r[i] < r[j]
      OBVIOUS
    <2>1. /\ i + 1 \in 1..Len(q) /\ j + 1 \in 1..Len(q)
          /\ r[i] = q[i + 1] /\ r[j] = q[j + 1]
      BY <1>1
    <2>2. i + 1 < j + 1
      BY <1>1
    <2> QED BY <2>1, <2>2 DEF Spoken
  <1>7. \A i \in 1..Len(p) : p[i] =< n /\ \A j \in 1..Len(r) : p[i] < r[j]
    BY <1>1 DEF Spoken
  <1>8. Spoken(p, r, n)
    BY <1>5, <1>6, <1>7 DEF Spoken
  <1>9. q[1] =< n
    BY <1>3 DEF Spoken
  <1>10. \A i \in 1..Len(s) : (i \in 1..Len(p) /\ s[i] = p[i]) \/ s[i] = q[1]
    BY <1>2
  <1>11. Spoken(s, r, n)
    BY <1>5, <1>6, <1>7, <1>9, <1>10 DEF Spoken
  <1> QED BY <1>1, <1>4, <1>8, <1>11 DEF r, s

LEMMA AppendSettlesKeeps ==
  ASSUME ContractInv, NEW t \in Terminals, AppendSettles(t)
  PROVE  Contracted(t)'
  <1>1. /\ TypeOK /\ Contracted(t) /\ output[t].queue # <<>>
        /\ UNCHANGED <<creation, session, record>>
    BY DEF ContractInv, ExitInv, TypeInv, AppendSettles
  <1>2. creation[t] = "created"
    BY <1>1 DEF Contracted, NotYet
  <1> DEFINE p == output[t].published
             q == output[t].queue
             n == output[t].emitted
  <1>3. /\ p \in Seq(Chunks) /\ q \in Seq(Chunks) /\ n \in Nat
        /\ output'[t].emitted = n /\ output'[t].early = output[t].early
        /\ output'[t].queue = Tail(q)
        /\ output'[t].published \in {p, Append(p, Head(q))}
    <2>1. output[t] \in Outputs
      BY <1>1 DEF TypeOK
    <2>2. PICK error : output' = [output EXCEPT
             ![t].queue = Tail(@),
             ![t].outputError = Coalesce(@, error),
             ![t].published = IF error = "error" THEN @
                              ELSE Append(@, Head(output[t].queue))]
      BY DEF AppendSettles
    <2> QED BY <1>1, <2>1, <2>2, TerminalManagerAssumption DEF TypeOK, Outputs
  <1>4. /\ finalization'[t].stage = finalization[t].stage
        /\ finalization'[t].awaited = OneFewerAwaited(finalization[t].awaited)
    BY <1>1 DEF AppendSettles, TypeOK, Finalizations
  <1>5. finalization[t].stage \notin {"updating", "resolved", "rejected"}
    BY <1>1 DEF Contracted, Drains
  <1>6. NotYet(t)' /\ Announces(t)' /\ InFlight(t)' /\ Reported(t)' /\ Queued(t)'
    BY <1>1, <1>2, <1>4
       DEF Contracted, NotYet, Announces, InFlight, Reported, Queued, Shown
  <1>7. Drains(t)'
    <2>1. finalization[t].stage = "draining" =>
             finalization'[t].awaited = Len(output'[t].queue)
      BY <1>1, <1>3, <1>4, TailOf DEF Contracted, Drains, OneFewerAwaited
    <2> QED BY <1>1, <1>4, <1>5, <2>1 DEF Contracted, Drains
  <1>8. Speaks(t)'
    <2>1. Spoken(p, q, n) /\ output[t].early = <<>>
      BY <1>1 DEF Contracted, Speaks
    <2>2. Spoken(p, Tail(q), n) /\ Spoken(Append(p, Head(q)), Tail(q), n)
      BY <1>1, <1>3, <2>1, SpokenNext
    <2> HIDE DEF p, q, n
    <2> QED BY <1>3, <2>1, <2>2 DEF Speaks
  <1> QED BY <1>6, <1>7, <1>8 DEF Contracted

-----------------------------------------------------------------------------
(* Transitions of the descriptor *)

LEMMA UpdateStartsKeeps ==
  ASSUME ContractInv, NEW t \in Terminals, UpdateStarts(t)
  PROVE  Contracted(t)'
  <1>1. /\ TypeOK /\ Contracted(t) /\ record[t].queue # <<>>
        /\ UNCHANGED <<creation, session, output, finalization>>
        /\ record[t] \in Records
    BY DEF ContractInv, ExitInv, TypeInv, UpdateStarts, TypeOK
  <1>2. creation[t] = "created"
    BY <1>1 DEF Contracted, NotYet
  <1>3. /\ record'[t].next = Transitioned(t)
        /\ record'[t].queue = record[t].queue
        /\ record'[t].descriptor = record[t].descriptor
        /\ record'[t].announced = record[t].announced
        /\ record'[t].resizes = record[t].resizes
    <2>1. PICK error, row :
             record' = [record EXCEPT ![t].next = Transitioned(t),
                                      ![t].error = error, ![t].row = row]
      BY DEF UpdateStarts
    <2> QED BY <1>1, <2>1 DEF TypeOK, Records
  <1>4. InFlight(t)'
    <2>1. CASE Head(record[t].queue) = ExitTransition
      <3>1. CauseCode(t) \in NativeCodes \cup {0}
        <4>1. Exiting(record[t].queue)
          BY <1>1, <2>1, ExitingQueues DEF Records
        <4>2. session[t].exitCode # Undefined
          BY <4>1 DEF ContractInv, ExitInv, RecordedAfterExit, Exiting,
                      ExitResolved
        <4> QED BY <1>1, <4>2 DEF CauseCode, Contracted, Reported
      <3>2. Transitioned(t) = Exited(record[t].descriptor, CauseCode(t))
        BY <2>1 DEF Transitioned
      <3> QED BY <1>1, <1>3, <2>1, <3>1, <3>2 DEF InFlight
    <2>2. CASE Head(record[t].queue) # ExitTransition
      <3>1. Transitioned(t) =
               [record[t].descriptor EXCEPT !.size = Head(record[t].queue)]
        BY <2>2 DEF Transitioned
      <3> QED BY <1>1, <1>3, <2>2, <3>1 DEF InFlight
    <2> QED BY <2>1, <2>2
  <1>5. NotYet(t)' /\ Announces(t)' /\ Reported(t)' /\ Drains(t)' /\ Speaks(t)'
    BY <1>1, <1>2, <1>3
       DEF Contracted, NotYet, Announces, Reported, Drains, Speaks, Shown
  <1>6. Queued(t)'
    BY <1>1, <1>3 DEF Contracted, Queued
  <1> QED BY <1>4, <1>5, <1>6 DEF Contracted

\* What the rest of a queue ascends from when the resize at its head is taken.
LEMMA AscendingNext ==
  ASSUME NEW q \in Seq(Sizes), q # <<>>, NEW size \in Sizes, NEW n \in Sizes,
         Ascending(q, size, n)
  PROVE  /\ Ascending(Tail(q), size, n)
         /\ Head(q) # ExitTransition =>
               size < Head(q) /\ Ascending(Tail(q), Head(q), n)
         /\ Head(q) = ExitTransition => Tail(q) = <<>>
         /\ Exiting(Tail(q)) => Exiting(q) /\ Head(q) # ExitTransition
  <1> DEFINE r == Tail(q)
  <1>1. /\ Len(q) \in Nat /\ Len(r) \in Nat /\ Len(q) = Len(r) + 1
        /\ Head(q) = q[1] /\ q[1] \in Sizes /\ r \in Seq(Sizes)
        /\ \A i \in 1..Len(r) : r[i] = q[i + 1] /\ i + 1 \in 1..Len(q)
    BY TailOf
  <1>2. Exiting(r) => Exiting(q)
    BY ExitingQueues
  <1> HIDE DEF r
  <1>3. /\ 1 \in 1..Len(q) /\ size \in Int /\ n \in Int /\ q[1] \in Int
        /\ DOMAIN r = 1..Len(r)
    BY <1>1 DEF Sizes
  <1>4. /\ size =< n
        /\ \A i \in 1..Len(r) : r[i] # ExitTransition => size < r[i] /\ r[i] =< n
        /\ \A i \in 1..Len(r) : /\ q[1] # ExitTransition
                                /\ r[i] # ExitTransition => q[1] < r[i]
    BY <1>1, <1>3 DEF Ascending
  <1>5. ASSUME NEW i \in 1..Len(r), NEW j \in 1..Len(r), i < j
        PROVE  /\ r[i] # ExitTransition
               /\ r[j] # ExitTransition => r[i] < r[j]
    <2>1. /\ i + 1 \in 1..Len(q) /\ j + 1 \in 1..Len(q)
          /\ r[i] = q[i + 1] /\ r[j] = q[j + 1] /\ i + 1 < j + 1
      BY <1>1, <1>5
    <2> QED BY <2>1 DEF Ascending
  <1>6. Ascending(r, size, n)
    BY <1>4, <1>5 DEF Ascending
  <1>7. q[1] # ExitTransition => size < q[1] /\ q[1] =< n
    BY <1>3 DEF Ascending
  <1>8. q[1] # ExitTransition => Ascending(r, q[1], n)
    BY <1>4, <1>5, <1>7 DEF Ascending
  <1>9. q[1] = ExitTransition => Len(r) = 0
    BY <1>1, <1>4
  <1>10. Exiting(r) => q[1] # ExitTransition
    BY <1>3, <1>4 DEF Exiting
  <1> QED BY <1>1, <1>2, <1>6, <1>7, <1>8, <1>9, <1>10 DEF r

\* An update is settled: the descriptor it made is kept and announced, or not.
Settled(t, d) ==
    /\ record'[t].queue = Tail(record[t].queue)
    /\ record'[t].next = NoDescriptor
    /\ record'[t].resizes = record[t].resizes
    /\ record'[t].descriptor = d
    /\ \/ d = record[t].descriptor /\ record'[t].announced = record[t].announced
       \/ /\ d = record[t].next
          /\ record'[t].announced = Append(record[t].announced, d)

\* What is awaited: a resize of the descriptor or its exit, while it is running.
Awaited(t, d) ==
    LET step == Head(record[t].queue)
    IN  /\ creation[t] = "created" /\ record[t].queue # <<>>
        /\ record[t].descriptor.state = "running"
        /\ step = ExitTransition =>
              /\ Tail(record[t].queue) = <<>>
              /\ \E code \in NativeCodes \cup {0} :
                    d = Exited(record[t].descriptor, code)
        /\ step # ExitTransition =>
              /\ record[t].descriptor.size < step
              /\ d = [record[t].descriptor EXCEPT !.size = step]

LEMMA SettledIs ==
  ASSUME ContractInv, NEW t \in Terminals, UpdateSettled(t)
  PROVE  /\ Awaited(t, record[t].next)
         /\ Settled(t, record[t].descriptor) \/ Settled(t, record[t].next)
  <1>1. /\ TypeOK /\ Contracted(t) /\ record[t] \in Records
        /\ record[t].next # NoDescriptor
    BY DEF ContractInv, ExitInv, TypeInv, TypeOK, UpdateSettled
  <1>2. record[t].queue # <<>>
    BY <1>1 DEF Contracted, InFlight
  <1>3. creation[t] = "created" /\ record[t].descriptor.state = "running"
    <2>1. creation[t] = "created"
      BY <1>1 DEF Contracted, NotYet
    <2>2. record[t].descriptor.state \in {"none", "running", "exited"}
      BY <1>1 DEF Records, Descriptors
    <2> QED BY <1>1, <1>2, <2>1, <2>2 DEF Contracted, Queued
  <1>4. /\ record[t].queue \in Seq(Sizes) /\ record[t].descriptor.size \in Sizes
        /\ record[t].resizes \in Sizes
        /\ Ascending(record[t].queue, record[t].descriptor.size, record[t].resizes)
    BY <1>1 DEF Records, Descriptors, Contracted, Queued
  <1>5. Awaited(t, record[t].next)
    BY <1>1, <1>2, <1>3, <1>4, AscendingNext DEF Awaited, Contracted, InFlight
  <1>6. Settled(t, record[t].descriptor) \/ Settled(t, record[t].next)
    <2>1. CASE record[t].error = "error"
      BY <1>1, <2>1 DEF UpdateSettled, TypeOK, Records, Settled
    <2>2. CASE record[t].error # "error"
      BY <1>1, <2>2 DEF UpdateSettled, TypeOK, Records, Settled
    <2> QED BY <2>1, <2>2
  <1> QED BY <1>5, <1>6

\* The last of what was announced.
LEMMA LastAnnounced ==
  ASSUME NEW s \in Seq(Descriptors), NEW d \in Descriptors
  PROVE  Append(s, d) # <<>> /\ Append(s, d)[Len(Append(s, d))] = d
  OBVIOUS

LEMMA SettlesKeeps ==
  ASSUME ContractInv, NEW t \in Terminals,
         ResizeSettles(t) \/ FinalizationSettles(t)
  PROVE  Contracted(t)'
  <1>1. /\ TypeOK /\ Contracted(t) /\ record[t] \in Records
        /\ UNCHANGED <<creation, output>> /\ UpdateSettled(t)
    BY DEF ContractInv, ExitInv, TypeInv, TypeOK, ResizeSettles,
           FinalizationSettles
  <1> DEFINE q == record[t].queue
             size == record[t].descriptor.size
             n == record[t].resizes
  <1>2. PICK d \in {record[t].descriptor, record[t].next} :
           Settled(t, d) /\ Awaited(t, record[t].next)
    BY <1>1, SettledIs
  <1>3. /\ q \in Seq(Sizes) /\ q # <<>> /\ size \in Sizes /\ n \in Sizes
        /\ Ascending(q, size, n)
        /\ Exiting(q) => finalization[t].stage = "updating"
        /\ finalization[t].stage # "none" => session[t].acceptingInput = FALSE
    BY <1>1, <1>2 DEF Records, Descriptors, Contracted, Queued, Awaited
  <1>4. /\ Ascending(Tail(q), size, n)
        /\ Head(q) # ExitTransition => Ascending(Tail(q), Head(q), n)
        /\ Head(q) = ExitTransition => Tail(q) = <<>>
        /\ Exiting(Tail(q)) => Exiting(q) /\ Head(q) # ExitTransition
        /\ Head(q) = ExitTransition => Exiting(q)
    BY <1>3, AscendingNext, ExitingQueues
  <1>5. /\ d \in Descriptors
        /\ Head(q) # ExitTransition => d.state = "running"
        /\ d.state # "none" /\ d.size \in {size, Head(q)}
        /\ Head(q) = ExitTransition => d.size = size
    BY <1>1, <1>2 DEF Records, Descriptors, Awaited, Exited
  <1>6. /\ session'[t].exitCode = session[t].exitCode
        /\ session'[t].subscribed = session[t].subscribed
        /\ session'[t].acceptingInput = session[t].acceptingInput
        /\ Head(q) # ExitTransition => finalization'[t] = finalization[t]
        /\ Head(q) = ExitTransition =>
              finalization'[t].stage \in {"resolved", "rejected"}
    <2>1. CASE ResizeSettles(t)
      BY <2>1 DEF ResizeSettles
    <2>2. CASE FinalizationSettles(t)
      BY <1>1, <2>2 DEF FinalizationSettles, TypeOK, Sessions, Finalizations
    <2> QED BY <2>1, <2>2
  <1>7. creation[t] = "created"
    BY <1>2 DEF Awaited
  <1>8. NotYet(t)' /\ InFlight(t)' /\ Reported(t)' /\ Speaks(t)'
    BY <1>1, <1>2, <1>6, <1>7
       DEF Contracted, NotYet, InFlight, Reported, Speaks, Settled
  <1>9. Announces(t)'
    <2>1. record[t].announced \in Seq(Descriptors)
      BY <1>1 DEF Records
    <2>2. CASE record'[t].announced = record[t].announced /\ d = record[t].descriptor
      BY <1>1, <1>2, <2>2 DEF Contracted, Announces, Settled, Shown
    <2>3. CASE record'[t].announced = Append(record[t].announced, d)
      <3>1. record'[t].announced # <<>>
        BY <1>5, <2>1, <2>3, LastAnnounced
      <3>2. record'[t].announced[Len(record'[t].announced)] = d
        BY <1>5, <2>1, <2>3, LastAnnounced
      <3> QED BY <1>2, <3>1, <3>2 DEF Announces, Settled, Shown
    <2> QED BY <1>2, <2>2, <2>3 DEF Settled
  <1>10. Queued(t)'
    <2>1. /\ record'[t].queue = Tail(q) /\ record'[t].resizes = n
          /\ record'[t].descriptor = d
      BY <1>2 DEF Settled
    <2>2. Ascending(Tail(q), d.size, n)
      BY <1>4, <1>5
    <2>3. CASE Head(q) = ExitTransition
      <3>1. finalization[t].stage = "updating"
        BY <1>3, <1>4, <2>3
      <3> QED
        BY <1>3, <1>4, <1>5, <1>6, <1>7, <2>1, <2>2, <2>3, <3>1 DEF Queued
    <2>4. CASE Head(q) # ExitTransition
      <3>1. d.state = "running"
        BY <1>5, <2>4
      <3> QED BY <1>3, <1>4, <1>6, <2>1, <2>2, <2>4, <3>1 DEF Queued
    <2> QED BY <2>3, <2>4
  <1>11. Drains(t)'
    <2>1. CASE Head(q) = ExitTransition
      <3>1. finalization[t].stage = "updating"
        BY <1>3, <1>4, <2>1
      <3> QED BY <1>1, <1>6, <2>1, <3>1 DEF Contracted, Drains
    <2>2. CASE Head(q) # ExitTransition
      BY <1>1, <1>6, <2>2 DEF Contracted, Drains
    <2> QED BY <2>1, <2>2
  <1> QED BY <1>8, <1>9, <1>10, <1>11 DEF Contracted

-----------------------------------------------------------------------------
LEMMA StepOfKeeps ==
  ASSUME ContractInv, SqliteRepository = TRUE, NEW t \in Terminals, StepOf(t)
  PROVE  Contracted(t)'
  <1>1. CASE Create(t) \/ CreateWithoutListeners(t)
    BY <1>1, CreateKeeps
  <1>2. CASE CreateResumes(t)
    BY <1>2, CreateResumesKeeps
  <1>3. CASE RollbackCreation(t)
    BY <1>3, RollbackKeeps
  <1>4. CASE PtyData(t)
    BY <1>4, PtyDataKeeps
  <1>5. CASE PtyExit(t)
    BY <1>5, PtyExitKeeps
  <1>6. CASE Resize(t)
    BY <1>6, ResizeKeeps
  <1>7. CASE EscalateToSigkill(t) \/ GiveUpTermination(t)
    BY <1>7, TimesOutKeeps
  <1>8. CASE NoticeExit(t)
    BY <1>8, NoticeExitKeeps
  <1>9. CASE OutputDrained(t)
    BY <1>9, OutputDrainedKeeps
  <1>10. CASE AppendSettles(t)
    BY <1>10, AppendSettlesKeeps
  <1>11. CASE UpdateStarts(t)
    BY <1>11, UpdateStartsKeeps
  <1>12. CASE ResizeSettles(t) \/ FinalizationSettles(t)
    BY <1>12, SettlesKeeps
  <1> QED
    BY <1>1, <1>2, <1>3, <1>4, <1>5, <1>6, <1>7, <1>8, <1>9, <1>10, <1>11,
       <1>12 DEF StepOf

LEMMA StepContracted ==
  ASSUME ContractInv, SqliteRepository = TRUE, [Next]_vars
  PROVE  ContractInv'
  <1>1. TypeOK /\ \A u \in Terminals : Contracted(u)
    BY DEF ContractInv, ExitInv, TypeInv
  <1>2. ExitInv'
    BY StepExitInv DEF ContractInv
  <1> SUFFICES ASSUME NEW u \in Terminals
               PROVE  Contracted(u)'
    BY <1>2 DEF ContractInv
  <1>3. ASSUME NEW t \in Terminals, StepOf(t)
        PROVE  Contracted(u)'
    <2>1. CASE u = t
      BY <1>3, <2>1, StepOfKeeps
    <2>2. CASE u # t
      BY <1>1, <1>3, <2>2, OthersSame, SameKeeps
    <2> QED BY <2>1, <2>2
  <1>4. ASSUME NEW t \in Terminals, Close(t)
        PROVE  Contracted(u)'
    <2>1. PICK error : CloseStarts({t}, [v \in Terminals |-> error])
      BY <1>4 DEF Close
    <2>2. creation[t] # "absent"
      BY <1>4 DEF Close, InMap
    <2> QED BY <2>1, <2>2, CloseStartsKeeps
  <1>5. CASE CloseAll
    <2> DEFINE opened == {v \in Terminals : InMap(v)}
    <2>1. PICK error : CloseStarts(opened, error)
      BY <1>5 DEF CloseAll
    <2>2. u \in opened => creation[u] # "absent"
      BY DEF InMap
    <2> QED BY <2>1, <2>2, CloseStartsKeeps
  <1>6. CASE UNCHANGED vars
    <2>1. Same(u)
      BY <1>6 DEF vars, Same
    <2> QED BY <1>1, <2>1, SameKeeps
  <1> QED BY <1>3, <1>4, <1>5, <1>6 DEF Next, StepOf

-----------------------------------------------------------------------------
(* The steps of the contract *)

\* What the subscribers were told of a terminal stays what it was.
Silent(t) ==
    /\ record'[t].announced = record[t].announced
    /\ output'[t].published = output[t].published

LEMMA AllSilent ==
  ASSUME \A t \in Terminals : Silent(t)
  PROVE  UNCHANGED <<[t \in Terminals |-> Shown(t)],
                     [t \in Terminals |-> output[t].published]>>
  <1>1. \A t \in Terminals : Shown(t)' = Shown(t)
    BY DEF Silent, Shown
  <1> QED BY <1>1 DEF Silent

\* One terminal is shown d, or its log becomes log.
LEMMA OneShown ==
  ASSUME NEW t \in Terminals, NEW d, Shown(t)' = d,
         output'[t].published = output[t].published,
         \A u \in Terminals : u # t => Silent(u)
  PROVE  /\ [u \in Terminals |-> Shown(u)]' =
               [[u \in Terminals |-> Shown(u)] EXCEPT ![t] = d]
         /\ UNCHANGED [u \in Terminals |-> output[u].published]
  <1>1. \A u \in Terminals : u # t => Shown(u)' = Shown(u)
    BY DEF Silent, Shown
  <1>2. \A u \in Terminals : output'[u].published = output[u].published
    BY DEF Silent
  <1> QED BY <1>1, <1>2

LEMMA OneLogged ==
  ASSUME NEW t \in Terminals, NEW log, output'[t].published = log,
         record'[t].announced = record[t].announced,
         \A u \in Terminals : u # t => Silent(u)
  PROVE  /\ [u \in Terminals |-> output[u].published]' =
               [[u \in Terminals |-> output[u].published] EXCEPT ![t] = log]
         /\ UNCHANGED [u \in Terminals |-> Shown(u)]
  <1>1. \A u \in Terminals : Shown(u)' = Shown(u)
    BY DEF Silent, Shown
  <1>2. \A u \in Terminals : u # t => output'[u].published = output[u].published
    BY DEF Silent
  <1> QED BY <1>1, <1>2

\* The continuation of save() is the terminal's appearance.
LEMMA ResumesAppears ==
  ASSUME ContractInv, NEW t \in Terminals, CreateResumes(t)
  PROVE  Contract!Appears(t)
  <1>1. /\ TypeOK /\ record[t] \in Records /\ creation[t] = "saving"
        /\ \A u \in Terminals : u # t => Silent(u)
    <2>1. TypeOK /\ creation[t] = "saving"
      BY DEF ContractInv, ExitInv, TypeInv, CreateResumes
    <2>2. \A u \in Terminals : u # t => Same(u)
      BY <2>1, OthersSame DEF StepOf
    <2> QED BY <2>1, <2>2 DEF Same, Silent, TypeOK
  <1>2. record[t].announced = <<>> /\ output'[t].published = output[t].published
    BY <1>1 DEF ContractInv, Contracted, NotYet, CreateResumes, TypeOK, Outputs
  <1>3. record'[t].announced = Append(<<>>, FirstDescriptor)
    BY <1>1, <1>2 DEF CreateResumes, TypeOK, Records
  <1>4. Shown(t) = NoDescriptor /\ Shown(t)' = FirstDescriptor
    BY <1>2, <1>3 DEF Shown
  <1>5. FirstDescriptor = [NoDescriptor EXCEPT !.state = "running"]
    BY DEF FirstDescriptor, NoDescriptor
  <1>6. NoDescriptor = Contract!Unknown
    BY DEF NoDescriptor, Undefined, Contract!Unknown
  <1>7. /\ [u \in Terminals |-> Shown(u)]' =
              [[u \in Terminals |-> Shown(u)] EXCEPT ![t] = FirstDescriptor]
        /\ UNCHANGED [u \in Terminals |-> output[u].published]
    BY <1>1, <1>2, <1>4, OneShown
  <1> QED BY <1>4, <1>5, <1>6, <1>7 DEF Contract!Appears

\* An append that succeeds is a chunk that is spoken, while the terminal runs.
LEMMA AppendSpeaks ==
  ASSUME ContractInv, NEW t \in Terminals, AppendSettles(t)
  PROVE  \/ Contract!Speaks(t)
         \/ \A u \in Terminals : Silent(u)
  <1>1. /\ TypeOK /\ Contracted(t) /\ output[t] \in Outputs
        /\ output[t].queue # <<>> /\ record' = record
        /\ \A u \in Terminals : u # t => Silent(u)
    <2>1. TypeOK /\ output[t].queue # <<>>
      BY DEF ContractInv, ExitInv, TypeInv, AppendSettles
    <2>2. \A u \in Terminals : u # t => Same(u)
      BY <2>1, OthersSame DEF StepOf
    <2> QED BY <2>1, <2>2 DEF Same, Silent, TypeOK, ContractInv, AppendSettles
  <1> DEFINE p == output[t].published
             q == output[t].queue
  <1>2. output'[t].published \in {p, Append(p, Head(q))}
    <2>1. PICK error : output' = [output EXCEPT
             ![t].queue = Tail(@),
             ![t].outputError = Coalesce(@, error),
             ![t].published = IF error = "error" THEN @
                              ELSE Append(@, Head(output[t].queue))]
      BY DEF AppendSettles
    <2> QED BY <1>1, <2>1 DEF TypeOK, Outputs
  <1>3. CASE output'[t].published = p
    BY <1>1, <1>3 DEF Silent
  <1>4. CASE output'[t].published = Append(p, Head(q))
    <2>1. Shown(t).state = "running"
      <3>1. creation[t] = "created"
        BY <1>1 DEF Contracted, NotYet
      <3>2. finalization[t].stage \notin {"resolved", "rejected"}
        BY <1>1 DEF Contracted, Drains
      <3>3. record[t].descriptor.state \in {"none", "running", "exited"}
        BY <1>1 DEF TypeOK, Records, Descriptors
      <3> QED BY <1>1, <3>1, <3>2, <3>3 DEF Contracted, Announces, Queued
    <2>2. /\ p \in Seq(Chunks) /\ q \in Seq(Chunks) /\ Head(q) \in 1..MaxOutput
          /\ output[t].emitted \in Nat
      <3>1. p \in Seq(Chunks) /\ q \in Seq(Chunks)
        BY <1>1 DEF Outputs
      <3>2. output[t].emitted \in Nat
        BY <1>1, TerminalManagerAssumption DEF Outputs
      <3> QED BY <1>1, <3>1, <3>2, TailOf DEF Chunks
    <2>3. \A i \in 1..Len(p) : p[i] < Head(q)
      BY <1>1, <2>2, SpokenNext DEF Contracted, Speaks
    <2>4. \A i \in DOMAIN p : p[i] < Head(q)
      BY <2>2, <2>3
    <2>5. /\ [u \in Terminals |-> output[u].published]' =
                [[u \in Terminals |-> output[u].published]
                    EXCEPT ![t] = Append(p, Head(q))]
          /\ UNCHANGED [u \in Terminals |-> Shown(u)]
      BY <1>1, <1>4, OneLogged
    <2> HIDE DEF p, q
    <2>6. [u \in Terminals |-> output[u].published][t] = p
      BY DEF p
    <2>7. [u \in Terminals |-> Shown(u)][t].state = "running"
      BY <2>1
    <2>8. Contract!Speaks(t)
      BY <2>2, <2>4, <2>5, <2>6, <2>7 DEF Contract!Speaks
    <2> QED BY <2>8
  <1> QED BY <1>2, <1>3, <1>4

\* An update that is settled is a resize or the exit, or nobody is told.
LEMMA SettlesContract ==
  ASSUME ContractInv, NEW t \in Terminals,
         ResizeSettles(t) \/ FinalizationSettles(t)
  PROVE  \/ Contract!IsResized(t) \/ Contract!Exits(t)
         \/ \A u \in Terminals : Silent(u)
  <1>1. /\ TypeOK /\ Contracted(t) /\ record[t] \in Records
        /\ output' = output /\ UpdateSettled(t)
        /\ \A u \in Terminals : u # t => Silent(u)
    <2>1. TypeOK /\ output' = output /\ UpdateSettled(t)
      BY DEF ContractInv, ExitInv, TypeInv, ResizeSettles, FinalizationSettles
    <2>2. \A u \in Terminals : u # t => Same(u)
      BY <2>1, OthersSame DEF StepOf
    <2> QED BY <2>1, <2>2 DEF Same, Silent, TypeOK, ContractInv
  <1> DEFINE d == record[t].next
             c == record[t].descriptor
             step == Head(record[t].queue)
  <1>2. Awaited(t, d) /\ (Settled(t, c) \/ Settled(t, d))
    BY <1>1, SettledIs
  <1>3. CASE record'[t].announced = record[t].announced
    BY <1>1, <1>3 DEF Silent
  <1>4. CASE record'[t].announced = Append(record[t].announced, d)
    <2>1. /\ record[t].announced \in Seq(Descriptors)
          /\ c \in Descriptors /\ d \in Descriptors
      BY <1>1 DEF Records
    <2>2. Shown(t)' = d
      BY <1>4, <2>1, LastAnnounced DEF Shown
    <2>3. Shown(t) = c /\ c.state = "running"
      BY <1>1, <1>2 DEF Contracted, Announces, Awaited
    <2>4. /\ [u \in Terminals |-> Shown(u)]' =
                [[u \in Terminals |-> Shown(u)] EXCEPT ![t] = d]
          /\ UNCHANGED [u \in Terminals |-> output[u].published]
      BY <1>1, <2>2, OneShown
    <2>5. [u \in Terminals |-> Shown(u)][t] = c
      BY <2>3
    <2>6. CASE step = ExitTransition
      <3>1. PICK code \in NativeCodes \cup {0} : d = Exited(c, code)
        BY <1>2, <2>6 DEF Awaited
      <3>2. d = [c EXCEPT !.state = "exited", !.exitCode = code]
        BY <3>1 DEF Exited
      <3> HIDE DEF c, d
      <3>3. Contract!Exits(t)
        BY <2>3, <2>4, <2>5, <3>2 DEF Contract!Exits
      <3> QED BY <3>3
    <2>7. CASE step # ExitTransition
      <3>1. c.size < step /\ d = [c EXCEPT !.size = step]
        BY <1>2, <2>7 DEF Awaited
      <3>2. step \in (c.size + 1)..MaxResize
        <4>1. record[t].queue \in Seq(Sizes) /\ record[t].queue # <<>>
          BY <1>1, <1>2 DEF Records, Awaited
        <4>2. step \in Sizes /\ c.size \in Sizes
          BY <2>1, <4>1, TailOf DEF Descriptors
        <4> QED BY <3>1, <4>2 DEF Sizes
      <3> HIDE DEF c, d, step
      <3>3. Contract!IsResized(t)
        BY <2>3, <2>4, <2>5, <3>1, <3>2 DEF Contract!IsResized
      <3> QED BY <3>3
    <2> QED BY <2>6, <2>7
  <1> QED BY <1>2, <1>3, <1>4 DEF Settled

LEMMA StepContract ==
  ASSUME ContractInv, [Next]_vars
  PROVE  \/ Contract!Next
         \/ UNCHANGED <<[t \in Terminals |-> Shown(t)],
                        [t \in Terminals |-> output[t].published]>>
  <1>0. TypeOK
    BY DEF ContractInv, ExitInv, TypeInv
  <1>1. ASSUME NEW t \in Terminals, CreateResumes(t)
        PROVE  Contract!Next
    <2>1. Contract!Appears(t)
      BY <1>1, ResumesAppears
    <2> QED BY <2>1 DEF Contract!Next
  <1>2. ASSUME NEW t \in Terminals, AppendSettles(t), ~Contract!Next
        PROVE  \A u \in Terminals : Silent(u)
    <2>1. ~Contract!Speaks(t)
      BY <1>2 DEF Contract!Next
    <2> QED BY <1>2, <2>1, AppendSpeaks
  <1>3. ASSUME NEW t \in Terminals, ResizeSettles(t) \/ FinalizationSettles(t),
               ~Contract!Next
        PROVE  \A u \in Terminals : Silent(u)
    <2>1. ~Contract!IsResized(t) /\ ~Contract!Exits(t)
      BY <1>3 DEF Contract!Next
    <2> QED BY <1>3, <2>1, SettlesContract
  <1>4. ASSUME NEW t \in Terminals,
               \/ Create(t) \/ CreateWithoutListeners(t) \/ RollbackCreation(t)
               \/ PtyData(t) \/ PtyExit(t) \/ Resize(t)
               \/ EscalateToSigkill(t) \/ GiveUpTermination(t) \/ NoticeExit(t)
               \/ OutputDrained(t) \/ UpdateStarts(t)
        PROVE  \A u \in Terminals : Silent(u)
    <2>1. \A u \in Terminals : u # t => Silent(u)
      BY <1>0, <1>4, OthersSame DEF StepOf, Same, Silent
    <2>2. output'[t].published = output[t].published
      <3>1. CASE PtyData(t)
        BY <1>0, <3>1 DEF PtyData, TypeOK, Outputs
      <3>2. CASE RollbackCreation(t)
        BY <1>0, <3>2 DEF RollbackCreation, TypeOK, Outputs
      <3>3. CASE ~PtyData(t) /\ ~RollbackCreation(t)
        BY <1>4, <3>3
           DEF Create, CreateWithoutListeners, PtyExit, Resize,
               EscalateToSigkill, GiveUpTermination, NoticeExit, OutputDrained,
               UpdateStarts
      <3> QED BY <3>1, <3>2, <3>3
    <2>3. record'[t].announced = record[t].announced
      <3>1. CASE Create(t) \/ CreateWithoutListeners(t)
        BY <1>0, <3>1 DEF Create, CreateWithoutListeners, TypeOK, Records
      <3>2. CASE RollbackCreation(t)
        <4>1. \/ record' = record
              \/ \E row : record' = [record EXCEPT ![t].row = row]
          BY <3>2 DEF RollbackCreation
        <4> QED BY <1>0, <4>1 DEF TypeOK, Records
      <3>3. CASE Resize(t) \/ OutputDrained(t)
        BY <1>0, <3>3 DEF Resize, OutputDrained, TypeOK, Records
      <3>4. CASE UpdateStarts(t)
        BY <1>0, <3>4 DEF UpdateStarts, TypeOK, Records
      <3>5. CASE \/ PtyData(t) \/ PtyExit(t) \/ EscalateToSigkill(t)
                 \/ GiveUpTermination(t) \/ NoticeExit(t)
        BY <3>5 DEF PtyData, PtyExit, EscalateToSigkill, GiveUpTermination,
                    NoticeExit
      <3> QED BY <1>4, <3>1, <3>2, <3>3, <3>4, <3>5
    <2> QED BY <2>1, <2>2, <2>3 DEF Silent
  <1>5. ASSUME CloseAll \/ (\E t \in Terminals : Close(t)) \/ UNCHANGED vars
        PROVE  \A u \in Terminals : Silent(u)
    <2>1. UNCHANGED <<record, output>>
      BY <1>5 DEF CloseAll, Close, CloseStarts, vars
    <2> QED BY <2>1 DEF Silent
  <1>6. Contract!Next \/ \A u \in Terminals : Silent(u)
    BY <1>1, <1>2, <1>3, <1>4, <1>5 DEF Next
  <1> QED BY <1>6, AllSilent

\* Over the shipped repository the manager is the abstract terminal, for whoever
\* subscribes to onChanged and onOutput: it appears once, is resized and speaks
\* in order while it runs, and exits once, after its last chunk, whatever
\* closes, exits, timeouts and failures of the environment meet (create,
\* runFinalization, enqueueOutput and enqueueDescriptorTransition of manager.ts).
THEOREM KeepsItsContract ==
  ASSUME SqliteRepository = TRUE
  PROVE  Spec => Contract!Spec
  <1>1. Init => Contract!Init
    <2> SUFFICES ASSUME Init
                 PROVE  Contract!Init
      OBVIOUS
    <2>1. \A t \in Terminals : Shown(t) = Contract!Unknown
      BY DEF Init, NoRecord, Shown, NoDescriptor, Undefined, Contract!Unknown
    <2>2. \A t \in Terminals : output[t].published = <<>>
      BY DEF Init, NoOutput
    <2> QED BY <2>1, <2>2 DEF Contract!Init
  <1>2. Init => ContractInv
    BY InitContracted
  <1>3. ContractInv /\ [Next]_vars => ContractInv'
    BY StepContracted
  <1>4. ContractInv /\ [Next]_vars =>
           [Contract!Next]_<<[t \in Terminals |-> Shown(t)],
                             [t \in Terminals |-> output[t].published]>>
    BY StepContract
  <1> QED BY <1>1, <1>2, <1>3, <1>4, PTL DEF Spec, Contract!Spec

-----------------------------------------------------------------------------
(* What the row says.  Over the shipped repository the row is written in    *)
(* the call that queues its continuation, so it is the descriptor, or the   *)
(* one that the update in progress will keep and announce.                  *)

\* The last resize is in the descriptor, or still queued.
Resized(t) ==
    \/ record[t].resizes = record[t].descriptor.size
    \/ \E i \in 1..Len(record[t].queue) :
          /\ record[t].queue[i] = record[t].resizes
          /\ record[t].queue[i] # ExitTransition

RowFollows(t) ==
    history[t].updateError = "undefined" =>
        /\ record[t].error = "undefined"
        /\ creation[t] \in {"saving", "created"} =>
              /\ record[t].row = IF record[t].next = NoDescriptor
                                 THEN record[t].descriptor ELSE record[t].next
              /\ Resized(t)

\* The cause of the finalization is what came first, and the exit code of an
\* exited row is that of the cause.
CauseFollows(t) ==
    /\ finalization[t].cause = history[t].first
    /\ finalization[t].stage # "none" => finalization[t].cause # "none"
    /\ creation[t] = "saving" => record[t].row.state # "exited"
    /\ record[t].row.state = "exited" /\ creation[t] = "created" =>
          /\ finalization[t].stage \in {"updating", "resolved", "rejected"}
          /\ record[t].row.exitCode = CauseCode(t)

\* closeAll() fulfils with a finalization that met no error.
ClosesClean(t) ==
    /\ closeAll[t] = "resolved" => finalization[t].stage = "resolved"
    /\ finalization[t].stage = "resolved" =>
          /\ output[t].outputError = "undefined"
          /\ record[t].row.state # "running"
          /\ record[t].queue = <<>>
    /\ record[t].next # NoDescriptor /\ record[t].error = "undefined" =>
          record[t].row \in {NoDescriptor, record[t].next}

AgreesOf(t) == RowFollows(t) /\ CauseFollows(t) /\ ClosesClean(t)

AgreeInv == ContractInv /\ OutputInv /\ \A t \in Terminals : AgreesOf(t)

LEMMA InitAgrees == Init => AgreeInv
  <1> SUFFICES ASSUME Init
               PROVE  AgreeInv
    OBVIOUS
  <1>1. ASSUME NEW t \in Terminals PROVE AgreesOf(t)
    <2>1. /\ creation[t] = "absent" /\ record[t] = NoRecord
          /\ finalization[t] = NoFinalization /\ history[t] = NoHistory
          /\ closeAll[t] = "idle"
      BY DEF Init
    <2>2. RowFollows(t)
      BY <2>1 DEF RowFollows, NoRecord
    <2>3. CauseFollows(t)
      BY <2>1 DEF CauseFollows, NoRecord, NoFinalization, NoHistory
    <2>4. ClosesClean(t)
      BY <2>1 DEF ClosesClean, NoRecord, NoFinalization
    <2> QED BY <2>2, <2>3, <2>4 DEF AgreesOf
  <1> QED BY <1>1, InitContracted, InitOutputInv DEF AgreeInv

\* A step that writes neither the row nor what it is written from, and starts
\* no finalization.
LEMMA AgreesStay ==
  ASSUME NEW t \in Terminals, AgreesOf(t), creation'[t] = creation[t],
         record'[t].row = record[t].row, record'[t].next = record[t].next,
         record'[t].error = record[t].error,
         record'[t].descriptor = record[t].descriptor,
         Resized(t) => Resized(t)',
         history'[t].first = history[t].first,
         history'[t].updateError = history[t].updateError,
         session'[t].exitCode = session[t].exitCode,
         finalization'[t].cause = finalization[t].cause,
         finalization'[t].stage # "none" => finalization[t].stage # "none",
         finalization[t].stage \in {"updating", "resolved", "rejected"} =>
            finalization'[t].stage = finalization[t].stage,
         finalization'[t].stage = "resolved" =>
            finalization[t].stage = "resolved" /\ record'[t].queue = record[t].queue,
         closeAll'[t] = "resolved" => closeAll[t] = "resolved",
         finalization[t].stage = "resolved" =>
            output'[t].outputError = output[t].outputError
  PROVE  AgreesOf(t)'
  <1>1. RowFollows(t)'
    BY DEF AgreesOf, RowFollows
  <1>2. CauseFollows(t)'
    BY DEF AgreesOf, CauseFollows, CauseCode
  <1>3. ClosesClean(t)'
    BY DEF AgreesOf, ClosesClean
  <1> QED BY <1>1, <1>2, <1>3 DEF AgreesOf

LEMMA AgreeTypes ==
  ASSUME AgreeInv, NEW t \in Terminals
  PROVE  /\ TypeOK /\ Contracted(t) /\ AgreesOf(t)
         /\ session[t] \in Sessions /\ output[t] \in Outputs
         /\ record[t] \in Records /\ finalization[t] \in Finalizations
         /\ history[t] \in Histories /\ closeAll[t] \in Promises
         /\ record[t].queue \in Seq(Sizes)
  BY DEF AgreeInv, ContractInv, ExitInv, TypeInv, TypeOK, Records

LEMMA CreationAgrees ==
  ASSUME AgreeInv, NEW t \in Terminals,
         \/ Create(t) \/ CreateWithoutListeners(t) \/ CreateResumes(t)
         \/ RollbackCreation(t)
  PROVE  AgreesOf(t)'
  <1>0. /\ TypeOK /\ Contracted(t) /\ AgreesOf(t) /\ record[t] \in Records
        /\ history[t] \in Histories
    BY AgreeTypes
  <1>1. /\ creation[t] # "created"
        /\ record[t].queue = <<>> /\ record[t].next = NoDescriptor
        /\ record[t].resizes = 0 /\ session[t].exitCode = Undefined
        /\ finalization[t].stage # "resolved"
    <2>1. creation[t] # "created"
      BY DEF Create, CreateWithoutListeners, CreateResumes, RollbackCreation
    <2> QED BY <1>0, <2>1 DEF Contracted, NotYet
  <1>2. /\ UNCHANGED <<finalization, closeAll>>
        /\ record'[t].queue = record[t].queue
        /\ record'[t].next = record[t].next
        /\ record'[t].error = record[t].error
        /\ record'[t].resizes = record[t].resizes
        /\ history'[t].first = history[t].first
        /\ history'[t].updateError = "undefined" =>
              history[t].updateError = "undefined"
    <2>1. CASE Create(t)
      BY <1>0, <2>1 DEF Create, TypeOK, Records
    <2>2. CASE CreateWithoutListeners(t)
      BY <1>0, <2>2 DEF CreateWithoutListeners, TypeOK, Records
    <2>3. CASE CreateResumes(t)
      BY <1>0, <1>1, <2>3 DEF CreateResumes, TypeOK, Records
    <2>4. CASE RollbackCreation(t)
      <3>1. /\ \/ record' = record
               \/ \E row : record' = [record EXCEPT ![t].row = row]
            /\ \/ history' = history
               \/ history' = [history EXCEPT ![t].updateError = "error"]
            /\ UNCHANGED <<finalization, closeAll>>
        BY <2>4 DEF RollbackCreation
      <3> QED BY <1>0, <3>1 DEF TypeOK, Records, Histories
    <2> QED BY <2>1, <2>2, <2>3, <2>4
  <1>3. \/ /\ creation'[t] = "saving" /\ record'[t].row = FirstDescriptor
           /\ record'[t].descriptor = FirstDescriptor
        \/ creation'[t] \in {"saveFailing", "rolledBack"}
        \/ /\ creation[t] = "saving" /\ creation'[t] = "created"
           /\ record'[t].row = record[t].row
           /\ record'[t].descriptor = record[t].descriptor
    <2>1. CASE Create(t)
      BY <1>0, <2>1 DEF Create, TypeOK, Records
    <2>2. CASE CreateWithoutListeners(t)
      BY <1>0, <2>2 DEF CreateWithoutListeners, TypeOK
    <2>3. CASE CreateResumes(t)
      BY <1>0, <2>3 DEF CreateResumes, TypeOK, Records
    <2>4. CASE RollbackCreation(t)
      BY <1>0, <2>4 DEF RollbackCreation, TypeOK
    <2> QED BY <2>1, <2>2, <2>3, <2>4
  <1>4. FirstDescriptor.size = 0 /\ FirstDescriptor.state # "exited"
    BY DEF FirstDescriptor
  <1>5. RowFollows(t)'
    BY <1>0, <1>1, <1>2, <1>3, <1>4 DEF AgreesOf, RowFollows, Resized
  <1>6. CauseFollows(t)'
    BY <1>0, <1>2, <1>3, <1>4 DEF AgreesOf, CauseFollows
  <1>7. ClosesClean(t)'
    BY <1>0, <1>1, <1>2 DEF AgreesOf, ClosesClean
  <1> QED BY <1>5, <1>6, <1>7 DEF AgreesOf

\* A resize that is queued stays queued when something is appended.
LEMMA ResizedAppended ==
  ASSUME NEW t \in Terminals, record[t].queue \in Seq(Sizes), NEW x \in Sizes,
         record'[t].queue = Append(record[t].queue, x),
         record'[t].descriptor = record[t].descriptor,
         \/ Resized(t) /\ record'[t].resizes = record[t].resizes
         \/ record'[t].resizes = x /\ x # ExitTransition
  PROVE  Resized(t)'
  <1> DEFINE q == record[t].queue
             r == record'[t].queue
  <1>1. /\ Len(q) \in Nat /\ Len(r) = Len(q) + 1 /\ r[Len(r)] = x
        /\ \A i \in 1..Len(q) : r[i] = q[i] /\ i \in 1..Len(r)
        /\ Len(r) \in 1..Len(r)
    OBVIOUS
  <1> HIDE DEF q, r
  <1>2. CASE Resized(t) /\ record'[t].resizes = record[t].resizes
    <2>1. CASE record[t].resizes = record[t].descriptor.size
      BY <1>2, <2>1 DEF Resized
    <2>2. CASE record[t].resizes # record[t].descriptor.size
      <3>1. PICK i \in 1..Len(q) :
               q[i] = record[t].resizes /\ q[i] # ExitTransition
        BY <1>2, <2>2 DEF Resized, q
      <3>2. /\ i \in 1..Len(r) /\ r[i] = record'[t].resizes
            /\ r[i] # ExitTransition
        BY <1>1, <1>2, <3>1
      <3> QED BY <3>2 DEF Resized, r
    <2> QED BY <2>1, <2>2
  <1>3. CASE record'[t].resizes = x /\ x # ExitTransition
    <2>1. /\ Len(r) \in 1..Len(r) /\ r[Len(r)] = record'[t].resizes
          /\ r[Len(r)] # ExitTransition
      BY <1>1, <1>3
    <2> QED BY <2>1 DEF Resized, r
  <1> QED BY <1>2, <1>3

LEMMA QuietAgrees ==
  ASSUME AgreeInv, NEW t \in Terminals,
         \/ PtyData(t) \/ EscalateToSigkill(t) \/ GiveUpTermination(t)
         \/ NoticeExit(t) \/ AppendSettles(t)
  PROVE  AgreesOf(t)'
  <1>0. /\ TypeOK /\ Contracted(t) /\ AgreesOf(t)
        /\ session[t] \in Sessions /\ output[t] \in Outputs
        /\ finalization[t] \in Finalizations
    BY AgreeTypes
  <1>1. UNCHANGED <<creation, record, history>>
    BY DEF PtyData, EscalateToSigkill, GiveUpTermination, NoticeExit,
           AppendSettles
  <1>2. session'[t].exitCode = session[t].exitCode
    <2>1. session' = session \/ session' = [session EXCEPT ![t].subscribed = FALSE]
      BY DEF PtyData, EscalateToSigkill, GiveUpTermination, NoticeExit,
             AppendSettles
    <2> QED BY <1>0, <2>1 DEF TypeOK, Sessions
  <1>3. closeAll'[t] = "resolved" => closeAll[t] = "resolved"
    <2>1. \/ closeAll' = closeAll
          \/ closeAll' = [closeAll EXCEPT ![t] =
                IF @ = "pending" THEN "rejected" ELSE @]
      BY DEF PtyData, EscalateToSigkill, GiveUpTermination, NoticeExit,
             AppendSettles, Settle
    <2> QED BY <1>0, <2>1 DEF TypeOK
  <1>4. /\ finalization'[t].cause = finalization[t].cause
        /\ \/ finalization'[t].stage = finalization[t].stage
           \/ /\ finalization[t].stage \in {"sighup", "sigkill"}
              /\ finalization'[t].stage \in {"none", "sigkill", "draining"}
    <2>1. CASE PtyData(t)
      BY <2>1 DEF PtyData
    <2>2. CASE EscalateToSigkill(t)
      <3>1. PICK error : finalization' = [finalization EXCEPT
               ![t].stage = "sigkill", ![t].lifecycleError = error]
        BY <2>2 DEF EscalateToSigkill
      <3>2. finalization[t].stage = "sighup"
        BY <2>2 DEF EscalateToSigkill
      <3> QED BY <1>0, <3>1, <3>2 DEF TypeOK, Finalizations
    <2>3. CASE GiveUpTermination(t)
      BY <1>0, <2>3 DEF GiveUpTermination, TypeOK, Finalizations
    <2>4. CASE NoticeExit(t)
      <3>1. PICK awaited, error : finalization' = [finalization EXCEPT
               ![t].stage = "draining",
               ![t].awaited = awaited,
               ![t].lifecycleError = error]
        BY <2>4 DEF NoticeExit
      <3>2. finalization[t].stage \in {"sighup", "sigkill"}
        BY <2>4 DEF NoticeExit
      <3> QED BY <1>0, <3>1, <3>2 DEF TypeOK, Finalizations
    <2>5. CASE AppendSettles(t)
      <3>1. PICK awaited :
               finalization' = [finalization EXCEPT ![t].awaited = awaited]
        BY <2>5 DEF AppendSettles
      <3> QED BY <1>0, <3>1 DEF TypeOK, Finalizations
    <2> QED BY <2>1, <2>2, <2>3, <2>4, <2>5
  <1>5. finalization[t].stage = "resolved" =>
           output'[t].outputError = output[t].outputError
    <2>1. CASE PtyData(t)
      <3>1. \E emitted, early, queue : output' = [output EXCEPT
               ![t].emitted = emitted, ![t].early = early, ![t].queue = queue]
        BY <2>1 DEF PtyData
      <3> QED BY <1>0, <3>1 DEF TypeOK, Outputs
    <2>2. CASE AppendSettles(t)
      <3>1. output[t].queue # <<>>
        BY <2>2 DEF AppendSettles
      <3> QED BY <1>0, <3>1 DEF Contracted, Drains
    <2>3. CASE ~PtyData(t) /\ ~AppendSettles(t)
      BY <2>3 DEF EscalateToSigkill, GiveUpTermination, NoticeExit
    <2> QED BY <2>1, <2>2, <2>3
  <1>6. Resized(t) => Resized(t)'
    BY <1>1 DEF Resized
  <1> QED BY <1>0, <1>1, <1>2, <1>3, <1>4, <1>5, <1>6, AgreesStay

LEMMA QueueAgrees ==
  ASSUME AgreeInv, NEW t \in Terminals, Resize(t) \/ OutputDrained(t)
  PROVE  AgreesOf(t)'
  <1>0. /\ TypeOK /\ Contracted(t) /\ AgreesOf(t) /\ record[t] \in Records
        /\ record[t].queue \in Seq(Sizes)
        /\ finalization[t] \in Finalizations
    BY AgreeTypes
  <1>1. UNCHANGED <<creation, session, output, closeAll, history>>
    BY DEF Resize, OutputDrained
  <1>2. CASE Resize(t)
    <2>1. /\ record[t].resizes + 1 \in Sizes
          /\ record[t].resizes + 1 # ExitTransition
      BY <1>0, <1>2, TerminalManagerAssumption
         DEF Resize, Records, Sizes, ExitTransition
    <2>2. record'[t] = [record[t] EXCEPT
             !.resizes = record[t].resizes + 1,
             !.queue = Append(record[t].queue, record[t].resizes + 1)]
      BY <1>0, <1>2 DEF Resize, TypeOK
    <2>3. /\ record'[t].queue = Append(record[t].queue, record[t].resizes + 1)
          /\ record'[t].resizes = record[t].resizes + 1
          /\ record'[t].descriptor = record[t].descriptor
          /\ record'[t].row = record[t].row /\ record'[t].next = record[t].next
          /\ record'[t].error = record[t].error
      BY <1>0, <2>2 DEF Records
    <2>4. Resized(t)'
      BY <1>0, <2>1, <2>3, ResizedAppended
    <2>5. finalization' = finalization /\ finalization[t].stage = "none"
      BY <1>0, <1>2 DEF Resize, Contracted, Queued
    <2> QED BY <1>0, <1>1, <2>3, <2>4, <2>5, AgreesStay
  <1>3. CASE OutputDrained(t)
    <2>1. record'[t] = [record[t] EXCEPT
             !.queue = Append(record[t].queue, ExitTransition)]
      BY <1>0, <1>3 DEF OutputDrained, TypeOK
    <2>2. /\ record'[t].queue = Append(record[t].queue, ExitTransition)
          /\ record'[t].resizes = record[t].resizes
          /\ record'[t].descriptor = record[t].descriptor
          /\ record'[t].row = record[t].row /\ record'[t].next = record[t].next
          /\ record'[t].error = record[t].error
      BY <1>0, <2>1 DEF Records
    <2>3. Resized(t) => Resized(t)'
      BY <1>0, <2>2, ResizedAppended, Constants
    <2>4. /\ finalization[t].stage = "draining"
          /\ finalization'[t].stage = "updating"
          /\ finalization'[t].cause = finalization[t].cause
      BY <1>0, <1>3 DEF OutputDrained, TypeOK, Finalizations
    <2> QED BY <1>0, <1>1, <2>2, <2>3, <2>4, AgreesStay
  <1> QED BY <1>2, <1>3

\* A terminal whose finalization is started: the cause is what came first, and
\* a finalization that was started before goes on unchanged.
LEMMA StartAgrees ==
  ASSUME AgreeInv, NEW t \in Terminals, NEW kind \in {"close", "native"},
         NEW exit \in ExitCodes, NEW queue, NEW error,
         finalization[t].stage \in {"updating", "resolved", "rejected"} =>
            exit = session[t].exitCode,
         finalization'[t] = Started(t, kind, exit, queue, error),
         session'[t] = Quiesced(t, exit),
         history'[t].first = IF history[t].first = "none" THEN kind
                             ELSE history[t].first,
         history'[t].updateError = history[t].updateError,
         closeAll'[t] = "resolved" => finalization[t].stage = "resolved",
         creation'[t] = creation[t], output'[t] = output[t],
         record'[t] = record[t]
  PROVE  AgreesOf(t)'
  <1>0. /\ TypeOK /\ AgreesOf(t) /\ finalization[t] \in Finalizations
    BY AgreeTypes
  <1>1. session'[t].exitCode = exit
    BY <1>0, QuiescedKeeps
  <1>2. CASE finalization[t].stage # "none"
    <2>1. finalization'[t] = finalization[t]
      BY <1>2 DEF Started
    <2>2. history'[t].first = history[t].first
      BY <1>0, <1>2 DEF AgreesOf, CauseFollows
    <2>3. RowFollows(t)'
      BY <1>0 DEF AgreesOf, RowFollows, Resized
    <2>4. CauseFollows(t)'
      BY <1>0, <1>1, <2>1, <2>2 DEF AgreesOf, CauseFollows, CauseCode
    <2>5. ClosesClean(t)'
      BY <1>0, <2>1 DEF AgreesOf, ClosesClean
    <2> QED BY <2>3, <2>4, <2>5 DEF AgreesOf
  <1>3. CASE finalization[t].stage = "none"
    <2>1. /\ finalization'[t].stage \in {"sighup", "draining"}
          /\ finalization'[t].cause = FirstCause(finalization[t], kind)
      BY <1>3 DEF Started
    <2>2. /\ finalization'[t].cause = history'[t].first
          /\ finalization'[t].cause # "none"
      BY <1>0, <2>1 DEF AgreesOf, CauseFollows, FirstCause
    <2>3. RowFollows(t)'
      BY <1>0 DEF AgreesOf, RowFollows, Resized
    <2>4. CauseFollows(t)'
      BY <1>0, <1>3, <2>2 DEF AgreesOf, CauseFollows
    <2>5. ClosesClean(t)'
      BY <1>0, <1>3, <2>1 DEF AgreesOf, ClosesClean
    <2> QED BY <2>3, <2>4, <2>5 DEF AgreesOf
  <1> QED BY <1>2, <1>3

LEMMA CloseStartsAgrees ==
  ASSUME AgreeInv, NEW S \in SUBSET Terminals, NEW error,
         CloseStarts(S, error), NEW u \in Terminals,
         closeAll'[u] = "resolved" => finalization[u].stage = "resolved"
  PROVE  AgreesOf(u)'
  <1>0. /\ TypeOK /\ AgreesOf(u) /\ session[u].exitCode \in ExitCodes
        /\ UNCHANGED <<creation, output, record>>
    BY AgreeTypes DEF CloseStarts, Sessions
  <1>1. CASE u \notin S
    <2>1. /\ finalization'[u] = finalization[u] /\ session'[u] = session[u]
          /\ history'[u] = history[u]
      BY <1>1 DEF CloseStarts
    <2>2. RowFollows(u)' /\ CauseFollows(u)'
      BY <1>0, <2>1 DEF AgreesOf, RowFollows, Resized, CauseFollows, CauseCode
    <2>3. ClosesClean(u)'
      BY <1>0, <2>1 DEF AgreesOf, ClosesClean
    <2> QED BY <2>2, <2>3 DEF AgreesOf
  <1>2. CASE u \in S
    <2>1. /\ finalization'[u] = Started(u, "close", session[u].exitCode,
                                        output[u].queue, error[u])
          /\ session'[u] = Quiesced(u, session[u].exitCode)
      BY <1>2 DEF CloseStarts
    <2>2. /\ history'[u].first = IF history[u].first = "none" THEN "close"
                                 ELSE history[u].first
          /\ history'[u].updateError = history[u].updateError
      BY <1>0, <1>2 DEF CloseStarts, TypeOK, Histories
    <2> QED BY <1>0, <2>1, <2>2, StartAgrees
  <1> QED BY <1>1, <1>2

LEMMA PtyExitAgrees ==
  ASSUME AgreeInv, SqliteRepository = TRUE, NEW t \in Terminals, PtyExit(t)
  PROVE  AgreesOf(t)'
  <1>0. /\ TypeOK /\ Contracted(t) /\ AgreesOf(t) /\ MicrotasksRun
        /\ session[t] \in Sessions
        /\ UNCHANGED <<creation, output, record, closeAll>>
    BY AgreeTypes DEF PtyExit
  <1>1. CASE ~session[t].subscribed
    <2>1. UNCHANGED <<session, finalization, history>>
      BY <1>1 DEF PtyExit
    <2> QED BY <1>0, <2>1, AgreesStay DEF Resized
  <1>2. CASE session[t].subscribed
    <2>1. session[t].subscribed = TRUE
      BY <1>0, <1>2 DEF Sessions
    <2>2. creation[t] = "created"
      BY <1>0, <2>1, HeardIsCreated DEF AgreeInv
    <2>3. /\ history'[t].first = IF history[t].first = "none" THEN "native"
                                 ELSE history[t].first
          /\ history'[t].updateError = history[t].updateError
      BY <1>0, <1>2 DEF PtyExit, TypeOK, Histories
    <2>4. PICK code, error :
             /\ code \in NativeCodes
             /\ session' = [session EXCEPT ![t] = Quiesced(t, code)]
             /\ finalization' = [finalization EXCEPT ![t] =
                   Started(t, "native", code, output[t].queue, error)]
      BY <1>2, <2>2 DEF PtyExit
    <2>5. /\ session'[t] = Quiesced(t, code)
          /\ finalization'[t] =
                Started(t, "native", code, output[t].queue, error)
      BY <1>0, <2>4 DEF TypeOK
    <2>6. code \in ExitCodes
      BY <2>4, Constants
    <2>7. finalization[t].stage \notin {"updating", "resolved", "rejected"}
      BY <1>0, <2>1 DEF Contracted, Drains
    <2>8. closeAll'[t] = "resolved" => finalization[t].stage = "resolved"
      BY <1>0 DEF AgreesOf, ClosesClean
    <2> QED BY <1>0, <2>3, <2>5, <2>6, <2>7, <2>8, StartAgrees
  <1> QED BY <1>1, <1>2

LEMMA UpdateStartsAgrees ==
  ASSUME AgreeInv, NEW t \in Terminals, UpdateStarts(t)
  PROVE  AgreesOf(t)'
  <1>0. /\ TypeOK /\ Contracted(t) /\ AgreesOf(t) /\ record[t] \in Records
        /\ record[t].queue \in Seq(Sizes) /\ record[t].queue # <<>>
        /\ record[t].next = NoDescriptor
        /\ UNCHANGED <<creation, session, output, finalization, closeAll>>
    BY AgreeTypes DEF UpdateStarts
  <1>1. PICK error \in Errors :
           /\ record'[t] = [record[t] EXCEPT
                 !.next = Transitioned(t), !.error = error,
                 !.row = IF error = "error" THEN @
                         ELSE Update(@, Transitioned(t))]
           /\ history'[t] = [history[t] EXCEPT
                 !.updateError = Coalesce(@, error)]
    <2>1. PICK error \in Errors :
             /\ record' = [record EXCEPT
                   ![t].next = Transitioned(t), ![t].error = error,
                   ![t].row = IF error = "error" THEN @
                              ELSE Update(@, Transitioned(t))]
             /\ history' = [history EXCEPT
                   ![t].updateError = Coalesce(@, error)]
      BY ErrorsTyped DEF UpdateStarts
    <2> QED BY <1>0, <2>1 DEF TypeOK
  <1>2. /\ record'[t].next = Transitioned(t)
        /\ record'[t].error = error
        /\ record'[t].queue = record[t].queue
        /\ record'[t].descriptor = record[t].descriptor
        /\ record'[t].resizes = record[t].resizes
        /\ record'[t].row = IF error = "error" THEN record[t].row
                            ELSE Update(record[t].row, Transitioned(t))
    BY <1>0, <1>1 DEF Records
  <1>3. /\ history'[t].first = history[t].first
        /\ history'[t].updateError = "undefined" =>
              history[t].updateError = "undefined" /\ error # "error"
        /\ error = "error" \/ error = "undefined"
    BY <1>0, <1>1, AgreeTypes DEF Histories, Coalesce, Errors
  <1>4. /\ creation[t] = "created"
        /\ record[t].descriptor.state \notin {"none", "exited"}
    BY <1>0 DEF Contracted, NotYet, Queued
  <1>5. /\ Head(record[t].queue) # ExitTransition =>
              Transitioned(t).state = record[t].descriptor.state
        /\ Head(record[t].queue) = ExitTransition =>
              /\ Transitioned(t).state = "exited"
              /\ Transitioned(t).exitCode = CauseCode(t)
              /\ finalization[t].stage = "updating"
    <2>1. Head(record[t].queue) = ExitTransition =>
             finalization[t].stage = "updating"
      BY <1>0, ExitingQueues DEF Contracted, Queued
    <2> QED BY <1>0, <2>1 DEF Transitioned, Exited, Records, Descriptors
  <1>6. Transitioned(t) # NoDescriptor
    BY <1>4, <1>5 DEF NoDescriptor
  <1>7. RowFollows(t)'
    <2> SUFFICES ASSUME history'[t].updateError = "undefined"
                 PROVE  /\ record'[t].error = "undefined"
                        /\ record'[t].row = record'[t].next
                        /\ record'[t].next # NoDescriptor
                        /\ Resized(t)'
      BY DEF RowFollows
    <2>1. /\ record[t].row = record[t].descriptor /\ Resized(t)
          /\ error = "undefined"
      BY <1>0, <1>3, <1>4 DEF AgreesOf, RowFollows
    <2>2. record[t].row # NoDescriptor
      BY <1>4, <2>1 DEF NoDescriptor
    <2>3. Resized(t)'
      BY <1>2, <2>1 DEF Resized
    <2> QED BY <1>2, <1>6, <2>1, <2>2, <2>3 DEF Update
  <1>8. CauseFollows(t)'
    <2>1. \/ record'[t].row = record[t].row
          \/ record'[t].row = Transitioned(t)
      BY <1>2 DEF Update
    <2>2. CauseCode(t)' = CauseCode(t)
      BY <1>0 DEF CauseCode
    <2> QED BY <1>0, <1>3, <1>4, <1>5, <2>1, <2>2 DEF AgreesOf, CauseFollows
  <1>9. ClosesClean(t)'
    <2>1. finalization[t].stage # "resolved"
      BY <1>0 DEF AgreesOf, ClosesClean
    <2> QED BY <1>0, <1>2, <2>1 DEF AgreesOf, ClosesClean, Update
  <1> QED BY <1>7, <1>8, <1>9 DEF AgreesOf

\* A resize that was queued is in the descriptor once its turn came.
LEMMA ResizedSettles ==
  ASSUME NEW t \in Terminals, record[t] \in Records, Queued(t), Resized(t),
         record[t].queue # <<>>, record'[t].queue = Tail(record[t].queue),
         record'[t].resizes = record[t].resizes,
         record'[t].descriptor.size =
            IF Head(record[t].queue) = ExitTransition
            THEN record[t].descriptor.size ELSE Head(record[t].queue)
  PROVE  Resized(t)'
  <1> DEFINE q == record[t].queue
             r == record'[t].queue
             n == record[t].resizes
             size == record[t].descriptor.size
  <1>1. /\ Len(q) \in Nat /\ Len(r) \in Nat /\ Len(q) = Len(r) + 1
        /\ Head(q) = q[1] /\ q[1] \in Sizes /\ 1 \in 1..Len(q)
        /\ \A i \in 1..Len(r) : r[i] = q[i + 1]
    <2>1. q \in Seq(Sizes)
      BY DEF Records
    <2> QED BY <2>1, TailOf
  <1>2. size \in Int /\ n \in Int
    BY TerminalManagerAssumption DEF Records, Descriptors, Sizes
  <1>3. q[1] # ExitTransition => size < q[1] /\ q[1] =< n
    BY <1>1 DEF Queued, Ascending
  <1>4. q[1] \in Int
    BY <1>1 DEF Sizes
  <1> HIDE DEF q, r, n, size
  <1>5. CASE n = size
    <2>1. q[1] = ExitTransition
      BY <1>2, <1>3, <1>4, <1>5
    <2> QED BY <1>1, <1>5, <2>1 DEF Resized, q, n, size
  <1>6. CASE n # size
    <2>1. PICK i \in 1..Len(q) : q[i] = n /\ q[i] # ExitTransition
      BY <1>6 DEF Resized, q, n, size
    <2>2. CASE i = 1
      BY <1>1, <2>1, <2>2 DEF Resized, q, n
    <2>3. CASE i # 1
      <3>1. i - 1 \in 1..Len(r) /\ r[i - 1] = n /\ r[i - 1] # ExitTransition
        BY <1>1, <2>1, <2>3
      <3> QED BY <3>1 DEF Resized, r, n
    <2> QED BY <2>2, <2>3
  <1> QED BY <1>5, <1>6

LEMMA SettledAgrees ==
  ASSUME AgreeInv, NEW t \in Terminals,
         ResizeSettles(t) \/ FinalizationSettles(t)
  PROVE  AgreesOf(t)'
  <1>0. /\ TypeOK /\ Contracted(t) /\ AgreesOf(t) /\ record[t] \in Records
        /\ record[t].queue \in Seq(Sizes)
        /\ session[t] \in Sessions /\ finalization[t] \in Finalizations
        /\ UNCHANGED <<creation, output, history>>
        /\ UpdateSettled(t) /\ record[t].next # NoDescriptor
    BY AgreeTypes DEF ResizeSettles, FinalizationSettles, UpdateSettled
  <1>1. /\ record[t].queue # <<>> /\ creation[t] = "created" /\ Queued(t)
        /\ record[t].descriptor.state # "exited"
        /\ finalization[t].stage # "resolved"
    BY <1>0 DEF Contracted, InFlight, NotYet, Queued, AgreesOf, ClosesClean
  <1>2. /\ record'[t].queue = Tail(record[t].queue)
        /\ record'[t].next = NoDescriptor /\ record'[t].error = "undefined"
        /\ record'[t].resizes = record[t].resizes
        /\ record'[t].row = record[t].row
        /\ record'[t].descriptor = IF record[t].error = "error"
                                   THEN record[t].descriptor ELSE record[t].next
    <2>1. record'[t] = [record[t] EXCEPT
             !.queue = Tail(@), !.next = NoDescriptor, !.error = "undefined",
             !.descriptor = IF record[t].error = "error" THEN @
                            ELSE record[t].next,
             !.announced = IF record[t].error = "error" THEN @
                           ELSE Append(@, record[t].next)]
      BY <1>0 DEF UpdateSettled, TypeOK
    <2> QED BY <1>0, <2>1 DEF Records
  <1>3. /\ record[t].next.size =
              IF Head(record[t].queue) = ExitTransition
              THEN record[t].descriptor.size ELSE Head(record[t].queue)
        /\ Head(record[t].queue) = ExitTransition =>
              record[t].next.state = "exited"
    <2>1. record[t].descriptor \in Descriptors
      BY <1>0 DEF Records
    <2> QED BY <1>0, <2>1 DEF Contracted, InFlight, Exited, Descriptors
  <1>4. RowFollows(t)'
    <2> SUFFICES ASSUME history[t].updateError = "undefined"
                 PROVE  /\ record'[t].row = record'[t].descriptor
                        /\ Resized(t)'
      BY <1>0, <1>2 DEF RowFollows
    <2>1. /\ record[t].error = "undefined" /\ record[t].row = record[t].next
          /\ Resized(t)
      BY <1>0, <1>1 DEF AgreesOf, RowFollows
    <2>2. record'[t].descriptor = record[t].next
      BY <1>2, <2>1
    <2>3. Resized(t)'
      BY <1>0, <1>1, <1>2, <1>3, <2>1, <2>2, ResizedSettles
    <2> QED BY <1>2, <2>1, <2>2, <2>3
  <1>5. /\ finalization'[t].cause = finalization[t].cause
        /\ session'[t].exitCode = session[t].exitCode
        /\ \/ /\ finalization'[t] = finalization[t]
              /\ closeAll' = closeAll
           \/ /\ Head(record[t].queue) = ExitTransition
              /\ finalization[t].stage = "updating"
              /\ finalization'[t].stage = "rejected"
              /\ closeAll'[t] # "resolved" \/ closeAll'[t] = closeAll[t]
           \/ /\ Head(record[t].queue) = ExitTransition
              /\ finalization[t].stage = "updating"
              /\ finalization'[t].stage = "resolved"
              /\ record[t].error = "undefined"
              /\ output[t].outputError = "undefined"
    <2>1. CASE ResizeSettles(t)
      BY <2>1 DEF ResizeSettles
    <2>2. CASE FinalizationSettles(t)
      <3>1. /\ Head(record[t].queue) = ExitTransition
            /\ session' = [session EXCEPT ![t].pty = FALSE]
        BY <2>2 DEF FinalizationSettles
      <3>2. finalization[t].stage = "updating"
        BY <1>0, <1>1, <3>1, ExitingQueues DEF Queued
      <3>3. PICK outcome \in {"resolved", "rejected"} :
               /\ finalization' = [finalization EXCEPT ![t].stage = outcome]
               /\ closeAll' = [closeAll EXCEPT ![t] =
                     IF @ = "pending" THEN outcome ELSE @]
               /\ outcome = "resolved" => /\ record[t].error = "undefined"
                                          /\ output[t].outputError = "undefined"
        BY <2>2 DEF FinalizationSettles, Settle
      <3>4. /\ finalization'[t].stage = outcome
            /\ finalization'[t].cause = finalization[t].cause
            /\ session'[t].exitCode = session[t].exitCode
        BY <1>0, <3>1, <3>3 DEF TypeOK, Finalizations, Sessions
      <3>5. closeAll'[t] = IF closeAll[t] = "pending" THEN outcome
                           ELSE closeAll[t]
        BY <1>0, <3>3 DEF TypeOK
      <3> QED BY <3>1, <3>2, <3>3, <3>4, <3>5
    <2> QED BY <2>1, <2>2
  <1>6. CauseFollows(t)'
    BY <1>0, <1>1, <1>2, <1>5 DEF AgreesOf, CauseFollows, CauseCode
  <1>7. ClosesClean(t)'
    <2>1. finalization'[t].stage = "resolved" =>
             /\ output[t].outputError = "undefined"
             /\ record[t].row.state # "running"
             /\ Tail(record[t].queue) = <<>>
      <3> SUFFICES ASSUME finalization'[t].stage = "resolved"
                   PROVE  /\ output[t].outputError = "undefined"
                          /\ record[t].row.state # "running"
                          /\ Tail(record[t].queue) = <<>>
        OBVIOUS
      <3>1. /\ Head(record[t].queue) = ExitTransition
            /\ record[t].error = "undefined"
            /\ output[t].outputError = "undefined"
        BY <1>1, <1>5
      <3>2. record[t].row \in {NoDescriptor, record[t].next}
        BY <1>0, <3>1 DEF AgreesOf, ClosesClean
      <3>3. record[t].row.state # "running"
        BY <1>3, <3>1, <3>2 DEF NoDescriptor
      <3>4. \A i \in 1..Len(record[t].queue) :
               record[t].queue[i] = ExitTransition => i = Len(record[t].queue)
        <4>1. Len(record[t].queue) \in Nat
          BY <1>0
        <4> QED BY <1>1, <4>1 DEF Queued, Ascending
      <3>5. Tail(record[t].queue) = <<>>
        BY <1>0, <1>1, <3>1, <3>4, LastOfTail
      <3> QED BY <3>1, <3>3, <3>5
    <2>2. closeAll'[t] = "resolved" => finalization'[t].stage = "resolved"
      <3>1. CASE finalization'[t] = finalization[t] /\ closeAll' = closeAll
        BY <1>0, <3>1 DEF AgreesOf, ClosesClean
      <3>2. CASE /\ closeAll'[t] # "resolved" \/ closeAll'[t] = closeAll[t]
                 /\ finalization'[t].stage = "rejected"
        BY <1>0, <1>1, <3>2 DEF AgreesOf, ClosesClean
      <3>3. CASE finalization'[t].stage = "resolved"
        BY <3>3
      <3> QED BY <1>5, <3>1, <3>2, <3>3
    <2> QED BY <1>0, <1>2, <2>1, <2>2 DEF ClosesClean
  <1> QED BY <1>4, <1>6, <1>7 DEF AgreesOf

LEMMA StepAgrees ==
  ASSUME AgreeInv, SqliteRepository = TRUE, [Next]_vars
  PROVE  AgreeInv'
  <1>1. /\ ContractInv /\ OutputInv /\ TypeOK
        /\ \A u \in Terminals : AgreesOf(u)
    BY DEF AgreeInv, ContractInv, ExitInv, TypeInv
  <1>2. ContractInv' /\ OutputInv'
    BY <1>1, StepContracted, StepOutputInv
  <1> SUFFICES ASSUME NEW u \in Terminals
               PROVE  AgreesOf(u)'
    BY <1>2 DEF AgreeInv
  <1>3. ASSUME NEW t \in Terminals, StepOf(t)
        PROVE  AgreesOf(u)'
    <2>1. CASE u = t
      BY <1>3, <2>1, CreationAgrees, QuietAgrees, QueueAgrees, PtyExitAgrees,
         UpdateStartsAgrees, SettledAgrees DEF StepOf
    <2>2. CASE u # t
      <3>1. /\ Same(u) /\ history'[u] = history[u] /\ closeAll'[u] = closeAll[u]
        BY <1>1, <1>3, <2>2, OthersSame, OthersHistory
      <3> QED BY <1>1, <3>1, AgreesStay DEF Same, Resized
    <2> QED BY <2>1, <2>2
  <1>4. ASSUME NEW t \in Terminals, Close(t)
        PROVE  AgreesOf(u)'
    <2>1. PICK error : CloseStarts({t}, [v \in Terminals |-> error])
      BY <1>4 DEF Close
    <2>2. closeAll'[u] = "resolved" => finalization[u].stage = "resolved"
      BY <1>1, <1>4 DEF Close, AgreesOf, ClosesClean
    <2> QED BY <2>1, <2>2, CloseStartsAgrees
  <1>5. CASE CloseAll
    <2> DEFINE opened == {v \in Terminals : InMap(v)}
    <2>1. PICK error : CloseStarts(opened, error)
      BY <1>5 DEF CloseAll
    <2>2. closeAll'[u] = "resolved" => finalization[u].stage = "resolved"
      BY <1>5 DEF CloseAll
    <2>3. opened \in SUBSET Terminals
      OBVIOUS
    <2> HIDE DEF opened
    <2> QED BY <2>1, <2>2, <2>3, CloseStartsAgrees
  <1>6. CASE UNCHANGED vars
    BY <1>1, <1>6, AgreesStay DEF vars, Resized
  <1> QED BY <1>3, <1>4, <1>5, <1>6 DEF Next, StepOf

\* Over the shipped repository the first of a close and the native exit decides
\* the exit code that is recorded; row, descriptor and announcements agree
\* between transitions, with every resize that was accepted; and closeAll()
\* fulfils only with the process dead, the row exited and the output published
\* (finalizationCause, enqueueDescriptorTransition and closeAll of manager.ts).
THEOREM RecordsAgree ==
  ASSUME SqliteRepository = TRUE
  PROVE  Spec => [](FirstCauseWins /\ RecordAgrees /\ CloseAllMeansClosed)
  <1>1. Init => AgreeInv
    BY InitAgrees
  <1>2. AgreeInv /\ [Next]_vars => AgreeInv'
    BY StepAgrees
  <1>3. AgreeInv => FirstCauseWins
    BY DEF AgreeInv, AgreesOf, CauseFollows, CauseCode, FirstCauseWins
  <1>4. AgreeInv => RecordAgrees
    <2> SUFFICES ASSUME AgreeInv, NEW t \in Terminals, creation[t] = "created",
                        record[t].next = NoDescriptor,
                        history[t].updateError = "undefined"
                 PROVE  /\ record[t].queue = <<>> =>
                              record[t].row.size = record[t].resizes
                        /\ record[t].row = record[t].descriptor
                        /\ record[t].row =
                              record[t].announced[Len(record[t].announced)]
      BY DEF RecordAgrees
    <2>1. Contracted(t) /\ AgreesOf(t)
      BY AgreeTypes
    <2>2. record[t].row = record[t].descriptor /\ Resized(t)
      BY <2>1 DEF AgreesOf, RowFollows
    <2>3. record[t].queue = <<>> =>
             record[t].descriptor.size = record[t].resizes
      BY <2>2 DEF Resized
    <2>4. record[t].announced[Len(record[t].announced)] = record[t].descriptor
      BY <2>1 DEF Contracted, Announces, Shown
    <2> QED BY <2>2, <2>3, <2>4
  <1>5. AgreeInv => CloseAllMeansClosed
    <2> SUFFICES ASSUME AgreeInv, NEW t \in Terminals, closeAll[t] = "resolved"
                 PROVE  /\ process[t] = "exited"
                        /\ record[t].row.state # "running"
                        /\ Len(output[t].published) = output[t].emitted
      BY DEF CloseAllMeansClosed
    <2>1. /\ Contracted(t) /\ AgreesOf(t) /\ output[t] \in Outputs
          /\ ExitKnown(t) /\ FinalizedAfterExit(t) /\ OutputOf(t)
      BY AgreeTypes DEF AgreeInv, ContractInv, ExitInv, OutputInv
    <2>2. /\ finalization[t].stage = "resolved"
          /\ output[t].outputError = "undefined"
          /\ record[t].row.state # "running"
      BY <2>1 DEF AgreesOf, ClosesClean
    <2>3. process[t] = "exited"
      BY <2>1, <2>2 DEF ExitKnown, FinalizedAfterExit
    <2>4. /\ creation[t] = "created"
          /\ output[t].queue = <<>> /\ output[t].early = <<>>
      BY <2>1, <2>2 DEF Contracted, NotYet, Drains, Speaks
    <2>5. Consecutive(output[t].published, <<>>, <<>>, output[t].emitted)
      BY <2>1, <2>2, <2>4 DEF OutputOf
    <2>6. Len(output[t].published) = output[t].emitted
      <3>1. /\ Len(output[t].published) \in Nat /\ Len(<<>>) = 0
        BY <2>1 DEF Outputs
      <3> QED BY <2>5, <3>1 DEF Consecutive
    <2> QED BY <2>2, <2>3, <2>6
  <1> QED BY <1>1, <1>2, <1>3, <1>4, <1>5, PTL DEF Spec

-----------------------------------------------------------------------------
(* What lasts.  A process that outlives the steps of the manager, or the    *)
(* row that outlives the process, needs what AgreeInv leaves out: a created *)
(* terminal has a row, no other has one, and a row that is exited is that   *)
(* of the last transition.                                                  *)

RowKept(t) ==
    /\ creation[t] \in {"saving", "created"} => record[t].row.state # "none"
    /\ creation[t] \notin {"saving", "created"} => record[t].row = NoDescriptor
    /\ record[t].row.state = "exited" =>
          \/ record[t].descriptor.state = "exited"
          \/ record[t].next.state = "exited" /\ record[t].error = "undefined"

DurableInv == AgreeInv /\ \A t \in Terminals : RowKept(t)

\* What no step undoes: an exit that is in the row, and a finalization without
\* an error.
Lasts(t) ==
    /\ record[t].row.state = "exited" => record'[t].row = record[t].row
    /\ finalization[t].stage = "resolved" => finalization'[t].stage = "resolved"

LEMMA InitDurable == Init => DurableInv
  <1> SUFFICES ASSUME Init
               PROVE  DurableInv
    OBVIOUS
  <1>1. ASSUME NEW t \in Terminals PROVE RowKept(t)
    BY DEF Init, RowKept, NoRecord, NoDescriptor
  <1> QED BY <1>1, InitAgrees DEF DurableInv

LEMMA CreationLasts ==
  ASSUME DurableInv, NEW t \in Terminals,
         SqliteRepository = TRUE,
         \/ Create(t) \/ CreateWithoutListeners(t) \/ CreateResumes(t)
         \/ RollbackCreation(t)
  PROVE  RowKept(t)' /\ Lasts(t)
  <1>0. /\ TypeOK /\ RowKept(t) /\ record[t] \in Records
        /\ Contracted(t) /\ creation[t] # "created"
    BY AgreeTypes DEF DurableInv, Create, CreateWithoutListeners, CreateResumes,
                      RollbackCreation
  <1>1. FirstDescriptor.state = "running" /\ NoDescriptor.state = "none"
    BY DEF FirstDescriptor, NoDescriptor
  <1>2. finalization[t].stage # "resolved"
    BY <1>0 DEF Contracted, NotYet
  <1>3. CASE Create(t)
    <2>1. \/ creation'[t] = "saving" /\ record'[t].row = FirstDescriptor
          \/ creation'[t] = "saveFailing" /\ record'[t].row = NoDescriptor
      BY <1>0, <1>3 DEF Create, TypeOK, Records
    <2>2. record[t].row = NoDescriptor
      BY <1>0, <1>3 DEF Create, RowKept
    <2> QED BY <1>1, <1>2, <2>1, <2>2 DEF RowKept, Lasts
  <1>4. CASE CreateWithoutListeners(t)
    <2>1. creation'[t] = "rolledBack" /\ record'[t].row = record[t].row
      BY <1>0, <1>4 DEF CreateWithoutListeners, TypeOK, Records
    <2>2. record[t].row = NoDescriptor
      BY <1>0, <1>4 DEF CreateWithoutListeners, RowKept
    <2> QED BY <1>1, <1>2, <2>1, <2>2 DEF RowKept, Lasts
  <1>5. CASE CreateResumes(t)
    <2>1. /\ creation[t] = "saving" /\ creation'[t] = "created"
          /\ record'[t].row = record[t].row
          /\ record'[t].descriptor = record[t].descriptor
          /\ record'[t].next = record[t].next
          /\ record'[t].error = record[t].error
      BY <1>0, <1>5 DEF CreateResumes, TypeOK, Records
    <2> QED BY <1>0, <1>2, <2>1 DEF RowKept, Lasts
  <1>6. CASE RollbackCreation(t)
    <2>1. /\ creation[t] = "saveFailing" /\ creation'[t] = "rolledBack"
          /\ \/ record' = record
             \/ record' = [record EXCEPT ![t].row = RolledBack(t)]
      BY <1>0, <1>6 DEF RollbackCreation, TypeOK
    <2>2. record[t].row = NoDescriptor
      BY <1>0, <2>1 DEF RowKept
    <2>3. RolledBack(t) = NoDescriptor
      BY <2>2 DEF RolledBack, Update
    <2>4. record'[t].row = NoDescriptor
      BY <1>0, <2>1, <2>2, <2>3 DEF TypeOK, Records
    <2> QED BY <1>1, <1>2, <2>1, <2>2, <2>4 DEF RowKept, Lasts
  <1> QED BY <1>3, <1>4, <1>5, <1>6

LEMMA UpdateLasts ==
  ASSUME DurableInv, NEW t \in Terminals, UpdateStarts(t)
  PROVE  RowKept(t)' /\ Lasts(t)
  <1>0. /\ TypeOK /\ RowKept(t) /\ record[t] \in Records
        /\ Contracted(t) /\ record[t].queue # <<>>
        /\ record[t].next = NoDescriptor
        /\ UNCHANGED <<creation, finalization>>
    BY AgreeTypes DEF DurableInv, UpdateStarts
  <1>1. PICK error \in Errors :
           record' = [record EXCEPT
              ![t].next = Transitioned(t), ![t].error = error,
              ![t].row = IF error = "error" THEN @
                         ELSE Update(@, Transitioned(t))]
    BY ErrorsTyped DEF UpdateStarts
  <1>2. /\ record'[t].next = Transitioned(t) /\ record'[t].error = error
        /\ record'[t].row = IF error = "error" THEN record[t].row
                            ELSE Update(record[t].row, Transitioned(t))
    BY <1>0, <1>1 DEF TypeOK, Records
  <1>3. creation[t] = "created" /\ record[t].descriptor.state \notin {"none", "exited"}
    BY <1>0 DEF Contracted, NotYet, Queued
  <1>4. record[t].row.state \notin {"none", "exited"}
    BY <1>0, <1>3 DEF RowKept, NoDescriptor
  <1>5. Transitioned(t).state # "none"
    <2>1. record[t].descriptor \in Descriptors
      BY <1>0 DEF Records
    <2> QED BY <1>3, <2>1 DEF Transitioned, Exited, Descriptors
  <1>6. \/ record'[t].row = record[t].row
        \/ record'[t].row = Transitioned(t) /\ error = "undefined"
    BY <1>2 DEF Update, Errors
  <1> QED BY <1>0, <1>2, <1>3, <1>4, <1>5, <1>6 DEF RowKept, Lasts

LEMMA SettlesLasts ==
  ASSUME DurableInv, NEW t \in Terminals,
         ResizeSettles(t) \/ FinalizationSettles(t)
  PROVE  RowKept(t)' /\ Lasts(t)
  <1>0. /\ TypeOK /\ RowKept(t) /\ record[t] \in Records
        /\ Contracted(t) /\ AgreesOf(t) /\ creation' = creation
        /\ UpdateSettled(t) /\ record[t].next # NoDescriptor
    BY AgreeTypes DEF DurableInv, ResizeSettles, FinalizationSettles,
                      UpdateSettled
  <1>1. record[t].queue # <<>> /\ finalization[t].stage # "resolved"
    BY <1>0 DEF Contracted, InFlight, AgreesOf, ClosesClean
  <1>2. record[t].descriptor.state # "exited"
    BY <1>0, <1>1 DEF Contracted, Queued
  <1>3. /\ record'[t].row = record[t].row
        /\ record'[t].descriptor = IF record[t].error = "error"
                                   THEN record[t].descriptor ELSE record[t].next
    <2>1. record'[t] = [record[t] EXCEPT
             !.queue = Tail(@), !.next = NoDescriptor, !.error = "undefined",
             !.descriptor = IF record[t].error = "error" THEN @
                            ELSE record[t].next,
             !.announced = IF record[t].error = "error" THEN @
                           ELSE Append(@, record[t].next)]
      BY <1>0 DEF UpdateSettled, TypeOK
    <2> QED BY <1>0, <2>1 DEF Records
  <1> QED BY <1>0, <1>1, <1>2, <1>3 DEF RowKept, Lasts

\* A step that writes none of it.
LEMMA OthersLast ==
  ASSUME NEW t \in Terminals, RowKept(t), creation'[t] = creation[t],
         record'[t].row = record[t].row,
         record'[t].descriptor = record[t].descriptor,
         record'[t].next = record[t].next, record'[t].error = record[t].error,
         finalization[t].stage = "resolved" => finalization'[t].stage = "resolved"
  PROVE  RowKept(t)' /\ Lasts(t)
  BY DEF RowKept, Lasts

LEMMA StartedJoins ==
  ASSUME NEW t \in Terminals, NEW kind, NEW exit, NEW queue, NEW error,
         finalization[t].stage # "none"
  PROVE  Started(t, kind, exit, queue, error) = finalization[t]
  BY DEF Started

LEMMA QuietLasts ==
  ASSUME DurableInv, NEW t \in Terminals,
         \/ PtyData(t) \/ PtyExit(t) \/ Resize(t) \/ EscalateToSigkill(t)
         \/ GiveUpTermination(t) \/ NoticeExit(t) \/ OutputDrained(t)
         \/ AppendSettles(t)
  PROVE  RowKept(t)' /\ Lasts(t)
  <1>0. /\ TypeOK /\ RowKept(t) /\ record[t] \in Records /\ creation' = creation
        /\ finalization[t] \in Finalizations
    BY AgreeTypes DEF DurableInv, PtyData, PtyExit, Resize, EscalateToSigkill,
                      GiveUpTermination, NoticeExit, OutputDrained,
                      AppendSettles
  <1>1. /\ record'[t].row = record[t].row
        /\ record'[t].descriptor = record[t].descriptor
        /\ record'[t].next = record[t].next
        /\ record'[t].error = record[t].error
    <2>1. CASE Resize(t)
      BY <1>0, <2>1 DEF Resize, TypeOK, Records
    <2>2. CASE OutputDrained(t)
      BY <1>0, <2>2 DEF OutputDrained, TypeOK, Records
    <2>3. CASE ~Resize(t) /\ ~OutputDrained(t)
      BY <2>3 DEF PtyData, PtyExit, EscalateToSigkill, GiveUpTermination,
                  NoticeExit, AppendSettles
    <2> QED BY <2>1, <2>2, <2>3
  <1>2. finalization[t].stage = "resolved" => finalization'[t].stage = "resolved"
    <2>1. CASE PtyExit(t)
      <3>1. CASE finalization' = finalization
        BY <3>1
      <3>2. ASSUME NEW kind, NEW exit, NEW queue, NEW error,
                   finalization' = [finalization EXCEPT ![t] =
                      Started(t, kind, exit, queue, error)]
            PROVE  finalization[t].stage = "resolved" =>
                      finalization'[t].stage = "resolved"
        BY <1>0, <3>2, StartedJoins DEF TypeOK
      <3> QED BY <2>1, <3>1, <3>2 DEF PtyExit
    <2>2. CASE AppendSettles(t)
      <3>1. PICK awaited :
               finalization' = [finalization EXCEPT ![t].awaited = awaited]
        BY <2>2 DEF AppendSettles
      <3> QED BY <1>0, <3>1 DEF TypeOK, Finalizations
    <2>3. CASE ~PtyExit(t) /\ ~AppendSettles(t)
      BY <2>3 DEF PtyData, Resize, EscalateToSigkill, GiveUpTermination,
                  NoticeExit, OutputDrained
    <2> QED BY <2>1, <2>2, <2>3
  <1> QED BY <1>0, <1>1, <1>2, OthersLast

LEMMA CloseLasts ==
  ASSUME DurableInv, CloseAll \/ (\E t \in Terminals : Close(t)),
         NEW u \in Terminals
  PROVE  RowKept(u)' /\ Lasts(u)
  <1>0. TypeOK /\ RowKept(u)
    BY AgreeTypes DEF DurableInv
  <1>1. PICK S, error : CloseStarts(S, error)
    BY DEF CloseAll, Close
  <1>2. UNCHANGED <<creation, record>>
    BY <1>1 DEF CloseStarts
  <1>3. \/ finalization'[u] = finalization[u]
        \/ finalization'[u] = Started(u, "close", session[u].exitCode,
                                      output[u].queue, error[u])
    BY <1>1 DEF CloseStarts
  <1>4. finalization[u].stage = "resolved" => finalization'[u].stage = "resolved"
    BY <1>3, StartedJoins
  <1> QED BY <1>0, <1>2, <1>4, OthersLast

LEMMA StepLasts ==
  ASSUME DurableInv, SqliteRepository = TRUE, [Next]_vars
  PROVE  \A u \in Terminals : RowKept(u)' /\ Lasts(u)
  <1> SUFFICES ASSUME NEW u \in Terminals
               PROVE  RowKept(u)' /\ Lasts(u)
    OBVIOUS
  <1>0. TypeOK /\ RowKept(u)
    BY AgreeTypes DEF DurableInv
  <1>1. ASSUME NEW t \in Terminals, StepOf(t)
        PROVE  RowKept(u)' /\ Lasts(u)
    <2>1. CASE u = t
      BY <1>1, <2>1, CreationLasts, QuietLasts, UpdateLasts, SettlesLasts
         DEF StepOf
    <2>2. CASE u # t
      <3>1. Same(u)
        BY <1>0, <1>1, <2>2, OthersSame
      <3> QED BY <1>0, <3>1, OthersLast DEF Same
    <2> QED BY <2>1, <2>2
  <1>2. CASE CloseAll \/ (\E t \in Terminals : Close(t))
    BY <1>2, CloseLasts
  <1>3. CASE UNCHANGED vars
    BY <1>0, <1>3, OthersLast DEF vars
  <1> QED BY <1>1, <1>2, <1>3 DEF Next, StepOf

LEMMA StepDurable ==
  ASSUME DurableInv, SqliteRepository = TRUE, [Next]_vars
  PROVE  DurableInv' /\ \A u \in Terminals : Lasts(u)
  BY StepLasts, StepAgrees DEF DurableInv

\* A finalization without an error leaves nothing of its terminal unfinished.
LEMMA ResolvedIsClean ==
  ASSUME DurableInv, NEW t \in Terminals, finalization[t].stage = "resolved"
  PROVE  /\ process[t] = "exited" /\ record[t].row.state = "exited"
         /\ record[t].queue = <<>>
         /\ Len(output[t].published) = output[t].emitted
  <1>1. /\ Contracted(t) /\ AgreesOf(t) /\ RowKept(t)
        /\ output[t] \in Outputs /\ record[t] \in Records
        /\ ExitKnown(t) /\ FinalizedAfterExit(t) /\ OutputOf(t)
    BY AgreeTypes DEF DurableInv, AgreeInv, ContractInv, ExitInv, OutputInv
  <1>2. process[t] = "exited"
    BY <1>1 DEF ExitKnown, FinalizedAfterExit
  <1>3. /\ creation[t] = "created"
        /\ output[t].queue = <<>> /\ output[t].early = <<>>
    BY <1>1 DEF Contracted, NotYet, Drains, Speaks
  <1>4. /\ record[t].queue = <<>> /\ output[t].outputError = "undefined"
        /\ record[t].row.state \notin {"none", "running"}
    BY <1>1, <1>3 DEF AgreesOf, ClosesClean, RowKept
  <1>5. record[t].row.state = "exited"
    BY <1>1, <1>4 DEF Records, Descriptors
  <1>6. Consecutive(output[t].published, <<>>, <<>>, output[t].emitted)
    BY <1>1, <1>3, <1>4 DEF OutputOf
  <1>7. Len(output[t].published) \in Nat /\ Len(<<>>) = 0
    BY <1>1 DEF Outputs
  <1> QED BY <1>2, <1>4, <1>5, <1>6, <1>7 DEF Consecutive

\* A step of one terminal that is not the start of create().
Goes(t) ==
    \/ CreateResumes(t) \/ RollbackCreation(t) \/ PtyData(t) \/ PtyExit(t)
    \/ Resize(t) \/ EscalateToSigkill(t) \/ GiveUpTermination(t)
    \/ NoticeExit(t) \/ OutputDrained(t) \/ AppendSettles(t)
    \/ UpdateStarts(t) \/ ResizeSettles(t) \/ FinalizationSettles(t)

\* It creates nothing.
CreatesNone(u) ==
    /\ creation'[u] \in {"saving", "saveFailing"} => creation'[u] = creation[u]
    /\ creation[u] = "absent" => creation'[u] = "absent"

\* Only its save() finishes a creation, and what closeAll() asked for stays
\* asked.
Moves(u) ==
    /\ creation'[u] = "created" => creation[u] \in {"saving", "created"}
    /\ creation'[u] = "absent" => creation[u] = "absent"
    /\ closeAll'[u] = "idle" => closeAll[u] = "idle"

LEMMA StepMoves ==
  ASSUME TypeOK, NEW t \in Terminals, StepOf(t), NEW u \in Terminals
  PROVE  Moves(u) /\ (Goes(t) \/ u # t => CreatesNone(u))
  <1>1. CASE u # t
    BY <1>1, OthersSame, OthersHistory DEF Same, Moves, CreatesNone
  <1>2. CASE u = t
    <2>1. CASE Create(t) \/ CreateWithoutListeners(t)
      <3>1. /\ creation[t] = "absent" /\ closeAll' = closeAll
            /\ creation'[t] \in {"saving", "saveFailing", "rolledBack"}
        BY <2>1 DEF Create, CreateWithoutListeners, TypeOK
      <3>2. ~Goes(t)
        <4>1. /\ ~CreateResumes(t) /\ ~RollbackCreation(t)
          BY <3>1 DEF CreateResumes, RollbackCreation
        <4>2. creation' # creation
          BY <3>1
        <4> QED
          BY <4>1, <4>2
             DEF Goes, PtyData, PtyExit, Resize, EscalateToSigkill,
                 GiveUpTermination, NoticeExit, OutputDrained, AppendSettles,
                 UpdateStarts, ResizeSettles, FinalizationSettles
      <3> QED BY <1>2, <3>1, <3>2 DEF Moves
    <2>2. CASE CreateResumes(t)
      BY <1>2, <2>2 DEF CreateResumes, TypeOK, Moves, CreatesNone
    <2>3. CASE RollbackCreation(t)
      BY <1>2, <2>3 DEF RollbackCreation, TypeOK, Moves, CreatesNone
    <2>4. CASE GiveUpTermination(t) \/ FinalizationSettles(t)
      <3>1. /\ creation' = creation
            /\ \E outcome \in {"resolved", "rejected"} :
                  closeAll' = [closeAll EXCEPT ![t] =
                     IF @ = "pending" THEN outcome ELSE @]
        BY <2>4 DEF GiveUpTermination, FinalizationSettles, Settle
      <3> QED BY <1>2, <3>1 DEF TypeOK, Moves, CreatesNone
    <2>5. CASE \/ PtyData(t) \/ PtyExit(t) \/ Resize(t) \/ EscalateToSigkill(t)
               \/ NoticeExit(t) \/ OutputDrained(t) \/ AppendSettles(t)
               \/ UpdateStarts(t) \/ ResizeSettles(t)
      <3>1. UNCHANGED <<creation, closeAll>>
        BY <2>5
           DEF PtyData, PtyExit, Resize, EscalateToSigkill, NoticeExit,
               OutputDrained, AppendSettles, UpdateStarts, ResizeSettles
      <3> QED BY <3>1 DEF Moves, CreatesNone
    <2> QED BY <2>1, <2>2, <2>3, <2>4, <2>5 DEF StepOf
  <1> QED BY <1>1, <1>2

LEMMA CloseMoves ==
  ASSUME NEW t \in Terminals, Close(t), NEW u \in Terminals
  PROVE  Moves(u) /\ CreatesNone(u)
  BY DEF Close, CloseStarts, Moves, CreatesNone

\* closeAll() asks for every terminal there is.
LEMMA CloseAllAsks ==
  ASSUME CloseAll
  PROVE  /\ creation' = creation
         /\ \A u \in Terminals : creation[u] = "created" => closeAll'[u] # "idle"
  BY DEF CloseAll, CloseStarts, InMap
=============================================================================
