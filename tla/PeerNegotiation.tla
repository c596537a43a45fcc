-------------------------- MODULE PeerNegotiation --------------------------
(***************************************************************************)
(* One remote session from the request of a client to the two data         *)
(* channels: connectClient and acceptHostSession of the peer connectors,   *)
(* PeerNegotiationSession with its deadline, the signed signal transport,  *)
(* the subscription that collects and verifies the signals of the other    *)
(* end, and the adapters of the two peer connection libraries.             *)
(*                                                                         *)
(* The ends are the client, which offers, and the host, which answers.     *)
(* Between them are the session document, the signals collection (here     *)
(* `store', per sender) and the peer connection itself; all three are      *)
(* external.  Signatures and session descriptions are abstracted: a signal *)
(* is its sequence number and what it announces.                           *)
(***************************************************************************)
EXTENDS Naturals, Sequences, SequencesExt, FiniteSets

CONSTANTS BrowserEnds,  \* the ends that run in a browser: its adapter queues every operation
          Candidates    \* the candidates an end gathers, a sequence of names

ASSUME NegotiationAssumption ==
    /\ BrowserEnds \subseteq {"client"}
    /\ Candidates \in Seq(STRING) /\ Candidates # <<>>
    /\ Range(Candidates) \cap {"offer", "answer", "end-of-candidates"} = {}

Ends == {"client", "host"}
Other(e) == IF e = "client" THEN "host" ELSE "client"
Labels == {"control", "terminal"}

VARIABLES
    status,     \* the session document: "none", "requested", "approved", "rejected" or "failed"
    attempt,    \* [Ends -> stage of the promise connectClient or acceptHostSession returned]
    shut,       \* the ends whose connector was closed
    session,    \* [Ends -> "none", "open" or "closed"]: the PeerNegotiationSession
    armed,      \* the ends whose negotiation deadline is running
    queue,      \* [Ends -> Seq(payload)]: the publications behind publishTail
    posting,    \* [Ends -> Seq(signal)]: the publications the backend has not answered
    sequence,   \* [Ends -> Nat]: the last sequence number taken
    store,      \* [Ends -> Seq(signal)]: the signals stored, in the order of their numbers
    cursor,     \* [Ends -> Nat]: the last signal of the other end that was collected
    batch,      \* [Ends -> Nat]: the snapshot being verified ends here, 0 for none
    taken,      \* [Ends -> Seq(payload)]: what the session was given, in that order
    peer,       \* [Ends -> the peer connection and its adapter]
    channels,   \* [Ends -> SUBSET Labels]: the registered channels
    opened,     \* [Ends -> SUBSET Labels]: those that reported they are open
    handed      \* [Ends -> Nat]: how often onChannels was called

attempts == <<status, attempt, shut>>
signals == <<queue, posting, sequence, store, cursor, batch, taken>>
sessions == <<session, armed, channels, opened, handed>>
vars == <<attempts, signals, sessions, peer>>

-----------------------------------------------------------------------------
(* Payloads, in the order in which an end announces them: its description, *)
(* its candidates, and the end of the candidates.                          *)
Description(e) == IF e = "client" THEN "offer" ELSE "answer"
Script(e) == <<Description(e)>> \o Candidates \o <<"end-of-candidates">>
IsCandidate(p) == p \in Range(Candidates)

NewPeer == [ops |-> <<>>, pending |-> <<>>, local |-> FALSE, remote |-> FALSE,
            said |-> 0, applied |-> <<>>, up |-> FALSE]

Pending == {"creating", "waiting", "preparing", "negotiating", "handshaking"}

Init ==
    /\ status = "none" /\ shut = {} /\ armed = {}
    /\ attempt = [e \in Ends |-> "idle"]
    /\ session = [e \in Ends |-> "none"]
    /\ queue = [e \in Ends |-> <<>>] /\ posting = [e \in Ends |-> <<>>]
    /\ sequence = [e \in Ends |-> 0] /\ store = [e \in Ends |-> <<>>]
    /\ cursor = [e \in Ends |-> 0] /\ batch = [e \in Ends |-> 0]
    /\ taken = [e \in Ends |-> <<>>]
    /\ peer = [e \in Ends |-> NewPeer]
    /\ channels = [e \in Ends |-> {}] /\ opened = [e \in Ends |-> {}]
    /\ handed = [e \in Ends |-> 0]

Open(e) == session[e] = "open"

-----------------------------------------------------------------------------
(* The connectors: request, approval, preparation.                         *)

Connect ==
    /\ attempt["client"] = "idle" /\ "client" \notin shut
    /\ \E stage \in {"creating", "rejected"} :    \* the target may be offline
          attempt' = [attempt EXCEPT !["client"] = stage]
    /\ UNCHANGED <<status, shut, signals, sessions, peer>>

CreateAnswered ==
    /\ attempt["client"] = "creating"
    /\ \/ /\ status' = "requested"
          /\ attempt' = [attempt EXCEPT !["client"] = "waiting"]
       \/ /\ attempt' = [attempt EXCEPT !["client"] = "rejected"]
          /\ UNCHANGED status
    /\ UNCHANGED <<shut, signals, sessions, peer>>

\* The host decides about the request; HostController models how.
Decided ==
    /\ status = "requested"
    /\ status' \in {"approved", "rejected", "failed"}
    /\ UNCHANGED <<attempt, shut, signals, sessions, peer>>

\* What the subscription of the client's sessions may show by now, one snapshot behind or
\* not; a session whose lease is over is shown no longer.
Shown == {"requested", status}

\* finish(): the first snapshot that decides, an error of the subscription, or the timer.
ApprovalWaitEnds ==
    /\ attempt["client"] = "waiting"
    /\ \E stage \in {"rejected"} \cup (IF "approved" \in Shown THEN {"preparing"} ELSE {}) :
          attempt' = [attempt EXCEPT !["client"] = stage]
    /\ UNCHANGED <<status, shut, signals, sessions, peer>>

HostAccepts ==
    /\ status = "approved" /\ attempt["host"] = "idle" /\ "host" \notin shut
    /\ attempt' = [attempt EXCEPT !["host"] = "preparing"]
    /\ UNCHANGED <<status, shut, signals, sessions, peer>>

-----------------------------------------------------------------------------
(* The adapters.  The native one applies what it is given at once; the     *)
(* browser's puts every operation behind the ones before it.               *)

SetLocalDescription(e, p) ==
    IF e \in BrowserEnds THEN [p EXCEPT !.ops = Append(@, "create")]
                         ELSE [p EXCEPT !.local = TRUE]

SetRemoteDescription(e, p) ==
    IF e \in BrowserEnds THEN [p EXCEPT !.ops = Append(@, "remote")]
                         ELSE [p EXCEPT !.remote = TRUE]

\* A mutant: the candidate goes to the connection without waiting for its turn.
AddsAtOnce(e, p, c) == [p EXCEPT !.applied = Append(@, c)]

AddRemoteCandidate(e, p, c) ==
    IF e \in BrowserEnds
    THEN [p EXCEPT !.pending = Append(@, c), !.ops = Append(@, "flush")]
    ELSE [p EXCEPT !.applied = Append(@, c)]

\* A mutant: an operation does not ask whether the connection was closed meanwhile.
ActiveAnyway(e) == session[e] # "none"

Active(e) == Open(e)

\* The operation at the head of the queue goes one await further.
Runs(p) ==
    LET rest == Tail(p.ops)
    IN  CASE Head(p.ops) = "create" -> [p EXCEPT !.ops = <<"set">> \o rest]
          [] Head(p.ops) = "set" -> [p EXCEPT !.ops = rest, !.local = TRUE, !.said = 1]
          [] Head(p.ops) = "remote" -> [p EXCEPT !.ops = <<"flush">> \o rest, !.remote = TRUE]
          [] Head(p.ops) = "flush" /\ p.remote /\ p.pending # <<>> ->
                [p EXCEPT !.pending = Tail(@), !.applied = Append(@, Head(p.pending))]
          [] OTHER -> [p EXCEPT !.ops = rest]

OperationRuns(e) ==
    /\ peer[e].ops # <<>>
    /\ IF Active(e)
       THEN /\ peer' = [peer EXCEPT ![e] = Runs(@)]
            /\ queue' = IF Head(peer[e].ops) = "set"
                        THEN [queue EXCEPT ![e] = Append(@, Description(e))] ELSE queue
       ELSE /\ peer' = [peer EXCEPT ![e].ops = <<>>]    \* each finds the adapter inactive
            /\ UNCHANGED queue
    /\ UNCHANGED <<attempts, posting, sequence, store, cursor, batch, taken, sessions>>

\* The connection announces its description (native), a candidate, the end of gathering.
Announces(e) ==
    LET said == peer[e].said
    IN  /\ Open(e) /\ peer[e].local /\ said < Len(Script(e))
        /\ peer' = [peer EXCEPT ![e].said = said + 1]
        /\ queue' = [queue EXCEPT ![e] = Append(@, Script(e)[said + 1])]
    /\ UNCHANGED <<attempts, posting, sequence, store, cursor, batch, taken, sessions>>

-----------------------------------------------------------------------------
(* The session.                                                            *)

\* close(): the transport refuses what is still queued, the adapter drops its candidates.
CloseSession(e) ==
    /\ session' = [session EXCEPT ![e] = "closed"]
    /\ armed' = armed \ {e}
    /\ queue' = [queue EXCEPT ![e] = <<>>]
    /\ peer' = [peer EXCEPT ![e].pending = <<>>]
    /\ UNCHANGED <<channels, opened, handed>>

\* fail(): close, and onError, which rejects the promise that is not settled yet.
Fail(e) ==
    /\ CloseSession(e)
    /\ attempt' = [attempt EXCEPT ![e] = IF @ \in Pending THEN "rejected" ELSE @]
    /\ UNCHANGED <<status, shut>>

\* A mutant: only the end that offers arms its deadline.
OffererArms(e) == {e} \cap {"client"}

Arms(e) == {e}

\* The peer's key, the ICE servers, the transport and the peer connection are there, or
\* one of them is refused; the session starts without looking at the connector again.
Prepared(e) ==
    /\ attempt[e] = "preparing"
    /\ \/ /\ attempt' = [attempt EXCEPT ![e] = "rejected"]
          /\ UNCHANGED <<sessions, peer>>
       \/ /\ attempt' = [attempt EXCEPT ![e] = "negotiating"]
          /\ session' = [session EXCEPT ![e] = "open"]
          /\ armed' = armed \cup Arms(e)
          /\ IF e = "client"
             THEN /\ channels' = [channels EXCEPT ![e] = Labels]
                  /\ peer' = [peer EXCEPT ![e] = SetLocalDescription(e, @)]
             ELSE UNCHANGED <<channels, peer>>
          /\ UNCHANGED <<opened, handed>>
    /\ UNCHANGED <<status, shut, signals>>

\* A mutant: a publication does not wait for the one before it.
PostsAtOnce(e) == Open(e)

PostsNext(e) == posting[e] = <<>>

PublishNext(e) ==
    /\ Open(e) /\ queue[e] # <<>> /\ PostsNext(e)
    /\ sequence' = [sequence EXCEPT ![e] = @ + 1]
    /\ posting' = [posting EXCEPT ![e] =
                     Append(@, [seq |-> sequence[e] + 1, payload |-> Head(queue[e])])]
    /\ queue' = [queue EXCEPT ![e] = Tail(@)]
    /\ UNCHANGED <<attempts, store, cursor, batch, taken, sessions, peer>>

\* The function has stored a signal; the one who posted it may be closed by now.
PublishStored(e) ==
    /\ \E i \in DOMAIN posting[e] :
          /\ store' = [store EXCEPT ![e] = Append(@, posting[e][i])]
          /\ posting' = [posting EXCEPT ![e] = RemoveAt(@, i)]
    /\ UNCHANGED <<attempts, queue, sequence, cursor, batch, taken, sessions, peer>>

\* The lease is over, the function refuses, or its answer is lost after it stored the
\* signal: the session fails before the next publication gets its turn.
PublishFails(e) ==
    /\ Open(e) /\ posting[e] # <<>>
    /\ store' \in {store, [store EXCEPT ![e] = @ \o posting[e]]}
    /\ posting' = [posting EXCEPT ![e] = <<>>]
    /\ Fail(e)
    /\ UNCHANGED <<sequence, cursor, batch, taken>>

\* A snapshot lists every signal stored by then; verifying them takes several awaits.
SnapshotArrives(e) ==
    /\ Open(e) /\ batch[e] = 0 /\ cursor[e] < Len(store[Other(e)])
    /\ batch' = [batch EXCEPT ![e] = Len(store[Other(e)])]
    /\ UNCHANGED <<attempts, queue, posting, sequence, store, cursor, taken, sessions, peer>>

\* AcceptSignals: what one signal does to the peer connection.
Accepts(e, p, payload) ==
    CASE payload = "offer" -> SetLocalDescription(e, SetRemoteDescription(e, p))
      [] payload = "answer" -> SetRemoteDescription(e, p)
      [] IsCandidate(payload) -> AddRemoteCandidate(e, p, payload)
      [] OTHER -> p

\* The payloads of a batch, one after the other.
AcceptsAll(e, p, payloads) ==
    LET after[i \in 0..Len(payloads)] ==
            IF i = 0 THEN p ELSE Accepts(e, after[i - 1], payloads[i])
    IN  after[Len(payloads)]

Unseen(e) == SubSeq(store[Other(e)], cursor[e] + 1, batch[e])
Contiguous(e) == \A i \in DOMAIN Unseen(e) : Unseen(e)[i].seq = cursor[e] + i
ForRole(e) == \A s \in Range(Unseen(e)) : s.payload # Description(e)

\* The batch is verified.  A session that was closed meanwhile is not told.
BatchVerified(e) ==
    /\ batch[e] # 0
    /\ batch' = [batch EXCEPT ![e] = 0]
    /\ cursor' = [cursor EXCEPT ![e] = batch[e]]
    /\ IF Active(e) /\ Contiguous(e) /\ ForRole(e)
       THEN LET payloads == [i \in DOMAIN Unseen(e) |-> Unseen(e)[i].payload]
            IN  /\ taken' = [taken EXCEPT ![e] = @ \o payloads]
                /\ peer' = [peer EXCEPT ![e] = AcceptsAll(e, @, payloads)]
                /\ UNCHANGED <<attempts, sessions, queue>>
       ELSE IF Open(e)
       THEN Fail(e) /\ UNCHANGED taken
       ELSE UNCHANGED <<attempts, sessions, queue, taken, peer>>
    /\ UNCHANGED <<posting, sequence, store>>

\* The connection is up: the deadline is cancelled, although no channel is open yet.
Connected(e) ==
    /\ \A x \in Ends : Open(x) /\ peer[x].local /\ peer[x].remote
    /\ \E x \in Ends : peer[x].applied # <<>>
    /\ ~peer[e].up
    /\ peer' = [peer EXCEPT ![e].up = TRUE]
    /\ armed' = armed \ {e}
    /\ UNCHANGED <<attempts, signals, session, channels, opened, handed>>

\* The host is given a channel the client created.
ChannelArrives(l) ==
    /\ Open("host") /\ peer["host"].up /\ l \notin channels["host"]
    /\ channels' = [channels EXCEPT !["host"] = @ \cup {l}]
    /\ UNCHANGED <<attempts, signals, session, armed, opened, handed, peer>>

\* A channel is open, or replays that it is: the second one completes the pair, once.
ChannelOpens(e, l) ==
    /\ Open(e) /\ peer[e].up /\ l \in channels[e]
    /\ opened' = [opened EXCEPT ![e] = @ \cup {l}]
    /\ IF opened'[e] = Labels /\ handed[e] = 0
       THEN /\ handed' = [handed EXCEPT ![e] = @ + 1]
            /\ attempt' = [attempt EXCEPT ![e] = IF e = "client" THEN "handshaking" ELSE "resolved"]
       ELSE UNCHANGED <<handed, attempt>>
    /\ UNCHANGED <<status, shut, signals, session, armed, channels, peer>>

\* client.start(): the hello is acknowledged by the host, or the channel client gives up
\* and the session is closed without a word.
HandshakeEnds ==
    /\ attempt["client"] = "handshaking"
    /\ \/ /\ handed["host"] = 1
          /\ attempt' = [attempt EXCEPT !["client"] = "resolved"]
          /\ UNCHANGED <<sessions, queue, peer>>
       \/ /\ attempt' = [attempt EXCEPT !["client"] = "rejected"]
          /\ CloseSession("client")
    /\ UNCHANGED <<status, shut, posting, sequence, store, cursor, batch, taken>>

-----------------------------------------------------------------------------
(* What ends a session.                                                    *)

\* The connection failed, disconnected or closed, a channel closed or reported an error,
\* the listener of the signals did, or an operation of the adapter was rejected.
PeerFails(e) ==
    /\ Open(e) /\ Fail(e)
    /\ UNCHANGED <<posting, sequence, store, cursor, batch, taken>>

DeadlineFires(e) ==
    /\ e \in armed /\ Fail(e)
    /\ UNCHANGED <<posting, sequence, store, cursor, batch, taken>>

\* A control message could not be handled: the host closes its session without a word.
HostDrops ==
    /\ Open("host") /\ attempt["host"] = "resolved" /\ CloseSession("host")
    /\ UNCHANGED <<attempts, posting, sequence, store, cursor, batch, taken>>

\* close() of the connector: the sessions it has, and the channel clients.  A promise
\* whose session is closed here while it negotiates is never settled.
CloseConnector(e) ==
    /\ e \notin shut /\ shut' = shut \cup {e}
    /\ attempt' = [attempt EXCEPT ![e] = IF @ = "handshaking" THEN "rejected" ELSE @]
    /\ IF Open(e) THEN CloseSession(e) ELSE UNCHANGED <<sessions, queue, peer>>
    /\ UNCHANGED <<status, posting, sequence, store, cursor, batch, taken>>

-----------------------------------------------------------------------------
Next ==
    \/ Connect \/ CreateAnswered \/ Decided \/ ApprovalWaitEnds \/ HostAccepts
    \/ HandshakeEnds \/ HostDrops
    \/ \E l \in Labels : ChannelArrives(l)
    \/ \E e \in Ends :
          \/ Prepared(e) \/ OperationRuns(e) \/ Announces(e)
          \/ PublishNext(e) \/ PublishStored(e) \/ PublishFails(e)
          \/ SnapshotArrives(e) \/ BatchVerified(e)
          \/ Connected(e) \/ PeerFails(e) \/ DeadlineFires(e) \/ CloseConnector(e)
          \/ \E l \in Labels : ChannelOpens(e, l)

\* The timers fire, the calls of the connectors settle.
Fairness ==
    /\ WF_vars(CreateAnswered) /\ WF_vars(ApprovalWaitEnds) /\ WF_vars(HandshakeEnds)
    /\ \A e \in Ends : WF_vars(Prepared(e)) /\ WF_vars(DeadlineFires(e))

Spec == Init /\ [][Next]_vars /\ Fairness

-----------------------------------------------------------------------------
(* Properties.                                                             *)

\* The signals an end stores are numbered without a gap in the order of its negotiation,
\* whatever fails in between, and the other end is given a prefix of them, each once.
SignalsInOrder ==
    \A e \in Ends :
       /\ \A i \in DOMAIN store[e] : store[e][i] = [seq |-> i, payload |-> Script(e)[i]]
       /\ IsPrefix(taken[e], Script(Other(e)))

\* A candidate reaches the peer connection in the order it was announced, and only when
\* the connection has the description of the other end: it is refused before.
CandidatesFollow ==
    \A e \in Ends :
       LET applied == peer[e].applied
       IN  /\ applied # <<>> => peer[e].remote
           /\ IsPrefix(applied, Candidates)

\* A closed session does nothing more, although publications, verifications and
\* operations of the adapter are still under way when it closes; and the channels are
\* handed over once, both open, by an open session.
ClosedIsQuiet ==
    [][\A e \in Ends :
          /\ session[e] = "closed" =>
                /\ session'[e] = "closed" /\ handed'[e] = handed[e]
                /\ sequence'[e] = sequence[e] /\ taken'[e] = taken[e]
                /\ peer'[e].local = peer[e].local /\ peer'[e].remote = peer[e].remote
                /\ peer'[e].applied = peer[e].applied
          /\ handed'[e] # handed[e] =>
                handed[e] = 0 /\ opened'[e] = Labels /\ session'[e] = "open"]_vars

\* Whatever the other end does, a connect or accept that was begun settles, unless the
\* connector is closed under it or the peer connection came up: that cancels the
\* deadline before the channels are open.
NegotiationEnds ==
    \A e \in Ends :
       (attempt[e] \in Pending) ~> (attempt[e] \notin Pending \/ e \in shut \/ peer[e].up)

=============================================================================
