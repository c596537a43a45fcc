---------------------------- MODULE RemoteOutput ----------------------------
(***************************************************************************)
(* The output of one remote terminal on its way from the host's store to   *)
(* the client's renderer:                                                  *)
(*                                                                         *)
(*   HostControlGateway and AttachmentPump read the stored stream from the *)
(*   last acknowledged cursor and send it as frames on the terminal data   *)
(*   channel; ProxyTerminalRouter absorbs duplicates, publishes the rest   *)
(*   and acknowledges every frame on the control data channel.             *)
(*                                                                         *)
(* Each data channel is a FIFO; nothing orders one against the other.  The *)
(* stream is counted in bytes, a frame is the interval from < byte <= to.  *)
(* The module starts when the gateway has created the terminal for an      *)
(* agent.launch request and attached a pump to it.                         *)
(***************************************************************************)
EXTENDS Integers, Sequences, FiniteSets

LOCAL INSTANCE SequencesExt
LOCAL INSTANCE FiniteSetsExt

CONSTANTS
    Lengths,         \* lengths in bytes of the chunks the terminal writes
    FrameMax,        \* TERMINAL_FRAME_MAX_BYTES: what one read may return
    HighWatermark,   \* DATA_CHANNEL_HIGH_WATERMARK
    LowWatermark,    \* DATA_CHANNEL_LOW_WATERMARK
    EarlyLimit,      \* frames kept for a terminal whose launch has no answer
    MayExit,         \* the process of the terminal may exit
    MayClose,        \* the user may close the terminal's tab
    MaxBytes,        \* bound: bytes the terminal writes
    MaxInFlight,     \* bound: frames, and acknowledgements, on the network
    MaxConnections,  \* bound: connections
    MaxRequests      \* bound: requests of the client, the launch among them

ASSUME RemoteOutputAssumption ==
    /\ Lengths \subseteq Nat \ {0}
    /\ FrameMax \in Nat \ {0}
    /\ HighWatermark \in Nat \ {0} /\ LowWatermark \in 0..HighWatermark
    /\ EarlyLimit \in Nat
    /\ MayExit \in BOOLEAN /\ MayClose \in BOOLEAN
    /\ MaxBytes \in Nat /\ MaxInFlight \in Nat \ {0}
    /\ MaxConnections \in Nat \ {0} /\ MaxRequests \in Nat \ {0}

VARIABLES
    ends,         \* where the chunks of the store end
    exited,       \* the manager announced the terminal as exited
    gateway,      \* "open" or "closed"
    pump,         \* the attached AttachmentPump, or NoPump
    listing,      \* attach requests whose manager.list() is under way
    owed,         \* requests whose pump was closed during its first read
    buffer,       \* frames in the send buffer of the terminal channel
    drained,      \* a bufferedAmountLow event is due
    frames,       \* frames on the network
    toClient,     \* control messages on the network, to the client
    toHost,       \* and to the host
    up,           \* whether the two ends hold a connection
    connections,
    session,      \* the RemoteProxySession, or NoSession
    early,        \* earlyFrames of the terminal
    waiting,      \* the requests of the client that are pending
    asked,        \* the number of its last request
    received,     \* the bytes published to the renderer, in order
    attachment,   \* history: the requests this connection carried to attach
    refused,      \* history: why the gateway refused an acknowledgement
    mismatched    \* history: what did not follow at the router

hostVars == <<ends, exited, gateway, pump, listing, owed>>
channelVars == <<buffer, drained, frames>>
linkVars == <<up, connections>>
clientVars == <<session, early, waiting, asked, received, attachment,
                mismatched>>
vars == <<ends, exited, gateway, pump, listing, owed, buffer, drained, frames,
          toClient, toHost, up, connections, session, early, waiting, asked,
          received, attachment, refused, mismatched>>

Undefined == -1
Idle == -1
Nobody == 0
NoPump == [acknowledged |-> Undefined, sent |-> Undefined, reading |-> Idle,
           request |-> Nobody]
NoSession == [state |-> "none", connected |-> FALSE, visible |-> FALSE,
              next |-> Undefined, acked |-> Undefined]

-----------------------------------------------------------------------------
(* Frames *)

Frames == [from : Nat, to : Nat]

Bytes(fs) == FoldLeft(LAMBDA n, f : n + f.to - f.from, 0, fs)

Stored == Max(ends \cup {0})

Buffered == Bytes(buffer)

\* readFromCursor: at most FrameMax bytes, one piece for each stored chunk,
\* the last piece cut where the bytes run out.
ReadFrom(cursor) ==
    LET limit == Min({Stored, cursor + FrameMax})
        cuts == SetToSortSeq(
                    {c \in ends \cup {limit} : cursor < c /\ c <= limit},
                    <)
    IN  [i \in DOMAIN cuts |->
            [from |-> IF i = 1 THEN cursor ELSE cuts[i - 1], to |-> cuts[i]]]

\* The frames of a read the loop of pump() sends before the channel is full.
Sendable(fs) ==
    SelectSeq(fs, LAMBDA f : Buffered + f.from - fs[1].from < HighWatermark)

-----------------------------------------------------------------------------
(* The pump *)

\* pump() up to its first await.
Pumping(p) ==
    IF p # NoPump /\ p.reading = Idle /\ Buffered < HighWatermark
    THEN [p EXCEPT !.reading = p.acknowledged]
    ELSE p

\* cursor_ack, when the pump takes it: acknowledge(), then pump().
Acknowledged(cursor) == Pumping([pump EXCEPT !.acknowledged = cursor])

\* The new pump of attach(), for the request that waits for its first read.
Attached(request) ==
    Pumping([acknowledged |-> 0, sent |-> 0, reading |-> Idle,
             request |-> request])

\* The request that waits for the read of a pump that is closed meanwhile.
OwedBy(p) == {p.request} \ {Nobody}

Request(type, number) == [type |-> type, number |-> number]
Answer(type, number, ok) == [type |-> type, number |-> number, ok |-> ok]

\* The first request is the launch, any other that attaches is an attach.
AttachAnswer(number, ok) ==
    Answer(IF number = 1 THEN "launch" ELSE "attach", number, ok)

Init ==
    /\ ends = {} /\ exited = FALSE /\ gateway = "open"
    /\ pump = [acknowledged |-> 0, sent |-> 0, reading |-> 0, request |-> 1]
    /\ listing = {} /\ owed = {}
    /\ buffer = <<>> /\ drained = FALSE /\ frames = <<>>
    /\ toClient = <<>> /\ toHost = <<>>
    /\ up = TRUE /\ connections = 1
    /\ session = NoSession /\ early = <<>>
    /\ waiting = {Request("launch", 1)} /\ asked = 1
    /\ received = <<>>
    /\ attachment = "first" /\ refused = "no" /\ mismatched = {}

\* The manager stored a chunk and published it: the output listener pumps.
OutputStored(length) ==
    /\ ~exited
    /\ Stored + length <= MaxBytes
    /\ ends' = ends \cup {Stored + length}
    /\ pump' = Pumping(pump)
    /\ UNCHANGED <<exited, gateway, listing, owed, channelVars, toClient,
                   toHost, linkVars, clientVars, refused>>

\* The manager announced the exit, all output being stored: the changed
\* listener tells the client of an attached terminal and detaches it.
Exits ==
    /\ MayExit /\ ~exited
    /\ exited' = TRUE
    /\ toClient' = IF pump = NoPump THEN toClient
                   ELSE Append(toClient, Answer("exited", Nobody, TRUE))
    /\ owed' = owed \cup OwedBy(pump)
    /\ pump' = NoPump
    /\ UNCHANGED <<ends, gateway, listing, channelVars, toHost, linkVars,
                   clientVars, refused>>

Answers(numbers, ok) ==
    SetToSeq({AttachAnswer(number, ok) : number \in numbers})

\* The read of an attached pump returns: its frames go to the channel, and
\* the request that attached the pump is answered.
ReadSettles ==
    /\ pump.reading # Idle
    /\ LET sent == Sendable(ReadFrom(pump.reading))
       IN  /\ buffer' = buffer \o sent
           /\ pump' = [pump EXCEPT !.reading = Idle, !.request = Nobody,
                         !.sent = Max({@} \cup {f.to : f \in ToSet(sent)})]
    /\ toClient' = toClient \o Answers(OwedBy(pump), TRUE)
    /\ UNCHANGED <<ends, exited, gateway, listing, owed, drained, frames,
                   toHost, linkVars, clientVars, refused>>

\* The first read of a pump rejects: the request fails, and the pump stays.
FirstReadFails ==
    /\ pump.request # Nobody
    /\ pump' = [pump EXCEPT !.reading = Idle, !.request = Nobody]
    /\ toClient' = toClient \o Answers(OwedBy(pump), FALSE)
    /\ UNCHANGED <<ends, exited, gateway, listing, owed, channelVars, toHost,
                   linkVars, clientVars, refused>>

\* The first read of a pump that was closed meanwhile settles: nothing is
\* sent, but the request is answered all the same.
ClosedReadSettles ==
    /\ \E number \in owed, ok \in BOOLEAN :
          /\ toClient' = Append(toClient, AttachAnswer(number, ok))
          /\ owed' = owed \ {number}
    /\ UNCHANGED <<ends, exited, gateway, pump, listing, channelVars, toHost,
                   linkVars, clientVars, refused>>

-----------------------------------------------------------------------------
(* The terminal channel *)

\* The threshold of the native channel is its default, zero.
FrameTransmitted ==
    /\ buffer # <<>> /\ Len(frames) < MaxInFlight
    /\ frames' = Append(frames, Head(buffer))
    /\ buffer' = Tail(buffer)
    /\ drained' = (drained \/ buffer' = <<>>)
    /\ UNCHANGED <<hostVars, toClient, toHost, linkVars, clientVars, refused>>

\* onBufferedAmountLow of the pump.
OnBufferedAmountLow(p) == IF Buffered > LowWatermark THEN p ELSE Pumping(p)

BufferedAmountLow ==
    /\ drained
    /\ drained' = FALSE
    /\ pump' = OnBufferedAmountLow(pump)
    /\ UNCHANGED <<ends, exited, gateway, listing, owed, buffer, frames,
                   toClient, toHost, linkVars, clientVars, refused>>

-----------------------------------------------------------------------------
(* The router *)

Ack(cursor) == [type |-> "ack", cursor |-> cursor]

\* What acceptFrame works on: the session, what it published, and the
\* acknowledgements it sent.
Router(s) == [session |-> s, received |-> received, acks |-> <<>>,
              mismatched |-> mismatched]

\* A mutant: a cursor is acknowledged as it comes.
AcknowledgeVerbatim(r, cursor) ==
    [r EXCEPT !.session.acked = cursor, !.acks = Append(@, Ack(cursor))]

AcknowledgeAtLeast(r, cursor) ==
    LET next == Max({cursor, r.session.acked})
    IN  [r EXCEPT !.session.acked = next, !.acks = Append(@, Ack(next))]

\* disconnectSession
Disconnected(s) ==
    IF s.connected THEN [s EXCEPT !.connected = FALSE, !.state = "lost"]
    ELSE s

Published(bytes, f) == bytes \o [i \in 1..(f.to - f.from) |-> f.from + i]

Duplicate(s, f) == s.next # Undefined /\ f.to <= s.next

\* A mutant: a frame that repeats bytes is published with what it adds.
FollowsOrRepeats(s, f) == s.next = Undefined \/ f.from <= s.next

Follows(s, f) == s.next \in {Undefined, f.from}

\* A mutant: a duplicate is dropped without an acknowledgement.
DropDuplicate(r, f) == r

AbsorbDuplicate(r, f) == AcknowledgeAtLeast(r, f.to)

\* What is wrong with a frame that is no duplicate: it goes on from what the
\* router has but repeats some of it, or it leaves a gap, before the first
\* byte too; on a connection that was attached a second time it is either.
Mismatch(s, f) ==
    LET expected == Max({s.next, 0})
    IN  CASE f.from = expected -> {}
          [] f.from # expected /\ attachment = "later" -> {"later"}
          [] f.from < expected /\ attachment # "later" -> {"overlap"}
          [] f.from > expected /\ attachment # "later" -> {"gap"}

\* acceptFrame, for a session that exists.
AcceptFrame(r, f) ==
    LET s == r.session
    IN  CASE ~s.connected -> r
          [] s.connected /\ Duplicate(s, f) -> AbsorbDuplicate(r, f)
          [] s.connected /\ ~Duplicate(s, f) /\ ~Follows(s, f) ->
                [r EXCEPT !.session = Disconnected(s),
                          !.mismatched = @ \cup Mismatch(s, f)]
          [] OTHER ->
                AcknowledgeAtLeast(
                    [r EXCEPT !.session.next = f.to,
                              !.received = Published(@, f),
                              !.mismatched = @ \cup Mismatch(s, f)], f.to)

\* The router after a call of acceptFrame, or several.
RouterIs(r) ==
    /\ session' = r.session
    /\ received' = r.received
    /\ mismatched' = r.mismatched
    /\ toHost' = toHost \o r.acks

KeptEarly(f) == IF Len(early) < EarlyLimit THEN Append(early, f) ELSE early

FrameReceived ==
    /\ frames # <<>> /\ Len(toHost) < MaxInFlight
    /\ frames' = Tail(frames)
    /\ IF session = NoSession
       THEN /\ early' = KeptEarly(Head(frames))
            /\ UNCHANGED <<session, received, mismatched, toHost>>
       ELSE /\ \E r \in {AcceptFrame(Router(session), Head(frames))} :
                  RouterIs(r)
            /\ UNCHANGED early
    /\ UNCHANGED <<hostVars, buffer, drained, toClient, linkVars, waiting,
                   asked, attachment, refused>>

\* processControl(): the answer of a request that is pending.
Arrives(type) ==
    /\ toClient # <<>> /\ Head(toClient).type = type
    /\ \E q \in waiting : q.number = Head(toClient).number
    /\ waiting' = {q \in waiting : q.number # Head(toClient).number}
    /\ toClient' = Tail(toClient)

\* create(): the launch is answered, and the frames that came before the
\* answer are accepted. A launch that failed leaves them where they are.
LaunchAnswered ==
    /\ Arrives("launch")
    /\ IF Head(toClient).ok
       THEN /\ LET created == [NoSession EXCEPT
                                !.state = "running", !.connected = TRUE,
                                !.visible = TRUE]
               IN  \E r \in {FoldLeft(AcceptFrame, Router(created), early)} :
                      RouterIs(r)
            /\ early' = <<>>
       ELSE UNCHANGED <<session, received, mismatched, toHost, early>>
    /\ UNCHANGED <<hostVars, channelVars, linkVars, asked, attachment,
                   refused>>

Awaited(type) == \E q \in waiting : q.type = type

Resumed(s) == [s EXCEPT !.connected = TRUE, !.acked = Undefined]

\* resume(), which runs whenever the target is published as connected, up to
\* the request it awaits. The connection need not be a new one.
Resume ==
    /\ up /\ asked < MaxRequests
    /\ session # NoSession /\ ~session.connected /\ session.visible
    /\ ~Awaited("attach")
    /\ session' = Resumed(session)
    /\ asked' = asked + 1
    /\ waiting' = waiting \cup {Request("attach", asked')}
    /\ toHost' = Append(toHost, Request("attach", asked'))
    /\ attachment' = IF attachment = "none" THEN "first" ELSE "later"
    /\ UNCHANGED <<hostVars, channelVars, toClient, linkVars, early, received,
                   refused, mismatched>>

AttachAnswered ==
    /\ Arrives("attach")
    /\ session' = IF Head(toClient).ok THEN [session EXCEPT !.state = "running"]
                  ELSE Disconnected(session)
    /\ UNCHANGED <<hostVars, channelVars, toHost, linkVars, early, asked,
                   received, attachment, refused, mismatched>>

\* close(): a connected session is detached first.
Close ==
    /\ MayClose /\ session # NoSession /\ session.visible
    /\ ~Awaited("detach")
    /\ IF session.connected
       THEN /\ asked < MaxRequests
            /\ asked' = asked + 1
            /\ toHost' = Append(toHost, Request("detach", asked'))
            /\ waiting' = waiting \cup {Request("detach", asked')}
            /\ attachment' = "later"
            /\ UNCHANGED session
       ELSE /\ session' = [session EXCEPT !.visible = FALSE,
                                          !.state = "exited"]
            /\ UNCHANGED <<toHost, waiting, asked, attachment>>
    /\ UNCHANGED <<hostVars, channelVars, toClient, linkVars, early,
                   received, refused, mismatched>>

\* The detach is answered; close() rejects when the answer is an error.
DetachAnswered ==
    /\ Arrives("detach")
    /\ session' = IF ~Head(toClient).ok THEN session
                  ELSE [session EXCEPT !.connected = FALSE,
                                       !.visible = FALSE, !.state = "exited"]
    /\ UNCHANGED <<hostVars, channelVars, toHost, linkVars, early, asked,
                   received, attachment, refused, mismatched>>

\* The timer of a request goes off: create() and close() reject, and a
\* resume() disconnects the session of a connection that is alive.
RequestTimesOut ==
    /\ \E q \in waiting :
          /\ waiting' = waiting \ {q}
          /\ session' = IF q.type = "attach" THEN Disconnected(session)
                        ELSE session
    /\ UNCHANGED <<hostVars, channelVars, toClient, toHost, linkVars, early,
                   asked, received, attachment, refused, mismatched>>

\* An answer that comes after its timer is ignored.
LateAnswer ==
    /\ toClient # <<>> /\ Head(toClient).type # "exited"
    /\ \A q \in waiting : q.number # Head(toClient).number
    /\ toClient' = Tail(toClient)
    /\ UNCHANGED <<hostVars, channelVars, toHost, linkVars, clientVars,
                   refused>>

\* acceptTerminalChange, which ignores a terminal it does not know.
ExitReceived ==
    /\ toClient # <<>> /\ Head(toClient).type = "exited"
    /\ session' = IF session = NoSession THEN session
                  ELSE [session EXCEPT !.state = "exited",
                                       !.connected = FALSE]
    /\ toClient' = Tail(toClient)
    /\ UNCHANGED <<hostVars, channelVars, toHost, linkVars, early, waiting,
                   asked, received, attachment, refused, mismatched>>

-----------------------------------------------------------------------------
(* The gateway *)

\* What of a cursor_ack the gateway refuses.
Refusal(cursor) ==
    IF pump = NoPump THEN "TERMINAL_NOT_ATTACHED"
    ELSE IF cursor \in pump.acknowledged..pump.sent THEN "no"
    ELSE "OUTPUT_CURSOR_INVALID"

AckReceived ==
    /\ gateway = "open"
    /\ toHost # <<>> /\ Head(toHost).type = "ack"
    /\ Refusal(Head(toHost).cursor) = "no"
    /\ pump' = Acknowledged(Head(toHost).cursor)
    /\ toHost' = Tail(toHost)
    /\ UNCHANGED <<ends, exited, gateway, listing, owed, channelVars,
                   toClient, linkVars, clientVars, refused>>

\* gateway.close(), with the channels it would answer on.
GatewayCloses ==
    /\ gateway' = "closed"
    /\ pump' = NoPump /\ listing' = {} /\ owed' = {}
    /\ buffer' = <<>> /\ drained' = FALSE /\ toHost' = <<>>

\* An acknowledgement has no request to answer: the error goes to
\* handleHostControl, which closes the gateway and the peer session.
AckRefused ==
    /\ gateway = "open"
    /\ toHost # <<>> /\ Head(toHost).type = "ack"
    /\ Refusal(Head(toHost).cursor) # "no"
    /\ refused' = Refusal(Head(toHost).cursor)
    /\ GatewayCloses
    /\ UNCHANGED <<ends, exited, frames, toClient, linkVars, clientVars>>

\* terminal.attach, up to manager.list().
AttachReceived ==
    /\ gateway = "open"
    /\ toHost # <<>> /\ Head(toHost).type = "attach"
    /\ listing' = listing \cup {Head(toHost).number}
    /\ toHost' = Tail(toHost)
    /\ UNCHANGED <<ends, exited, gateway, pump, owed, channelVars, toClient,
                   linkVars, clientVars, refused>>

\* The terminal is in the list: attach(), which detaches the pump that was
\* there, and answers at once when the channel is full.
AttachListed ==
    /\ \E number \in listing :
          /\ listing' = listing \ {number}
          /\ IF Attached(number).reading = Idle
             THEN /\ pump' = [Attached(number) EXCEPT !.request = Nobody]
                  /\ toClient' = Append(toClient, AttachAnswer(number, TRUE))
             ELSE /\ pump' = Attached(number)
                  /\ UNCHANGED toClient
    /\ owed' = owed \cup OwedBy(pump)
    /\ UNCHANGED <<ends, exited, gateway, channelVars, toHost, linkVars,
                   clientVars, refused>>

\* manager.list() rejects.
AttachUnlisted ==
    /\ \E number \in listing :
          /\ listing' = listing \ {number}
          /\ toClient' = Append(toClient, AttachAnswer(number, FALSE))
    /\ UNCHANGED <<ends, exited, gateway, pump, owed, channelVars, toHost,
                   linkVars, clientVars, refused>>

DetachReceived ==
    /\ gateway = "open"
    /\ toHost # <<>> /\ Head(toHost).type = "detach"
    /\ toClient' = Append(toClient,
                      Answer("detach", Head(toHost).number, pump # NoPump))
    /\ owed' = owed \cup OwedBy(pump)
    /\ pump' = NoPump
    /\ toHost' = Tail(toHost)
    /\ UNCHANGED <<ends, exited, gateway, listing, channelVars, linkVars,
                   clientVars, refused>>

-----------------------------------------------------------------------------
(* The connection *)

\* Both channels close; the client's pending requests reject, and the router
\* disconnects the sessions of the peer.
ConnectionLost ==
    /\ up
    /\ gateway = "open" => connections < MaxConnections
    /\ up' = FALSE
    /\ GatewayCloses
    /\ frames' = <<>> /\ toClient' = <<>>
    /\ waiting' = {}
    /\ attachment' = "none"
    /\ session' = Disconnected(session)
    /\ UNCHANGED <<ends, exited, connections, early, asked, received,
                   refused, mismatched>>

\* The user connects to the target again: a new gateway.
Reconnected ==
    /\ ~up /\ connections < MaxConnections
    /\ up' = TRUE /\ gateway' = "open"
    /\ connections' = connections + 1
    /\ UNCHANGED <<ends, exited, pump, listing, owed, channelVars, toClient,
                   toHost, clientVars, refused>>

-----------------------------------------------------------------------------

Next ==
    \/ \E length \in Lengths : OutputStored(length)
    \/ Exits
    \/ ReadSettles \/ FirstReadFails \/ ClosedReadSettles
    \/ FrameTransmitted \/ BufferedAmountLow
    \/ FrameReceived
    \/ LaunchAnswered \/ AttachAnswered \/ DetachAnswered \/ ExitReceived
    \/ RequestTimesOut \/ LateAnswer
    \/ Resume \/ Close
    \/ AckReceived \/ AckRefused
    \/ AttachReceived \/ AttachListed \/ AttachUnlisted \/ DetachReceived
    \/ ConnectionLost \/ Reconnected

Spec == Init /\ [][Next]_vars

HostReceives == AckReceived \/ AckRefused \/ AttachReceived \/ DetachReceived

ClientReceives ==
    LaunchAnswered \/ AttachAnswered \/ DetachAnswered \/ ExitReceived
        \/ LateAnswer

\* Reads and lists settle, channels deliver, and messages are handled in
\* turn; nothing makes the user resume or the network come back.
Fairness ==
    /\ WF_vars(ReadSettles \/ FirstReadFails) /\ WF_vars(ClosedReadSettles)
    /\ WF_vars(AttachListed \/ AttachUnlisted)
    /\ WF_vars(FrameTransmitted) /\ WF_vars(BufferedAmountLow)
    /\ WF_vars(FrameReceived) /\ WF_vars(ClientReceives)
    /\ WF_vars(HostReceives)
    /\ WF_vars(gateway = "closed" /\ ConnectionLost)

FairSpec == Spec /\ Fairness

-----------------------------------------------------------------------------
(* Properties *)

\* The state is well formed: in particular the frames kept for a launch that
\* has no answer stay under their limit (terminal-router.ts:297-301).
TypeOK ==
    /\ ends \subseteq 1..MaxBytes
    /\ exited \in BOOLEAN /\ up \in BOOLEAN /\ gateway \in {"open", "closed"}
    /\ drained \in BOOLEAN
    /\ mismatched \subseteq {"overlap", "gap", "later"}
    /\ attachment \in {"none", "first", "later"}
    /\ pump = NoPump \/ pump \in [acknowledged : 0..MaxBytes,
                                  sent : 0..MaxBytes,
                                  reading : Idle..MaxBytes,
                                  request : 0..MaxRequests]
    /\ listing \subseteq 2..MaxRequests /\ owed \subseteq 1..MaxRequests
    /\ \A fs \in {buffer, frames, early} : fs \in Seq(Frames)
    /\ Len(early) <= EarlyLimit
    /\ toClient \in Seq([type : {"launch", "attach", "detach", "exited"},
                         number : 0..MaxRequests, ok : BOOLEAN])
    /\ toHost \in Seq([type : {"ack"}, cursor : 0..MaxBytes]
                       \cup [type : {"attach", "detach"},
                             number : 2..MaxRequests])
    /\ connections \in 1..MaxConnections /\ asked \in 1..MaxRequests
    /\ session \in [state : {"none", "running", "exited", "lost"},
                    connected : BOOLEAN, visible : BOOLEAN,
                    next : Undefined..MaxBytes, acked : Undefined..MaxBytes]
    /\ waiting \subseteq [type : {"launch", "attach", "detach"},
                          number : 1..MaxRequests]
    /\ received \in Seq(1..MaxBytes)
    /\ refused \in {"no", "TERMINAL_NOT_ATTACHED", "OUTPUT_CURSOR_INVALID"}

\* What the renderer is given is a stretch of the stream of the host, without a
\* gap and without a byte twice, wherever reads cut the chunks, over frames sent
\* again, lost connections and attachments of every kind (acceptFrame, resume).
ReceivesTheStream ==
    /\ \A i \in 2..Len(received) : received[i] = received[i - 1] + 1
    /\ \A i \in DOMAIN received : received[i] \in 1..Stored
    /\ received # <<>> => session.next = Last(received)

\* It is the stream from its first byte on.
ReceivesFromTheStart == received # <<>> => received[1] = 1

\* On a connection that attached the terminal once and did not detach it, the
\* gateway refuses no acknowledgement while the terminal runs, over stale
\* reads, connections that were lost, failed and timed out requests: a refusal
\* closes the whole peer session (acknowledgeAtLeast, resume).
CursorsAreTaken ==
    [][refused' # refused => exited \/ attachment = "later"]_vars

\* The same of a connection whose attachment failed or timed out, or whose
\* terminal was given up, and which resume() attaches again: the claim that
\* what is acknowledged then is bounded by what the new pump has sent.
ReattachedCursorsAreTaken ==
    [][refused' # refused => exited]_vars

\* The gateway never refuses an acknowledgement of the router at all.
AcksAreTaken == refused = "no"

\* The router never gives up a terminal whose connection is alive: the
\* frames it gets follow the last one or repeat what it has (acceptFrame).
FramesFollow == mismatched = {}

\* On a connection that attached the terminal once nothing is missing: the
\* first frame is the first of the stream, and one the terminal is given up for
\* repeats some bytes, however reads overlap (pump, acknowledge, acceptFrame).
NoGap == "gap" \notin mismatched

\* The channel never buffers more than the high watermark and the frame that
\* passed it, whatever was acknowledged, stored or attached meanwhile (pump).
BufferBounded ==
    Buffered < HighWatermark + Min({FrameMax, Max(Lengths)})

\* No output is to be expected: there is no connected session.
Abandoned ==
    \/ ~up
    \/ session # NoSession /\ ~session.connected
    \/ session = NoSession /\ ~Awaited("launch")

\* Every byte the host stored reaches the renderer of a session that stays
\* connected: no frame, read, acknowledgement or low watermark event is the
\* last one while bytes are left (pump, acknowledge, onBufferedAmountLow).
OutputArrives == []<>(Len(received) = Stored \/ Abandoned)

\* Once nothing is on its way any more, a terminal the manager announced as
\* exited is not shown as running (acceptTerminalChange, create, resume).
ExitIsShown ==
    exited /\ up /\ gateway = "open" /\ pump.request = Nobody /\ owed = {}
        /\ waiting = {} /\ toClient = <<>> => session.state # "running"

\* A terminal that is shown as running is connected: one that was given up
\* while its attachment was under way is not (resume).
RunningIsConnected == session.state = "running" => session.connected

\* A terminal that is shown as exited is not shown as running again.
ExitStands ==
    [][session.state = "exited" => session'.state # "running"]_vars
=============================================================================
