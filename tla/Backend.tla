------------------------------- MODULE Backend -------------------------------
(***************************************************************************)
(* The backend of remote access: the documents of one account in Firestore *)
(* (devices, remote sessions and their signals) and the callable functions *)
(* that change them (functions/src/index.ts, auth.ts, turn.ts), with the   *)
(* schema every stored session satisfies (packages/protocol/src/remote.ts).*)
(*                                                                         *)
(* A function runs in steps: what it reads before it writes is read in a   *)
(* step of its own, and other calls run in between; a Firestore            *)
(* transaction is one step.  A key belongs to its device for good, so      *)
(* thumbprints are left out, and every signature is the caller's.  Nothing *)
(* in the repository disables a device: Disable is the administrator's.    *)
(* Clients and server share one clock.                                     *)
(***************************************************************************)
EXTENDS Integers, FiniteSets

CONSTANTS
    Hosts, Browsers,    \* devices, by kind
    Sessions,           \* ids that clients draw
    Workers,            \* calls that may run at the same time
    PresenceLease,      \* DEVICE_PRESENCE_LEASE_MS
    SessionLease,       \* the lease a client asks for
    MaxSessionLease,    \* REMOTE_SESSION_MAX_LEASE_MS
    SignalLease,        \* SIGNAL_LEASE_MS
    TurnLease,          \* TURN_TTL_SECONDS
    OpsOf(_),           \* bound: what a worker may be called for
    MaxTime,            \* bound: the clock
    MaxDisables,        \* bound: devices disabled, and so enabled again
    MaxSignals,         \* bound: signals of one sender in a session
    ClaimedExpiries     \* bound: what a caller may sign as a signal's expiry

ASSUME BackendAssumption ==
    /\ Hosts \cap Browsers = {}
    /\ {PresenceLease, SessionLease, MaxSessionLease, SignalLease,
        TurnLease} \subseteq Nat \ {0}
    /\ {MaxTime, MaxDisables, MaxSignals} \subseteq Nat
    /\ ClaimedExpiries \subseteq Int
    /\ SessionLease =< MaxSessionLease

VARIABLES
    clock,      \* the server's
    devices,    \* users/{uid}/devices
    sessions,   \* users/{uid}/remoteSessions
    signals,    \* their signals subcollections
    calls,      \* the functions that run
    revoked     \* history: device generations that were disabled

vars == <<clock, devices, sessions, signals, calls, revoked>>

-----------------------------------------------------------------------------
Devices == Hosts \cup Browsers
None == "none"
Absent == -1
Smaller(a, b) == IF a =< b THEN a ELSE b

Connectable == {"approved", "signaling", "connected"}
Idle == [op |-> "none", stage |-> "idle", device |-> None, generation |-> 0,
         session |-> None, now |-> Absent, expires |-> Absent,
         recipient |-> None, host |-> None, hostGeneration |-> 0]
NoSession == [status |-> "none"]
NoDevice == [active |-> FALSE, generation |-> 0, expires |-> 0]

Init ==
    /\ clock = 0
    /\ devices = [d \in Devices |-> NoDevice]
    /\ sessions = [s \in Sessions |-> NoSession]
    /\ signals = {}
    /\ calls = [w \in Workers |-> Idle]
    /\ revoked = {}

Known(d) == devices[d].generation > 0

\* presenceExpiresAt, of the devices whose presence is read.
Presence(d, now) == IF d \in Hosts THEN now + PresenceLease ELSE 0

\* assertActiveDevice: the claims of the token against the document.
ActiveDevice(d, g) ==
    Known(d) /\ devices[d].active /\ devices[d].generation = g

\* The kind a function wants of its caller; a session has two devices.
MayCall(op, d) == op \in {"approve", "reject"} => d \in Hosts

\* resolveSessionPeerBinding: the other side, with the generation it had.
PeerOf(s, d, g) ==
    CASE s.client = d /\ s.clientGeneration = g ->
            [device |-> s.host, generation |-> s.hostGeneration]
      [] s.host = d /\ s.hostGeneration = g ->
            [device |-> s.client, generation |-> s.clientGeneration]
      [] OTHER -> [device |-> None, generation |-> 0]

-----------------------------------------------------------------------------
(* The schema of a session *)

LeaseInBounds(s) ==
    s.created < s.expires /\ s.expires =< s.created + MaxSessionLease

\* What must be there for a status, and what must not.
FieldsOfStatus(s) ==
    /\ s.status = "requested" => s.decided = Absent /\ s.closed = Absent
    /\ s.status = "approved" => s.decided # Absent /\ s.closed = Absent
    /\ s.status = "rejected" => s.decided # Absent /\ s.closed # Absent

Timeline(s) ==
    /\ s.decided # Absent => s.created =< s.decided
    /\ s.closed # Absent =>
        s.created =< s.closed /\ s.decided =< s.closed

SessionParses(s) == LeaseInBounds(s) /\ FieldsOfStatus(s) /\ Timeline(s)

\* deriveSessionState
Expired(s, now) == now >= s.expires

\* A mutant: an expired session is still usable.
UsableForever(s, now) == s.status \in Connectable

Usable(s, now) == s.status \in Connectable /\ ~Expired(s, now)

-----------------------------------------------------------------------------
(* Calls *)

Set(w, call) == calls' = [calls EXCEPT ![w] = call]
End(w) == Set(w, Idle)

AtStage(w, ops, stage) ==
    calls[w].stage = stage /\ calls[w].op \in ops

\* A device calls with one of its generations and requireDeviceClaims and
\* assertActiveDevice let it pass.  A signal may name any session, any
\* recipient and any expiry: its sender is all that is known of it so far.
Call(w, op, d, g, s, to, e) ==
    /\ calls[w] = Idle /\ op \in OpsOf(w)
    /\ ActiveDevice(d, g) /\ MayCall(op, d)
    /\ op \in {"approve", "reject", "peer", "turn", "publish"} =>
        sessions[s].status # "none"
    /\ Set(w, [op |-> op, stage |-> "checked", device |-> d, generation |-> g,
               session |-> s,
               now |-> IF op = "heartbeat" THEN clock ELSE Absent,
               expires |-> CASE op = "publish" -> e
                             [] op = "create" -> clock + SessionLease
                             [] OTHER -> Absent,
               recipient |-> IF op = "publish" THEN to ELSE None,
               host |-> None, hostGeneration |-> 0])
    /\ UNCHANGED <<clock, devices, sessions, signals, revoked>>

CallSome(w) ==
    \E op \in {"heartbeat", "create", "approve", "reject", "publish", "peer",
               "turn"}, d \in Devices, s \in Sessions :
        \E g \in 1..devices[d].generation, to \in Devices,
           e \in ClaimedExpiries :
            /\ op = "heartbeat" => s = CHOOSE x \in Sessions : TRUE
            /\ Call(w, op, d, g, s, to, e)

-----------------------------------------------------------------------------
(* Devices *)

\* What the transaction of registerDevice refuses.
RegistrationRefused(d, action) ==
    /\ Known(d)
    /\ action \in (IF devices[d].active THEN {"register", "reenable"}
                  ELSE {"register", "resume"})

\* A mutant: a device is enabled again under the generation it had.
SameGeneration(d, action) == IF ~Known(d) THEN 1 ELSE devices[d].generation

RegisteredGeneration(d, action) ==
    IF ~Known(d) THEN 1
    ELSE IF action = "reenable" THEN devices[d].generation + 1
    ELSE devices[d].generation

\* The token is created after the transaction.  A device that is not given
\* one just calls nothing with that generation.
Register(d, action) ==
    /\ ~RegistrationRefused(d, action)
    /\ devices' = [devices EXCEPT ![d] =
            [active |-> TRUE,
             generation |-> RegisteredGeneration(d, action),
             expires |-> Presence(d, clock)]]
    /\ UNCHANGED <<clock, sessions, signals, calls, revoked>>

\* heartbeatDevice looks at the device again inside its transaction.
StillActive(w) == ActiveDevice(calls[w].device, calls[w].generation)

Heartbeat(w) ==
    /\ AtStage(w, {"heartbeat"}, "checked")
    /\ IF StillActive(w)
       THEN devices' = [devices EXCEPT ![calls[w].device].expires =
                            Presence(calls[w].device, calls[w].now)]
       ELSE UNCHANGED devices
    /\ End(w)
    /\ UNCHANGED <<clock, sessions, signals, revoked>>

Disable(d) ==
    /\ Known(d) /\ devices[d].active /\ Cardinality(revoked) < MaxDisables
    /\ devices' = [devices EXCEPT ![d].active = FALSE]
    /\ revoked' = revoked \cup {<<d, devices[d].generation>>}
    /\ UNCHANGED <<clock, sessions, signals, calls>>

-----------------------------------------------------------------------------
(* Sessions *)

HostOnline(h, now) ==
    Known(h) /\ devices[h].active /\ now < devices[h].expires

\* createRemoteSession reads the host, outside a transaction.
LookAtHost(w) ==
    /\ AtStage(w, {"create"}, "checked")
    /\ \E h \in Hosts \ {calls[w].device} :
        IF HostOnline(h, clock)
        THEN Set(w, [calls[w] EXCEPT !.stage = "ready", !.now = clock, !.host = h,
                                     !.hostGeneration = devices[h].generation])
        ELSE End(w)
    /\ UNCHANGED <<clock, devices, sessions, signals, revoked>>

RequestedSession(w) ==
    [status |-> "requested",
     client |-> calls[w].device, clientGeneration |-> calls[w].generation,
     host |-> calls[w].host, hostGeneration |-> calls[w].hostGeneration,
     created |-> calls[w].now, expires |-> calls[w].expires,
     decided |-> Absent, closed |-> Absent, decider |-> None]

\* ref.create fails when the document exists.
CreateSession(w) ==
    /\ AtStage(w, {"create"}, "ready")
    /\ IF /\ SessionParses(RequestedSession(w))
          /\ sessions[calls[w].session].status = "none"
       THEN sessions' = [sessions EXCEPT ![calls[w].session] =
                            RequestedSession(w)]
       ELSE UNCHANGED sessions
    /\ End(w)
    /\ UNCHANGED <<clock, devices, signals, revoked>>

\* The host's own document is read for its key, then the clock.
LookAtSelf(w) ==
    /\ AtStage(w, {"approve", "reject"}, "checked")
    /\ Set(w, [calls[w] EXCEPT !.stage = "ready", !.now = clock])
    /\ UNCHANGED <<clock, devices, sessions, signals, revoked>>

\* A mutant: any generation of the host decides.
ActionableByDevice(s, w) ==
    s.status = "requested" /\ s.host = calls[w].device
        /\ calls[w].now < s.expires

\* A mutant: what was decided is decided again.
ActionableAgain(s, w) ==
    /\ s.host = calls[w].device
    /\ s.hostGeneration = calls[w].generation
    /\ calls[w].now < s.expires

Actionable(s, w) ==
    /\ s.status = "requested"
    /\ s.host = calls[w].device
    /\ s.hostGeneration = calls[w].generation
    /\ calls[w].now < s.expires

\* What the call makes of the session; neither call sets closedAt.
Decided(s, w) ==
    [s EXCEPT !.status = IF calls[w].op = "approve" THEN "approved"
                         ELSE "rejected",
              !.decided = calls[w].now,
              !.decider = <<calls[w].device, calls[w].generation>>]

\* The transaction of approveRemoteSession and of rejectRemoteSession.  A
\* session that does not parse ends it with an internal error.
Decide(w) ==
    /\ AtStage(w, {"approve", "reject"}, "ready")
    /\ \E s \in {sessions[calls[w].session]} :
        IF ~Actionable(s, w) THEN End(w) /\ UNCHANGED sessions
        ELSE IF ~SessionParses(Decided(s, w))
        THEN Set(w, [calls[w] EXCEPT !.stage = "failed"])
             /\ UNCHANGED sessions
        ELSE End(w) /\ sessions' = [sessions EXCEPT ![calls[w].session] =
                                        Decided(s, w)]
    /\ UNCHANGED <<clock, devices, signals, revoked>>

-----------------------------------------------------------------------------
(* What an approved session gives: signals, the peer's device, TURN *)

Participant(s, d) == d \in {s.client, s.host}

Recipient(s, d) == IF d = s.client THEN s.host ELSE s.client

\* publishSignal, getSessionPeerDevice and issueTurnCredentials read the
\* session; the first wants a signal for the other device, the second the
\* generations of the session.
LookAtSession(w) ==
    /\ AtStage(w, {"publish", "peer", "turn"}, "checked")
    /\ \E s \in {sessions[calls[w].session]}, d \in {calls[w].device} :
        IF /\ Participant(s, d) /\ Usable(s, clock)
           /\ calls[w].op = "publish" => calls[w].recipient = Recipient(s, d)
           /\ calls[w].op = "peer" =>
                PeerOf(s, d, calls[w].generation).device # None
        THEN Set(w, [calls[w] EXCEPT !.stage = "ready", !.now = clock])
        ELSE End(w)
    /\ UNCHANGED <<clock, devices, sessions, signals, revoked>>

\* The server cuts the expiry to the lease of a signal, then parses the signal
\* and verifies its signature, which a cut has made invalid.
StoredExpiry(w) == Smaller(calls[w].expires, calls[w].now + SignalLease)

SignalVerifies(w) ==
    /\ calls[w].now < StoredExpiry(w)
    /\ StoredExpiry(w) = calls[w].expires

SignalOf(w, q) ==
    [session |-> calls[w].session, sequence |-> q, sender |-> calls[w].device,
     recipient |-> calls[w].recipient, created |-> calls[w].now,
     expires |-> StoredExpiry(w)]

Taken(x) ==
    \E y \in signals : <<x.session, x.sender, x.sequence>> =
                          <<y.session, y.sender, y.sequence>>

\* A sequence number that is taken fails.
PublishSignal(w) ==
    /\ AtStage(w, {"publish"}, "ready")
    /\ \E q \in 1..MaxSignals :
        signals' = IF SignalVerifies(w) /\ ~Taken(SignalOf(w, q))
                   THEN signals \cup {SignalOf(w, q)} ELSE signals
    /\ End(w)
    /\ UNCHANGED <<clock, devices, sessions, revoked>>

\* The peer's device is answered when it still is what the session names.
AnswerPeer(w) ==
    /\ AtStage(w, {"peer"}, "ready")
    /\ \E p \in {PeerOf(sessions[calls[w].session], calls[w].device,
                       calls[w].generation)} :
        IF ActiveDevice(p.device, p.generation)
        THEN Set(w, [calls[w] EXCEPT !.stage = "answered"])
        ELSE End(w)
    /\ UNCHANGED <<clock, devices, sessions, signals, revoked>>

\* Cloudflare answers within TURN_REQUEST_TIMEOUT_MS, or the call fails the
\* same way whatever went wrong.  The credentials end with the session; the
\* issuance is stored last, and nothing reads it again.
IssueTurn(w) ==
    /\ AtStage(w, {"turn"}, "ready")
    /\ \/ Set(w, [calls[w] EXCEPT !.stage = "answered", !.expires =
                    Smaller(calls[w].now + TurnLease,
                            sessions[calls[w].session].expires)])
       \/ Set(w, [calls[w] EXCEPT !.stage = "failed"])
    /\ UNCHANGED <<clock, devices, sessions, signals, revoked>>

\* The caller is told what the call came to.
Told(w) ==
    /\ calls[w].stage \in {"failed", "answered"}
    /\ End(w)
    /\ UNCHANGED <<clock, devices, sessions, signals, revoked>>

Tick ==
    /\ clock < MaxTime
    /\ clock' = clock + 1
    /\ UNCHANGED <<devices, sessions, signals, calls, revoked>>

-----------------------------------------------------------------------------
Proceed(w) ==
    \/ Heartbeat(w) \/ LookAtHost(w) \/ CreateSession(w)
    \/ LookAtSelf(w) \/ Decide(w)
    \/ LookAtSession(w) \/ PublishSignal(w) \/ AnswerPeer(w)
    \/ IssueTurn(w) \/ Told(w)

Next ==
    \/ \E w \in Workers : CallSome(w) \/ Proceed(w)
    \/ \E d \in Devices, action \in {"register", "resume", "reenable"} :
        Register(d, action)
    \/ \E d \in Devices : Disable(d)
    \/ Tick

Spec == Init /\ [][Next]_vars

-----------------------------------------------------------------------------
(* Properties *)

\* Whatever a device held when it was disabled stays refused for good: no
\* resume, no registration and no re-enabling makes a token of a disabled
\* generation pass the check of a function that is called with it, and a
\* heartbeat that was let in before the device was disabled does not bring it
\* back (registerDevice, assertActiveDevice, heartbeatDevice).
RevocationIsFinal ==
    [][/\ \A w \in Workers :
            calls[w] = Idle /\ calls'[w].stage = "checked" =>
                <<calls'[w].device, calls'[w].generation>> \notin revoked
       /\ \A d \in Devices :
            devices'[d].expires > devices[d].expires =>
                <<d, devices'[d].generation>> \notin revoked]_vars

\* A decision is the one of the host that was asked, with the generation it
\* was asked under, made while the request lived; and what is stored always
\* satisfies the schema that every reader parses it with.
DecisionIsTheHosts ==
    \A s \in {sessions[x] : x \in Sessions} :
        s.status # "none" =>
            /\ SessionParses(s)
            /\ s.client # s.host
            /\ s.status = "approved" =>
                /\ s.decider = <<s.host, s.hostGeneration>>
                /\ s.created =< s.decided /\ s.decided < s.expires

\* Once decided a session does not change: of two calls that decide at the
\* same time one is refused.
DecisionStands ==
    [][\A x \in Sessions :
        sessions[x].status \in {"approved", "rejected"} =>
            sessions'[x] = sessions[x]]_vars

\* A signal is from one device of an approved session to the other, and was
\* stored while that session lived, for no longer than a signal's lease.
SignalServes(x) ==
    /\ sessions[x.session].status = "approved"
    /\ {x.sender, x.recipient} = {sessions[x.session].client, sessions[x.session].host}
    /\ sessions[x.session].decided =< x.created
    /\ x.created < sessions[x.session].expires
    /\ x.created < x.expires /\ x.expires =< x.created + SignalLease

\* Credentials are answered to a device of an approved session, within its lease.
TurnServes(w) ==
    AtStage(w, {"turn"}, "answered") =>
        /\ sessions[calls[w].session].status = "approved"
        /\ Participant(sessions[calls[w].session], calls[w].device)
        /\ calls[w].now < calls[w].expires
        /\ calls[w].expires =< sessions[calls[w].session].expires

\* Whatever a device asks for, of whatever session, signals are stored and TURN
\* credentials are given for an approved session only, to one of its two
\* devices and while it lives, although the session was read in an earlier
\* step; credentials end with it, and a sequence number is stored once.
SessionServices ==
    /\ \A x \in signals : SignalServes(x)
    /\ \A x, y \in signals :
        <<x.session, x.sender, x.sequence>> =
            <<y.session, y.sender, y.sequence>> => x = y
    /\ \A w \in Workers : TurnServes(w)

\* "the session is rejected rather than left pending"
\* (docs/runbooks/remote-access.md:126): a rejection by the host that is
\* asked is stored.
RejectionIsStored ==
    \A w \in Workers : calls[w].op = "reject" => calls[w].stage # "failed"
=============================================================================
