--------------------------- MODULE HostController ---------------------------
(***************************************************************************)
(* The remote host of the desktop: RemoteHostController                    *)
(* (remote/host-controller.ts), which signs the account in and out,        *)
(* activates and deactivates the host, and answers session requests with   *)
(* the SessionApprovalRegistry (session-approval.ts); and of the           *)
(* DesktopPeerConnector what acceptHostSession and close() do to the peers *)
(* it serves.                                                              *)
(*                                                                         *)
(* A step is what runs between two awaits that wait for the network, the   *)
(* user or a timer.  signOut() of Firebase waits for neither: logout() and *)
(* deactivate() are one step.  createRemoteFirebaseRuntime returns the     *)
(* same app each time, so the user of an app outlives the fields that hold *)
(* its runtime.                                                            *)
(***************************************************************************)
EXTENDS Integers, FiniteSets

CONSTANTS
    Sessions,           \* remote sessions that clients request
    MaxLogins,          \* bound: logins that are started
    MaxActivations,     \* bound: activations that are started
    Faults              \* what may fail besides the network

FaultKinds == {"listener", "window"}

ASSUME HostControllerAssumption ==
    /\ MaxLogins \in Nat
    /\ MaxActivations \in Nat
    /\ Faults \subseteq FaultKinds

VARIABLES
    account,    \* accountStatus, this.runtime, and the user of its app
    login,      \* authGeneration: the login it is of; and what came late
    attempts,   \* per login, where its promise is
    host,       \* status, stopRequested, startPromise, what the fields hold
    live,       \* connectors, timers and listeners that were not closed
    approvals,  \* the registry: entries, windows awaited, calls in flight
    server,     \* the state of each session at the backend
    peers,      \* sessions being accepted and served, with their connector
    history     \* whether the last of login() and logout() was logout(), and
                \* of activate(), deactivate() and logout() it was activate()

accountVars == <<account, login, attempts>>
vars == <<accountVars, host, live, approvals, server, peers, history>>

-----------------------------------------------------------------------------
None == 0
Logins == 1..MaxLogins
Activations == 1..MaxActivations

Calls == {"approve", "reject"} \X Sessions

\* The login whose promise authPromise is.
InProgress ==
    login.current # None /\ attempts[login.current] # "settled"

SignedIn == account.runtime /\ account.user

Nobody == [connectors |-> {}, timers |-> {}, listeners |-> {}]

Init ==
    /\ account = [status |-> "signed_out", runtime |-> FALSE, user |-> FALSE]
    /\ login = [started |-> 0, current |-> None, late |-> FALSE]
    /\ attempts = [l \in Logins |-> "new"]
    /\ host = [status |-> "idle", stopRequested |-> FALSE, start |-> "none",
               activation |-> 0, runtime |-> FALSE, user |-> FALSE,
               connector |-> None, timer |-> None, listener |-> None]
    /\ live = Nobody
    /\ approvals = [entries |-> {}, presenting |-> {}, calls |-> {}]
    /\ server = [s \in Sessions |-> "none"]
    /\ peers = [accepting |-> {}, serving |-> {}]
    /\ history = [loggedOut |-> TRUE, wanted |-> FALSE]

-----------------------------------------------------------------------------
(* The account *)

\* login(); one that is in progress is joined, and an account that is signed
\* in answers at once.
Login ==
    /\ account.status = "signed_in" => ~SignedIn
    /\ ~InProgress
    /\ login.started < MaxLogins
    /\ LET l == login.started + 1 IN
          /\ login' = [login EXCEPT !.started = l, !.current = l]
          /\ attempts' = [attempts EXCEPT ![l] = "browser"]
    /\ account' = [account EXCEPT !.status = "signing_in"]
    /\ host' = [host EXCEPT !.stopRequested = FALSE]
    /\ history' = [history EXCEPT !.loggedOut = FALSE]
    /\ UNCHANGED <<live, approvals, server, peers>>

\* The browser came back and signInWithCredential resolved.  The port of the
\* callback is exclusive: an earlier login has closed its listener.
SignsIn(l) ==
    /\ attempts[l] = "browser"
    /\ \A k \in Logins : attempts[k] # "closing"
    /\ attempts' = [attempts EXCEPT ![l] = "closing"]
    /\ account' = [account EXCEPT !.user = TRUE]
    /\ UNCHANGED <<login, host, live, approvals, server, peers, history>>

\* The user cancels, the login times out or the network fails; a sign-in that
\* is under way is not stopped by the abort signal.
LoginFails(l) ==
    /\ attempts[l] = "browser"
    /\ \E late \in {login.late, TRUE} :
          login' = [login EXCEPT !.late = late]
    /\ attempts' = [attempts EXCEPT ![l] = "settled"]
    /\ account' = [account EXCEPT
          !.status = IF l = login.current THEN "error" ELSE @]
    /\ UNCHANGED <<host, live, approvals, server, peers, history>>

LateSignIn ==
    /\ login.late
    /\ login' = [login EXCEPT !.late = FALSE]
    /\ account' = [account EXCEPT !.user = TRUE]
    /\ UNCHANGED <<attempts, host, live, approvals, server, peers, history>>

\* The listener of the callback is closed: loginInternal keeps the runtime.
LoginSucceeds(l) ==
    /\ attempts[l] = "closing"
    /\ l = login.current /\ ~host.stopRequested
    /\ attempts' = [attempts EXCEPT ![l] = "settled"]
    /\ account' = [account EXCEPT !.runtime = TRUE, !.status = "signed_in"]
    /\ UNCHANGED <<login, host, live, approvals, server, peers, history>>

\* A mutant: a cancelled login keeps its runtime and says so.
CancelledLoginKept(l) ==
    /\ attempts[l] = "closing"
    /\ l # login.current \/ host.stopRequested
    /\ attempts' = [attempts EXCEPT ![l] = "settled"]
    /\ account' = [account EXCEPT !.runtime = TRUE, !.status = "signed_in"]
    /\ UNCHANGED <<login, host, live, approvals, server, peers, history>>

\* loginInternal finds that it was cancelled and signs out again.
LoginCancelled(l) ==
    /\ attempts[l] = "closing"
    /\ l # login.current \/ host.stopRequested
    /\ attempts' = [attempts EXCEPT ![l] = "settled"]
    /\ account' = [account EXCEPT
          !.user = FALSE,
          !.status = IF l = login.current THEN "error" ELSE @]
    /\ UNCHANGED <<login, host, live, approvals, server, peers, history>>

-----------------------------------------------------------------------------
(* Stopping *)

\* The fields that hold resources, cleared in the state h of the controller.
Cleared(h) ==
    [h EXCEPT !.runtime = FALSE, !.user = IF host.runtime THEN FALSE ELSE @,
              !.connector = None, !.timer = None, !.listener = None]

\* stopHostResources, with what its caller makes of host: whatever the fields
\* hold is closed, the connector with the peers it serves.
StopHostResources(h) ==
    /\ host' = Cleared(h)
    /\ live' = [connectors |-> live.connectors \ {host.connector},
                timers |-> live.timers \ {host.timer},
                listeners |-> live.listeners \ {host.listener}]
    /\ approvals' = [approvals EXCEPT !.entries = {}]
    /\ peers' = [peers EXCEPT !.serving = {p \in @ : p[2] # host.connector}]

Deactivate ==
    /\ StopHostResources([host EXCEPT !.stopRequested = TRUE,
                                      !.status = "idle"])
    /\ history' = [history EXCEPT !.wanted = FALSE]
    /\ UNCHANGED <<accountVars, server>>

\* The login that waits for the browser is aborted.
Logout ==
    /\ StopHostResources([host EXCEPT !.stopRequested = TRUE,
                                      !.status = "idle"])
    /\ account' = [status |-> "signed_out", runtime |-> FALSE,
                   user |-> IF account.runtime THEN FALSE ELSE account.user]
    /\ \E late \in {login.late, TRUE} :
          /\ late => login.late \/ \E l \in Logins : attempts[l] = "browser"
          /\ login' = [login EXCEPT !.current = None, !.late = late]
    /\ attempts' = [l \in Logins |->
          IF attempts[l] = "browser" THEN "settled" ELSE attempts[l]]
    /\ history' = [loggedOut |-> TRUE, wanted |-> FALSE]
    /\ UNCHANGED server

-----------------------------------------------------------------------------
(* Activating *)

\* activate() while a start is pending joins it, whatever became of it.
ActivateJoins ==
    /\ host.status # "online"
    /\ SignedIn
    /\ host.start # "none"
    /\ history' = [history EXCEPT !.wanted = TRUE]
    /\ UNCHANGED <<accountVars, host, live, approvals, server, peers>>

Activate ==
    /\ host.status # "online"
    /\ SignedIn
    /\ host.start = "none"
    /\ host.activation < MaxActivations
    /\ history' = [history EXCEPT !.wanted = TRUE]
    /\ host' = [host EXCEPT !.stopRequested = FALSE, !.status = "activating",
                            !.start = "registering", !.activation = @ + 1]
    /\ UNCHANGED <<accountVars, live, approvals, server, peers>>

\* The device is registered and signed in, and nobody asked to stop: the
\* fields are assigned, over what an earlier activation left in them.
Registered ==
    /\ host.start = "registering"
    /\ ~host.stopRequested
    /\ LET n == host.activation IN
          /\ host' = [host EXCEPT !.start = "heartbeat", !.runtime = TRUE,
                                  !.user = TRUE, !.connector = n, !.timer = n]
          /\ live' = [live EXCEPT !.connectors = @ \cup {n},
                                  !.timers = @ \cup {n}]
    /\ account' = [account EXCEPT !.runtime = TRUE]
    /\ UNCHANGED <<login, attempts, approvals, server, peers, history>>

\* Nobody waits for the device any more: it is signed out again.
RegisteredTooLate ==
    /\ host.start = "registering"
    /\ host.stopRequested
    /\ host' = [host EXCEPT !.start = "none", !.user = FALSE]
    /\ UNCHANGED <<accountVars, live, approvals, server, peers, history>>

\* A mutant: the subscription needs no user.
ListensWithoutUser ==
    /\ host.start = "heartbeat"
    /\ host' = [host EXCEPT !.start = "none", !.status = "online",
                            !.listener = host.activation]
    /\ live' = [live EXCEPT !.listeners = @ \cup {host.activation}]
    /\ UNCHANGED <<accountVars, approvals, server, peers, history>>

\* The first heartbeat was answered: subscribePendingSessions, and online.
\* Without a user the path of the subscription is invalid and it throws.
Listens ==
    /\ host.start = "heartbeat"
    /\ host.user
    /\ host' = [host EXCEPT !.start = "none", !.status = "online",
                            !.listener = host.activation]
    /\ live' = [live EXCEPT !.listeners = @ \cup {host.activation}]
    /\ UNCHANGED <<accountVars, approvals, server, peers, history>>

\* A mutant: a start that fails leaves its status behind.
FailsSilently ==
    /\ host.start # "none"
    /\ StopHostResources([host EXCEPT !.start = "none"])
    /\ UNCHANGED <<accountVars, server, history>>

\* A request of startInternal failed, or the user was gone when it listened.
StartFails ==
    /\ host.start # "none"
    /\ StopHostResources([host EXCEPT !.start = "none", !.status = "error"])
    /\ UNCHANGED <<accountVars, server, history>>

\* The subscription of pending sessions ends with an error; nothing else does.
ListenerFails(n) ==
    /\ "listener" \in Faults
    /\ n \in live.listeners
    /\ live' = [live EXCEPT !.listeners = @ \ {n}]
    /\ host' = [host EXCEPT !.status = "error"]
    /\ UNCHANGED <<accountVars, approvals, server, peers, history>>

-----------------------------------------------------------------------------
(* The requests of clients *)

\* The backend: a client requests a session, and a request expires.
Requested(s) ==
    /\ server[s] = "none"
    /\ server' = [server EXCEPT ![s] = "requested"]
    /\ UNCHANGED <<accountVars, host, live, approvals, peers, history>>

\* Every reading of the registry prunes what has expired.
Expires(s) ==
    /\ server[s] = "requested"
    /\ server' = [server EXCEPT ![s] = "expired"]
    /\ approvals' = [approvals EXCEPT !.entries = @ \ {s}]
    /\ UNCHANGED <<accountVars, host, live, peers, history>>

\* A snapshot lists s, and handlePending presents what it does not know.
Pending(s) ==
    /\ live.listeners # {} /\ host.user
    /\ server[s] = "requested"
    /\ s \notin approvals.entries
    /\ approvals' = [approvals EXCEPT !.entries = @ \cup {s},
                                      !.presenting = @ \cup {s}]
    /\ UNCHANGED <<accountVars, host, live, server, peers, history>>

WindowShown(s) ==
    /\ s \in approvals.presenting
    /\ approvals' = [approvals EXCEPT !.presenting = @ \ {s}]
    /\ UNCHANGED <<accountVars, host, live, server, peers, history>>

\* The entry goes, and signSession... throws unless the host is started.
Answer(kind, s) ==
    /\ approvals' = [approvals EXCEPT
          !.entries = @ \ {s},
          !.calls = IF host.runtime THEN @ \cup {<<kind, s>>} ELSE @]
    /\ UNCHANGED <<accountVars, host, live, server, peers, history>>

\* ensureWindow() rejects: the session is rejected for the user.
WindowFails(s) ==
    /\ "window" \in Faults
    /\ s \in approvals.presenting
    /\ approvals' = [entries |-> approvals.entries \ {s},
                     presenting |-> approvals.presenting \ {s},
                     calls |-> IF host.runtime
                               THEN approvals.calls \cup {<<"reject", s>>}
                               ELSE approvals.calls]
    /\ UNCHANGED <<accountVars, host, live, server, peers, history>>

Approve(s) == s \in approvals.entries /\ Answer("approve", s)

Reject(s) == s \in approvals.entries /\ Answer("reject", s)

\* The backend takes one answer; the connector of the moment accepts.
Answered(kind, s) ==
    /\ <<kind, s>> \in approvals.calls
    /\ server[s] = "requested"
    /\ server' = [server EXCEPT
          ![s] = IF kind = "approve" THEN "approved" ELSE "rejected"]
    /\ approvals' = [approvals EXCEPT !.calls = @ \ {<<kind, s>>}]
    /\ peers' = [peers EXCEPT
          !.accepting = IF kind = "approve" /\ host.connector # None
                        THEN @ \cup {<<s, host.connector>>} ELSE @]
    /\ UNCHANGED <<accountVars, host, live, history>>

\* The call fails, after the backend took it or without.
AnswerFails(kind, s) ==
    /\ <<kind, s>> \in approvals.calls
    /\ \/ UNCHANGED server
       \/ /\ server[s] = "requested"
          /\ server' = [server EXCEPT
                ![s] = IF kind = "approve" THEN "approved" ELSE "rejected"]
    /\ approvals' = [approvals EXCEPT !.calls = @ \ {<<kind, s>>}]
    /\ UNCHANGED <<accountVars, host, live, peers, history>>

-----------------------------------------------------------------------------
(* The peers of the connectors *)

\* acceptHostSession has awaited the device of the client and the ICE servers
\* and starts the negotiation; it looked whether the connector is open before.
AcceptResumes(p) ==
    /\ p \in peers.accepting
    /\ host.user
    /\ peers' = [peers EXCEPT !.accepting = @ \ {p}, !.serving = @ \cup {p}]
    /\ UNCHANGED <<accountVars, host, live, approvals, server, history>>

\* A request of it failed, or the device is signed out.
AcceptFails(p) ==
    /\ p \in peers.accepting
    /\ peers' = [peers EXCEPT !.accepting = @ \ {p}]
    /\ UNCHANGED <<accountVars, host, live, approvals, server, history>>

\* The peer is gone: onError.
PeerEnds(p) ==
    /\ p \in peers.serving
    /\ peers' = [peers EXCEPT !.serving = @ \ {p}]
    /\ UNCHANGED <<accountVars, host, live, approvals, server, history>>

-----------------------------------------------------------------------------
Next ==
    \/ Login
    \/ \E l \in Logins : \/ SignsIn(l)
                         \/ LoginFails(l)
                         \/ LoginSucceeds(l)
                         \/ LoginCancelled(l)
    \/ LateSignIn
    \/ Logout
    \/ Activate
    \/ ActivateJoins
    \/ Registered
    \/ RegisteredTooLate
    \/ Listens
    \/ StartFails
    \/ Deactivate
    \/ \E n \in Activations : ListenerFails(n)
    \/ \E s \in Sessions : \/ Requested(s)
                           \/ Expires(s)
                           \/ Pending(s)
                           \/ WindowShown(s)
                           \/ WindowFails(s)
                           \/ Approve(s)
                           \/ Reject(s)
    \/ \E call \in Calls : \/ Answered(call[1], call[2])
                           \/ AnswerFails(call[1], call[2])
    \/ \E p \in peers.accepting : AcceptResumes(p) \/ AcceptFails(p)
    \/ \E p \in peers.serving : PeerEnds(p)

Spec == Init /\ [][Next]_vars

\* The requests of a start are answered or time out.
Fairness == WF_vars(Registered \/ RegisteredTooLate \/ Listens \/ StartFails)

FairSpec == Spec /\ Fairness

-----------------------------------------------------------------------------
(* Properties *)

HostStates == {"idle", "activating", "online", "error"}

\* The state keeps its shape, and what the fields hold was not closed.
TypeOK ==
    /\ account \in [status : {"signed_out", "signing_in", "signed_in",
                              "error"}, runtime : BOOLEAN, user : BOOLEAN]
    /\ login \in [started : 0..MaxLogins, current : 0..MaxLogins,
                  late : BOOLEAN]
    /\ attempts \in [Logins -> {"new", "browser", "closing", "settled"}]
    /\ host \in [status : HostStates, stopRequested : BOOLEAN,
                 start : {"none", "registering", "heartbeat"},
                 activation : 0..MaxActivations, runtime : BOOLEAN,
                 user : BOOLEAN, connector : 0..MaxActivations,
                 timer : 0..MaxActivations, listener : 0..MaxActivations]
    /\ live \in [connectors : SUBSET Activations, timers : SUBSET Activations,
                 listeners : SUBSET Activations]
    /\ host.connector \in live.connectors \cup {None}
    /\ host.timer \in live.timers \cup {None}
    /\ approvals \in [entries : SUBSET Sessions, presenting : SUBSET Sessions,
                      calls : SUBSET Calls]
    /\ server \in [Sessions -> {"none", "requested", "expired", "approved",
                                "rejected"}]
    /\ peers \in [accepting : SUBSET (Sessions \X Activations),
                  serving : SUBSET (Sessions \X Activations)]
    /\ history \in [loggedOut : BOOLEAN, wanted : BOOLEAN]

\* "keeps logout authoritative when an in-flight login finishes late": until
\* the next login the account is signed out and nothing can be activated.
LogoutStands ==
    history.loggedOut => account.status = "signed_out" /\ ~account.runtime

\* An account that is shown as signed in has a runtime with a user: a login
\* that was cancelled, or superseded, neither signs it out nor shows it.
SignedInHasUser == account.status = "signed_in" => SignedIn

\* A host that is shown online listens, beats and can accept, although it may
\* have been stopped while its start was awaiting the registration or the
\* first heartbeat.
OnlineServes ==
    host.status = "online" =>
        /\ host.runtime /\ host.user
        /\ host.connector \in live.connectors
        /\ host.timer \in live.timers
        /\ host.listener \in live.listeners

\* A host that was stopped, although its start was pending, runs no listener,
\* shows no request of a client, and has closed the connector and the heartbeat
\* of its last activation.
StoppedIsClosed ==
    host.stopRequested =>
        /\ host.activation \notin live.connectors \cup live.timers
        /\ live.listeners = {}
        /\ approvals.entries = {}

\* What the account and the host show is what they hold, whichever promises
\* of overtaken logins and activations settle late (login, startInternal,
\* stopHostResources).
ShownIsHeld == TypeOK /\ SignedInHasUser /\ OnlineServes /\ StoppedIsClosed

\* An activation ends: the status does not stay activating, whichever of a
\* stop, a failure and a login its start meets.
ActivationEnds == host.status = "activating" ~> host.status # "activating"

\* "Deactivating tears down all peer connections."
IdleServesNobody == host.status = "idle" => peers.serving = {}

\* "Do not leave the short-lived device auth session alive in that race": a
\* user who deactivated or logged out, and has not asked to activate since,
\* does not find the host online.
OnlineIsWanted == host.status = "online" => history.wanted

\* "announces the complete pending set once per session": a session whose
\* answer is under way is not presented to the user again.
AnsweredOnce ==
    \A s \in approvals.entries :
        {<<"approve", s>>, <<"reject", s>>} \cap approvals.calls = {}
=============================================================================
