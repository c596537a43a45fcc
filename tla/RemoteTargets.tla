---------------------------- MODULE RemoteTargets ----------------------------
(***************************************************************************)
(* The client side of remote access, for one target device:                *)
(*                                                                         *)
(*   RemoteAgentClient keeps the target's state, the connection under way  *)
(*   and the connected peer; DesktopPeerConnector requests a session,      *)
(*   waits for its approval and negotiates; PeerNegotiationSession owns    *)
(*   the RTC connection and its two data channels, over which a            *)
(*   RemoteAgentChannelClient does the handshake and sends requests;       *)
(*   ProxyTerminalRouter keeps the proxied terminals.                      *)
(*                                                                         *)
(* An attempt is one call of connectTarget() that found no peer and no     *)
(* connection under way, with everything it creates.  Targets share only   *)
(* the connector and disconnectAll(), which treat each of them the same.   *)
(* The host, the backend and the network are the environment: they answer, *)
(* refuse, fail and disappear.                                             *)
(***************************************************************************)
EXTENDS Integers, Sequences, FiniteSets

CONSTANTS
    MaxAttempts,     \* bound: calls of connectTarget() that begin
    MaxActivations,  \* bound: times the remote host is activated
    MaxTerminals     \* bound: terminals launched on the target

ASSUME RemoteTargetsAssumption ==
    /\ MaxAttempts \in Nat \ {0}
    /\ MaxActivations \in Nat \ {0}
    /\ MaxTerminals \in Nat

Attempts == 1..MaxAttempts
None == 0

VARIABLES
    connector,    \* the open connector, by its activation, or None
    activations,
    refreshing,   \* refreshTargets() awaits listDevices()
    target,       \* the entry of the target in devices and states
    connecting,   \* its entry in RemoteAgentClient.connecting, or None
    peer,         \* its entry in RemoteAgentClient.peers, or None
    attempts,
    proxies,      \* the RemoteProxySessions, in the order of the map
    requests,     \* the requests of the channel clients that have no response
    subscribed,   \* the peers in peerSubscriptions
    hosted        \* the terminals the host still knows as the client's

hostVars == <<connector, activations>>
targetVars == <<target, connecting, peer>>
routerVars == <<proxies, requests, subscribed>>
vars == <<connector, activations, refreshing, target, connecting, peer,
          attempts, proxies, requests, subscribed, hosted>>

TargetStates == {"none", "available", "waiting_for_approval", "connecting",
                 "connected", "rejected", "error", "offline"}

NewAttempt == [stage |-> "none", via |-> None, session |-> "none",
               rtc |-> FALSE, deadline |-> FALSE,
               channels |-> "none", client |-> "none"]

Requests == [kind : {"launch"}, terminal : {None}, via : Attempts]
       \cup [kind : {"attach", "detach"}, terminal : 1..MaxTerminals,
             via : Attempts]

Init ==
    /\ connector = None
    /\ activations = 0
    /\ refreshing = FALSE
    /\ target = [listed |-> FALSE, state |-> "none"]
    /\ connecting = None
    /\ peer = None
    /\ attempts = [a \in Attempts |-> NewAttempt]
    /\ proxies = <<>>
    /\ requests = {}
    /\ subscribed = {}
    /\ hosted = {}

-----------------------------------------------------------------------------
(* The proxied terminals *)

\* disconnectSession() of the terminals ts.
Disconnected(ps, ts) ==
    [t \in DOMAIN ps |->
        IF t \in ts /\ ps[t].connected
        THEN [ps[t] EXCEPT !.connected = FALSE, !.shown = "exited"]
        ELSE ps[t]]

\* A mutant: resume() has no set of the sessions it is resuming.
WaitingAgain(ps, rs, t) == ~ps[t].connected /\ ps[t].visible

\* What resume() does not skip: sessions that lost their peer, and are not
\* being resumed.
Waiting(ps, rs, t) ==
    /\ ~ps[t].connected /\ ps[t].visible
    /\ \A r \in rs : r.kind = "attach" => r.terminal # t

\* The loop of resume() over the sessions from number n on, up to its next
\* await: the first one that waits is bound to peer a, and attached if a
\* request can still be sent.
ResumesFrom(ps, rs, a, usable, n) ==
    LET waiting == {t \in DOMAIN ps : t >= n /\ Waiting(ps, rs, t)} IN
    \/ waiting = {} /\ proxies' = ps /\ requests' = rs
    \/ \E t \in waiting :
          /\ \A u \in waiting : t <= u
          /\ proxies' = [ps EXCEPT ![t] = [@ EXCEPT
                           !.via = a,
                           !.connected = ps[t].connected \/ usable]]
          /\ requests' = IF usable
                         THEN rs \cup {[kind |-> "attach", terminal |-> t,
                                        via |-> a]}
                         ELSE rs

\* A request can be sent: the client is not closed, nor are its channels.
Usable(a) == attempts[a].client = "open" /\ attempts[a].channels = "open"

\* publish() of the targets: index.ts resumes the sessions of a target that
\* is listed as connected, if it has a peer.
Publishes ==
    IF target'.listed /\ target'.state = "connected" /\ peer' # None
    THEN /\ subscribed' = subscribed \cup {peer'}
         /\ ResumesFrom(proxies, requests, peer', Usable(peer)', 1)
    ELSE UNCHANGED routerVars

\* What becomes of the requests and terminals when the clients cs close: their
\* requests reject, an attach that does disconnects its session, and so does
\* the router every session of a peer it subscribed to, if they notify.
ClientsGone(cs, notify) ==
    LET attaching == {r.terminal : r \in {r \in requests :
                                     r.via \in cs /\ r.kind = "attach"}}
        told == IF notify
                THEN {t \in DOMAIN proxies :
                        proxies[t].via \in cs \cap subscribed}
                ELSE {}
    IN  /\ proxies' = Disconnected(proxies, attaching \cup told)
        /\ requests' = {r \in requests : r.via \notin cs}
        /\ UNCHANGED subscribed

\* The listener connectTarget() added to its peer: the target goes offline.
PeerGone(a) ==
    IF peer = a
    THEN /\ peer' = None
         /\ target' = [target EXCEPT !.state = "offline"]
         /\ UNCHANGED connecting
    ELSE UNCHANGED targetVars

-----------------------------------------------------------------------------
(* The targets *)

Activate ==
    /\ connector = None
    /\ activations < MaxActivations
    /\ activations' = activations + 1
    /\ connector' = activations'
    /\ refreshing' = TRUE
    /\ UNCHANGED <<targetVars, attempts, routerVars, hosted>>

\* Without a connector remote access is not enabled; with one it is, unless
\* the host is not online, for whatever reason HostController has.
RefreshTargets ==
    /\ ~refreshing
    /\ \/ /\ connector # None
          /\ refreshing' = TRUE
          /\ UNCHANGED target
       \/ /\ target' = [listed |-> FALSE, state |-> "none"]
          /\ UNCHANGED refreshing
    /\ UNCHANGED <<hostVars, connecting, peer, attempts, routerVars, hosted>>

\* The answer of listDevices(): a device that is not found stays while it has
\* a peer.
Listed(found) ==
    IF found
    THEN [listed |-> TRUE, state |-> IF target.state = "none" THEN "available"
                                     ELSE target.state]
    ELSE IF peer = None THEN [listed |-> FALSE, state |-> "none"]
    ELSE target

RefreshAnswers(found) ==
    /\ refreshing
    /\ refreshing' = FALSE
    /\ target' = Listed(found)
    /\ UNCHANGED <<connecting, peer, attempts>>
    /\ Publishes
    /\ UNCHANGED <<hostVars, hosted>>

RefreshFails ==
    /\ refreshing
    /\ refreshing' = FALSE
    /\ UNCHANGED <<hostVars, targetVars, attempts, routerVars, hosted>>

-----------------------------------------------------------------------------
(* connectTarget() up to the negotiation *)

Begins(a) == attempts' = [attempts EXCEPT ![a] = [@ EXCEPT
                             !.stage = "creating", !.via = connector]]

\* The next call; it lists the devices first if it does not know the target.
ConnectTarget(a) ==
    /\ attempts[a].stage = "none"
    /\ \A b \in Attempts : b < a => attempts[b].stage # "none"
    /\ connector # None
    /\ peer = None
    /\ \/ /\ ~target.listed
          /\ attempts' = [attempts EXCEPT ![a] = [@ EXCEPT !.stage = "listing"]]
          /\ UNCHANGED targetVars
       \/ /\ target.listed /\ connecting = None
          /\ Begins(a)
          /\ target' = [target EXCEPT !.state = "waiting_for_approval"]
          /\ connecting' = a
          /\ UNCHANGED peer
    /\ UNCHANGED <<hostVars, refreshing, routerVars, hosted>>

\* After the listing neither enabled() nor the peers are looked at again.  A
\* connection under way is joined; without a connector connect() throws, and
\* not inside the try block.
Relisted(a, found) ==
    /\ attempts[a].stage = "listing"
    /\ LET now == Listed(found)
           waiting == [now EXCEPT !.state = "waiting_for_approval"]
       IN  \/ /\ ~now.listed \/ connecting # None
              /\ target' = now
              /\ attempts' = [attempts EXCEPT ![a] = [@ EXCEPT
                    !.stage = IF now.listed THEN "joined" ELSE "failed"]]
              /\ UNCHANGED connecting
           \/ /\ now.listed /\ connecting = None /\ connector = None
              /\ target' = waiting
              /\ attempts' = [attempts EXCEPT ![a] = [@ EXCEPT
                    !.stage = "failed"]]
              /\ UNCHANGED connecting
           \/ /\ now.listed /\ connecting = None /\ connector # None
              /\ target' = waiting
              /\ Begins(a)
              /\ connecting' = a
    /\ UNCHANGED peer
    /\ IF Listed(found).state = "connected" /\ Listed(found).listed
          /\ peer # None
       THEN /\ subscribed' = subscribed \cup {peer}
            /\ ResumesFrom(proxies, requests, peer, Usable(peer), 1)
       ELSE UNCHANGED routerVars
    /\ UNCHANGED <<hostVars, refreshing, hosted>>

\* listDevices() rejects: so does the call, before its try block.
ListingFails(a) ==
    /\ attempts[a].stage = "listing"
    /\ attempts' = [attempts EXCEPT ![a] = [@ EXCEPT !.stage = "failed"]]
    /\ UNCHANGED <<hostVars, refreshing, targetVars, routerVars, hosted>>

\* The catch and finally blocks of connectTarget(): the state of the target is
\* the outcome of this attempt, and the entry of connecting goes, whosever
\* they are by now.
Rejected(a, record, state) ==
    /\ attempts' = [attempts EXCEPT ![a] = [record EXCEPT !.stage = "failed"]]
    /\ target' = [target EXCEPT !.state = state]
    /\ connecting' = None
    /\ UNCHANGED peer

\* createRemoteSession was answered: waitForApproval().
SessionCreated(a) ==
    /\ attempts[a].stage = "creating"
    /\ attempts' = [attempts EXCEPT ![a] = [@ EXCEPT !.stage = "approval"]]
    /\ target' = [target EXCEPT !.state = "waiting_for_approval"]
    /\ UNCHANGED <<hostVars, refreshing, connecting, peer, routerVars, hosted>>

\* The listener shows the session as approved and its signature is verified.
Approved(a) ==
    /\ attempts[a].stage = "approval"
    /\ connector # None
    /\ attempts' = [attempts EXCEPT ![a] = [@ EXCEPT !.stage = "preparing"]]
    /\ target' = [target EXCEPT !.state = "connecting"]
    /\ UNCHANGED <<hostVars, refreshing, connecting, peer, routerVars, hosted>>

\* A request fails, the session is rejected or fails, the wait times out.
AttemptFails(a) ==
    /\ attempts[a].stage \in {"creating", "approval", "preparing"}
    /\ \E state \in {"rejected", "error"} :
          /\ state = "rejected" => attempts[a].stage = "approval"
          /\ Rejected(a, attempts[a], state)
    /\ UNCHANGED <<hostVars, refreshing, routerVars, hosted>>

-----------------------------------------------------------------------------
(* The negotiation *)

\* A mutant: start() does not arm the deadline.
PreparedUnarmed(a) ==
    /\ attempts[a].stage = "preparing"
    /\ attempts' = [attempts EXCEPT ![a] = [@ EXCEPT
                      !.stage = "negotiating", !.session = "open"]]
    /\ UNCHANGED <<hostVars, refreshing, targetVars, routerVars, hosted>>

\* The ICE servers are here: PeerNegotiationSession.start().  Whether the
\* connector is still open is not looked at again.
Prepared(a) ==
    /\ attempts[a].stage = "preparing"
    /\ attempts' = [attempts EXCEPT ![a] = [@ EXCEPT
                      !.stage = "negotiating", !.session = "open",
                      !.deadline = TRUE]]
    /\ UNCHANGED <<hostVars, refreshing, targetVars, routerVars, hosted>>

\* The state "connected".  Nothing is signaled without a user.
RtcConnected(a) ==
    /\ attempts[a].stage = "negotiating" /\ attempts[a].session = "open"
    /\ ~attempts[a].rtc
    /\ connector # None
    /\ attempts' = [attempts EXCEPT ![a] = [@ EXCEPT
                      !.rtc = TRUE, !.deadline = FALSE]]
    /\ UNCHANGED <<hostVars, refreshing, targetVars, routerVars, hosted>>

\* Both channels are open: onChannels, and the client sends its hello.
ChannelsOpen(a) ==
    /\ attempts[a].stage = "negotiating" /\ attempts[a].session = "open"
    /\ attempts[a].rtc
    /\ attempts' = [attempts EXCEPT ![a] = [@ EXCEPT
                      !.stage = "handshake", !.channels = "open",
                      !.client = "open"]]
    /\ UNCHANGED <<hostVars, refreshing, targetVars, routerVars, hosted>>

\* PeerNegotiationSession.close(), which closes the two channels: they forget
\* their listeners, those of the client too.
SessionClosed(record) ==
    [record EXCEPT !.session = "closed", !.deadline = FALSE,
                   !.channels = IF @ = "open" THEN "closed" ELSE @]

\* fail() of a session that has no channels yet: a signal cannot be published
\* or verified, the RTC connection fails.
NegotiationFails(a) ==
    /\ attempts[a].stage = "negotiating" /\ attempts[a].session = "open"
    /\ Rejected(a, SessionClosed(attempts[a]), "error")
    /\ UNCHANGED <<hostVars, refreshing, routerVars, hosted>>

DeadlineFires(a) == attempts[a].deadline /\ NegotiationFails(a)

\* The acknowledgement does not come in time or is invalid: client.fail(),
\* and its start() rejects, which closes the session.
HandshakeFails(a) ==
    /\ attempts[a].stage = "handshake"
    /\ Rejected(a, [SessionClosed(attempts[a]) EXCEPT !.client = "failed"],
                "error")
    /\ UNCHANGED <<hostVars, refreshing, routerVars, hosted>>

\* hello_ack is verified: connectTarget() goes on and registers the peer.
HandshakeDone(a) ==
    /\ attempts[a].stage = "handshake"
    /\ attempts' = [attempts EXCEPT ![a] = [@ EXCEPT !.stage = "connected"]]
    /\ peer' = a
    /\ target' = [target EXCEPT !.state = "connected"]
    /\ connecting' = None
    /\ Publishes
    /\ UNCHANGED <<hostVars, refreshing, hosted>>

-----------------------------------------------------------------------------
(* The end of a connection *)

\* A channel reports that it is closed, or an error.  The session listens
\* first: it closes both channels; the client's listener is called all the
\* same, since the listeners are copied before they are called.
ChannelLost(a) ==
    /\ attempts[a].channels = "open"
    /\ LET gone == [SessionClosed(attempts[a]) EXCEPT !.client = "failed"] IN
          IF attempts[a].stage = "handshake"
          THEN Rejected(a, gone, "error") /\ UNCHANGED routerVars
          ELSE /\ attempts' = [attempts EXCEPT ![a] = gone]
               /\ PeerGone(a)
               /\ ClientsGone({a}, TRUE)
    /\ UNCHANGED <<hostVars, refreshing, hosted>>

\* The RTC connection reports first that it is failed, disconnected or closed,
\* or the subscription of signals ends with an error: fail() closes the
\* session, and the client is not told.
SessionLost(a) ==
    /\ attempts[a].session = "open"
    /\ \/ /\ attempts[a].stage = "handshake"
          /\ Rejected(a, SessionClosed(attempts[a]), "error")
       \/ /\ attempts[a].stage = "connected"
          /\ attempts' = [attempts EXCEPT ![a] = SessionClosed(@)]
          /\ UNCHANGED targetVars
    /\ UNCHANGED <<hostVars, refreshing, routerVars, hosted>>

\* The host closes the session (session.close), or a message is malformed:
\* client.fail().  The session is not told, since the channels it closes have
\* no listeners left.
ClientFails(a) ==
    /\ attempts[a].stage = "connected"
    /\ Usable(a)
    /\ attempts' = [attempts EXCEPT ![a] = [@ EXCEPT
                      !.client = "failed", !.channels = "closed"]]
    /\ PeerGone(a)
    /\ ClientsGone({a}, TRUE)
    /\ UNCHANGED <<hostVars, refreshing, hosted>>

\* stopHostResources(): disconnectAll(), then close() of the connector.  The
\* clients do not notify; a session that is closed while it negotiates rejects
\* nothing; a client in its handshake rejects, after the states were reset.
Deactivate ==
    /\ connector # None
    /\ LET mine == {a \in Attempts : /\ attempts[a].via = connector
                                     /\ attempts[a].session = "open"}
           clients == {a \in mine \cup ({peer} \ {None}) :
                         attempts[a].client = "open"}
           shaking == {a \in mine : attempts[a].stage = "handshake"}
           Closed(a) ==
             [(IF a \in mine THEN SessionClosed(attempts[a]) ELSE attempts[a])
                EXCEPT !.client = IF a \in clients THEN "closed" ELSE @,
                       !.channels = IF a \in clients THEN "closed" ELSE @,
                       !.stage = IF a \in shaking THEN "failed" ELSE @]
       IN  /\ attempts' = [a \in Attempts |-> Closed(a)]
           /\ target' = [target EXCEPT
                 !.state = IF shaking # {} THEN "error"
                           ELSE IF @ = "none" THEN "none" ELSE "available"]
           /\ ClientsGone(clients, FALSE)
    /\ connector' = None
    /\ connecting' = None
    /\ peer' = None
    /\ UNCHANGED <<activations, refreshing, hosted>>

\* The desktop of the host is restarted while nobody is connected to it.
HostRestarts ==
    /\ hosted # {}
    /\ \A a \in Attempts : attempts[a].channels # "open"
    /\ hosted' = {}
    /\ UNCHANGED <<hostVars, refreshing, targetVars, attempts, routerVars>>

-----------------------------------------------------------------------------
(* The terminals of the target *)

\* A mutant: the router does not subscribe to the peer it launches on.
LaunchUnsubscribed ==
    /\ peer # None
    /\ Usable(peer)
    /\ Len(proxies) + Cardinality({r \in requests : r.kind = "launch"})
          < MaxTerminals
    /\ requests' = requests \cup
          {[kind |-> "launch", terminal |-> None, via |-> peer]}
    /\ UNCHANGED <<hostVars, refreshing, targetVars, attempts, proxies,
                   subscribed, hosted>>

\* create() on the target; nothing is sent on a connection that is closed.
Launch ==
    /\ peer # None
    /\ Len(proxies) + Cardinality({r \in requests : r.kind = "launch"})
          < MaxTerminals
    /\ subscribed' = subscribed \cup {peer}
    /\ requests' = IF Usable(peer)
                   THEN requests \cup {[kind |-> "launch",
                                        terminal |-> None, via |-> peer]}
                   ELSE requests
    /\ UNCHANGED <<hostVars, refreshing, targetVars, attempts, proxies,
                   hosted>>

LaunchAnswered(r) ==
    /\ r.kind = "launch"
    /\ Usable(r.via)
    /\ proxies' = Append(proxies, [via |-> r.via, connected |-> TRUE,
                                   visible |-> TRUE, shown |-> "running"])
    /\ hosted' = hosted \cup {Len(proxies')}
    /\ requests' = requests \ {r}
    /\ UNCHANGED <<hostVars, refreshing, targetVars, attempts, subscribed>>

\* The host attached the terminal: it is shown as running, whatever became of
\* the session meanwhile, and the loop of resume() goes on.
AttachAnswered(r) ==
    /\ r.kind = "attach"
    /\ Usable(r.via)
    /\ r.terminal \in hosted
    /\ ResumesFrom([proxies EXCEPT ![r.terminal] = [@ EXCEPT
                      !.shown = "running"]],
                   requests \ {r}, r.via, TRUE, r.terminal + 1)
    /\ UNCHANGED <<hostVars, refreshing, targetVars, attempts, subscribed,
                   hosted>>

DetachAnswered(r) ==
    /\ r.kind = "detach"
    /\ Usable(r.via)
    /\ proxies' = [proxies EXCEPT ![r.terminal] = [@ EXCEPT
                      !.connected = FALSE, !.visible = FALSE,
                      !.shown = "exited"]]
    /\ requests' = requests \ {r}
    /\ UNCHANGED <<hostVars, refreshing, targetVars, attempts, subscribed,
                   hosted>>

\* An error is answered, or the timer of the request fires.  An attach that
\* fails ends the loop of resume(); a detach that fails leaves the tab.
RequestFails(r) ==
    /\ requests' = requests \ {r}
    /\ proxies' = IF r.kind = "attach" THEN Disconnected(proxies, {r.terminal})
                  ELSE proxies
    /\ UNCHANGED <<hostVars, refreshing, targetVars, attempts, subscribed,
                   hosted>>

\* close() of a tab.
CloseTab(t) ==
    /\ proxies[t].visible
    /\ \/ /\ proxies[t].connected
          /\ Usable(proxies[t].via)
          /\ \A r \in requests : r.kind = "detach" => r.terminal # t
          /\ requests' = requests \cup
                {[kind |-> "detach", terminal |-> t, via |-> proxies[t].via]}
          /\ UNCHANGED proxies
       \/ /\ ~proxies[t].connected
          /\ proxies' = [proxies EXCEPT ![t] = [@ EXCEPT
                           !.visible = FALSE, !.shown = "exited"]]
          /\ UNCHANGED requests
    /\ UNCHANGED <<hostVars, refreshing, targetVars, attempts, subscribed,
                   hosted>>

\* acceptFrame() gives up on a frame that does not follow.
GivesUp(t) ==
    /\ proxies[t].connected
    /\ Usable(proxies[t].via)
    /\ proxies' = Disconnected(proxies, {t})
    /\ UNCHANGED <<hostVars, refreshing, targetVars, attempts, requests,
                   subscribed, hosted>>

-----------------------------------------------------------------------------
Next ==
    \/ Activate
    \/ Deactivate
    \/ RefreshTargets
    \/ \E found \in BOOLEAN : RefreshAnswers(found)
    \/ RefreshFails
    \/ \E a \in Attempts :
          \/ ConnectTarget(a)
          \/ \E found \in BOOLEAN : Relisted(a, found)
          \/ ListingFails(a)
          \/ SessionCreated(a)
          \/ Approved(a)
          \/ AttemptFails(a)
          \/ Prepared(a)
          \/ RtcConnected(a)
          \/ ChannelsOpen(a)
          \/ NegotiationFails(a)
          \/ HandshakeDone(a)
          \/ HandshakeFails(a)
          \/ ChannelLost(a)
          \/ SessionLost(a)
          \/ ClientFails(a)
    \/ HostRestarts
    \/ Launch
    \/ \E r \in requests :
          \/ LaunchAnswered(r)
          \/ AttachAnswered(r)
          \/ DetachAnswered(r)
          \/ RequestFails(r)
    \/ \E t \in DOMAIN proxies : CloseTab(t) \/ GivesUp(t)

Spec == Init /\ [][Next]_vars

\* Calls of the backend are answered or time out, and timers fire.  Nothing
\* makes an RTC connection that is up open its channels, or fail.
Fairness ==
    /\ \A a \in Attempts :
          /\ WF_vars(\/ \E found \in BOOLEAN : Relisted(a, found)
                     \/ ListingFails(a) \/ SessionCreated(a)
                     \/ AttemptFails(a) \/ Prepared(a))
          /\ WF_vars(DeadlineFires(a))
          /\ WF_vars(HandshakeDone(a) \/ HandshakeFails(a))
    /\ WF_vars(RefreshFails \/ \E found \in BOOLEAN : RefreshAnswers(found))
    /\ \A r \in Requests :
          WF_vars(r \in requests /\ (\/ LaunchAnswered(r) \/ AttachAnswered(r)
                                     \/ DetachAnswered(r) \/ RequestFails(r)))

FairSpec == Spec /\ Fairness

\* The renderer lists the targets again and again, and finds this one.
RefreshedSpec ==
    FairSpec /\ WF_vars(RefreshTargets) /\ SF_vars(RefreshAnswers(TRUE))

-----------------------------------------------------------------------------
(* Properties *)

AttemptRecords ==
    [stage : {"none", "listing", "joined", "creating", "approval",
              "preparing", "negotiating", "handshake", "connected", "failed"},
     via : 0..MaxActivations, session : {"none", "open", "closed"},
     rtc : BOOLEAN, deadline : BOOLEAN,
     channels : {"none", "open", "closed"},
     client : {"none", "open", "failed", "closed"}]

\* The type of the variables: in particular no terminal is bound to a peer
\* that never was, and a deadline is armed only while a session negotiates.
TypeOK ==
    /\ connector \in {None, activations} /\ activations \in 0..MaxActivations
    /\ refreshing \in BOOLEAN
    /\ target \in [listed : BOOLEAN, state : TargetStates]
    /\ connecting \in Attempts \cup {None}
    /\ peer \in Attempts \cup {None}
    /\ attempts \in [Attempts -> AttemptRecords]
    /\ \A a \in Attempts :
          attempts[a].deadline => /\ attempts[a].stage = "negotiating"
                                  /\ attempts[a].session = "open"
    /\ Len(proxies) <= MaxTerminals
    /\ \A t \in DOMAIN proxies :
          proxies[t] \in [via : Attempts, connected : BOOLEAN,
                          visible : BOOLEAN, shown : {"running", "exited"}]
    /\ requests \subseteq Requests
    /\ subscribed \subseteq Attempts
    /\ hosted \subseteq DOMAIN proxies

\* A target that is shown as connected has a peer: what the renderer then asks
\* of it is sent (peerFor does not throw).
ConnectedIsUsable == target.state = "connected" => peer # None

\* When a channel client notices that its connection is lost, no terminal of
\* it is shown as connected any more, also those launched or resumed on it
\* while other peers came and went.
LossIsShown ==
    \A t \in DOMAIN proxies :
        proxies[t].connected => attempts[proxies[t].via].client # "failed"

\* An attempt that failed, at whatever stage and whoever ended it, has left no
\* session and no channel open ("a 20-second deadline, disconnect, or channel
\* failure closes peer resources").
FailedLeavesNothing ==
    \A a \in Attempts :
        attempts[a].stage = "failed" => /\ attempts[a].session # "open"
                                        /\ attempts[a].channels # "open"

\* A terminal is attached once at a time, to the peer its session names, even
\* if the session is given up while it is being attached and the targets are
\* published again.
AttachedOnce ==
    \A r, s \in requests :
        /\ r.kind = "attach" => proxies[r.terminal].via = r.via
        /\ r.kind = "attach" /\ s.kind = "attach" /\ r.terminal = s.terminal
             => r = s

\* Neither the targets nor the terminals are shown as connected on a peer that
\* is known to be gone (connectTarget, disconnectPeer).
ShownIsConnected == ConnectedIsUsable /\ LossIsShown

\* No attempt and no resume leaves a deadline, a session, a channel or a second
\* attachment behind, wherever it is overtaken (fail, close, resume).
NothingLingers == TypeOK /\ FailedLeavesNothing /\ AttachedOnce

Pending(a) == attempts[a].stage \in {"listing", "creating", "approval",
                                     "preparing", "negotiating", "handshake"}

\* The connector of the attempt has been closed.
Abandoned(a) == attempts[a].via \notin {None, connector}

\* The RTC connection is up, which cancelled the deadline, and its channels
\* are not open yet.
AwaitsChannels(a) == attempts[a].stage = "negotiating" /\ attempts[a].rtc

\* A call of connectTarget() is answered, unless the connector it uses is
\* closed meanwhile, or it waits for the channels: each other stage has a timer
\* or an answer of its own.
ConnectAnswers ==
    \A a \in Attempts :
        Pending(a) ~> (~Pending(a) \/ Abandoned(a) \/ AwaitsChannels(a))

\* Every request ends, with an answer, an error, a timeout or the connection;
\* also when the connection was lost without the client being told.
RequestsEnd == \A r \in Requests : r \in requests ~> r \notin requests

\* Nobody waits for ever on a backend, a host or a connection that is gone
\* (connectTarget, request).
CallsEnd == ConnectAnswers /\ RequestsEnd

-----------------------------------------------------------------------------
(* What does not hold *)

\* A terminal whose peer this desktop has closed is not shown as connected
\* ("disconnect marks proxy descriptors exited"): disconnectAll() closes its
\* peers without notifying the router.
CloseIsShown ==
    \A t \in DOMAIN proxies :
        proxies[t].connected => attempts[proxies[t].via].client # "closed"

\* A target is not shown as connected once its session is closed: the RTC
\* connection may end before its channels say so.
SessionLossIsShown ==
    target.state = "connected" /\ peer # None
        => attempts[peer].session = "open"

\* Every call of connectTarget() is answered, also if the connector is closed
\* while it negotiates, or the channels of a connection that is up do not open.
AlwaysAnswered == \A a \in Attempts : Pending(a) ~> ~Pending(a)

\* A target has one live connection at a time.
OneConnection ==
    \A a, b \in Attempts :
        attempts[a].channels = "open" /\ attempts[b].channels = "open"
            => a = b

\* A target that waits for its approval has a call of connectTarget() behind.
WaitingIsReal ==
    target.state = "waiting_for_approval"
        => \E a \in Attempts : Pending(a)

\* A terminal the host still knows is attached again when its target stays
\* connected, whatever becomes of the terminals before it in the map.
ResumeReaches ==
    \A t \in 1..MaxTerminals :
        LET waits == /\ t \in hosted /\ ~proxies[t].connected
                     /\ proxies[t].visible
                     /\ target.state = "connected"
                     /\ peer # None /\ Usable(peer)
        IN  waits ~> ~waits
=============================================================================
