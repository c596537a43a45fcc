------------------------ MODULE HostControllerProofs ------------------------
(***************************************************************************)
(* What a logout means, and that what is shown is held, for any number of  *)
(* logins, activations and sessions.                                       *)
(*                                                                         *)
(* LogoutStands is not inductive: that a login which was in progress, and  *)
(* a start that was pending, leave the account alone depends on the        *)
(* generation they compare and on stopRequested.  LogoutInv adds both.     *)
(*                                                                         *)
(* ShownIsHeld needs more.  AccountInv: of the logins that are not settled *)
(* only the one of the generation waits, and one at most has signed in.    *)
(* FieldsInv: the fields hold what the latest activation opened, even when *)
(* they overwrote what an earlier one left, and only an online host        *)
(* listens.  ServesInv: OnlineServes and StoppedIsClosed, and that no      *)
(* start is pending while the host is online.                              *)
(***************************************************************************)
EXTENDS HostController, TLAPS

Accounts == [status : {"signed_out", "signing_in", "signed_in", "error"},
             runtime : BOOLEAN, user : BOOLEAN]

Authentications ==
    [started : 0..MaxLogins, current : 0..MaxLogins, late : BOOLEAN]

Hosts == [status : HostStates, stopRequested : BOOLEAN,
          start : {"none", "registering", "heartbeat"},
          activation : 0..MaxActivations, runtime : BOOLEAN, user : BOOLEAN,
          connector : 0..MaxActivations, timer : 0..MaxActivations,
          listener : 0..MaxActivations]

\* The part of TypeOK that a logout is about.
Shape ==
    /\ account \in Accounts
    /\ login \in Authentications
    /\ host \in Hosts
    /\ history \in [loggedOut : BOOLEAN, wanted : BOOLEAN]

\* After a logout no login is the one of the generation, and a start that is
\* pending will find that it was stopped.
LogoutInv ==
    history.loggedOut =>
        /\ account.status = "signed_out"
        /\ account.runtime = FALSE
        /\ login.current = None
        /\ host.start # "none" => host.stopRequested = TRUE

IInv == Shape /\ LogoutInv

-----------------------------------------------------------------------------
LEMMA InitIInv == Init => IInv
  BY HostControllerAssumption
     DEF Init, IInv, Shape, LogoutInv, Accounts, Authentications, Hosts,
         HostStates, Logins, None, HostControllerAssumption

\* What stopHostResources leaves of the fields.
LEMMA ClearedShape ==
    ASSUME host \in Hosts, NEW h \in Hosts
    PROVE  /\ Cleared(h) \in Hosts
           /\ Cleared(h).stopRequested = h.stopRequested
           /\ Cleared(h).start = h.start
  <1>1. PICK user \in BOOLEAN :
           Cleared(h) = [h EXCEPT !.runtime = FALSE, !.user = user,
                                  !.connector = None, !.timer = None,
                                  !.listener = None]
    <2>1. CASE host.runtime
      BY <2>1 DEF Cleared
    <2>2. CASE ~host.runtime
      <3>1. h.user \in BOOLEAN
        BY DEF Hosts
      <3> QED BY <2>2, <3>1 DEF Cleared
    <2> QED BY <2>1, <2>2
  <1>2. None \in 0..MaxActivations
    BY HostControllerAssumption DEF None, HostControllerAssumption
  <1> QED BY <1>1, <1>2 DEF Hosts

\* A caller of stopHostResources keeps the shape of the controller.
LEMMA StopShape ==
    ASSUME host \in Hosts, NEW h \in Hosts, StopHostResources(h)
    PROVE  /\ host' \in Hosts
           /\ host'.stopRequested = h.stopRequested
           /\ host'.start = h.start
  BY ClearedShape DEF StopHostResources

-----------------------------------------------------------------------------
(* One step of the account *)

LEMMA LoginInv ==
    ASSUME HostControllerAssumption, IInv, Login
    PROVE  IInv'
  <1>1. login.started + 1 \in 1..MaxLogins
    <2>1. login.started \in 0..MaxLogins /\ login.started < MaxLogins
      BY DEF IInv, Shape, Authentications, Login
    <2> QED BY <2>1 DEF HostControllerAssumption
  <1>2. login' \in Authentications
    <2>1. 1..MaxLogins \subseteq 0..MaxLogins
      OBVIOUS
    <2> QED BY <1>1, <2>1 DEF IInv, Shape, Authentications, Login
  <1>3. account' \in Accounts
    BY DEF IInv, Shape, Accounts, Login
  <1>4. host' \in Hosts
    BY DEF IInv, Shape, Hosts, Login
  <1>5. /\ history' \in [loggedOut : BOOLEAN, wanted : BOOLEAN]
        /\ history'.loggedOut = FALSE
    BY DEF IInv, Shape, Login
  <1> QED BY <1>2, <1>3, <1>4, <1>5 DEF IInv, Shape, LogoutInv

\* A login that is not the one of the generation publishes nothing.
LEMMA LoginStepInv ==
    ASSUME HostControllerAssumption, IInv, NEW l \in Logins,
           SignsIn(l) \/ LoginFails(l) \/ LoginSucceeds(l) \/ LoginCancelled(l)
    PROVE  IInv'
  <1>1. UNCHANGED <<host, history>>
    BY DEF SignsIn, LoginFails, LoginSucceeds, LoginCancelled
  <1>2. l # None
    BY DEF Logins, None
  <1>3. login' \in Authentications /\ login'.current = login.current
    BY DEF IInv, Shape, Authentications, SignsIn, LoginFails, LoginSucceeds,
           LoginCancelled
  <1>4. account' \in Accounts
    BY DEF IInv, Shape, Accounts, SignsIn, LoginFails, LoginSucceeds,
           LoginCancelled
  <1>5. ASSUME login.current = None
        PROVE  /\ account'.status = account.status
               /\ account'.runtime = account.runtime
    BY <1>2, <1>5 DEF IInv, Shape, Accounts, SignsIn, LoginFails,
                      LoginSucceeds, LoginCancelled
  <1> QED BY <1>1, <1>3, <1>4, <1>5 DEF IInv, Shape, LogoutInv

LEMMA LateSignInInv ==
    ASSUME IInv, LateSignIn
    PROVE  IInv'
  <1>1. login' \in Authentications /\ login'.current = login.current
    BY DEF IInv, Shape, Authentications, LateSignIn
  <1>2. /\ account' \in Accounts
        /\ account'.status = account.status
        /\ account'.runtime = account.runtime
    BY DEF IInv, Shape, Accounts, LateSignIn
  <1> QED BY <1>1, <1>2 DEF IInv, Shape, LogoutInv, LateSignIn

LEMMA LogoutStepInv ==
    ASSUME HostControllerAssumption, IInv, Logout
    PROVE  IInv'
  <1> DEFINE h == [host EXCEPT !.stopRequested = TRUE, !.status = "idle"]
  <1>1. h \in Hosts /\ h.stopRequested = TRUE /\ h.start = host.start
    BY DEF IInv, Shape, Hosts, HostStates
  <1>2. host' \in Hosts /\ host'.stopRequested = TRUE
    BY <1>1, StopShape DEF IInv, Shape, Logout
  <1>3. /\ account' \in Accounts
        /\ account'.status = "signed_out"
        /\ account'.runtime = FALSE
    <2>1. account.user \in BOOLEAN
      BY DEF IInv, Shape, Accounts
    <2> QED BY <2>1 DEF Logout, Accounts
  <1>4. login' \in Authentications /\ login'.current = None
    <2>1. login.late \in BOOLEAN /\ None \in 0..MaxLogins
      BY DEF IInv, Shape, Authentications, None, HostControllerAssumption
    <2>2. PICK late \in BOOLEAN :
             login' = [login EXCEPT !.current = None, !.late = late]
      BY <2>1 DEF Logout
    <2> QED BY <2>1, <2>2 DEF IInv, Shape, Authentications
  <1>5. history' \in [loggedOut : BOOLEAN, wanted : BOOLEAN]
    BY DEF Logout
  <1> QED BY <1>2, <1>3, <1>4, <1>5 DEF IInv, Shape, LogoutInv

-----------------------------------------------------------------------------
(* One step of the host *)

LEMMA ActivateInv ==
    ASSUME HostControllerAssumption, IInv, Activate \/ ActivateJoins
    PROVE  IInv'
  <1>1. account.runtime /\ UNCHANGED <<account, login>>
    BY DEF Activate, ActivateJoins, SignedIn, accountVars
  <1>2. ~history.loggedOut
    BY <1>1 DEF IInv, LogoutInv
  <1>3. host' \in Hosts
    <2>1. CASE ActivateJoins
      BY <2>1 DEF IInv, Shape, ActivateJoins
    <2>2. CASE Activate
      <3>1. /\ host.activation \in 0..MaxActivations
            /\ host.activation < MaxActivations
        BY <2>2 DEF IInv, Shape, Hosts, Activate
      <3>2. host.activation + 1 \in 0..MaxActivations
        BY <3>1 DEF HostControllerAssumption
      <3> QED
        BY <2>2, <3>2 DEF IInv, Shape, Hosts, HostStates, Activate
    <2> QED BY <2>1, <2>2
  <1>4. /\ history' \in [loggedOut : BOOLEAN, wanted : BOOLEAN]
        /\ history'.loggedOut = history.loggedOut
    BY DEF IInv, Shape, Activate, ActivateJoins
  <1> QED BY <1>1, <1>2, <1>3, <1>4 DEF IInv, Shape, LogoutInv

\* A start that is registered assigns the runtime of the account: only when
\* nobody stopped it, which after a logout somebody did.
LEMMA RegisteredInv ==
    ASSUME HostControllerAssumption, IInv, Registered
    PROVE  IInv'
  <1>1. ~history.loggedOut
    BY DEF IInv, LogoutInv, Registered
  <1>2. host' \in Hosts
    BY DEF IInv, Shape, Hosts, Registered
  <1>3. account' \in Accounts
    BY DEF IInv, Shape, Accounts, Registered
  <1> QED BY <1>1, <1>2, <1>3 DEF IInv, Shape, LogoutInv, Registered

LEMMA StartEndsInv ==
    ASSUME HostControllerAssumption, IInv,
           RegisteredTooLate \/ Listens \/ StartFails
    PROVE  IInv'
  <1>1. UNCHANGED <<account, login, history>>
    BY DEF RegisteredTooLate, Listens, StartFails, accountVars
  <1>2. host' \in Hosts /\ host'.start = "none"
    <2>1. CASE RegisteredTooLate
      BY <2>1 DEF IInv, Shape, Hosts, HostStates, RegisteredTooLate
    <2>2. CASE Listens
      BY <2>2 DEF IInv, Shape, Hosts, HostStates, Listens
    <2>3. CASE StartFails
      <3> DEFINE h == [host EXCEPT !.start = "none", !.status = "error"]
      <3>1. h \in Hosts /\ h.start = "none"
        BY DEF IInv, Shape, Hosts, HostStates
      <3> QED BY <2>3, <3>1, StopShape DEF IInv, Shape, StartFails
    <2> QED BY <2>1, <2>2, <2>3
  <1> QED BY <1>1, <1>2 DEF IInv, Shape, LogoutInv

LEMMA DeactivateInv ==
    ASSUME HostControllerAssumption, IInv, Deactivate
    PROVE  IInv'
  <1> DEFINE h == [host EXCEPT !.stopRequested = TRUE, !.status = "idle"]
  <1>1. h \in Hosts /\ h.stopRequested = TRUE
    BY DEF IInv, Shape, Hosts, HostStates
  <1>2. host' \in Hosts /\ host'.stopRequested = TRUE
    BY <1>1, StopShape DEF IInv, Shape, Deactivate
  <1>3. /\ history' \in [loggedOut : BOOLEAN, wanted : BOOLEAN]
        /\ history'.loggedOut = history.loggedOut
        /\ UNCHANGED <<account, login>>
    BY DEF IInv, Shape, Deactivate, accountVars
  <1> QED BY <1>2, <1>3 DEF IInv, Shape, LogoutInv

LEMMA ListenerFailsInv ==
    ASSUME IInv, NEW n \in Activations, ListenerFails(n)
    PROVE  IInv'
  <1>1. /\ host' \in Hosts
        /\ host'.start = host.start
        /\ host'.stopRequested = host.stopRequested
    BY DEF IInv, Shape, Hosts, HostStates, ListenerFails
  <1> QED BY <1>1 DEF IInv, Shape, LogoutInv, ListenerFails, accountVars

-----------------------------------------------------------------------------
LEMMA NextIInv ==
    ASSUME HostControllerAssumption, IInv, [Next]_vars
    PROVE  IInv'
  <1> DEFINE Same == UNCHANGED <<account, login, host, history>>
  <1>0. Same => IInv'
    BY DEF IInv, Shape, LogoutInv
  <1>1. CASE Login
    BY <1>1, LoginInv
  <1>2. CASE \E l \in Logins : \/ SignsIn(l)
                               \/ LoginFails(l)
                               \/ LoginSucceeds(l)
                               \/ LoginCancelled(l)
    BY <1>2, LoginStepInv
  <1>3. CASE LateSignIn
    BY <1>3, LateSignInInv
  <1>4. CASE Logout
    BY <1>4, LogoutStepInv
  <1>5. CASE Activate \/ ActivateJoins
    BY <1>5, ActivateInv
  <1>6. CASE Registered
    BY <1>6, RegisteredInv
  <1>7. CASE RegisteredTooLate \/ Listens \/ StartFails
    BY <1>7, StartEndsInv
  <1>8. CASE Deactivate
    BY <1>8, DeactivateInv
  <1>9. CASE \E n \in Activations : ListenerFails(n)
    BY <1>9, ListenerFailsInv
  <1>10. CASE \E s \in Sessions : \/ Requested(s)
                                  \/ Expires(s)
                                  \/ Pending(s)
                                  \/ WindowShown(s)
                                  \/ WindowFails(s)
                                  \/ Approve(s)
                                  \/ Reject(s)
    BY <1>0, <1>10 DEF Requested, Expires, Pending, WindowShown, WindowFails,
                       Approve, Reject, Answer, accountVars
  <1>11. CASE \E call \in Calls : \/ Answered(call[1], call[2])
                                  \/ AnswerFails(call[1], call[2])
    BY <1>0, <1>11 DEF Answered, AnswerFails, accountVars
  <1>12. CASE \/ \E p \in peers.accepting : AcceptResumes(p) \/ AcceptFails(p)
              \/ \E p \in peers.serving : PeerEnds(p)
    BY <1>0, <1>12 DEF AcceptResumes, AcceptFails, PeerEnds, accountVars
  <1>13. CASE UNCHANGED vars
    BY <1>0, <1>13 DEF vars, accountVars
  <1> QED
    BY <1>1, <1>2, <1>3, <1>4, <1>5, <1>6, <1>7, <1>8, <1>9, <1>10, <1>11,
       <1>12, <1>13 DEF Next

\* From a logout to the next login the account is signed out and has no
\* runtime, whatever the logins and the starts that the logout overtook do
\* when their promises settle (logout, loginInternal and startInternal of
\* host-controller.ts).
THEOREM LogoutHolds == Spec => []LogoutStands
  <1>1. IInv => LogoutStands
    BY DEF IInv, LogoutInv, LogoutStands
  <1>2. Init => IInv
    BY InitIInv
  <1>3. IInv /\ [Next]_vars => IInv'
    BY NextIInv, HostControllerAssumption
  <1> QED BY <1>1, <1>2, <1>3, PTL DEF Spec

-----------------------------------------------------------------------------
(* What is shown is held.                                                  *)

\* The rest of TypeOK.
LiveShape ==
    /\ attempts \in [Logins -> {"new", "browser", "closing", "settled"}]
    /\ live \in [connectors : SUBSET Activations, timers : SUBSET Activations,
                 listeners : SUBSET Activations]
    /\ host.connector \in live.connectors \cup {None}
    /\ host.timer \in live.timers \cup {None}

ServedShape ==
    /\ approvals \in [entries : SUBSET Sessions, presenting : SUBSET Sessions,
                      calls : SUBSET Calls]
    /\ server \in [Sessions -> {"none", "requested", "expired", "approved",
                                "rejected"}]
    /\ peers \in [accepting : SUBSET (Sessions \X Activations),
                  serving : SUBSET (Sessions \X Activations)]

\* Only the login of the generation waits for its browser, one login at a time
\* has signed in and not settled, and none is left when the account is shown.
AccountInv ==
    /\ \A l \in Logins : attempts[l] = "browser" => l = login.current
    /\ \A k, l \in Logins :
          attempts[k] = "closing" /\ attempts[l] = "closing" => k = l
    /\ \A l \in Logins :
          attempts[l] = "closing" /\ l = login.current => account.user = TRUE
    /\ \A l \in Logins : attempts[l] # "new" => l =< login.started
    /\ account.status = "signed_in" =>
          /\ account.runtime = TRUE /\ account.user = TRUE
          /\ \A l \in Logins : attempts[l] \notin {"browser", "closing"}

\* The fields of the latest activation; earlier ones may have been overwritten.
FieldsInv ==
    /\ live.connectors \subseteq 1..host.activation
    /\ live.timers \subseteq 1..host.activation
    /\ host.activation \in live.connectors => host.connector = host.activation
    /\ host.activation \in live.timers => host.timer = host.activation
    /\ live.listeners # {} =>
          host.status = "online" /\ live.listeners = {host.listener}
    /\ host.start # "none" => host.activation # 0
    /\ host.start = "heartbeat" /\ host.user = TRUE =>
          /\ host.runtime = TRUE /\ host.stopRequested = FALSE
          /\ host.connector \in live.connectors /\ host.timer \in live.timers

ServesInv ==
    /\ host.status = "online" =>
          /\ host.start = "none" /\ host.runtime = TRUE /\ host.user = TRUE
          /\ host.connector \in live.connectors
          /\ host.timer \in live.timers
          /\ host.listener \in live.listeners
    /\ host.stopRequested = TRUE =>
          /\ host.activation \notin live.connectors \cup live.timers
          /\ live.listeners = {}
          /\ approvals.entries = {}

HeldInv ==
    /\ IInv /\ LiveShape /\ ServedShape
    /\ AccountInv /\ FieldsInv /\ ServesInv

LEMMA HeldIsShown == HeldInv => ShownIsHeld
  <1> SUFFICES ASSUME HeldInv
               PROVE  ShownIsHeld
    OBVIOUS
  <1>1. TypeOK
    BY DEF HeldInv, IInv, Shape, LiveShape, ServedShape, TypeOK, Accounts,
           Authentications, Hosts
  <1>2. SignedInHasUser
    BY DEF HeldInv, AccountInv, SignedInHasUser, SignedIn
  <1>3. OnlineServes
    BY DEF HeldInv, ServesInv, OnlineServes
  <1>4. StoppedIsClosed
    <2>1. host.stopRequested \in BOOLEAN
      BY DEF HeldInv, IInv, Shape, Hosts
    <2> QED BY <2>1 DEF HeldInv, ServesInv, StoppedIsClosed
  <1> QED BY <1>1, <1>2, <1>3, <1>4 DEF ShownIsHeld

LEMMA InitHeld == Init => HeldInv
  <1> SUFFICES ASSUME Init
               PROVE  HeldInv
    OBVIOUS
  <1>1. IInv
    BY InitIInv
  <1>2. LiveShape /\ ServedShape
    BY DEF Init, Nobody, None, LiveShape, ServedShape
  <1>3. AccountInv
    BY DEF Init, AccountInv
  <1>4. FieldsInv /\ ServesInv
    BY DEF Init, Nobody, FieldsInv, ServesInv
  <1> QED BY <1>1, <1>2, <1>3, <1>4 DEF HeldInv

-----------------------------------------------------------------------------
(* The account *)

LEMMA LoginHeld ==
    ASSUME HeldInv, Login
    PROVE  LiveShape' /\ ServedShape' /\ AccountInv' /\ FieldsInv' /\ ServesInv'
  <1> DEFINE l == login.started + 1
  <1>1. l \in Logins
    <2>1. login.started \in 0..MaxLogins /\ login.started < MaxLogins
      BY DEF HeldInv, IInv, Shape, Authentications, Login
    <2> QED BY <2>1, HostControllerAssumption
            DEF HostControllerAssumption, Logins
  <1>2. /\ attempts' = [attempts EXCEPT ![l] = "browser"]
        /\ login'.current = l /\ login'.started = l
        /\ account'.status = "signing_in"
    BY DEF Login, HeldInv, IInv, Shape, Accounts, Authentications
  <1>3. /\ host' = [host EXCEPT !.stopRequested = FALSE]
        /\ host \in Hosts /\ UNCHANGED <<live, approvals, server, peers>>
    BY DEF Login, HeldInv, IInv, Shape
  <1> HIDE DEF l
  <1>4. \A k \in Logins : attempts[k] # "browser"
    <2>1. \A k \in Logins : k # None
      BY DEF Logins, None
    <2> QED BY <2>1 DEF Login, InProgress, HeldInv, AccountInv
  <1>5. LiveShape' /\ ServedShape'
    BY <1>1, <1>2, <1>3 DEF HeldInv, LiveShape, ServedShape, Hosts
  <1>6. AccountInv'
    <2>1. /\ l \in Int /\ login.started \in Int /\ l = login.started + 1
          /\ \A k \in Logins : k \in Int
      BY DEF l, HeldInv, IInv, Shape, Authentications, Logins
    <2>2. \A k \in Logins : attempts[k] # "new" => k < l
      BY <2>1 DEF HeldInv, AccountInv
    <2>3. \A k \in Logins : attempts'[k] = IF k = l THEN "browser" ELSE attempts[k]
      BY <1>1, <1>2 DEF HeldInv, LiveShape
    <2> QED BY <1>1, <1>2, <1>4, <2>1, <2>2, <2>3 DEF HeldInv, AccountInv
  <1>7. FieldsInv' /\ ServesInv'
    BY <1>3 DEF HeldInv, FieldsInv, ServesInv, Hosts
  <1> QED BY <1>5, <1>6, <1>7

LEMMA LoginStepHeld ==
    ASSUME HeldInv, NEW l \in Logins,
           SignsIn(l) \/ LoginFails(l) \/ LoginSucceeds(l) \/ LoginCancelled(l)
    PROVE  LiveShape' /\ ServedShape' /\ AccountInv' /\ FieldsInv' /\ ServesInv'
  <1>1. UNCHANGED <<host, live, approvals, server, peers>>
    BY DEF SignsIn, LoginFails, LoginSucceeds, LoginCancelled
  <1>2. LiveShape' /\ ServedShape'
    BY <1>1 DEF HeldInv, LiveShape, ServedShape, SignsIn, LoginFails,
                LoginSucceeds, LoginCancelled
  <1>3. login'.current = login.current /\ login'.started = login.started
    BY DEF HeldInv, IInv, Shape, Authentications, SignsIn, LoginFails,
           LoginSucceeds, LoginCancelled
  <1>4. AccountInv'
    <2>1. CASE SignsIn(l)
      BY <1>3, <2>1 DEF SignsIn, HeldInv, IInv, Shape, Accounts, LiveShape, AccountInv
    <2>2. CASE LoginFails(l)
      BY <1>3, <2>2 DEF LoginFails, HeldInv, IInv, Shape, Accounts, LiveShape, AccountInv
    <2>3. CASE LoginSucceeds(l)
      <3>1. account.user = TRUE
        BY <2>3 DEF LoginSucceeds, HeldInv, AccountInv
      <3> QED
        BY <1>3, <2>3, <3>1
           DEF LoginSucceeds, HeldInv, IInv, Shape, Accounts, LiveShape, AccountInv
    <2>4. CASE LoginCancelled(l)
      BY <1>3, <2>4
         DEF LoginCancelled, HeldInv, IInv, Shape, Accounts, LiveShape, AccountInv
    <2> QED BY <2>1, <2>2, <2>3, <2>4
  <1>5. FieldsInv' /\ ServesInv'
    BY <1>1 DEF HeldInv, FieldsInv, ServesInv
  <1> QED BY <1>2, <1>4, <1>5

\* What stopHostResources leaves, whatever status and promise its caller writes.
LEMMA StopHeld ==
    ASSUME HeldInv, NEW h \in Hosts, StopHostResources(h),
           h.activation = host.activation, h.connector = host.connector,
           h.timer = host.timer, h.listener = host.listener,
           h.user = host.user, h.status # "online",
           h.start \in {host.start, "none"},
           h.stopRequested = TRUE \/ h.stopRequested = host.stopRequested
    PROVE  /\ live' \in [connectors : SUBSET Activations,
                         timers : SUBSET Activations,
                         listeners : SUBSET Activations]
           /\ host'.connector \in live'.connectors \cup {None}
           /\ host'.timer \in live'.timers \cup {None}
           /\ UNCHANGED server => ServedShape'
           /\ FieldsInv' /\ ServesInv'
  <1> DEFINE g == Cleared(h)
  <1>1. /\ host \in Hosts /\ host' = g
        /\ live \in [connectors : SUBSET Activations, timers : SUBSET Activations,
                     listeners : SUBSET Activations]
        /\ \A n \in Activations : n # None
    BY DEF HeldInv, IInv, Shape, LiveShape, StopHostResources, Activations, None
  <1>2. /\ g.connector = None /\ g.timer = None /\ g.listener = None
        /\ g.runtime = FALSE /\ g.activation = host.activation
        /\ g.status = h.status /\ g.start = h.start
        /\ g.stopRequested = h.stopRequested
        /\ g.user = IF host.runtime THEN FALSE ELSE host.user
    BY DEF Cleared, Hosts
  <1>3. /\ live'.connectors = live.connectors \ {host.connector}
        /\ live'.timers = live.timers \ {host.timer}
        /\ live'.listeners = live.listeners \ {host.listener}
        /\ live' \in [connectors : SUBSET Activations, timers : SUBSET Activations,
                      listeners : SUBSET Activations]
    BY <1>1 DEF StopHostResources
  <1> HIDE DEF g
  <1>4. UNCHANGED server => ServedShape'
    <2>1. /\ approvals' = [approvals EXCEPT !.entries = {}]
          /\ peers' = [peers EXCEPT !.serving = {p \in @ : p[2] # host.connector}]
      BY DEF StopHostResources
    <2>2. approvals' \in [entries : SUBSET Sessions, presenting : SUBSET Sessions,
                          calls : SUBSET Calls]
      BY <2>1 DEF HeldInv, ServedShape
    <2>3. peers' \in [accepting : SUBSET (Sessions \X Activations),
                      serving : SUBSET (Sessions \X Activations)]
      <3>1. {p \in peers.serving : p[2] # host.connector} \subseteq peers.serving
        OBVIOUS
      <3> QED BY <2>1, <3>1 DEF HeldInv, ServedShape
    <2> QED BY <2>2, <2>3 DEF HeldInv, ServedShape
  <1>5. /\ live'.listeners = {}
        /\ host.activation \notin live'.connectors \cup live'.timers
    BY <1>3 DEF HeldInv, FieldsInv
  <1>6. host.start = "heartbeat" => g.user = FALSE
    <2>1. host.user \in BOOLEAN /\ host.runtime \in BOOLEAN
      BY <1>1 DEF Hosts
    <2> QED BY <1>2, <2>1 DEF HeldInv, FieldsInv
  <1>7. FieldsInv'
    BY <1>1, <1>2, <1>3, <1>5, <1>6 DEF HeldInv, FieldsInv
  <1>8. approvals'.entries = {}
    BY DEF HeldInv, ServedShape, StopHostResources
  <1>9. ServesInv'
    BY <1>1, <1>2, <1>5, <1>8 DEF ServesInv
  <1> QED BY <1>1, <1>2, <1>3, <1>4, <1>7, <1>9

LEMMA DeactivateHeld ==
    ASSUME HeldInv, Deactivate
    PROVE  LiveShape' /\ ServedShape' /\ AccountInv' /\ FieldsInv' /\ ServesInv'
  <1> DEFINE h == [host EXCEPT !.stopRequested = TRUE, !.status = "idle"]
  <1>1. /\ h \in Hosts /\ h.activation = host.activation
        /\ h.connector = host.connector /\ h.timer = host.timer
        /\ h.listener = host.listener /\ h.user = host.user
        /\ h.status = "idle" /\ h.start = host.start /\ h.stopRequested = TRUE
    BY DEF HeldInv, IInv, Shape, Hosts, HostStates
  <1>2. StopHostResources(h) /\ UNCHANGED <<account, login, attempts, server>>
    BY DEF Deactivate, accountVars
  <1> HIDE DEF h
  <1>3. AccountInv'
    BY <1>2 DEF HeldInv, AccountInv
  <1> QED BY <1>1, <1>2, <1>3, StopHeld DEF HeldInv, LiveShape

LEMMA LogoutHeld ==
    ASSUME HeldInv, Logout
    PROVE  LiveShape' /\ ServedShape' /\ AccountInv' /\ FieldsInv' /\ ServesInv'
  <1> DEFINE h == [host EXCEPT !.stopRequested = TRUE, !.status = "idle"]
  <1>1. /\ h \in Hosts /\ h.activation = host.activation
        /\ h.connector = host.connector /\ h.timer = host.timer
        /\ h.listener = host.listener /\ h.user = host.user
        /\ h.status = "idle" /\ h.start = host.start /\ h.stopRequested = TRUE
    BY DEF HeldInv, IInv, Shape, Hosts, HostStates
  <1>2. StopHostResources(h) /\ UNCHANGED server
    BY DEF Logout
  <1> HIDE DEF h
  <1>3. attempts' = [l \in Logins |->
           IF attempts[l] = "browser" THEN "settled" ELSE attempts[l]]
    BY DEF Logout
  <1>4. attempts' \in [Logins -> {"new", "browser", "closing", "settled"}]
    BY <1>3 DEF HeldInv, LiveShape
  <1>5. /\ login'.current = None /\ login'.started = login.started
        /\ account'.status = "signed_out"
    BY DEF Logout, HeldInv, IInv, Shape, Authentications
  <1>6. \A l \in Logins : l # None
    BY DEF Logins, None
  <1>7. AccountInv'
    BY <1>3, <1>5, <1>6 DEF HeldInv, AccountInv, LiveShape
  <1> QED BY <1>1, <1>2, <1>4, <1>7, StopHeld DEF LiveShape

-----------------------------------------------------------------------------
(* The host *)

LEMMA ActivateHeld ==
    ASSUME HeldInv, Activate \/ ActivateJoins
    PROVE  LiveShape' /\ ServedShape' /\ AccountInv' /\ FieldsInv' /\ ServesInv'
  <1>1. UNCHANGED <<account, login, attempts, live, approvals, server, peers>>
    BY DEF Activate, ActivateJoins, accountVars
  <1>2. AccountInv' /\ ServedShape'
    BY <1>1 DEF HeldInv, AccountInv, ServedShape
  <1>3. CASE ActivateJoins
    BY <1>1, <1>2, <1>3
       DEF ActivateJoins, HeldInv, LiveShape, FieldsInv, ServesInv
  <1>4. CASE Activate
    <2> DEFINE n == host.activation + 1
    <2>1. host \in Hosts /\ host.activation \in Nat
      BY HostControllerAssumption
         DEF HeldInv, IInv, Shape, Hosts, HostControllerAssumption
    <2>2. /\ 1..host.activation \subseteq 1..n /\ n \notin 1..host.activation
          /\ n # 0
      BY <2>1
    <2>3. /\ host' = [host EXCEPT !.stopRequested = FALSE, !.status = "activating",
                                  !.start = "registering", !.activation = n]
          /\ host.status # "online"
      BY <1>4 DEF Activate
    <2> HIDE DEF n
    <2>4. /\ host'.activation = n /\ host'.connector = host.connector
          /\ host'.timer = host.timer /\ host'.status = "activating"
          /\ host'.start = "registering" /\ host'.stopRequested = FALSE
      BY <2>1, <2>3 DEF Hosts
    <2>5. live.listeners = {}
      BY <2>3 DEF HeldInv, FieldsInv
    <2>6. LiveShape'
      BY <1>1, <2>4 DEF HeldInv, LiveShape
    <2>7. FieldsInv'
      BY <1>1, <2>2, <2>4, <2>5 DEF HeldInv, FieldsInv
    <2>8. ServesInv'
      BY <2>4 DEF ServesInv
    <2> QED BY <1>2, <2>6, <2>7, <2>8
  <1> QED BY <1>3, <1>4

LEMMA RegisteredHeld ==
    ASSUME HeldInv, Registered
    PROVE  LiveShape' /\ ServedShape' /\ AccountInv' /\ FieldsInv' /\ ServesInv'
  <1> DEFINE n == host.activation
  <1>1. /\ host \in Hosts /\ n \in Activations /\ n # None /\ n \in 1..n
        /\ live \in [connectors : SUBSET Activations, timers : SUBSET Activations,
                     listeners : SUBSET Activations]
    <2>1. host \in Hosts /\ n \in 0..MaxActivations /\ n # 0
      BY DEF HeldInv, IInv, Shape, Hosts, FieldsInv, Registered
    <2> QED BY <2>1, HostControllerAssumption
            DEF HeldInv, LiveShape, Activations, None, HostControllerAssumption
  <1>2. /\ host.start = "registering" /\ host.stopRequested = FALSE
        /\ host.status # "online" /\ live.listeners = {}
    BY <1>1 DEF Registered, HeldInv, FieldsInv, ServesInv, Hosts
  <1>3. /\ host'.start = "heartbeat" /\ host'.runtime = TRUE /\ host'.user = TRUE
        /\ host'.connector = n /\ host'.timer = n /\ host'.activation = n
        /\ host'.stopRequested = FALSE /\ host'.status = host.status
    BY <1>1, <1>2 DEF Registered, Hosts
  <1>4. /\ live'.connectors = live.connectors \cup {n}
        /\ live'.timers = live.timers \cup {n} /\ live'.listeners = {}
        /\ live' \in [connectors : SUBSET Activations, timers : SUBSET Activations,
                      listeners : SUBSET Activations]
    BY <1>1, <1>2 DEF Registered
  <1>5. /\ account'.status = account.status /\ account'.user = account.user
        /\ account'.runtime = TRUE
        /\ UNCHANGED <<login, attempts, approvals, server, peers>>
    BY DEF Registered, HeldInv, IInv, Shape, Accounts
  <1> HIDE DEF n
  <1>6. LiveShape' /\ ServedShape'
    BY <1>1, <1>3, <1>4, <1>5 DEF HeldInv, LiveShape, ServedShape
  <1>7. AccountInv'
    BY <1>5 DEF HeldInv, AccountInv
  <1>8. FieldsInv'
    BY <1>1, <1>3, <1>4 DEF HeldInv, FieldsInv, n, None
  <1>9. ServesInv'
    BY <1>2, <1>3 DEF ServesInv
  <1> QED BY <1>6, <1>7, <1>8, <1>9

LEMMA ListensHeld ==
    ASSUME HeldInv, RegisteredTooLate \/ Listens
    PROVE  LiveShape' /\ ServedShape' /\ AccountInv' /\ FieldsInv' /\ ServesInv'
  <1>1. /\ host \in Hosts
        /\ live \in [connectors : SUBSET Activations, timers : SUBSET Activations,
                     listeners : SUBSET Activations]
    BY DEF HeldInv, IInv, Shape, LiveShape
  <1>2. UNCHANGED <<account, login, attempts, approvals, server, peers>>
    BY DEF RegisteredTooLate, Listens, accountVars
  <1>3. AccountInv' /\ ServedShape'
    BY <1>2 DEF HeldInv, AccountInv, ServedShape
  <1>4. host.status # "online" /\ live.listeners = {}
    BY DEF RegisteredTooLate, Listens, HeldInv, FieldsInv, ServesInv
  <1>5. CASE RegisteredTooLate
    <2>1. /\ host'.start = "none" /\ host'.status = host.status
          /\ host'.connector = host.connector /\ host'.timer = host.timer
          /\ host'.activation = host.activation
          /\ host'.stopRequested = host.stopRequested /\ UNCHANGED live
      BY <1>1, <1>5 DEF RegisteredTooLate, Hosts
    <2>2. LiveShape' /\ FieldsInv' /\ ServesInv'
      BY <1>2, <1>4, <2>1 DEF HeldInv, LiveShape, FieldsInv, ServesInv
    <2> QED BY <1>3, <2>2
  <1>6. CASE Listens
    <2> DEFINE n == host.activation
    <2>1. /\ host'.start = "none" /\ host'.status = "online" /\ host'.listener = n
          /\ host'.connector = host.connector /\ host'.timer = host.timer
          /\ host'.activation = n /\ host'.stopRequested = host.stopRequested
          /\ host'.runtime = host.runtime /\ host'.user = host.user
      BY <1>1, <1>6 DEF Listens, Hosts
    <2>2. n \in Activations
      BY <1>1, <1>6, HostControllerAssumption
         DEF Listens, Hosts, HeldInv, FieldsInv, Activations, HostControllerAssumption
    <2>3. /\ live'.connectors = live.connectors /\ live'.timers = live.timers
          /\ live'.listeners = {n}
          /\ live' \in [connectors : SUBSET Activations, timers : SUBSET Activations,
                        listeners : SUBSET Activations]
      BY <1>1, <1>4, <1>6, <2>2 DEF Listens
    <2>4. /\ host.user = TRUE /\ host.runtime = TRUE /\ host.stopRequested = FALSE
          /\ host.connector \in live.connectors /\ host.timer \in live.timers
      <3>1. host.user = TRUE
        BY <1>1, <1>6 DEF Listens, Hosts
      <3> QED BY <1>6, <3>1 DEF Listens, HeldInv, FieldsInv
    <2> HIDE DEF n
    <2>5. LiveShape'
      BY <1>2, <2>1, <2>3 DEF HeldInv, LiveShape
    <2>6. FieldsInv'
      BY <2>1, <2>3 DEF HeldInv, FieldsInv, n
    <2>7. ServesInv'
      BY <2>1, <2>3, <2>4 DEF ServesInv
    <2> QED BY <1>3, <2>5, <2>6, <2>7
  <1> QED BY <1>5, <1>6

LEMMA LateSignInHeld ==
    ASSUME HeldInv, LateSignIn
    PROVE  LiveShape' /\ ServedShape' /\ AccountInv' /\ FieldsInv' /\ ServesInv'
  <1>1. UNCHANGED <<attempts, host, live, approvals, server, peers>>
    BY DEF LateSignIn
  <1>2. /\ login'.current = login.current /\ login'.started = login.started
        /\ account'.status = account.status
        /\ account'.runtime = account.runtime /\ account'.user = TRUE
    BY DEF LateSignIn, HeldInv, IInv, Shape, Authentications, Accounts
  <1>3. AccountInv'
    BY <1>1, <1>2 DEF HeldInv, AccountInv
  <1> QED
    BY <1>1, <1>3 DEF HeldInv, LiveShape, ServedShape, FieldsInv, ServesInv

LEMMA StartFailsHeld ==
    ASSUME HeldInv, StartFails
    PROVE  LiveShape' /\ ServedShape' /\ AccountInv' /\ FieldsInv' /\ ServesInv'
  <1> DEFINE h == [host EXCEPT !.start = "none", !.status = "error"]
  <1>1. /\ h \in Hosts /\ h.activation = host.activation
        /\ h.connector = host.connector /\ h.timer = host.timer
        /\ h.listener = host.listener /\ h.user = host.user
        /\ h.status = "error" /\ h.start = "none"
        /\ h.stopRequested = host.stopRequested
    BY DEF HeldInv, IInv, Shape, Hosts, HostStates
  <1>2. StopHostResources(h) /\ UNCHANGED <<account, login, attempts, server>>
    BY DEF StartFails, accountVars
  <1> HIDE DEF h
  <1>3. AccountInv'
    BY <1>2 DEF HeldInv, AccountInv
  <1> QED BY <1>1, <1>2, <1>3, StopHeld DEF HeldInv, LiveShape

\* The listener that fails is the one of the online host.
LEMMA ListenerFailsHeld ==
    ASSUME HeldInv, NEW n \in Activations, ListenerFails(n)
    PROVE  LiveShape' /\ ServedShape' /\ AccountInv' /\ FieldsInv' /\ ServesInv'
  <1>1. /\ host \in Hosts
        /\ live \in [connectors : SUBSET Activations, timers : SUBSET Activations,
                     listeners : SUBSET Activations]
    BY DEF HeldInv, IInv, Shape, LiveShape
  <1>2. UNCHANGED <<account, login, attempts, approvals, server, peers>>
    BY DEF ListenerFails, accountVars
  <1>3. AccountInv' /\ ServedShape'
    BY <1>2 DEF HeldInv, AccountInv, ServedShape
  <1>4. live.listeners = {n}
    BY DEF ListenerFails, HeldInv, FieldsInv
  <1>5. /\ live'.connectors = live.connectors /\ live'.timers = live.timers
        /\ live'.listeners = {}
        /\ live' \in [connectors : SUBSET Activations, timers : SUBSET Activations,
                      listeners : SUBSET Activations]
    BY <1>1, <1>4 DEF ListenerFails
  <1>6. /\ host'.status = "error" /\ host'.start = host.start
        /\ host'.connector = host.connector /\ host'.timer = host.timer
        /\ host'.activation = host.activation /\ host'.user = host.user
        /\ host'.runtime = host.runtime
        /\ host'.stopRequested = host.stopRequested
    BY <1>1 DEF ListenerFails, Hosts
  <1>7. LiveShape'
    BY <1>2, <1>5, <1>6 DEF HeldInv, LiveShape
  <1>8. FieldsInv'
    BY <1>5, <1>6 DEF HeldInv, FieldsInv
  <1>9. ServesInv'
    BY <1>2, <1>5, <1>6 DEF HeldInv, ServesInv
  <1> QED BY <1>3, <1>7, <1>8, <1>9

-----------------------------------------------------------------------------
(* The requests of clients and the peers *)

\* A step that leaves the account and the fields alone, and shows nothing while
\* the host is stopped.
LEMMA ServedHeld ==
    ASSUME HeldInv, UNCHANGED <<account, login, attempts, host, live>>,
           ServedShape', host.stopRequested = TRUE => approvals'.entries = {}
    PROVE  LiveShape' /\ ServedShape' /\ AccountInv' /\ FieldsInv' /\ ServesInv'
  BY DEF HeldInv, LiveShape, AccountInv, FieldsInv, ServesInv

LEMMA RequestHeld ==
    ASSUME HeldInv, NEW s \in Sessions,
           \/ Requested(s) \/ Expires(s) \/ Pending(s) \/ WindowShown(s)
           \/ WindowFails(s) \/ Approve(s) \/ Reject(s)
    PROVE  LiveShape' /\ ServedShape' /\ AccountInv' /\ FieldsInv' /\ ServesInv'
  <1>1. UNCHANGED <<account, login, attempts, host, live, peers>>
    BY DEF Requested, Expires, Pending, WindowShown, WindowFails, Approve,
           Reject, Answer, accountVars
  <1>2. /\ approvals \in [entries : SUBSET Sessions,
                          presenting : SUBSET Sessions, calls : SUBSET Calls]
        /\ server \in [Sessions -> {"none", "requested", "expired", "approved",
                                    "rejected"}]
        /\ peers \in [accepting : SUBSET (Sessions \X Activations),
                      serving : SUBSET (Sessions \X Activations)]
    BY DEF HeldInv, ServedShape
  <1>3. \A kind \in {"approve", "reject"} : <<kind, s>> \in Calls
    BY DEF Calls
  <1>4. host.stopRequested = TRUE =>
           live.listeners = {} /\ approvals.entries = {}
    BY DEF HeldInv, ServesInv
  <1>5. /\ ServedShape'
        /\ host.stopRequested = TRUE => approvals'.entries = {}
    <2>1. CASE Requested(s)
      BY <1>1, <1>2, <1>4, <2>1 DEF Requested, ServedShape
    <2>2. CASE Expires(s)
      BY <1>1, <1>2, <1>4, <2>2 DEF Expires, ServedShape
    <2>3. CASE Pending(s)
      BY <1>1, <1>2, <1>4, <2>3 DEF Pending, ServedShape
    <2>4. CASE WindowShown(s)
      BY <1>1, <1>2, <1>4, <2>4 DEF WindowShown, ServedShape
    <2>5. CASE WindowFails(s)
      BY <1>1, <1>2, <1>3, <1>4, <2>5 DEF WindowFails, ServedShape
    <2>6. CASE Approve(s) \/ Reject(s)
      <3>1. PICK kind \in {"approve", "reject"} : Answer(kind, s)
        BY <2>6 DEF Approve, Reject
      <3>2. PICK calls \in {approvals.calls, approvals.calls \cup {<<kind, s>>}} :
               approvals' = [approvals EXCEPT !.entries = @ \ {s}, !.calls = calls]
        BY <3>1 DEF Answer
      <3>3. calls \subseteq Calls
        BY <1>2, <1>3, <3>2
      <3>4. /\ approvals'.entries \subseteq approvals.entries
            /\ approvals' \in [entries : SUBSET Sessions,
                               presenting : SUBSET Sessions, calls : SUBSET Calls]
        BY <1>2, <3>2, <3>3
      <3> QED BY <1>1, <1>2, <1>4, <3>1, <3>4 DEF Answer, ServedShape
    <2> QED BY <2>1, <2>2, <2>3, <2>4, <2>5, <2>6
  <1> QED BY <1>1, <1>5, ServedHeld

LEMMA AnswerHeld ==
    ASSUME HeldInv, NEW kind \in {"approve", "reject"}, NEW s \in Sessions,
           Answered(kind, s) \/ AnswerFails(kind, s)
    PROVE  LiveShape' /\ ServedShape' /\ AccountInv' /\ FieldsInv' /\ ServesInv'
  <1>1. UNCHANGED <<account, login, attempts, host, live>>
    BY DEF Answered, AnswerFails, accountVars
  <1>2. approvals' = [approvals EXCEPT !.calls = @ \ {<<kind, s>>}]
    BY DEF Answered, AnswerFails
  <1>3. /\ approvals' \in [entries : SUBSET Sessions,
                           presenting : SUBSET Sessions, calls : SUBSET Calls]
        /\ approvals'.entries = approvals.entries
    BY <1>2 DEF HeldInv, ServedShape
  <1>4. server' \in [Sessions -> {"none", "requested", "expired", "approved",
                                  "rejected"}]
    BY DEF Answered, AnswerFails, HeldInv, ServedShape
  <1>5. peers' \in [accepting : SUBSET (Sessions \X Activations),
                    serving : SUBSET (Sessions \X Activations)]
    <2>1. host.connector # None => host.connector \in Activations
      BY DEF HeldInv, LiveShape
    <2>2. CASE kind = "approve" /\ host.connector # None /\ Answered(kind, s)
      <3>1. peers' = [peers EXCEPT !.accepting = @ \cup {<<s, host.connector>>}]
        BY <2>2 DEF Answered
      <3>2. <<s, host.connector>> \in Sessions \X Activations
        BY <2>1, <2>2
      <3> QED BY <3>1, <3>2 DEF HeldInv, ServedShape
    <2>3. CASE ~(kind = "approve" /\ host.connector # None /\ Answered(kind, s))
      <3>1. peers' = peers \/ peers' = [peers EXCEPT !.accepting = @]
        BY <2>3 DEF Answered, AnswerFails
      <3> QED BY <3>1 DEF HeldInv, ServedShape
    <2> QED BY <2>2, <2>3
  <1>6. host.stopRequested = TRUE => approvals'.entries = {}
    BY <1>3 DEF HeldInv, ServesInv
  <1> QED BY <1>1, <1>3, <1>4, <1>5, <1>6, ServedHeld DEF ServedShape

LEMMA PeersHeld ==
    ASSUME HeldInv,
           \/ \E p \in peers.accepting : AcceptResumes(p) \/ AcceptFails(p)
           \/ \E p \in peers.serving : PeerEnds(p)
    PROVE  LiveShape' /\ ServedShape' /\ AccountInv' /\ FieldsInv' /\ ServesInv'
  <1>1. UNCHANGED <<account, login, attempts, host, live, approvals, server>>
    BY DEF AcceptResumes, AcceptFails, PeerEnds, accountVars
  <1>2. peers' \in [accepting : SUBSET (Sessions \X Activations),
                    serving : SUBSET (Sessions \X Activations)]
    <2>1. /\ peers \in [accepting : SUBSET (Sessions \X Activations),
                        serving : SUBSET (Sessions \X Activations)]
      BY DEF HeldInv, ServedShape
    <2>2. CASE \E p \in peers.accepting : AcceptResumes(p)
      <3>1. PICK p \in peers.accepting : AcceptResumes(p)
        BY <2>2
      <3>2. p \in Sessions \X Activations
        BY <2>1
      <3>3. /\ peers.serving \cup {p} \subseteq Sessions \X Activations
            /\ peers.accepting \ {p} \subseteq Sessions \X Activations
        BY <2>1, <3>2
      <3>4. peers' = [peers EXCEPT !.accepting = peers.accepting \ {p},
                                  !.serving = peers.serving \cup {p}]
        BY <3>1 DEF AcceptResumes
      <3> QED BY <2>1, <3>3, <3>4
    <2>3. CASE \E p \in peers.accepting : AcceptFails(p)
      BY <2>1, <2>3 DEF AcceptFails
    <2>4. CASE \E p \in peers.serving : PeerEnds(p)
      BY <2>1, <2>4 DEF PeerEnds
    <2> QED BY <2>2, <2>3, <2>4
  <1>3. ServedShape' /\ (host.stopRequested = TRUE => approvals'.entries = {})
    BY <1>1, <1>2 DEF HeldInv, ServedShape, ServesInv
  <1> QED BY <1>1, <1>3, ServedHeld

-----------------------------------------------------------------------------
LEMMA NextHeld ==
    ASSUME HeldInv, [Next]_vars
    PROVE  HeldInv'
  <1>1. IInv'
    BY NextIInv, HostControllerAssumption DEF HeldInv
  <1> SUFFICES LiveShape' /\ ServedShape' /\ AccountInv' /\ FieldsInv' /\ ServesInv'
    BY <1>1 DEF HeldInv
  <1>2. CASE Login
    BY <1>2, LoginHeld
  <1>3. CASE \E l \in Logins : \/ SignsIn(l)
                               \/ LoginFails(l)
                               \/ LoginSucceeds(l)
                               \/ LoginCancelled(l)
    BY <1>3, LoginStepHeld
  <1>4. CASE LateSignIn
    BY <1>4, LateSignInHeld
  <1>5. CASE Logout
    BY <1>5, LogoutHeld
  <1>6. CASE Activate \/ ActivateJoins
    BY <1>6, ActivateHeld
  <1>7. CASE Registered
    BY <1>7, RegisteredHeld
  <1>8. CASE RegisteredTooLate \/ Listens
    BY <1>8, ListensHeld
  <1>9. CASE StartFails
    BY <1>9, StartFailsHeld
  <1>10. CASE Deactivate
    BY <1>10, DeactivateHeld
  <1>11. CASE \E k \in Activations : ListenerFails(k)
    BY <1>11, ListenerFailsHeld
  <1>12. CASE \E s \in Sessions : \/ Requested(s)
                                  \/ Expires(s)
                                  \/ Pending(s)
                                  \/ WindowShown(s)
                                  \/ WindowFails(s)
                                  \/ Approve(s)
                                  \/ Reject(s)
    BY <1>12, RequestHeld
  <1>13. CASE \E call \in Calls : \/ Answered(call[1], call[2])
                                  \/ AnswerFails(call[1], call[2])
    <2>1. PICK call \in Calls : \/ Answered(call[1], call[2])
                                \/ AnswerFails(call[1], call[2])
      BY <1>13
    <2>2. call[1] \in {"approve", "reject"} /\ call[2] \in Sessions
      BY DEF Calls
    <2> QED BY <2>1, <2>2, AnswerHeld
  <1>14. CASE \/ \E p \in peers.accepting : AcceptResumes(p) \/ AcceptFails(p)
              \/ \E p \in peers.serving : PeerEnds(p)
    BY <1>14, PeersHeld
  <1>15. CASE UNCHANGED vars
    BY <1>15 DEF vars, accountVars, HeldInv, LiveShape, ServedShape,
                 AccountInv, FieldsInv, ServesInv
  <1> QED
    BY <1>2, <1>3, <1>4, <1>5, <1>6, <1>7, <1>8, <1>9, <1>10, <1>11, <1>12,
       <1>13, <1>14, <1>15 DEF Next

LEMMA HeldHolds == Spec => []HeldInv
  BY InitHeld, NextHeld, PTL DEF Spec

\* A field of the controller names what is open, or nothing, and a peer, a request
\* and a promise are where TypeOK lists, whatever overtook them.
THEOREM TypeHolds == Spec => []TypeOK
  <1>1. HeldInv => TypeOK
    BY DEF HeldInv, IInv, Shape, LiveShape, ServedShape, TypeOK, Accounts,
           Authentications, Hosts
  <1> QED BY <1>1, HeldHolds, PTL

\* Whatever logins and activations overtook each other, an account that is shown
\* as signed in has a user, a host that is shown online listens and beats, and
\* a host that was stopped holds nothing (login, startInternal and
\* stopHostResources of host-controller.ts).
THEOREM ShownHolds == Spec => []ShownIsHeld
  <1>1. HeldInv => ShownIsHeld
    BY HeldIsShown
  <1> QED BY <1>1, HeldHolds, PTL
=============================================================================
