----------------------------- MODULE DesktopLogin -----------------------------
(***************************************************************************)
(* Signing a desktop in and giving it its device: the client               *)
(* (apps/desktop/src/main/remote/desktop-login.ts) with its loopback       *)
(* listener, and the functions that keep the login transaction             *)
(* (functions/src/desktop-login.ts).                                       *)
(*                                                                         *)
(* An attempt is a list of awaited steps, each raced against one deadline. *)
(* A step that lost its race goes on: its request may still reach the      *)
(* function, its listener may still be bound.  Requests are delayed, never *)
(* repeated; a lost one is one that is never handled or never read.        *)
(* Secrets are left out: a client knows its own state, nonce and verifier, *)
(* and the code only once it was answered.  What the envelope checks       *)
(* refuse never reaches a transaction.                                     *)
(***************************************************************************)
EXTENDS Integers, SequencesExt

CONSTANTS
    Attempts,   \* bound: attempts of one desktop, 1..n, in their order
    Modes,      \* which functions are called
    LoginTtl,   \* LOGIN_TTL_MS
    CodeTtl,    \* CODE_TTL_MS
    MaxTime     \* bound: the clock of the functions

ASSUME DesktopLoginAssumption ==
    /\ Attempts \subseteq Nat
    /\ Modes \subseteq {"auth", "existing", "full"}
    /\ LoginTtl \in Nat \ {0} /\ CodeTtl \in 1..LoginTtl /\ MaxTime \in Nat

VARIABLES
    clock,
    client,     \* the attempts: step, whether to cancel, where they failed
    wire,       \* requests that are on their way, or answered
    logins,     \* serverDesktopLoginTransactions
    device,     \* the device of this desktop's key, generation 0 when absent
    listeners,  \* the loopback listener of an attempt; they share one port
    callback,   \* what waitForCallback() came to
    identity    \* the key was created by an earlier attempt

vars == <<clock, client, wire, logins, device, listeners, callback, identity>>

-----------------------------------------------------------------------------
Idle == [at |-> "idle", mode |-> "none", action |-> "none",
         eligible |-> FALSE, failed |-> "none", error |-> "none"]
NoLogin == [status |-> "none", action |-> "none", expires |-> 0, code |-> 0]

Init ==
    /\ clock = 0
    /\ client = [a \in Attempts |-> Idle]
    /\ wire = {}
    /\ logins = [a \in Attempts |-> NoLogin]
    /\ identity \in BOOLEAN
    /\ device \in (IF identity THEN {[generation |-> 0, active |-> FALSE],
                                     [generation |-> 1, active |-> TRUE]}
                  ELSE {[generation |-> 0, active |-> FALSE]})
    /\ listeners = [a \in Attempts |-> "none"]
    /\ callback = [a \in Attempts |-> "none"]

\* bootstrapProductionDesktopAuth is "auth"; bootstrapProductionDesktopLogin
\* is "existing" with useExistingAuth and "full" without.
Steps(mode) ==
    CASE mode = "auth" -> <<"bind", "uri", "open", "wait", "exchange">>
      [] mode = "existing" -> <<"start", "authorize", "redeem">>
      [] OTHER -> <<"bind", "start", "uri", "open", "wait", "exchange",
                    "authorize", "redeem">>

Requests == {"start", "authorize", "redeem"}
Running(a) == \E i \in DOMAIN Steps(client[a].mode) :
                client[a].at = Steps(client[a].mode)[i]
Ended(a) == client[a].at \in {"completed", "failed"}
PortHeld(a) == listeners[a] \in {"listening", "code", "cancelled"}

\* A function reads its clock once, somewhere between the sending of the request
\* and the last try of its transaction; a cancellation does not read it.
Request(kind, a) ==
    [kind |-> kind, attempt |-> a, answer |-> "none",
     sent |-> IF kind = "cancel" THEN 0 ELSE clock]
Readings(r) == r.sent..clock

-----------------------------------------------------------------------------
(* The client *)

\* What a step sends; a start that is lost may still have created the
\* transaction, so cancelling is due from there on.
Enters(a, step) ==
    /\ client' = [client EXCEPT ![a].at = step,
                                ![a].eligible = @ \/ step = "start"]
    /\ wire' = {r \in wire : r.attempt = a => r.answer = "none"} \cup
                (IF step \in Requests THEN {Request(step, a)} ELSE {})

\* A mutant: a listener that sends its page is left to it.
ClosesListening(a) ==
    listeners' = [listeners EXCEPT ![a] = IF @ = "listening" THEN "closed"
                                          ELSE @]

\* The finally block: the listener that was awaited is closed.
ClosesListener(a) ==
    listeners' = [listeners EXCEPT ![a] =
        IF PortHeld(a) THEN "closed" ELSE @]

Advance(a) ==
    LET steps == Steps(client[a].mode)
        next == 1 + CHOOSE i \in DOMAIN steps : steps[i] = client[a].at
    IN IF next =< Len(steps)
       THEN Enters(a, steps[next]) /\ UNCHANGED listeners
       ELSE /\ client' = [client EXCEPT ![a].at = "completed"]
            /\ wire' = {r \in wire : r.attempt # a}
            /\ ClosesListener(a)

\* The finally block of a failure: the listener is closed unless it is still
\* being bound, and the transaction is cancelled when a start was sent.
Fail(a, error) ==
    /\ client' = [client EXCEPT
            ![a].at = IF client[a].eligible THEN "cancelling" ELSE "failed",
            ![a].failed = client[a].at, ![a].error = error]
    /\ wire' = {r \in wire : r.attempt = a => r.answer = "none"} \cup
                (IF client[a].eligible THEN {Request("cancel", a)} ELSE {})
    /\ ClosesListener(a)

\* A mutant: a device that cannot be resumed is resumed again.
NeverRegisters(a) == IF ~identity THEN "register" ELSE "resume"

\* The controller runs one attempt after the other.  An unknown device is
\* registered right after it could not be resumed
\* (shouldRetryDesktopLoginAsRegister).
ActionOf(a) ==
    IF ~identity THEN "register"
    ELSE IF /\ a - 1 \in Attempts
            /\ client[a - 1].action = "resume"
            /\ client[a - 1].error = "not_found"
    THEN "register" ELSE "resume"

Begin(a, mode) ==
    /\ client[a].at = "idle"
    /\ \A b \in Attempts : b < a => Ended(b)
    /\ client' = [client EXCEPT ![a] =
            [at |-> Steps(mode)[1], mode |-> mode,
             action |-> IF mode = "auth" THEN "none" ELSE ActionOf(a),
             eligible |-> mode = "existing", failed |-> "none",
             error |-> "none"]]
    /\ identity' = (identity \/ mode # "auth")
    /\ IF mode = "existing"
       THEN wire' = wire \cup {Request("start", a)} /\ UNCHANGED listeners
       ELSE listeners' = [listeners EXCEPT ![a] = "binding"] /\ UNCHANGED wire
    /\ UNCHANGED <<clock, logins, device, callback>>

\* Google answers: the address to open, the browser that opens it, the
\* exchange of the code and the sign-in.
Proceeds(a) ==
    /\ Running(a) /\ client[a].at \in {"uri", "open", "exchange"}
    /\ Advance(a)
    /\ UNCHANGED <<clock, logins, device, callback, identity>>

\* A function answers the step that waits for it.
Answered(a) ==
    \E r \in wire :
        /\ r.attempt = a /\ r.kind = client[a].at /\ r.answer # "none"
        /\ IF r.answer = "ok" THEN Advance(a) ELSE Fail(a, r.answer)
        /\ UNCHANGED <<clock, logins, device, callback, identity>>

\* A mutant: an accepted callback clears the deadline of the attempt.
BoundedUntilCallback(a) == Running(a) /\ listeners[a] # "code"

Bounded(a) == Running(a)

\* The deadline of the attempt fires, a logout aborts it, or what it awaits
\* fails on this side of the functions.
GivesUp(a) ==
    /\ Bounded(a)
    /\ Fail(a, "none")
    /\ UNCHANGED <<clock, logins, device, callback, identity>>

\* cancelDesktopLogin: an answer or CANCEL_TIMEOUT_MS, whatever it says.
CancelEnds(a) ==
    /\ client[a].at = "cancelling"
    /\ client' = [client EXCEPT ![a].at = "failed"]
    /\ wire' = {r \in wire : r.attempt = a => r.answer = "none"}
    /\ UNCHANGED <<clock, logins, device, listeners, callback, identity>>

-----------------------------------------------------------------------------
(* The loopback listener *)

\* An attempt that gave up in the meantime has no listener to close.
Bound(a) ==
    /\ listeners[a] = "binding"
    /\ IF \A b \in Attempts : ~PortHeld(b)
       THEN IF client[a].at = "bind"
            THEN \E next \in {Steps(client[a].mode)[2]} :
                    /\ Enters(a, next)
                    /\ listeners' = [listeners EXCEPT ![a] = "listening"]
            ELSE /\ listeners' = [listeners EXCEPT ![a] = "listening"]
                 /\ UNCHANGED <<client, wire>>
       ELSE IF client[a].at = "bind"
       THEN /\ client' = [client EXCEPT ![a].at = "failed",
                                        ![a].failed = "port"]
            /\ listeners' = [listeners EXCEPT ![a] = "closed"]
            /\ UNCHANGED wire
       ELSE /\ listeners' = [listeners EXCEPT ![a] = "closed"]
            /\ UNCHANGED <<client, wire>>
    /\ UNCHANGED <<clock, logins, device, callback, identity>>

\* A browser comes back with a code, or says that access was denied; from then
\* on every other request is refused.  Only the request is looked at: it may
\* come from the tab of an earlier attempt, whatever the client is at.
Redirected(a, result) ==
    /\ listeners[a] = "listening"
    /\ listeners' = [listeners EXCEPT ![a] = result]
    /\ UNCHANGED <<clock, client, wire, logins, device, callback, identity>>

\* The page has reached the browser; a browser may never take it.
PageSent(a) ==
    /\ listeners[a] \in {"code", "cancelled"}
    /\ callback' = [callback EXCEPT ![a] = listeners[a]]
    /\ listeners' = [listeners EXCEPT ![a] = "closed"]
    /\ UNCHANGED <<clock, client, wire, logins, device, identity>>

ListenerTimesOut(a) ==
    /\ listeners[a] = "listening"
    /\ listeners' = [listeners EXCEPT ![a] = "closed"]
    /\ callback' = [callback EXCEPT ![a] = "timeout"]
    /\ UNCHANGED <<clock, client, wire, logins, device, identity>>

CallbackComes(a) ==
    /\ client[a].at = "wait" /\ callback[a] # "none"
    /\ IF callback[a] = "code" THEN Advance(a) ELSE Fail(a, "none")
    /\ UNCHANGED <<clock, logins, device, callback, identity>>

-----------------------------------------------------------------------------
(* The functions, each a transaction *)

Live(l, now) == l.status \in {"pending", "authorized"} /\ now < l.expires

\* The answer of a request; nobody takes it once its step was given up.
Answer(r, result) ==
    wire' = (wire \ {r}) \cup
        (IF client[r.attempt].at = r.kind
         THEN {[r EXCEPT !.answer = result, !.sent = 0]} ELSE {})

Arrived(kind, r) == r \in wire /\ r.kind = kind /\ r.answer = "none"

LoginStart(r) ==
    /\ Arrived("start", r)
    /\ IF logins[r.attempt].status = "none"
       THEN /\ \E now \in Readings(r) :
                logins' = [logins EXCEPT ![r.attempt] =
                    [status |-> "pending", action |-> client[r.attempt].action,
                     expires |-> now + LoginTtl, code |-> 0]]
            /\ Answer(r, "ok")
       ELSE Answer(r, "refused") /\ UNCHANGED logins
    /\ UNCHANGED <<clock, client, device, listeners, callback, identity>>

\* A mutant: a transaction that was cancelled is authorized.
AuthorizableEver(l, now) == l.status # "none" /\ now < l.expires

\* assertLiveTransaction and the status that is wanted.
Authorizable(l, now) == Live(l, now) /\ l.status = "pending"

Authorize(r) ==
    /\ Arrived("authorize", r)
    /\ \E now \in Readings(r) :
        IF Authorizable(logins[r.attempt], now)
        THEN /\ logins' = [logins EXCEPT ![r.attempt].status = "authorized",
                                         ![r.attempt].code = now + CodeTtl]
             /\ Answer(r, "ok")
        ELSE Answer(r, "refused") /\ UNCHANGED logins
    /\ UNCHANGED <<clock, client, device, listeners, callback, identity>>

Redeemable(l, now) ==
    Live(l, now) /\ l.status = "authorized" /\ now < l.code

\* Why the transaction of a redeemable login ends without a device (the desktop
\* never asks to enable its device again).
DeviceRefusal(action) ==
    CASE device.generation = 0 /\ action = "resume" -> "not_found"
      [] device.generation > 0 /\ action = "register" -> "refused"
      [] device.generation > 0 /\ ~device.active -> "refused"
      [] OTHER -> "ok"

\* The token is created after the transaction and may fail on its own: the
\* login is consumed and the device stored all the same.
Redeem(r) ==
    /\ Arrived("redeem", r)
    /\ \E now \in Readings(r) :
        \E result \in {IF Redeemable(logins[r.attempt], now)
                      THEN DeviceRefusal(logins[r.attempt].action)
                      ELSE "refused"} :
        IF result = "ok"
        THEN /\ device' = [generation |-> IF device.generation = 0 THEN 1
                                          ELSE device.generation,
                           active |-> TRUE]
             /\ logins' = [logins EXCEPT ![r.attempt].status = "consumed"]
             /\ \E token \in {"ok", "refused"} : Answer(r, token)
        ELSE Answer(r, result) /\ UNCHANGED <<device, logins>>
    /\ UNCHANGED <<clock, client, listeners, callback, identity>>

\* Nothing of the clock is asked, and cancelling again is fine.
Cancel(r) ==
    /\ Arrived("cancel", r)
    /\ IF logins[r.attempt].status \in {"pending", "authorized"}
       THEN logins' = [logins EXCEPT ![r.attempt].status = "cancelled"]
       ELSE UNCHANGED logins
    /\ wire' = wire \ {r}
    /\ UNCHANGED <<clock, client, device, listeners, callback, identity>>

Disable ==
    /\ device.active
    /\ device' = [device EXCEPT !.active = FALSE]
    /\ UNCHANGED <<clock, client, wire, logins, listeners, callback, identity>>

Tick ==
    /\ clock < MaxTime /\ clock' = clock + 1
    /\ UNCHANGED <<client, wire, logins, device, listeners, callback, identity>>

-----------------------------------------------------------------------------
Next ==
    \/ \E a \in Attempts :
        \/ \E mode \in Modes : Begin(a, mode)
        \/ Proceeds(a) \/ Answered(a) \/ GivesUp(a) \/ CancelEnds(a)
        \/ Bound(a) \/ PageSent(a) \/ ListenerTimesOut(a) \/ CallbackComes(a)
        \/ \E result \in {"code", "cancelled"} : Redirected(a, result)
    \/ \E r \in wire : LoginStart(r) \/ Authorize(r) \/ Redeem(r) \/ Cancel(r)
    \/ Disable \/ Tick

\* The deadline and the timer of a cancellation fire; nothing is asked of the
\* network, of Google or of the browser.
Fairness ==
    \A a \in Attempts :
        /\ WF_vars(GivesUp(a)) /\ WF_vars(CancelEnds(a))
        /\ WF_vars(Bound(a)) /\ WF_vars(ListenerTimesOut(a))

Spec == Init /\ [][Next]_vars /\ Fairness

-----------------------------------------------------------------------------
(* Properties *)

\* A login that was cancelled or consumed stays so, whatever request arrives
\* late, and the device is stored only by consuming an authorized login, for a
\* request that was sent while its code was alive (desktopLoginRedeem,
\* desktopLoginCancel).  That the code is alive when the transaction commits is
\* not promised: the clock is read before it.
DecidedStands ==
    [][/\ \A a \in Attempts :
            logins[a].status \in {"cancelled", "consumed"} =>
                logins'[a] = logins[a]
       /\ device' \notin {device, [device EXCEPT !.active = FALSE]} =>
                \E r \in wire :
                    /\ r.kind = "redeem" /\ r.sent < logins[r.attempt].code
                    /\ logins[r.attempt].status = "authorized"
                    /\ logins'[r.attempt].status = "consumed"]_vars

\* An attempt that reports a device consumed its own login, and an attempt
\* that was refused for want of a device is followed by one that registers
\* it: no two attempts in a row are told that the device is not found.
CompletedIsConsumed ==
    \A a \in Attempts :
        /\ client[a].at = "completed" /\ client[a].mode # "auth" =>
            logins[a].status = "consumed" /\ device.generation > 0
        /\ a + 1 \in Attempts =>
            ~({client[a].error, client[a + 1].error} = {"not_found"})

\* The port is held by an attempt that runs, or by a listener whose attempt
\* gave up before it was bound; that one nobody closes before its own timer.
PortFollowsAttempt ==
    \A a \in Attempts :
        PortHeld(a) => Running(a) \/ client[a].failed = "bind"

\* Every attempt ends, even when the browser never takes the page and no
\* function answers.
LoginEnds == \A a \in Attempts : Running(a) ~> Ended(a)
=============================================================================
