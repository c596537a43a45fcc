-------------------------- MODULE DesktopLoginProofs --------------------------
(***************************************************************************)
(* What the login of a desktop keeps, for any attempts, modes and leases.  *)
(*                                                                         *)
(* An attempt that gave up leaves things behind: a request on its way, a   *)
(* listener that is still being bound, a login at the functions.  WireInv  *)
(* says what an answer on the wire is still worth when its attempt reads   *)
(* it, ListenerInv whose listener may be bound late, LoginInv what a login *)
(* and an error say of the attempt they belong to, and OrderInv that the   *)
(* attempts of the controller follow one another, which is why a refused   *)
(* one is known when the next chooses its action.                          *)
(***************************************************************************)
EXTENDS DesktopLogin, TLAPS

Actions == {"none", "register", "resume"}
Statuses == {"none", "pending", "authorized", "consumed", "cancelled"}
Answers == {"none", "ok", "refused", "not_found"}
Outside == {"idle", "completed", "failed", "cancelling"}
Places == Outside \cup
    {"bind", "start", "uri", "open", "wait", "exchange", "authorize", "redeem"}

ClientRecords ==
    [at : Places, mode : {"none", "auth", "existing", "full"}, action : Actions,
     eligible : BOOLEAN, failed : Places \cup {"none", "port"}, error : Answers]

Kinds == Requests \cup {"cancel"}
WireRecords == [kind : Kinds, attempt : Attempts, answer : Answers, sent : Nat]

LoginRecords == [status : Statuses, action : Actions, expires : Int, code : Int]

Shape ==
    /\ clock \in Nat
    /\ client \in [Attempts -> ClientRecords]
    /\ wire \subseteq WireRecords
    /\ logins \in [Attempts -> LoginRecords]
    /\ device \in [generation : Nat, active : BOOLEAN]
    /\ listeners \in [Attempts -> {"none", "binding", "listening", "code", "cancelled",
                                   "closed"}]
    /\ identity \in BOOLEAN

\* An attempt is at a step of its mode, or outside of them.
PlaceInv(a) == Running(a) \/ client[a].at \in Outside

\* A listener is bound late only for an attempt that gave up while it was bound.
ListenerInv(a) ==
    /\ client[a].at = "idle" => listeners[a] = "none"
    /\ listeners[a] = "binding" =>
          client[a].at = "bind" \/ (client[a].failed = "bind" /\ ~Running(a))
    /\ PortHeld(a) => Running(a) \/ client[a].failed = "bind"

\* What an answer is worth when it is read.
WireInv(r) ==
    /\ client[r.attempt].at # "idle"
    /\ r.kind = "redeem" /\ r.answer = "ok" =>
          logins[r.attempt].status = "consumed" /\ device.generation > 0
    /\ r.answer = "not_found" => client[r.attempt].action = "resume"

\* What a login, an error and a success say of their attempt.
LoginInv(a) ==
    /\ logins[a].status # "none" =>
          client[a].at # "idle" /\ logins[a].action = client[a].action
    /\ client[a].error = "not_found" =>
          client[a].at # "idle" /\ client[a].action = "resume"
    /\ client[a].at = "completed" /\ client[a].mode # "auth" =>
          logins[a].status = "consumed" /\ device.generation > 0

\* The attempts follow one another, and who follows a desktop that is not known
\* does not resume it.
OrderInv(a) ==
    client[a].at # "idle" =>
        /\ \A b \in Attempts : b < a => Ended(b)
        /\ a - 1 \in Attempts /\ client[a - 1].error = "not_found" =>
              client[a].action # "resume"

IInv ==
    /\ Shape
    /\ \A a \in Attempts : PlaceInv(a) /\ ListenerInv(a) /\ LoginInv(a) /\ OrderInv(a)
    /\ \A r \in wire : WireInv(r)

-----------------------------------------------------------------------------
(* Steps.                                                                  *)

LEMMA StepsAreInside ==
  ASSUME NEW m, NEW i \in DOMAIN Steps(m)
  PROVE  Steps(m)[i] \in Places \ Outside
  <1>1. CASE m = "auth"
    BY <1>1 DEF Steps, Places, Outside
  <1>2. CASE m = "existing"
    BY <1>2 DEF Steps, Places, Outside
  <1>3. CASE m # "auth" /\ m # "existing"
    BY <1>3 DEF Steps, Places, Outside
  <1> QED BY <1>1, <1>2, <1>3

LEMMA StepsAreSome ==
  ASSUME NEW m
  PROVE  /\ Len(Steps(m)) \in Nat \ {0, 1} /\ DOMAIN Steps(m) = 1..Len(Steps(m))
         /\ m = "auth" \/ Steps(m)[Len(Steps(m))] = "redeem"
         /\ Steps(m)[1] = IF m = "existing" THEN "start" ELSE "bind"
  <1>1. CASE m = "auth"
    BY <1>1 DEF Steps
  <1>2. CASE m = "existing"
    BY <1>2 DEF Steps
  <1>3. CASE m # "auth" /\ m # "existing"
    BY <1>3 DEF Steps
  <1> QED BY <1>1, <1>2, <1>3

\* Who is at a step is neither idle nor at its end.
LEMMA RunningIsInside ==
  ASSUME NEW a \in Attempts, Running(a)
  PROVE  client[a].at \in Places \ Outside
  BY StepsAreInside DEF Running

\* A request on its way is of a step, or a cancellation.
LEMMA AtStepRuns ==
  ASSUME IInv, NEW a \in Attempts, client[a].at \notin Outside
  PROVE  Running(a)
  BY DEF IInv, PlaceInv

-----------------------------------------------------------------------------
(* Steps of an attempt.                                                    *)

Sent(a) == {Request(k, a) : k \in Kinds}

LEMMA SentAreRecords ==
  ASSUME Shape, NEW a \in Attempts
  PROVE  Sent(a) \subseteq WireRecords
  <1> SUFFICES ASSUME NEW k \in Kinds
               PROVE  Request(k, a) \in WireRecords
    BY DEF Sent
  <1> DEFINE sent == IF k = "cancel" THEN 0 ELSE clock
  <1>1. sent \in Nat
    BY DEF Shape
  <1>2. Request(k, a) = [kind |-> k, attempt |-> a, answer |-> "none", sent |-> sent]
    BY DEF Request
  <1> HIDE DEF sent
  <1> QED BY <1>1, <1>2 DEF WireRecords, Answers

\* What a function reads of its clock is a time.
LEMMA ReadingsAreTimes ==
  ASSUME Shape, NEW r \in wire, NEW now \in Readings(r)
  PROVE  now \in Nat /\ r.sent =< now
  BY DEF Shape, WireRecords, Readings

\* An attempt that is neither idle nor ended moves, and the others stay.
LEMMA ClientStep ==
  ASSUME IInv, NEW a \in Attempts, client[a].at # "idle", ~Ended(a),
         client' \in [Attempts -> ClientRecords],
         \A b \in Attempts \ {a} : client'[b] = client[b],
         client'[a].mode = client[a].mode, client'[a].action = client[a].action,
         client'[a].at # "idle", PlaceInv(a)',
         client'[a].error = "not_found" =>
            client[a].error = "not_found" \/ client[a].action = "resume",
         client'[a].at = "completed" /\ client[a].mode # "auth" =>
            logins[a].status = "consumed" /\ device.generation > 0,
         wire' \subseteq wire \cup Sent(a),
         listeners' \in [Attempts -> {"none", "binding", "listening", "code", "cancelled",
                                      "closed"}],
         \A b \in Attempts \ {a} : listeners'[b] = listeners[b], ListenerInv(a)',
         UNCHANGED <<clock, logins, device, identity>>
  PROVE  IInv'
  <1>0. Attempts \subseteq Nat /\ Shape
    BY DesktopLoginAssumption DEF DesktopLoginAssumption, IInv
  <1>1. Shape'
    <2>1. Sent(a) \subseteq WireRecords
      BY <1>0, SentAreRecords
    <2> QED BY <1>0, <2>1 DEF Shape
  <1>2. ASSUME NEW b \in Attempts
        PROVE  PlaceInv(b)' /\ ListenerInv(b)' /\ LoginInv(b)'
    <2>1. PlaceInv(b) /\ ListenerInv(b) /\ LoginInv(b)
      BY DEF IInv
    <2>2. CASE b = a
      BY <2>1, <2>2 DEF LoginInv
    <2>3. CASE b # a
      BY <2>1, <2>3 DEF PlaceInv, ListenerInv, LoginInv, Running, PortHeld
    <2> QED BY <2>2, <2>3
  <1>3. ASSUME NEW b \in Attempts
        PROVE  OrderInv(b)'
    <2> SUFFICES ASSUME client'[b].at # "idle"
                 PROVE  /\ \A c \in Attempts : c < b => Ended(c)'
                        /\ b - 1 \in Attempts /\ client'[b - 1].error = "not_found" =>
                              client'[b].action # "resume"
      BY DEF OrderInv
    <2>1. client[b].at # "idle" /\ client'[b].action = client[b].action
      BY <1>0
    <2>2. /\ \A c \in Attempts : c < b => Ended(c)
          /\ b - 1 \in Attempts /\ client[b - 1].error = "not_found" =>
                client[b].action # "resume"
      BY <2>1 DEF IInv, OrderInv
    <2>3. \A c \in Attempts : c < b => c # a
      BY <2>2
    <2>4. \A c \in Attempts : c < b => client'[c] = client[c]
      BY <2>3
    <2>5. b - 1 < b
      BY <1>0
    <2> QED BY <2>1, <2>2, <2>4, <2>5 DEF Ended
  <1>4. ASSUME NEW r \in wire'
        PROVE  WireInv(r)'
    <2>1. CASE r \in wire
      <3>1. WireInv(r) /\ r.attempt \in Attempts
        BY <1>0, <2>1 DEF IInv, Shape, WireRecords
      <3>2. /\ client'[r.attempt].at # "idle"
            /\ client'[r.attempt].action = client[r.attempt].action
        BY <3>1 DEF WireInv
      <3> QED BY <3>1, <3>2 DEF WireInv
    <2>2. CASE r \in Sent(a)
      <3>1. r.attempt = a /\ r.answer = "none"
        BY <2>2 DEF Sent, Request
      <3> QED BY <3>1 DEF WireInv
    <2> QED BY <2>1, <2>2
  <1> QED BY <1>1, <1>2, <1>3, <1>4 DEF IInv

LEMMA EntersEffect ==
  ASSUME Shape, NEW a \in Attempts, NEW step \in Places, Enters(a, step)
  PROVE  /\ client' \in [Attempts -> ClientRecords]
         /\ \A b \in Attempts \ {a} : client'[b] = client[b]
         /\ client'[a].at = step /\ client'[a].mode = client[a].mode
         /\ client'[a].action = client[a].action /\ client'[a].failed = client[a].failed
         /\ client'[a].error = client[a].error
         /\ wire' \subseteq wire \cup Sent(a)
  <1> DEFINE e == client[a].eligible \/ step = "start"
  <1>1. client[a] \in ClientRecords /\ client \in [Attempts -> ClientRecords]
    BY DEF Shape
  <1>2. client' = [client EXCEPT ![a] = [client[a] EXCEPT !.at = step, !.eligible = e]]
    BY <1>1 DEF Enters
  <1>3. e \in BOOLEAN
    OBVIOUS
  <1> HIDE DEF e
  <1>4. [client[a] EXCEPT !.at = step, !.eligible = e] \in ClientRecords
    BY <1>1, <1>3 DEF ClientRecords
  <1>5. wire' \subseteq wire \cup Sent(a)
    BY DEF Enters, Sent, Kinds
  <1>6. client'[a] = [client[a] EXCEPT !.at = step, !.eligible = e]
    BY <1>1, <1>2
  <1>7. /\ client' \in [Attempts -> ClientRecords]
        /\ \A b \in Attempts \ {a} : client'[b] = client[b]
    BY <1>1, <1>2, <1>4
  <1> QED BY <1>1, <1>5, <1>6, <1>7 DEF ClientRecords

LEMMA ClosesEffect ==
  ASSUME Shape, NEW a \in Attempts, ClosesListener(a)
  PROVE  /\ listeners' \in [Attempts -> {"none", "binding", "listening", "code",
                                         "cancelled", "closed"}]
         /\ \A b \in Attempts \ {a} : listeners'[b] = listeners[b]
         /\ ~PortHeld(a)' /\ (listeners'[a] = "binding" => listeners[a] = "binding")
  BY DEF Shape, ClosesListener, PortHeld

\* After its last step an attempt has its account, or its device.
LEMMA AdvanceInv ==
  ASSUME IInv, NEW a \in Attempts, Running(a), client[a].at # "bind", Advance(a),
         client[a].at = "redeem" => logins[a].status = "consumed" /\ device.generation > 0,
         UNCHANGED <<clock, logins, device, identity>>
  PROVE  IInv'
  <1> DEFINE steps == Steps(client[a].mode)
             i == CHOOSE j \in DOMAIN steps : steps[j] = client[a].at
  <1>1. /\ Shape /\ client[a] \in ClientRecords /\ client[a].at \in Places \ Outside
        /\ client[a].at # "idle" /\ ~Ended(a)
    BY RunningIsInside DEF IInv, Shape, Ended, Outside
  <1>2. i \in DOMAIN steps /\ steps[i] = client[a].at
    BY DEF Running
  <1>3. /\ Len(steps) \in Nat \ {0, 1} /\ DOMAIN steps = 1..Len(steps) /\ i \in 1..Len(steps)
        /\ client[a].mode = "auth" \/ steps[Len(steps)] = "redeem"
    BY <1>2, StepsAreSome
  <1>4. ListenerInv(a) /\ listeners[a] # "binding"
    BY DEF IInv, ListenerInv
  <1>5. CASE 1 + i =< Len(steps)
    <2>1. Enters(a, steps[1 + i]) /\ UNCHANGED listeners
      BY <1>5 DEF Advance
    <2>2. 1 + i \in DOMAIN steps
      BY <1>3, <1>5
    <2>3. steps[1 + i] \in Places \ Outside
      BY <2>2, StepsAreInside
    <2> DEFINE next == steps[1 + i]
    <2>4. /\ client' \in [Attempts -> ClientRecords]
          /\ \A b \in Attempts \ {a} : client'[b] = client[b]
          /\ client'[a].at = next /\ client'[a].mode = client[a].mode
          /\ client'[a].action = client[a].action
          /\ client'[a].error = client[a].error
          /\ wire' \subseteq wire \cup Sent(a)
      BY <1>1, <2>1, <2>3, EntersEffect
    <2>5. Running(a)'
      <3> HIDE DEF i
      <3> QED BY <2>2, <2>4 DEF Running
    <2> HIDE DEF next, steps, i
    <2>6. client'[a].at # "idle" /\ client'[a].at # "completed"
      BY <2>3, <2>4 DEF Outside, next
    <2>7. PlaceInv(a)' /\ ListenerInv(a)'
      BY <1>4, <2>1, <2>5, <2>6 DEF PlaceInv, ListenerInv
    <2>8. \A b \in Attempts \ {a} : listeners'[b] = listeners[b]
      BY <2>1
    <2>9. listeners' \in [Attempts -> {"none", "binding", "listening", "code", "cancelled",
                                       "closed"}]
      BY <1>1, <2>1 DEF Shape
    <2> QED BY <1>1, <2>4, <2>6, <2>7, <2>8, <2>9, ClientStep
  <1>6. CASE ~(1 + i =< Len(steps))
    <2>1. client[a].mode = "auth" \/ client[a].at = "redeem"
      <3> HIDE DEF i
      <3>1. i = Len(steps)
        BY <1>3, <1>6
      <3> QED BY <1>2, <1>3, <3>1
    <2>2. /\ client' = [client EXCEPT ![a].at = "completed"]
          /\ wire' = {r \in wire : r.attempt # a} /\ ClosesListener(a)
      BY <1>6 DEF Advance
    <2> HIDE DEF steps, i
    <2>3. /\ client' \in [Attempts -> ClientRecords]
          /\ \A b \in Attempts \ {a} : client'[b] = client[b]
          /\ client'[a].at = "completed" /\ client'[a].mode = client[a].mode
          /\ client'[a].action = client[a].action
          /\ client'[a].error = client[a].error
      BY <1>1, <2>2 DEF Shape, ClientRecords, Places, Outside
    <2>4. /\ listeners' \in [Attempts -> {"none", "binding", "listening", "code",
                                          "cancelled", "closed"}]
          /\ \A b \in Attempts \ {a} : listeners'[b] = listeners[b]
          /\ ~PortHeld(a)' /\ listeners'[a] # "binding"
      BY <1>1, <1>4, <2>2, ClosesEffect
    <2>5. PlaceInv(a)' /\ ListenerInv(a)'
      BY <2>3, <2>4 DEF PlaceInv, ListenerInv, Outside
    <2> QED BY <1>1, <2>1, <2>2, <2>3, <2>4, <2>5, ClientStep
  <1> QED BY <1>5, <1>6

\* A failure closes what is bound; what is being bound stays the attempt's.
LEMMA FailInv ==
  ASSUME IInv, NEW a \in Attempts, Running(a), NEW error \in Answers, Fail(a, error),
         error = "not_found" => client[a].action = "resume",
         UNCHANGED <<clock, logins, device, identity>>
  PROVE  IInv'
  <1> DEFINE at == IF client[a].eligible THEN "cancelling" ELSE "failed"
  <1>1. /\ Shape /\ client[a] \in ClientRecords /\ client[a].at \in Places \ Outside
        /\ client[a].at # "idle" /\ ~Ended(a) /\ ListenerInv(a)
    BY RunningIsInside DEF IInv, Shape, Ended, Outside
  <1>2. /\ client' = [client EXCEPT ![a].at = at, ![a].failed = client[a].at,
                                    ![a].error = error]
        /\ wire' \subseteq wire \cup Sent(a) /\ ClosesListener(a)
    BY DEF Fail, Sent, Kinds
  <1>3. at \in Outside /\ at # "idle" /\ at # "completed" /\ at \in Places
    BY DEF Outside, Places
  <1> HIDE DEF at
  <1>4. /\ client' \in [Attempts -> ClientRecords]
        /\ \A b \in Attempts \ {a} : client'[b] = client[b]
        /\ client'[a].at = at /\ client'[a].mode = client[a].mode
        /\ client'[a].action = client[a].action
        /\ client'[a].failed = client[a].at /\ client'[a].error = error
    BY <1>1, <1>2, <1>3 DEF Shape, ClientRecords
  <1>5. /\ listeners' \in [Attempts -> {"none", "binding", "listening", "code",
                                        "cancelled", "closed"}]
        /\ \A b \in Attempts \ {a} : listeners'[b] = listeners[b]
        /\ ~PortHeld(a)' /\ (listeners'[a] = "binding" => listeners[a] = "binding")
    BY <1>1, <1>2, ClosesEffect
  <1>6. ~Running(a)'
    BY <1>3, <1>4, StepsAreInside DEF Running
  <1>7. PlaceInv(a)' /\ ListenerInv(a)'
    BY <1>1, <1>3, <1>4, <1>5, <1>6 DEF PlaceInv, ListenerInv
  <1> QED BY <1>1, <1>2, <1>3, <1>4, <1>5, <1>7, ClientStep

LEMMA ProceedsInv ==
  ASSUME IInv, NEW a \in Attempts, Proceeds(a)
  PROVE  IInv'
  BY AdvanceInv DEF Proceeds

LEMMA AnsweredInv ==
  ASSUME IInv, NEW a \in Attempts, Answered(a)
  PROVE  IInv'
  <1>1. PICK r \in wire :
           /\ r.attempt = a /\ r.kind = client[a].at /\ r.answer # "none"
           /\ IF r.answer = "ok" THEN Advance(a) ELSE Fail(a, r.answer)
           /\ UNCHANGED <<clock, logins, device, callback, identity>>
    BY DEF Answered
  <1>2. r \in WireRecords /\ WireInv(r)
    BY DEF IInv, Shape
  <1>3. client[a].at \notin Outside /\ client[a].at # "bind"
    BY <1>1, <1>2 DEF WireRecords, Kinds, Requests, Outside
  <1>4. Running(a)
    BY <1>3, AtStepRuns
  <1>5. CASE r.answer = "ok"
    BY <1>1, <1>2, <1>3, <1>4, <1>5, AdvanceInv DEF WireInv
  <1>6. CASE r.answer # "ok"
    <2>1. r.answer \in Answers
      BY <1>2 DEF WireRecords
    <2> QED BY <1>1, <1>2, <1>4, <1>6, <2>1, FailInv DEF WireInv
  <1> QED BY <1>5, <1>6

LEMMA GivesUpInv ==
  ASSUME IInv, NEW a \in Attempts, GivesUp(a)
  PROVE  IInv'
  BY FailInv DEF GivesUp, Bounded, Answers

LEMMA CallbackComesInv ==
  ASSUME IInv, NEW a \in Attempts, CallbackComes(a)
  PROVE  IInv'
  <1>1. client[a].at = "wait" /\ UNCHANGED <<clock, logins, device, identity>>
        /\ (Advance(a) \/ Fail(a, "none"))
    BY DEF CallbackComes
  <1>2. Running(a)
    BY <1>1, AtStepRuns DEF Outside
  <1> QED BY <1>1, <1>2, AdvanceInv, FailInv DEF Answers

LEMMA CancelEndsInv ==
  ASSUME IInv, NEW a \in Attempts, CancelEnds(a)
  PROVE  IInv'
  <1>1. /\ Shape /\ client[a] \in ClientRecords /\ ListenerInv(a)
        /\ client[a].at = "cancelling" /\ client[a].at # "idle" /\ ~Ended(a)
    BY DEF IInv, Shape, CancelEnds, Ended
  <1>2. /\ client' \in [Attempts -> ClientRecords]
        /\ \A b \in Attempts \ {a} : client'[b] = client[b]
        /\ client'[a].at = "failed" /\ client'[a].mode = client[a].mode
        /\ client'[a].action = client[a].action /\ client'[a].failed = client[a].failed
        /\ client'[a].error = client[a].error
    BY <1>1 DEF CancelEnds, Shape, ClientRecords, Places, Outside
  <1>3. /\ wire' \subseteq wire \cup Sent(a)
        /\ UNCHANGED <<clock, logins, device, listeners, identity>>
    BY DEF CancelEnds
  <1>4. ~Running(a) /\ ~Running(a)'
    BY <1>1, <1>2, StepsAreInside DEF Running, Outside
  <1>5. PlaceInv(a)' /\ ListenerInv(a)'
    BY <1>1, <1>2, <1>3, <1>4 DEF PlaceInv, ListenerInv, PortHeld, Outside
  <1> QED BY <1>1, <1>2, <1>3, <1>5, ClientStep DEF Shape

\* A step of the listener alone.
LEMMA ListenerStep ==
  ASSUME IInv, NEW a \in Attempts, NEW l \in {"listening", "code", "cancelled", "closed"},
         listeners' = [listeners EXCEPT ![a] = l],
         client[a].at # "idle" \/ listeners[a] # "none",
         l # "closed" => Running(a) \/ client[a].failed = "bind",
         UNCHANGED <<clock, client, wire, logins, device, identity>>
  PROVE  IInv'
  <1>1. Shape /\ Shape'
    BY DEF IInv, Shape
  <1>2. listeners'[a] = l /\ \A b \in Attempts \ {a} : listeners'[b] = listeners[b]
    BY <1>1 DEF Shape
  <1>3. ASSUME NEW b \in Attempts
        PROVE  PlaceInv(b)' /\ ListenerInv(b)' /\ LoginInv(b)' /\ OrderInv(b)'
    <2>1. PlaceInv(b) /\ ListenerInv(b) /\ LoginInv(b) /\ OrderInv(b)
      BY DEF IInv
    <2>2. PlaceInv(b)' /\ LoginInv(b)' /\ OrderInv(b)'
      BY <2>1 DEF PlaceInv, LoginInv, OrderInv, Running, Ended
    <2>3. CASE b = a
      BY <1>2, <2>1, <2>2, <2>3 DEF ListenerInv, PortHeld, Running
    <2>4. CASE b # a
      BY <1>2, <2>1, <2>2, <2>4 DEF ListenerInv, PortHeld, Running
    <2> QED BY <2>2, <2>3, <2>4
  <1>4. \A r \in wire' : WireInv(r)'
    BY DEF IInv, WireInv
  <1> QED BY <1>1, <1>3, <1>4 DEF IInv

\* An attempt that is still at its first step goes on; a late one has given up.
LEMMA BoundInv ==
  ASSUME IInv, NEW a \in Attempts, Bound(a)
  PROVE  IInv'
  <1>1. /\ Shape /\ client[a] \in ClientRecords /\ ListenerInv(a)
        /\ listeners[a] = "binding" /\ UNCHANGED <<clock, logins, device, identity>>
    BY DEF IInv, Shape, Bound
  <1>2. CASE /\ client[a].at = "bind" /\ Enters(a, Steps(client[a].mode)[2])
             /\ listeners' = [listeners EXCEPT ![a] = "listening"]
    <2> DEFINE next == Steps(client[a].mode)[2]
    <2>0. 2 \in DOMAIN Steps(client[a].mode)
      <3> DEFINE n == Len(Steps(client[a].mode))
      <3>1. n \in Nat \ {0, 1} /\ DOMAIN Steps(client[a].mode) = 1..n
        BY StepsAreSome
      <3> HIDE DEF n
      <3> QED BY <3>1
    <2>1. 2 \in DOMAIN Steps(client[a].mode) /\ next \in Places \ Outside
      BY <2>0, StepsAreInside
    <2>2. /\ client' \in [Attempts -> ClientRecords]
          /\ \A b \in Attempts \ {a} : client'[b] = client[b]
          /\ client'[a].at = next /\ client'[a].mode = client[a].mode
          /\ client'[a].action = client[a].action
          /\ client'[a].error = client[a].error
          /\ wire' \subseteq wire \cup Sent(a)
      BY <1>1, <1>2, <2>1, EntersEffect
    <2>3. Running(a)'
      BY <2>1, <2>2 DEF Running
    <2> HIDE DEF next
    <2>4. client'[a].at # "idle" /\ client'[a].at # "completed"
          /\ client[a].at # "idle" /\ ~Ended(a)
      BY <1>2, <2>1, <2>2 DEF Outside, Ended
    <2>5. /\ listeners' \in [Attempts -> {"none", "binding", "listening", "code",
                                          "cancelled", "closed"}]
          /\ \A b \in Attempts \ {a} : listeners'[b] = listeners[b]
          /\ listeners'[a] = "listening"
      BY <1>1, <1>2 DEF Shape
    <2>6. PlaceInv(a)' /\ ListenerInv(a)'
      BY <2>3, <2>4, <2>5 DEF PlaceInv, ListenerInv
    <2> QED BY <1>1, <2>2, <2>4, <2>5, <2>6, ClientStep
  <1>3. CASE /\ client[a].at = "bind" /\ UNCHANGED wire
             /\ client' = [client EXCEPT ![a].at = "failed", ![a].failed = "port"]
             /\ listeners' = [listeners EXCEPT ![a] = "closed"]
    <2>1. client[a].at # "idle" /\ ~Ended(a)
      BY <1>3 DEF Ended
    <2>2. /\ client' \in [Attempts -> ClientRecords]
          /\ \A b \in Attempts \ {a} : client'[b] = client[b]
          /\ client'[a].at = "failed" /\ client'[a].mode = client[a].mode
          /\ client'[a].action = client[a].action
          /\ client'[a].error = client[a].error
      BY <1>1, <1>3 DEF Shape, ClientRecords, Places, Outside
    <2>3. /\ listeners' \in [Attempts -> {"none", "binding", "listening", "code",
                                          "cancelled", "closed"}]
          /\ \A b \in Attempts \ {a} : listeners'[b] = listeners[b]
          /\ listeners'[a] = "closed"
      BY <1>1, <1>3 DEF Shape
    <2>4. PlaceInv(a)' /\ ListenerInv(a)'
      BY <2>2, <2>3 DEF PlaceInv, ListenerInv, PortHeld, Outside
    <2> QED BY <1>1, <1>3, <2>1, <2>2, <2>3, <2>4, ClientStep
  <1>4. CASE /\ client[a].at # "bind" /\ UNCHANGED <<client, wire>>
             /\ \/ listeners' = [listeners EXCEPT ![a] = "listening"]
                \/ listeners' = [listeners EXCEPT ![a] = "closed"]
    <2>1. client[a].failed = "bind"
      BY <1>1, <1>4 DEF ListenerInv
    <2> QED BY <1>1, <1>4, <2>1, ListenerStep
  <1> QED BY <1>2, <1>3, <1>4 DEF Bound

LEMMA RedirectedInv ==
  ASSUME IInv, NEW a \in Attempts, NEW result \in {"code", "cancelled"},
         Redirected(a, result)
  PROVE  IInv'
  <1>1. ListenerInv(a) /\ listeners[a] = "listening"
    BY DEF IInv, Redirected
  <1>2. Running(a) \/ client[a].failed = "bind"
    BY <1>1 DEF ListenerInv, PortHeld
  <1> QED BY <1>1, <1>2, ListenerStep DEF Redirected

LEMMA ListenerClosesInv ==
  ASSUME IInv, NEW a \in Attempts, PageSent(a) \/ ListenerTimesOut(a)
  PROVE  IInv'
  BY ListenerStep DEF PageSent, ListenerTimesOut

\* The attempts before are over, so what the one before was told is known.
LEMMA BeginInv ==
  ASSUME IInv, NEW a \in Attempts, NEW mode \in Modes, Begin(a, mode)
  PROVE  IInv'
  <1> DEFINE c == [at |-> Steps(mode)[1], mode |-> mode,
                   action |-> IF mode = "auth" THEN "none" ELSE ActionOf(a),
                   eligible |-> mode = "existing", failed |-> "none", error |-> "none"]
  <1>0. /\ Attempts \subseteq Nat /\ mode \in {"auth", "existing", "full"} /\ Shape
        /\ PlaceInv(a) /\ ListenerInv(a) /\ LoginInv(a) /\ client[a].at = "idle"
    BY DesktopLoginAssumption DEF DesktopLoginAssumption, IInv, Begin
  <1>1. /\ client' = [client EXCEPT ![a] = c] /\ UNCHANGED <<clock, logins, device>>
        /\ \A b \in Attempts : b < a => Ended(b)
        /\ identity' \in BOOLEAN
    BY <1>0 DEF Begin, Shape
  <1>2. 1 \in DOMAIN Steps(mode) /\ Steps(mode)[1] \in Places \ Outside
        /\ Steps(mode)[1] = IF mode = "existing" THEN "start" ELSE "bind"
    BY StepsAreSome, StepsAreInside
  <1>3. c.action \in Actions
        /\ (a - 1 \in Attempts /\ client[a - 1].error = "not_found" => c.action # "resume")
    <2>1. a - 1 \in Attempts /\ client[a - 1].error = "not_found" =>
             client[a - 1].action = "resume"
      BY DEF IInv, LoginInv
    <2>2. ActionOf(a) \in {"register", "resume"}
          /\ (a - 1 \in Attempts /\ client[a - 1].error = "not_found" =>
                ActionOf(a) = "register")
      BY <2>1 DEF ActionOf
    <2>3. c.action = IF mode = "auth" THEN "none" ELSE ActionOf(a)
      OBVIOUS
    <2> HIDE DEF c
    <2> QED BY <2>2, <2>3 DEF Actions
  <1>4. /\ c \in ClientRecords /\ c.at = Steps(mode)[1] /\ c.mode = mode
        /\ c.failed = "none" /\ c.error = "none"
    <2>1. c.eligible \in BOOLEAN
      OBVIOUS
    <2> QED BY <1>0, <1>2, <1>3, <2>1 DEF ClientRecords, Answers
  <1> HIDE DEF c
  <1>5. /\ client' \in [Attempts -> ClientRecords] /\ client'[a] = c
        /\ \A b \in Attempts \ {a} : client'[b] = client[b]
    BY <1>0, <1>1, <1>4 DEF Shape
  <1>6. Running(a)' /\ client'[a].at # "idle" /\ client'[a].at # "completed"
    BY <1>2, <1>4, <1>5 DEF Running, Outside
  <1>7. wire' \subseteq wire \cup Sent(a)
    BY DEF Begin, Sent, Kinds, Requests
  <1>8. /\ listeners' \in [Attempts -> {"none", "binding", "listening", "code",
                                        "cancelled", "closed"}]
        /\ \A b \in Attempts \ {a} : listeners'[b] = listeners[b]
        /\ listeners'[a] = "binding" => client'[a].at = "bind"
    <2>1. listeners[a] = "none"
      BY <1>0 DEF ListenerInv
    <2> QED BY <1>0, <1>2, <1>4, <1>5, <2>1 DEF Begin, Shape
  <1>9. Shape'
    <2>1. Sent(a) \subseteq WireRecords
      BY <1>0, SentAreRecords
    <2> QED BY <1>0, <1>1, <1>5, <1>7, <1>8, <2>1 DEF Shape
  <1>10. ASSUME NEW b \in Attempts
         PROVE  PlaceInv(b)' /\ ListenerInv(b)' /\ LoginInv(b)'
    <2>1. PlaceInv(b) /\ ListenerInv(b) /\ LoginInv(b)
      BY DEF IInv
    <2>2. CASE b = a
      <3>1. logins[a].status = "none"
        BY <1>0 DEF LoginInv
      <3> QED BY <1>1, <1>4, <1>5, <1>6, <1>8, <2>2, <3>1
              DEF PlaceInv, ListenerInv, LoginInv
    <2>3. CASE b # a
      BY <1>1, <1>5, <1>8, <2>1, <2>3 DEF PlaceInv, ListenerInv, LoginInv, Running, PortHeld
    <2> QED BY <2>2, <2>3
  <1>11. ASSUME NEW b \in Attempts
         PROVE  OrderInv(b)'
    <2>1. CASE b = a
      <3>1. \A e \in Attempts : e < a => Ended(e)'
        <4> SUFFICES ASSUME NEW e \in Attempts, e < a
                     PROVE  Ended(e)'
          OBVIOUS
        <4>1. e # a /\ Ended(e)
          BY <1>0, <1>1
        <4> QED BY <1>5, <4>1 DEF Ended
      <3>2. a - 1 # a
        <4>1. a \in Int
          BY <1>0
        <4> QED BY <4>1
      <3> QED BY <1>3, <1>5, <2>1, <3>1, <3>2 DEF OrderInv
    <2>2. CASE b # a /\ client[b].at # "idle"
      <3>1. OrderInv(b) /\ client'[b] = client[b]
        BY <1>5, <2>2 DEF IInv
      <3>2. ~(a < b)
        BY <1>0, <2>2, <3>1 DEF OrderInv, Ended
      <3>3. \A e \in Attempts : e < b => e # a /\ client'[e] = client[e]
        BY <1>5, <3>2
      <3>4. b - 1 < b
        BY <1>0
      <3> QED BY <2>2, <3>1, <3>3, <3>4 DEF OrderInv, Ended
    <2>3. CASE b # a /\ client[b].at = "idle"
      BY <1>5, <2>3 DEF OrderInv
    <2> QED BY <2>1, <2>2, <2>3
  <1>12. ASSUME NEW r \in wire'
         PROVE  WireInv(r)'
    <2>1. CASE r \in wire
      <3>1. WireInv(r) /\ r.attempt \in Attempts /\ r.attempt # a
        BY <1>0, <2>1 DEF IInv, Shape, WireRecords, WireInv
      <3> QED BY <1>1, <1>5, <3>1 DEF WireInv
    <2>2. CASE r \in Sent(a)
      <3>1. r.attempt = a /\ r.answer = "none"
        BY <2>2 DEF Sent, Request
      <3> QED BY <1>6, <3>1 DEF WireInv
    <2> QED BY <1>7, <2>1, <2>2
  <1> QED BY <1>9, <1>10, <1>11, <1>12 DEF IInv

-----------------------------------------------------------------------------
(* Steps of the functions.                                                 *)

\* A transaction: a consumed login stays one, a device stays known, and the
\* answer is worth what WireInv wants.
LEMMA FunctionStep ==
  ASSUME IInv, NEW r \in wire, NEW x \in Answers,
         UNCHANGED <<clock, client, listeners, identity>>,
         logins' \in [Attempts -> LoginRecords],
         \A a \in Attempts :
            /\ logins'[a].status # "none" =>
                  client[a].at # "idle" /\ logins'[a].action = client[a].action
            /\ logins[a].status = "consumed" => logins'[a].status = "consumed",
         device' \in [generation : Nat, active : BOOLEAN],
         device.generation > 0 => device'.generation > 0,
         wire' \subseteq wire \cup {[r EXCEPT !.answer = x, !.sent = 0]},
         r.kind = "redeem" /\ x = "ok" =>
            logins'[r.attempt].status = "consumed" /\ device'.generation > 0,
         x = "not_found" => client[r.attempt].action = "resume"
  PROVE  IInv'
  <1>0. Shape /\ r \in WireRecords /\ WireInv(r)
    BY DEF IInv, Shape
  <1> DEFINE answered == [r EXCEPT !.answer = x, !.sent = 0]
  <1>1. /\ answered \in WireRecords /\ answered.kind = r.kind
        /\ answered.attempt = r.attempt /\ answered.answer = x
    BY <1>0 DEF WireRecords
  <1>2. wire' \subseteq wire \cup {answered}
    OBVIOUS
  <1> HIDE DEF answered
  <1>3. Shape'
    BY <1>0, <1>1, <1>2 DEF Shape
  <1>4. ASSUME NEW a \in Attempts
        PROVE  PlaceInv(a)' /\ ListenerInv(a)' /\ LoginInv(a)' /\ OrderInv(a)'
    <2>1. PlaceInv(a) /\ ListenerInv(a) /\ LoginInv(a) /\ OrderInv(a)
      BY DEF IInv
    <2>2. PlaceInv(a)' /\ ListenerInv(a)' /\ OrderInv(a)'
      BY <2>1 DEF PlaceInv, ListenerInv, OrderInv, Running, Ended, PortHeld
    <2> QED BY <2>1, <2>2 DEF LoginInv
  <1>5. ASSUME NEW q \in wire'
        PROVE  WireInv(q)'
    <2>1. CASE q \in wire
      <3>1. WireInv(q) /\ q.attempt \in Attempts
        BY <1>0, <2>1 DEF IInv, Shape, WireRecords
      <3> QED BY <3>1 DEF WireInv
    <2>2. CASE q = answered
      BY <1>0, <1>1, <2>2 DEF WireInv
    <2> QED BY <1>2, <2>1, <2>2
  <1> QED BY <1>3, <1>4, <1>5 DEF IInv

\* A login of an attempt that has begun changes, as a record of the same action.
LEMMA LoginEffect ==
  ASSUME IInv, NEW r \in wire, NEW l \in LoginRecords,
         l.action = client[r.attempt].action, logins' = [logins EXCEPT ![r.attempt] = l],
         logins[r.attempt].status # "consumed"
  PROVE  /\ logins' \in [Attempts -> LoginRecords] /\ logins'[r.attempt] = l
         /\ \A a \in Attempts :
               /\ logins'[a].status # "none" =>
                     client[a].at # "idle" /\ logins'[a].action = client[a].action
               /\ logins[a].status = "consumed" => logins'[a].status = "consumed"
  <1>1. Shape /\ r.attempt \in Attempts /\ WireInv(r)
    BY DEF IInv, Shape, WireRecords
  <1>2. \A a \in Attempts : LoginInv(a)
    BY DEF IInv
  <1>3. /\ logins' \in [Attempts -> LoginRecords] /\ logins'[r.attempt] = l
        /\ \A a \in Attempts \ {r.attempt} : logins'[a] = logins[a]
    BY <1>1 DEF Shape
  <1> QED BY <1>1, <1>2, <1>3 DEF WireInv, LoginInv

LEMMA LoginUnchanged ==
  ASSUME IInv, UNCHANGED logins
  PROVE  /\ logins' \in [Attempts -> LoginRecords]
         /\ \A a \in Attempts :
               /\ logins'[a].status # "none" =>
                     client[a].at # "idle" /\ logins'[a].action = client[a].action
               /\ logins[a].status = "consumed" => logins'[a].status = "consumed"
  BY DEF IInv, Shape, LoginInv

LEMMA LoginStartInv ==
  ASSUME IInv, NEW r \in wire, LoginStart(r)
  PROVE  IInv'
  <1>1. /\ Shape /\ r.attempt \in Attempts /\ r.kind = "start"
        /\ client[r.attempt] \in ClientRecords
    BY DEF IInv, Shape, WireRecords, LoginStart, Arrived
  <1>2. CASE logins[r.attempt].status = "none"
    <2>0. PICK now \in Readings(r) :
             logins' = [logins EXCEPT ![r.attempt] =
                          [status |-> "pending", action |-> client[r.attempt].action,
                           expires |-> now + LoginTtl, code |-> 0]]
      BY <1>2 DEF LoginStart
    <2> DEFINE l == [status |-> "pending", action |-> client[r.attempt].action,
                     expires |-> now + LoginTtl, code |-> 0]
    <2>1. logins' = [logins EXCEPT ![r.attempt] = l] /\ Answer(r, "ok")
      BY <1>2, <2>0 DEF LoginStart
    <2>2. l \in LoginRecords /\ l.action = client[r.attempt].action
      BY <1>1, ReadingsAreTimes, DesktopLoginAssumption
         DEF LoginRecords, Statuses, ClientRecords, DesktopLoginAssumption
    <2> HIDE DEF l
    <2>3. /\ logins' \in [Attempts -> LoginRecords]
          /\ \A a \in Attempts :
                /\ logins'[a].status # "none" =>
                      client[a].at # "idle" /\ logins'[a].action = client[a].action
                /\ logins[a].status = "consumed" => logins'[a].status = "consumed"
      BY <1>2, <2>1, <2>2, LoginEffect
    <2>4. wire' \subseteq wire \cup {[r EXCEPT !.answer = "ok", !.sent = 0]}
      BY <2>1 DEF Answer
    <2>5. UNCHANGED <<clock, client, device, listeners, identity>>
      BY DEF LoginStart
    <2> QED BY <1>1, <2>3, <2>4, <2>5, FunctionStep DEF Shape, Answers
  <1>3. CASE logins[r.attempt].status # "none"
    <2>1. wire' \subseteq wire \cup {[r EXCEPT !.answer = "refused", !.sent = 0]}
          /\ UNCHANGED <<clock, client, logins, device, listeners, identity>>
      BY <1>3 DEF LoginStart, Answer
    <2> QED BY <1>1, <2>1, LoginUnchanged, FunctionStep DEF Shape, Answers
  <1> QED BY <1>2, <1>3

LEMMA AuthorizeInv ==
  ASSUME IInv, NEW r \in wire, Authorize(r)
  PROVE  IInv'
  <1>1. /\ Shape /\ r.attempt \in Attempts /\ r.kind = "authorize"
        /\ logins[r.attempt] \in LoginRecords
    BY DEF IInv, Shape, WireRecords, Authorize, Arrived
  <1>0. PICK now \in Readings(r) :
           IF Authorizable(logins[r.attempt], now)
           THEN /\ logins' = [logins EXCEPT ![r.attempt].status = "authorized",
                                            ![r.attempt].code = now + CodeTtl]
                /\ Answer(r, "ok")
           ELSE Answer(r, "refused") /\ UNCHANGED logins
    BY DEF Authorize
  <1>2. CASE Authorizable(logins[r.attempt], now)
    <2> DEFINE l == [logins[r.attempt] EXCEPT !.status = "authorized",
                                              !.code = now + CodeTtl]
    <2>1. /\ logins' = [logins EXCEPT ![r.attempt] = l] /\ Answer(r, "ok")
          /\ logins[r.attempt].status = "pending"
      BY <1>0, <1>2 DEF Authorizable
    <2>2. CodeTtl \in Nat /\ now + CodeTtl \in Int
      BY <1>1, ReadingsAreTimes, DesktopLoginAssumption DEF DesktopLoginAssumption
    <2>3. logins[r.attempt].action = client[r.attempt].action
      BY <1>1, <2>1 DEF IInv, LoginInv
    <2>4. l \in LoginRecords /\ l.action = client[r.attempt].action
      BY <1>1, <2>2, <2>3 DEF LoginRecords, Statuses
    <2> HIDE DEF l
    <2>5. /\ logins' \in [Attempts -> LoginRecords]
          /\ \A a \in Attempts :
                /\ logins'[a].status # "none" =>
                      client[a].at # "idle" /\ logins'[a].action = client[a].action
                /\ logins[a].status = "consumed" => logins'[a].status = "consumed"
      BY <2>1, <2>4, LoginEffect
    <2>6. wire' \subseteq wire \cup {[r EXCEPT !.answer = "ok", !.sent = 0]}
      BY <2>1 DEF Answer
    <2>7. UNCHANGED <<clock, client, device, listeners, identity>>
      BY DEF Authorize
    <2> QED BY <1>1, <2>5, <2>6, <2>7, FunctionStep DEF Shape, Answers
  <1>3. CASE ~Authorizable(logins[r.attempt], now)
    <2>1. wire' \subseteq wire \cup {[r EXCEPT !.answer = "refused", !.sent = 0]}
          /\ UNCHANGED <<clock, client, logins, device, listeners, identity>>
      BY <1>0, <1>3 DEF Authorize, Answer
    <2> QED BY <1>1, <2>1, LoginUnchanged, FunctionStep DEF Shape, Answers
  <1> QED BY <1>2, <1>3

\* What a redeem that came to a result does.
RedeemsTo(r, result) ==
    IF result = "ok"
    THEN /\ device' = [generation |-> IF device.generation = 0 THEN 1
                                      ELSE device.generation,
                       active |-> TRUE]
         /\ logins' = [logins EXCEPT ![r.attempt].status = "consumed"]
         /\ \E token \in {"ok", "refused"} : Answer(r, token)
    ELSE Answer(r, result) /\ UNCHANGED <<device, logins>>

\* "ok" is answered to a login that was just consumed, "not found" to one that
\* resumes.
LEMMA RedeemInv ==
  ASSUME IInv, NEW r \in wire, Redeem(r)
  PROVE  IInv'
  <1>0. PICK now \in Readings(r) :
           \E result \in {IF Redeemable(logins[r.attempt], now)
                         THEN DeviceRefusal(logins[r.attempt].action)
                         ELSE "refused"} : RedeemsTo(r, result)
    BY DEF Redeem, RedeemsTo
  <1> DEFINE result == IF Redeemable(logins[r.attempt], now)
                       THEN DeviceRefusal(logins[r.attempt].action) ELSE "refused"
  <1>1. /\ Shape /\ r.attempt \in Attempts /\ r.kind = "redeem"
        /\ logins[r.attempt] \in LoginRecords
        /\ device \in [generation : Nat, active : BOOLEAN]
    BY DEF IInv, Shape, WireRecords, Redeem, Arrived
  <1>2. UNCHANGED <<clock, client, listeners, identity>>
    BY DEF Redeem
  <1>3. Redeemable(logins[r.attempt], now) =>
           /\ logins[r.attempt].status = "authorized"
           /\ logins[r.attempt].action = client[r.attempt].action
    BY <1>1 DEF Redeemable, IInv, LoginInv
  <1>4. /\ result \in {"ok", "refused", "not_found"}
        /\ result = "ok" => Redeemable(logins[r.attempt], now)
        /\ result = "not_found" => client[r.attempt].action = "resume"
    BY <1>3 DEF DeviceRefusal
  <1>5. CASE result = "ok"
    <2> DEFINE l == [logins[r.attempt] EXCEPT !.status = "consumed"]
    <2>1. /\ device' = [generation |-> IF device.generation = 0 THEN 1
                                       ELSE device.generation,
                        active |-> TRUE]
          /\ logins' = [logins EXCEPT ![r.attempt] = l]
          /\ \E token \in {"ok", "refused"} : Answer(r, token)
      BY <1>0, <1>5 DEF RedeemsTo
    <2>2. PICK token \in {"ok", "refused"} : Answer(r, token)
      BY <2>1
    <2>3. /\ l \in LoginRecords /\ l.action = client[r.attempt].action
          /\ l.status = "consumed" /\ logins[r.attempt].status = "authorized"
      BY <1>1, <1>3, <1>4, <1>5 DEF LoginRecords, Statuses
    <2> HIDE DEF l
    <2>4. /\ logins' \in [Attempts -> LoginRecords] /\ logins'[r.attempt] = l
          /\ \A a \in Attempts :
                /\ logins'[a].status # "none" =>
                      client[a].at # "idle" /\ logins'[a].action = client[a].action
                /\ logins[a].status = "consumed" => logins'[a].status = "consumed"
      BY <2>1, <2>3, LoginEffect
    <2>5. /\ device' \in [generation : Nat, active : BOOLEAN]
          /\ device'.generation > 0
      BY <1>1, <2>1
    <2>6. wire' \subseteq wire \cup {[r EXCEPT !.answer = token, !.sent = 0]}
      BY <2>2 DEF Answer
    <2> HIDE DEF result
    <2> QED BY <1>1, <1>2, <2>3, <2>4, <2>5, <2>6, FunctionStep DEF Answers
  <1>6. CASE result # "ok"
    <2>1. Answer(r, result) /\ UNCHANGED <<device, logins>>
      BY <1>0, <1>6 DEF RedeemsTo
    <2> HIDE DEF result
    <2>2. wire' \subseteq wire \cup {[r EXCEPT !.answer = result, !.sent = 0]}
      BY <2>1 DEF Answer
    <2> QED BY <1>1, <1>2, <1>4, <1>6, <2>1, <2>2, LoginUnchanged, FunctionStep
            DEF Answers
  <1> QED BY <1>5, <1>6

LEMMA CancelInv ==
  ASSUME IInv, NEW r \in wire, Cancel(r)
  PROVE  IInv'
  <1>1. /\ Shape /\ r.attempt \in Attempts /\ r.kind = "cancel"
        /\ logins[r.attempt] \in LoginRecords
    BY DEF IInv, Shape, WireRecords, Cancel, Arrived
  <1>2. /\ UNCHANGED <<clock, client, device, listeners, identity>>
        /\ wire' \subseteq wire \cup {[r EXCEPT !.answer = "none", !.sent = 0]}
    BY DEF Cancel
  <1>3. CASE logins[r.attempt].status \in {"pending", "authorized"}
    <2> DEFINE l == [logins[r.attempt] EXCEPT !.status = "cancelled"]
    <2>1. logins' = [logins EXCEPT ![r.attempt] = l]
      BY <1>3 DEF Cancel
    <2>2. logins[r.attempt].action = client[r.attempt].action
      BY <1>1, <1>3 DEF IInv, LoginInv
    <2>3. l \in LoginRecords /\ l.action = client[r.attempt].action
      BY <1>1, <2>2 DEF LoginRecords, Statuses
    <2> HIDE DEF l
    <2>4. /\ logins' \in [Attempts -> LoginRecords]
          /\ \A a \in Attempts :
                /\ logins'[a].status # "none" =>
                      client[a].at # "idle" /\ logins'[a].action = client[a].action
                /\ logins[a].status = "consumed" => logins'[a].status = "consumed"
      BY <1>3, <2>1, <2>3, LoginEffect
    <2> QED BY <1>1, <1>2, <2>4, FunctionStep DEF Shape, Answers
  <1>4. CASE UNCHANGED logins
    BY <1>1, <1>2, <1>4, LoginUnchanged, FunctionStep DEF Shape, Answers
  <1> QED BY <1>3, <1>4 DEF Cancel

\* The device is disabled, or time passes.
LEMMA OutsideInv ==
  ASSUME IInv, Disable \/ Tick
  PROVE  IInv'
  <1>1. /\ UNCHANGED <<client, wire, logins, listeners, identity>>
        /\ clock' \in Nat /\ device' \in [generation : Nat, active : BOOLEAN]
        /\ device'.generation = device.generation
    <2>1. CASE Disable
      BY <2>1 DEF IInv, Shape, Disable
    <2>2. CASE Tick
      BY <2>2 DEF IInv, Shape, Tick
    <2> QED BY <2>1, <2>2
  <1>2. Shape'
    BY <1>1 DEF IInv, Shape
  <1>3. ASSUME NEW a \in Attempts
        PROVE  PlaceInv(a)' /\ ListenerInv(a)' /\ LoginInv(a)' /\ OrderInv(a)'
    <2>1. PlaceInv(a) /\ ListenerInv(a) /\ LoginInv(a) /\ OrderInv(a)
      BY DEF IInv
    <2> QED BY <1>1, <2>1
            DEF PlaceInv, ListenerInv, LoginInv, OrderInv, Running, Ended, PortHeld
  <1>4. \A r \in wire' : WireInv(r)'
    BY <1>1 DEF IInv, WireInv
  <1> QED BY <1>2, <1>3, <1>4 DEF IInv

-----------------------------------------------------------------------------
LEMMA InitInv == Init => IInv
  <1> SUFFICES ASSUME Init
               PROVE  IInv
    OBVIOUS
  <1>1. Shape
    <2>1. device \in [generation : Nat, active : BOOLEAN] /\ identity \in BOOLEAN
      <3>1. device \in {[generation |-> 0, active |-> FALSE],
                        [generation |-> 1, active |-> TRUE]}
        BY DEF Init
      <3>2. \A g \in Nat, x \in BOOLEAN :
               [generation |-> g, active |-> x] \in [generation : Nat, active : BOOLEAN]
        OBVIOUS
      <3>3. device \in [generation : Nat, active : BOOLEAN]
        BY <3>1, <3>2
      <3> QED BY <3>3 DEF Init
    <2>2. Idle \in ClientRecords
      BY DEF Idle, ClientRecords, Places, Outside, Actions, Answers
    <2>3. NoLogin \in LoginRecords
      BY DEF NoLogin, LoginRecords, Actions, Statuses
    <2> QED BY <2>1, <2>2, <2>3 DEF Init, Shape
  <1> QED BY <1>1 DEF Init, IInv, Idle, NoLogin, PlaceInv, ListenerInv, LoginInv, OrderInv,
                      PortHeld, Outside

LEMMA NextInv ==
  ASSUME IInv, [Next]_vars
  PROVE  IInv'
  <1>1. CASE UNCHANGED vars
    BY <1>1 DEF vars, IInv, Shape, PlaceInv, ListenerInv, LoginInv, OrderInv, WireInv,
                Running, Ended, PortHeld
  <1>2. ASSUME NEW a \in Attempts, NEW mode \in Modes, Begin(a, mode)
        PROVE  IInv'
    BY <1>2, BeginInv
  <1>3. ASSUME NEW a \in Attempts,
               \/ Proceeds(a) \/ Answered(a) \/ GivesUp(a) \/ CancelEnds(a)
               \/ CallbackComes(a)
        PROVE  IInv'
    BY <1>3, ProceedsInv, AnsweredInv, GivesUpInv, CancelEndsInv, CallbackComesInv
  <1>4. ASSUME NEW a \in Attempts, Bound(a) \/ PageSent(a) \/ ListenerTimesOut(a)
        PROVE  IInv'
    BY <1>4, BoundInv, ListenerClosesInv
  <1>5. ASSUME NEW a \in Attempts, NEW result \in {"code", "cancelled"},
               Redirected(a, result)
        PROVE  IInv'
    BY <1>5, RedirectedInv
  <1>6. ASSUME NEW r \in wire, LoginStart(r) \/ Authorize(r) \/ Redeem(r) \/ Cancel(r)
        PROVE  IInv'
    BY <1>6, LoginStartInv, AuthorizeInv, RedeemInv, CancelInv
  <1>7. CASE Disable \/ Tick
    BY <1>7, OutsideInv
  <1> QED BY <1>1, <1>2, <1>3, <1>4, <1>5, <1>6, <1>7 DEF Next

LEMMA InvariantHolds == Spec => []IInv
  BY InitInv, NextInv, PTL DEF Spec

\* The port of the loopback listener is held by an attempt that runs, or by one
\* that gave up while its listener was being bound (the finally block of
\* bootstrapProductionDesktopLogin and LoopbackCallbackListener).
THEOREM PortIsTheAttempts == Spec => []PortFollowsAttempt
  <1>1. IInv => PortFollowsAttempt
    BY DEF IInv, ListenerInv, PortFollowsAttempt
  <1> QED BY <1>1, InvariantHolds, PTL

\* An attempt that reports a device consumed its own login, and after one that
\* was refused for want of a device the next is not refused for that again
\* (bootstrapProductionDesktopLogin, shouldRetryDesktopLoginAsRegister).
THEOREM CompletedConsumes == Spec => []CompletedIsConsumed
  <1>1. ASSUME IInv, NEW a \in Attempts, a + 1 \in Attempts,
               client[a].error = "not_found", client[a + 1].error = "not_found"
        PROVE  FALSE
    <2>1. a \in Nat /\ (a + 1) - 1 = a
      BY DesktopLoginAssumption DEF DesktopLoginAssumption
    <2>2. client[a + 1].at # "idle" /\ client[a + 1].action = "resume"
      BY <1>1 DEF IInv, LoginInv
    <2> QED BY <1>1, <2>1, <2>2 DEF IInv, OrderInv
  <1>2. IInv => CompletedIsConsumed
    BY <1>1 DEF IInv, LoginInv, CompletedIsConsumed
  <1> QED BY <1>2, InvariantHolds, PTL

-----------------------------------------------------------------------------
(* What a step may never do.                                               *)

LEMMA DecidedStays ==
  ASSUME Shape, [Next]_vars, NEW a \in Attempts,
         logins[a].status \in {"cancelled", "consumed"}
  PROVE  logins'[a] = logins[a]
  <1>1. CASE UNCHANGED logins
    BY <1>1
  <1>2. ASSUME NEW r \in wire, LoginStart(r) \/ Authorize(r) \/ Redeem(r) \/ Cancel(r)
        PROVE  logins'[a] = logins[a]
    <2>1. CASE LoginStart(r)
      BY <2>1 DEF Shape, LoginStart
    <2>2. CASE Authorize(r)
      BY <2>2 DEF Shape, Authorize, Authorizable
    <2>3. CASE Redeem(r)
      BY <2>3 DEF Shape, Redeem, Redeemable
    <2>4. CASE Cancel(r)
      BY <2>4 DEF Shape, Cancel
    <2> QED BY <1>2, <2>1, <2>2, <2>3, <2>4
  <1>3. ASSUME NEW b \in Attempts,
               \/ \E mode \in Modes : Begin(b, mode)
               \/ Proceeds(b) \/ Answered(b) \/ GivesUp(b) \/ CancelEnds(b)
               \/ Bound(b) \/ PageSent(b) \/ ListenerTimesOut(b) \/ CallbackComes(b)
               \/ \E result \in {"code", "cancelled"} : Redirected(b, result)
        PROVE  UNCHANGED logins
    BY <1>3 DEF Begin, Proceeds, Answered, GivesUp, CancelEnds, Bound, PageSent,
                ListenerTimesOut, CallbackComes, Redirected
  <1>4. Disable \/ Tick => UNCHANGED logins
    BY DEF Disable, Tick
  <1> QED BY <1>1, <1>2, <1>3, <1>4 DEF Next, vars

\* Only Redeem stores a device.
LEMMA StoredByRedeem ==
  ASSUME Shape, [Next]_vars, device' \notin {device, [device EXCEPT !.active = FALSE]}
  PROVE  \E r \in wire : /\ r.kind = "redeem" /\ r.sent < logins[r.attempt].code
                         /\ logins[r.attempt].status = "authorized"
                         /\ logins'[r.attempt].status = "consumed"
  <1>1. ASSUME NEW r \in wire, Redeem(r)
        PROVE  /\ r.kind = "redeem" /\ r.sent < logins[r.attempt].code
               /\ logins[r.attempt].status = "authorized"
               /\ logins'[r.attempt].status = "consumed"
    <2>1. /\ r.attempt \in Attempts /\ r.kind = "redeem" /\ r.sent \in Nat
          /\ logins[r.attempt] \in LoginRecords
      BY <1>1 DEF Shape, WireRecords, Redeem, Arrived
    <2>2. PICK now \in Readings(r) :
             /\ Redeemable(logins[r.attempt], now)
             /\ logins' = [logins EXCEPT ![r.attempt].status = "consumed"]
      BY <1>1 DEF Redeem
    <2>3. logins'[r.attempt].status = "consumed"
      BY <2>1, <2>2 DEF Shape, LoginRecords
    <2>4. now < logins[r.attempt].code /\ logins[r.attempt].status = "authorized"
      BY <2>2 DEF Redeemable
    <2>5. r.sent < logins[r.attempt].code
      BY <2>1, <2>2, <2>4, ReadingsAreTimes DEF LoginRecords
    <2> QED BY <2>1, <2>3, <2>4, <2>5
  <1>2. ASSUME NEW r \in wire, LoginStart(r) \/ Authorize(r) \/ Cancel(r)
        PROVE  UNCHANGED device
    BY <1>2 DEF LoginStart, Authorize, Cancel
  <1>3. ASSUME NEW b \in Attempts,
               \/ \E mode \in Modes : Begin(b, mode)
               \/ Proceeds(b) \/ Answered(b) \/ GivesUp(b) \/ CancelEnds(b)
               \/ Bound(b) \/ PageSent(b) \/ ListenerTimesOut(b) \/ CallbackComes(b)
               \/ \E result \in {"code", "cancelled"} : Redirected(b, result)
        PROVE  UNCHANGED device
    BY <1>3 DEF Begin, Proceeds, Answered, GivesUp, CancelEnds, Bound, PageSent,
                ListenerTimesOut, CallbackComes, Redirected
  <1>4. Disable => device' = [device EXCEPT !.active = FALSE]
    BY DEF Disable
  <1>5. Tick \/ UNCHANGED vars => UNCHANGED device
    BY DEF Tick, vars
  <1> QED BY <1>1, <1>2, <1>3, <1>4, <1>5 DEF Next

\* What was cancelled or consumed stays so, whatever request comes late, and a
\* device is stored only by a login that is authorized, for a request that was
\* sent while its code was alive (desktopLoginRedeem and desktopLoginCancel in
\* functions/src/desktop-login.ts).
THEOREM DecisionsStand == Spec => DecidedStands
  <1> DEFINE Stands ==
        /\ \A a \in Attempts : logins[a].status \in {"cancelled", "consumed"} =>
              logins'[a] = logins[a]
        /\ device' \notin {device, [device EXCEPT !.active = FALSE]} =>
              \E r \in wire : /\ r.kind = "redeem" /\ r.sent < logins[r.attempt].code
                              /\ logins[r.attempt].status = "authorized"
                              /\ logins'[r.attempt].status = "consumed"
  <1>1. IInv /\ [Next]_vars => [Stands]_vars
    BY DecidedStays, StoredByRedeem DEF IInv
  <1> HIDE DEF Stands
  <1>2. Spec => [][Stands]_vars
    BY <1>1, InvariantHolds, PTL DEF Spec
  <1> QED BY <1>2 DEF Stands, DecidedStands
=============================================================================
