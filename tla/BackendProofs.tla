---------------------------- MODULE BackendProofs ----------------------------
(***************************************************************************)
(* What the functions of remote access keep, for any devices, sessions,    *)
(* concurrent calls and leases.                                            *)
(*                                                                         *)
(* A call writes by what it read in an earlier step; between the two the   *)
(* device may be disabled and the session decided.  ReadInv says what each *)
(* kind of call still knows when it writes: an approved session stays      *)
(* approved, so a participant of it stays one, and what the call holds as  *)
(* its time is no later than the clock.  RevokedInv says why a disabled    *)
(* generation cannot come back: a device is behind it, or is disabled.     *)
(***************************************************************************)
EXTENDS Backend, TLAPS

Operations == {"heartbeat", "create", "approve", "reject", "publish", "peer", "turn"}
Stages == {"checked", "ready", "failed", "answered"}

DeviceRecords == [active : BOOLEAN, generation : Nat, expires : Int]

SessionRecords ==
    [status : {"requested", "approved", "rejected"},
     client : Devices, clientGeneration : Nat, host : Devices, hostGeneration : Nat,
     created : Int, expires : Int, decided : Int, closed : Int,
     decider : {None} \cup (Devices \X Nat)]

CallRecords ==
    [op : Operations, stage : Stages, device : Devices, generation : Nat,
     session : Sessions, now : Int, expires : Int,
     recipient : Devices \cup {None}, host : Devices \cup {None},
     hostGeneration : Nat]

SignalRecords ==
    [session : Sessions, sequence : Nat, sender : Devices, recipient : Devices,
     created : Int, expires : Int]

Shape ==
    /\ clock \in Nat
    /\ devices \in [Devices -> DeviceRecords]
    /\ sessions \in [Sessions -> {NoSession} \cup SessionRecords]
    /\ signals \subseteq SignalRecords
    /\ calls \in [Workers -> {Idle} \cup CallRecords]
    /\ revoked \subseteq Devices \X Nat

\* A generation that was disabled is behind its device, or the device is disabled.
RevokedInv ==
    \A d \in Devices, g \in Nat : <<d, g>> \in revoked =>
       /\ 1 =< g /\ g =< devices[d].generation
       /\ g = devices[d].generation => ~devices[d].active

\* What is approved was approved by now.
SessionInv ==
    \A s \in Sessions : sessions[s].status = "approved" => sessions[s].decided =< clock

ApprovedFor(w) ==
    /\ sessions[calls[w].session].status = "approved"
    /\ Participant(sessions[calls[w].session], calls[w].device)

\* What a call read stays true until it writes.
ReadInv(w) ==
    /\ calls[w].stage = "ready" => 0 =< calls[w].now /\ calls[w].now =< clock
    /\ AtStage(w, {"create"}, "ready") =>
          calls[w].host \in Hosts /\ calls[w].host # calls[w].device
    /\ AtStage(w, {"publish"}, "ready") =>
          calls[w].recipient = Recipient(sessions[calls[w].session], calls[w].device)
    /\ AtStage(w, {"publish", "turn"}, "ready") =>
          /\ ApprovedFor(w)
          /\ sessions[calls[w].session].decided =< calls[w].now
          /\ calls[w].now < sessions[calls[w].session].expires

IInv ==
    /\ Shape /\ RevokedInv /\ SessionInv
    /\ \A w \in Workers : ReadInv(w)
    /\ DecisionIsTheHosts
    /\ SessionServices

-----------------------------------------------------------------------------
(* Calls and sessions, one step.                                           *)

\* A call that is somewhere is one that was made.
LEMMA Busy ==
  ASSUME Shape, NEW w \in Workers, calls[w].stage # "idle"
  PROVE  calls[w] \in CallRecords
  BY DEF Shape, Idle

\* A worker is at the stage its call was set to, the others stay where they are.
LEMMA SetEffect ==
  ASSUME Shape, NEW w \in Workers, NEW c \in {Idle} \cup CallRecords, Set(w, c)
  PROVE  /\ calls' \in [Workers -> {Idle} \cup CallRecords]
         /\ calls'[w] = c
         /\ \A v \in Workers \ {w} : calls'[v] = calls[v]
  BY DEF Shape, Set

\* What the calls know does not depend on more than the approved sessions, and
\* on a clock that does not go back.
LEMMA OtherCallKeeps ==
  ASSUME IInv, NEW v \in Workers, calls'[v] = calls[v],
         clock' \in Nat, clock =< clock',
         \A x \in Sessions : sessions[x].status = "approved" => sessions'[x] = sessions[x]
  PROVE  ReadInv(v)' /\ TurnServes(v)'
  <1>1. CASE calls[v].stage = "idle"
    BY <1>1 DEF ReadInv, TurnServes, AtStage
  <1>2. CASE calls[v].stage # "idle"
    <2>1. /\ calls[v] \in CallRecords /\ ReadInv(v) /\ TurnServes(v)
          /\ clock \in Nat
      BY <1>2, Busy DEF IInv, Shape, SessionServices
    <2>2. calls[v].session \in Sessions /\ calls[v].now \in Int
      BY <2>1 DEF CallRecords
    <2>3. TurnServes(v)'
      BY <2>1, <2>2 DEF TurnServes, AtStage, Participant
    <2>4. ReadInv(v)'
      BY <2>1, <2>2 DEF ReadInv, ApprovedFor, AtStage, Participant, Recipient
    <2> QED BY <2>3, <2>4
  <1> QED BY <1>1, <1>2

\* A step of one call that changes nothing else.
LEMMA CallStep ==
  ASSUME IInv, NEW w \in Workers, NEW c \in {Idle} \cup CallRecords, Set(w, c),
         UNCHANGED <<clock, devices, sessions, signals, revoked>>,
         ReadInv(w)', TurnServes(w)'
  PROVE  IInv'
  <1>1. /\ calls' \in [Workers -> {Idle} \cup CallRecords]
        /\ \A v \in Workers \ {w} : calls'[v] = calls[v]
    BY SetEffect DEF IInv
  <1>2. ASSUME NEW v \in Workers
        PROVE  ReadInv(v)' /\ TurnServes(v)'
    <2>1. clock' \in Nat /\ clock =< clock'
      BY DEF IInv, Shape
    <2> QED BY <1>1, <2>1, OtherCallKeeps
  <1>3. Shape'
    BY <1>1 DEF IInv, Shape
  <1>4. RevokedInv' /\ SessionInv' /\ DecisionIsTheHosts'
    BY DEF IInv, RevokedInv, SessionInv, DecisionIsTheHosts
  <1>5. SessionServices'
    BY <1>2 DEF IInv, SessionServices, SignalServes
  <1> QED BY <1>2, <1>3, <1>4, <1>5 DEF IInv

\* A call that ends knows nothing.
LEMMA EndKnows ==
  ASSUME NEW w \in Workers, calls'[w] = Idle \/ calls'[w].stage = "failed"
  PROVE  ReadInv(w)' /\ TurnServes(w)'
  BY DEF Idle, ReadInv, TurnServes, AtStage

LEMMA EndStep ==
  ASSUME IInv, NEW w \in Workers, End(w),
         UNCHANGED <<clock, devices, sessions, signals, revoked>>
  PROVE  IInv'
  <1>1. calls'[w] = Idle /\ Set(w, Idle)
    BY SetEffect DEF IInv, End
  <1> QED BY <1>1, EndKnows, CallStep

\* A call that is checked knows nothing of the session it is for.
LEMMA CallInv ==
  ASSUME IInv, NEW w \in Workers, NEW op \in Operations, NEW d \in Devices,
         NEW s \in Sessions, NEW g \in Nat, NEW to \in Devices,
         NEW e \in ClaimedExpiries, Call(w, op, d, g, s, to, e)
  PROVE  IInv'
  <1> DEFINE now == IF op = "heartbeat" THEN clock ELSE Absent
             expires == CASE op = "publish" -> e
                          [] op = "create" -> clock + SessionLease
                          [] OTHER -> Absent
             recipient == IF op = "publish" THEN to ELSE None
             c == [op |-> op, stage |-> "checked", device |-> d, generation |-> g,
                   session |-> s, now |-> now, expires |-> expires,
                   recipient |-> recipient, host |-> None, hostGeneration |-> 0]
  <1>0. Shape /\ SessionLease \in Nat /\ e \in Int
    BY BackendAssumption DEF IInv, BackendAssumption
  <1>1. Set(w, c) /\ UNCHANGED <<clock, devices, sessions, signals, revoked>>
    BY DEF Call
  <1>2. now \in Int /\ expires \in Int /\ recipient \in Devices \cup {None}
    BY <1>0 DEF Shape, Absent
  <1>3. c \in CallRecords /\ c.stage = "checked"
    <2> HIDE DEF now, expires, recipient
    <2> QED BY <1>2 DEF CallRecords, Stages
  <1> HIDE DEF c
  <1>4. calls'[w] = c
    BY <1>0, <1>1, <1>3, SetEffect
  <1>5. ReadInv(w)' /\ TurnServes(w)'
    BY <1>3, <1>4 DEF ReadInv, TurnServes, AtStage
  <1> QED BY <1>1, <1>3, <1>5, CallStep

LEMMA LookAtHostInv ==
  ASSUME IInv, NEW w \in Workers, LookAtHost(w)
  PROVE  IInv'
  <1>0. Shape /\ calls[w] \in CallRecords /\ calls[w].op = "create"
    BY Busy DEF IInv, LookAtHost, AtStage
  <1>1. UNCHANGED <<clock, devices, sessions, signals, revoked>>
    BY DEF LookAtHost
  <1>2. ASSUME NEW h \in Hosts \ {calls[w].device},
               Set(w, [calls[w] EXCEPT !.stage = "ready", !.now = clock, !.host = h,
                                       !.hostGeneration = devices[h].generation])
        PROVE  IInv'
    <2> DEFINE c == [calls[w] EXCEPT !.stage = "ready", !.now = clock, !.host = h,
                                     !.hostGeneration = devices[h].generation]
    <2>1. devices[h].generation \in Nat /\ clock \in Nat /\ clock \in Int /\ h \in Devices
      BY <1>0 DEF Shape, DeviceRecords, Devices
    <2>2. c \in CallRecords
      BY <1>0, <2>1 DEF CallRecords, Stages
    <2>3. c.op = "create" /\ c.stage = "ready" /\ c.now = clock /\ c.host = h
          /\ c.device = calls[w].device
      BY <1>0 DEF CallRecords
    <2> HIDE DEF c
    <2>4. calls'[w] = c
      BY <1>0, <1>2, <2>2, SetEffect DEF c
    <2>5. ReadInv(w)' /\ TurnServes(w)'
      BY <1>1, <2>1, <2>3, <2>4 DEF ReadInv, TurnServes, AtStage
    <2> QED BY <1>1, <1>2, <2>2, <2>5, CallStep DEF c
  <1>3. CASE End(w)
    BY <1>1, <1>3, EndStep
  <1> QED BY <1>2, <1>3 DEF LookAtHost

LEMMA LookAtSelfInv ==
  ASSUME IInv, NEW w \in Workers, LookAtSelf(w)
  PROVE  IInv'
  <1> DEFINE c == [calls[w] EXCEPT !.stage = "ready", !.now = clock]
  <1>0. /\ Shape /\ calls[w] \in CallRecords /\ calls[w].op \in {"approve", "reject"}
        /\ clock \in Nat /\ clock \in Int
    BY Busy DEF IInv, Shape, LookAtSelf, AtStage
  <1>1. Set(w, c) /\ UNCHANGED <<clock, devices, sessions, signals, revoked>>
    BY DEF LookAtSelf
  <1>2. /\ c \in CallRecords /\ c.op \in {"approve", "reject"}
        /\ c.stage = "ready" /\ c.now = clock
    BY <1>0 DEF CallRecords, Stages
  <1> HIDE DEF c
  <1>3. calls'[w] = c
    BY <1>0, <1>1, <1>2, SetEffect
  <1>4. ReadInv(w)' /\ TurnServes(w)'
    BY <1>0, <1>1, <1>2, <1>3 DEF ReadInv, TurnServes, AtStage
  <1> QED BY <1>1, <1>2, <1>4, CallStep

\* A call that finds the session usable finds it approved, by now.
LEMMA LookAtSessionInv ==
  ASSUME IInv, NEW w \in Workers, LookAtSession(w)
  PROVE  IInv'
  <1> DEFINE c == [calls[w] EXCEPT !.stage = "ready", !.now = clock]
             s == sessions[calls[w].session]
  <1>0. /\ Shape /\ calls[w] \in CallRecords
        /\ calls[w].op \in {"publish", "peer", "turn"} /\ calls[w].stage = "checked"
        /\ clock \in Nat /\ clock \in Int
    BY Busy DEF IInv, Shape, LookAtSession, AtStage
  <1>1. UNCHANGED <<clock, devices, sessions, signals, revoked>>
    BY DEF LookAtSession
  <1>2. CASE End(w)
    BY <1>1, <1>2, EndStep
  <1>3. CASE /\ Set(w, c) /\ Participant(s, calls[w].device) /\ Usable(s, clock)
             /\ calls[w].op = "publish" =>
                   calls[w].recipient = Recipient(s, calls[w].device)
    <2>1. /\ c \in CallRecords /\ c.op = calls[w].op /\ c.session = calls[w].session
          /\ c.device = calls[w].device /\ c.recipient = calls[w].recipient
          /\ c.stage = "ready" /\ c.now = clock
      BY <1>0 DEF CallRecords, Stages
    <2>2. s.status = "approved" /\ s \in SessionRecords /\ clock < s.expires
      <3>1. s \in {NoSession} \cup SessionRecords
        BY <1>0 DEF Shape, CallRecords
      <3>2. s.status \in Connectable /\ ~(clock >= s.expires)
        BY <1>3 DEF Usable, Expired
      <3>3. s \in SessionRecords /\ s.status = "approved"
        BY <3>1, <3>2 DEF NoSession, SessionRecords, Connectable
      <3> QED BY <1>0, <3>2, <3>3 DEF SessionRecords
    <2>3. s.decided =< clock
      BY <1>0, <2>2 DEF IInv, SessionInv, CallRecords
    <2> HIDE DEF c
    <2>4. calls'[w] = c
      BY <1>0, <1>3, <2>1, SetEffect
    <2>5. TurnServes(w)'
      BY <2>1, <2>4 DEF TurnServes, AtStage
    <2>6. ReadInv(w)'
      BY <1>0, <1>1, <1>3, <2>1, <2>2, <2>3, <2>4
         DEF ReadInv, ApprovedFor, AtStage
    <2> QED BY <1>1, <1>3, <2>1, <2>5, <2>6, CallStep
  <1> QED BY <1>2, <1>3 DEF LookAtSession

LEMMA AnswerPeerInv ==
  ASSUME IInv, NEW w \in Workers, AnswerPeer(w)
  PROVE  IInv'
  <1> DEFINE c == [calls[w] EXCEPT !.stage = "answered"]
  <1>0. Shape /\ calls[w] \in CallRecords /\ calls[w].op = "peer"
    BY Busy DEF IInv, AnswerPeer, AtStage
  <1>1. UNCHANGED <<clock, devices, sessions, signals, revoked>>
    BY DEF AnswerPeer
  <1>2. CASE End(w)
    BY <1>1, <1>2, EndStep
  <1>3. CASE Set(w, c)
    <2>1. c \in CallRecords /\ c.op = "peer" /\ c.stage = "answered"
      BY <1>0 DEF CallRecords, Stages
    <2> HIDE DEF c
    <2>2. calls'[w] = c
      BY <1>0, <1>3, <2>1, SetEffect
    <2>3. ReadInv(w)' /\ TurnServes(w)'
      BY <2>1, <2>2 DEF ReadInv, TurnServes, AtStage
    <2> QED BY <1>1, <1>3, <2>1, <2>3, CallStep
  <1> QED BY <1>2, <1>3 DEF AnswerPeer

\* The credentials are cut to the session that was found usable.
LEMMA IssueTurnInv ==
  ASSUME IInv, NEW w \in Workers, IssueTurn(w)
  PROVE  IInv'
  <1> DEFINE s == sessions[calls[w].session]
             e == Smaller(calls[w].now + TurnLease, s.expires)
             c == [calls[w] EXCEPT !.stage = "answered", !.expires = e]
             f == [calls[w] EXCEPT !.stage = "failed"]
  <1>0. /\ Shape /\ calls[w] \in CallRecords /\ calls[w].op = "turn"
        /\ calls[w].stage = "ready" /\ TurnLease \in Nat \ {0}
    BY Busy, BackendAssumption DEF IInv, IssueTurn, AtStage, BackendAssumption
  <1>1. UNCHANGED <<clock, devices, sessions, signals, revoked>>
    BY DEF IssueTurn
  <1>2. CASE Set(w, f)
    <2>1. f \in CallRecords /\ f.stage = "failed"
      BY <1>0 DEF CallRecords, Stages
    <2> HIDE DEF f
    <2>2. calls'[w] = f
      BY <1>0, <1>2, <2>1, SetEffect
    <2> QED BY <1>1, <1>2, <2>1, <2>2, EndKnows, CallStep
  <1>3. CASE Set(w, c)
    <2>1. /\ s.status = "approved" /\ Participant(s, calls[w].device)
          /\ calls[w].now < s.expires
      BY <1>0 DEF IInv, ReadInv, ApprovedFor, AtStage
    <2>2. s.expires \in Int /\ calls[w].now \in Int
      <3>1. s \in {NoSession} \cup SessionRecords
        BY <1>0 DEF Shape, CallRecords
      <3>2. s \in SessionRecords
        BY <2>1, <3>1 DEF NoSession
      <3> QED BY <1>0, <3>2 DEF SessionRecords, CallRecords
    <2>3. e \in Int /\ calls[w].now < e /\ e =< s.expires
      BY <1>0, <2>1, <2>2 DEF Smaller
    <2> HIDE DEF e, s
    <2>4. /\ c \in CallRecords /\ c.op = "turn" /\ c.stage = "answered"
          /\ c.session = calls[w].session /\ c.device = calls[w].device
          /\ c.now = calls[w].now /\ c.expires = e
      BY <1>0, <2>3 DEF CallRecords, Stages
    <2> HIDE DEF c
    <2>5. calls'[w] = c
      BY <1>0, <1>3, <2>4, SetEffect
    <2>6. ReadInv(w)'
      BY <2>4, <2>5 DEF ReadInv, AtStage
    <2>7. TurnServes(w)'
      BY <1>1, <2>1, <2>3, <2>4, <2>5 DEF TurnServes, s
    <2> QED BY <1>1, <1>3, <2>4, <2>6, <2>7, CallStep
  <1> QED BY <1>2, <1>3 DEF IssueTurn

-----------------------------------------------------------------------------
(* The steps that write.                                                   *)

\* A session that is stored, and the call that stored it ends.
LEMMA SessionStep ==
  ASSUME IInv, NEW w \in Workers, NEW x \in Sessions, NEW r \in SessionRecords,
         sessions[x].status # "approved", sessions' = [sessions EXCEPT ![x] = r], End(w),
         UNCHANGED <<clock, devices, signals, revoked>>,
         SessionParses(r), r.client # r.host,
         r.status = "approved" =>
            /\ r.decider = <<r.host, r.hostGeneration>>
            /\ r.created =< r.decided /\ r.decided < r.expires /\ r.decided =< clock
  PROVE  IInv'
  <1>0. Shape /\ sessions' \in [Sessions -> {NoSession} \cup SessionRecords]
        /\ sessions'[x] = r /\ \A y \in Sessions \ {x} : sessions'[y] = sessions[y]
    BY DEF IInv, Shape
  <1>1. /\ calls' \in [Workers -> {Idle} \cup CallRecords] /\ calls'[w] = Idle
        /\ \A v \in Workers \ {w} : calls'[v] = calls[v]
    BY <1>0, SetEffect DEF End
  <1>2. \A y \in Sessions : sessions[y].status = "approved" => sessions'[y] = sessions[y]
    BY <1>0
  <1>3. ASSUME NEW v \in Workers
        PROVE  ReadInv(v)' /\ TurnServes(v)'
    <2>1. clock' \in Nat /\ clock =< clock'
      BY <1>0 DEF Shape
    <2> QED BY <1>1, <1>2, <2>1, EndKnows, OtherCallKeeps
  <1>4. Shape'
    BY <1>0, <1>1 DEF Shape
  <1>5. RevokedInv' /\ SessionInv'
    BY <1>0 DEF IInv, RevokedInv, SessionInv
  <1>6. DecisionIsTheHosts'
    <2> SUFFICES ASSUME NEW y \in Sessions, sessions'[y].status # "none"
                 PROVE  /\ SessionParses(sessions'[y])
                        /\ sessions'[y].client # sessions'[y].host
                        /\ sessions'[y].status = "approved" =>
                              /\ sessions'[y].decider =
                                    <<sessions'[y].host, sessions'[y].hostGeneration>>
                              /\ sessions'[y].created =< sessions'[y].decided
                              /\ sessions'[y].decided < sessions'[y].expires
      BY DEF DecisionIsTheHosts
    <2> QED BY <1>0 DEF IInv, DecisionIsTheHosts
  <1>7. SessionServices'
    <2>1. \A z \in signals : z.session \in Sessions /\ SignalServes(z)
      BY <1>0 DEF IInv, Shape, SignalRecords, SessionServices
    <2>2. \A z \in signals : SignalServes(z)'
      BY <1>2, <2>1 DEF SignalServes
    <2> QED BY <1>3, <2>2 DEF IInv, SessionServices
  <1> QED BY <1>3, <1>4, <1>5, <1>6, <1>7 DEF IInv

LEMMA CreateSessionInv ==
  ASSUME IInv, NEW w \in Workers, CreateSession(w)
  PROVE  IInv'
  <1> DEFINE x == calls[w].session
             r == RequestedSession(w)
  <1>0. /\ Shape /\ calls[w] \in CallRecords /\ x \in Sessions
        /\ calls[w].op = "create" /\ calls[w].stage = "ready"
    BY Busy DEF IInv, CreateSession, AtStage, CallRecords
  <1>1. End(w) /\ UNCHANGED <<clock, devices, signals, revoked>>
    BY DEF CreateSession
  <1>2. CASE UNCHANGED sessions
    BY <1>1, <1>2, EndStep
  <1>3. CASE /\ SessionParses(r) /\ sessions[x].status = "none"
             /\ sessions' = [sessions EXCEPT ![x] = r]
    <2>1. calls[w].host \in Hosts /\ calls[w].host # calls[w].device
      BY <1>0 DEF IInv, ReadInv, AtStage
    <2>2. r \in SessionRecords /\ r.client # r.host /\ r.status = "requested"
      BY <1>0, <2>1 DEF RequestedSession, SessionRecords, CallRecords, Devices, Absent
    <2> HIDE DEF r, x
    <2> QED BY <1>0, <1>1, <1>3, <2>2, SessionStep
  <1> QED BY <1>2, <1>3 DEF CreateSession

LEMMA DecideInv ==
  ASSUME IInv, NEW w \in Workers, Decide(w)
  PROVE  IInv'
  <1> DEFINE x == calls[w].session
             s == sessions[x]
             r == Decided(s, w)
             f == [calls[w] EXCEPT !.stage = "failed"]
  <1>0. /\ Shape /\ calls[w] \in CallRecords /\ x \in Sessions
        /\ calls[w].stage = "ready" /\ calls[w].now \in Int
    BY Busy DEF IInv, Decide, AtStage, CallRecords
  <1>1. UNCHANGED <<clock, devices, signals, revoked>>
    BY DEF Decide
  <1>2. CASE End(w) /\ UNCHANGED sessions
    BY <1>1, <1>2, EndStep
  <1>3. CASE Set(w, f) /\ UNCHANGED sessions
    <2>1. f \in CallRecords /\ f.stage = "failed"
      BY <1>0 DEF CallRecords, Stages
    <2> HIDE DEF f
    <2>2. calls'[w] = f
      BY <1>0, <1>3, <2>1, SetEffect
    <2> QED BY <1>1, <1>3, <2>1, <2>2, EndKnows, CallStep
  <1>4. CASE /\ Actionable(s, w) /\ SessionParses(r) /\ End(w)
             /\ sessions' = [sessions EXCEPT ![x] = r]
    <2>1. /\ s.status = "requested" /\ s.host = calls[w].device
          /\ s.hostGeneration = calls[w].generation /\ calls[w].now < s.expires
      BY <1>4 DEF Actionable
    <2>2. s \in SessionRecords
      BY <1>0, <2>1 DEF Shape, NoSession
    <2>3. 0 =< calls[w].now /\ calls[w].now =< clock
      BY <1>0 DEF IInv, ReadInv
    <2>4. /\ r \in SessionRecords
          /\ r.status \in {"approved", "rejected"}
          /\ r.client = s.client /\ r.host = s.host /\ r.hostGeneration = s.hostGeneration
          /\ r.created = s.created /\ r.expires = s.expires /\ r.decided = calls[w].now
          /\ r.decider = <<calls[w].device, calls[w].generation>>
      BY <1>0, <2>2 DEF Decided, SessionRecords, CallRecords
    <2>5. s.client # s.host
      BY <1>0, <2>1 DEF IInv, DecisionIsTheHosts
    <2>6. r.decided # Absent /\ r.created =< r.decided
      BY <1>0, <1>4, <2>3, <2>4 DEF SessionParses, Timeline, Absent
    <2> HIDE DEF r, x
    <2> QED BY <1>0, <1>1, <1>4, <2>1, <2>3, <2>4, <2>5, <2>6, SessionStep
  <1> QED BY <1>2, <1>3, <1>4 DEF Decide

\* The call that stores a signal found the session approved, for its sender and
\* its recipient, and what it stores is what was signed.
LEMMA PublishSignalInv ==
  ASSUME IInv, NEW w \in Workers, PublishSignal(w)
  PROVE  IInv'
  <1> DEFINE s == sessions[calls[w].session]
             d == calls[w].device
  <1>0. /\ Shape /\ calls[w] \in CallRecords /\ calls[w].op = "publish"
        /\ calls[w].stage = "ready" /\ SignalLease \in Nat \ {0} /\ MaxSignals \in Nat
    BY Busy, BackendAssumption DEF IInv, PublishSignal, AtStage, BackendAssumption
  <1>1. End(w) /\ UNCHANGED <<clock, devices, sessions, revoked>>
    BY DEF PublishSignal
  <1>2. /\ s.status = "approved" /\ Participant(s, d)
        /\ calls[w].recipient = Recipient(s, d)
        /\ s.decided =< calls[w].now /\ calls[w].now < s.expires
    BY <1>0 DEF IInv, ReadInv, ApprovedFor, AtStage
  <1>3. CASE UNCHANGED signals
    BY <1>1, <1>3, EndStep
  <1>4. ASSUME NEW q \in 1..MaxSignals, SignalVerifies(w), ~Taken(SignalOf(w, q)),
               signals' = signals \cup {SignalOf(w, q)}
        PROVE  IInv'
    <2> DEFINE m == SignalOf(w, q)
    <2>1. s \in SessionRecords /\ calls[w].session \in Sessions /\ d \in Devices
          /\ calls[w].expires \in Int /\ calls[w].now \in Int
      <3>1. calls[w].session \in Sessions
        BY <1>0 DEF CallRecords
      <3>2. s \in SessionRecords
        BY <1>0, <1>2, <3>1 DEF Shape, NoSession
      <3> QED BY <1>0, <3>1, <3>2 DEF CallRecords
    <2>2. /\ StoredExpiry(w) \in Int /\ calls[w].now < StoredExpiry(w)
          /\ StoredExpiry(w) =< calls[w].now + SignalLease
      BY <1>0, <1>4, <2>1 DEF StoredExpiry, Smaller, SignalVerifies
    <2>3. Recipient(s, d) \in Devices /\ {d, Recipient(s, d)} = {s.client, s.host}
      BY <1>2, <2>1 DEF Recipient, Participant, SessionRecords
    <2>4. /\ m.session = calls[w].session /\ m.sender = d
          /\ m.recipient = Recipient(s, d) /\ m.created = calls[w].now
          /\ m.expires = StoredExpiry(w)
      BY <1>2 DEF SignalOf
    <2>5. m \in SignalRecords
      BY <1>0, <1>2, <2>1, <2>2, <2>3 DEF SignalRecords, SignalOf
    <2> HIDE DEF m, s, d
    <2>6. /\ calls' \in [Workers -> {Idle} \cup CallRecords] /\ calls'[w] = Idle
          /\ \A v \in Workers \ {w} : calls'[v] = calls[v]
      BY <1>0, <1>1, SetEffect DEF End
    <2>7. ASSUME NEW v \in Workers
          PROVE  ReadInv(v)' /\ TurnServes(v)'
      <3>1. clock' \in Nat /\ clock =< clock'
        BY <1>0, <1>1 DEF Shape
      <3> QED BY <1>1, <2>6, <3>1, EndKnows, OtherCallKeeps
    <2>8. signals' = signals \cup {m}
      BY <1>4 DEF m
    <2>9. Shape'
      BY <1>0, <1>1, <2>5, <2>6, <2>8 DEF Shape
    <2>10. RevokedInv' /\ SessionInv' /\ DecisionIsTheHosts'
      BY <1>1 DEF IInv, RevokedInv, SessionInv, DecisionIsTheHosts
    <2>11. \A x \in signals' : SignalServes(x)'
      <3>1. SignalServes(m)
        BY <1>2, <2>2, <2>3, <2>4 DEF SignalServes, s
      <3> QED BY <1>1, <2>8, <3>1 DEF IInv, SessionServices, SignalServes
    <2>12. \A x, y \in signals' : <<x.session, x.sender, x.sequence>> =
                                     <<y.session, y.sender, y.sequence>> => x = y
      <3>1. ~Taken(m)
        BY <1>4 DEF m
      <3> QED BY <2>8, <3>1 DEF IInv, SessionServices, Taken
    <2> QED BY <2>7, <2>9, <2>10, <2>11, <2>12 DEF IInv, SessionServices
  <1> QED BY <1>3, <1>4 DEF PublishSignal

-----------------------------------------------------------------------------
(* Devices and the clock.                                                  *)

\* A step of a device: the sessions stay, and a call may end with it.
LEMMA DeviceStep ==
  ASSUME IInv, devices' \in [Devices -> DeviceRecords], revoked' \subseteq Devices \X Nat,
         RevokedInv', UNCHANGED <<clock, sessions, signals>>,
         calls' \in [Workers -> {Idle} \cup CallRecords],
         \A w \in Workers : calls'[w] = calls[w] \/ calls'[w] = Idle
  PROVE  IInv'
  <1>1. ASSUME NEW v \in Workers
        PROVE  ReadInv(v)' /\ TurnServes(v)'
    <2>1. clock' \in Nat /\ clock =< clock'
      BY DEF IInv, Shape
    <2> QED BY <2>1, EndKnows, OtherCallKeeps
  <1>2. Shape'
    BY DEF IInv, Shape
  <1>3. SessionInv' /\ DecisionIsTheHosts'
    BY DEF IInv, SessionInv, DecisionIsTheHosts
  <1>4. SessionServices'
    BY <1>1 DEF IInv, SessionServices, SignalServes
  <1> QED BY <1>1, <1>2, <1>3, <1>4 DEF IInv

LEMMA RegisterInv ==
  ASSUME IInv, NEW d \in Devices,
         NEW action \in {"register", "resume", "reenable"}, Register(d, action)
  PROVE  IInv'
  <1>0. /\ Shape /\ RevokedInv /\ PresenceLease \in Nat
        /\ devices[d] \in DeviceRecords /\ clock \in Nat
    BY BackendAssumption DEF IInv, Shape, BackendAssumption
  <1> DEFINE g == RegisteredGeneration(d, action)
             r == [active |-> TRUE, generation |-> g, expires |-> Presence(d, clock)]
  <1>1. g \in Nat /\ Presence(d, clock) \in Int
    BY <1>0 DEF RegisteredGeneration, Presence, DeviceRecords
  <1>2. devices' = [devices EXCEPT ![d] = r] /\ UNCHANGED <<clock, sessions, signals, calls, revoked>>
    BY DEF Register
  <1>3. \/ devices[d].generation = 0 /\ g = 1
        \/ devices[d].generation > 0 /\ devices[d].active /\ g = devices[d].generation
        \/ devices[d].generation > 0 /\ g = devices[d].generation + 1
    BY <1>0 DEF Register, RegistrationRefused, RegisteredGeneration, Known, DeviceRecords
  <1> HIDE DEF g
  <1>4. devices' \in [Devices -> DeviceRecords] /\ devices'[d] = r
        /\ \A e \in Devices \ {d} : devices'[e] = devices[e]
    BY <1>0, <1>1, <1>2 DEF Shape, DeviceRecords
  <1>5. RevokedInv'
    <2> SUFFICES ASSUME NEW e \in Devices, NEW h \in Nat, <<e, h>> \in revoked
                 PROVE  /\ 1 =< h /\ h =< devices'[e].generation
                        /\ h = devices'[e].generation => ~devices'[e].active
      BY <1>2 DEF RevokedInv
    <2>1. 1 =< h /\ h =< devices[e].generation
          /\ (h = devices[e].generation => ~devices[e].active)
      BY <1>0 DEF RevokedInv
    <2>2. CASE e = d
      <3>1. devices[d].generation \in Nat /\ devices'[d].generation = g
        BY <1>0, <1>4 DEF DeviceRecords
      <3>2. h < g
        BY <1>1, <1>3, <2>1, <2>2, <3>1
      <3> QED BY <1>1, <2>1, <2>2, <3>1, <3>2
    <2>3. CASE e # d
      BY <1>4, <2>1, <2>3
    <2> QED BY <2>2, <2>3
  <1>6. revoked' \subseteq Devices \X Nat
    BY <1>0, <1>2 DEF Shape
  <1> QED BY <1>0, <1>2, <1>4, <1>5, <1>6, DeviceStep DEF Shape

LEMMA DisableInv ==
  ASSUME IInv, NEW d \in Devices, Disable(d)
  PROVE  IInv'
  <1>0. Shape /\ RevokedInv /\ devices[d] \in DeviceRecords
    BY DEF IInv, Shape
  <1>1. /\ devices' = [devices EXCEPT ![d].active = FALSE]
        /\ revoked' = revoked \cup {<<d, devices[d].generation>>}
        /\ devices[d].generation > 0 /\ UNCHANGED <<clock, sessions, signals, calls>>
    BY DEF Disable, Known
  <1>2. /\ devices' \in [Devices -> DeviceRecords]
        /\ devices'[d].active = FALSE /\ devices'[d].generation = devices[d].generation
        /\ \A e \in Devices \ {d} : devices'[e] = devices[e]
    BY <1>0, <1>1 DEF Shape, DeviceRecords
  <1>3. revoked' \subseteq Devices \X Nat
    BY <1>0, <1>1 DEF Shape, DeviceRecords
  <1>4. RevokedInv'
    <2> SUFFICES ASSUME NEW e \in Devices, NEW h \in Nat, <<e, h>> \in revoked'
                 PROVE  /\ 1 =< h /\ h =< devices'[e].generation
                        /\ h = devices'[e].generation => ~devices'[e].active
      BY DEF RevokedInv
    <2>1. CASE <<e, h>> \in revoked
      BY <1>0, <1>2, <2>1 DEF RevokedInv
    <2>2. CASE e = d /\ h = devices[d].generation
      BY <1>0, <1>1, <1>2, <2>2 DEF DeviceRecords
    <2> QED BY <1>1, <2>1, <2>2
  <1> QED BY <1>0, <1>1, <1>2, <1>3, <1>4, DeviceStep DEF Shape

\* A heartbeat moves the lease of a device alone.
LEMMA HeartbeatInv ==
  ASSUME IInv, NEW w \in Workers, Heartbeat(w)
  PROVE  IInv'
  <1> DEFINE d == calls[w].device
             p == Presence(d, calls[w].now)
  <1>0. /\ Shape /\ RevokedInv /\ calls[w] \in CallRecords /\ PresenceLease \in Nat
    BY Busy, BackendAssumption DEF IInv, Heartbeat, AtStage, BackendAssumption
  <1>1. End(w) /\ UNCHANGED <<clock, sessions, signals, revoked>>
    BY DEF Heartbeat
  <1>2. /\ calls' \in [Workers -> {Idle} \cup CallRecords] /\ calls'[w] = Idle
        /\ \A v \in Workers \ {w} : calls'[v] = calls[v]
    BY <1>0, <1>1, SetEffect DEF End
  <1>3. /\ devices' \in [Devices -> DeviceRecords]
        /\ \A e \in Devices : /\ devices'[e].active = devices[e].active
                              /\ devices'[e].generation = devices[e].generation
    <2>1. d \in Devices /\ p \in Int
      BY <1>0 DEF CallRecords, Presence
    <2>2. devices' = devices \/ devices' = [devices EXCEPT ![d].expires = p]
      BY DEF Heartbeat
    <2> HIDE DEF d, p
    <2> QED BY <1>0, <2>1, <2>2 DEF Shape, DeviceRecords
  <1>4. RevokedInv' /\ revoked' \subseteq Devices \X Nat
    BY <1>0, <1>1, <1>3 DEF Shape, RevokedInv
  <1> QED BY <1>1, <1>2, <1>3, <1>4, DeviceStep

LEMMA TickInv ==
  ASSUME IInv, Tick
  PROVE  IInv'
  <1>1. clock' \in Nat /\ clock =< clock' /\ clock \in Nat
        /\ UNCHANGED <<devices, sessions, signals, calls, revoked>>
    BY DEF IInv, Shape, Tick
  <1>2. ASSUME NEW v \in Workers
        PROVE  ReadInv(v)' /\ TurnServes(v)'
    BY <1>1, OtherCallKeeps
  <1>3. Shape' /\ RevokedInv' /\ DecisionIsTheHosts'
    BY <1>1 DEF IInv, Shape, RevokedInv, DecisionIsTheHosts
  <1>4. SessionInv'
    <2> SUFFICES ASSUME NEW s \in Sessions, sessions[s].status = "approved"
                 PROVE  sessions[s].decided =< clock'
      BY <1>1 DEF SessionInv
    <2>1. sessions[s].decided \in Int /\ sessions[s].decided =< clock
      BY DEF IInv, Shape, SessionInv, NoSession, SessionRecords
    <2> QED BY <1>1, <2>1
  <1>5. SessionServices'
    BY <1>1, <1>2 DEF IInv, SessionServices, SignalServes
  <1> QED BY <1>2, <1>3, <1>4, <1>5 DEF IInv

-----------------------------------------------------------------------------
LEMMA InitInv == Init => IInv
  BY DEF Init, IInv, Shape, RevokedInv, SessionInv, ReadInv, AtStage, Idle, NoSession,
         NoDevice, DeviceRecords, DecisionIsTheHosts, SessionServices, SignalServes,
         TurnServes

LEMMA NextInv ==
  ASSUME IInv, [Next]_vars
  PROVE  IInv'
  <1>1. CASE UNCHANGED vars
    BY <1>1, DeviceStep DEF IInv, Shape, RevokedInv, vars
  <1>2. ASSUME NEW w \in Workers, CallSome(w)
        PROVE  IInv'
    <2>1. PICK op \in Operations, d \in Devices, s \in Sessions :
             \E g \in 1..devices[d].generation, to \in Devices, e \in ClaimedExpiries :
                Call(w, op, d, g, s, to, e)
      BY <1>2 DEF CallSome, Operations
    <2>2. PICK g \in 1..devices[d].generation, to \in Devices, e \in ClaimedExpiries :
             Call(w, op, d, g, s, to, e)
      BY <2>1
    <2>3. g \in Nat
      BY DEF IInv, Shape, DeviceRecords
    <2> QED BY <2>2, <2>3, CallInv
  <1>3. ASSUME NEW w \in Workers, Told(w)
        PROVE  IInv'
    BY <1>3, EndStep DEF Told
  <1>4. ASSUME NEW w \in Workers, Proceed(w)
        PROVE  IInv'
    BY <1>3, <1>4, HeartbeatInv, LookAtHostInv, CreateSessionInv, LookAtSelfInv,
       DecideInv, LookAtSessionInv, PublishSignalInv, AnswerPeerInv, IssueTurnInv
       DEF Proceed
  <1>5. ASSUME NEW d \in Devices, NEW action \in {"register", "resume", "reenable"},
               Register(d, action)
        PROVE  IInv'
    BY <1>5, RegisterInv
  <1>6. ASSUME NEW d \in Devices, Disable(d)
        PROVE  IInv'
    BY <1>6, DisableInv
  <1>7. CASE Tick
    BY <1>7, TickInv
  <1> QED BY <1>1, <1>2, <1>4, <1>5, <1>6, <1>7 DEF Next

LEMMA InvariantHolds == Spec => []IInv
  BY InitInv, NextInv, PTL DEF Spec

\* Every session that is stored parses, has two devices, and was approved, if it
\* was, by the host it names, with the generation it names, within its lease
\* (createRemoteSession and decideRemoteSession in functions/src/index.ts).
THEOREM HostDecides == Spec => []DecisionIsTheHosts
  <1>1. IInv => DecisionIsTheHosts
    BY DEF IInv
  <1> QED BY <1>1, InvariantHolds, PTL

\* Whatever devices ask for, a signal is stored and TURN credentials are given only
\* for an approved session, between its two devices and while it lives, although
\* the session was read in an earlier step (publishSignal, issueTurnCredentials).
THEOREM ServicesFit == Spec => []SessionServices
  <1>1. IInv => SessionServices
    BY DEF IInv
  <1> QED BY <1>1, InvariantHolds, PTL

-----------------------------------------------------------------------------
(* What a step may never do.                                               *)

\* A call in progress changes the place of its own worker alone.
LEMMA Progress ==
  ASSUME Shape, NEW v \in Workers, Proceed(v)
  PROVE  /\ calls[v] # Idle
         /\ \A w \in Workers \ {v} : calls'[w] = calls[w]
         /\ UNCHANGED <<clock, revoked>>
         /\ ~Heartbeat(v) => UNCHANGED devices
  <1>1. \A c : Set(v, c) => \A w \in Workers \ {v} : calls'[w] = calls[w]
    BY DEF Shape, Set
  <1>2. CASE Heartbeat(v)
    BY <1>1, <1>2 DEF Heartbeat, AtStage, End, Idle
  <1>3. CASE LookAtHost(v)
    BY <1>1, <1>3 DEF LookAtHost, AtStage, End, Idle
  <1>4. CASE CreateSession(v)
    BY <1>1, <1>4 DEF CreateSession, AtStage, End, Idle
  <1>5. CASE LookAtSelf(v)
    BY <1>1, <1>5 DEF LookAtSelf, AtStage, End, Idle
  <1>6. CASE Decide(v)
    BY <1>1, <1>6 DEF Decide, AtStage, End, Idle
  <1>7. CASE LookAtSession(v)
    BY <1>1, <1>7 DEF LookAtSession, AtStage, End, Idle
  <1>8. CASE PublishSignal(v)
    BY <1>1, <1>8 DEF PublishSignal, AtStage, End, Idle
  <1>9. CASE AnswerPeer(v)
    BY <1>1, <1>9 DEF AnswerPeer, AtStage, End, Idle
  <1>10. CASE IssueTurn(v) \/ Told(v)
    BY <1>1, <1>10 DEF IssueTurn, Told, AtStage, End, Idle
  <1> QED BY <1>2, <1>3, <1>4, <1>5, <1>6, <1>7, <1>8, <1>9, <1>10 DEF Proceed

\* A session that is decided is neither created nor actionable.
LEMMA DecidedStays ==
  ASSUME [Next]_vars, NEW x \in Sessions, Shape,
         sessions[x].status \in {"approved", "rejected"}
  PROVE  sessions'[x] = sessions[x]
  <1>1. CASE UNCHANGED sessions
    BY <1>1
  <1>2. ASSUME NEW w \in Workers, CreateSession(w)
        PROVE  sessions'[x] = sessions[x]
    BY <1>2 DEF CreateSession, Shape
  <1>3. ASSUME NEW w \in Workers, Decide(w)
        PROVE  sessions'[x] = sessions[x]
    BY <1>3 DEF Decide, Actionable, Shape
  <1>4. ASSUME NEW w \in Workers, Proceed(w), ~CreateSession(w), ~Decide(w)
        PROVE  UNCHANGED sessions
    BY <1>4 DEF Proceed, Heartbeat, LookAtHost, LookAtSelf, LookAtSession, PublishSignal,
                AnswerPeer, IssueTurn, Told
  <1>5. ASSUME NEW w \in Workers, CallSome(w)
        PROVE  UNCHANGED sessions
    BY <1>5 DEF CallSome, Call
  <1>6. (\E d \in Devices, action \in {"register", "resume", "reenable"} :
            Register(d, action)) \/ (\E d \in Devices : Disable(d)) \/ Tick =>
        UNCHANGED sessions
    BY DEF Register, Disable, Tick
  <1> QED BY <1>1, <1>2, <1>3, <1>4, <1>5, <1>6 DEF Next, vars

\* A decided session does not change (decideRemoteSession reads it again in its
\* transaction, createRemoteSession creates and never overwrites).
THEOREM DecisionsStand == Spec => DecisionStands
  <1>1. IInv /\ [Next]_vars =>
           [\A x \in Sessions : sessions[x].status \in {"approved", "rejected"} =>
                sessions'[x] = sessions[x]]_vars
    BY DecidedStays DEF IInv
  <1> QED BY <1>1, InvariantHolds, PTL DEF Spec, DecisionStands

\* A device that passes the check is not disabled.
LEMMA ActiveIsNotRevoked ==
  ASSUME RevokedInv, NEW d \in Devices, NEW g \in Nat, ActiveDevice(d, g)
  PROVE  <<d, g>> \notin revoked
  BY DEF RevokedInv, ActiveDevice

LEMMA CheckedIsNotRevoked ==
  ASSUME IInv, [Next]_vars, NEW w \in Workers, calls[w] = Idle,
         calls'[w].stage = "checked"
  PROVE  <<calls'[w].device, calls'[w].generation>> \notin revoked
  <1>0. Shape /\ RevokedInv /\ calls'[w] # calls[w]
    BY DEF IInv, Idle
  <1>1. ASSUME NEW v \in Workers, Proceed(v)
        PROVE  FALSE
    BY <1>0, <1>1, Progress
  <1>2. ASSUME NEW v \in Workers, CallSome(v)
        PROVE  <<calls'[w].device, calls'[w].generation>> \notin revoked
    <2>1. PICK op \in Operations, d \in Devices, s \in Sessions :
             \E g \in 1..devices[d].generation, to \in Devices, e \in ClaimedExpiries :
                Call(v, op, d, g, s, to, e)
      BY <1>2 DEF CallSome, Operations
    <2>2. PICK g \in 1..devices[d].generation, to \in Devices, e \in ClaimedExpiries :
             Call(v, op, d, g, s, to, e)
      BY <2>1
    <2>3. PICK c : Set(v, c) /\ c.device = d /\ c.generation = g /\ ActiveDevice(d, g)
      BY <2>2 DEF Call
    <2>4. v = w /\ calls'[w] = c
      BY <1>0, <2>3 DEF Shape, Set
    <2>5. g \in Nat
      BY <1>0 DEF Shape, DeviceRecords
    <2> QED BY <1>0, <2>3, <2>4, <2>5, ActiveIsNotRevoked
  <1>3. (\E d \in Devices, action \in {"register", "resume", "reenable"} :
            Register(d, action)) \/ (\E d \in Devices : Disable(d)) \/ Tick =>
        UNCHANGED calls
    BY DEF Register, Disable, Tick
  <1> QED BY <1>0, <1>1, <1>2, <1>3 DEF Next, vars

\* Presence is given to the generation that is registered, and to one that is
\* still active when its heartbeat is stored.
LEMMA RefreshedIsNotRevoked ==
  ASSUME IInv, [Next]_vars, NEW d \in Devices, devices'[d].expires > devices[d].expires
  PROVE  <<d, devices'[d].generation>> \notin revoked
  <1>0. /\ Shape /\ RevokedInv /\ RevokedInv' /\ Shape' /\ devices'[d] # devices[d]
        /\ devices[d].expires \in Int
    BY NextInv DEF IInv, Shape, DeviceRecords
  <1>1. ASSUME NEW e \in Devices, NEW action \in {"register", "resume", "reenable"},
               Register(e, action)
        PROVE  <<d, devices'[d].generation>> \notin revoked
    <2>1. d = e /\ devices'[d].active /\ revoked' = revoked
      BY <1>0, <1>1 DEF Register, Shape
    <2>2. devices'[d].generation \in Nat
      BY <1>0 DEF Shape, DeviceRecords
    <2> QED BY <1>0, <2>1, <2>2 DEF RevokedInv
  <1>2. ASSUME NEW w \in Workers, Heartbeat(w)
        PROVE  <<d, devices'[d].generation>> \notin revoked
    <2>1. /\ d = calls[w].device /\ ActiveDevice(d, calls[w].generation)
          /\ devices'[d].generation = devices[d].generation
      BY <1>0, <1>2 DEF Heartbeat, StillActive, Shape, DeviceRecords
    <2>2. devices[d].generation \in Nat /\ ActiveDevice(d, devices[d].generation)
      BY <1>0, <2>1 DEF ActiveDevice, Shape, DeviceRecords
    <2> QED BY <1>0, <2>1, <2>2, ActiveIsNotRevoked
  <1>3. ASSUME NEW w \in Workers, Proceed(w), ~Heartbeat(w)
        PROVE  FALSE
    BY <1>0, <1>3, Progress
  <1>4. ASSUME NEW e \in Devices, Disable(e)
        PROVE  FALSE
    BY <1>0, <1>4 DEF Disable, Shape, DeviceRecords
  <1>5. ASSUME NEW w \in Workers, CallSome(w)
        PROVE  FALSE
    BY <1>0, <1>5 DEF CallSome, Call
  <1>6. Tick => UNCHANGED devices
    BY DEF Tick
  <1> QED BY <1>0, <1>1, <1>2, <1>3, <1>4, <1>5, <1>6 DEF Next, vars

\* A disabled generation stays refused: no registration, resumption or enabling
\* lets a call of it through the check, and no heartbeat that was let in before
\* brings it back (registerDevice, assertActiveDevice, heartbeatDevice).
THEOREM RevocationHolds == Spec => RevocationIsFinal
  <1> DEFINE Final ==
        /\ \A w \in Workers : calls[w] = Idle /\ calls'[w].stage = "checked" =>
              <<calls'[w].device, calls'[w].generation>> \notin revoked
        /\ \A d \in Devices : devices'[d].expires > devices[d].expires =>
              <<d, devices'[d].generation>> \notin revoked
  <1>1. IInv /\ [Next]_vars => [Final]_vars
    BY CheckedIsNotRevoked, RefreshedIsNotRevoked
  <1> HIDE DEF Final
  <1>2. Spec => [][Final]_vars
    BY <1>1, InvariantHolds, PTL DEF Spec
  <1> QED BY <1>2 DEF Final, RevocationIsFinal

=============================================================================
